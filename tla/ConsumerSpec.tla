---------------------------- MODULE ConsumerSpec ----------------------------
(***************************************************************************)
(* What the structured fuzz consumer promises its callers, stated without *)
(* any encoding: the fuzz input is a stream of bytes that calls consume   *)
(* from the front.                                                         *)
(*                                                                         *)
(*  - a successful call consumes a non-empty prefix of what is left and   *)
(*    its result is made of that prefix only;                             *)
(*  - a failed call (Exhausted) drains the stream, so every later call    *)
(*    fails too: nothing is ever read after the first exhaustion;         *)
(*  - nothing outside the input is ever read.                             *)
(*                                                                         *)
(* The detailed byte-level model, Consumer, is checked to implement this  *)
(* module; the harness modules use it directly as their input source.     *)
(***************************************************************************)
EXTENDS Naturals, Sequences

VARIABLES
  rest,                 \* the bytes not yet consumed
  got,                  \* the bytes the last call consumed
  ok                    \* FALSE iff the last call returned Exhausted

vars == <<rest, got, ok>>

(* The stream starts as the whole buffer handed to NewConsumer.          *)
Init ==
  /\ rest \in Seq(0..255)
  /\ got = <<>>
  /\ ok = TRUE

(* A call that succeeds having consumed the first k bytes of the stream.  *)
Consume(k) ==
  /\ k \in 1..Len(rest)
  /\ got' = SubSeq(rest, 1, k)
  /\ rest' = SubSeq(rest, k + 1, Len(rest))
  /\ ok' = TRUE

(* A call that returns Exhausted: the stream is left empty.               *)
Exhaust ==
  /\ got' = rest
  /\ rest' = <<>>
  /\ ok' = FALSE

Call ==
  \/ \E k \in 1..Len(rest) : Consume(k)
  \/ Exhaust

Next == Call

Spec == Init /\ [][Next]_vars

=============================================================================
