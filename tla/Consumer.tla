------------------------------ MODULE Consumer ------------------------------
(***************************************************************************)
(* The structured fuzz consumer (fuzz.NewConsumer of go-fuzz-headers),    *)
(* byte by byte, as spec.md section 4.1 describes it: an immutable buffer *)
(* and a read cursor, and typed pull operations that each consume a       *)
(* self-describing number of bytes.  The library is not part of this      *)
(* repository, so every definition here is modelled from spec.md.         *)
(*                                                                         *)
(* Every operation is a pure operator Op(b, c) of the buffer b and the    *)
(* cursor c, returning [ok, cur, val]: whether it succeeded, the cursor   *)
(* after it, and (for primitives) the value.  A failed read moves the     *)
(* cursor to the end of the buffer, which is the Exhausted state of the   *)
(* spec's state machine (Fresh -> Reading -> Exhausted, terminal).        *)
(***************************************************************************)
EXTENDS Integers, Sequences, SequencesExt

CONSTANTS
  Bytes,      \* the byte values buffers are made of, a subset of 0..255
  MaxLen,     \* the longest buffer checked
  IntWidth,   \* bytes read by GetInt (the spec leaves 4 or 8 to the library)
  Shapes      \* the record shapes handed to GenerateStruct / CreateSlice

ASSUME Bytes \subseteq 0..255 /\ IntWidth \in 1..8 /\ MaxLen \in Nat
\* a struct with no field would be filled from no input at all
ASSUME \A s \in Shapes : s.kind = "struct" => s.fields # <<>>

VARIABLES
  buf,        \* the buffer, fixed at construction
  cursor,     \* number of bytes consumed
  got,        \* the bytes the last call consumed
  ok          \* FALSE iff the last call returned Exhausted

vars == <<buf, cursor, got, ok>>

Fail(b) == [ok |-> FALSE, cur |-> Len(b), val |-> "none", whole |-> FALSE]

(* Mutant: a short read that leaves the cursor where it was.              *)
TakeKeepsCursor(b, c, n) ==
  IF c + n <= Len(b)
    THEN [ok |-> TRUE, cur |-> c + n, val |-> SubSeq(b, c + 1, c + n), whole |-> TRUE]
    ELSE [ok |-> FALSE, cur |-> c, val |-> "none", whole |-> FALSE]

(* Read exactly n bytes at cursor c, or fail and drain the buffer.  whole *)
(* tells a value read in full from one cut short by the end of input.     *)
Take(b, c, n) ==
  IF c + n <= Len(b)
    THEN [ok |-> TRUE, cur |-> c + n, val |-> SubSeq(b, c + 1, c + n), whole |-> TRUE]
    ELSE Fail(b)

(* Little-endian unsigned value of a byte sequence.                       *)
RECURSIVE LittleEndian(_)
LittleEndian(s) ==
  IF s = <<>> THEN 0 ELSE Head(s) + 256 * LittleEndian(Tail(s))

(* Two's complement reading of IntWidth bytes: negative values are legal. *)
Signed(s) ==
  LET u == LittleEndian(s)
      w == 2^(8 * Len(s))
  IN  IF 2 * u >= w THEN u - w ELSE u

GetBool(b, c) ==
  LET t == Take(b, c, 1)
  IN  IF t.ok THEN [t EXCEPT !.val = (t.val[1] % 2 = 1)] ELSE t

GetInt(b, c) ==
  LET t == Take(b, c, IntWidth)
  IN  IF t.ok THEN [t EXCEPT !.val = Signed(t.val)] ELSE t

(* Mutant: a length prefix trusted as it is, negative values included.    *)
ClampRaw(v, b, c) == v

(* A raw length prefix reduced against what is left, never beyond it.     *)
Clamp(v, b, c) == v % (Len(b) - c + 1)

(* GetBytes and GetString: a length prefix, then that many bytes.  A Go   *)
(* string converted from bytes keeps every byte, so they consume alike.   *)
GetBytes(b, c) ==
  LET p == GetInt(b, c)
  IN  IF p.ok THEN Take(b, p.cur, Clamp(p.val, b, p.cur)) ELSE p

GetString(b, c) == GetBytes(b, c)

(***************************************************************************)
(* GenerateStruct populates a shape recursively, in field order.  A       *)
(* pointer field first reads a presence flag (odd = present).  A struct   *)
(* stops at the first field the buffer cannot satisfy and reports what    *)
(* was filled; only a struct of which nothing could be filled fails.      *)
(* Slices and maps read a count prefix, clamped to what is left, then     *)
(* that many elements, stopping early without error when input runs out   *)
(* mid-element; an element cut short is not kept.  A slice's value is the *)
(* sequence of its elements' values, a map's the mapping its entries      *)
(* build, a later entry overwriting an earlier one with the same key.     *)
(***************************************************************************)
(* for _, e := range entries { m[e.key] = e.value }                       *)
MapOf(entries) ==
  FoldLeft(LAMBDA m, e : (e[1] :> e[2]) @@ m, [k \in {} |-> 0], entries)

RECURSIVE Generate(_, _, _), Fields(_, _, _, _), Elements(_, _, _, _, _)

Generate(s, b, c) ==
  CASE s.kind = "bool"   -> GetBool(b, c)
    [] s.kind = "int"    -> GetInt(b, c)
    [] s.kind = "bytes"  -> GetBytes(b, c)
    [] s.kind = "ptr"    ->
         LET f == GetBool(b, c)
         IN  IF f.ok /\ f.val THEN Generate(s.elem, b, f.cur) ELSE f
    [] s.kind = "struct" -> Fields(s.fields, b, c, TRUE)
    [] s.kind = "slice"  ->
         LET p == GetInt(b, c)
         IN  IF p.ok THEN Elements(s, Clamp(p.val, b, p.cur), b, p.cur, <<>>) ELSE p
    [] s.kind = "map"    ->
         LET p == GetInt(b, c)
             r == Elements(s, Clamp(p.val, b, p.cur), b, p.cur, <<>>)
         IN  IF p.ok THEN [r EXCEPT !.val = MapOf(r.val)] ELSE p

(* first: no field of this struct has been filled yet.                    *)
Fields(fs, b, c, first) ==
  IF fs = <<>> THEN [ok |-> TRUE, cur |-> c, val |-> "struct", whole |-> TRUE]
  ELSE LET f == Generate(Head(fs), b, c)
       IN  CASE ~f.ok /\ first -> f
             [] ~f.ok          -> [ok |-> TRUE, cur |-> Len(b), val |-> "partial", whole |-> FALSE]
             [] OTHER          -> Fields(Tail(fs), b, f.cur, FALSE)

(* Mutant: a slice element cut short by the end of input kept as well.    *)
ElementKeepsPartial(s, b, c) ==
  IF s.kind = "map"
    THEN LET k == Generate(s.key, b, c)
             v == Generate(s.elem, b, k.cur)
         IN  IF k.whole /\ v.whole
               THEN [ok |-> TRUE, cur |-> v.cur, val |-> <<k.val, v.val>>, whole |-> TRUE]
               ELSE Fail(b)
    ELSE Generate(s.elem, b, c)

(* One element: a slice element, or a map key followed by its value.      *)
Element(s, b, c) ==
  IF s.kind = "map"
    THEN LET k == Generate(s.key, b, c)
             v == Generate(s.elem, b, k.cur)
         IN  IF k.whole /\ v.whole
               THEN [ok |-> TRUE, cur |-> v.cur, val |-> <<k.val, v.val>>, whole |-> TRUE]
               ELSE Fail(b)
    ELSE LET e == Generate(s.elem, b, c)
         IN  IF e.whole THEN e ELSE Fail(b)

(* Up to n more elements from cursor c; acc holds those produced so far.  *)
Elements(s, n, b, c, acc) ==
  IF n = 0 THEN [ok |-> TRUE, cur |-> c, val |-> acc, whole |-> TRUE]
  ELSE LET e == Element(s, b, c)
       IN  IF e.ok THEN Elements(s, n - 1, b, e.cur, Append(acc, e.val))
           ELSE [ok |-> TRUE, cur |-> Len(b), val |-> acc, whole |-> TRUE]

GenerateStruct(s, b, c) == Generate(s, b, c)
CreateSlice(s, b, c) == Generate(s, b, c)
FuzzMap(s, b, c) == Generate(s, b, c)

-----------------------------------------------------------------------------
(* One call of the consumer by its caller, recorded in got and ok.        *)
Apply(r) ==
  /\ cursor' = r.cur
  /\ got' = SubSeq(buf, cursor + 1, r.cur)
  /\ ok' = r.ok
  /\ UNCHANGED buf

Init ==
  /\ buf \in BoundedSeq(Bytes, MaxLen)
  /\ cursor = 0
  /\ got = <<>>
  /\ ok = TRUE

CallGetBool == Apply(GetBool(buf, cursor))
CallGetInt == Apply(GetInt(buf, cursor))
CallGetString == Apply(GetString(buf, cursor))
CallGetBytes == Apply(GetBytes(buf, cursor))
CallGenerateStruct == \E s \in {x \in Shapes : x.kind = "struct"} : Apply(GenerateStruct(s, buf, cursor))
CallCreateSlice == \E s \in {x \in Shapes : x.kind = "slice"} : Apply(CreateSlice(s, buf, cursor))
CallFuzzMap == \E s \in {x \in Shapes : x.kind = "map"} : Apply(FuzzMap(s, buf, cursor))

Next ==
  \/ CallGetBool
  \/ CallGetInt
  \/ CallGetString
  \/ CallGetBytes
  \/ CallGenerateStruct
  \/ CallCreateSlice
  \/ CallFuzzMap

Spec == Init /\ [][Next]_vars

-----------------------------------------------------------------------------
TypeOK ==
  /\ buf \in BoundedSeq(Bytes, MaxLen)
  /\ cursor \in 0..Len(buf)
  /\ got \in BoundedSeq(Bytes, MaxLen)
  /\ ok \in BOOLEAN

(* The refinement mapping: what is left of the stream is the buffer from  *)
(* the cursor on.                                                          *)
Abstract == INSTANCE ConsumerSpec WITH
  rest <- SubSeq(buf, cursor + 1, Len(buf))

(* Every sequence of typed calls on one buffer consumes it from the front *)
(* in non-empty prefixes, never reads past its end, and once one call has *)
(* returned Exhausted every later call returns Exhausted as well.          *)
ConsumerRefinesSpec == Abstract!Spec

(* The bytes one element of a fixed-size shape takes (bools, ints and      *)
(* structs of them), or -1 for a shape whose size depends on the input.   *)
RECURSIVE Width(_)
Width(s) ==
  CASE s.kind = "bool"   -> 1
    [] s.kind = "int"    -> IntWidth
    [] s.kind = "struct" /\ \A i \in DOMAIN s.fields : Width(s.fields[i]) > 0 ->
         FoldLeft(LAMBDA acc, f : acc + Width(f), 0, s.fields)
    [] OTHER             -> -1

(* spec.md 4.1 and scenario 3: CreateSlice, wherever in the buffer it is  *)
(* called, yields as many elements as the clamped count asks for, or as   *)
(* many whole elements as the rest of the buffer holds if that is fewer; *)
(* it never fails once its count has been read.                            *)
SliceLengthMatchesReference ==
  \A c \in 0..Len(buf), s \in {x \in Shapes : x.kind = "slice" /\ Width(x.elem) > 0} :
    LET p == GetInt(buf, c)
        r == CreateSlice(s, buf, c)
    IN  p.ok =>
          /\ r.ok
          /\ Len(r.val) = Min({Clamp(p.val, buf, p.cur), (Len(buf) - p.cur) \div Width(s.elem)})

=============================================================================
