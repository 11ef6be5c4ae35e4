----------------------------- MODULE MCConsumer -----------------------------
(* Consumer instantiated for TLC: buffers of up to MaxLen bytes drawn from *)
(* 0, 1 and 255 (so a two-byte GetInt yields 0, 1, 255, 256, 257, 511 and  *)
(* the negatives -1, -255, -256), and one shape of each composite kind.   *)
EXTENDS Consumer

Int16 == [kind |-> "int"]
Flag == [kind |-> "bool"]

MCShapes ==
  { [kind |-> "struct", fields |-> << [kind |-> "ptr", elem |-> Int16], Flag >>],
    [kind |-> "struct", fields |-> << [kind |-> "bytes"], [kind |-> "slice", elem |-> Flag] >>],
    [kind |-> "slice", elem |-> [kind |-> "struct", fields |-> <<Flag, Flag>>]],
    [kind |-> "map", key |-> [kind |-> "bytes"], elem |-> Flag] }
=============================================================================
