----------------------------- MODULE MCLowerSim -----------------------------
(***************************************************************************)
(* Instances of LowerSim: an i32 has 4 bits, an i64 8, a byte 1; a float   *)
(* has an exponent of 2 or 4 bits.                                         *)
(***************************************************************************)
EXTENDS LowerSim

NarrowFew == {0, 1, 2, 7, 8, 9, 15}
WideFew == {0, 1, 8, 127, 128, 255}
CopyFew == (0 .. 7) \cup {63}
AllRows == Lower
=============================================================================
