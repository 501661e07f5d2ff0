---------------------------- MODULE FuncBuckets ----------------------------
(***************************************************************************)
(* Index arithmetic of `Funcs`, the bucketed function table of the engine's *)
(* code map.  Bucket n holds 2^(LEN_BUCKET0_LOG2 + n) entries, so a global  *)
(* function index is located by the position of the leading bit of         *)
(* index + LEN_BUCKET0.                                                     *)
(***************************************************************************)
EXTENDS Integers

CONSTANT LEN_BUCKET0_LOG2   \* 5 in the engine

ASSUME BucketAssumption == /\ LEN_BUCKET0_LOG2 \in 0..30
                           /\ 2 ^ LEN_BUCKET0_LOG2 \in Nat \ {0}

LEN_BUCKET0 == 2 ^ LEN_BUCKET0_LOG2

\* The bits up to the leading bit of the word j: every m with 2^m <= j.  The code
\* computes in u64; an index is at most MAX_FUNCS < 2^27, so bits from 31 up are
\* never set.
BitsUpTo(j) == {m \in 0..30 : 2 ^ m <= j}

\* 63 - j.leading_zeros(), the floor of the binary logarithm of j >= 1.
Msb(j) == CHOOSE m \in BitsUpTo(j) : \A k \in BitsUpTo(j) : k <= m

\* Funcs::locate, first component.
bucket_of(func) == Msb(func + LEN_BUCKET0) - LEN_BUCKET0_LOG2

\* Funcs::locate, second component.
slot_of(func) == func + LEN_BUCKET0 - 2 ^ Msb(func + LEN_BUCKET0)

\* Funcs::required_buckets_for_len
required_buckets_for_len(len) ==
    IF len = 0 THEN 0
    ELSE Msb(len - 1 + LEN_BUCKET0) - LEN_BUCKET0_LOG2 + 1

\* Funcs::size_of_bucket_at
size_of_bucket_at(n) == 2 ^ (LEN_BUCKET0_LOG2 + n)
=============================================================================
