------------------------------ MODULE Numerics ------------------------------
(***************************************************************************)
(* The numeric operators of WasmOps, called one after another and checked  *)
(* against definitions that share nothing with them: what a quotient, a    *)
(* shift, a truncation, a minimum or a store is.                           *)
(***************************************************************************)
EXTENDS WasmOps, TLC

CONSTANTS
    Wide,   \* the 64-bit patterns that are tried
    Addresses, \* the pointers and offsets
    Memory  \* the bytes of the linear memory a call finds

VARIABLES
    call,  \* the operator called last, with its operands
    res    \* what it returned

vars == <<call, res>>

IntTypes == {"i32", "u32", "i64", "u64"}
Patterns(ty) == IF Bits(ty) > Bits("u32") THEN Wide ELSE 0 .. 2 ^ Bits(ty) - 1
Call(family, ty, to, op, l, r) ==
    [family |-> family, ty |-> ty, to |-> to, op |-> op, l |-> l, r |-> r]

Idle == Call("none", "i32", "i32", "none", 0, 0)

Free == call.family = "none"

Init == call = Idle /\ res = Ok(0)

Divide ==
    /\ Free
    /\ \E ty \in IntTypes, op \in {"div", "rem"}, l, r \in Wide \cup Patterns("u32") :
        /\ {l, r} \subseteq Patterns(ty)
        /\ call' = Call("divide", ty, ty, op, l, r)
        /\ res' = Binary(ty, op, l, r)

Shift ==
    /\ Free
    /\ \E ty \in {"i32", "i64"}, op \in ShiftOps, l, r \in Wide \cup Patterns("u32") :
        /\ {l, r} \subseteq Patterns(ty)
        /\ call' = Call("shift", ty, ty, op, l, r)
        /\ res' = Binary(ty, op, l, r)

Choose ==
    /\ Free
    /\ \E ty \in Floats, op \in {"min", "max"}, l, r \in Wide \cup Patterns("u32") :
        /\ {l, r} \subseteq Patterns(ty)
        /\ call' = Call("choose", ty, ty, op, l, r)
        /\ res' = Binary(ty, op, l, r)

Compute ==
    /\ Free
    /\ \E ty \in Floats, op \in {"add", "sub", "mul", "div"}, l, r \in Wide \cup Patterns("u32") :
        /\ {l, r} \subseteq Patterns(ty)
        /\ call' = Call("compute", ty, ty, op, l, r)
        /\ res' = Binary(ty, op, l, r)

Round ==
    /\ Free
    /\ \E ty \in Floats, op \in {"ceil", "floor", "trunc", "nearest", "sqrt"}, x \in Wide \cup Patterns("u32") :
        /\ x \in Patterns(ty)
        /\ call' = Call("round", ty, ty, op, x, 0)
        /\ res' = Unary(ty, ty, op, x)

Truncate ==
    /\ Free
    /\ \E ty \in Floats, to \in IntTypes, op \in {"try_truncate", "truncate_sat"}, x \in Wide \cup Patterns("u32") :
        /\ x \in Patterns(ty)
        /\ call' = Call("truncate", ty, to, op, x, 0)
        /\ res' = Unary(ty, to, op, x)

\* A number of the type `ty` back from its float.
Convert ==
    /\ Free
    /\ \E ty \in IntTypes, to \in Floats, x \in Wide \cup Patterns("u32") :
        /\ x \in Patterns(ty)
        /\ call' = Call("convert", ty, to, "convert", x, 0)
        /\ res' = Unary(ty, to, "convert", x)

\* A value stored and loaded again at the same address.
Access ==
    /\ Free
    /\ \E ty \in {"i8", "u8", "i16", "u16", "i32", "u64"}, ptr, offset \in Addresses, v \in Wide :
        LET s == store_wrap(Memory, ty, ptr, offset, v)
        IN  /\ call' = Call("access", ty, "i64", v, ptr, offset)
            /\ res' = IF s.trap # "None" THEN s
                      ELSE [load_extend(s.v, "i64", ty, ptr, offset) EXCEPT !.v = <<@, s.v>>]

Widen ==
    /\ Free
    /\ \E op \in {"add", "sub", "mul"}, l, r \in Wide :
        /\ call' = Call("widen", "i64", "i64", op, l, r)
        /\ res' = Ok(CASE op = "add" -> i64_add128(<<l, r>>, <<r, l>>)
                       [] op = "sub" -> i64_sub128(<<l, r>>, <<r, l>>)
                       [] op = "mul" -> mul_wide("i64", l, r))

Return == ~Free /\ call' = Idle /\ res' = Ok(0)

Next == Divide \/ Shift \/ Choose \/ Compute \/ Round \/ Truncate \/ Convert \/ Access \/ Widen \/ Return

Spec == Init /\ [][Next]_vars

-----------------------------------------------------------------------------
Is(family) == call.family = family
Left == Num(call.ty, call.l)
Right == Num(call.ty, call.r)
Result == Num(call.ty, res.v)

\* `div` rounds towards zero and `rem` is what it leaves, with the sign of the
\* dividend; a zero divisor traps, and so does the one quotient that has no
\* pattern, while its remainder is 0 (Integer::div_s, rem_s, div_u, rem_u).
DivisionExact ==
    Is("divide") =>
        IF Right = 0 THEN res.trap = "IntegerDivisionByZero"
        ELSE \E q \in -(2 ^ Bits(call.ty)) .. 2 ^ Bits(call.ty) :
                LET m == Left - q * Right
                IN  /\ Abs(m) < Abs(Right) /\ (m = 0 \/ (m < 0) = (Left < 0))
                    /\ IF call.op = "rem" THEN res = Ok(Wrap(Bits(call.ty), m))
                       ELSE IF q > MaxOf(call.ty) THEN res.trap = "IntegerOverflow"
                       ELSE res = Ok(Wrap(Bits(call.ty), q))

\* Shifts and rotations move bits by the amount modulo the width; what a shift
\* to the right brings in is the sign or zeroes (Integer::shl .. rotr).
ShiftsMoveBits ==
    Is("shift") =>
        LET w == Bits(call.ty)
            n == call.r % w
        IN  \A i \in 0 .. w - 1 :
                Bit(res.v, i) = CASE call.op = "shl" -> IF i >= n THEN Bit(call.l, i - n) ELSE 0
                                  [] call.op = "shr_u" -> IF i + n < w THEN Bit(call.l, i + n) ELSE 0
                                  [] call.op = "shr_s" -> Bit(call.l, IF i + n < w THEN i + n ELSE w - 1)
                                  [] call.op = "rotl" -> Bit(call.l, (i - n) % w)
                                  [] call.op = "rotr" -> Bit(call.l, (i + n) % w)

\* min and max return one of their operands, no other is smaller (larger), the
\* negative zero is below the positive one, and a NaN wins (Float::min, max).
MinMaxChooses ==
    Is("choose") =>
        LET nan == IsNan(call.ty, call.l) \/ IsNan(call.ty, call.r)
            Rank(x) == IF x = SignBit(call.ty) THEN -1 ELSE 2 * Order(call.ty, x)
            m == IF call.op = "min" THEN 1 ELSE -1
        IN  IF nan THEN IsNan(call.ty, res.v)
            ELSE /\ res.v \in {call.l, call.r}
                 /\ \A x \in {call.l, call.r} : m * Rank(res.v) <= m * Rank(x)

\* A truncation succeeds exactly when the number without its fraction fits the
\* type, and the saturating one then agrees; else it is the nearest bound, and
\* 0 for a NaN (try_truncate_into, truncate_saturate_into).
TruncationExact ==
    Is("truncate") =>
        LET mag == Mag(call.ty, call.l)
            \* |x| >= n, without a division
            AtLeast(n) == mag = Inf(call.ty) \/
                LET s == Sig(call.ty, mag)
                    p == Pow(call.ty, mag)
                IN  IF p >= 0 THEN s * 2 ^ p >= n ELSE s >= n * 2 ^ (-p)
            neg == Neg(call.ty, call.l)
            high == ~neg /\ AtLeast(MaxOf(call.to) + 1)
            low == neg /\ AtLeast(1 - MinOf(call.to))
            n == Num(call.to, res.v)
        IN  CASE IsNan(call.ty, call.l) ->
                    IF call.op = "truncate_sat" THEN res = Ok(0) ELSE res.trap = "BadConversionToInteger"
              [] ~IsNan(call.ty, call.l) /\ (high \/ low) ->
                    IF call.op = "try_truncate" THEN res.trap = "IntegerOverflow"
                    ELSE res.trap = "None" /\ n = IF high THEN MaxOf(call.to) ELSE MinOf(call.to)
              [] ~IsNan(call.ty, call.l) /\ ~high /\ ~low ->
                    res.trap = "None" /\ AtLeast(Abs(n)) /\ ~AtLeast(Abs(n) + 1) /\ (n # 0 => (n < 0) = neg)

\* Under the deterministic profile every NaN an arithmetic operator returns is
\* the canonical one (canonicalize_nan_if_enabled at each of them).
NansCanonical ==
    (Is("choose") \/ Is("compute") \/ Is("round")) /\ DETERMINISTIC /\ IsNan(call.ty, res.v)
        => res.v = CanonicalNan(call.ty)

\* A load after a store at the same address sees the stored value at its width
\* and no other byte has changed; both fail exactly when the last byte is past
\* the end, or the address does not fit (store_wrap, load_extend).
LoadSeesStore ==
    Is("access") =>
        LET n == Bytes(call.ty)
            ea == call.l + call.r
        IN  IF ea + n > Len(Memory) THEN res.trap = "MemoryOutOfBounds"
            ELSE /\ res.trap = "None"
                 /\ res.v[1] = Cast(call.ty, "i64", call.op)
                 /\ \A i \in 1 .. Len(Memory) : i \notin ea + 1 .. ea + n => res.v[2][i] = Memory[i]

\* The halves of a 128-bit result are those of the exact sum, difference or
\* product modulo 2^128 (i64_add128, i64_sub128, i64_mul_wide_s).
WideExact ==
    Is("widen") =>
        LET M == 2 ^ Bits("u64")
            full == res.v[2] * M + res.v[1]
            lr == call.r * M + call.l
            rl == call.l * M + call.r
        IN  CASE call.op = "add" -> full = (lr + rl) % (M * M)
              [] call.op = "sub" -> full = (lr - rl) % (M * M)
              [] call.op = "mul" -> full = (Left * Right) % (M * M)

\* The scalar operators against their reference definitions, and every result a
\* pattern of its type.
ScalarsExact ==
    /\ call.family \in {"divide", "shift", "choose", "compute", "round", "convert"} /\ res.trap = "None"
        => res.v \in 0 .. 2 ^ Bits(call.to) - 1
    /\ DivisionExact /\ ShiftsMoveBits /\ MinMaxChooses /\ TruncationExact /\ NansCanonical /\ WideExact

=============================================================================
