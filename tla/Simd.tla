-------------------------------- MODULE Simd --------------------------------
(***************************************************************************)
(* The vector operators of the interpreter (crates/core/src/simd.rs).      *)
(*                                                                         *)
(* A V128 is the sequence of its 16 bytes, the lowest first; a byte has    *)
(* BYTE bits (WasmOps).  The view of a vector as lanes of a type is a      *)
(* function from the lane indices 0 .. LANES - 1 to patterns.  A function  *)
(* of simd.rs is named [sh, op, sx]: `i16x8_add_sat_u` is                  *)
(* Fn("i16", "add_sat", "u"), `v128_not` is Fn("v128", "not", "").         *)
(***************************************************************************)
EXTENDS WasmOps

Fn(sh, op, sx) == [sh |-> sh, op |-> op, sx |-> sx]

V128Bytes == 16
LANES(ty) == V128Bytes \div Bytes(ty)
LaneIdxs(ty) == 0 .. LANES(ty) - 1

\* The type of the lanes, and the ones half and twice as wide.
Unsigned(sh) == CASE sh = "i8" -> "u8" [] sh = "i16" -> "u16" [] sh = "i32" -> "u32" [] sh = "i64" -> "u64"
Half(sh) == CASE sh = "i16" -> "i8" [] sh = "i32" -> "i16" [] sh = "i64" -> "i32" [] sh = "f64" -> "i32"
Twice(sh) == CASE sh = "i8" -> "i16" [] sh = "i16" -> "i32"
LaneOf(sh, sx) == IF sx = "u" THEN Unsigned(sh) ELSE sh

from_v128(ty, v) == [i \in LaneIdxs(ty) |-> FromLe(v, i * Bytes(ty), Bytes(ty))]
into_v128(ty, lanes) ==
    [k \in 1 .. V128Bytes |->
        (lanes[(k - 1) \div Bytes(ty)] \div 2 ^ (BYTE * ((k - 1) % Bytes(ty)))) % 2 ^ BYTE]

ImmLaneIdx(ty, lane) == lane % LANES(ty)
splat(ty, x) == into_v128(ty, [i \in LaneIdxs(ty) |-> x])
extract_lane(ty, v, lane) == from_v128(ty, v)[ImmLaneIdx(ty, lane)]
replace_lane(ty, v, lane, x) == into_v128(ty, [from_v128(ty, v) EXCEPT ![ImmLaneIdx(ty, lane)] = x])

-----------------------------------------------------------------------------
\* How the lanes of the operands meet (traits Lanes, FromNarrow, FromWide):
\* f is the function of one lane of each.

LaneSet(ty) == 0 .. 2 ^ Bits(ty) - 1

lanewise_unary(ty, f, v) ==
    LET a == from_v128(ty, v) IN into_v128(ty, [i \in LaneIdxs(ty) |-> f[a[i]]])
lanewise_binary(ty, f, l, r) ==
    LET a == from_v128(ty, l)
        b == from_v128(ty, r)
    IN  into_v128(ty, [i \in LaneIdxs(ty) |-> f[a[i], b[i]]])
lanewise_ternary(ty, f, x, y, z) ==
    LET a == from_v128(ty, x)
        b == from_v128(ty, y)
        c == from_v128(ty, z)
    IN  into_v128(ty, [i \in LaneIdxs(ty) |-> f[a[i], b[i], c[i]]])
lanewise_comparison(ty, f, l, r) ==
    lanewise_binary(ty, [a, b \in LaneSet(ty) |-> IF f[a, b] THEN 2 ^ Bits(ty) - 1 ELSE 0], l, r)

pairwise_unary(narrow, wide, f, v) ==
    LET a == from_v128(narrow, v)
    IN  into_v128(wide, [i \in LaneIdxs(wide) |-> f[a[2 * i], a[2 * i + 1]]])
pairwise_binary(narrow, wide, f, l, r) ==
    LET a == from_v128(narrow, l)
        b == from_v128(narrow, r)
    IN  into_v128(wide, [i \in LaneIdxs(wide) |-> f[a[2 * i], a[2 * i + 1], b[2 * i], b[2 * i + 1]]])
low_unary(narrow, wide, f, v) ==
    LET a == from_v128(narrow, v) IN into_v128(wide, [i \in LaneIdxs(wide) |-> f[a[i]]])
high_unary(narrow, wide, f, v) ==
    LET a == from_v128(narrow, v) IN into_v128(wide, [i \in LaneIdxs(wide) |-> f[a[i + LANES(wide)]]])
from_low_binary(narrow, wide, f, l, r) ==
    LET a == from_v128(narrow, l)
        b == from_v128(narrow, r)
    IN  into_v128(wide, [i \in LaneIdxs(wide) |-> f[a[i], b[i]]])
from_high_binary(narrow, wide, f, l, r) ==
    LET a == from_v128(narrow, l)
        b == from_v128(narrow, r)
    IN  into_v128(wide, [i \in LaneIdxs(wide) |-> f[a[i + LANES(wide)], b[i + LANES(wide)]]])
from_low_high(narrow, wide, f, low, high) ==
    LET a == from_v128(wide, low)
        b == from_v128(wide, high)
    IN  into_v128(narrow, [i \in LaneIdxs(narrow) |->
                              IF i < LANES(wide) THEN f[a[i]] ELSE f[b[i - LANES(wide)]]])
low_or(narrow, wide, zero, f, v) ==
    LET a == from_v128(wide, v)
    IN  into_v128(narrow, [i \in LaneIdxs(narrow) |-> IF i < LANES(wide) THEN f[a[i]] ELSE zero])

-----------------------------------------------------------------------------
\* What happens to the values of one lane.

Clamp(ty, n) == Wrap(Bits(ty), IF n < MinOf(ty) THEN MinOf(ty) ELSE IF n > MaxOf(ty) THEN MaxOf(ty) ELSE n)

q15mulr_sat(x, y) ==
    LET w == Bits("i16") IN Clamp("i16", (Signed(w, x) * Signed(w, y) + 2 ^ (w - 2)) \div 2 ^ (w - 1))
avgr(a, b) == (a + b + 1) \div 2
pmin(ty, l, r) == IF float_cmp(ty, "lt", r, l) THEN r ELSE l
pmax(ty, l, r) == IF float_cmp(ty, "lt", l, r) THEN r ELSE l
extmul(narrow, wide, a, b) == Wrap(Bits(wide), Num(narrow, a) * Num(narrow, b))
extadd(narrow, wide, a, b) == Wrap(Bits(wide), Num(narrow, a) + Num(narrow, b))
dot(narrow, wide, a0, a1, b0, b1) ==
    Wrap(Bits(wide), Num(narrow, a0) * Num(narrow, b0) + Num(narrow, a1) * Num(narrow, b1))
wrapping_shift(ty, op, v, rhs) == shift(ty, IF op = "shl" THEN op ELSE IF IsSigned(ty) THEN "shr_s" ELSE "shr_u", v, rhs)

\* Fused multiply and add: one rounding (external).
HwFma(ty, l, r, c) ==
    LET p == HwMul(ty, l, r)
        finite == \A x \in {l, r, c} : Mag(ty, x) < Inf(ty)
        S(x) == IF Neg(ty, x) THEN -1 ELSE 1
        a == Mag(ty, l)
        b == Mag(ty, r)
        d == Mag(ty, c)
        pe == Pow(ty, a) + Pow(ty, b)
        e == IF pe < Pow(ty, d) THEN pe ELSE Pow(ty, d)
        n == S(l) * S(r) * Sig(ty, a) * Sig(ty, b) * 2 ^ (pe - e) + S(c) * Sig(ty, d) * 2 ^ (Pow(ty, d) - e)
    IN  IF ~finite THEN IF IsNan(ty, p) /\ ~IsNan(ty, l) /\ ~IsNan(ty, r) /\ IsNan(ty, c) THEN into_quiet_nan(ty, c)
                        ELSE HwAdd(ty, p, c)
        ELSE WithSign(ty, n < 0 \/ (n = 0 /\ Neg(ty, l) # Neg(ty, r) /\ Neg(ty, c)), RoundMag(ty, Abs(n), e))
mul_add(ty, a, b, c) == canonicalize_nan_if_enabled(ty, HwFma(ty, a, b, c))
neg_mul_add(ty, a, b, c) == mul_add(ty, HwNeg(ty, a), b, c)

-----------------------------------------------------------------------------
\* The functions with one, two and three vectors.

ShuffleIdx(s, i) == s[i] % 32
i8x16_shuffle(a, b, s) ==
    [i \in 1 .. V128Bytes |-> IF ShuffleIdx(s, i) < 16 THEN a[ShuffleIdx(s, i) + 1] ELSE b[ShuffleIdx(s, i) - 15]]
i8x16_swizzle(a, s) == [i \in 1 .. V128Bytes |-> IF s[i] < 16 THEN a[s[i] + 1] ELSE 0]

IntUnary(ty, op, v) ==
    LET w == Bits(ty)
    IN  CASE op = "neg" -> lanewise_unary(ty, [x \in LaneSet(ty) |-> Wrap(w, -Signed(w, x))], v)
          [] op = "abs" -> lanewise_unary(ty, [x \in LaneSet(ty) |-> Wrap(w, Abs(Signed(w, x)))], v)
          [] op = "not" -> lanewise_unary(ty, [x \in LaneSet(ty) |-> 2 ^ w - 1 - x], v)
          [] op = "popcnt" -> lanewise_unary(ty, [x \in LaneSet(ty) |-> Wrap(w, bitcount(ty, "popcnt", x))], v)

FloatUnary(ty, op, v) ==
    CASE op = "neg" -> lanewise_unary(ty, [x \in LaneSet(ty) |-> fneg(ty, x)], v)
      [] op = "abs" -> lanewise_unary(ty, [x \in LaneSet(ty) |-> fabs(ty, x)], v)
      [] op \in {"sqrt", "ceil", "floor", "trunc", "nearest"} ->
            lanewise_unary(ty, [x \in LaneSet(ty) |-> fround(ty, op, x)], v)

IntBinary(ty, op, l, r) ==
    LET w == Bits(ty)
        N(x) == Num(ty, x)
    IN  CASE op = "add" -> lanewise_binary(ty, [a, b \in LaneSet(ty) |-> Wrap(w, N(a) + N(b))], l, r)
          [] op = "sub" -> lanewise_binary(ty, [a, b \in LaneSet(ty) |-> Wrap(w, N(a) - N(b))], l, r)
          [] op = "mul" -> lanewise_binary(ty, [a, b \in LaneSet(ty) |-> Wrap(w, N(a) * N(b))], l, r)
          [] op = "add_sat" -> lanewise_binary(ty, [a, b \in LaneSet(ty) |-> Clamp(ty, N(a) + N(b))], l, r)
          [] op = "sub_sat" -> lanewise_binary(ty, [a, b \in LaneSet(ty) |-> Clamp(ty, N(a) - N(b))], l, r)
          [] op = "q15mulr_sat" -> lanewise_binary(ty, [a, b \in LaneSet(ty) |-> q15mulr_sat(a, b)], l, r)
          [] op = "min" -> lanewise_binary(ty, [a, b \in LaneSet(ty) |-> IF N(b) < N(a) THEN b ELSE a], l, r)
          [] op = "max" -> lanewise_binary(ty, [a, b \in LaneSet(ty) |-> IF N(b) < N(a) THEN a ELSE b], l, r)
          [] op = "avgr" -> lanewise_binary(ty, [a, b \in LaneSet(ty) |-> avgr(a, b)], l, r)

BitBinary(op, l, r) ==
    CASE op = "and" -> lanewise_binary("u64", [a, b \in LaneSet("u64") |-> bitand(a, b)], l, r)
      [] op = "or" -> lanewise_binary("u64", [a, b \in LaneSet("u64") |-> bitor(a, b)], l, r)
      [] op = "xor" -> lanewise_binary("u64", [a, b \in LaneSet("u64") |-> bitxor(a, b)], l, r)
      [] op = "andnot" -> lanewise_binary("u64", [a, b \in LaneSet("u64") |-> bitand(a, 2 ^ Bits("u64") - 1 - b)], l, r)

FloatBinary(ty, op, l, r) ==
    CASE op = "pmin" -> lanewise_binary(ty, [a, b \in LaneSet(ty) |-> pmin(ty, a, b)], l, r)
      [] op = "pmax" -> lanewise_binary(ty, [a, b \in LaneSet(ty) |-> pmax(ty, a, b)], l, r)
      [] op \in {"add", "sub", "mul", "div", "min", "max"} ->
            lanewise_binary(ty, [a, b \in LaneSet(ty) |-> Binary(ty, op, a, b).v], l, r)

Comparison(ty, op, l, r) ==
    IF ty \in Floats THEN lanewise_comparison(ty, [a, b \in LaneSet(ty) |-> float_cmp(ty, op, a, b)], l, r)
    ELSE lanewise_comparison(ty, [a, b \in LaneSet(ty) |-> int_cmp(ty, op, a, b)], l, r)
CompareOps == {"eq", "ne", "lt", "le", "gt", "ge"}

Shifted(ty, op, v, rhs) == lanewise_unary(ty, [x \in LaneSet(ty) |-> wrapping_shift(ty, op, x, rhs)], v)

\* Into wider lanes and back.
Widening(sh, op, sx, v) ==
    LET n == LaneOf(Half(sh), sx)
    IN  CASE op = "extend_low" -> low_unary(n, sh, [x \in LaneSet(n) |-> Cast(n, sh, x)], v)
          [] op = "extend_high" -> high_unary(n, sh, [x \in LaneSet(n) |-> Cast(n, sh, x)], v)
          [] op = "extadd_pairwise" -> pairwise_unary(n, sh, [a, b \in LaneSet(n) |-> extadd(n, sh, a, b)], v)
          [] op = "convert_low" -> low_unary(n, sh, [x \in LaneSet(n) |-> convert(n, sh, x)], v)
          [] op = "promote_low" -> low_unary("f32", "f64", [x \in LaneSet("f32") |-> promote_demote("f32", "f64", x)], v)

ExtMul(sh, op, sx, l, r) ==
    LET n == LaneOf(Half(sh), sx)
    IN  IF op = "extmul_low" THEN from_low_binary(n, sh, [a, b \in LaneSet(n) |-> extmul(n, sh, a, b)], l, r)
        ELSE from_high_binary(n, sh, [a, b \in LaneSet(n) |-> extmul(n, sh, a, b)], l, r)

\* Mutant: the value is clamped as an unsigned one.
narrow_unsigned(sh, sx, low, high) ==
    from_low_high(sh, Twice(sh), [x \in LaneSet(Twice(sh)) |-> Clamp(LaneOf(sh, sx), x)], low, high)
\* Also for the unsigned results the wide lanes are signed.
narrow(sh, sx, low, high) ==
    from_low_high(sh, Twice(sh), [x \in LaneSet(Twice(sh)) |-> Clamp(LaneOf(sh, sx), Num(Twice(sh), x))], low, high)

Converting(sh, op, sx, v) ==
    LET ity == LaneOf("i32", sx)
    IN  CASE op = "convert" -> lanewise_unary("f32", [x \in LaneSet("f32") |-> convert(ity, "f32", x)], v)
          [] op = "trunc_sat" ->
                lanewise_unary("f32", [x \in LaneSet("f32") |-> truncate_saturate_into("f32", ity, x)], v)
          [] op = "trunc_sat_zero" ->
                low_or("i32", "f64", 0, [x \in LaneSet("f64") |-> truncate_saturate_into("f64", ity, x)], v)
          [] op = "demote_zero" -> low_or("f32", "f64", 0, [x \in LaneSet("f64") |-> promote_demote("f64", "f32", x)], v)

\* Into a number.
all_true(ty, v) == \A i \in LaneIdxs(ty) : from_v128(ty, v)[i] # 0
bitmask(ty, v) ==
    LET a == from_v128(ty, v)
        acc[i \in 0 .. LANES(ty)] ==
            IF i = 0 THEN 0 ELSE bitor(acc[i - 1], IF Num(ty, a[i - 1]) < 0 THEN 2 ^ (i - 1) ELSE 0)
    IN  acc[LANES(ty)]
any_true(v) == \E k \in 1 .. V128Bytes : v[k] # 0

v128_bitselect(v1, v2, c) == BitBinary("or", BitBinary("and", v1, c), BitBinary("andnot", v2, c))
relaxed_dot(l, r) == pairwise_binary("i8", "i16", [a, b, c, d \in LaneSet("i8") |-> dot("i8", "i16", a, b, c, d)], l, r)
relaxed_dot_add(l, r, c) ==
    IntBinary("i32", "add", Widening("i32", "extadd_pairwise", "s", relaxed_dot(l, r)), c)

-----------------------------------------------------------------------------
\* Every function by name.

Eval1(f, v) ==
    CASE f.op \in {"extend_low", "extend_high", "extadd_pairwise", "convert_low", "promote_low"} ->
            Widening(f.sh, f.op, f.sx, v)
      [] f.op \in {"convert", "trunc_sat", "trunc_sat_zero", "demote_zero"} -> Converting(f.sh, f.op, f.sx, v)
      [] f.op = "all_true" -> IF all_true(f.sh, v) THEN 1 ELSE 0
      [] f.op = "any_true" -> IF any_true(v) THEN 1 ELSE 0
      [] f.op = "bitmask" -> bitmask(f.sh, v)
      [] f.op = "not" -> IntUnary("i64", "not", v)
      [] f.sh \in Floats /\ f.op \in {"neg", "abs", "sqrt", "ceil", "floor", "trunc", "nearest"} ->
            FloatUnary(f.sh, f.op, v)
      [] f.sh \notin Floats /\ f.op \in {"neg", "abs", "popcnt"} -> IntUnary(f.sh, f.op, v)

Eval2(f, l, r) ==
    CASE f.op = "swizzle" -> i8x16_swizzle(l, r)
      [] f.op \in CompareOps -> Comparison(LaneOf(f.sh, f.sx), f.op, l, r)
      [] f.sh = "v128" -> BitBinary(f.op, l, r)
      [] f.op = "narrow" -> narrow(f.sh, f.sx, l, r)
      [] f.op \in {"extmul_low", "extmul_high"} -> ExtMul(f.sh, f.op, f.sx, l, r)
      [] f.op = "dot" ->
            pairwise_binary("i16", "i32", [a, b, c, d \in LaneSet("i16") |-> dot("i16", "i32", a, b, c, d)], l, r)
      [] f.op = "relaxed_dot" -> relaxed_dot(l, r)
      [] f.sh \in Floats /\ f.op \notin CompareOps -> FloatBinary(f.sh, f.op, l, r)
      [] f.sh \in {"i8", "i16", "i32", "i64"}
            /\ f.op \in {"add", "sub", "mul", "add_sat", "sub_sat", "q15mulr_sat", "min", "max", "avgr"} ->
            IntBinary(LaneOf(f.sh, f.sx), f.op, l, r)

Eval3(f, x, y, z) ==
    CASE f.op = "bitselect" -> v128_bitselect(x, y, z)
      [] f.op = "relaxed_dot_add" -> relaxed_dot_add(x, y, z)
      [] f.op = "relaxed_madd" ->
            lanewise_ternary(f.sh, [a, b, c \in LaneSet(f.sh) |-> mul_add(f.sh, a, b, c)], x, y, z)
      [] f.op = "relaxed_nmadd" ->
            lanewise_ternary(f.sh, [a, b, c \in LaneSet(f.sh) |-> neg_mul_add(f.sh, a, b, c)], x, y, z)

-----------------------------------------------------------------------------
\* Linear memory.

v128_load(memory, ptr, offset) ==
    LET ea == effective_address(ptr, offset)
    IN  IF ea.trap # "None" THEN ea
        ELSE IF ea.v + V128Bytes > Len(memory) THEN Err("MemoryOutOfBounds")
        ELSE Ok([k \in 1 .. V128Bytes |-> memory[ea.v + k]])

v128_store(memory, ptr, offset, v) ==
    LET ea == effective_address(ptr, offset)
    IN  IF ea.trap # "None" THEN ea
        ELSE IF ea.v + V128Bytes > Len(memory) THEN Err("MemoryOutOfBounds")
        ELSE Ok([i \in 1 .. Len(memory) |-> IF i - ea.v \in 1 .. V128Bytes THEN v[i - ea.v] ELSE memory[i]])

v128_store_lane(memory, ty, ptr, offset, v, lane) ==
    store_wrap(memory, ty, ptr, offset, extract_lane(ty, v, lane))

\* Of the loaded 64 (32) bits: the lanes extended, or put below zeroes.
widen_nxm(n, wide, bits) ==
    into_v128(wide, [i \in LaneIdxs(wide) |-> Cast(n, wide, (bits \div 2 ^ (Bits(n) * i)) % 2 ^ Bits(n))])
low_zero(ty, bits) == replace_lane(ty, splat(ty, 0), 0, bits)

=============================================================================
