------------------------------ MODULE WasmOps ------------------------------
(***************************************************************************)
(* The numeric core of the interpreter (crates/core: wasm.rs, value.rs and *)
(* memory/access.rs, with engine/eval.rs): what every Wasm operator        *)
(* computes and when it traps.                                             *)
(*                                                                         *)
(* Values are bit patterns, natural numbers below 2^w.  The widths are     *)
(* scaled: a byte has BYTE bits, an i32 or f32 four bytes and an i64 or    *)
(* f64 eight, and a float has EXP32 or EXP64 exponent bits (8, 8 and 11 in *)
(* the code).  Wrapping, masks, sign bits, NaN and infinity patterns all   *)
(* follow the widths, as they do in the code.                              *)
(***************************************************************************)
EXTENDS Integers, Sequences, FiniteSets

CONSTANTS
    BYTE,    \* bits per byte
    EXP32,   \* exponent bits of an f32
    EXP64,   \* exponent bits of an f64
    DETERMINISTIC, \* the `deterministic` build profile: NaN results are canonical
    MEMORY64 \* the `memory64` build feature: addresses keep 64 bits

ASSUME WidthAssumption ==
    /\ BYTE \in Nat \ {0}
    /\ EXP32 \in 1 .. 4 * BYTE - 2
    /\ EXP64 \in 1 .. 8 * BYTE - 2
    /\ {DETERMINISTIC, MEMORY64} \subseteq BOOLEAN

Bytes(ty) ==
    CASE ty \in {"i8", "u8"} -> 1
      [] ty \in {"i16", "u16"} -> 2
      [] ty \in {"i32", "u32", "f32"} -> 4
      [] OTHER -> 8

Bits(ty) == BYTE * Bytes(ty)

IsSigned(ty) == ty \in {"i8", "i16", "i32", "i64"}

\* A pattern as a number, and a number as a pattern of w bits.
Signed(w, x) == IF x < 2 ^ (w - 1) THEN x ELSE x - 2 ^ w
Wrap(w, n) == n % 2 ^ w
Num(ty, x) == IF IsSigned(ty) THEN Signed(Bits(ty), x) ELSE x
MinOf(ty) == IF IsSigned(ty) THEN -(2 ^ (Bits(ty) - 1)) ELSE 0
MaxOf(ty) == IF IsSigned(ty) THEN 2 ^ (Bits(ty) - 1) - 1 ELSE 2 ^ Bits(ty) - 1

\* `x as to` for integers: the low bits of x, extended by the sign of `from`.
Cast(from, to, x) == Wrap(Bits(to), Num(from, x % 2 ^ Bits(from)))

Ok(v) == [v |-> v, trap |-> "None"]
Err(code) == [v |-> 0, trap |-> code]
Bool(b) == Ok(IF b THEN 1 ELSE 0)

-----------------------------------------------------------------------------
\* Integers.

\* The operators &, | and ^ of patterns. They are defined by a recursive function, for
\* the prover reads no module with recursive operators.
bitand(l, r) ==
    LET and[x, y \in Nat] == IF x = 0 THEN 0 ELSE (x % 2) * (y % 2) + 2 * and[x \div 2, y \div 2] IN and[l, r]
bitor(l, r) == l + r - bitand(l, r)
bitxor(l, r) == l + r - 2 * bitand(l, r)

arith(ty, op, l, r) ==
    LET w == Bits(ty)
    IN  CASE op = "add" -> Wrap(w, l + r)
          [] op = "sub" -> Wrap(w, l - r)
          [] op = "mul" -> Wrap(w, l * r)
          [] op = "bitand" -> bitand(l, r)
          [] op = "bitor" -> bitor(l, r)
          [] op = "bitxor" -> bitxor(l, r)

shift(ty, op, l, r) ==
    LET w == Bits(ty)
        k == r % w
    IN  CASE op = "shl" -> Wrap(w, l * 2 ^ k)
          [] op = "shr_s" -> Wrap(w, Signed(w, l) \div 2 ^ k)
          [] op = "shr_u" -> l \div 2 ^ k
          [] op = "rotl" -> Wrap(w, l * 2 ^ k) + l \div 2 ^ (w - k)
          [] op = "rotr" -> l \div 2 ^ k + Wrap(w, l * 2 ^ (w - k))

\* Division of machine integers truncates towards zero.
Abs(n) == IF n < 0 THEN -n ELSE n
Quot(a, b) == IF (a < 0) = (b < 0) THEN Abs(a) \div Abs(b) ELSE -(Abs(a) \div Abs(b))
Rem(a, b) == a - b * Quot(a, b)

divrem(ty, op, l, r) ==
    LET a == Num(ty, l)
        b == Num(ty, r)
    IN  CASE b = 0 -> Err("IntegerDivisionByZero")
          [] b # 0 /\ op = "div" -> IF Quot(a, b) > MaxOf(ty) THEN Err("IntegerOverflow")
                                    ELSE Ok(Wrap(Bits(ty), Quot(a, b)))
          [] b # 0 /\ op = "rem" -> Ok(Wrap(Bits(ty), Rem(a, b)))

Bit(x, k) == (x \div 2 ^ k) % 2

bitcount(ty, op, x) ==
    LET w == Bits(ty)
    IN  CASE op = "clz" -> CHOOSE n \in 0 .. w : x < 2 ^ (w - n) /\ (n = w \/ x >= 2 ^ (w - n - 1))
          [] op = "ctz" -> CHOOSE n \in 0 .. w : x % 2 ^ n = 0 /\ (n = w \/ Bit(x, n) = 1)
          [] op = "popcnt" -> Cardinality({k \in 0 .. w - 1 : Bit(x, k) = 1})

compare(op, a, b) ==
    CASE op = "eq" -> a = b
      [] op = "ne" -> a # b
      [] op = "lt" -> a < b
      [] op = "le" -> a <= b
      [] op = "gt" -> a > b
      [] op = "ge" -> a >= b

int_cmp(ty, op, l, r) == compare(op, Num(ty, l), Num(ty, r))

\* The fused tests of engine/eval.rs.
int_test(op, l, r) ==
    CASE op = "and" -> bitand(l, r) # 0
      [] op = "not_and" -> bitand(l, r) = 0
      [] op = "or" -> r # 0 \/ l # 0
      [] op = "not_or" -> ~(r # 0 \/ l # 0)

-----------------------------------------------------------------------------
\* Floats: a sign bit, an exponent and a mantissa.  Below a NaN the patterns
\* without the sign bit are ordered as the numbers they stand for.

Exp(ty) == IF ty = "f32" THEN EXP32 ELSE EXP64
Mant(ty) == Bits(ty) - 1 - Exp(ty)
Bias(ty) == 2 ^ (Exp(ty) - 1) - 1
SignBit(ty) == 2 ^ (Bits(ty) - 1)
Mag(ty, x) == x % SignBit(ty)
Neg(ty, x) == x >= SignBit(ty)
Inf(ty) == (2 ^ Exp(ty) - 1) * 2 ^ Mant(ty)
IsNan(ty, x) == Mag(ty, x) > Inf(ty)
QuietBit(ty) == 2 ^ (Mant(ty) - 1)
CanonicalNan(ty) == Inf(ty) + QuietBit(ty)
Order(ty, x) == IF Neg(ty, x) THEN -Mag(ty, x) ELSE Mag(ty, x)
WithSign(ty, neg, mag) == IF neg THEN SignBit(ty) + mag ELSE mag

into_quiet_nan(ty, x) == bitor(x, QuietBit(ty))
canonicalize_nan_if_enabled(ty, x) ==
    IF DETERMINISTIC /\ IsNan(ty, x) THEN CanonicalNan(ty) ELSE x

\* A finite magnitude is Sig * 2^Pow.
Sig(ty, mag) == IF mag < 2 ^ Mant(ty) THEN mag ELSE 2 ^ Mant(ty) + (mag % 2 ^ Mant(ty))
Pow(ty, mag) == IF mag < 2 ^ Mant(ty) THEN 1 - Bias(ty) - Mant(ty)
                ELSE mag \div 2 ^ Mant(ty) - Bias(ty) - Mant(ty)

\* n * 2^e rounded to an integer: to the nearest, ties to even; and down.
RoundEven(n, e) ==
    IF e >= 0 THEN n * 2 ^ e
    ELSE LET q == n \div 2 ^ (-e)
             r == 2 * (n % 2 ^ (-e))
         IN  IF r > 2 ^ (-e) \/ (r = 2 ^ (-e) /\ q % 2 = 1) THEN q + 1 ELSE q
RoundDown(n, e) == IF e >= 0 THEN n * 2 ^ e ELSE n \div 2 ^ (-e)

\* The magnitude nearest to n * 2^e; counting mantissas from the exponent
\* below makes a carry out of the mantissa reach the exponent by itself.
RoundMag(ty, n, e) ==
    LET Fits(E) == RoundDown(n, e - (E - Bias(ty) - Mant(ty))) < 2 ^ (Mant(ty) + 1)
        Top == 2 ^ Exp(ty) - 1
        E == CHOOSE k \in 1 .. Top : (k = Top \/ Fits(k)) /\ \A j \in 1 .. k - 1 : ~Fits(j)
        m == (E - 1) * 2 ^ Mant(ty) + RoundEven(n, e - (E - Bias(ty) - Mant(ty)))
    IN  IF m > Inf(ty) THEN Inf(ty) ELSE m

\* What the processor computes (external): IEEE 754 arithmetic; a NaN operand
\* is propagated quieted, the first one first.
HwNan(ty, l, r) ==
    IF IsNan(ty, l) THEN into_quiet_nan(ty, l)
    ELSE IF IsNan(ty, r) THEN into_quiet_nan(ty, r) ELSE SignBit(ty) + CanonicalNan(ty)

HwAdd(ty, l, r) ==
    LET a == Mag(ty, l)
        b == Mag(ty, r)
        e == IF Pow(ty, a) < Pow(ty, b) THEN Pow(ty, a) ELSE Pow(ty, b)
        S(x, m) == (IF Neg(ty, x) THEN -1 ELSE 1) * Sig(ty, m) * 2 ^ (Pow(ty, m) - e)
        n == S(l, a) + S(r, b)
    IN  IF IsNan(ty, l) \/ IsNan(ty, r) THEN HwNan(ty, l, r)
        ELSE IF a = Inf(ty) /\ b = Inf(ty) THEN IF l = r THEN l ELSE HwNan(ty, l, r)
        ELSE IF a = Inf(ty) THEN l
        ELSE IF b = Inf(ty) THEN r
        ELSE WithSign(ty, n < 0 \/ (n = 0 /\ Neg(ty, l) /\ Neg(ty, r)), RoundMag(ty, Abs(n), e))

HwNeg(ty, x) == (x + SignBit(ty)) % 2 ^ Bits(ty)

HwSub(ty, l, r) == HwAdd(ty, l, IF IsNan(ty, r) THEN r ELSE HwNeg(ty, r))

HwMul(ty, l, r) ==
    LET a == Mag(ty, l)
        b == Mag(ty, r)
        s == Neg(ty, l) # Neg(ty, r)
    IN  IF \/ IsNan(ty, l) \/ IsNan(ty, r)
           \/ (a = Inf(ty) /\ b = 0) \/ (b = Inf(ty) /\ a = 0) THEN HwNan(ty, l, r)
        ELSE IF a = Inf(ty) \/ b = Inf(ty) THEN WithSign(ty, s, Inf(ty))
        ELSE WithSign(ty, s, RoundMag(ty, Sig(ty, a) * Sig(ty, b), Pow(ty, a) + Pow(ty, b)))

\* A quotient and a root keep DIGITS more digits and a sticky one.
DIGITS == 8

HwDiv(ty, l, r) ==
    LET a == Mag(ty, l)
        b == Mag(ty, r)
        s == Neg(ty, l) # Neg(ty, r)
        n == Sig(ty, a) * 2 ^ DIGITS
        q == 2 * (n \div Sig(ty, b)) + (IF n % Sig(ty, b) = 0 THEN 0 ELSE 1)
    IN  IF \/ IsNan(ty, l) \/ IsNan(ty, r) \/ (a = b /\ a \in {0, Inf(ty)}) THEN HwNan(ty, l, r)
        ELSE IF a = Inf(ty) \/ b = 0 THEN WithSign(ty, s, Inf(ty))
        ELSE IF b = Inf(ty) THEN WithSign(ty, s, 0)
        ELSE WithSign(ty, s, RoundMag(ty, q, Pow(ty, a) - Pow(ty, b) - DIGITS - 1))

HwSqrt(ty, x) ==
    LET a == Mag(ty, x)
        odd == Pow(ty, a) % 2
        n == Sig(ty, a) * 2 ^ (odd + DIGITS)
        q == CHOOSE k \in 0 .. n : k * k <= n /\ (k + 1) * (k + 1) > n
    IN  IF a = 0 \/ x = Inf(ty) THEN x
        ELSE IF IsNan(ty, x) \/ Neg(ty, x) THEN HwNan(ty, x, x)
        ELSE RoundMag(ty, 2 * q + (IF q * q = n THEN 0 ELSE 1), (Pow(ty, a) - odd - DIGITS) \div 2 - 1)

\* Rounding to an integral float.
HwRound(ty, op, x) ==
    LET a == Mag(ty, x)
        n == Sig(ty, a)
        e == Pow(ty, a)
        down == RoundDown(n, e)
        up == IF e >= 0 \/ n % 2 ^ (-e) = 0 THEN down ELSE down + 1
        k == CASE op = "trunc" -> down
               [] op = "nearest" -> RoundEven(n, e)
               [] op = "floor" -> IF Neg(ty, x) THEN up ELSE down
               [] op = "ceil" -> IF Neg(ty, x) THEN down ELSE up
    IN  IF a = Inf(ty) THEN x ELSE WithSign(ty, Neg(ty, x), RoundMag(ty, k, 0))

\* Between formats: a NaN keeps the top of its payload, quieted.
HwFormat(from, to, x) ==
    LET a == Mag(from, x)
        payload == LET d == Mant(to) - Mant(from)
                   IN  RoundDown(a % 2 ^ Mant(from), d)
    IN  WithSign(to, Neg(from, x),
          IF IsNan(from, x) THEN into_quiet_nan(to, Inf(to) + payload)
          ELSE IF a = Inf(from) THEN Inf(to)
          ELSE RoundMag(to, Sig(from, a), Pow(from, a)))

-----------------------------------------------------------------------------
\* The float operators of the code, built from the processor's.

fneg(ty, x) == HwNeg(ty, x)
fabs(ty, x) == Mag(ty, x)
copysign(ty, l, r) == WithSign(ty, Neg(ty, r), Mag(ty, l))
fadd(ty, l, r) == canonicalize_nan_if_enabled(ty, HwAdd(ty, l, r))

fround(ty, op, x) ==
    IF IsNan(ty, x) THEN canonicalize_nan_if_enabled(ty, into_quiet_nan(ty, x))
    ELSE IF op = "sqrt" THEN canonicalize_nan_if_enabled(ty, HwSqrt(ty, x))
    ELSE HwRound(ty, op, x)

farith(ty, op, l, r) ==
    canonicalize_nan_if_enabled(ty,
        CASE op = "add" -> HwAdd(ty, l, r)
          [] op = "sub" -> HwSub(ty, l, r)
          [] op = "mul" -> HwMul(ty, l, r)
          [] op = "div" -> HwDiv(ty, l, r))

\* min and max: the branches of the code, `pick` comparing as `<` or `>`.
minmax(ty, op, l, r) ==
    LET a == Order(ty, l)
        b == Order(ty, r)
        Before(x, y) == IF op = "min" THEN x < y ELSE x > y
        first == Neg(ty, l) = (op = "min") /\ Neg(ty, r) # (op = "min")
    IN  CASE IsNan(ty, l) \/ IsNan(ty, r) -> fadd(ty, l, r)
          [] ~IsNan(ty, l) /\ ~IsNan(ty, r) /\ a # b -> IF Before(a, b) THEN l ELSE r
          [] ~IsNan(ty, l) /\ ~IsNan(ty, r) /\ a = b -> IF first THEN l ELSE r

\* A comparison with a NaN is false, `!=` with a NaN is true.
float_cmp(ty, op, l, r) ==
    IF IsNan(ty, l) \/ IsNan(ty, r) THEN op \in {"ne", "not_le", "not_lt"}
    ELSE LET a == Order(ty, l)
             b == Order(ty, r)
         IN  CASE op = "not_le" -> ~(a <= b)
               [] op = "not_lt" -> ~(a < b)
               [] OTHER -> compare(op, a, b)

IntPart(ty, mag) == RoundDown(Sig(ty, mag), Pow(ty, mag))

\* The bounds of try_truncate_into: the float next below MIN and 2^w (or 2^(w-1)).
rmax(fty, ity) == RoundMag(fty, MaxOf(ity) + 1, 0)
\* Mutant: the lower bound is MIN itself.
rmin_exclusive(fty, ity) == RoundMag(fty, IF IsSigned(ity) THEN -MinOf(ity) ELSE 1, 0)

rmin(fty, ity) ==
    IF ~IsSigned(ity) THEN RoundMag(fty, 1, 0)
    ELSE CHOOSE m \in 0 .. Inf(fty) :
            /\ m = Inf(fty) \/ IntPart(fty, m) > -MinOf(ity)
            /\ \A k \in 0 .. m - 1 : IntPart(fty, k) <= -MinOf(ity)

TruncNum(fty, x) == (IF Neg(fty, x) THEN -1 ELSE 1) * IntPart(fty, Mag(fty, x))

try_truncate_into(fty, ity, x) ==
    IF IsNan(fty, x) THEN Err("BadConversionToInteger")
    ELSE IF Order(fty, x) <= -rmin(fty, ity) \/ Order(fty, x) >= rmax(fty, ity)
         THEN Err("IntegerOverflow")
         ELSE Ok(Wrap(Bits(ity), TruncNum(fty, x)))

\* `as` clamps, as the explicit cases before it do for the infinities.
truncate_saturate_into(fty, ity, x) ==
    IF IsNan(fty, x) THEN 0
    ELSE IF Mag(fty, x) = Inf(fty)
         THEN Wrap(Bits(ity), IF Neg(fty, x) THEN MinOf(ity) ELSE MaxOf(ity))
         ELSE LET n == TruncNum(fty, x)
              IN  Wrap(Bits(ity), IF n < MinOf(ity) THEN MinOf(ity)
                                  ELSE IF n > MaxOf(ity) THEN MaxOf(ity) ELSE n)

convert(ity, fty, x) == WithSign(fty, Num(ity, x) < 0, RoundMag(fty, Abs(Num(ity, x)), 0))

promote_demote(from, to, x) == canonicalize_nan_if_enabled(to, HwFormat(from, to, x))

nabs(ty, x) == fneg(ty, fabs(ty, x))

-----------------------------------------------------------------------------
\* Linear memory: a sequence of bytes, the byte at address a in memory[a + 1].

\* Mutant: the sum wraps.
effective_address_wrapping(ptr, offset) == Ok((ptr + offset) % 2 ^ Bits("u64"))

effective_address(ptr, offset) ==
    LET Addr(x) == IF MEMORY64 THEN x ELSE x % 2 ^ Bits("u32")
        sum == Addr(ptr) + Addr(offset)
    IN  IF sum < 2 ^ Bits("u64") THEN Ok(sum) ELSE Err("MemoryOutOfBounds")

FromLe(memory, a, n) ==
    LET f[i \in 0 .. n] == IF i = n THEN 0 ELSE memory[a + i + 1] + 2 ^ BYTE * f[i + 1]
    IN  f[0]

load_at(memory, ty, a) ==
    IF a + Bytes(ty) <= Len(memory) THEN Ok(FromLe(memory, a, Bytes(ty)))
    ELSE Err("MemoryOutOfBounds")

load_extend_at(memory, to, ty, a) ==
    LET r == load_at(memory, ty, a)
    IN  IF r.trap = "None" THEN Ok(Cast(ty, to, r.v)) ELSE r

load_extend(memory, to, ty, ptr, offset) ==
    LET ea == effective_address(ptr, offset)
    IN  IF ea.trap = "None" THEN load_extend_at(memory, to, ty, ea.v) ELSE ea

\* The stored value wraps to the width of `ty`; a trapping store writes nothing.
store_wrap_at(memory, ty, a, value) ==
    IF a + Bytes(ty) > Len(memory) THEN Err("MemoryOutOfBounds")
    ELSE Ok([i \in 1 .. Len(memory) |->
               IF i - a \in 1 .. Bytes(ty) THEN (value \div 2 ^ (BYTE * (i - a - 1))) % 2 ^ BYTE
               ELSE memory[i]])

store_wrap(memory, ty, ptr, offset, value) ==
    LET ea == effective_address(ptr, offset)
    IN  IF ea.trap = "None" THEN store_wrap_at(memory, ty, ea.v, value) ELSE ea

-----------------------------------------------------------------------------
\* Wide arithmetic: pairs <<lo, hi>> of 64-bit halves.

combine128(lo, hi) == hi * 2 ^ Bits("u64") + lo
split128(n) == <<n % 2 ^ Bits("u64"), (n \div 2 ^ Bits("u64")) % 2 ^ Bits("u64")>>

i64_add128(l, r) == split128(combine128(l[1], l[2]) + combine128(r[1], r[2]))
i64_sub128(l, r) == split128(combine128(l[1], l[2]) - combine128(r[1], r[2]))
mul_wide(ty, l, r) == split128(Num(ty, l) * Num(ty, r))

-----------------------------------------------------------------------------
\* Every operator with two operands, and with one, by type and name.

BinaryOps == {"add", "sub", "mul", "bitand", "bitor", "bitxor"}
ShiftOps == {"shl", "shr_s", "shr_u", "rotl", "rotr"}
Tests == {"and", "or", "not_and", "not_or"}
Floats == {"f32", "f64"}

Binary(ty, op, l, r) ==
    CASE ty \in Floats /\ op \in {"add", "sub", "mul", "div"} -> Ok(farith(ty, op, l, r))
      [] ty \in Floats /\ op \in {"min", "max"} -> Ok(minmax(ty, op, l, r))
      [] ty \in Floats /\ op = "copysign" -> Ok(copysign(ty, l, r))
      [] ty \in Floats /\ op \in {"eq", "ne", "lt", "le", "not_le", "not_lt"} ->
            Bool(float_cmp(ty, op, l, r))
      [] ty \notin Floats /\ op \in BinaryOps -> Ok(arith(ty, op, l, r))
      [] ty \notin Floats /\ op \in ShiftOps -> Ok(shift(ty, op, l, r))
      [] ty \notin Floats /\ op \in {"div", "rem"} -> divrem(ty, op, l, r)
      [] ty \notin Floats /\ op \in {"eq", "ne", "lt", "le"} -> Bool(int_cmp(ty, op, l, r))
      [] ty \notin Floats /\ op \in Tests -> Bool(int_test(op, l, r))

\* from: the operand's type; to: the result's.
Unary(from, to, op, x) ==
    CASE op \in {"clz", "ctz", "popcnt"} -> Ok(bitcount(from, op, x))
      [] op \in {"cast", "reinterpret", "copy"} -> Ok(Cast(from, to, x))
      [] op = "extend8" -> Ok(Cast("i8", to, x))
      [] op = "extend16" -> Ok(Cast("i16", to, x))
      [] op = "extend32" -> Ok(Cast("i32", to, x))
      [] op = "abs" -> Ok(fabs(from, x))
      [] op = "neg" -> Ok(fneg(from, x))
      [] op = "nabs" -> Ok(nabs(from, x))
      [] op \in {"ceil", "floor", "trunc", "nearest", "sqrt"} -> Ok(fround(from, op, x))
      [] op = "convert" -> Ok(convert(from, to, x))
      [] op = "format" -> Ok(promote_demote(from, to, x))
      [] op = "try_truncate" -> try_truncate_into(from, to, x)
      [] op = "truncate_sat" -> Ok(truncate_saturate_into(from, to, x))

=============================================================================
