------------------------------ MODULE Vectors -------------------------------
(***************************************************************************)
(* A vector operator from its Wasm form to its result: the visitor         *)
(* (translator/func/simd) evaluates it on immediate operands or emits an   *)
(* Op for operands in slots and registers, and the handler of that Op      *)
(* (executor/handler/exec/simd.rs) calls a function of simd.rs.  One call  *)
(* per operator, operands and places of the operands, after the calls of   *)
(* Numerics.                                                               *)
(***************************************************************************)
EXTENDS Numerics, Simd, Functions

CONSTANTS
    V128s,       \* the vectors that are tried
    Indices,     \* the vectors of byte indices of a swizzle or a shuffle
    Amounts,     \* the shift amounts
    Scalars,     \* the 64-bit patterns of scalar operands
    Bytes128     \* the linear memory of a vector access

\* Places of an operand: a vector never lives in a register.
VectorPlaces == {"imm", "slot"}
ScalarPlaces == {"imm", "slot", "reg"}

Each(shs, ops, sxs) == {Fn(sh, op, sx) : sh \in shs, op \in ops, sx \in sxs}
Ints == {"i8", "i16", "i32", "i64"}
Small == {"i8", "i16"}

-----------------------------------------------------------------------------
\* The Wasm operators, section by section of the visitor.

Compares ==
    Each(Ints \cup Floats, {"eq", "ne", "lt", "gt", "le", "ge"}, {"s"})
    \cup Each({"i8", "i16", "i32"}, {"lt", "gt", "le", "ge"}, {"u"})
Bitwise128 == Each({"v128"}, {"and", "andnot", "or", "xor"}, {"s"})
I8x16Binary ==
    Each({"i8"}, {"add", "sub"}, {"s"}) \cup Each({"i8"}, {"avgr"}, {"u"})
    \cup Each({"i8"}, {"add_sat", "sub_sat", "min", "max", "narrow"}, {"s", "u"})
I16x8Binary ==
    Each({"i16"}, {"add", "sub", "mul", "q15mulr_sat"}, {"s"}) \cup Each({"i16"}, {"avgr"}, {"u"})
    \cup Each({"i16"}, {"add_sat", "sub_sat", "min", "max", "narrow", "extmul_low", "extmul_high"}, {"s", "u"})
I32x4Binary ==
    Each({"i32"}, {"add", "sub", "mul", "dot"}, {"s"})
    \cup Each({"i32"}, {"min", "max", "extmul_low", "extmul_high"}, {"s", "u"})
I64x2Binary == Each({"i64"}, {"add", "sub", "mul"}, {"s"}) \cup Each({"i64"}, {"extmul_low", "extmul_high"}, {"s", "u"})
F32x4Binary == Each({"f32"}, {"add", "sub", "mul", "div", "min", "max", "pmin", "pmax"}, {"s"})
F64x2Binary == Each({"f64"}, {"add", "sub", "mul", "div", "min", "max", "pmin", "pmax"}, {"s"})
RelaxedBinary ==
    Each(Floats, {"relaxed_min", "relaxed_max"}, {"s"})
    \cup {Fn("i16", "relaxed_q15mulr", "s"), Fn("i16", "relaxed_dot", "s")}
BinaryFns ==
    Compares \cup Bitwise128 \cup I8x16Binary \cup I16x8Binary \cup I32x4Binary \cup I64x2Binary
    \cup F32x4Binary \cup F64x2Binary \cup RelaxedBinary

I8x16Unary == Each({"i8"}, {"abs", "neg", "popcnt", "all_true", "bitmask"}, {"s"})
I16x8Unary ==
    Each({"i16"}, {"abs", "neg", "all_true", "bitmask"}, {"s"})
    \cup Each({"i16"}, {"extadd_pairwise", "extend_low", "extend_high"}, {"s", "u"})
I32x4Unary ==
    Each({"i32"}, {"abs", "neg", "all_true", "bitmask"}, {"s"})
    \cup Each({"i32"}, {"extadd_pairwise", "extend_low", "extend_high"}, {"s", "u"})
I64x2Unary ==
    Each({"i64"}, {"abs", "neg", "all_true", "bitmask"}, {"s"})
    \cup Each({"i64"}, {"extend_low", "extend_high"}, {"s", "u"})
FloatUnaries == Each(Floats, {"ceil", "floor", "trunc", "nearest", "abs", "neg", "sqrt"}, {"s"})
Conversions ==
    Each({"i32"}, {"trunc_sat", "trunc_sat_zero"}, {"s", "u"}) \cup Each({"f32"}, {"convert"}, {"s", "u"})
    \cup Each({"f64"}, {"convert_low"}, {"s", "u"}) \cup {Fn("f32", "demote_zero", "s"), Fn("f64", "promote_low", "s")}
RelaxedUnary == Each({"i32"}, {"relaxed_trunc", "relaxed_trunc_zero"}, {"s", "u"})
UnaryFns ==
    I8x16Unary \cup I16x8Unary \cup I32x4Unary \cup I64x2Unary \cup FloatUnaries \cup Conversions \cup RelaxedUnary
    \cup Each({"v128"}, {"not", "any_true"}, {"s"})

TernaryFns ==
    Each(Ints, {"relaxed_laneselect"}, {"s"}) \cup Each(Floats, {"relaxed_madd", "relaxed_nmadd"}, {"s"})
    \cup {Fn("v128", "bitselect", "s"), Fn("i32", "relaxed_dot_add", "s")}
ShiftFns == Each(Ints, {"shl"}, {"s"}) \cup Each(Ints, {"shr"}, {"s", "u"})

\* The relaxed operators that the visitor forwards to others.
Forward(w) ==
    CASE w.op = "relaxed_trunc" -> [w EXCEPT !.op = "trunc_sat"]
      [] w.op = "relaxed_trunc_zero" -> [w EXCEPT !.op = "trunc_sat_zero"]
      [] w.op = "relaxed_min" -> [w EXCEPT !.op = "min"]
      [] w.op = "relaxed_max" -> [w EXCEPT !.op = "max"]
      [] w.op = "relaxed_q15mulr" -> [w EXCEPT !.op = "q15mulr_sat"]
      [] w.op = "relaxed_laneselect" -> Fn("v128", "bitselect", "s")
      [] OTHER -> w

\* Mutant: the operands are not swapped.
Emitted_unswapped(w) ==
    [sh |-> IF w.op \in {"convert", "convert_low"} THEN w.sh ELSE LaneOf(w.sh, w.sx),
     op |-> CASE w.op = "gt" -> "lt" [] w.op = "ge" -> "le" [] OTHER -> w.op,
     from |-> IF w.op \in {"convert", "convert_low"} THEN LaneOf("i32", w.sx) ELSE "",
     swap |-> FALSE]
\* The Op a visitor emits, named by the type of its lanes; `gt` and `ge` have
\* none and take the swapped operands of `lt` and `le`.
Emitted(w) ==
    [sh |-> IF w.op \in {"convert", "convert_low"} THEN w.sh ELSE LaneOf(w.sh, w.sx),
     op |-> CASE w.op = "gt" -> "lt" [] w.op = "ge" -> "le" [] OTHER -> w.op,
     from |-> IF w.op \in {"convert", "convert_low"} THEN LaneOf("i32", w.sx) ELSE "",
     swap |-> w.op \in {"gt", "ge"}]

\* The function of simd.rs that the handler of an Op calls.
SignedOf(ty) == CASE ty = "u8" -> "i8" [] ty = "u16" -> "i16" [] ty = "u32" -> "i32" [] ty = "u64" -> "i64" [] OTHER -> ty
handler_unary128(o) ==
    Fn(SignedOf(o.sh), o.op, IF o.from = "u32" \/ SignedOf(o.sh) # o.sh THEN "u" ELSE "s")
handler_binary128(o) == Fn(SignedOf(o.sh), o.op, IF SignedOf(o.sh) # o.sh THEN "u" ELSE "s")
handler_ternary128(o) == Fn(o.sh, o.op, "s")

-----------------------------------------------------------------------------
\* The visitors: fold what is immediate, else emit an Op and run its handler.

Folded(places) == \A i \in DOMAIN places : places[i] = "imm"
Vector(family, places, w, args) == Call(family, "v128", places, w, args, 0)

translate_simd_unary ==
    /\ Free
    /\ \E w \in UnaryFns, p \in VectorPlaces, v \in V128s :
        /\ call' = Vector("vunary", <<p>>, w, <<v>>)
        /\ res' = Ok(Eval1(IF p = "imm" THEN Forward(w) ELSE handler_unary128(Emitted(Forward(w))), v))

translate_simd_binary ==
    /\ Free
    /\ \E w \in BinaryFns \cup {Fn("i8", "swizzle", "s")}, p, q \in VectorPlaces, l \in V128s, r \in V128s \cup Indices :
        /\ (r \in Indices) = (w.op = "swizzle")
        /\ call' = Vector("vbinary", <<p, q>>, w, <<l, r>>)
        /\ \E o \in {Emitted(Forward(w))}, folded \in {Folded(<<p, q>>)} :
            res' = Ok(Eval2(IF folded THEN Forward(w) ELSE handler_binary128(o),
                            IF o.swap /\ ~folded THEN r ELSE l,
                            IF o.swap /\ ~folded THEN l ELSE r))

translate_simd_ternary ==
    /\ Free
    /\ \E w \in TernaryFns, p \in VectorPlaces, x, y, z \in V128s :
        /\ call' = Vector("vternary", <<p, p, p>>, w, <<x, y, z>>)
        /\ res' = Ok(Eval3(IF p = "imm" THEN Forward(w) ELSE handler_ternary128(Emitted(Forward(w))), x, y, z))

\* What a ShiftAmount holds: of an immediate the remainder by the width of a
\* lane, of a slot or a register its lowest byte.
into_shift_amount(ty, place, rhs) == IF place = "imm" THEN rhs % Bits(ty) ELSE rhs % 256
translate_simd_shift ==
    /\ Free
    /\ \E w \in ShiftFns, p \in VectorPlaces, q \in ScalarPlaces, v \in V128s, rhs \in Amounts :
        /\ call' = Vector("vshift", <<p, q>>, w, <<v, rhs>>)
        /\ \E ty \in {LaneOf(w.sh, w.sx)} :
            res' = Ok(Shifted(ty, w.op, v, IF Folded(<<p, q>>) THEN rhs ELSE into_shift_amount(ty, q, rhs)))

\* The operators below read the same bits of a constant, a slot or a register.
translate_simd_splat ==
    /\ Free
    /\ \E ty \in Ints \cup Floats, x \in Scalars :
        /\ call' = Vector("vsplat", <<>>, Fn(ty, "splat", "s"), <<x>>)
        /\ res' = Ok(splat(ty, Wrap(Bits(ty), x)))

\* The result is the lane, or its extension to an i32.
ExtractOps == Each(Small, {"extract_lane"}, {"s", "u"}) \cup Each({"i32", "i64", "f32", "f64"}, {"extract_lane"}, {"s"})
Extracted(w, v, lane) ==
    IF w.sh \in Small THEN Cast(LaneOf(w.sh, w.sx), "i32", extract_lane(w.sh, v, lane))
    ELSE extract_lane(w.sh, v, lane)
translate_extract_lane ==
    /\ Free
    /\ \E w \in ExtractOps, v \in V128s, lane \in LaneIdxs("i8") :
        /\ lane < LANES(w.sh)
        /\ call' = Vector("vextract", <<>>, w, <<v, lane>>)
        /\ res' = Ok(Extracted(w, v, lane))

translate_replace_lane ==
    /\ Free
    /\ \E ty \in Ints \cup Floats, v \in V128s, lane \in LaneIdxs("i8"), x \in Scalars :
        /\ lane < LANES(ty)
        /\ call' = Vector("vreplace", <<>>, Fn(ty, "replace_lane", "s"), <<v, lane, x>>)
        /\ res' = Ok(replace_lane(ty, v, lane, Wrap(Bits(ty), x)))

visit_i8x16_shuffle ==
    /\ Free
    /\ \E l, r \in V128s, s \in Indices :
        /\ \A i \in DOMAIN s : s[i] < 32
        /\ call' = Vector("vshuffle", <<>>, Fn("i8", "shuffle", "s"), <<l, r, s>>)
        /\ res' = Ok(i8x16_shuffle(l, r, s))

\* An immediate address that does not fit traps without a load.
translate_v128_load ==
    /\ Free
    /\ \E p \in ScalarPlaces, ptr, offset \in Addresses :
        /\ call' = Vector("vload", <<p>>, Fn("v128", "load", "s"), <<ptr, offset>>)
        /\ res' = IF p = "imm" /\ effective_address(ptr, offset).trap # "None" THEN Err("MemoryOutOfBounds")
                  ELSE v128_load(Bytes128, ptr, offset)

\* A scalar load into the register, and what is made of it there.
Modified(w, bits) ==
    CASE w.op = "load_widen" -> widen_nxm(LaneOf(Half(w.sh), w.sx), w.sh, bits)
      [] w.op = "load_splat" -> splat(w.sh, bits)
      [] w.op = "load_zero" -> low_zero(w.sh, bits)
LoadOps ==
    Each({"i16", "i32", "i64"}, {"load_widen"}, {"s", "u"}) \cup Each(Ints, {"load_splat"}, {"s"})
    \cup Each({"i32", "i64"}, {"load_zero"}, {"s"})
LoadedTy(w) == IF w.op = "load_widen" THEN "u64" ELSE Unsigned(w.sh)
translate_v128_load_modify ==
    /\ Free
    /\ \E w \in LoadOps, ptr, offset \in Addresses :
        /\ call' = Vector("vload", <<>>, w, <<ptr, offset>>)
        /\ \E got \in {load_extend(Bytes128, "u64", LoadedTy(w), ptr, offset)} :
            res' = IF got.trap # "None" THEN got ELSE Ok(Modified(w, got.v))

translate_v128_load_lane ==
    /\ Free
    /\ \E ty \in Ints, ptr, offset \in Addresses, v \in V128s, lane \in LaneIdxs("i8") :
        /\ lane \in {0, LANES(ty) - 1}
        /\ call' = Vector("vloadlane", <<>>, Fn(ty, "load_lane", "s"), <<ptr, offset, v, lane>>)
        /\ \E got \in {load_extend(Bytes128, "u64", Unsigned(ty), ptr, offset)} :
            res' = IF got.trap # "None" THEN got ELSE Ok(replace_lane(ty, v, lane, got.v))

visit_v128_store ==
    /\ Free
    /\ \E ptr, offset \in Addresses, v \in V128s :
        /\ call' = Vector("vstore", <<>>, Fn("v128", "store", "s"), <<ptr, offset, v>>)
        /\ res' = v128_store(Bytes128, ptr, offset, v)

\* Of an immediate vector the lane is stored as a scalar, narrow lanes from an
\* i32; of a vector in a slot by the lane operators, wide lanes as a float.
translate_v128_store_lane ==
    /\ Free
    /\ \E ty \in Ints, p \in VectorPlaces, ptr, offset \in Addresses, v \in V128s, lane \in LaneIdxs("i8") :
        /\ lane \in {0, LANES(ty) - 1}
        /\ call' = Vector("vstorelane", <<p>>, Fn(ty, "store_lane", "s"), <<ptr, offset, v, lane>>)
        /\ res' = IF p = "slot" /\ ty \in Small THEN v128_store_lane(Bytes128, ty, ptr, offset, v, lane)
                  ELSE store_wrap(Bytes128, ty, ptr, offset, Extracted(Fn(ty, "extract_lane", "s"), v, lane))

VectorNext ==
    \/ translate_simd_unary \/ translate_simd_binary \/ translate_simd_ternary \/ translate_simd_shift
    \/ translate_simd_splat \/ translate_extract_lane \/ translate_replace_lane \/ visit_i8x16_shuffle
    \/ translate_v128_load \/ translate_v128_load_modify \/ translate_v128_load_lane
    \/ visit_v128_store \/ translate_v128_store_lane

VectorSpec == Init /\ [][Next \/ VectorNext]_vars

-----------------------------------------------------------------------------
\* The reference reads a vector as one number, the lanes as its digits.

Number(v) == SumFunction([k \in 1 .. V128Bytes |-> v[k] * 2 ^ (BYTE * (k - 1))])
Digit(ty, n, i) == (n \div 2 ^ (Bits(ty) * i)) % 2 ^ Bits(ty)
Lane(ty, v, i) == Num(ty, Digit(ty, Number(v), i))
\* `n` is the representable number nearest to the exact quotient p / q.
Nearest(ty, n, p, q) == \A m \in MinOf(ty) .. MaxOf(ty) : Abs(n * q - p) <= Abs(m * q - p)

\* Whether its operands are constants, slots or a register, an operator gives
\* what its function of simd.rs gives: the folding in the translator, the
\* swapped operands of gt and ge, the types in the names of the Ops and the
\* amounts of the shifts all agree (simd/visit.rs, exec/simd.rs).
FoldingAgrees ==
    /\ Is("vunary") => res.v = Eval1(Forward(call.op), call.l[1])
    /\ Is("vbinary") => res.v = Eval2(Forward(call.op), call.l[1], call.l[2])
    /\ Is("vternary") => res.v = Eval3(Forward(call.op), call.l[1], call.l[2], call.l[3])
    /\ Is("vshift") => \A i \in LaneIdxs(call.op.sh) :
            LET ty == call.op.sh
                n == call.l[2] % Bits(ty)
                a == Lane(LaneOf(ty, call.op.sx), call.l[1], i)
            IN  Digit(ty, Number(res.v), i) =
                    Wrap(Bits(ty), IF call.op.op = "shl" THEN a * 2 ^ n ELSE a \div 2 ^ n)

\* Each integer lane of the result is the exact one of the lanes at its place:
\* modular, saturated, rounded halves up, all ones for true (impl_binary_for).
LanesExact ==
    Is("vbinary") /\ call.op.sh \in Ints =>
        \A ty \in {LaneOf(call.op.sh, call.op.sx)} : \A i \in LaneIdxs(ty) :
            \A a \in {Lane(ty, call.l[1], i)}, b \in {Lane(ty, call.l[2], i)}, c \in {Lane(ty, res.v, i)} :
                LET M == 2 ^ Bits(ty)
                    Holds(is) == c = IF is THEN Num(ty, M - 1) ELSE 0
                IN  CASE call.op.op = "add" -> (c - a - b) % M = 0
                      [] call.op.op = "sub" -> (c - a + b) % M = 0
                      [] call.op.op = "mul" -> (c - a * b) % M = 0
                      [] call.op.op = "add_sat" -> Nearest(ty, c, a + b, 1)
                      [] call.op.op = "sub_sat" -> Nearest(ty, c, a - b, 1)
                      [] call.op.op = "min" -> c \in {a, b} /\ c <= a /\ c <= b
                      [] call.op.op = "max" -> c \in {a, b} /\ c >= a /\ c >= b
                      [] call.op.op = "avgr" -> 2 * c - (a + b) \in {0, 1}
                      [] call.op.op \in {"q15mulr_sat", "relaxed_q15mulr"} ->
                            Nearest(ty, c, a * b, M \div 2) /\ (c < MaxOf(ty) => ~Nearest(ty, c + 1, a * b, M \div 2))
                      [] call.op.op = "eq" -> Holds(a = b)
                      [] call.op.op = "ne" -> Holds(a # b)
                      [] call.op.op = "lt" -> Holds(a < b)
                      [] call.op.op = "gt" -> Holds(a > b)
                      [] call.op.op = "le" -> Holds(a <= b)
                      [] call.op.op = "ge" -> Holds(a >= b)
                      [] OTHER -> TRUE

\* What enters wider lanes keeps its value or is their exact sum or product;
\* what leaves them is the nearest value of the narrow lane (FromNarrow, FromWide).
WidthsExact ==
    (Is("vunary") \/ Is("vbinary")) /\ call.op.sh \in Ints =>
        \A sh \in {call.op.sh}, op \in {call.op.op}, l \in {call.l[1]}, r \in {call.l[Len(call.l)]} :
            /\ op \in {"extend_low", "extend_high", "extadd_pairwise", "extmul_low", "extmul_high", "dot", "relaxed_dot"} =>
                \A n \in {LaneOf(Half(sh), call.op.sx)}, i \in LaneIdxs(sh) :
                    LET A(k) == Lane(n, l, k)
                        B(k) == Lane(n, r, k)
                        high == i + LANES(sh)
                        c == CASE op = "extend_low" -> A(i)
                               [] op = "extend_high" -> A(high)
                               [] op = "extadd_pairwise" -> A(2 * i) + A(2 * i + 1)
                               [] op = "extmul_low" -> A(i) * B(i)
                               [] op = "extmul_high" -> A(high) * B(high)
                               [] OTHER -> A(2 * i) * B(2 * i) + A(2 * i + 1) * B(2 * i + 1)
                    IN  (Lane(sh, res.v, i) - c) % 2 ^ Bits(sh) = 0
            /\ op = "narrow" =>
                \A ty \in {LaneOf(sh, call.op.sx)}, i \in LaneIdxs(sh) :
                    Nearest(ty, Lane(ty, res.v, i),
                            IF i < LANES(Twice(sh)) THEN Lane(Twice(sh), l, i) ELSE Lane(Twice(sh), r, i - LANES(Twice(sh))), 1)

\* Each float lane is what the scalar operator makes of its operands, and a
\* conversion from two wide lanes leaves zeroes above them (low_or).
FloatLanesScalar ==
    /\ Is("vbinary") /\ call.op.sh \in Floats /\ call.op.op \in {"add", "sub", "mul", "div", "min", "max"} =>
        \A ty \in {call.op.sh} : \A i \in LaneIdxs(ty) :
            Digit(ty, Number(res.v), i) =
                Binary(ty, call.op.op, Digit(ty, Number(call.l[1]), i), Digit(ty, Number(call.l[2]), i)).v
    /\ Is("vunary") /\ call.op.op \in {"trunc_sat_zero", "demote_zero", "relaxed_trunc_zero"} =>
        /\ Number(res.v) < 2 ^ Bits("u64")
        /\ \A i \in LaneIdxs("f64") :
            Digit("u32", Number(res.v), i) =
                Unary("f64", LaneOf(call.op.sh, call.op.sx), IF call.op.sh = "f32" THEN "format" ELSE "truncate_sat",
                      Digit("f64", Number(call.l[1]), i)).v

\* The tests of a vector see exactly its lanes, and a selection takes each bit
\* from the vector its mask names (bitmask, all_true, any_true, v128_bitselect).
MasksSelect ==
    /\ Is("vunary") /\ call.op.op = "bitmask" =>
        \A i \in 0 .. V128Bytes : (Bit(res.v, i) = 1) = (i < LANES(call.op.sh) /\ Lane(call.op.sh, call.l[1], i) < 0)
    /\ Is("vunary") /\ call.op.op = "all_true" =>
        (res.v = 1) = (0 \notin {Lane(call.op.sh, call.l[1], i) : i \in LaneIdxs(call.op.sh)})
    /\ Is("vunary") /\ call.op.op = "any_true" => (res.v = 0) = (Number(call.l[1]) = 0)
    /\ Is("vternary") /\ call.op.op \in {"bitselect", "relaxed_laneselect"} =>
        \A i \in 0 .. Bits("u64") * 2 - 1 :
            Bit(Number(res.v), i) = Bit(Number(call.l[IF Bit(Number(call.l[3]), i) = 1 THEN 1 ELSE 2]), i)

\* A swizzle and a shuffle move whole bytes: the one the index names, or zero
\* when a swizzle's index names none (i8x16_swizzle, i8x16_shuffle).
BytesPicked ==
    /\ Is("vshuffle") => \A i \in 1 .. V128Bytes : res.v[i] = (call.l[1] \o call.l[2])[call.l[3][i] + 1]
    /\ Is("vbinary") /\ call.op.op = "swizzle" =>
        \A i \in 1 .. V128Bytes : res.v[i] = (call.l[1] \o [k \in 1 .. 240 |-> 0])[call.l[2][i] + 1]

\* A lane put in, by a replacement or a load, is the lane taken out, by an
\* extraction or a store, and no other bit or byte changes; an access past the
\* end fails and no part of it happens (translate_*_lane, v128_store*_lane).
LaneAccess ==
    LET sh == call.op.sh
        first == call.l[1] + call.l[2]
        Size(ty) == IF ty = "v128" THEN V128Bytes ELSE Bytes(ty)
        Kept(v, lane) == \A i \in LaneIdxs(sh) : i = lane \/ Lane(sh, res.v, i) = Lane(sh, v, i)
    IN  /\ Is("vsplat") => \A i \in LaneIdxs(sh) : Digit(sh, Number(res.v), i) = call.l[1] % 2 ^ Bits(sh)
        /\ Is("vextract") => (res.v - Lane(LaneOf(sh, call.op.sx), call.l[1], call.l[2])) % 2 ^ Bits(sh) = 0
        /\ Is("vreplace") =>
                Digit(sh, Number(res.v), call.l[2]) = call.l[3] % 2 ^ Bits(sh) /\ Kept(call.l[1], call.l[2])
        /\ Is("vloadlane") =>
                IF first + Size(sh) > Len(Bytes128) THEN res.trap = "MemoryOutOfBounds"
                ELSE \A k \in 1 .. V128Bytes :
                        res.v[k] = IF (k - 1) \div Size(sh) = call.l[4] THEN Bytes128[first + ((k - 1) % Size(sh)) + 1]
                                   ELSE call.l[3][k]
        /\ Is("vstore") \/ Is("vstorelane") =>
                IF first + Size(sh) > Len(Bytes128) THEN res.trap = "MemoryOutOfBounds"
                ELSE \A k \in 1 .. Len(Bytes128) :
                        res.v[k] = IF k - first \in 1 .. Size(sh)
                                   THEN call.l[3][(IF sh = "v128" THEN 0 ELSE call.l[4] * Size(sh)) + k - first]
                                   ELSE Bytes128[k]

\* A vector load reads the bytes it names and no others: all sixteen, or eight,
\* four, two or one of them widened, repeated or below zeroes (load_modify).
LoadsExact ==
    Is("vload") =>
        LET w == call.op
            first == call.l[1] + call.l[2]
            size == IF w.op = "load" THEN V128Bytes ELSE Bytes(LoadedTy(w))
        IN  IF first + size > Len(Bytes128) THEN res.trap = "MemoryOutOfBounds"
            ELSE \A v \in {[k \in 1 .. V128Bytes |-> IF k <= size THEN Bytes128[first + k] ELSE 0]} :
                CASE w.op \in {"load", "load_zero"} -> res.v = v
                  [] w.op = "load_splat" -> \A k \in 1 .. V128Bytes : res.v[k] = v[((k - 1) % size) + 1]
                  [] w.op = "load_widen" -> \A i \in LaneIdxs(w.sh) :
                        Lane(LaneOf(w.sh, w.sx), res.v, i) = Lane(LaneOf(Half(w.sh), w.sx), v, i)

\* The vector operators on numbers: lanes, widening and narrowing, floats, masks and bytes.
VectorsExact == LanesExact /\ WidthsExact /\ FloatLanesScalar /\ MasksSelect /\ BytesPicked

\* Every access of memory or of a lane sees what was put there, and only that.
AccessesExact == LoadSeesStore /\ LaneAccess /\ LoadsExact

=============================================================================
