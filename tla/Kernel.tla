------------------------------- MODULE Kernel -------------------------------
(***************************************************************************)
(* The instruction arms of the JIT tier's interpreter loop, `wasm_mainloop`*)
(* (handler/majit/kernel.rs), with the residual helpers they call.         *)
(*                                                                         *)
(* The kernel is untyped: slots and the accumulators A0 (`ireg`), A1       *)
(* (`freg64`) and A2 (`freg32`) are 64-bit words.  An i32 lives in a word  *)
(* sign-extended, an f32 as its bits in the low half.  An instruction P is *)
(* a sequence whose head is the arm's name; operands follow it.            *)
(*                                                                         *)
(* An arm is a record: what it computes, from which operands, into where.  *)
(* The arms that leave the loop or call belong to JitRun; the arms that    *)
(* `prepass` never emits are left out.                                     *)
(***************************************************************************)
EXTENDS WasmOps, TLC

CONSTANT PAGE  \* bytes in a page of linear memory, 65536 in the code

W == Bits("u64")
Sx32(x) == Cast("i32", "i64", x)
Zx32(x) == Cast("u32", "u64", x)

\* Operand descriptors: the slot named by P[i + 1], the immediate P[i + 1], an
\* accumulator; with the i32 view `(x << 32) >> 32` or the u32 view `x & MASK`.
S(i) == [from |-> "slot", view |-> "i64", i |-> i]
I(i) == [from |-> "imm", view |-> "i64", i |-> i]
A0 == [from |-> "A0", view |-> "i64", i |-> 0]
A1 == [from |-> "A1", view |-> "i64", i |-> 0]
A2 == [from |-> "A2", view |-> "i64", i |-> 0]
Sx(d) == [d EXCEPT !.view = "i32"]
Zx(d) == [d EXCEPT !.view = "u32"]
NoOperand == [from |-> "none", view |-> "i64", i |-> 0]

\* A0 := l op r, on 64-bit words, or on i32 words with the result extended.
Alu(ty, op, l, r) == [do |-> "alu", dst |-> "A0", ty |-> ty, op |-> op, l |-> l, r |-> r]
\* The same into the slot P[2] as well.
Both(ty, op, l, r) == [Alu(ty, op, l, r) EXCEPT !.dst = "both"]
\* dst := the result of the helper `fn` for the type ty; `sel` is its selector.
Residual(dst, fn, ty, sel, l, r) ==
    [do |-> "residual", dst |-> dst, fn |-> fn, ty |-> ty, sel |-> sel, l |-> l, r |-> r]
\* dst := the cell of global P[2].
Global(dst, view) == [do |-> "global_get", dst |-> dst, view |-> view]
Move(dst, view, src) == [do |-> "move", dst |-> dst, l |-> src, view |-> view]
Branch(ty, op, l, r) == [do |-> "branch", ty |-> ty, op |-> op, l |-> l, r |-> r]
\* dst := memory[A0 + P[2]] of type ty.
Load(dst, ty) == [do |-> "load", dst |-> dst, ty |-> ty]
Store(ty, ptr, offset, val) ==
    [do |-> "store", ty |-> ty, l |-> ptr, offset |-> offset, r |-> val]

-----------------------------------------------------------------------------
\* The arms, in the order of the loop.

ArmsCopyArith ==
    [COPY_SI |-> Move("slot", "i64", I(2)), COPY_SS |-> Move("slot", "i64", S(2)),
     COPY_SR |-> Move("slot", "i64", A0), COPY_RS |-> Move("A0", "i64", S(1)),
     COPY_RI |-> Move("A0", "i64", I(1)), COPY_S_FR |-> Move("slot", "i64", A1),
     BR_I32_NE_RI |-> Branch("i64", "ne", Sx(A0), Sx(I(2))),
     I32_ADD_SI_WB |-> Both("i32", "add", S(2), I(3)),
     I64_ADD_SS_WR |-> Alu("i64", "add", S(1), S(2)),
     I64_ADD_SS_WB |-> Both("i64", "add", S(2), S(3)),
     I64_MUL_SS_WR |-> Alu("i64", "mul", S(1), S(2)),
     I64_OR_SS_WR |-> Alu("i64", "bitor", S(1), S(2)),
     I64_SUB_SS_WR |-> Alu("i64", "sub", S(1), S(2)),
     I32_MUL_SS_WR |-> Alu("i32", "mul", S(1), S(2)),
     I32_ADD_RS_WB |-> Both("i32", "add", A0, S(2)),
     I32_ADD_SS_WB |-> Both("i32", "add", S(2), S(3)),
     I32_XOR_SS_WR |-> Alu("i32", "bitxor", S(1), S(2)),
     I32_AND_SS_WR |-> Alu("i32", "bitand", S(1), S(2))]

ArmsBranchArith ==
    [I32_OR_SS_WR |-> Alu("i32", "bitor", S(1), S(2)),
     I32_SUB_SS_WR |-> Alu("i32", "sub", S(1), S(2)),
     BR_U32_LE_SS |-> Branch("i64", "le", Zx(S(2)), Zx(S(3))),
     BR_ALWAYS |-> Branch("i64", "eq", NoOperand, NoOperand),
     BR_I64_EQ_SS |-> Branch("i64", "eq", S(2), S(3)),
     BR_I64_LE_SS |-> Branch("i64", "le", S(2), S(3)),
     BR_I64_LE_SI |-> Branch("i64", "le", S(2), I(3)),
     BR_I32_LE_SS |-> Branch("i64", "le", Sx(S(2)), Sx(S(3))),
     BR_I32_LT_SI |-> Branch("i64", "lt", Sx(S(2)), I(3)),
     BR_I64_LT_IR |-> Branch("i64", "lt", I(2), A0),
     I64_XOR_SS_WR |-> Alu("i64", "bitxor", S(1), S(2)),
     I64_AND_RI_WR |-> Alu("i64", "bitand", A0, I(1)),
     I64_OR_RI_WR |-> Alu("i64", "bitor", A0, I(1)),
     I64_AND_SI_WR |-> Alu("i64", "bitand", S(1), I(2)),
     I64_AND_SS_WR |-> Alu("i64", "bitand", S(1), S(2))]

ArmsShiftDiv ==
    [I64_ADD_RS_WB |-> Both("i64", "add", A0, S(2)),
     I64_SHL_SI |-> Alu("i64", "shl", S(1), I(2)),
     I32_SHL_SI |-> Alu("i32", "shl", S(1), I(2)),
     I32_ROTL_SI |-> Alu("i32", "rotl", S(1), I(2)),
     I32_ROTR_SI |-> Alu("i32", "rotr", S(1), I(2)),
     I32_BITCOUNT_S |-> Residual("A0", "bitcount", "i32", I(1), S(2), NoOperand),
     I64_BITCOUNT_S |-> Residual("A0", "bitcount", "i64", I(1), S(2), NoOperand),
     I32_DIV_S |-> Residual("A0", "div", "i32", NoOperand, S(1), S(2)),
     I32_DIV_U |-> Residual("A0", "div", "u32", NoOperand, S(1), S(2)),
     I32_REM_S |-> Residual("A0", "rem", "i32", NoOperand, S(1), S(2)),
     I32_REM_U |-> Residual("A0", "rem", "u32", NoOperand, S(1), S(2)),
     I64_DIV_S |-> Residual("A0", "div", "i64", NoOperand, S(1), S(2)),
     I64_DIV_U |-> Residual("A0", "div", "u64", NoOperand, S(1), S(2)),
     I64_REM_S |-> Residual("A0", "rem", "i64", NoOperand, S(1), S(2)),
     I64_REM_U |-> Residual("A0", "rem", "u64", NoOperand, S(1), S(2)),
     U32_SHR_RI |-> Alu("i32", "shr_u", Zx(A0), I(1))]

ArmsCompareAcc ==
    [I32_LT_SI_R |-> Alu("i64", "lt", Sx(S(1)), I(2)),
     I32_LT_RS_R |-> Alu("i64", "lt", Sx(A0), Sx(S(1))),
     I32_LT_SR_R |-> Alu("i64", "lt", Sx(S(1)), Sx(A0)),
     SELECT |-> [do |-> "select", dst |-> "A0", l |-> S(1), r |-> S(2)],
     I32_EQ_RS_R |-> Alu("i64", "eq", Sx(A0), Sx(S(1))),
     I32_NE_RS_R |-> Alu("i64", "ne", Sx(A0), Sx(S(1))),
     I64_EQ_RS_R |-> Alu("i64", "eq", A0, S(1)),
     I64_NE_RS_R |-> Alu("i64", "ne", A0, S(1)),
     I64_LT_RS_R |-> Alu("i64", "lt", A0, S(1)),
     I32_LE_RS_R |-> Alu("i64", "le", Sx(A0), Sx(S(1))),
     U32_LT_RS_R |-> Alu("i64", "lt", Zx(A0), Zx(S(1))),
     U32_LE_RS_R |-> Alu("i64", "le", Zx(A0), Zx(S(1)))]

ArmsCompareSlots ==
    [I32_EQ_SS_R |-> Alu("i64", "eq", Sx(S(1)), Sx(S(2))),
     I32_NE_SS_R |-> Alu("i64", "ne", Sx(S(1)), Sx(S(2))),
     I32_LT_SS_R |-> Alu("i64", "lt", Sx(S(1)), Sx(S(2))),
     I32_LE_SS_R |-> Alu("i64", "le", Sx(S(1)), Sx(S(2))),
     U32_LT_SS_R |-> Alu("i64", "lt", Zx(S(1)), Zx(S(2))),
     U32_LE_SS_R |-> Alu("i64", "le", Zx(S(1)), Zx(S(2))),
     I64_EQ_SS_R |-> Alu("i64", "eq", S(1), S(2)), I64_NE_SS_R |-> Alu("i64", "ne", S(1), S(2)),
     I64_LT_SS_R |-> Alu("i64", "lt", S(1), S(2)), I64_LE_SS_R |-> Alu("i64", "le", S(1), S(2)),
     U64_LT_SS_R |-> Alu("u64", "lt", S(1), S(2)), U64_LE_SS_R |-> Alu("u64", "le", S(1), S(2)),
     I64_LT_IS_R |-> Alu("i64", "lt", I(1), S(2)), I64_LT_SI_R |-> Alu("i64", "lt", S(1), I(2)),
     I64_LOAD_MEM0_OFF |-> Load("A0", "i64"), F64_LOAD_MEM0_OFF |-> Load("A1", "i64")]

ArmsFloat32 ==
    [F64_ARITH_RS |-> Residual("A1", "arith", "f64", I(1), A1, S(2)),
     F32_LOAD_MEM0_OFF |-> Load("A2", "i32"),
     F32_STORE_SR |-> Store("i32", S(1), I(2), A2),
     COPY_S_F32R |-> Move("slot", "i64", A2),
     F32_ARITH_RS |-> Residual("A2", "arith", "f32", I(1), A2, S(2)),
     F32_MINMAX_RS |-> Residual("A2", "minmax", "f32", I(1), A2, S(2)),
     F32_CMP_RS_R |-> Residual("A0", "cmp", "f32", I(1), A2, S(2)),
     F32_UNARY_S |-> Residual("A2", "unary", "f32", I(1), S(2), NoOperand),
     F32_CVT_S |-> Residual("A2", "convert", "f32", I(1), S(2), NoOperand),
     F64_PROMOTE_S |-> Residual("A1", "format", "f32", NoOperand, S(1), NoOperand),
     F32_DEMOTE_S |-> Residual("A2", "format", "f64", NoOperand, S(1), NoOperand),
     GLOBAL_GET_R |-> Global("A0", "i64"), GLOBAL_GET_F32 |-> Global("A2", "u32"),
     GLOBAL_GET_F64 |-> Global("A1", "i64"), GLOBAL_SET_S |-> [do |-> "global_set", l |-> S(2)],
     I32_REINTERP_F32 |-> Move("A0", "i32", A2), F32_REINTERP_I32 |-> Move("A2", "u32", A0),
     I64_REINTERP_F64 |-> Move("A0", "i64", A1), F64_REINTERP_I64 |-> Move("A1", "i64", A0),
     F32_TRUNC_SAT_S |-> Residual("A0", "trunc_sat", "f32", I(1), S(2), NoOperand),
     F32_TRUNC_S |-> Residual("A0", "trunc", "f32", I(1), S(2), NoOperand)]

ArmsFloat64 ==
    [F64_CMP_RS_R |-> Residual("A0", "cmp", "f64", I(1), A1, S(2)),
     F64_UNARY_S |-> Residual("A1", "unary", "f64", I(1), S(2), NoOperand),
     F64_MINMAX_RS |-> Residual("A1", "minmax", "f64", I(1), A1, S(2)),
     F64_CVT_S |-> Residual("A1", "convert", "f64", I(1), S(2), NoOperand),
     F64_TRUNC_SAT_S |-> Residual("A0", "trunc_sat", "f64", I(1), S(2), NoOperand),
     F64_TRUNC_S |-> Residual("A0", "trunc", "f64", I(1), S(2), NoOperand),
     I32_LOAD_MEM0_OFF |-> Load("A0", "i32"), U8_LOAD_MEM0_OFF |-> Load("A0", "u8"),
     I8_LOAD_MEM0_OFF |-> Load("A0", "i8"), U16_LOAD_MEM0_OFF |-> Load("A0", "u16"),
     I16_LOAD_MEM0_OFF |-> Load("A0", "i16"), I32_STORE_SR |-> Store("i32", S(1), I(2), A0),
     I64_STORE_SR |-> Store("i64", S(1), I(2), A0), F64_STORE_SR |-> Store("i64", S(1), I(2), A1),
     I32_STORE8_SR |-> Store("u8", S(1), I(2), A0)]

ArmsStoreBranch ==
    [I32_STORE16_SR |-> Store("u16", S(1), I(2), A0),
     I32_STORE_RS |-> Store("i32", A0, I(1), S(2)), I64_STORE_RS |-> Store("i64", A0, I(1), S(2)),
     I32_STORE8_RS |-> Store("u8", A0, I(1), S(2)), I32_STORE16_RS |-> Store("u16", A0, I(1), S(2)),
     I64_SEXT32 |-> Move("A0", "i32", A0), I64_SEXT32_S |-> Move("A0", "i32", S(1)),
     U64_SHR_SI |-> [do |-> "shr_mask", dst |-> "A0", l |-> S(1), r |-> I(2)],
     BR_I64_EQ_SI |-> Branch("i64", "eq", S(2), I(3)),
     BR_I64_NE_RI |-> Branch("i64", "ne", A0, I(2)),
     BR_I64_NE_SS |-> Branch("i64", "ne", S(2), S(3)),
     BR_U64_LT_SS |-> Branch("u64", "lt", S(2), S(3)),
     MEMORY_SIZE |-> [do |-> "memory_size", dst |-> "A0"],
     U64_SHR_SS_WR |-> Alu("i64", "shr_u", S(1), S(2)),
     MEM_COPY_WITHIN |-> [do |-> "copy_within"]]

ArmsAccumulator ==
    [I32_AND_RS_WR |-> Alu("i32", "bitand", A0, S(1)), I32_OR_RS_WR |-> Alu("i32", "bitor", A0, S(1)),
     I32_SUB_RS_WR |-> Alu("i32", "sub", A0, S(1)), I32_MUL_RS_WR |-> Alu("i32", "mul", A0, S(1)),
     I32_XOR_RS_WR |-> Alu("i32", "bitxor", A0, S(1)), I64_SUB_RS_WR |-> Alu("i64", "sub", A0, S(1)),
     I64_MUL_RS_WR |-> Alu("i64", "mul", A0, S(1)), I64_OR_RS_WR |-> Alu("i64", "bitor", A0, S(1)),
     I64_XOR_RS_WR |-> Alu("i64", "bitxor", A0, S(1)), I32_SUB_SR_WR |-> Alu("i32", "sub", S(1), A0),
     I64_SUB_SR_WR |-> Alu("i64", "sub", S(1), A0), I32_ADD_RS_WR |-> Alu("i32", "add", A0, S(1)),
     I64_ADD_RS_WR |-> Alu("i64", "add", A0, S(1)), I64_AND_RS_WR |-> Alu("i64", "bitand", A0, S(1))]

ArmsBranchAcc ==
    [BR_I64_NE_RS |-> Branch("i64", "ne", A0, S(2)), BR_I64_EQ_RS |-> Branch("i64", "eq", A0, S(2)),
     BR_I64_EQ_RI |-> Branch("i64", "eq", A0, I(2)), BR_TABLE |-> [do |-> "branch_table"]]

Arms == ArmsCopyArith @@ ArmsBranchArith @@ ArmsShiftDiv @@ ArmsCompareAcc @@ ArmsCompareSlots
     @@ ArmsFloat32 @@ ArmsFloat64 @@ ArmsStoreBranch @@ ArmsAccumulator @@ ArmsBranchAcc

-----------------------------------------------------------------------------
\* The residual helpers, all on 64-bit words.

Sel(names, sel) == names[IF sel + 1 > Len(names) THEN Len(names) ELSE sel + 1]
IntTypes == <<"i32", "u32", "i64", "u64">>

float_arith(ty, sel, a, b) ==
    LET x == a % 2 ^ Bits(ty)
        y == b % 2 ^ Bits(ty)
        op == Sel(<<"add", "sub", "mul", "div">>, sel)
    IN  CASE op = "add" -> HwAdd(ty, x, y)
          [] op = "sub" -> HwSub(ty, x, y)
          [] op = "mul" -> HwMul(ty, x, y)
          [] op = "div" -> HwDiv(ty, x, y)

float_minmax(ty, sel, a, b) ==
    LET x == a % 2 ^ Bits(ty)
        y == b % 2 ^ Bits(ty)
    IN  IF sel < 2 THEN minmax(ty, Sel(<<"min", "max">>, sel), x, y)
        ELSE IF sel = 2 THEN copysign(ty, x, y) ELSE copysign(ty, y, x)

float_compare(ty, sel, a, b) ==
    LET x == a % 2 ^ Bits(ty)
        y == b % 2 ^ Bits(ty)
    IN  IF sel \in {4, 5} THEN float_cmp(ty, Sel(<<"lt", "le">>, sel - 4), y, x)
        ELSE float_cmp(ty, Sel(<<"lt", "le", "eq", "ne">>, sel), x, y)

float_unary(ty, sel, a) ==
    Unary(ty, ty, Sel(<<"abs", "neg", "sqrt", "ceil", "floor", "trunc", "nearest">>, sel),
          a % 2 ^ Bits(ty)).v

float_convert(ty, sel, a) ==
    LET ity == Sel(IntTypes, sel) IN convert(ity, ty, a % 2 ^ Bits(ity))

\* The integer result is extended as its Rust type is: u32 by zeroes.
float_trunc_sat(ty, sel, a) ==
    LET ity == Sel(IntTypes, sel)
    IN  Cast(ity, "i64", truncate_saturate_into(ty, ity, a % 2 ^ Bits(ty)))

float_trunc(ty, sel, a) ==
    LET ity == Sel(IntTypes, sel)
        r == try_truncate_into(ty, ity, a % 2 ^ Bits(ty))
    IN  [r EXCEPT !.v = Cast(ity, "i64", @)]

int_bitcount(ty, sel, a) == bitcount(ty, Sel(<<"clz", "ctz", "popcnt">>, sel), a % 2 ^ Bits(ty))

\* Mutant: the result of a 32-bit division keeps the zeroes above it.
int_divrem_zero(ty, op, a, b) == divrem(ty, op, a % 2 ^ Bits(ty), b % 2 ^ Bits(ty))

\* Division: the operands at their width; a 32-bit result is sign-extended.
int_divrem(ty, op, a, b) ==
    LET r == divrem(ty, op, a % 2 ^ Bits(ty), b % 2 ^ Bits(ty))
    IN  [r EXCEPT !.v = IF Bytes(ty) = 4 THEN Sx32(@) ELSE @]

residual(a, sel, x, y) ==
    CASE a.fn = "arith" -> Ok(float_arith(a.ty, sel, x, y))
      [] a.fn = "minmax" -> Ok(float_minmax(a.ty, sel, x, y))
      [] a.fn = "cmp" -> Bool(float_compare(a.ty, sel, x, y))
      [] a.fn = "unary" -> Ok(float_unary(a.ty, sel, x))
      [] a.fn = "convert" -> Ok(float_convert(a.ty, sel, x))
      [] a.fn = "format" -> Ok(promote_demote(a.ty, IF a.ty = "f32" THEN "f64" ELSE "f32",
                                              x % 2 ^ Bits(a.ty)))
      [] a.fn = "trunc_sat" -> Ok(float_trunc_sat(a.ty, sel, x))
      [] a.fn = "trunc" -> float_trunc(a.ty, sel, x)
      [] a.fn = "bitcount" -> Ok(int_bitcount(a.ty, sel, x))
      [] a.fn \in {"div", "rem"} -> int_divrem(a.ty, a.fn, x, y)

-----------------------------------------------------------------------------
(***************************************************************************)
(* The state of the loop: the slots, the accumulators, the memory and the  *)
(* globals of the instance; the two bits of `mem_trap_did`; `code`, the    *)
(* first trap a residual recorded (MEM_TRAP and the trap code, both        *)
(* thread-local); and the target of the branch taken, or "fall".           *)
(***************************************************************************)
View(view, x) == CASE view = "i64" -> x [] view = "i32" -> Sx32(x) [] view = "u32" -> Zx32(x)

Word(st, P, d) ==
    View(d.view, CASE d.from = "slot" -> st.slots[P[d.i + 1]]
                   [] d.from = "imm" -> P[d.i + 1]
                   [] d.from = "none" -> 0
                   [] d.from = "A0" -> st.A0
                   [] d.from = "A1" -> st.A1
                   [] d.from = "A2" -> st.A2)

Put(st, P, dst, v) ==
    CASE dst = "slot" -> [st EXCEPT !.slots[P[2]] = v]
      [] dst = "both" -> [st EXCEPT !.slots[P[2]] = v, !.A0 = v]
      [] dst = "A0" -> [st EXCEPT !.A0 = v]
      [] dst = "A1" -> [st EXCEPT !.A1 = v]
      [] dst = "A2" -> [st EXCEPT !.A2 = v]

alu(ty, op, x, y) ==
    IF ty = "i32" THEN Sx32(Binary(ty, op, x % 2 ^ Bits(ty), y % 2 ^ Bits(ty)).v)
    ELSE Binary(ty, op, x, y).v

set_residual_trap(st, code) ==
    IF code = "None" \/ st.code # "None" THEN st ELSE [st EXCEPT !.code = code]

\* Mutant: the last byte of the memory is out of bounds.
OutOfBounds_early(st, ea, n) == Num("i64", ea) + n >= Len(st.memory)

OutOfBounds(st, ea, n) == Num("i64", ea) + n > Len(st.memory)

\* A load traps as a flag and yields 0; a store after a trap does nothing.
kernel_load(st, P, a) ==
    LET ea == Wrap(W, Zx32(st.A0) + P[2])
        trap == st.trap \/ OutOfBounds(st, ea, Bytes(a.ty))
    IN  [Put(st, P, a.dst, IF trap THEN 0
                           ELSE Cast(a.ty, "i64", FromLe(st.memory, ea, Bytes(a.ty))))
            EXCEPT !.trap = trap]

\* Mutant: a store is not recorded.
kernel_store_unflagged(st, P, a) ==
    LET ea == Wrap(W, Zx32(Word(st, P, a.l)) + Word(st, P, a.offset))
    IN  IF st.trap THEN st
        ELSE IF OutOfBounds(st, ea, Bytes(a.ty)) THEN [st EXCEPT !.trap = TRUE]
        ELSE [st EXCEPT !.memory = store_wrap_at(st.memory, a.ty, ea, Word(st, P, a.r)).v]

kernel_store(st, P, a) ==
    LET ea == Wrap(W, Zx32(Word(st, P, a.l)) + Word(st, P, a.offset))
    IN  IF st.trap THEN st
        ELSE IF OutOfBounds(st, ea, Bytes(a.ty)) THEN [st EXCEPT !.trap = TRUE]
        ELSE [st EXCEPT !.memory = store_wrap_at(st.memory, a.ty, ea, Word(st, P, a.r)).v,
                        !.did = TRUE]

\* The range check of a copy compares the end of a range as a signed number;
\* a copy that passes it is not a trap.
copy_in_range(st, x, n) == x + n < 2 ^ W /\ Num("i64", x + n) <= Len(st.memory)

mem_copy_within(st, P) ==
    LET d == st.slots[P[2]]
        s == st.slots[P[3]]
        n == st.slots[P[4]]
        trap == st.trap \/ st.code # "None"
    IN  IF trap \/ ~copy_in_range(st, d, n) \/ ~copy_in_range(st, s, n)
        THEN [st EXCEPT !.trap = TRUE]
        ELSE [st EXCEPT !.did = TRUE,
                !.memory = [i \in 1 .. Len(@) |->
                    IF i - d \in 1 .. n /\ i - d + s \in 1 .. Len(@) THEN @[i - d + s] ELSE @[i]]]

\* One turn of the loop.
Step(st, P) ==
    LET a == Arms[P[1]]
    IN  CASE a.do = "alu" -> Put(st, P, a.dst, alu(a.ty, a.op, Word(st, P, a.l), Word(st, P, a.r)))
          [] a.do = "residual" ->
                LET r == residual(a, Word(st, P, a.sel), Word(st, P, a.l), Word(st, P, a.r))
                IN  set_residual_trap(Put(st, P, a.dst, r.v), r.trap)
          [] a.do = "move" -> Put(st, P, a.dst, View(a.view, Word(st, P, a.l)))
          [] a.do = "global_get" -> Put(st, P, a.dst, View(a.view, st.globals[P[2]]))
          [] a.do = "global_set" -> [st EXCEPT !.globals[P[2]] = Word(st, P, a.l)]
          [] a.do = "branch" ->
                IF Binary(a.ty, a.op, Word(st, P, a.l), Word(st, P, a.r)).v = 1
                THEN [st EXCEPT !.taken = P[2]] ELSE st
          [] a.do = "branch_table" ->
                LET i == Zx32(st.A0) IN [st EXCEPT !.taken = P[3 + (IF i < P[2] THEN i ELSE P[2] - 1)]]
          [] a.do = "load" -> kernel_load(st, P, a)
          [] a.do = "store" -> kernel_store(st, P, a)
          [] a.do = "select" ->
                Put(st, P, a.dst, Word(st, P, IF Zx32(st.A0) # 0 THEN a.l ELSE a.r))
          [] a.do = "shr_mask" ->
                Put(st, P, a.dst, bitand(shift("i64", "shr_s", Word(st, P, a.l), Word(st, P, a.r)), P[4]))
          [] a.do = "memory_size" -> Put(st, P, a.dst, Len(st.memory) \div PAGE)
          [] a.do = "copy_within" -> mem_copy_within(st, P)

=============================================================================
