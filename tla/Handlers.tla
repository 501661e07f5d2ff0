------------------------------ MODULE Handlers ------------------------------
(***************************************************************************)
(* The instruction handlers of the stock interpreter                       *)
(* (engine/executor/handler/exec.rs and the macros of exec/macros.rs): the *)
(* operators, the operand forms each has, and what executing one does.     *)
(*                                                                         *)
(* A form spells where the operands are, in order: r the register of their *)
(* type, s a slot, i an immediate.  A leading R is the result, in the      *)
(* register of its type; Rs_ is the result in the register and in a slot.  *)
(* A branch or a store has no result, its form starts with an operand.     *)
(*                                                                         *)
(* Cells and `ireg` hold an i32 or f32 zero-extended and are read at the   *)
(* type of the operand: the low half, whatever the high half is.           *)
(***************************************************************************)
EXTENDS WasmOps, TLC

Comm == {"Rrs", "Rri", "Rss", "Rsi"}
NonImm == {"Rrs", "Rsr", "Rss", "Rir", "Ris"}
All7 == Comm \cup NonImm
Twice == {"Rs_rs", "Rs_ri", "Rs_ss", "Rs_si"}
BrComm == {"Rs", "Ri", "Ss", "Si"}
BrAll == BrComm \cup {"Sr", "Ir", "Is"}

\* The operands' places of a form: of two operands, and of three.
Places ==
    [Rrr |-> <<"r", "r">>, Rrs |-> <<"r", "s">>, Rri |-> <<"r", "i">>, Rsr |-> <<"s", "r">>,
     Rss |-> <<"s", "s">>, Rsi |-> <<"s", "i">>, Rir |-> <<"i", "r">>, Ris |-> <<"i", "s">>,
     Rs_rs |-> <<"r", "s">>, Rs_ri |-> <<"r", "i">>, Rs_ss |-> <<"s", "s">>, Rs_si |-> <<"s", "i">>,
     Rs |-> <<"r", "s">>, Ri |-> <<"r", "i">>, Rr |-> <<"r", "r">>, Sr |-> <<"s", "r">>,
     Ss |-> <<"s", "s">>, Si |-> <<"s", "i">>, Ir |-> <<"i", "r">>, Is |-> <<"i", "s">>,
     Ii |-> <<"i", "i">>, Rs_r |-> <<"r", "r">>, Rs_s |-> <<"r", "s">>,
     R |-> <<"r">>, S |-> <<"s">>, I |-> <<"i">>,
     Rrrs |-> <<"r", "r", "s">>, Rrri |-> <<"r", "r", "i">>, Rrsr |-> <<"r", "s", "r">>,
     Rrir |-> <<"r", "i", "r">>, Rrss |-> <<"r", "s", "s">>, Rrsi |-> <<"r", "s", "i">>,
     Rris |-> <<"r", "i", "s">>, Rrii |-> <<"r", "i", "i">>, Rsrs |-> <<"s", "r", "s">>,
     Rsri |-> <<"s", "r", "i">>, Rssr |-> <<"s", "s", "r">>, Rsss |-> <<"s", "s", "s">>,
     Rssi |-> <<"s", "s", "i">>, Rsir |-> <<"s", "i", "r">>, Rsis |-> <<"s", "i", "s">>,
     Rsii |-> <<"s", "i", "i">>]

-----------------------------------------------------------------------------
\* Copies, and one operand: from its type to the result's.
Un(from, to, op) == [do |-> "unary", ty |-> from, to |-> to, op |-> op, forms |-> {"Rs", "Rr"}]

Copies ==
    [U64Copy |-> [do |-> "copy", ty |-> "u64"], U32Copy |-> [do |-> "copy", ty |-> "u32"],
     F32Copy |-> [do |-> "copy", ty |-> "f32"], F64Copy |-> [do |-> "copy", ty |-> "f64"]]

UnaryInt ==
    [F32ReinterpretI32 |-> Un("i32", "f32", "reinterpret"), I32ReinterpretF32 |-> Un("f32", "i32", "reinterpret"),
     F64ReinterpretI64 |-> Un("i64", "f64", "reinterpret"), I64ReinterpretF64 |-> Un("f64", "i64", "reinterpret"),
     I32Popcnt |-> Un("i32", "i32", "popcnt"), I32Ctz |-> Un("i32", "i32", "ctz"), I32Clz |-> Un("i32", "i32", "clz"),
     I32Sext8 |-> Un("i32", "i32", "extend8"), I32Sext16 |-> Un("i32", "i32", "extend16"),
     I32WrapI64 |-> Un("i64", "i32", "cast"),
     I64Popcnt |-> Un("i64", "i64", "popcnt"), I64Ctz |-> Un("i64", "i64", "ctz"), I64Clz |-> Un("i64", "i64", "clz"),
     I64Sext8 |-> Un("i64", "i64", "extend8"), I64Sext16 |-> Un("i64", "i64", "extend16"),
     I64Sext32 |-> Un("i64", "i64", "extend32")]

UnaryF32 ==
    [F32Abs |-> Un("f32", "f32", "abs"), F32Neg |-> Un("f32", "f32", "neg"), F32Nabs |-> Un("f32", "f32", "nabs"),
     F32Ceil |-> Un("f32", "f32", "ceil"), F32Floor |-> Un("f32", "f32", "floor"), F32Trunc |-> Un("f32", "f32", "trunc"),
     F32Nearest |-> Un("f32", "f32", "nearest"), F32Sqrt |-> Un("f32", "f32", "sqrt"),
     F32ConvertI32 |-> Un("i32", "f32", "convert"), F32ConvertU32 |-> Un("u32", "f32", "convert"),
     F32ConvertI64 |-> Un("i64", "f32", "convert"), F32ConvertU64 |-> Un("u64", "f32", "convert"),
     F32DemoteF64 |-> Un("f64", "f32", "format")]

UnaryF64 ==
    [F64Abs |-> Un("f64", "f64", "abs"), F64Neg |-> Un("f64", "f64", "neg"), F64Nabs |-> Un("f64", "f64", "nabs"),
     F64Ceil |-> Un("f64", "f64", "ceil"), F64Floor |-> Un("f64", "f64", "floor"), F64Trunc |-> Un("f64", "f64", "trunc"),
     F64Nearest |-> Un("f64", "f64", "nearest"), F64Sqrt |-> Un("f64", "f64", "sqrt"),
     F64ConvertI32 |-> Un("i32", "f64", "convert"), F64ConvertU32 |-> Un("u32", "f64", "convert"),
     F64ConvertI64 |-> Un("i64", "f64", "convert"), F64ConvertU64 |-> Un("u64", "f64", "convert"),
     F64PromoteF32 |-> Un("f32", "f64", "format")]

UnaryTrunc ==
    [I32TruncF32 |-> Un("f32", "i32", "try_truncate"), U32TruncF32 |-> Un("f32", "u32", "try_truncate"),
     I32TruncF64 |-> Un("f64", "i32", "try_truncate"), U32TruncF64 |-> Un("f64", "u32", "try_truncate"),
     I64TruncF32 |-> Un("f32", "i64", "try_truncate"), U64TruncF32 |-> Un("f32", "u64", "try_truncate"),
     I64TruncF64 |-> Un("f64", "i64", "try_truncate"), U64TruncF64 |-> Un("f64", "u64", "try_truncate"),
     I32TruncSatF32 |-> Un("f32", "i32", "truncate_sat"), U32TruncSatF32 |-> Un("f32", "u32", "truncate_sat"),
     I32TruncSatF64 |-> Un("f64", "i32", "truncate_sat"), U32TruncSatF64 |-> Un("f64", "u32", "truncate_sat"),
     I64TruncSatF32 |-> Un("f32", "i64", "truncate_sat"), U64TruncSatF32 |-> Un("f32", "u64", "truncate_sat"),
     I64TruncSatF64 |-> Un("f64", "i64", "truncate_sat"), U64TruncSatF64 |-> Un("f64", "u64", "truncate_sat")]

-----------------------------------------------------------------------------
\* Two operands of one type; a comparison's result is an i32.
Bin(ty, op, forms) == [do |-> "binary", ty |-> ty, to |-> ty, op |-> op, forms |-> forms]
Cmp(ty, op, forms) == [do |-> "binary", ty |-> ty, to |-> "i32", op |-> op, forms |-> forms]

BinaryI32 ==
    [I32Eq |-> Cmp("i32", "eq", Comm), I32And |-> Cmp("i32", "and", Comm), I32Or |-> Cmp("i32", "or", Comm),
     I32NotEq |-> Cmp("i32", "ne", Comm), I32NotAnd |-> Cmp("i32", "not_and", Comm), I32NotOr |-> Cmp("i32", "not_or", Comm),
     I32Add |-> Bin("i32", "add", Comm \cup Twice), I32Mul |-> Bin("i32", "mul", Comm \cup {"Rrr"}),
     I32BitAnd |-> Bin("i32", "bitand", Comm), I32BitOr |-> Bin("i32", "bitor", Comm),
     I32BitXor |-> Bin("i32", "bitxor", Comm), I32Sub |-> Bin("i32", "sub", NonImm),
     I32Div |-> Bin("i32", "div", All7), U32Div |-> Bin("u32", "div", All7),
     I32Rem |-> Bin("i32", "rem", All7), U32Rem |-> Bin("u32", "rem", All7),
     I32Le |-> Cmp("i32", "le", All7), I32Lt |-> Cmp("i32", "lt", All7),
     U32Le |-> Cmp("u32", "le", All7), U32Lt |-> Cmp("u32", "lt", All7),
     I32Shl |-> Bin("i32", "shl", All7), I32Shr |-> Bin("i32", "shr_s", All7), U32Shr |-> Bin("u32", "shr_u", All7),
     I32Rotl |-> Bin("i32", "rotl", All7), I32Rotr |-> Bin("i32", "rotr", All7)]

BinaryI64 ==
    [I64Eq |-> Cmp("i64", "eq", Comm), I64And |-> Cmp("i64", "and", Comm), I64Or |-> Cmp("i64", "or", Comm),
     I64NotEq |-> Cmp("i64", "ne", Comm), I64NotAnd |-> Cmp("i64", "not_and", Comm), I64NotOr |-> Cmp("i64", "not_or", Comm),
     I64Add |-> Bin("i64", "add", Comm \cup Twice), I64Mul |-> Bin("i64", "mul", Comm \cup {"Rrr"}),
     I64BitAnd |-> Bin("i64", "bitand", Comm), I64BitOr |-> Bin("i64", "bitor", Comm),
     I64BitXor |-> Bin("i64", "bitxor", Comm), I64Sub |-> Bin("i64", "sub", NonImm),
     I64Div |-> Bin("i64", "div", All7), U64Div |-> Bin("u64", "div", All7),
     I64Rem |-> Bin("i64", "rem", All7), U64Rem |-> Bin("u64", "rem", All7),
     I64Le |-> Cmp("i64", "le", All7), I64Lt |-> Cmp("i64", "lt", All7),
     U64Le |-> Cmp("u64", "le", All7), U64Lt |-> Cmp("u64", "lt", All7),
     I64Shl |-> Bin("i64", "shl", All7), I64Shr |-> Bin("i64", "shr_s", All7), U64Shr |-> Bin("u64", "shr_u", All7),
     I64Rotl |-> Bin("i64", "rotl", All7), I64Rotr |-> Bin("i64", "rotr", All7)]

BinaryF32 ==
    [F32Add |-> Bin("f32", "add", All7), F32Sub |-> Bin("f32", "sub", All7), F32Mul |-> Bin("f32", "mul", All7 \cup {"Rrr"}),
     F32Div |-> Bin("f32", "div", All7), F32Min |-> Bin("f32", "min", All7), F32Max |-> Bin("f32", "max", All7),
     F32Copysign |-> Bin("f32", "copysign", NonImm), F32Eq |-> Cmp("f32", "eq", Comm), F32Lt |-> Cmp("f32", "lt", All7),
     F32Le |-> Cmp("f32", "le", All7), F32NotEq |-> Cmp("f32", "ne", Comm), F32NotLt |-> Cmp("f32", "not_lt", All7),
     F32NotLe |-> Cmp("f32", "not_le", All7)]

BinaryF64 ==
    [F64Add |-> Bin("f64", "add", All7), F64Sub |-> Bin("f64", "sub", All7), F64Mul |-> Bin("f64", "mul", All7 \cup {"Rrr"}),
     F64Div |-> Bin("f64", "div", All7), F64Min |-> Bin("f64", "min", All7), F64Max |-> Bin("f64", "max", All7),
     F64Copysign |-> Bin("f64", "copysign", NonImm), F64Eq |-> Cmp("f64", "eq", Comm), F64Lt |-> Cmp("f64", "lt", All7),
     F64Le |-> Cmp("f64", "le", All7), F64NotEq |-> Cmp("f64", "ne", Comm), F64NotLt |-> Cmp("f64", "not_lt", All7),
     F64NotLe |-> Cmp("f64", "not_le", All7)]

-----------------------------------------------------------------------------
\* Fused compare and branch.
Br(ty, op, forms) == [do |-> "branch", ty |-> ty, op |-> op, forms |-> forms]

BranchI32 ==
    [BranchI32Eq |-> Br("i32", "eq", BrComm), BranchI32And |-> Br("i32", "and", BrComm), BranchI32Or |-> Br("i32", "or", BrComm),
     BranchI32NotEq |-> Br("i32", "ne", BrComm), BranchI32NotAnd |-> Br("i32", "not_and", BrComm),
     BranchI32NotOr |-> Br("i32", "not_or", BrComm), BranchI32Le |-> Br("i32", "le", BrAll),
     BranchI32Lt |-> Br("i32", "lt", BrAll), BranchU32Le |-> Br("u32", "le", BrAll), BranchU32Lt |-> Br("u32", "lt", BrAll)]

BranchI64 ==
    [BranchI64Eq |-> Br("i64", "eq", BrComm), BranchI64And |-> Br("i64", "and", BrComm), BranchI64Or |-> Br("i64", "or", BrComm),
     BranchI64NotEq |-> Br("i64", "ne", BrComm), BranchI64NotAnd |-> Br("i64", "not_and", BrComm),
     BranchI64NotOr |-> Br("i64", "not_or", BrComm), BranchI64Le |-> Br("i64", "le", BrAll),
     BranchI64Lt |-> Br("i64", "lt", BrAll), BranchU64Le |-> Br("u64", "le", BrAll), BranchU64Lt |-> Br("u64", "lt", BrAll)]

BranchFloat ==
    [BranchF32Eq |-> Br("f32", "eq", BrComm), BranchF32Le |-> Br("f32", "le", BrAll), BranchF32Lt |-> Br("f32", "lt", BrAll),
     BranchF32NotEq |-> Br("f32", "ne", BrComm), BranchF32NotLe |-> Br("f32", "not_le", BrAll), BranchF32NotLt |-> Br("f32", "not_lt", BrAll),
     BranchF64Eq |-> Br("f64", "eq", BrComm), BranchF64Le |-> Br("f64", "le", BrAll), BranchF64Lt |-> Br("f64", "lt", BrAll),
     BranchF64NotEq |-> Br("f64", "ne", BrComm), BranchF64NotLe |-> Br("f64", "not_le", BrAll), BranchF64NotLt |-> Br("f64", "not_lt", BrAll)]

-----------------------------------------------------------------------------
SelForms == {"Rrrs", "Rrri", "Rrsr", "Rrir", "Rrss", "Rrsi", "Rris", "Rrii",
             "Rsrs", "Rsri", "Rssr", "Rsss", "Rssi", "Rsir", "Rsis", "Rsii"}
\* The forms without an immediate select 64 bits whatever the type.
ImmForms == SelForms \ {"Rrrs", "Rrsr", "Rrss", "Rsrs", "Rssr", "Rsss"}

Select ==
    [U32Select |-> [do |-> "select", ty |-> "u32", to |-> "u32", forms |-> ImmForms],
     U64Select |-> [do |-> "select", ty |-> "u64", to |-> "u64", forms |-> SelForms],
     F32Select |-> [do |-> "select", ty |-> "f32", to |-> "f32", forms |-> SelForms],
     F64Select |-> [do |-> "select", ty |-> "f64", to |-> "f64", forms |-> SelForms]]

Ld(to, ty) == [do |-> "load", to |-> to, ty |-> ty, forms |-> {"Rr", "Rs", "Ri"}]
Ld0(to, ty) == [do |-> "load", to |-> to, ty |-> ty, forms |-> {"Rr", "Rs", "Rs_r", "Rs_s"}]

Loads ==
    [U32Load |-> Ld("u32", "u32"), U64Load |-> Ld("u64", "u64"), F32Load |-> Ld("f32", "f32"), F64Load |-> Ld("f64", "f64"),
     I32LoadExtend8 |-> Ld("i32", "i8"), U32LoadExtend8 |-> Ld("u32", "u8"), I32LoadExtend16 |-> Ld("i32", "i16"),
     U32LoadExtend16 |-> Ld("u32", "u16"), I64LoadExtend8 |-> Ld("i64", "i8"), U64LoadExtend8 |-> Ld("u64", "u8"),
     I64LoadExtend16 |-> Ld("i64", "i16"), U64LoadExtend16 |-> Ld("u64", "u16"), I64LoadExtend32 |-> Ld("i64", "i32"),
     U64LoadExtend32 |-> Ld("u64", "u32")]

LoadsMem0 ==
    [U32LoadMem0Offset16 |-> Ld0("u32", "u32"), U64LoadMem0Offset16 |-> Ld0("u64", "u64"),
     F32LoadMem0Offset16 |-> Ld0("f32", "f32"), F64LoadMem0Offset16 |-> Ld0("f64", "f64"),
     I32LoadExtend8Mem0Offset16 |-> Ld0("i32", "i8"), U32LoadExtend8Mem0Offset16 |-> Ld0("u32", "u8"),
     I32LoadExtend16Mem0Offset16 |-> Ld0("i32", "i16"), U32LoadExtend16Mem0Offset16 |-> Ld0("u32", "u16"),
     I64LoadExtend8Mem0Offset16 |-> Ld0("i64", "i8"), U64LoadExtend8Mem0Offset16 |-> Ld0("u64", "u8"),
     I64LoadExtend16Mem0Offset16 |-> Ld0("i64", "i16"), U64LoadExtend16Mem0Offset16 |-> Ld0("u64", "u16"),
     I64LoadExtend32Mem0Offset16 |-> Ld0("i64", "i32"), U64LoadExtend32Mem0Offset16 |-> Ld0("u64", "u32")]

StForms == {"Rs", "Ri", "Sr", "Ss", "Si"}
St(ty, mem) == [do |-> "store", ty |-> ty, mem |-> mem, forms |-> StForms \cup {"Ir", "Is", "Ii"}]
St0(ty, mem) == [St(ty, mem) EXCEPT !.forms = StForms]
StF(ty, forms) == [do |-> "store", ty |-> ty, mem |-> ty, forms |-> forms]

\* ty: the type of the value; mem: what is written of it.
Stores ==
    [U32Store |-> St("u32", "u32"), U64Store |-> St("u64", "u64"),
     F32Store |-> StF("f32", {"Rr", "Sr", "Ir"}), F64Store |-> StF("f64", {"Rr", "Sr", "Ir"}),
     I32StoreWrap8 |-> St("i32", "i8"), I32StoreWrap16 |-> St("i32", "i16"), I64StoreWrap8 |-> St("i64", "i8"),
     I64StoreWrap16 |-> St("i64", "i16"), I64StoreWrap32 |-> St("i64", "i32")]

StoresMem0 ==
    [U32StoreMem0Offset16 |-> St0("u32", "u32"), U64StoreMem0Offset16 |-> St0("u64", "u64"),
     F32StoreMem0Offset16 |-> StF("f32", {"Rr", "Sr"}), F64StoreMem0Offset16 |-> StF("f64", {"Rr", "Sr"}),
     I32StoreWrap8Mem0Offset16 |-> St0("i32", "i8"), I32StoreWrap16Mem0Offset16 |-> St0("i32", "i16"),
     I64StoreWrap8Mem0Offset16 |-> St0("i64", "i8"), I64StoreWrap16Mem0Offset16 |-> St0("i64", "i16"),
     I64StoreWrap32Mem0Offset16 |-> St0("i64", "i32")]

Others ==
    [Branch |-> [do |-> "jump", ty |-> "u64"], BranchTable |-> [do |-> "table", ty |-> "u32"],
     GlobalGetU64 |-> [do |-> "global_get", ty |-> "u64", to |-> "u64"], GlobalGetF32 |-> [do |-> "global_get", ty |-> "f32", to |-> "f32"],
     GlobalGetF64 |-> [do |-> "global_get", ty |-> "f64", to |-> "f64"],
     GlobalSetU32 |-> [do |-> "global_set", ty |-> "u32"], GlobalSetU64 |-> [do |-> "global_set", ty |-> "u64"],
     GlobalSetF32 |-> [do |-> "global_set", ty |-> "f32"], GlobalSetF64 |-> [do |-> "global_set", ty |-> "f64"],
     MemorySize |-> [do |-> "memory_size", ty |-> "u64", to |-> "u64"], MemoryCopy |-> [do |-> "memory_copy", ty |-> "u64"]]

Ops == Copies @@ UnaryInt @@ UnaryF32 @@ UnaryF64 @@ UnaryTrunc @@ BinaryI32 @@ BinaryI64 @@ BinaryF32
    @@ BinaryF64 @@ BranchI32 @@ BranchI64 @@ BranchFloat @@ Select @@ Loads @@ LoadsMem0 @@ Stores
    @@ StoresMem0 @@ Others

-----------------------------------------------------------------------------
(***************************************************************************)
(* Execution.  `st` holds the slots, the three registers, the memory with  *)
(* its page size, the globals and the branch target taken, or "fall".  An  *)
(* instruction is its operator, its form and its fields.                   *)
(***************************************************************************)
Get(st, ty, place, x) ==
    (CASE place = "s" -> st.slots[x]
       [] place = "i" -> x
       [] place = "r" /\ ty = "f32" -> st.freg32
       [] place = "r" /\ ty = "f64" -> st.freg64
       [] place = "r" /\ ty \notin Floats -> st.ireg) % 2 ^ Bits(ty)

SetReg(st, ty, v) ==
    CASE ty = "f32" -> [st EXCEPT !.freg32 = v]
      [] ty = "f64" -> [st EXCEPT !.freg64 = v]
      [] ty \notin Floats -> [st EXCEPT !.ireg = v]

\* The result into the register, and into its slot for the forms with both.
SetResult(st, ins, ty, v) ==
    IF ins.form \in Twice \cup {"Rs_r", "Rs_s"}
    THEN SetReg([st EXCEPT !.slots[ins.result] = v], ty, v) ELSE SetReg(st, ty, v)

\* The end of a handler: the new state, or the trap in the old one.
Done(st, r, after) ==
    IF r.trap = "None" THEN [st |-> after, trap |-> "None"] ELSE [st |-> st, trap |-> r.trap]

\* The result field of a copy into the register.
InRegister == -1

handler_copy(st, ins, d) ==
    LET v == Get(st, d.ty, ins.place, ins.value)
    IN  [st |-> IF ins.result = InRegister THEN SetReg(st, d.ty, v) ELSE [st EXCEPT !.slots[ins.result] = v],
         trap |-> "None"]

handler_unary(st, ins, d) ==
    LET r == Unary(d.ty, d.to, d.op, Get(st, d.ty, Places[ins.form][2], ins.value))
    IN  Done(st, r, SetResult(st, ins, d.to, r.v))

Operands(st, ins, ty) ==
    LET p == Places[ins.form] IN <<Get(st, ty, p[1], ins.lhs), Get(st, ty, p[2], ins.rhs)>>

handler_binary(st, ins, d) ==
    LET o == Operands(st, ins, d.ty)
        r == Binary(d.ty, d.op, o[1], o[2])
    IN  Done(st, r, SetResult(st, ins, d.to, r.v))

handler_cmp_branch(st, ins, d) ==
    LET o == Operands(st, ins, d.ty)
        r == Binary(d.ty, d.op, o[1], o[2])
    IN  Done(st, r, IF r.v = 1 THEN [st EXCEPT !.taken = "target"] ELSE st)

handler_select(st, ins, d) ==
    LET p == Places[ins.form]
        v == IF Get(st, "i32", p[1], ins.condition) # 0 THEN Get(st, d.ty, p[2], ins.true_val)
             ELSE Get(st, d.ty, p[3], ins.false_val)
    IN  [st |-> SetResult(st, ins, d.to, v), trap |-> "None"]

handler_load(st, ins, d) ==
    LET place == Places[ins.form][2]
        r == IF place = "i" THEN load_extend_at(st.memory, d.to, d.ty, ins.ptr)
             ELSE load_extend(st.memory, d.to, d.ty, Get(st, "u64", place, ins.ptr), ins.offset)
    IN  Done(st, r, SetResult(st, ins, d.to, r.v))

handler_store(st, ins, d) ==
    LET p == Places[ins.form]
        v == Get(st, d.mem, p[2], ins.value)
        r == IF p[1] = "i" THEN store_wrap_at(st.memory, d.mem, ins.ptr, v)
             ELSE store_wrap(st.memory, d.mem, Get(st, "u64", p[1], ins.ptr), ins.offset, v)
    IN  Done(st, r, [st EXCEPT !.memory = r.v])

fetch_branch_table_target(st, ins) ==
    LET i == Get(st, "u32", Places[ins.form][1], ins.index)
    IN  IF i < Len(ins.targets) - 1 THEN i ELSE Len(ins.targets) - 1

\* Both ranges are checked before a byte is copied.
memory_copy_within(st, ins) ==
    LET d == st.slots[ins.dst]
        s == st.slots[ins.src]
        n == st.slots[ins.len]
        m == st.memory
        r == IF s + n > Len(m) \/ d + n > Len(m) THEN Err("MemoryOutOfBounds")
             ELSE Ok([i \in 1 .. Len(m) |-> IF i - d \in 1 .. n THEN m[i - d + s] ELSE m[i]])
    IN  Done(st, r, [st EXCEPT !.memory = r.v])

Exec(st, ins) ==
    LET d == Ops[ins.op]
        Then(next) == [st |-> next, trap |-> "None"]
    IN  CASE d.do = "copy" -> handler_copy(st, ins, d)
          [] d.do = "unary" -> handler_unary(st, ins, d)
          [] d.do = "binary" -> handler_binary(st, ins, d)
          [] d.do = "branch" -> handler_cmp_branch(st, ins, d)
          [] d.do = "select" -> handler_select(st, ins, d)
          [] d.do = "load" -> handler_load(st, ins, d)
          [] d.do = "store" -> handler_store(st, ins, d)
          [] d.do = "jump" -> Then([st EXCEPT !.taken = "target"])
          [] d.do = "table" -> Then([st EXCEPT !.taken = ins.targets[1 + fetch_branch_table_target(st, ins)]])
          [] d.do = "global_get" -> Then(SetReg(st, d.ty, st.globals[ins.global] % 2 ^ Bits(d.ty)))
          [] d.do = "global_set" ->
                Then([st EXCEPT !.globals[ins.global] = Get(st, d.ty, Places[ins.form][1], ins.value)])
          [] d.do = "memory_size" -> Then(SetReg(st, d.ty, Len(st.memory) \div st.page))
          [] d.do = "memory_copy" -> memory_copy_within(st, ins)

=============================================================================
