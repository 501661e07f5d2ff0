------------------------------- MODULE Lower --------------------------------
(***************************************************************************)
(* The lowering table of the JIT tier's prepass (handler/majit/prepass.rs):*)
(* for every stock instruction it accepts, the kernel instructions it      *)
(* emits.                                                                  *)
(*                                                                         *)
(* A row is <<operator, form, code>>: the stock instruction `operator_form`*)
(* and its code, a sequence of kernel instructions.  An operand is a field *)
(* of the stock instruction ("lhs", "ptr", "result", ...), the field as an *)
(* immediate extended to 64 bits as its type is ("#rhs"), one of the two   *)
(* scratch slots ("sb", "sb1"), the branch target, or a literal ("#0").    *)
(***************************************************************************)
EXTENDS Naturals, Sequences

Row(op, form, code) == {<<op, form, code>>}

\* The emission helpers for two operands: register and immediate operands are
\* copied to scratch slots, and the order of the operands is kept.
dr_ss(m) == <<<<m, "lhs", "rhs">>>>
dr_rs(m) == <<<<"COPY_SR", "sb">>, <<m, "sb", "rhs">>>>
dr_sr(m) == <<<<"COPY_SR", "sb">>, <<m, "lhs", "sb">>>>
dr_si(m) == <<<<"COPY_SI", "sb", "#rhs">>, <<m, "lhs", "sb">>>>
dr_ri(m) == <<<<"COPY_SR", "sb">>, <<"COPY_SI", "sb1", "#rhs">>, <<m, "sb", "sb1">>>>
dr_is(m) == <<<<"COPY_SI", "sb", "#lhs">>, <<m, "sb", "rhs">>>>
dr_ir(m) == <<<<"COPY_SI", "sb", "#lhs">>, <<"COPY_SR", "sb1">>, <<m, "sb", "sb1">>>>

Dr(form, m) ==
    CASE form \in {"Rss", "Ss"} -> dr_ss(m)
      [] form \in {"Rrs", "Rs"} -> dr_rs(m)
      [] form \in {"Rsr", "Sr"} -> dr_sr(m)
      [] form \in {"Rsi", "Si"} -> dr_si(m)
      [] form \in {"Rri", "Ri"} -> dr_ri(m)
      [] form \in {"Ris", "Is"} -> dr_is(m)
      [] form \in {"Rir", "Ir"} -> dr_ir(m)

Rows(op, forms, m) == {<<op, f, Dr(f, m)>> : f \in forms}

\* A fused compare-branch: the predicate into ireg, then branch if non-zero.
br_cmp(op, forms, m) ==
    {<<op, f, Append(Dr(f, m), <<"BR_I32_NE_RI", "target", "#0">>)>> : f \in forms}
br_dir_ss(op, br) == Row(op, "Ss", <<<<br, "target", "lhs", "rhs">>>>)
br_dir_rs(op, br) == Row(op, "Rs", <<<<br, "target", "rhs">>>>)

\* A fused bit-test branch: m computes the bits into ireg, br tests them.
br_bit(op, form, m, br) ==
    LET code == CASE form = "Ss" -> <<<<m, "lhs", "rhs">>>>
                  [] form = "Rs" -> <<<<m, "rhs">>>>
                  [] form = "Ri" -> <<<<m, "#rhs">>>>
                  [] form = "Si3" -> <<<<m, "lhs", "#rhs">>>>
                  [] form = "Si" -> <<<<"COPY_RS", "lhs">>, <<m, "#rhs">>>>
    IN  Row(op, IF form = "Si3" THEN "Si" ELSE form, Append(code, <<br, "target", "#0">>))

BitRows(op, ss, rs, si, ri, si_form, br) ==
    br_bit(op, "Ss", ss, br) \cup br_bit(op, "Rs", rs, br)
    \cup br_bit(op, si_form, si, br) \cup br_bit(op, "Ri", ri, br)

\* One operand, in a slot or copied from its register: m with a selector.
UnaryRows(op, copy, m, sel) ==
    Row(op, "Rs", <<<<m, sel, "value">>>>) \cup Row(op, "Rr", <<<<copy, "sb">>, <<m, sel, "sb">>>>)

\* A float accumulator with a slot or an immediate.
AccRows(op, m, sels) ==
    {<<op, f, IF f = "Rri" THEN <<<<"COPY_SI", "sb", "#rhs">>, <<m, sels[f], "sb">>>>
              ELSE <<<<m, sels[f], IF f = "Rrs" THEN "rhs" ELSE "lhs">>>>>> : f \in DOMAIN sels}

-----------------------------------------------------------------------------
LowerBranchEq ==
    Row("I32Add", "Rs_si", <<<<"I32_ADD_SI_WB", "result", "lhs", "#rhs">>>>)
    \cup Row("BranchI32NotEq", "Ri", <<<<"BR_I32_NE_RI", "target", "#rhs">>>>)
    \cup Row("BranchI32NotEq", "Si", <<<<"COPY_RS", "lhs">>, <<"BR_I32_NE_RI", "target", "#rhs">>>>)
    \cup Row("BranchI32NotEq", "Rs", <<<<"COPY_SR", "sb">>, <<"BR_I64_NE_SS", "target", "sb", "rhs">>>>)
    \cup Row("BranchI32Eq", "Si", <<<<"BR_I64_EQ_SI", "target", "lhs", "#rhs">>>>)
    \cup Row("BranchI32Eq", "Ri", <<<<"COPY_SR", "sb">>, <<"BR_I64_EQ_SI", "target", "sb", "#rhs">>>>)

LowerBranchAnd ==
    BitRows("BranchI32And", "I32_AND_SS_WR", "I32_AND_RS_WR", "I64_AND_SI_WR", "I64_AND_RI_WR", "Si3", "BR_I64_NE_RI")
    \cup BitRows("BranchI64And", "I64_AND_SS_WR", "I64_AND_RS_WR", "I64_AND_SI_WR", "I64_AND_RI_WR", "Si3", "BR_I64_NE_RI")

LowerBranchCmp ==
    br_cmp("BranchI32Lt", {"Rs", "Sr", "Ss", "Ir", "Is"}, "I32_LT_SS_R")
    \cup br_cmp("BranchI32Le", {"Rs", "Ri", "Sr", "Si", "Ir", "Is"}, "I32_LE_SS_R")
    \cup br_cmp("BranchI64Lt", {"Ri", "Si", "Sr", "Ss", "Is"}, "I64_LT_SS_R")
    \cup br_cmp("BranchI64Le", {"Ri", "Sr", "Ir", "Is"}, "I64_LE_SS_R")
    \cup br_cmp("BranchU32Lt", {"Ri", "Is"}, "U32_LT_SS_R")
    \cup br_cmp("BranchU32Le", {"Ri", "Si", "Is"}, "U32_LE_SS_R")
    \cup br_cmp("BranchU64Lt", {"Ri", "Rs", "Sr"}, "U64_LT_SS_R")
    \cup br_dir_ss("BranchU64Lt", "BR_U64_LT_SS")
    \cup br_cmp("BranchU64Le", {"Ir", "Is", "Ri", "Rs", "Si", "Sr", "Ss"}, "U64_LE_SS_R")
    \cup br_dir_ss("BranchI32Eq", "BR_I64_EQ_SS") \cup br_dir_ss("BranchI32NotEq", "BR_I64_NE_SS")
    \cup br_dir_rs("BranchI64Eq", "BR_I64_EQ_RS") \cup br_dir_rs("BranchI64NotEq", "BR_I64_NE_RS")
    \cup br_dir_ss("BranchI64NotEq", "BR_I64_NE_SS")
    \cup Row("BranchI64NotEq", "Si", <<<<"COPY_RS", "lhs">>, <<"BR_I64_NE_RI", "target", "#rhs">>>>)

LowerBranchBit ==
    BitRows("BranchI32Or", "I32_OR_SS_WR", "I32_OR_RS_WR", "I64_OR_RI_WR", "I64_OR_RI_WR", "Si", "BR_I64_NE_RI")
    \cup BitRows("BranchI64Or", "I64_OR_SS_WR", "I64_OR_RS_WR", "I64_OR_RI_WR", "I64_OR_RI_WR", "Si", "BR_I64_NE_RI")
    \cup BitRows("BranchI32NotOr", "I32_OR_SS_WR", "I32_OR_RS_WR", "I64_OR_RI_WR", "I64_OR_RI_WR", "Si", "BR_I64_EQ_RI")
    \cup BitRows("BranchI64NotOr", "I64_OR_SS_WR", "I64_OR_RS_WR", "I64_OR_RI_WR", "I64_OR_RI_WR", "Si", "BR_I64_EQ_RI")
    \cup BitRows("BranchI32NotAnd", "I32_AND_SS_WR", "I32_AND_RS_WR", "I64_AND_SI_WR", "I64_AND_RI_WR", "Si3", "BR_I64_EQ_RI")
    \cup BitRows("BranchI64NotAnd", "I64_AND_SS_WR", "I64_AND_RS_WR", "I64_AND_SI_WR", "I64_AND_RI_WR", "Si3", "BR_I64_EQ_RI")

\* Copies.  The forms with baked-in slots name them: S3r, S0s1.
FixedSlot ==
    [S0r |-> "s0", S1r |-> "s1", S2r |-> "s2", S3r |-> "s3", S4r |-> "s4", S5r |-> "s5", S6r |-> "s6", S7r |-> "s7", S8r |-> "s8", S9r |-> "s9"]
FixedSlots ==
    [S0s1 |-> <<"s0", "s1">>, S0s2 |-> <<"s0", "s2">>, S0s3 |-> <<"s0", "s3">>, S0s4 |-> <<"s0", "s4">>, S0s5 |-> <<"s0", "s5">>,
     S1s0 |-> <<"s1", "s0">>, S1s2 |-> <<"s1", "s2">>, S1s3 |-> <<"s1", "s3">>, S1s4 |-> <<"s1", "s4">>, S1s5 |-> <<"s1", "s5">>,
     S2s0 |-> <<"s2", "s0">>, S2s1 |-> <<"s2", "s1">>, S2s3 |-> <<"s2", "s3">>, S2s4 |-> <<"s2", "s4">>, S2s5 |-> <<"s2", "s5">>,
     S3s0 |-> <<"s3", "s0">>, S3s1 |-> <<"s3", "s1">>, S3s2 |-> <<"s3", "s2">>, S3s4 |-> <<"s3", "s4">>, S3s5 |-> <<"s3", "s5">>,
     S4s0 |-> <<"s4", "s0">>, S4s1 |-> <<"s4", "s1">>, S4s2 |-> <<"s4", "s2">>, S4s3 |-> <<"s4", "s3">>, S4s5 |-> <<"s4", "s5">>,
     S5s0 |-> <<"s5", "s0">>, S5s1 |-> <<"s5", "s1">>, S5s2 |-> <<"s5", "s2">>, S5s3 |-> <<"s5", "s3">>, S5s4 |-> <<"s5", "s4">>]

LowerCopySlots ==
    Row("U64Copy", "Si", <<<<"COPY_SI", "result", "#value">>>>)
    \cup Row("U64Copy", "Ss", <<<<"COPY_SS", "result", "value">>>>)
    \cup {<<"U64Copy", f, <<<<"COPY_SR", FixedSlot[f]>>>>>> : f \in DOMAIN FixedSlot}

LowerCopyFixed ==
    {<<"U64Copy", f, <<<<"COPY_SS", FixedSlots[f][1], FixedSlots[f][2]>>>>>> : f \in DOMAIN FixedSlots}

LowerCopyFloat ==
    {<<"F64Copy", f, <<<<"COPY_S_FR", FixedSlot[f]>>>>>> : f \in DOMAIN FixedSlot}
    \cup {<<"F32Copy", f, <<<<"COPY_S_F32R", FixedSlot[f]>>>>>> : f \in DOMAIN FixedSlot}
    \cup Row("F64Copy", "Sr", <<<<"COPY_S_FR", "result">>>>)
    \cup Row("F32Copy", "Sr", <<<<"COPY_S_F32R", "result">>>>)
    \cup Row("U64Copy", "Sr", <<<<"COPY_SR", "result">>>>)
    \cup Row("U64Copy", "Rs", <<<<"COPY_RS", "value">>>>)
    \cup Row("U64Copy", "Ri", <<<<"COPY_RI", "#value">>>>)
    \cup Row("U32Copy", "Si", <<<<"COPY_SI", "result", "s32 value">>>>)
    \cup Row("U32Copy", "Ri", <<<<"COPY_RI", "s32 value">>>>)

-----------------------------------------------------------------------------
\* Integer arithmetic.  A row with an accumulator operand uses the arm that
\* reads ireg; `swapped` first parks ireg in scratch and loads the immediate.
SsRow(op, m) == Row(op, "Rss", <<<<m, "lhs", "rhs">>>>)
RsRow(op, m) == Row(op, "Rrs", <<<<m, "rhs">>>>)
Swapped(op, form, imm, m) ==
    Row(op, form, <<<<"COPY_SR", "sb">>, <<"COPY_RI", imm>>, <<m, "sb">>>>)

LowerArith ==
    SsRow("I64Add", "I64_ADD_SS_WR") \cup SsRow("I64Mul", "I64_MUL_SS_WR")
    \cup SsRow("I64BitOr", "I64_OR_SS_WR") \cup SsRow("I64Sub", "I64_SUB_SS_WR")
    \cup SsRow("I32BitXor", "I32_XOR_SS_WR") \cup SsRow("I32BitAnd", "I32_AND_SS_WR")
    \cup SsRow("I32BitOr", "I32_OR_SS_WR") \cup SsRow("I64BitAnd", "I64_AND_SS_WR")
    \cup RsRow("I32BitAnd", "I32_AND_RS_WR") \cup RsRow("I64BitAnd", "I64_AND_RS_WR")
    \cup RsRow("I32BitOr", "I32_OR_RS_WR") \cup RsRow("I32Sub", "I32_SUB_RS_WR")
    \cup SsRow("I32Sub", "I32_SUB_SS_WR") \cup Row("I32Sub", "Rsr", <<<<"I32_SUB_SR_WR", "lhs">>>>)
    \cup Rows("I32Sub", {"Ris"}, "I32_SUB_SS_WR") \cup Swapped("I32Sub", "Rir", "#lhs", "I32_SUB_RS_WR")
    \cup RsRow("I64Sub", "I64_SUB_RS_WR") \cup Row("I64Sub", "Rsr", <<<<"I64_SUB_SR_WR", "lhs">>>>)
    \cup Rows("I64Sub", {"Ris"}, "I64_SUB_SS_WR") \cup Swapped("I64Sub", "Rir", "#lhs", "I64_SUB_RS_WR")

LowerArithImm ==
    br_dir_ss("BranchI32Le", "BR_I32_LE_SS") \cup br_dir_ss("BranchI64Eq", "BR_I64_EQ_SS")
    \cup SsRow("I32Mul", "I32_MUL_SS_WR") \cup Swapped("I32Mul", "Rri", "#rhs", "I32_MUL_RS_WR")
    \cup Swapped("I32BitXor", "Rri", "#rhs", "I32_XOR_RS_WR")
    \cup Rows("I32BitXor", {"Rsi"}, "I32_XOR_SS_WR")
    \cup Swapped("I32BitOr", "Rri", "#rhs", "I32_OR_RS_WR")
    \cup Swapped("I32BitAnd", "Rri", "#rhs", "I32_AND_RS_WR")
    \cup RsRow("I32Mul", "I32_MUL_RS_WR") \cup RsRow("I32BitXor", "I32_XOR_RS_WR")
    \cup Row("I32Add", "Rs_rs", <<<<"I32_ADD_RS_WB", "result", "rhs">>>>)
    \cup Row("I32Add", "Rs_ri", <<<<"COPY_SI", "sb", "#rhs">>, <<"I32_ADD_RS_WB", "result", "sb">>>>)

LowerBranchMore ==
    br_dir_ss("BranchU32Le", "BR_U32_LE_SS")
    \cup Row("BranchU32Le", "Rs", <<<<"COPY_SR", "sb">>, <<"BR_U32_LE_SS", "target", "sb", "rhs">>>>)
    \cup Row("BranchU64Lt", "Is", <<<<"COPY_SI", "sb", "#lhs">>, <<"BR_U64_LT_SS", "target", "sb", "rhs">>>>)
    \cup Row("Branch", "", <<<<"BR_ALWAYS", "target">>>>)
    \cup br_dir_ss("BranchI64Le", "BR_I64_LE_SS")
    \cup SsRow("I64BitXor", "I64_XOR_SS_WR")
    \cup Row("I64BitAnd", "Rri", <<<<"I64_AND_RI_WR", "#rhs">>>>)
    \cup Row("I64BitAnd", "Rsi", <<<<"I64_AND_SI_WR", "lhs", "#rhs">>>>)
    \cup Swapped("I64Mul", "Rri", "#rhs", "I64_MUL_RS_WR")
    \cup Swapped("I64BitOr", "Rri", "#rhs", "I64_OR_RS_WR")
    \cup Swapped("I64BitXor", "Rri", "#rhs", "I64_XOR_RS_WR")
    \cup RsRow("I64Mul", "I64_MUL_RS_WR") \cup RsRow("I64BitOr", "I64_OR_RS_WR")
    \cup RsRow("I64BitXor", "I64_XOR_RS_WR")
    \cup Row("I64Add", "Rs_rs", <<<<"I64_ADD_RS_WB", "result", "rhs">>>>)

\* A rotation by zero is emitted as a shift (form "Rsi0").
LowerShift ==
    Row("I64Shl", "Rsi", <<<<"I64_SHL_SI", "lhs", "#shift">>>>)
    \cup Row("I32Shl", "Rsi", <<<<"I32_SHL_SI", "lhs", "#shift">>>>)
    \cup Row("I32Rotl", "Rsi0", <<<<"I32_SHL_SI", "lhs", "#0">>>>)
    \cup Row("I32Rotl", "Rsi", <<<<"I32_ROTL_SI", "lhs", "#shift">>>>)
    \cup Row("I32Rotr", "Rsi0", <<<<"I32_SHL_SI", "lhs", "#0">>>>)
    \cup Row("I32Rotr", "Rsi", <<<<"I32_ROTR_SI", "lhs", "#shift">>>>)
    \cup Row("U32Shr", "Rri", <<<<"U32_SHR_RI", "#shift">>>>)
    \cup Row("U32Shr", "Rsi", <<<<"COPY_RS", "lhs">>, <<"U32_SHR_RI", "#shift">>>>)

LowerBitcount ==
    UnaryRows("I32Clz", "COPY_SR", "I32_BITCOUNT_S", "#0")
    \cup UnaryRows("I32Ctz", "COPY_SR", "I32_BITCOUNT_S", "#1")
    \cup UnaryRows("I32Popcnt", "COPY_SR", "I32_BITCOUNT_S", "#2")
    \cup UnaryRows("I64Clz", "COPY_SR", "I64_BITCOUNT_S", "#0")
    \cup UnaryRows("I64Ctz", "COPY_SR", "I64_BITCOUNT_S", "#1")
    \cup UnaryRows("I64Popcnt", "COPY_SR", "I64_BITCOUNT_S", "#2")

DivForms == {"Rss", "Rrs", "Rsr", "Rsi", "Rri", "Ris", "Rir"}
LowerDivRem32 ==
    Rows("I32Div", DivForms, "I32_DIV_S") \cup Rows("U32Div", DivForms, "I32_DIV_U")
    \cup Rows("I32Rem", DivForms, "I32_REM_S") \cup Rows("U32Rem", DivForms, "I32_REM_U")
LowerDivRem64 ==
    Rows("I64Div", DivForms, "I64_DIV_S") \cup Rows("U64Div", DivForms, "I64_DIV_U")
    \cup Rows("I64Rem", DivForms, "I64_REM_S") \cup Rows("U64Rem", DivForms, "I64_REM_U")

LowerCompare ==
    Row("I32Lt", "Rsi", <<<<"I32_LT_SI_R", "lhs", "#rhs">>>>)
    \cup Row("I64Lt", "Ris", <<<<"I64_LT_IS_R", "#lhs", "rhs">>>>)
    \cup Row("I64Lt", "Rsi", <<<<"I64_LT_SI_R", "lhs", "#rhs">>>>)
    \cup Row("I64Lt", "Rri", <<<<"COPY_SR", "sb">>, <<"I64_LT_SI_R", "sb", "#rhs">>>>)
    \cup Rows("I32Eq", {"Rsi"}, "I32_EQ_SS_R") \cup Rows("I32NotEq", {"Rsi"}, "I32_NE_SS_R")
    \cup Rows("I32Le", {"Rsi", "Ris"}, "I32_LE_SS_R") \cup Rows("I32Lt", {"Ris"}, "I32_LT_SS_R")
    \cup Rows("U32Lt", {"Rsi", "Ris"}, "U32_LT_SS_R") \cup Rows("U32Le", {"Rsi", "Ris"}, "U32_LE_SS_R")
    \cup Rows("I64Eq", {"Rsi"}, "I64_EQ_SS_R") \cup Rows("I64NotEq", {"Rsi"}, "I64_NE_SS_R")
    \cup Rows("I64Le", {"Rsi", "Ris"}, "I64_LE_SS_R")
    \cup Rows("U64Lt", {"Rsi", "Ris"}, "U64_LT_SS_R") \cup Rows("U64Le", {"Rsi", "Ris"}, "U64_LE_SS_R")
    \cup Row("I32Lt", "Rrs", <<<<"I32_LT_RS_R", "rhs">>>>)
    \cup Row("I32Lt", "Rsr", <<<<"I32_LT_SR_R", "lhs">>>>)

\* Select: the condition in ireg, the alternatives in slots.
LowerSelect ==
    Row("U64Select", "Rrss", <<<<"SELECT", "true_val", "false_val">>>>)
    \cup Row("U64Select", "Rsss", <<<<"COPY_RS", "condition">>, <<"SELECT", "true_val", "false_val">>>>)
    \cup UNION {Row(op, "Rrsi", <<<<"COPY_SI", "sb", "#false_val">>, <<"SELECT", "true_val", "sb">>>>)
                \cup Row(op, "Rris", <<<<"COPY_SI", "sb", "#true_val">>, <<"SELECT", "sb", "false_val">>>>)
                \cup Row(op, "Rrii", <<<<"COPY_SI", "sb", "#true_val">>, <<"COPY_SI", "sb1", "#false_val">>,
                                      <<"SELECT", "sb", "sb1">>>>) : op \in {"U32Select", "U64Select"}}

LowerCompareAcc ==
    RsRow("I32Eq", "I32_EQ_RS_R") \cup RsRow("I32NotEq", "I32_NE_RS_R")
    \cup RsRow("I64Eq", "I64_EQ_RS_R") \cup RsRow("I64NotEq", "I64_NE_RS_R")
    \cup RsRow("I64Lt", "I64_LT_RS_R") \cup RsRow("I32Le", "I32_LE_RS_R")
    \cup RsRow("U32Lt", "U32_LT_RS_R") \cup RsRow("U32Le", "U32_LE_RS_R")

LowerAddMul ==
    Rows("I32Mul", {"Rsi"}, "I32_MUL_SS_WR") \cup Rows("I64Mul", {"Rsi"}, "I64_MUL_SS_WR")
    \cup RsRow("I32Add", "I32_ADD_RS_WR") \cup RsRow("I64Add", "I64_ADD_RS_WR")
    \cup Row("I32Add", "Rsi", <<<<"COPY_SI", "sb1", "#rhs">>, <<"I32_ADD_SS_WB", "sb", "lhs", "sb1">>>>)
    \cup Row("I32Add", "Rri", <<<<"COPY_SI", "sb1", "#rhs">>, <<"I32_ADD_RS_WB", "sb", "sb1">>>>)
    \cup Row("I64Add", "Rsi", <<<<"COPY_SI", "sb1", "#rhs">>, <<"I64_ADD_SS_WB", "sb", "lhs", "sb1">>>>)
    \cup Row("I64Add", "Rri", <<<<"COPY_SI", "sb1", "#rhs">>, <<"I64_ADD_RS_WB", "sb", "sb1">>>>)

-----------------------------------------------------------------------------
\* Loads and stores of memory 0: the address in ireg for a load.
LoadRow(op, form, m) ==
    Row(op, form,
        CASE form = "Rr" -> <<<<m, "#offset">>>>
          [] form = "Rs" -> <<<<"COPY_RS", "ptr">>, <<m, "#offset">>>>
          [] form = "Ri" -> <<<<"COPY_RI", "#address">>, <<m, "#0">>>>
          [] form = "Rs_r" -> <<<<m, "#offset">>, <<"COPY_SR", "result">>>>
          [] form = "Rs_s" -> <<<<"COPY_RS", "ptr">>, <<m, "#offset">>, <<"COPY_SR", "result">>>>)
LoadRows(op, forms, m) == UNION {LoadRow(op, f, m) : f \in forms}

LowerFloatMem ==
    LoadRows("U64LoadMem0Offset16", {"Rr"}, "I64_LOAD_MEM0_OFF")
    \cup LoadRows("F64LoadMem0Offset16", {"Rr", "Rs"}, "F64_LOAD_MEM0_OFF")
    \cup AccRows("F64Add", "F64_ARITH_RS", [Rrs |-> "#0", Rsr |-> "#0"])
    \cup AccRows("F64Sub", "F64_ARITH_RS", [Rrs |-> "#1"])
    \cup AccRows("F64Mul", "F64_ARITH_RS", [Rrs |-> "#2"])
    \cup AccRows("F64Div", "F64_ARITH_RS", [Rrs |-> "#3"])
    \cup LoadRows("F32LoadMem0Offset16", {"Rr", "Rs"}, "F32_LOAD_MEM0_OFF")
    \cup Row("F32StoreMem0Offset16", "Sr", <<<<"F32_STORE_SR", "ptr", "#offset">>>>)
    \cup Row("F64StoreMem0Offset16", "Rr", <<<<"COPY_SR", "sb">>, <<"F64_STORE_SR", "sb", "#offset">>>>)
    \cup Row("F32StoreMem0Offset16", "Rr", <<<<"COPY_SR", "sb">>, <<"F32_STORE_SR", "sb", "#offset">>>>)

LowerF32Arith ==
    AccRows("F32Add", "F32_ARITH_RS", [Rsr |-> "#0", Rrs |-> "#0", Rri |-> "#0"])
    \cup AccRows("F32Sub", "F32_ARITH_RS", [Rrs |-> "#1", Rri |-> "#1"])
    \cup AccRows("F32Mul", "F32_ARITH_RS", [Rrs |-> "#2", Rri |-> "#2"])
    \cup AccRows("F32Div", "F32_ARITH_RS", [Rrs |-> "#3", Rri |-> "#3"])
    \cup AccRows("F32Min", "F32_MINMAX_RS", [Rrs |-> "#0", Rsr |-> "#0", Rri |-> "#0"])
    \cup AccRows("F32Max", "F32_MINMAX_RS", [Rrs |-> "#1", Rsr |-> "#1", Rri |-> "#1"])
    \cup AccRows("F32Copysign", "F32_MINMAX_RS", [Rrs |-> "#2", Rsr |-> "#3"])

LowerF32Unary ==
    AccRows("F32Lt", "F32_CMP_RS_R", [Rrs |-> "#0", Rsr |-> "#4"])
    \cup AccRows("F32Le", "F32_CMP_RS_R", [Rrs |-> "#1", Rsr |-> "#5"])
    \cup AccRows("F32Eq", "F32_CMP_RS_R", [Rrs |-> "#2"])
    \cup AccRows("F32NotEq", "F32_CMP_RS_R", [Rrs |-> "#3"])
    \cup UnaryRows("F32Abs", "COPY_S_F32R", "F32_UNARY_S", "#0")
    \cup UnaryRows("F32Neg", "COPY_S_F32R", "F32_UNARY_S", "#1")
    \cup UnaryRows("F32Sqrt", "COPY_S_F32R", "F32_UNARY_S", "#2")
    \cup UnaryRows("F32Ceil", "COPY_S_F32R", "F32_UNARY_S", "#3")
    \cup UnaryRows("F32Floor", "COPY_S_F32R", "F32_UNARY_S", "#4")
    \cup UnaryRows("F32Trunc", "COPY_S_F32R", "F32_UNARY_S", "#5")
    \cup UnaryRows("F32Nearest", "COPY_S_F32R", "F32_UNARY_S", "#6")

Trunc(m, ops, copy) == UNION {UnaryRows(ops[i], copy, m, <<"#0", "#1", "#2", "#3">>[i]) : i \in 1 .. 4}

\* The conversion rows without a selector operand.
PlainRows(op, copy, m) ==
    Row(op, "Rs", <<<<m, "value">>>>) \cup Row(op, "Rr", <<<<copy, "sb">>, <<m, "sb">>>>)

LowerF32Convert ==
    Trunc("F32_CVT_S", <<"F32ConvertI32", "F32ConvertU32", "F32ConvertI64", "F32ConvertU64">>, "COPY_SR")
    \cup PlainRows("F64PromoteF32", "COPY_S_F32R", "F64_PROMOTE_S")
    \cup PlainRows("F32DemoteF64", "COPY_S_FR", "F32_DEMOTE_S")
    \cup Row("I32ReinterpretF32", "Rr", <<<<"I32_REINTERP_F32">>>>)
    \cup Row("F32ReinterpretI32", "Rr", <<<<"F32_REINTERP_I32">>>>)
    \cup Row("I64ReinterpretF64", "Rr", <<<<"I64_REINTERP_F64">>>>)
    \cup Row("F64ReinterpretI64", "Rr", <<<<"F64_REINTERP_I64">>>>)

LowerF32Trunc ==
    Trunc("F32_TRUNC_SAT_S",
          <<"I32TruncSatF32", "U32TruncSatF32", "I64TruncSatF32", "U64TruncSatF32">>, "COPY_S_F32R")
    \cup Trunc("F32_TRUNC_S", <<"I32TruncF32", "U32TruncF32", "I64TruncF32", "U64TruncF32">>, "COPY_S_F32R")

LowerF64Cmp ==
    AccRows("F64Lt", "F64_CMP_RS_R", [Rrs |-> "#0", Rsr |-> "#4"])
    \cup AccRows("F64Le", "F64_CMP_RS_R", [Rrs |-> "#1", Rsr |-> "#5"])
    \cup AccRows("F64Eq", "F64_CMP_RS_R", [Rrs |-> "#2"])
    \cup AccRows("F64NotEq", "F64_CMP_RS_R", [Rrs |-> "#3"])
    \cup AccRows("F64Add", "F64_ARITH_RS", [Rri |-> "#0"])
    \cup AccRows("F64Sub", "F64_ARITH_RS", [Rri |-> "#1"])
    \cup AccRows("F64Mul", "F64_ARITH_RS", [Rri |-> "#2"])
    \cup AccRows("F64Div", "F64_ARITH_RS", [Rri |-> "#3"])

LowerF64Unary ==
    UnaryRows("F64Abs", "COPY_S_FR", "F64_UNARY_S", "#0")
    \cup UnaryRows("F64Neg", "COPY_S_FR", "F64_UNARY_S", "#1")
    \cup UnaryRows("F64Sqrt", "COPY_S_FR", "F64_UNARY_S", "#2")
    \cup UnaryRows("F64Ceil", "COPY_S_FR", "F64_UNARY_S", "#3")
    \cup UnaryRows("F64Floor", "COPY_S_FR", "F64_UNARY_S", "#4")
    \cup UnaryRows("F64Trunc", "COPY_S_FR", "F64_UNARY_S", "#5")
    \cup UnaryRows("F64Nearest", "COPY_S_FR", "F64_UNARY_S", "#6")

LowerF64Convert ==
    AccRows("F64Min", "F64_MINMAX_RS", [Rrs |-> "#0", Rsr |-> "#0", Rri |-> "#0"])
    \cup AccRows("F64Max", "F64_MINMAX_RS", [Rrs |-> "#1", Rsr |-> "#1", Rri |-> "#1"])
    \cup AccRows("F64Copysign", "F64_MINMAX_RS", [Rrs |-> "#2", Rsr |-> "#3"])
    \cup Trunc("F64_CVT_S", <<"F64ConvertI32", "F64ConvertU32", "F64ConvertI64", "F64ConvertU64">>, "COPY_SR")

LowerF64Trunc ==
    Trunc("F64_TRUNC_SAT_S",
          <<"I32TruncSatF64", "U32TruncSatF64", "I64TruncSatF64", "U64TruncSatF64">>, "COPY_S_FR")
    \cup Trunc("F64_TRUNC_S", <<"I32TruncF64", "U32TruncF64", "I64TruncF64", "U64TruncF64">>, "COPY_S_FR")

LowerLoad ==
    LoadRows("U32LoadMem0Offset16", {"Rr"}, "I32_LOAD_MEM0_OFF")
    \cup LoadRows("U32LoadExtend8Mem0Offset16", {"Rr", "Rs"}, "U8_LOAD_MEM0_OFF")
    \cup LoadRows("I32LoadExtend8Mem0Offset16", {"Rr", "Rs"}, "I8_LOAD_MEM0_OFF")
    \cup LoadRows("U32LoadExtend16Mem0Offset16", {"Rr", "Rs"}, "U16_LOAD_MEM0_OFF")
    \cup LoadRows("I32LoadExtend16Mem0Offset16", {"Rr", "Rs"}, "I16_LOAD_MEM0_OFF")
    \cup LoadRows("U32Load", {"Ri"}, "I32_LOAD_MEM0_OFF") \cup LoadRows("U64Load", {"Ri"}, "I64_LOAD_MEM0_OFF")

\* A store: the pointer in a slot and the value in ireg (m), or the pointer
\* in ireg and the value in a slot (rs).
StoreRow(op, form, m, rs) ==
    Row(op, form,
        CASE form = "Sr" -> <<<<m, "ptr", "#offset">>>>
          [] form = "Rs" -> <<<<rs, "#offset", "value">>>>
          [] form = "Si" -> <<<<"COPY_RI", "#value">>, <<m, "ptr", "#offset">>>>
          [] form = "Ss" -> <<<<"COPY_RS", "value">>, <<m, "ptr", "#offset">>>>
          [] form = "Ri" -> <<<<"COPY_SR", "sb">>, <<"COPY_RI", "#value">>, <<m, "sb", "#offset">>>>)
StoreRows(op, forms, m, rs) == UNION {StoreRow(op, f, m, rs) : f \in forms}

LowerStore ==
    StoreRows("U32StoreMem0Offset16", {"Sr", "Rs"}, "I32_STORE_SR", "I32_STORE_RS")
    \cup StoreRows("U64StoreMem0Offset16", {"Sr", "Rs"}, "I64_STORE_SR", "I64_STORE_RS")
    \cup StoreRows("F64StoreMem0Offset16", {"Sr"}, "F64_STORE_SR", "none")
    \cup StoreRows("I32StoreWrap8Mem0Offset16", {"Sr", "Rs", "Si", "Ss", "Ri"}, "I32_STORE8_SR", "I32_STORE8_RS")
    \cup StoreRows("I32StoreWrap16Mem0Offset16", {"Sr", "Rs", "Si", "Ss", "Ri"}, "I32_STORE16_SR", "I32_STORE16_RS")
    \cup StoreRows("I64StoreWrap32Mem0Offset16", {"Rs"}, "none", "I32_STORE_RS")

LowerStoreWide ==
    StoreRows("U64StoreMem0Offset16", {"Si", "Ss", "Ri"}, "I64_STORE_SR", "none")
    \cup StoreRows("U32StoreMem0Offset16", {"Si", "Ss", "Ri"}, "I32_STORE_SR", "none")

LowerLoadBoth ==
    LoadRows("U64LoadMem0Offset16", {"Rs", "Rs_s", "Rs_r"}, "I64_LOAD_MEM0_OFF")
    \cup LoadRows("U32LoadMem0Offset16", {"Rs", "Rs_s", "Rs_r"}, "I32_LOAD_MEM0_OFF")
    \cup Row("I32Add", "Rss", <<<<"I32_ADD_SS_WB", "sb", "lhs", "rhs">>>>)
    \cup Row("I64Sext32", "Rr", <<<<"I64_SEXT32">>>>) \cup Row("I64Sext32", "Rs", <<<<"I64_SEXT32_S", "value">>>>)
    \cup Row("I32WrapI64", "Rr", <<<<"I64_SEXT32">>>>) \cup Row("I32WrapI64", "Rs", <<<<"I64_SEXT32_S", "value">>>>)
    \cup Row("U64Shr", "Rsi", <<<<"U64_SHR_SI", "lhs", "#shift", "#mask">>>>)
    \cup Row("U64Shr", "Rri", <<<<"COPY_SR", "sb">>, <<"U64_SHR_SI", "sb", "#shift", "#mask">>>>)

LowerAddBoth ==
    Row("I64Add", "Rs_si", <<<<"COPY_SI", "sb", "#rhs">>, <<"I64_ADD_SS_WB", "result", "lhs", "sb">>>>)
    \cup Row("I64Add", "Rs_ss", <<<<"I64_ADD_SS_WB", "result", "lhs", "rhs">>>>)
    \cup Row("BranchI64Le", "Si", <<<<"BR_I64_LE_SI", "target", "lhs", "#rhs">>>>)
    \cup Row("I32Add", "Rs_ss", <<<<"I32_ADD_SS_WB", "result", "lhs", "rhs">>>>)
    \cup Row("BranchI32Lt", "Si", <<<<"BR_I32_LT_SI", "target", "lhs", "#rhs">>>>)
    \cup Row("BranchI64Lt", "Ir", <<<<"BR_I64_LT_IR", "target", "#lhs">>>>)
    \cup Row("BranchI64Eq", "Si", <<<<"BR_I64_EQ_SI", "target", "lhs", "#rhs">>>>)
    \cup Row("BranchI64NotEq", "Ri", <<<<"BR_I64_NE_RI", "target", "#rhs">>>>)
    \cup Row("BranchI64Eq", "Ri", <<<<"COPY_SR", "sb">>, <<"BR_I64_EQ_SI", "target", "sb", "#rhs">>>>)

LowerGlobal ==
    Row("GlobalGetU64", "R", <<<<"GLOBAL_GET_R", "global">>>>)
    \cup Row("GlobalSetU64", "R", <<<<"COPY_SR", "sb">>, <<"GLOBAL_SET_S", "global", "sb">>>>)
    \cup Row("GlobalSetU64", "S", <<<<"GLOBAL_SET_S", "global", "value">>>>)
    \cup Row("GlobalSetU64", "I", <<<<"COPY_SI", "sb", "#value">>, <<"GLOBAL_SET_S", "global", "sb">>>>)
    \cup Row("GlobalSetU32", "I", <<<<"COPY_SI", "sb", "#value">>, <<"GLOBAL_SET_S", "global", "sb">>>>)
    \cup Row("GlobalGetF32", "R", <<<<"GLOBAL_GET_F32", "global">>>>)
    \cup Row("GlobalGetF64", "R", <<<<"GLOBAL_GET_F64", "global">>>>)
    \cup Row("GlobalSetF32", "R", <<<<"COPY_S_F32R", "sb">>, <<"GLOBAL_SET_S", "global", "sb">>>>)
    \cup Row("GlobalSetF64", "R", <<<<"COPY_S_FR", "sb">>, <<"GLOBAL_SET_S", "global", "sb">>>>)

Mask32 == <<"I64_AND_SI_WR", "sb", "#MASK">>

LowerGenericMem ==
    Row("MemorySize", "", <<<<"MEMORY_SIZE">>>>)
    \cup LoadRows("U32LoadExtend8", {"Rr"}, "U8_LOAD_MEM0_OFF")
    \cup LoadRows("U32Load", {"Rr"}, "I32_LOAD_MEM0_OFF")
    \cup LoadRows("U32LoadExtend16", {"Ri"}, "U16_LOAD_MEM0_OFF")
    \cup Row("U64Store", "Is", <<<<"COPY_RI", "#address">>, <<"I64_STORE_RS", "#0", "value">>>>)

LowerLoad32 ==
    br_cmp("BranchU32Lt", {"Ir"}, "U32_LT_SS_R")
    \cup Row("I64Add", "Rs_ri", <<<<"COPY_SR", "sb">>, <<"COPY_SI", "sb1", "#rhs">>,
                                 <<"I64_ADD_SS_WB", "result", "sb", "sb1">>>>)
    \cup Row("U64LoadExtend32Mem0Offset16", "Rs",
             <<<<"COPY_RS", "ptr">>, <<"I32_LOAD_MEM0_OFF", "#offset">>, <<"COPY_SR", "sb">>, Mask32>>)
    \cup Row("U64LoadExtend32Mem0Offset16", "Rs_s",
             <<<<"COPY_RS", "ptr">>, <<"I32_LOAD_MEM0_OFF", "#offset">>, <<"COPY_SR", "sb">>, Mask32,
               <<"COPY_SR", "result">>>>)
    \cup Row("U64LoadExtend32Mem0Offset16", "Rs_r",
             <<<<"I32_LOAD_MEM0_OFF", "#offset">>, <<"COPY_SR", "sb">>, Mask32, <<"COPY_SR", "result">>>>)
    \cup Row("U32Store", "Ir", <<<<"COPY_SR", "sb">>, <<"COPY_RI", "#address">>, <<"I32_STORE_RS", "#0", "sb">>>>)
    \cup Row("U32Store", "Ii", <<<<"COPY_SI", "sb", "#value">>, <<"COPY_RI", "#address">>,
                                 <<"I32_STORE_RS", "#0", "sb">>>>)

LowerMixed ==
    Row("I32StoreWrap8", "Ii", <<<<"COPY_SI", "sb", "#address">>, <<"COPY_RI", "#value">>,
                                 <<"I32_STORE8_SR", "sb", "#0">>>>)
    \cup Rows("I64Lt", {"Rsr"}, "I64_LT_SS_R")
    \cup br_cmp("BranchU32Lt", {"Rs"}, "U32_LT_SS_R") \cup br_cmp("BranchU64Lt", {"Ir"}, "U64_LT_SS_R")
    \cup br_cmp("BranchU32Lt", {"Ss"}, "U32_LT_SS_R")

\* A table of three targets stands for one of any length.
LowerBranchTable ==
    Row("BranchTable", "R", <<<<"BR_TABLE", "#3", "t0", "t1", "t2">>>>)
    \cup Row("BranchTable", "S", <<<<"COPY_RS", "index">>, <<"BR_TABLE", "#3", "t0", "t1", "t2">>>>)
    \cup Row("BranchI32Lt", "Ri", <<<<"COPY_SI", "sb", "#rhs">>, <<"I32_LT_RS_R", "sb">>,
                                   <<"BR_I32_NE_RI", "target", "#0">>>>)

LowerSelectImm ==
    Row("F64NotLe", "Rss", <<<<"COPY_RS", "lhs">>, <<"F64_REINTERP_I64">>, <<"F64_CMP_RS_R", "#1", "rhs">>,
                             <<"COPY_SI", "sb", "#0">>, <<"I32_EQ_RS_R", "sb">>>>)
    \cup Row("U32Select", "Rsii", <<<<"COPY_SI", "sb", "#true_val">>, <<"COPY_SI", "sb1", "#false_val">>,
                                   <<"COPY_RS", "condition">>, <<"SELECT", "sb", "sb1">>>>)
    \cup Row("U32Select", "Rssi", <<<<"COPY_SI", "sb", "#false_val">>, <<"COPY_RS", "condition">>,
                                   <<"SELECT", "true_val", "sb">>>>)
    \cup SsRow("I32Eq", "I32_EQ_SS_R") \cup br_cmp("BranchU64Lt", {"Si"}, "U64_LT_SS_R")
    \cup Row("U64Shr", "Rir", <<<<"COPY_SI", "sb", "#lhs">>, <<"COPY_SR", "sb1">>,
                               <<"U64_SHR_SS_WR", "sb", "sb1">>>>)
    \cup SsRow("I64Lt", "I64_LT_SS_R")
    \cup Row("I32Shl", "Rri", <<<<"COPY_SR", "sb">>, <<"I32_SHL_SI", "sb", "#shift">>>>)
    \cup Row("U64Select", "Rrrs", <<<<"COPY_SR", "sb">>, <<"SELECT", "sb", "false_val">>>>)

LowerTail ==
    br_cmp("BranchU32Lt", {"Si"}, "U32_LT_SS_R")
    \cup LoadRows("U32LoadExtend8", {"Ri"}, "U8_LOAD_MEM0_OFF")
    \cup Rows("I32BitAnd", {"Rsi"}, "I32_AND_SS_WR")
    \cup Row("U32Store", "Is", <<<<"COPY_RS", "value">>, <<"COPY_SR", "sb">>, <<"COPY_RI", "#address">>,
                                 <<"I32_STORE_RS", "#0", "sb">>>>)
    \cup Row("BranchI32Eq", "Rs", <<<<"COPY_SR", "sb">>, <<"BR_I64_EQ_SS", "target", "sb", "rhs">>>>)
    \cup Row("I64Eq", "Rri", <<<<"COPY_SI", "sb", "#rhs">>, <<"I64_EQ_RS_R", "sb">>>>)
    \cup Row("I64NotEq", "Rri", <<<<"COPY_SI", "sb", "#rhs">>, <<"I64_NE_RS_R", "sb">>>>)
    \cup Row("BranchI64Lt", "Rs", <<<<"I64_LT_RS_R", "rhs">>, <<"BR_I32_NE_RI", "target", "#0">>>>)
    \cup Row("MemoryCopy", "", <<<<"MEM_COPY_WITHIN", "dst", "src", "len">>>>)

LowerLast ==
    br_cmp("BranchI64Le", {"Rs"}, "I64_LE_SS_R") \cup br_cmp("BranchU32Lt", {"Sr"}, "U32_LT_SS_R")
    \cup Row("I64Shr", "Rsi", <<<<"U64_SHR_SI", "lhs", "#shift", "#-1">>>>)
    \cup br_cmp("BranchU32Le", {"Sr"}, "U32_LE_SS_R")
    \cup Row("I64BitOr", "Rsi", <<<<"COPY_RS", "lhs">>, <<"I64_OR_RI_WR", "#rhs">>>>)
    \cup br_cmp("BranchU32Le", {"Ir"}, "U32_LE_SS_R")
    \cup Row("I32Eq", "Rri", <<<<"COPY_SI", "sb", "#rhs">>, <<"I32_EQ_RS_R", "sb">>>>)
    \cup Row("I32NotEq", "Rri", <<<<"COPY_SI", "sb", "#rhs">>, <<"I32_NE_RS_R", "sb">>>>)
    \cup LoadRows("U64LoadExtend8", {"Rs"}, "U8_LOAD_MEM0_OFF")
    \cup Row("U64LoadExtend32", "Ri", <<<<"COPY_RI", "#address">>, <<"I32_LOAD_MEM0_OFF", "#0">>,
                                       <<"I64_AND_RI_WR", "#MASK">>>>)

Lower ==
    UNION {LowerBranchEq, LowerBranchAnd, LowerBranchCmp, LowerBranchBit, LowerCopySlots, LowerCopyFixed,
           LowerCopyFloat, LowerArith, LowerArithImm, LowerBranchMore, LowerShift, LowerBitcount,
           LowerDivRem32, LowerDivRem64, LowerCompare, LowerSelect, LowerCompareAcc, LowerAddMul,
           LowerFloatMem, LowerF32Arith, LowerF32Unary, LowerF32Convert, LowerF32Trunc, LowerF64Cmp,
           LowerF64Unary, LowerF64Convert, LowerF64Trunc, LowerLoad, LowerStore, LowerStoreWide,
           LowerLoadBoth, LowerAddBoth, LowerGlobal, LowerGenericMem, LowerLoad32, LowerMixed,
           LowerBranchTable, LowerSelectImm, LowerTail, LowerLast}
=============================================================================
