------------------------------ MODULE OpTables ------------------------------
(***************************************************************************)
(* Which bytecode operator the translator has for a numeric Wasm operator  *)
(* (translator/func/op: binary.rs, unary.rs, load.rs, store.rs) and how it *)
(* rewrites comparisons (translator/comparator.rs).                        *)
(*                                                                         *)
(* A bytecode operator is a record: the type `ty` it computes in, the type *)
(* `to` of its result, the function f it computes (of WasmOps) and where   *)
(* it takes its operands from: the register, a cell, or itself.            *)
(***************************************************************************)
EXTENDS WasmOps

Reg == [k |-> "reg", n |-> 0]
Slot(s) == [k |-> "slot", n |-> s]
Imm(v) == [k |-> "imm", n |-> v]

Op(ty, to, f, in) == [ty |-> ty, to |-> to, f |-> f, in |-> in]
NoOp == Op("none", "none", "none", <<>>)

\* An encoding exists for some places of the operands only.
Form(op) == [i \in DOMAIN op.in |-> op.in[i].k]
CommutativeForms == {<<"reg", "slot">>, <<"reg", "imm">>, <<"slot", "slot">>, <<"slot", "imm">>}
OrderedForms == CommutativeForms \cup {<<"slot", "reg">>, <<"imm", "reg">>, <<"imm", "slot">>}

-----------------------------------------------------------------------------
\* The tables: from the Wasm operator to the type and the function of its
\* bytecode operator and how an immediate right operand is decoded.

Row(ty, f, decode) == [ty |-> ty, f |-> f, decode |-> decode]

I32Commutative == {"eq", "ne", "and", "not_and", "or", "not_or", "add", "mul", "bitand", "bitor", "bitxor"}
I64Commutative == {"eq", "ne", "and", "not_and", "or", "not_or", "add", "mul", "bitand", "bitor", "bitxor"}
F32Commutative == {"eq", "ne"}
F64Commutative == {"eq", "ne"}

I32Compare ==
    [lt_s |-> Row("i32", "lt", "value"), le_s |-> Row("i32", "le", "value"),
     lt_u |-> Row("u32", "lt", "value"), le_u |-> Row("u32", "le", "value")]
I32Arith ==
    [sub |-> Row("i32", "sub", "value"),
     div_s |-> Row("i32", "div", "divisor"), div_u |-> Row("u32", "div", "divisor"),
     rem_s |-> Row("i32", "rem", "divisor"), rem_u |-> Row("u32", "rem", "divisor")]
I32Shift ==
    [f \in ShiftOps |-> Row(IF f = "shr_u" THEN "u32" ELSE "i32", f, "shift")]
I64Compare ==
    [lt_s |-> Row("i64", "lt", "value"), le_s |-> Row("i64", "le", "value"),
     lt_u |-> Row("u64", "lt", "value"), le_u |-> Row("u64", "le", "value")]
I64Arith ==
    [sub |-> Row("i64", "sub", "value"),
     div_s |-> Row("i64", "div", "divisor"), div_u |-> Row("u64", "div", "divisor"),
     rem_s |-> Row("i64", "rem", "divisor"), rem_u |-> Row("u64", "rem", "divisor")]
I64Shift ==
    [f \in ShiftOps |-> Row(IF f = "shr_u" THEN "u64" ELSE "i64", f, "shift")]
F32Compare == [f \in {"lt", "le", "not_lt", "not_le"} |-> Row("f32", f, "value")]
F32Arith == [f \in {"add", "sub", "mul", "div", "min", "max", "copysign"} |-> Row("f32", f, "value")]
F64Compare == [f \in {"lt", "le", "not_lt", "not_le"} |-> Row("f64", f, "value")]
F64Arith == [f \in {"add", "sub", "mul", "div", "min", "max", "copysign"} |-> Row("f64", f, "value")]

\* `a > b` is selected as `b < a`, `a >= b` as `b <= a` (impl_cmp_op_for).
CompareAs ==
    [gt_s |-> "lt_s", ge_s |-> "le_s", gt_u |-> "lt_u", ge_u |-> "le_u", gt |-> "lt", ge |-> "le"]

Commutative ==
    [i32 |-> I32Commutative, i64 |-> I64Commutative, f32 |-> F32Commutative, f64 |-> F64Commutative]
Ordered ==
    [i32 |-> <<I32Compare, I32Arith, I32Shift>>, i64 |-> <<I64Compare, I64Arith, I64Shift>>,
     f32 |-> <<F32Compare, F32Arith>>, f64 |-> <<F64Compare, F64Arith>>]

Comparisons == {"eq", "ne", "lt", "le", "not_lt", "not_le"} \cup Tests
ResultTy(ty, f) ==
    CASE f \in Comparisons -> "i32"
      [] f \notin Comparisons /\ ty = "u32" -> "i32"
      [] f \notin Comparisons /\ ty = "u64" -> "i64"
      [] OTHER -> ty

\* One operand.  Only the sign extension of an i32 to 64 bits is selected as
\* another operator than its own: the one that extends the low half of an i64.
I32Unary == {<<"i32", "i32", f>> : f \in {"popcnt", "clz", "ctz"}}
I64Unary == {<<"i64", "i64", f>> : f \in {"popcnt", "clz", "ctz"}}
F32Unary == {<<"f32", "f32", f>> : f \in {"abs", "neg", "ceil", "floor", "trunc", "nearest", "sqrt"}}
F64Unary == {<<"f64", "f64", f>> : f \in {"abs", "neg", "ceil", "floor", "trunc", "nearest", "sqrt"}}
Conversions ==
    {<<"i64", "i32", "cast">>, <<"i32", "i64", "cast">>, <<"f64", "f32", "format">>, <<"f32", "f64", "format">>}
        \cup (Floats \X {"i32", "u32", "i64", "u64"} \X {"try_truncate"})
        \cup ({"i32", "u32", "i64", "u64"} \X Floats \X {"convert"})
SignExtensions ==
    {<<"i32", "i32", "extend8">>, <<"i32", "i32", "extend16">>,
     <<"i64", "i64", "extend8">>, <<"i64", "i64", "extend16">>, <<"i64", "i64", "extend32">>}
Saturating == Floats \X {"i32", "u32", "i64", "u64"} \X {"truncate_sat"}

UnaryOps == I32Unary \cup I64Unary \cup F32Unary \cup F64Unary \cup Conversions \cup SignExtensions \cup Saturating
UnaryOp(w) == IF w = <<"i32", "i64", "cast">> THEN <<"i64", "i64", "extend32">> ELSE w

-----------------------------------------------------------------------------
\* Loads: the type of the result and of what is read.  Stores: the type of the
\* value and of what an immediate value is wrapped to.

LoadOps ==
    {<<"i32", "u32">>, <<"i64", "u64">>, <<"f32", "u32">>, <<"f64", "u64">>}
        \cup ({"i32"} \X {"i8", "i16", "u8", "u16"})
        \cup ({"i64"} \X {"i8", "i16", "i32", "u8", "u16", "u32"})

FullStores == {<<"i32", "u32">>, <<"i64", "u64">>, <<"f32", "u32">>, <<"f64", "u64">>}
WrappingStores == ({"i32"} \X {"i8", "i16"}) \cup ({"i64"} \X {"i8", "i16", "i32"})
StoreOps == FullStores \cup WrappingStores

\* Only the floats have an operator with the pointer and the value in registers.
store_rr(op) == op[1] \in Floats
into_immediate(op, v) == Wrap(Bits(op[2]), v)

-----------------------------------------------------------------------------
\* comparator.rs: each match, split between the integers and the floats.

\* What the tests for zero of a comparison or of a bitwise operator compute.
NegateInt ==
    [eq |-> "ne", ne |-> "eq", bitxor |-> "eq", and |-> "not_and", bitand |-> "not_and", not_and |-> "and",
     or |-> "not_or", bitor |-> "not_or", not_or |-> "or", lt |-> "le", le |-> "lt"]
NegateFloat ==
    [eq |-> "ne", ne |-> "eq", lt |-> "not_lt", le |-> "not_le", not_lt |-> "lt", not_le |-> "le"]

IntForms(f) == IF f \in {"lt", "le"} THEN OrderedForms ELSE CommutativeForms
FloatForms(f) == IF f \in {"eq", "ne"} THEN CommutativeForms ELSE OrderedForms
Swap(in) == <<in[2], in[1]>>

\* Mutant: the operands of a negated order stay in their places.
negate_cmp_instr_unswapped(op) ==
    CASE op.ty \notin Floats /\ op.f \in DOMAIN NegateInt /\ Form(op) \in IntForms(op.f) ->
            Op(op.ty, "i32", NegateInt[op.f], op.in)
      [] op.ty \in Floats /\ op.f \in DOMAIN NegateFloat /\ Form(op) \in FloatForms(op.f) ->
            Op(op.ty, "i32", NegateFloat[op.f], op.in)
      [] OTHER -> NoOp

\* For integers a <= b is the negation of b < a; a float order with a NaN is
\* false both ways and needs its own negation.
negate_cmp_instr(op) ==
    CASE op.ty \notin Floats /\ op.f \in DOMAIN NegateInt /\ Form(op) \in IntForms(op.f) ->
            Op(op.ty, "i32", NegateInt[op.f], IF op.f \in {"lt", "le"} THEN Swap(op.in) ELSE op.in)
      [] op.ty \in Floats /\ op.f \in DOMAIN NegateFloat /\ Form(op) \in FloatForms(op.f) ->
            Op(op.ty, "i32", NegateFloat[op.f], op.in)
      [] OTHER -> NoOp

LogicalInt ==
    [eq |-> "eq", ne |-> "ne", bitxor |-> "ne", and |-> "and", bitand |-> "and", not_and |-> "not_and",
     or |-> "or", bitor |-> "or", not_or |-> "not_or", lt |-> "lt", le |-> "le"]
LogicalFloat == [f \in {"eq", "ne", "lt", "le", "not_lt", "not_le"} |-> f]

logicalize_cmp_instr(op) ==
    CASE op.ty \notin Floats /\ op.f \in DOMAIN LogicalInt /\ Form(op) \in IntForms(op.f) ->
            Op(op.ty, "i32", LogicalInt[op.f], op.in)
      [] op.ty \in Floats /\ op.f \in DOMAIN LogicalFloat /\ Form(op) \in FloatForms(op.f) ->
            Op(op.ty, "i32", LogicalFloat[op.f], op.in)
      [] OTHER -> NoOp

\* A branch is taken when the comparison it is made of is not 0.
BranchInt ==
    [eq |-> "eq", ne |-> "ne", bitxor |-> "ne", and |-> "and", bitand |-> "and", not_and |-> "not_and",
     or |-> "or", bitor |-> "or", not_or |-> "not_or", lt |-> "lt", le |-> "le"]
BranchFloat == [f \in {"eq", "ne", "lt", "le", "not_lt", "not_le"} |-> f]

try_into_cmp_branch_instr(op) ==
    CASE op.ty \notin Floats /\ op.f \in DOMAIN BranchInt /\ Form(op) \in IntForms(op.f) ->
            Op(op.ty, "branch", BranchInt[op.f], op.in)
      [] op.ty \in Floats /\ op.f \in DOMAIN BranchFloat /\ Form(op) \in FloatForms(op.f) ->
            Op(op.ty, "branch", BranchFloat[op.f], op.in)
      [] OTHER -> NoOp

\* The branches whose offset can be set once their label is known.
I32Branches(op) ==
    \/ op.ty = "i32" /\ op.f \in (I32Commutative \ BinaryOps) \cup {"lt", "le"} /\ Form(op) \in IntForms(op.f)
    \/ op.ty = "u32" /\ op.f \in {"lt", "le"} /\ Form(op) \in OrderedForms
I64Branches(op) ==
    \/ op.ty = "i64" /\ op.f \in (I64Commutative \ BinaryOps) \cup {"lt", "le"} /\ Form(op) \in IntForms(op.f)
    \/ op.ty = "u64" /\ op.f \in {"lt", "le"} /\ Form(op) \in OrderedForms
F32Branches(op) ==
    op.ty = "f32" /\ op.f \in F32Commutative \cup DOMAIN F32Compare /\ Form(op) \in FloatForms(op.f)
F64Branches(op) ==
    op.ty = "f64" /\ op.f \in F64Commutative \cup DOMAIN F64Compare /\ Form(op) \in FloatForms(op.f)

update_branch_offset(op) ==
    op.to = "branch" /\ (I32Branches(op) \/ I64Branches(op) \/ F32Branches(op) \/ F64Branches(op))

=============================================================================
