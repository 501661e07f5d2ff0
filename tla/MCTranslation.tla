--------------------------- MODULE MCTranslation ---------------------------
(***************************************************************************)
(* Translation for TLC. A function is made of one alphabet: a full product *)
(* of all instructions, locals and block types would be far larger and add *)
(* nothing, because a visit only looks at the operands it takes and at the *)
(* registers. The five locals are shared, an alphabet uses some of them.   *)
(***************************************************************************)
EXTENDS Translation

FiveLocals == <<"i32", "i32", "f32", "v128", "i64">>
None == <<>>
I == <<"i32">>
II == <<"i32", "i32">>

Straight(instrs, locals, results, height) ==
  [instrs |-> instrs, locals |-> locals, results |-> results, blocks |-> {}, callees |-> {},
   height |-> height, frames |-> 1]
Nested(instrs, locals, results, blocks, height, frames) ==
  [instrs |-> instrs, locals |-> locals, results |-> results, blocks |-> blocks, callees |-> {},
   height |-> height, frames |-> frames]

Basic == {"i32.const", "drop", "local.get", "local.set"}
Integers32 == Straight(Basic \cup {"local.tee", "i32.add", "i32.div", "i32.eqz", "i32.lt", "select"}, {1, 2}, I, 3)
Memory == Straight(Basic \cup {"i32.add", "i32.load", "i32.store", "i32.load_far", "i32.store_far", "memory.grow",
                               "memory.size", "memory.fill", "memory.copy", "memory.init", "data.drop",
                               "global.get", "global.set"}, {1, 2}, None, 3)
Floats == Straight(Basic \cup {"f32.const", "local.tee", "i32.reinterpret", "f32.reinterpret", "f32.abs", "f32.neg",
                               "f32.add", "f32.lt", "i32.trunc", "f32.store", "f32.load", "global.get_f32",
                               "global.set_f32"}, {1, 3}, I, 2)
FloatSelect == Straight(Basic \cup {"f32.const", "f32.abs", "f32.lt", "select"}, {1, 3}, I, 3)
Vectors == Straight(Basic \cup {"v128.const", "local.tee", "v128.not", "v128.add", "v128.shl", "v128.replace",
                                "v128.splat", "v128.extract", "v128.any", "v128.load", "v128.load_splat",
                                "v128.load_lane", "v128.store", "v128.store_lane", "global.get_v128",
                                "global.set_v128", "i32.add"}, {1, 4}, <<"i32", "v128">>, 2)
VectorSelect == Straight({"drop", "local.get", "local.set", "v128.splat", "i32.eqz", "select"}, {1, 4},
                         <<"i32", "v128">>, 3)
WideMul == Straight(Basic \cup {"i64.const", "i64.extend", "i32.wrap", "i64.mul_wide_s", "i64.mul_wide_u", "i32.add"},
                    {1, 5}, None, 3)
WideAdd == Straight({"i64.const", "drop", "local.get", "local.set", "i64.extend", "i64.add128", "i64.sub128"},
                    {1, 5}, None, 4)
Tables == Straight(Basic \cup {"ref.null", "ref.func", "table.get", "table.set", "table.size", "table.grow",
                               "table.fill", "table.copy", "table.init", "elem.drop"}, {1}, None, 3)
Calls == [Nested(Basic \cup {"i32.add", "call", "call_indirect", "return_call", "return_call_indirect",
                             "unreachable", "return", "block", "br"}, {1, 2}, I, {<<None, None>>}, 3, 2)
            EXCEPT !.callees = {<<I, I>>, <<I, II>>}]
Control == Nested(Basic \cup {"i32.eqz", "block", "loop", "if", "br_if"}, {1, 2}, I, {<<None, I>>, <<I, I>>}, 2, 2)
BranchTables == Nested({"i32.const", "local.get", "i32.eqz", "block", "br_table"}, {1}, None, {<<None, II>>}, 4, 3)

AllAlphabets == {Integers32, Memory, Floats, FloatSelect, Vectors, VectorSelect, WideMul, WideAdd, Tables, Calls,
                 Control, BranchTables}
=============================================================================
