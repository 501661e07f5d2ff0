------------------------------ MODULE LowerSim ------------------------------
(***************************************************************************)
(* The lowering of one stock instruction, executed by the kernel, against  *)
(* the stock handler of that instruction.                                  *)
(*                                                                         *)
(* A behaviour picks a row of the lowering table, operand values, and the  *)
(* slots the operands live in; the kernel then executes the row's code one *)
(* instruction per step.  The stock state and the kernel state start       *)
(* related: the same floats and 64-bit integers, and an i32 zero-extended  *)
(* in the stock cell and, in the kernel word, sign-extended or, where the  *)
(* lowering does not rely on it, with either high half.                    *)
(***************************************************************************)
EXTENDS Handlers, Lower

CONSTANTS
    PAGE,      \* bytes in a page
    StockPage, \* the page size of the stock memory
    RowSet,    \* the rows of Lower that are executed
    Narrow,    \* the 32-bit operand values of integer arithmetic
    Wide,      \* the 64-bit operand values
    CopyArgs   \* the operand values of memory.copy

K == INSTANCE Kernel

ASSUME SimAssumption ==
    /\ PAGE \in Nat \ {0} /\ StockPage \in Nat \ {0}
    /\ RowSet \subseteq Lower
    /\ \A r \in RowSet : r[1] \in DOMAIN Ops

\* The arms of the kernel with a destination, and the others.
Putting == {"alu", "residual", "move", "global_get", "load", "select", "shr_mask", "memory_size"}
NotPutting == {"global_set", "branch", "branch_table", "store", "copy_within"}
IsArm(a) ==
    \/ a.do \in Putting /\ a.dst \in {"slot", "both", "A0", "A1", "A2"}
    \/ a.do \in NotPutting

\* What a kernel instruction of a lowering does: it may write to memory or globals,
\* or it neither writes nor traps.
Kind(P) == K!Arms[P[1]].do
Writers == {"store", "copy_within", "global_set"}
Quiet == {"move", "alu"}

\* `prepass` emits an instruction that writes as the last one of a lowering, and
\* before it only instructions that cannot trap.
WritesLast(code) ==
    \A j \in 1 .. Len(code) :
        Kind(code[j]) \in Writers => j = Len(code) /\ \A i \in 1 .. j - 1 : Kind(code[i]) \in Quiet

\* The kernel has an arm for every instruction of a lowering.
Executable(code) ==
    \A j \in 1 .. Len(code) :
        /\ Len(code[j]) \in Nat \ {0}
        /\ IsArm(K!Arms[code[j][1]])

\* A fact about the whole table, not only its rows in RowSet; it is evaluated.
ASSUME LowerAssumption ==
    \A r \in Lower : Len(r[3]) \in Nat /\ Executable(r[3]) /\ WritesLast(r[3])

VARIABLES
    ins,    \* the stock instruction
    tag,    \* the Wasm type of what it moves: a 64-bit copy moves an i32 or an i64
    stock,  \* the stock state before it
    entry,  \* the kernel state before it
    k,      \* the kernel state
    todo,   \* the kernel instructions still to execute
    sx      \* every i32 operand is sign-extended in its kernel word

vars == <<ins, tag, stock, entry, k, todo, sx>>

Memory == <<1, 0, 1, 1, 0, 0, 1, 0, 1, 1, 1, 0>>
Offsets == {0, 3}
Scratch == 10 .. 11
Slots == 0 .. 9

SlotNo == [s0 |-> 0, s1 |-> 1, s2 |-> 2, s3 |-> 3, s4 |-> 4, s5 |-> 5, s6 |-> 6, s7 |-> 7, s8 |-> 8, s9 |-> 9]

\* The result, the place and the slot of the value of each form of a copy.
CopyForm(form) ==
    CASE form \in {"Rs", "Ri"} -> <<InRegister, Places[form][2], 1>>
      [] form \in {"Sr", "Ss", "Si"} -> <<4, Places[form][2], 1>>
      [] form \in DOMAIN FixedSlot -> <<SlotNo[FixedSlot[form]], "r", 0>>
      [] form \in DOMAIN FixedSlots -> <<SlotNo[FixedSlots[form][1]], "s", SlotNo[FixedSlots[form][2]]>>

FormOf(row) == IF row[2] = "Rsi0" THEN "Rsi" ELSE row[2]

In(field, ty, place, slot) == [field |-> field, ty |-> ty, place |-> place, slot |-> slot]

\* The index types of the memory the stock handler may be at work on: it takes the
\* addresses of both.
IndexTys(op) == IF Ops[op].do \in {"load", "store", "memory_copy"} THEN {"u32", "u64"} ELSE {"u32"}

\* The operands of an instruction: field, type, place and slot.
Inputs(op, form, t, ix) ==
    LET d == Ops[op]
        p == Places[form]
    IN  CASE d.do = "copy" -> <<In("value", t, CopyForm(form)[2], CopyForm(form)[3])>>
          [] d.do = "unary" -> <<In("value", d.ty, p[2], 1)>>
          [] d.do \in {"binary", "branch"} -> <<In("lhs", d.ty, p[1], 1), In("rhs", d.ty, p[2], 2)>>
          [] d.do = "select" -> <<In("condition", "i32", p[1], 1), In("true_val", t, p[2], 2),
                                  In("false_val", t, p[3], 3)>>
          [] d.do = "load" -> <<In("ptr", ix, p[2], 1)>>
          [] d.do = "store" -> <<In("ptr", ix, p[1], 1),
                                 In("value", IF p[2] = "i" THEN d.mem ELSE d.ty, p[2], 2)>>
          [] d.do = "table" -> <<In("index", "u32", p[1], 1)>>
          [] d.do = "global_get" -> <<In("cell", t, "g", 0)>>
          [] d.do = "global_set" -> <<In("value", t, p[1], 1)>>
          [] d.do = "memory_copy" -> <<In("dst", ix, "s", 1), In("src", ix, "s", 2), In("len", ix, "s", 3)>>
          [] d.do \in {"jump", "memory_size"} -> <<>>

\* What the word of an untyped 64-bit instruction is; an immediate has 64 bits.
Tags(op, form) ==
    LET d == Ops[op]
        imm == form = "I" \/ (d.do = "copy" /\ CopyForm(form)[2] = "i")
               \/ (d.do = "select" /\ \E j \in 2 .. 3 : Places[form][j] = "i")
    IN  IF d.do \in {"copy", "select", "global_get", "global_set"} /\ d.ty = "u64"
        THEN IF imm THEN {"i64"} ELSE {"i32", "i64"}
        ELSE IF d.do \in {"load", "unary", "binary"} THEN {d.to} ELSE {d.ty}

IsShift(op) == Ops[op].do = "binary" /\ Ops[op].op \in ShiftOps
IsDiv(op) == Ops[op].do = "binary" /\ Ops[op].op \in {"div", "rem"} /\ Ops[op].ty \notin Floats

\* A constant shift amount is below the width, a constant divisor is not zero; the
\* kernel's signed reading of the operands of memory.copy is the unsigned one.
Vals(row, in) ==
    LET all == IF Bits(in.ty) > Bits("u32") THEN Wide
               ELSE IF in.ty \notin Floats /\ Ops[row[1]].do = "binary" THEN Narrow \cap 0 .. 2 ^ Bits(in.ty) - 1
               ELSE 0 .. 2 ^ Bits(in.ty) - 1
    IN  IF Ops[row[1]].do = "memory_copy" THEN CopyArgs \cap 0 .. 2 ^ (Bits(in.ty) - 1) - 1
        ELSE IF in.field = "condition" THEN {0, 1, 8}
        ELSE IF in.field = "rhs" /\ in.place = "i" /\ IsDiv(row[1]) THEN all \ {0}
        ELSE IF in.field = "rhs" /\ in.place = "i" /\ IsShift(row[1])
        THEN IF row[2] = "Rsi0" THEN {0} ELSE 1 .. Bits(in.ty) - 1
        ELSE all

\* The lowering does not rely on sign-extended words: it neither compares nor copies with them.
AnyHighHalf(op) == /\ Ops[op].do # "memory_copy" /\ Ops[op].ty \notin Floats
                   /\ op \notin {"BranchI32Eq", "BranchI32NotEq"}

\* The kernel word of a value.
Rep(ty, v, zero) == IF Bits(ty) = Bits("u32") /\ ~zero THEN K!Sx32(v) ELSE v
ZeroExtended(row, in) ==
    IF in.place \in {"r", "s"} /\ (in.ty = "f32" \/ (in.ty \in {"i32", "u32"} /\ AnyHighHalf(row[1])))
    THEN BOOLEAN ELSE {FALSE}

RegOf(ty) == IF ty \in Floats THEN ty ELSE "int"

-----------------------------------------------------------------------------
\* Operand selectors of the lowering table as words.
Immediates == [lhs |-> "#lhs", rhs |-> "#rhs", value |-> "#value", ptr |-> "#address",
               true_val |-> "#true_val", false_val |-> "#false_val"]

Resolve(i, x) ==
    LET d == Ops[i.op]
        w == Bits(d.ty)
        Ext(v) == Cast(IF d.do = "store" THEN d.mem ELSE d.ty, "i64", v)
    IN  CASE x \in DOMAIN SlotNo -> SlotNo[x]
          [] x = "sb" -> 10
          [] x = "sb1" -> 11
          [] x \in {"target", "t0", "t1", "t2"} -> x
          [] x = "#shift" -> i.rhs % w
          [] x = "#mask" -> IF i.rhs % w = 0 THEN 2 ^ Bits("u64") - 1 ELSE 2 ^ (w - (i.rhs % w)) - 1
          [] x = "#MASK" -> 2 ^ Bits("u32") - 1
          [] x = "#-1" -> 2 ^ Bits("u64") - 1
          [] x = "s32 value" -> K!Sx32(i.value)
          [] x \in {"#0", "#1", "#2", "#3", "#4", "#5", "#6"} ->
                (CHOOSE n \in 0 .. 6 : x = <<"#0", "#1", "#2", "#3", "#4", "#5", "#6">>[n + 1])
          [] x = "#offset" -> i.offset
          [] x = "#address" -> i.ptr
          [] x \in {"#lhs", "#rhs", "#value", "#true_val", "#false_val"} ->
                Ext(i[CHOOSE f \in DOMAIN Immediates : Immediates[f] = x])
          [] OTHER -> i[x]

Instantiate(i, code) ==
    [j \in 1 .. Len(code) |-> [n \in 1 .. Len(code[j]) |-> IF n = 1 THEN code[j][1] ELSE Resolve(i, code[j][n])]]

NoFields == [op |-> "", form |-> "", place |-> "", result |-> 4, value |-> 0, lhs |-> 0, rhs |-> 0,
             condition |-> 0, true_val |-> 0, false_val |-> 0, ptr |-> 0, offset |-> 0, index |-> 0,
             targets |-> <<"t0", "t1", "t2">>, global |-> 0, dst |-> 1, src |-> 2, len |-> 3]

-----------------------------------------------------------------------------
\* The operands with their values, and the words that stand for them.
Operand(in, v, zero) == [field |-> in.field, ty |-> in.ty, place |-> in.place, slot |-> in.slot,
                         v |-> v, w |-> Rep(in.ty, v, zero)]

\* Two operands in one register are one value, the wider one.
Consistent(ops) ==
    \A a, b \in DOMAIN ops :
        ops[a].place = "r" /\ ops[b].place = "r" /\ RegOf(ops[a].ty) = RegOf(ops[b].ty)
        /\ Bits(ops[a].ty) <= Bits(ops[b].ty)
        => ops[a].v = ops[b].v % 2 ^ Bits(ops[a].ty) /\ (Bits(ops[a].ty) = Bits(ops[b].ty) => ops[a].w = ops[b].w)

\* The register's content: its widest operand's, or one no operand has.
Reg(ops, reg, field) ==
    LET here == {a \in DOMAIN ops : ops[a].place = "r" /\ RegOf(ops[a].ty) = reg}
    IN  IF here = {} THEN 6
        ELSE ops[CHOOSE a \in here : \A b \in here : Bits(ops[a].ty) >= Bits(ops[b].ty)][field]

InSlot(ops, i, field) ==
    LET here == {a \in DOMAIN ops : ops[a].place = "s" /\ ops[a].slot = i}
    IN  IF here = {} THEN i % 8 ELSE ops[CHOOSE a \in here : TRUE][field]

InGlobal(ops, field) == IF Len(ops) = 1 /\ ops[1].place = "g" THEN ops[1][field] ELSE 5

StockState(ops) ==
    [slots |-> [i \in Slots |-> InSlot(ops, i, "v")], ireg |-> Reg(ops, "int", "v"),
     freg32 |-> Reg(ops, "f32", "v"), freg64 |-> Reg(ops, "f64", "v"),
     memory |-> Memory, page |-> StockPage, globals |-> [g \in {0} |-> InGlobal(ops, "v")], taken |-> "fall"]

\* Cells of globals are the instance's own: the kernel reads what stock wrote.
KernelState(ops) ==
    [slots |-> [i \in Slots \cup Scratch |-> InSlot(ops, i, "w")], A0 |-> Reg(ops, "int", "w"),
     A1 |-> Reg(ops, "f64", "w"), A2 |-> Reg(ops, "f32", "w"), memory |-> Memory,
     globals |-> [g \in {0} |-> InGlobal(ops, "v")], trap |-> FALSE, did |-> FALSE, code |-> "None", taken |-> "fall"]

\* The field of an operand: its slot, or the immediate.
Fields(row, ops, result, offset) ==
    LET FieldOf(f) == LET here == {a \in DOMAIN ops : ops[a].field = f}
                      IN  IF here = {} THEN NoFields[f]
                          ELSE LET o == ops[CHOOSE a \in here : TRUE] IN IF o.place = "i" THEN o.v ELSE o.slot
        copy == Ops[row[1]].do = "copy"
    IN  [f \in DOMAIN NoFields |->
            CASE f = "op" -> row[1]
              [] f = "form" -> FormOf(row)
              [] f = "place" -> IF copy THEN CopyForm(row[2])[2] ELSE ""
              [] f = "result" -> IF copy THEN CopyForm(row[2])[1] ELSE result
              [] f = "offset" -> offset
              [] OTHER -> FieldOf(f)]

Results(row) == IF FormOf(row) \in Twice THEN {1, 2, 4} ELSE IF FormOf(row) \in {"Rs_r", "Rs_s"} THEN {1, 4} ELSE {4}
OffsetsOf(row) == IF Ops[row[1]].do \in {"load", "store"} /\ FormOf(row) \notin {"Ri", "Ir", "Is", "Ii"}
                  THEN Offsets ELSE {0}

Init ==
    \E row \in RowSet, t \in {"i32", "u32", "i64", "u64", "f32", "f64"}, ix \in {"u32", "u64"} :
        /\ t \in Tags(row[1], FormOf(row)) /\ ix \in IndexTys(row[1])
        /\ \E in \in {Inputs(row[1], FormOf(row), t, ix)} :
              \E vals \in {v \in [DOMAIN in -> UNION {Vals(row, in[a]) : a \in DOMAIN in}] :
                            \A a \in DOMAIN in : v[a] \in Vals(row, in[a])},
                 zeros \in {z \in [DOMAIN in -> BOOLEAN] : \A a \in DOMAIN in : z[a] \in ZeroExtended(row, in[a])} :
              \E ops \in {[a \in DOMAIN in |-> Operand(in[a], vals[a], zeros[a])]} :
                /\ Consistent(ops)
                /\ \E result \in Results(row), offset \in OffsetsOf(row) :
                     /\ ins = Fields(row, ops, result, offset)
                     /\ todo = Instantiate(ins, row[3])
                /\ stock = StockState(ops)
                /\ k = KernelState(ops)
                /\ entry = k
                /\ sx = \A a \in DOMAIN in : in[a].ty = "f32" \/ ~zeros[a]
        /\ tag = t

\* One turn of the kernel's loop; a branch taken leaves the instruction.
Turn ==
    /\ todo # <<>>
    /\ k.taken = "fall"
    /\ k' = K!Step(k, Head(todo))
    /\ todo' = Tail(todo)
    /\ UNCHANGED <<ins, tag, stock, entry, sx>>

Next == Turn

Spec == Init /\ [][Next]_vars

-----------------------------------------------------------------------------
Finished == todo = <<>> \/ k.taken # "fall"
Descr == Ops[ins.op]
Expected == Exec(stock, ins)
KernelTrap == IF k.code # "None" THEN k.code ELSE IF k.trap THEN "MemoryOutOfBounds" ELSE "None"

\* The same value of a type; any NaN stands for any other.
Same(ty, kw, sw) ==
    LET a == kw % 2 ^ Bits(ty)
        b == sw % 2 ^ Bits(ty)
    IN  a = b \/ (ty \in Floats /\ IsNan(ty, a) /\ IsNan(ty, b))

KReg(st, ty) == CASE ty = "f32" -> st.A2 [] ty = "f64" -> st.A1 [] OTHER -> st.A0
SReg(st, ty) == CASE ty = "f32" -> st.freg32 [] ty = "f64" -> st.freg64 [] OTHER -> st.ireg

WritesReg == Descr.do \in {"unary", "binary", "select", "load", "global_get", "memory_size"}
             \/ (Descr.do = "copy" /\ ins.result = InRegister)
WritesSlot == ins.form \in Twice \cup {"Rs_r", "Rs_s"} \/ (Descr.do = "copy" /\ ins.result # InRegister)

\* The address of a load or a store is below 2^32: the kernel looks at no higher bit
\* of it, the handler of a 64-bit memory does.
InReach ==
    Descr.do \in {"load", "store"} =>
        LET place == Places[ins.form][IF Descr.do = "load" THEN 2 ELSE 1]
            ptr == CASE place = "r" -> stock.ireg [] place = "s" -> stock.slots[ins.ptr] [] place = "i" -> ins.ptr
        IN  ptr < 2 ^ Bits("u32")

\* The fused branches that a single instruction of the kernel decides.
DirectBranches ==
    ({"BranchI32Eq", "BranchI64Eq"} \X {"Ri", "Rs", "Si", "Ss"})
    \cup ({"BranchI32NotEq", "BranchI64NotEq"} \X {"Ri", "Rs", "Ss"})
    \cup {<<"BranchI32Le", "Ss">>, <<"BranchI32Lt", "Si">>, <<"BranchI64Le", "Ss">>, <<"BranchI64Le", "Si">>,
          <<"BranchI64Lt", "Ir">>, <<"BranchU32Le", "Ss">>, <<"BranchU32Le", "Rs">>,
          <<"BranchU64Lt", "Ss">>, <<"BranchU64Lt", "Is">>}

\* The accumulators a lowering takes as scratch: the comparison of any other fused
\* branch, the index of a br_table, an address or a value that is brought in from a
\* slot or an immediate, and the left operand of F64NotLe.
Scratched ==
    (IF \/ Descr.do = "branch" /\ <<ins.op, ins.form>> \notin DirectBranches
        \/ Descr.do = "table" /\ ins.form = "S"
        \/ Descr.do = "load" /\ ins.form = "Rs"
        \/ Descr.do = "store" /\ ins.form \in {"Ri", "Si", "Ss", "Ii", "Ir", "Is"}
     THEN {"int"} ELSE {})
    \cup (IF ins.op = "F64NotLe" /\ ins.form = "Rss" THEN {"f64"} ELSE {})

\* The accumulator the handler leaves its result in, if it does.
Result == IF WritesReg THEN {RegOf(tag)} ELSE {}

\* The lowered code does what the stock handler does: the same trap, or else the same
\* result at its type, the same memory, the same branch, and no slot of the frame and
\* no accumulator changed but the result's (`wasm_mainloop` against exec.rs).  Two
\* things are left out because the lowering does not do them: it overwrites the
\* accumulators in Scratched, which the handler keeps, and it follows the handler only
\* for addresses InReach.
Simulates ==
    Finished /\ InReach =>
        \E e \in {Expected} :
            /\ KernelTrap = e.trap
            /\ e.trap = "None" =>
                /\ k.taken = e.st.taken
                /\ k.memory = e.st.memory
                /\ \A g \in DOMAIN k.globals : Same(tag, k.globals[g], e.st.globals[g])
                /\ WritesReg => Same(tag, KReg(k, tag), SReg(e.st, tag))
                /\ \A reg \in {"int", "f32", "f64"} \ (Result \cup Scratched) : KReg(k, reg) = KReg(entry, reg)
                /\ \A i \in Slots : IF WritesSlot /\ i = ins.result THEN Same(tag, k.slots[i], e.st.slots[i])
                                     ELSE k.slots[i] = entry.slots[i]

\* A run that traps may be repeated from the start by the stock executor, unless
\* `mem_trap_did` says that it has stored (run_jit's outcome): a changed memory is
\* flagged, and the trapping instruction itself changes neither memory nor globals.
Repeatable ==
    /\ k.memory # entry.memory => k.did
    /\ KernelTrap # "None" => k.memory = entry.memory /\ k.globals = entry.globals

\* Integer arithmetic; a select of u32s and a truncation to u32 leave zero-extended words.
Integer == /\ Descr.do \in {"copy", "unary", "binary", "select"}
           /\ Descr.ty \notin Floats /\ ins.op # "U32Select"
           /\ ~(Descr.do = "unary" /\ Descr.to = "u32")

\* Integer arithmetic on sign-extended i32s yields a sign-extended i32, what the fused
\* comparisons of whole words and the kernel's memory.copy rely on.
Canonical ==
    Integer /\ Finished /\ KernelTrap = "None" /\ sx /\ Bits(tag) = Bits("u32") /\ tag # "f32" =>
        /\ WritesReg => k.A0 = K!Sx32(k.A0)
        /\ WritesSlot => k.slots[ins.result] = K!Sx32(k.slots[ins.result])

=============================================================================
