---------------------------- MODULE OpSelection -----------------------------
(***************************************************************************)
(* How the translator selects the bytecode for a chain of numeric Wasm     *)
(* operators (translator/func/mod.rs: translate_binary, translate_unary,   *)
(* the fusing of tests for zero, of abs and neg and of branches, loads and *)
(* stores), run beside what the Wasm operators compute.                    *)
(*                                                                         *)
(* A chain starts with an operator whose operands are in the register, in  *)
(* a cell or constants; every later one takes the result before it.  The   *)
(* operator selected last is staged: a later one may replace it, and only  *)
(* when it does not is the staged one executed.                            *)
(***************************************************************************)
EXTENDS OpTables, TLC

CONSTANTS
    Values,    \* the patterns tried, by type
    Memories,  \* the linear memories: their bytes, index type and maximum
    Offsets,   \* the offsets of loads and stores
    OFFSET16,  \* bits of a short offset (16 in the code)
    MaxLen,    \* operators in a chain
    SelfStore  \* also store a local at the address it holds, far away

ASSUME SelectionAssumption ==
    /\ MaxLen \in Nat \ {0} /\ OFFSET16 \in Nat /\ SelfStore \in BOOLEAN
    /\ Offsets \subseteq 0 .. 2 ^ Bits("u64") - 1
    /\ \A ty \in {"i32", "i64", "f32", "f64"} : Values[ty] \subseteq 0 .. 2 ^ Bits(ty) - 1

VARIABLES
    regs,  \* the registers: one for integers and one per float type
    cell,  \* cells: that of the local the register holds, and two others
    sel,   \* what the translator has for the chain
    acc,   \* the load or store it has
    typ,   \* the type of the result, or what a branch tests it for
    want,  \* what the Wasm operators compute, or their trap
    len    \* operators so far

vars == <<regs, cell, sel, acc, typ, want, len>>

Types == {"i32", "i64", "f32", "f64"}
RegOf(ty) == IF ty \in Floats THEN ty ELSE "i"
Value(ty, loc, rs, cs) ==
    Wrap(Bits(ty), CASE loc.k = "reg" -> rs[RegOf(ty)] [] loc.k = "slot" -> cs[loc.n] [] loc.k = "imm" -> loc.n)

\* What the executor computes for an operator.
Exec(op, rs, cs) ==
    IF Len(op.in) = 2 THEN Binary(op.ty, op.f, Value(op.ty, op.in[1], rs, cs), Value(op.ty, op.in[2], rs, cs))
    ELSE Unary(op.ty, op.to, op.f, Value(op.ty, op.in[1], rs, cs))

\* The result of a chain: a staged operator that writes its register, a
\* constant, an operand as it is, or a trap; a branch or an access ends it.
Staged(op) == [k |-> "op", op |-> op, r |-> Ok(0), loc |-> Reg]
Operand(loc) == [k |-> "operand", op |-> NoOp, r |-> Ok(0), loc |-> loc]
Trap(r) == [k |-> "trap", op |-> NoOp, r |-> r, loc |-> Reg]
Branch(k, op) == [k |-> k, op |-> op, r |-> Ok(0), loc |-> Reg]
Start == Operand(Imm(0))

\* translate_binary_consteval, and the consteval of a unary operator
consteval(r) == IF r.trap = "None" THEN Operand(Imm(r.v)) ELSE Trap(r)

\* The operator, the memory, where the pointer is, the offset (0 when the
\* address is known) and the value of a load or a store.
Access(k, op, m, ptr, offset, val) ==
    [k |-> k, op |-> op, mem |-> m, ptr |-> ptr, offset |-> offset, val |-> val]
NoAccess == Access("none", <<"i32", "u32">>, 1, Reg, 0, Reg)

Init ==
    /\ regs = [r \in {"i", "f32", "f64"} |-> 0] /\ cell = <<0, 0, 0>>
    /\ sel = Start /\ acc = NoAccess /\ typ = "i32" /\ want = Ok(0) /\ len = 0

-----------------------------------------------------------------------------
\* Two operands.

\* decode_rhs_as_value, _divisor and _shift_amount; no amount is a no-op.
decode_rhs(row, v) ==
    CASE row.decode = "value" -> Ok(v)
      [] row.decode = "divisor" -> IF v = 0 THEN Err("IntegerDivisionByZero") ELSE Ok(v)
      [] row.decode = "shift" -> Ok(v % Bits(row.ty))

\* i32_sub_rri .. and f32_copysign_rri ..: with an immediate right operand a
\* difference is a sum and a copied sign is known.
lower_rhs_imm(row, l, v) ==
    CASE row.f = "sub" /\ row.ty \notin Floats -> Op(row.ty, row.ty, "add", <<l, Imm(Wrap(Bits(row.ty), -v))>>)
      [] row.f = "copysign" -> Op(row.ty, row.ty, IF Neg(row.ty, v) THEN "nabs" ELSE "abs", <<l>>)
      [] OTHER -> Op(row.ty, ResultTy(row.ty, row.f), row.f, <<l, Imm(v)>>)

encode_binary(row, swap, l, r) ==
    IF swap THEN Op(row.ty, ResultTy(row.ty, row.f), row.f, <<r, l>>)
    ELSE IF r.k = "imm" THEN lower_rhs_imm(row, l, r.n)
    ELSE Op(row.ty, ResultTy(row.ty, row.f), row.f, <<l, r>>)

\* Both operands in the register are the local it holds: an operator without
\* such an encoding takes the right one from its cell.
reg_operand_to_slot(l, r) == IF l = Reg /\ r = Reg THEN Slot(1) ELSE r

translate_binary(ty, row, swap, l, r) ==
    LET d == decode_rhs(row, r.n)
        rhs == IF r.k = "imm" THEN Imm(d.v) ELSE r
    IN  IF r.k = "imm" /\ d.trap # "None" THEN Trap(d)
        ELSE IF l.k = "imm" /\ r.k = "imm"
             THEN consteval(Binary(row.ty, row.f, (IF swap THEN rhs ELSE l).n, (IF swap THEN l ELSE rhs).n))
        ELSE IF l = Reg /\ r = Reg /\ row.f = "mul" THEN Staged(Op(ty, ty, "mul", <<Reg, Reg>>))
        ELSE Staged(encode_binary(row, swap, l, reg_operand_to_slot(l, rhs)))

\* ResolvedOperand::sort: a register before a cell before an immediate.
sort(l, r) ==
    IF \/ l.k = "slot" /\ r.k = "reg"
       \/ l.k = "imm" /\ r.k \in {"reg", "slot"} THEN <<r, l>> ELSE <<l, r>>

\* fuse_eqz and fuse_nez: what the staged operator s becomes when its result l
\* is compared with the constant c, if anything.
fuse_commutative_cmp_with(f, s, l, c) ==
    IF c # 0 \/ s.k # "op" \/ l # Reg THEN NoOp
    ELSE IF f = "eq" THEN negate_cmp_instr(s.op) ELSE IF f = "ne" THEN logicalize_cmp_instr(s.op) ELSE NoOp

encode_commutative(ty, f, l, r) ==
    CASE l = Reg /\ r = Reg /\ f = "add" -> Op(ty, ty, "mul", <<Reg, Imm(2)>>)
      [] l = Reg /\ r = Reg /\ f = "mul" -> Op(ty, ty, "mul", <<Reg, Reg>>)
      [] OTHER -> Op(ty, ResultTy(ty, f), f, <<l, reg_operand_to_slot(l, r)>>)

\* s is the selection so far; whether it was replaced is the caller's to ask.
translate_binary_commutative(ty, f, l, r, s) ==
    IF l.k = "imm" /\ r.k = "imm" THEN consteval(Binary(ty, f, l.n, r.n))
    ELSE LET p == sort(l, r)
             fused == fuse_commutative_cmp_with(f, s, l, p[2].n)
         IN  IF p[2].k = "imm" /\ ty \notin Floats /\ fused # NoOp THEN Staged(fused)
             ELSE Staged(encode_commutative(ty, f, p[1], p[2]))

-----------------------------------------------------------------------------
\* One operand.

\* try_lower_f32_abs_neg, try_lower_f64_abs_neg
try_lower_abs_neg(w, l, s) ==
    IF w[3] = "neg" /\ l = Reg /\ s.k = "op" /\ s.op.ty = w[1] /\ s.op.f = "abs"
    THEN [s.op EXCEPT !.f = "nabs"] ELSE NoOp

translate_unary(w, l, s) ==
    LET u == UnaryOp(w)
        lowered == try_lower_abs_neg(w, l, s)
    IN  IF lowered # NoOp THEN Staged(lowered)
        ELSE IF l.k = "imm" THEN consteval(Unary(w[1], w[2], w[3], l.n))
        ELSE Staged(Op(u[1], u[2], u[3], <<l>>))

\* A float reinterpreted as an integer or back: between registers an operator,
\* in a cell only another type.
translate_reinterpret(from, to, l) ==
    IF l.k = "reg" THEN Staged(Op(from, to, "reinterpret", <<Reg>>))
    ELSE Operand(l)

-----------------------------------------------------------------------------
\* Branches.

\* Mutant: a branch on zero is fused as one on not zero.
fused_cmp_branch_plain(s, negate) ==
    IF s.k # "op" \/ s.op.to \in Floats THEN NoOp ELSE try_into_cmp_branch_instr(s.op)

fused_cmp_branch(s, negate) ==
    IF s.k # "op" \/ s.op.to \in Floats THEN NoOp
    ELSE IF negate THEN try_into_cmp_branch_instr(negate_cmp_instr(s.op))
    ELSE try_into_cmp_branch_instr(s.op)

\* A condition without a fused branch is compared with 0.
encode_br_if(s, l, eqz) ==
    LET fused == fused_cmp_branch(s, eqz)
        take == IF eqz THEN l.n = 0 ELSE l.n # 0
    IN  IF fused # NoOp THEN Branch("branch", fused)
        ELSE IF l.k = "imm" THEN Branch(IF take THEN "always" ELSE "never", NoOp)
        ELSE Branch("branch", Op("i32", "branch", IF eqz THEN "eq" ELSE "ne", <<l, Imm(0)>>))

-----------------------------------------------------------------------------
\* Loads and stores.

\* Mutant: the sum wraps at the width of the memory's index.
effective_address_at_wrapping(m, ptr, offset) == Ok((ptr + offset) % 2 ^ Bits("u32"))

\* FuncTranslator::effective_address, for a constant pointer.
effective_address_at(m, ptr, offset) ==
    IF \/ ptr + offset >= 2 ^ Bits("u64")
       \/ ptr + offset > Memories[m].max
       \/ ~Memories[m].is64 /\ ptr + offset >= 2 ^ Bits("u32")
    THEN Err("MemoryOutOfBounds") ELSE Ok(ptr + offset)

IsOffset16(offset) == offset < 2 ^ OFFSET16

\* The short operators are for the first memory and small offsets; a constant
\* pointer becomes an address.
select_load_op(op, m, ptr, offset) ==
    LET ea == effective_address_at(m, ptr.n, offset)
    IN  IF m = 1 /\ IsOffset16(offset) /\ ptr.k # "imm" THEN Access("mem0_offset16", op, 1, ptr, offset, Reg)
        ELSE IF ptr.k # "imm" THEN Access("offset", op, m, ptr, offset, Reg)
        ELSE IF ea.trap # "None" THEN Access("trap", op, m, ptr, offset, Reg)
        ELSE Access("address", op, m, Imm(ea.v), 0, Reg)

\* Mutant: no operator takes the value from the cell of its local.
choose_store_op_strict(op, m, ptr, offset, val) ==
    IF ptr = Reg /\ val = Reg /\ ~store_rr(op) THEN Access("unreachable", op, m, ptr, offset, val)
    ELSE IF ptr.k # "imm" THEN Access("offset", op, m, ptr, offset, val)
    ELSE Access("address", op, m, Imm(ptr.n + offset), 0, val)

\* Pointer and value both in the integer register: the short form takes the
\* value from its cell, the long one has no such case (unreachable!).
choose_store_op(op, m, ptr, offset, val) ==
    LET ea == effective_address_at(m, ptr.n, offset)
        both == ptr = Reg /\ val = Reg /\ ~store_rr(op)
        v == IF val.k = "imm" THEN Imm(into_immediate(op, val.n)) ELSE val
    IN  IF ptr.k = "imm"
        THEN IF ea.trap # "None" THEN Access("trap", op, m, ptr, offset, v)
             ELSE Access("address", op, m, Imm(ea.v), 0, v)
        ELSE IF m = 1 /\ IsOffset16(offset)
             THEN Access("mem0_offset16", op, 1, ptr, offset, IF both THEN Slot(1) ELSE v)
        ELSE IF both THEN Access("unreachable", op, m, ptr, offset, v)
        ELSE Access("offset", op, m, ptr, offset, v)

-----------------------------------------------------------------------------
\* The Wasm operators and what they compute.

Unsigned(ty) == IF ty = "i32" THEN "u32" ELSE "u64"
WasmFunction ==
    [lt_s |-> "lt", lt_u |-> "lt", le_s |-> "le", le_u |-> "le", gt_s |-> "gt", gt_u |-> "gt", ge_s |-> "ge",
     ge_u |-> "ge", div_s |-> "div", div_u |-> "div", rem_s |-> "rem", rem_u |-> "rem"]
WasmUnsigned == {"lt_u", "le_u", "gt_u", "ge_u", "div_u", "rem_u", "shr_u"}

WasmCompare(ty) == IF ty \in Floats THEN {"lt", "le", "gt", "ge"}
                   ELSE {"lt_s", "lt_u", "le_s", "le_u", "gt_s", "gt_u", "ge_s", "ge_u"}
I32Visits == {"add", "sub", "mul", "div_s", "div_u", "rem_s", "rem_u", "bitand", "bitor", "bitxor",
              "shl", "shr_s", "shr_u", "rotl", "rotr"}
I64Visits == {"add", "sub", "mul", "div_s", "div_u", "rem_s", "rem_u", "bitand", "bitor", "bitxor",
              "shl", "shr_s", "shr_u", "rotl", "rotr"}
F32Visits == {"add", "sub", "mul", "div", "min", "max", "copysign"}
F64Visits == {"add", "sub", "mul", "div", "min", "max", "copysign"}
Visits == [i32 |-> I32Visits, i64 |-> I64Visits, f32 |-> F32Visits, f64 |-> F64Visits]
WasmNames == [ty \in Types |-> {"eq", "ne"} \cup WasmCompare(ty) \cup Visits[ty]]

RowOf(ty, n) ==
    LET i == CHOOSE i \in DOMAIN Ordered[ty] : n \in DOMAIN Ordered[ty][i]
    IN  Ordered[ty][i][n]

Wasm(ty, n, a, b) ==
    LET t == IF n \in WasmUnsigned THEN Unsigned(ty) ELSE ty
        f == IF n \in DOMAIN WasmFunction THEN WasmFunction[n] ELSE n
    IN  IF f \in {"gt", "ge"} THEN Bool(IF ty \in Floats THEN float_cmp(ty, f, a, b) ELSE int_cmp(t, f, a, b))
        ELSE Binary(t, f, a, b)

-----------------------------------------------------------------------------
\* The first operator of a chain finds its operands: a in the register, in
\* the second cell or in the code, and b in the register, the third cell or
\* the code; the first cell is that of the local in the integer register.

Finds(tl, l, a, tr, b) ==
    \E i \in {IF RegOf(tl) = "i" /\ l = Reg THEN a ELSE IF RegOf(tr) = "i" THEN b ELSE 0} :
        /\ regs' = [r \in {"i", "f32", "f64"} |->
                       IF r = "i" THEN i ELSE IF RegOf(tl) = r /\ l = Reg THEN a ELSE IF RegOf(tr) = r THEN b ELSE 0]
        /\ cell' = <<IF tl \in Floats THEN (IF l = Reg THEN a ELSE b) ELSE i, a, b>>

VisitBinary ==
    /\ len = 0
    /\ \E ty \in Types : \E n \in WasmNames[ty], a, b \in Values[ty] :
        \E l \in {Reg, Slot(2), Imm(a)}, r \in {Reg, Slot(3), Imm(b)} :
            /\ l = Reg /\ r = Reg => a = b
            /\ Finds(ty, l, a, ty, b)
            /\ \E m \in {IF n \in DOMAIN CompareAs THEN CompareAs[n] ELSE n} :
                sel' = IF n \in Commutative[ty] THEN translate_binary_commutative(ty, n, l, r, sel)
                       ELSE translate_binary(ty, RowOf(ty, m), m # n, l, r)
            /\ want' = Wasm(ty, n, a, b)
            /\ typ' = IF n \in WasmCompare(ty) \cup {"eq", "ne"} THEN "i32" ELSE ty
    /\ len' = 1
    /\ UNCHANGED acc

\* The types of Wasm values; the bytecode also tells unsigned integers apart.
WasmTy(ty) == IF ty = "u32" THEN "i32" ELSE IF ty = "u64" THEN "i64" ELSE ty

VisitUnary ==
    /\ len = 0
    /\ \E w \in UnaryOps : \E a \in Values[WasmTy(w[1])] : \E l \in {Reg, Slot(2), Imm(a)} :
        /\ Finds(w[1], l, a, w[1], 0)
        /\ sel' = translate_unary(w, l, sel)
        /\ want' = Unary(w[1], w[2], w[3], a)
        /\ typ' = WasmTy(w[2])
    /\ len' = 1
    /\ UNCHANGED acc

\* Later operators take the result before them, in its register, as a constant
\* or in its cell.
Goes == len \in 1 .. MaxLen - 1 /\ sel.k \in {"op", "operand"} /\ want.trap = "None"

\* The staged operator is executed, unless it was replaced.
Commit(replaced) ==
    /\ regs' = IF sel.k # "op" \/ replaced THEN regs
               ELSE [regs EXCEPT ![RegOf(sel.op.to)] = Exec(sel.op, regs, cell).v]
    /\ UNCHANGED cell

\* i32.eqz, i64.eqz and comparisons with a constant on either side
VisitTest ==
    /\ Goes /\ typ \in {"i32", "i64"}
    /\ \E f \in {"eq", "ne"}, c \in {0, 1}, first \in BOOLEAN :
        \E l \in {IF first THEN Imm(c) ELSE sel.loc}, r \in {IF first THEN sel.loc ELSE Imm(c)} :
            /\ sel' = translate_binary_commutative(typ, f, l, r, sel)
            /\ Commit(fuse_commutative_cmp_with(f, sel, l, c) # NoOp)
            /\ want' = Bool(compare(f, want.v, c))
    /\ typ' = "i32" /\ len' = len + 1
    /\ UNCHANGED acc

VisitUnaryNext ==
    /\ Goes
    /\ \E w \in UnaryOps :
        /\ w[1] = typ /\ w[3] \in {"abs", "neg", "cast", "extend32"}
        /\ sel' = translate_unary(w, sel.loc, sel)
        /\ Commit(try_lower_abs_neg(w, sel.loc, sel) # NoOp)
        /\ want' = Unary(w[1], w[2], w[3], want.v)
        /\ typ' = w[2]
    /\ len' = len + 1
    /\ UNCHANGED acc

VisitReinterpret ==
    /\ Goes
    /\ \E p \in {<<"i32", "f32">>, <<"f32", "i32">>, <<"i64", "f64">>, <<"f64", "i64">>} :
        /\ p[1] = typ /\ typ' = p[2]
        /\ sel' = translate_reinterpret(p[1], p[2], sel.loc)
    /\ Commit(FALSE)
    /\ len' = len + 1
    /\ UNCHANGED <<acc, want>>

\* An i32 is also the i64 with its bits: nothing is emitted.
visit_i64_extend_i32_u ==
    /\ Goes /\ typ = "i32"
    /\ typ' = "i64" /\ len' = len + 1
    /\ UNCHANGED <<regs, cell, sel, acc, want>>

\* br_if, or the test of an `if`, which branches on zero
VisitBranch ==
    /\ Goes /\ typ = "i32"
    /\ \E eqz \in BOOLEAN :
        /\ sel' = encode_br_if(sel, sel.loc, eqz)
        /\ Commit(fused_cmp_branch(sel, eqz) # NoOp)
        /\ typ' = IF eqz THEN "eqz" ELSE "nez"
    /\ len' = MaxLen
    /\ UNCHANGED <<acc, want>>

IndexTy(m) == IF Memories[m].is64 THEN "i64" ELSE "i32"
Offset(m) == {o \in Offsets : Memories[m].is64 \/ o < 2 ^ Bits("u32")}

VisitLoad ==
    /\ len = 0
    /\ \E op \in LoadOps, m \in DOMAIN Memories : \E a \in Values[IndexTy(m)], offset \in Offset(m) :
        \E ptr \in {Reg, Slot(2), Imm(a)} :
            /\ Finds(IndexTy(m), ptr, a, "i32", 0)
            /\ acc' = select_load_op(op, m, ptr, offset)
            /\ want' = load_extend_at(Memories[m].bytes, op[1], op[2], a + offset)
    /\ typ' = "load" /\ len' = MaxLen
    /\ UNCHANGED sel

VisitStore ==
    /\ len = 0
    /\ \E op \in StoreOps, m \in DOMAIN Memories :
        \E a \in Values[IndexTy(m)], b \in Values[op[1]], offset \in Offset(m) :
        \E ptr \in {Reg, Slot(2), Imm(a)}, val \in {Reg, Slot(3), Imm(b)} :
            /\ ptr = Reg /\ val = Reg /\ ~store_rr(op) => a = b /\ (SelfStore \/ (m = 1 /\ IsOffset16(offset)))
            /\ Finds(IndexTy(m), ptr, a, op[1], b)
            /\ acc' = choose_store_op(op, m, ptr, offset, val)
            /\ want' = store_wrap_at(Memories[m].bytes, op[2], a + offset, b)
    /\ typ' = "store" /\ len' = MaxLen
    /\ UNCHANGED sel

Return ==
    /\ len > 0
    /\ regs' = [r \in {"i", "f32", "f64"} |-> 0] /\ cell' = <<0, 0, 0>>
    /\ sel' = Start /\ acc' = NoAccess /\ typ' = "i32" /\ want' = Ok(0) /\ len' = 0

Next ==
    \/ VisitBinary \/ VisitUnary \/ VisitTest \/ VisitUnaryNext \/ VisitReinterpret
    \/ visit_i64_extend_i32_u \/ VisitBranch \/ VisitLoad \/ VisitStore \/ Return

Spec == Init /\ [][Next]_vars

-----------------------------------------------------------------------------
\* The operator, constant, operand or trap selected for a chain of Wasm
\* operators is what the chain computes, trap for trap and bit for bit: with
\* its operands swapped for `gt`, its comparison negated for `eqz`, its
\* difference made a sum, its sign made an abs (translate_binary_vt,
\* translate_binary_commutative_vt, translate_unary_vt and the fuse_*).
SelectedComputes ==
    /\ sel.k = "op" => Exec(sel.op, regs, cell) = want
    /\ sel.k = "operand" /\ typ \in Types => want = Ok(Value(typ, sel.loc, regs, cell))
    /\ sel.k = "trap" => sel.r = want

\* A branch is taken exactly when the Wasm condition says so, whether it was
\* fused with the staged comparison, compares with 0, or was decided at once
\* (encode_br_if, fused_cmp_branch), and it is one whose offset can be set later:
\* update_branch_offset panics for any other.
BranchDecides ==
    /\ sel.k \in {"branch", "always", "never"} =>
        LET taken == IF sel.k = "branch" THEN Exec(sel.op, regs, cell).v # 0 ELSE sel.k = "always"
        IN  taken = ((want.v = 0) = (typ = "eqz"))
    /\ sel.k = "branch" => update_branch_offset(sel.op)

\* A load reads, and a store writes, what the Wasm access does, through every
\* encoding and with the address known or not; an access refused at translation
\* is one that traps (select_load_op_vt, choose_store_op_vt, effective_address). Every
\* access of a valid module has an encoding: choose_store_op_vt never reaches its
\* unreachable!().
AccessExact ==
    acc.k # "none" =>
      /\ acc.k # "unreachable"
      /\ LET bytes == Memories[acc.mem].bytes
            ptr == Value("u64", acc.ptr, regs, cell)
            val == Value(acc.op[1], acc.val, regs, cell)
        IN  want = CASE acc.k = "trap" -> Err("MemoryOutOfBounds")
                     [] acc.k = "address" /\ typ = "load" -> load_extend_at(bytes, acc.op[1], acc.op[2], ptr)
                     [] acc.k = "address" /\ typ = "store" -> store_wrap_at(bytes, acc.op[2], ptr, val)
                     [] acc.k \in {"offset", "mem0_offset16"} /\ typ = "load" ->
                            load_extend(bytes, acc.op[1], acc.op[2], ptr, acc.offset)
                     [] acc.k \in {"offset", "mem0_offset16"} /\ typ = "store" ->
                            store_wrap(bytes, acc.op[2], ptr, acc.offset, val)

=============================================================================
