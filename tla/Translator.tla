----------------------------- MODULE Translator -----------------------------
(***************************************************************************)
(* The function translator of wasmi: it visits the instructions of one Wasm *)
(* function body and emits register-machine bytecode, keeping on its own    *)
(* stack not values but where each operand of the Wasm stack lives (an      *)
(* immediate, a local, a temporary cell, an accumulator register), staging  *)
(* the last operator so that it can be fused with what follows.             *)
(*                                                                         *)
(* The state t of the translator is a record: the operand stack `ops`, the  *)
(* register map `regs`, the control stack `frames`, the function's results,  *)
(* `reachable`, the staged                                                  *)
(* operator, whether an assertion has failed (`panic`), and `code`: what a  *)
(* visit emits, the operators and marks that say where control goes.        *)
(***************************************************************************)
EXTENDS SymbolicMachine, SequencesExt

CONSTANTS
  LocalTys,     \* the types of the function's locals
  Consts,       \* the constants: 0..n
  DebugAssertions \* whether debug_assert! is compiled in

ASSUME TranslatorAssumption == 0 \in Consts /\ Consts \subseteq Nat /\ DebugAssertions \in BOOLEAN

Base == Cardinality(Consts)

-----------------------------------------------------------------------------
(* Types, registers and the layout of the frame.                            *)

Types == {"i32", "i64", "f32", "f64", "v128", "funcref"}

(* required_cells_for_ty *)
Width(ty) == IF ty = "v128" THEN 2 ELSE 1

RECURSIVE Cells(_)
Cells(tys) == IF tys = <<>> THEN 0 ELSE Width(Head(tys)) + Cells(Tail(tys))

(* RegKind::new *)
RegKind(ty) == CASE ty \in {"i32", "i64", "funcref"} -> "ireg"
                 [] ty = "f32" -> "freg32"
                 [] ty = "f64" -> "freg64"
                 [] OTHER -> "none"
Regs == {"ireg", "freg32", "freg64"}

LocalCells == Cells(LocalTys)
local_to_slot(i) == Cells(SubSeq(LocalTys, 1, i - 1))
Tys(ops) == [p \in DOMAIN ops |-> ops[p].ty]
temp_slot(ops, p) == LocalCells + Cells(SubSeq(Tys(ops), 1, p - 1))

(* RegisterLink: what a register is known to hold. *)
NoLink == [k |-> "none", n |-> 0]
TempLink(p) == [k |-> "temp", n |-> p]
LocalLink(i) == [k |-> "local", n |-> i]
NoRegs == [r \in Regs |-> NoLink]

(* StackOperand. n is the index of a local or the value of an immediate. *)
Temp(ty, reg) == [k |-> "temp", ty |-> ty, n |-> 0, reg |-> reg]
Local(i, ty) == [k |-> "local", ty |-> ty, n |-> i, reg |-> FALSE]
Imm(ty, c) == [k |-> "imm", ty |-> ty, n |-> c, reg |-> FALSE]

is_local_in_reg(regs, ty, i) == RegKind(ty) \in Regs /\ regs[RegKind(ty)] = LocalLink(i)
is_local_in_any_reg(regs, i) == \E r \in Regs : regs[r] = LocalLink(i)

(* wrap_operand: an operand with its temporary slot and whether it is in a *)
(* register now.                                                           *)
Operand(ops, regs, p) ==
  LET o == ops[p]
  IN [k |-> o.k, ty |-> o.ty, n |-> o.n, slot |-> temp_slot(ops, p), pos |-> p,
      in_reg |-> IF o.k = "local" THEN is_local_in_reg(regs, o.ty, o.n) ELSE o.reg]

(* Operand::resolve *)
resolve(o) ==
  CASE o.in_reg -> RegLoc(RegKind(o.ty))
    [] o.k = "imm" -> ImmLoc(o.n, Width(o.ty))
    [] o.k = "local" /\ ~o.in_reg -> SlotLoc(local_to_slot(o.n), Width(o.ty))
    [] OTHER -> SlotLoc(o.slot, Width(o.ty))

(* Operand::is_same *)
is_same(a, b) == /\ a.k = b.k
                 /\ IF a.k = "temp" THEN a.pos = b.pos ELSE a.n = b.n

Top(t) == Len(t.ops)
peek(t, depth) == Operand(t.ops, t.regs, Top(t) - depth)

-----------------------------------------------------------------------------
(* The encoder: one operator is staged, every other one is final.           *)

Mark(t, item) == [t EXCEPT !.code = Append(@, item)]
commit_staged(t) == IF t.staged = NoOp THEN t ELSE [Mark(t, t.staged) EXCEPT !.staged = NoOp]
drop_staged(t) == [t EXCEPT !.staged = NoOp]
replace_staged(t, op) == [t EXCEPT !.staged = op]
encode_op(t, op) == Mark(commit_staged(t), op)
stage_op(t, op) == [commit_staged(t) EXCEPT !.staged = op]

Copy(from, to) == MOp("copy", <<from>>, <<To(to)>>, FALSE)

(* encode_copy_sx_op: no copy of a slot to itself. *)
encode_copy_sx(t, slot, o) ==
  LET from == resolve(o)
      to == SlotLoc(slot, Width(o.ty))
  IN IF from = to THEN t ELSE encode_op(t, Copy(from, to))

(* encode_copy_rx_op *)
encode_copy_rx(t, o) ==
  IF o.in_reg THEN t ELSE encode_op(t, Copy(resolve(o), RegLoc(RegKind(o.ty))))

(* copy_operand_to_slot and copy_immediate_to_slot: the location and the *)
(* new state.                                                             *)
slot_of(o) == IF resolve(o).k = "slot" THEN resolve(o) ELSE SlotLoc(o.slot, Width(o.ty))
copy_operand_to_slot(t, o) ==
  IF resolve(o).k = "slot" THEN t ELSE encode_op(t, Copy(resolve(o), SlotLoc(o.slot, Width(o.ty))))
imm_slot_of(o) == IF o.k = "imm" THEN slot_of(o) ELSE resolve(o)
copy_immediate_to_slot(t, o) == IF o.k = "imm" THEN copy_operand_to_slot(t, o) ELSE t

(* copy_operands_to_dst: the operands at positions lo..hi, deepest first. *)
RECURSIVE copy_operands_to_dst(_, _, _, _)
copy_operands_to_dst(t, lo, hi, dst) ==
  IF lo > hi THEN t
  ELSE copy_operands_to_dst(encode_copy_sx(t, dst, Operand(t.ops, t.regs, lo)),
                            lo + 1, hi, dst + Width(t.ops[lo].ty))

-----------------------------------------------------------------------------
(* The operand stack and its registers.                                     *)

push_local(t, i, ty) == [t EXCEPT !.ops = Append(@, Local(i, ty))]
push_immediate(t, ty, c) == [t EXCEPT !.ops = Append(@, Imm(ty, c))]

push_temp_unlinked(t, ty, reg) == [t EXCEPT !.ops = Append(@, Temp(ty, reg))]
(* alloc_reg asserts that the register was free. *)
push_temp(t, ty, reg) ==
  LET r == RegKind(ty)
      pushed == [t EXCEPT !.ops = Append(@, Temp(ty, reg))]
  IN IF ~reg THEN pushed
     ELSE [pushed EXCEPT !.regs[r] = TempLink(Top(t) + 1),
                         !.panic = @ \/ (DebugAssertions /\ t.regs[r] # NoLink)]

PushAs(t, o, in_reg) ==
  CASE o.k = "local" -> push_local(t, o.n, o.ty)
    [] o.k = "imm" -> push_immediate(t, o.ty, o.n)
    [] OTHER -> push_temp(t, o.ty, in_reg)
push_operand(t, o) == PushAs(t, o, o.in_reg)

RECURSIVE PushTemps(_, _)
PushTemps(t, tys) == IF tys = <<>> THEN t ELSE PushTemps(push_temp(t, Head(tys), FALSE), Tail(tys))

(* pop of n operands: a temporary in a register frees the register. *)
Freed(t, n) ==
  {r \in Regs : \E p \in Top(t) - n + 1..Top(t) :
                   t.ops[p].k = "temp" /\ t.ops[p].reg /\ RegKind(t.ops[p].ty) = r}
pop(t, n) ==
  [t EXCEPT !.ops = SubSeq(@, 1, Len(@) - n),
            !.regs = [r \in Regs |-> IF r \in Freed(t, n) THEN NoLink ELSE @[r]]]
trunc(t, height) == IF Top(t) > height THEN pop(t, Top(t) - height) ELSE t

(* operand_to_temp: the operand at p is a temporary in its own cells. *)
ToTemp(t, p) ==
  LET o == t.ops[p]
      r == RegKind(o.ty)
  IN [t EXCEPT !.ops[p] = Temp(o.ty, FALSE),
               !.regs = IF o.k = "temp" /\ o.reg THEN [@ EXCEPT ![r] = NoLink] ELSE @]

(* The locals among the operands that preserve_all_locals visits: it skips  *)
(* the top-most `skip` local operands.                                      *)
LocalsOn(ops) == {p \in DOMAIN ops : ops[p].k = "local"}
PreservedLocals(ops, skip) ==
  {p \in LocalsOn(ops) : Cardinality({q \in LocalsOn(ops) : q > p}) >= skip}

RECURSIVE PreserveAt(_, _)
PreserveAt(t, ps) ==
  IF ps = {} THEN t
  ELSE LET p == CHOOSE x \in ps : \A y \in ps : y <= x
           o == Operand(t.ops, t.regs, p)
       IN PreserveAt(encode_copy_sx(ToTemp(t, p), o.slot, o), ps \ {p})
preserve_all_locals(t, skip) == PreserveAt(t, PreservedLocals(t.ops, skip))

(* preserve_locals(i): every operand that is local i, read from the register *)
(* of its type when the local is in a register.                             *)
RECURSIVE PreserveLocal(_, _, _)
PreserveLocal(t, ps, in_reg) ==
  IF ps = {} THEN t
  ELSE LET p == CHOOSE x \in ps : \A y \in ps : y <= x
           o == [Operand(t.ops, t.regs, p) EXCEPT !.in_reg = in_reg]
       IN PreserveLocal(encode_copy_sx(ToTemp(t, p), o.slot, o), ps \ {p}, in_reg)
preserve_locals_none(t, i) == t
preserve_locals(t, i) ==
  PreserveLocal(t, {p \in LocalsOn(t.ops) : t.ops[p].n = i}, is_local_in_any_reg(t.regs, i))

discard_local_regs(t) ==
  [t EXCEPT !.regs = [r \in Regs |-> IF @[r].k = "local" THEN NoLink ELSE @[r]]]

(* preserve_all_temp_regs and copy_preserved_regs_to_slots: temporaries in   *)
(* registers below the top-most `skip` operands go to their cells.           *)
RECURSIVE PreserveRegs(_, _)
PreserveRegs(t, rs) ==
  IF rs = {} THEN t
  ELSE LET r == CHOOSE x \in rs : TRUE
           p == t.regs[r].n
           o == Operand(t.ops, t.regs, p)
           u == [ToTemp(t, p) EXCEPT !.regs[r] = NoLink]
       IN PreserveRegs(IF t.reachable THEN encode_op(u, Copy(RegLoc(r), SlotLoc(o.slot, 1))) ELSE u,
                       rs \ {r})
preserve_temp_regs(t, skip) ==
  PreserveRegs(t, {r \in Regs : t.regs[r].k = "temp" /\ t.regs[r].n <= Top(t) - skip})
preserve_regs(t) ==
  LET u == PreserveRegs(t, {r \in Regs : t.regs[r].k = "temp"})
  IN [u EXCEPT !.regs = NoRegs]

(* fuse_copy_sr: the staged operator can write its register and a slot. *)
can_fuse_copy_sr(t, ty) ==
  /\ t.staged.f # "none"
  /\ CASE RegKind(ty) = "ireg" -> \/ t.staged.f = "i32.add"
                                  \/ t.staged.f = "i32.load" /\ t.staged.in[1].k # "imm"
       [] RegKind(ty) = "freg32" -> t.staged.f = "f32.load" /\ t.staged.in[1].k # "imm"
       [] OTHER -> FALSE
fuse_copy_sr(t, slot) == [t.staged EXCEPT !.out = Append(@, To(SlotLoc(slot, 1)))]

(* preserve_reg_of_type: before the register is overwritten, a temporary in *)
(* it goes to its cells, together with the staged operator if possible.     *)
preserve_reg_of_type(t, ty) ==
  LET r == RegKind(ty)
      link == t.regs[r]
      p == link.n
      u == [t EXCEPT !.regs[r] = NoLink, !.ops[p].reg = FALSE]
      slot == temp_slot(t.ops, p)
  IN CASE link.k = "none" -> t
       [] link.k = "local" -> [t EXCEPT !.regs[r] = NoLink]
       [] link.k = "temp" ->
            IF can_fuse_copy_sr(t, ty)
              THEN encode_op(drop_staged(u), fuse_copy_sr(t, slot))
              ELSE encode_op(u, Copy(RegLoc(r), SlotLoc(slot, 1)))

push_result_reg(t, ty) == push_temp(preserve_reg_of_type(t, ty), ty, TRUE)

RegResult(f, in, ty, eff) == MOp(f, in, <<To(RegLoc(RegKind(ty)))>>, eff)
stage_op_with_result_reg(t, ty, f, in, eff) ==
  stage_op(push_result_reg(t, ty), RegResult(f, in, ty, eff))
push_op_with_result_reg(t, ty, f, in, eff) ==
  encode_op(push_result_reg(t, ty), RegResult(f, in, ty, eff))
push_op_with_result_slot(t, ty, f, in, eff) ==
  LET u == push_temp(t, ty, FALSE)
  IN stage_op(u, MOp(f, in, <<To(SlotLoc(temp_slot(u.ops, Top(u)), Width(ty)))>>, eff))

-----------------------------------------------------------------------------
(* Control frames and branches.                                             *)

(* A control frame: its kind, type and height; whether it is branched to;    *)
(* for `if` and `else` which branches are reachable, whether the end of      *)
(* `then` is, and the operands and registers at the start.                   *)
Frame(k, bt, h) ==
  [k |-> k, params |-> bt[1], results |-> bt[2], h |-> h, br |-> FALSE, both |-> "both",
   tend |-> FALSE, eops |-> <<>>, eregs |-> NoRegs]
Unreachable(k) == [Frame("unreachable", <<<<>>, <<>>>>, 0) EXCEPT !.both = k]

peek_control(t, depth) == t.frames[Len(t.frames) - depth]
pop_control(t) == [t EXCEPT !.frames = SubSeq(@, 1, Len(@) - 1)]
push_control(t, f) == [t EXCEPT !.frames = Append(@, f)]
branch_to(t, depth) == [t EXCEPT !.frames[Len(t.frames) - depth].br = TRUE]

BranchTys(f) == IF f.k = "loop" THEN f.params ELSE f.results

(* branch_params_regs: how many of the last types travel in registers: as   *)
(* long as each has a register of its own.                                  *)
LenRegs(tys) ==
  LET kinds(n) == {RegKind(tys[i]) : i \in Len(tys) - n + 1..Len(tys)}
      fits(n) == n <= Len(tys) /\ Cardinality(kinds(n) \ {"none"}) = n
  IN Cardinality({n \in 1..3 : \A k \in 1..n : fits(k)})

branch_slot(t, f) == temp_slot(t.ops, f.h + 1)
claims_reg(tys, r) == \E i \in Len(tys) - LenRegs(tys) + 1..Len(tys) : RegKind(tys[i]) = r

RECURSIVE copy_branch_params_regs(_, _, _)
copy_branch_params_regs(t, depth, n) ==
  IF depth = n THEN t
  ELSE copy_branch_params_regs(encode_copy_rx(t, peek(t, depth)), depth + 1, n)

CopyParams(t, n, regs, slot) ==
  copy_branch_params_regs(copy_operands_to_dst(t, Top(t) - n + 1, Top(t) - regs, slot), 0, regs)
copy_branch_params(t, f) == CopyParams(t, Len(BranchTys(f)), LenRegs(BranchTys(f)), branch_slot(t, f))

RequiresCopies(t, f, n, regs) ==
  /\ n # 0
  /\ \/ f.h # Top(t) - n /\ n - regs > 0
     \/ \E d \in regs..n - 1 : peek(t, d).k # "temp" \/ peek(t, d).in_reg
     \/ \E d \in 0..regs - 1 : ~peek(t, d).in_reg
requires_branch_param_copies(t, f) == RequiresCopies(t, f, Len(BranchTys(f)), LenRegs(BranchTys(f)))

RECURSIVE PushParams(_, _, _)
PushParams(t, tys, i) ==
  IF i > Len(tys) THEN t
  ELSE PushParams(push_temp(t, tys[i], i > Len(tys) - LenRegs(tys)), tys, i + 1)
push_branch_params(t, f) ==
  PushParams(trunc(discard_local_regs(t), f.h), BranchTys(f), 1)

-----------------------------------------------------------------------------
(* Marks in the emitted code: how control goes. A mark names the operands   *)
(* and registers that the translator goes on with at a label.               *)

View(t) == [ops |-> t.ops, regs |-> t.regs]

(* A frame begins; the run continues with this view at the start of a loop  *)
(* or of an `else`.                                                         *)
NoView == [ops |-> <<>>, regs |-> NoRegs]
Enter(t, view) == Mark(t, [f |-> "enter", view |-> view])
EnterHere(t) == Enter(t, View(t))
(* A jump to the frame at a depth, and one that is taken on the way. *)
Goto(t, depth, f) ==
  [f |-> "goto", depth |-> depth, loop |-> f.k = "loop", h |-> f.h, n |-> Len(BranchTys(f)),
   view |-> View(push_branch_params(t, f))]
Fork(side) == [f |-> "fork", side |-> side]
(* What an operator of the branch decides: f of the operands, or its negation. *)
Decide(f, in, negated) == [f |-> "decide", cmp |-> f, in |-> in, negated |-> negated]
(* Nothing falls through; the function is left; the `else` label; the end of *)
(* a frame, where a missing `else` passes its parameters on.                 *)
Gone == [f |-> "gone"]
Leave(what, n) == [f |-> "leave", what |-> what, n |-> n]
ElseLabel == [f |-> "else"]
EndLabel(t, passes) == [f |-> "end", view |-> View(t), passes |-> passes]

-----------------------------------------------------------------------------
(* The visits.                                                              *)

(* The instructions with one result that only compute, one of every kind that *)
(* the translator treats alike.                                                *)
Computing(ins, out, fs) == [f \in fs |-> [in |-> ins, out |-> out]]
IntegerComparisons == Computing(<<"i32", "i32">>, "i32", {"i32.eq", "i32.ne", "i32.lt"})
FloatComparisons == Computing(<<"f32", "f32">>, "i32", {"f32.lt"})
IntegerArithmetic == Computing(<<"i32">>, "i32", {"i32.clz"})
                       @@ Computing(<<"i32", "i32">>, "i32", {"i32.add", "i32.div", "i32.shl"})
FloatArithmetic == Computing(<<"f32">>, "f32", {"f32.abs", "f32.neg"})
                     @@ Computing(<<"f32", "f32">>, "f32", {"f32.add"})
Conversions == Computing(<<"f32">>, "i32", {"i32.trunc", "i32.reinterpret"})
                 @@ Computing(<<"i32">>, "f32", {"f32.reinterpret"})
                 @@ Computing(<<"i32">>, "i64", {"i64.extend"})
                 @@ Computing(<<"i64">>, "i32", {"i32.wrap"})
Lanes == Computing(<<"v128", "i32">>, "v128", {"v128.replace"})
           @@ Computing(<<"i32">>, "v128", {"v128.splat"})
           @@ Computing(<<"v128">>, "i32", {"v128.extract"})
LaneArithmetic == Computing(<<"v128">>, "v128", {"v128.not"})
                    @@ Computing(<<"v128">>, "i32", {"v128.any"})
                    @@ Computing(<<"v128", "v128">>, "v128", {"v128.add"})
                    @@ Computing(<<"v128", "i32">>, "v128", {"v128.shl"})
Sig == IntegerComparisons @@ FloatComparisons @@ IntegerArithmetic @@ FloatArithmetic @@ Conversions
         @@ Lanes @@ LaneArithmetic
MayTrap == {"i32.div", "i32.trunc"}

(* The constant operands for which an instruction is known to trap. *)
Traps(f, args) ==
  \/ f = "i32.div" /\ args[2] = Const(0)
  \/ f = "i32.trunc" /\ args[1] = Const(1)

(* translate_trap *)
translate_trap(t) ==
  Mark([encode_op(t, MOp("trap", <<>>, <<>>, TRUE)) EXCEPT !.reachable = FALSE], Leave("trap", 0))

(* translate_unary_vt, with try_lower_f32_abs_neg. *)
translate_unary(t, u, f, o, ty) ==
  CASE f = "f32.neg" /\ t.staged.f = "f32.abs" /\ o.in_reg ->
         push_temp(replace_staged(u, [t.staged EXCEPT !.f = "f32.nabs"]), ty, TRUE)
    [] o.k = "imm" -> push_immediate(u, ty, Fold(f, <<o.n>>, Base))
    [] OTHER -> stage_op_with_result_reg(u, ty, f, <<resolve(o)>>, f \in MayTrap)

translate_reinterpret(u, o, ty) ==
  CASE o.in_reg -> push_op_with_result_reg(u, ty, "reinterpret", <<resolve(o)>>, FALSE)
    [] o.k = "local" -> push_local(u, o.n, ty)
    [] o.k = "temp" /\ ~o.in_reg -> push_temp(u, ty, FALSE)
    [] OTHER -> push_immediate(u, ty, o.n)

(* visit_i64_extend_i32_u: an i32 is kept zero extended. *)
visit_i64_extend_i32_u(u, o) == push_operand(u, [o EXCEPT !.ty = "i64"])

(* fuse_commutative_cmp_with: eq and ne with zero on a staged comparison. *)
can_fuse_cmp_with(t, f, lhs, rhs) ==
  /\ f \in {"i32.eq", "i32.ne"} /\ rhs.k = "imm" /\ rhs.n = 0
  /\ lhs.in_reg /\ IsCmp(t.staged.f)
fuse_commutative_cmp_with(t, f) ==
  replace_staged(push_temp(t, "i32", TRUE),
                 IF f = "i32.eq" THEN [t.staged EXCEPT !.f = Negated[@]] ELSE t.staged)

(* translate_binary_commutative_vt: sorted as register, slot, immediate. A  *)
(* register with itself is doubled by `add`; for the others the second      *)
(* operand is then a local, read from its slot.                             *)
reg_operand_to_slot(o) == SlotLoc(local_to_slot(o.n), 1)
Swaps(a, b) == (b.in_reg /\ ~a.in_reg) \/ (a.k = "imm" /\ b.k # "imm")
CommutativeOf(t, u, f, a, b, l, r, ty) ==
  CASE a.k = "imm" /\ b.k = "imm" -> push_immediate(u, ty, Fold(f, <<a.n, b.n>>, Base))
    [] r.k = "imm" /\ can_fuse_cmp_with(t, f, a, r) -> fuse_commutative_cmp_with(u, f)
    [] a.in_reg /\ b.in_reg ->
         stage_op_with_result_reg([u EXCEPT !.panic = @ \/ (f # "i32.add" /\ b.k # "local")], ty,
                                  IF f = "i32.add" THEN "i32.dbl" ELSE f,
                                  IF f = "i32.add" THEN <<resolve(a)>> ELSE <<resolve(a), reg_operand_to_slot(b)>>,
                                  FALSE)
    [] OTHER -> stage_op_with_result_reg(u, ty, f, <<resolve(l), resolve(r)>>, FALSE)
translate_binary_commutative(t, u, f, a, b, ty) ==
  CommutativeOf(t, u, f, a, b, IF Swaps(a, b) THEN b ELSE a, IF Swaps(a, b) THEN a ELSE b, ty)

(* translate_binary_vt and translate_binary_consteval. *)
translate_binary(u, f, a, b, ty) ==
  CASE f = "i32.shl" /\ b.k = "imm" /\ b.n = 0 -> push_operand(u, a)
    [] a.k = "imm" /\ b.k = "imm" -> push_immediate(u, ty, Fold(f, <<a.n, b.n>>, Base))
    [] OTHER -> stage_op_with_result_reg(
                  [u EXCEPT !.panic = @ \/ (a.in_reg /\ b.in_reg /\ b.k # "local")], ty, f,
                  <<resolve(a), IF a.in_reg /\ b.in_reg THEN reg_operand_to_slot(b) ELSE resolve(b)>>,
                  f \in MayTrap)

(* The operands of an operator that reads slots only, copied in `order`. *)
RECURSIVE CopyAll(_, _, _)
CopyAll(t, os, order) ==
  IF order = <<>> THEN t
  ELSE CopyAll(copy_operand_to_slot(t, os[Head(order)]), os, Tail(order))
InSlots(os) == [i \in DOMAIN os |-> slot_of(os[i])]
Peeked(t, n) == [i \in 1..n |-> peek(t, n - i)]

(* translate_simd_splat, _replace_lane, _shift, _unary, _binary, and          *)
(* translate_extract_lane: a v128 is never in a register. An i32 operand is   *)
(* read where it is; a shift by zero is no operator.                          *)
SimdIns(os) == [i \in DOMAIN os |-> IF os[i].ty = "v128" THEN slot_of(os[i]) ELSE resolve(os[i])]
SimdOrder(os) == IF os[1].ty # "v128" THEN <<>> ELSE IF Len(os) = 2 /\ os[2].ty = "v128" THEN <<1, 2>> ELSE <<1>>
translate_simd(u, f, os, ty) ==
  CASE f # "v128.splat" /\ \A i \in DOMAIN os : os[i].k = "imm" ->
         push_immediate(u, ty, Fold(f, [i \in DOMAIN os |-> os[i].n], Base))
    [] f = "v128.shl" /\ os[2].k = "imm" /\ os[2].n = 0 -> push_operand(u, os[1])
    [] ty = "i32" -> push_op_with_result_reg([u EXCEPT !.panic = @ \/ os[1].in_reg], ty, f, SimdIns(os), FALSE)
    [] OTHER -> push_op_with_result_slot(CopyAll(u, os, SimdOrder(os)), ty, f, SimdIns(os), FALSE)

(* An instruction that only computes, or traps on its constant operands. *)
KnownArgs(os) == [i \in DOMAIN os |-> IF os[i].k = "imm" THEN Const(os[i].n) ELSE Junk]
ComputeOf(t, u, f, os, sig) ==
  CASE Traps(f, KnownArgs(os)) -> translate_trap(u)
    [] f \in {"i32.reinterpret", "f32.reinterpret"} -> translate_reinterpret(u, os[1], sig.out)
    [] f = "i64.extend" -> visit_i64_extend_i32_u(u, os[1])
    [] "v128" \in Range(sig.in) \cup {sig.out} -> translate_simd(u, f, os, sig.out)
    [] f \in Commutative -> translate_binary_commutative(t, u, f, os[1], os[2], sig.out)
    [] OTHER -> IF Len(os) = 1 THEN translate_unary(t, u, f, os[1], sig.out)
                               ELSE translate_binary(u, f, os[1], os[2], sig.out)
visit_compute(t, f) ==
  ComputeOf(t, pop(t, Len(Sig[f].in)), f, Peeked(t, Len(Sig[f].in)), Sig[f])

(* visit_i32_eqz: a zero is pushed and compared with. *)
visit_i32_eqz(t) == translate_binary_commutative(t, pop(t, 1), "i32.eq", peek(t, 0),
                                                 Operand(<<Imm("i32", 0)>>, NoRegs, 1), "i32")

visit_const(t, ty, c) == push_immediate(t, ty, c)

visit_drop_staged(t) == drop_staged(pop(t, 1))
(* visit_drop: the staged operator is committed. *)
visit_drop(t) == commit_staged(pop(t, 1))

(* try_fuse_select *)
can_fuse_select(t, cond) ==
  /\ t.staged.f \in {"i32.eq", "i32.ne"} /\ t.staged.in[2] = ImmLoc(0, 1)
  /\ t.staged.out[1].l = cond

(* translate_select, the select operators and encode_v128_select. *)
copy_operand_to_reg(t, o) ==
  IF o.in_reg THEN push_result_reg(t, o.ty)
  ELSE push_op_with_result_reg(t, o.ty, "copy", <<resolve(o)>>, FALSE)
SelectOp(u, c, os) ==
  IF os[1].ty = "v128"
    THEN push_op_with_result_slot(CopyAll(u, os, <<1, 2>>), "v128", "select", <<c>> \o InSlots(os), FALSE)
    ELSE stage_op_with_result_reg([u EXCEPT !.panic = @ \/ (os[1].in_reg /\ os[2].in_reg)],
                                  os[1].ty, "select", <<c, resolve(os[1]), resolve(os[2])>>, FALSE)
SelectConst(u, o, slot) ==
  IF o.ty # "v128" THEN copy_operand_to_reg(u, o)
  ELSE IF resolve(o) = SlotLoc(slot, 2) THEN push_temp(u, o.ty, FALSE)
  ELSE push_op_with_result_slot(u, o.ty, "copy", <<resolve(o)>>, FALSE)
translate_select(t, u, a, b, c) ==
  CASE is_same(a, b) -> push_operand(u, a)
    [] ~is_same(a, b) /\ c.k = "imm" -> SelectConst(u, IF c.n # 0 THEN a ELSE b, a.slot)
    [] OTHER -> SelectOp(IF can_fuse_select(t, resolve(c)) THEN drop_staged(u) ELSE u, resolve(c),
                         IF can_fuse_select(t, resolve(c)) /\ t.staged.f = "i32.eq" THEN <<b, a>> ELSE <<a, b>>)
visit_select(t) == translate_select(t, pop(t, 3), peek(t, 2), peek(t, 1), peek(t, 0))

-----------------------------------------------------------------------------
(* Locals, globals, memory and tables.                                      *)

visit_local_get(t, i) == push_local(t, i, LocalTys[i])

(* fused_local_set: the staged operator writes the local too, or instead of *)
(* the temporary it was to write.                                           *)
fused_local_set(t, slot, o) ==
  CASE o.in_reg /\ can_fuse_copy_sr(t, o.ty) -> fuse_copy_sr(t, slot)
    [] /\ ~(o.in_reg /\ can_fuse_copy_sr(t, o.ty))
       /\ t.staged.f # "none" /\ Len(t.staged.out) = 1
       /\ t.staged.out[1].l.k = "slot" /\ t.staged.out[1].l.n >= LocalCells
       /\ t.staged.out[1].l = resolve(o) -> [t.staged EXCEPT !.out[1].l.n = slot]
    [] OTHER -> NoOp

(* translate_local_set: registers afterwards follow the value or forget. *)
LinkTo(t, o, i) ==
  LET r == RegKind(o.ty)
  IN CASE r = "none" -> t
       [] o.in_reg -> [t EXCEPT !.regs[r] = LocalLink(i)]
       [] OTHER -> [t EXCEPT !.regs[r] = IF is_local_in_any_reg(t.regs, i) THEN NoLink ELSE @]
LocalSet(t, i, o, fused) ==
  IF fused = NoOp
    THEN encode_op(LinkTo(preserve_locals(t, i), o, i),
                   Copy(resolve(o), SlotLoc(local_to_slot(i), Width(o.ty))))
    ELSE encode_op(LinkTo(preserve_locals(drop_staged(t), i), o, i), fused)
SetsItself(o, i) == o.k = "local" /\ o.n = i
translate_local_set(t, i, o) ==
  IF SetsItself(o, i) THEN t ELSE LocalSet(t, i, o, fused_local_set(t, local_to_slot(i), o))

visit_local_set(t, i) == translate_local_set(pop(t, 1), i, peek(t, 0))

Teed(t, i, o, fused) ==
  CASE fused -> push_local(t, i, o.ty)
    [] ~fused /\ SetsItself(o, i) -> push_operand(t, o)
    [] ~fused /\ o.k = "temp" /\ ~o.in_reg -> push_temp(t, o.ty, FALSE)
    [] ~fused /\ o.k = "imm" /\ o.ty # "v128" -> push_immediate(t, o.ty, o.n)
    [] OTHER -> push_local(t, i, o.ty)
visit_local_tee(t, i) ==
  Teed(visit_local_set(t, i), i, peek(t, 0),
       ~SetsItself(peek(t, 0), i) /\ fused_local_set(t, local_to_slot(i), peek(t, 0)) # NoOp)

(* The instructions with an effect, and wide arithmetic: what they take and *)
(* what they give.                                                          *)
Doing(ins, outs, fs) == [f \in fs |-> [in |-> ins, out |-> outs]]
Bulk == {"memory.copy", "memory.init", "table.copy", "table.init"}
EffectSig ==
  Doing(<<>>, <<"i32">>, {"global.get", "memory.size", "table.size"})
    @@ Doing(<<>>, <<"f32">>, {"global.get_f32"})
    @@ Doing(<<>>, <<"v128">>, {"global.get_v128"})
    @@ Doing(<<>>, <<"funcref">>, {"ref.func"})
    @@ Doing(<<"i32">>, <<"i32">>, {"i32.load", "i32.load_far", "memory.grow"})
    @@ Doing(<<"i32">>, <<"f32">>, {"f32.load"})
    @@ Doing(<<"i32">>, <<"v128">>, {"v128.load", "v128.load_splat"})
    @@ Doing(<<"i32", "v128">>, <<"v128">>, {"v128.load_lane"})
    @@ Doing(<<"i32">>, <<"funcref">>, {"table.get"})
    @@ Doing(<<"funcref", "i32">>, <<"i32">>, {"table.grow"})
    @@ Doing(<<"i32">>, <<>>, {"global.set"})
    @@ Doing(<<"f32">>, <<>>, {"global.set_f32"})
    @@ Doing(<<"v128">>, <<>>, {"global.set_v128"})
    @@ Doing(<<"i32", "i32">>, <<>>, {"i32.store", "i32.store_far"})
    @@ Doing(<<"i32", "f32">>, <<>>, {"f32.store"})
    @@ Doing(<<"i32", "v128">>, <<>>, {"v128.store", "v128.store_lane"})
    @@ Doing(<<"i32", "funcref">>, <<>>, {"table.set"})
    @@ Doing(<<"i32", "i32", "i32">>, <<>>, Bulk \cup {"memory.fill"})
    @@ Doing(<<"i32", "funcref", "i32">>, <<>>, {"table.fill"})
    @@ Doing(<<>>, <<>>, {"data.drop", "elem.drop"})
    @@ Doing(<<"i64", "i64">>, <<"i64", "i64">>, WideProducts)
    @@ Doing(<<"i64", "i64", "i64", "i64">>, <<"i64", "i64">>, WideSums)

(* choose_store_op_vt: with both operands in registers only the near i32    *)
(* store reads the value's slot, and only a float store has an operator.    *)
StoresBoth(f, os) == os[1].in_reg /\ os[2].in_reg /\ f # "f32.store"
choose_store_op_strict(t, f, os) ==
  encode_op([t EXCEPT !.panic = @ \/ StoresBoth(f, os)], MOp(f, <<resolve(os[1]), resolve(os[2])>>, <<>>, TRUE))
choose_store_op(t, f, os) ==
  encode_op([t EXCEPT !.panic = @ \/ (StoresBoth(f, os) /\ (f = "i32.store_far" \/ os[2].k # "local"))],
            MOp(f, <<resolve(os[1]), IF StoresBoth(f, os) THEN reg_operand_to_slot(os[2]) ELSE resolve(os[2])>>,
                <<>>, TRUE))

(* translate_v128_load_modify and _load_lane: the lane is loaded into the   *)
(* register first.                                                          *)
LoadLane(t, f, os) == encode_op(preserve_reg_of_type(t, "i32"), RegResult(f, <<resolve(os[1])>>, "i32", TRUE))
translate_v128_load_lane(t, f, os) ==
  IF f = "v128.load_lane"
    THEN push_op_with_result_slot(CopyAll(LoadLane(t, f, os), os, <<2>>), "v128", "v128.replace",
                                  <<slot_of(os[2]), RegLoc("ireg")>>, FALSE)
    ELSE push_op_with_result_slot(LoadLane(t, f, os), "v128", "v128.splat", <<RegLoc("ireg")>>, FALSE)

(* translate_v128_store_lane: the lane of a constant is stored as a scalar. *)
translate_v128_store_lane(t, f, os) ==
  IF os[2].k = "imm" THEN encode_op(t, MOp(f, <<resolve(os[1]), resolve(os[2])>>, <<>>, TRUE))
  ELSE encode_op(copy_immediate_to_slot(t, os[1]), MOp(f, <<imm_slot_of(os[1]), resolve(os[2])>>, <<>>, TRUE))

(* translate_i64_mul_wide_sx and try_opt_i64_mul_wide_sx: a factor of zero   *)
(* or, unsigned, of one needs no operator.                                  *)
Push2(t, tys, in, f) ==
  encode_op(PushTemps(t, tys),
            MOp(f, in, [i \in 1..2 |-> [l |-> SlotLoc(temp_slot(t.ops, Top(t) + 1) + i - 1, 1), n |-> i]], FALSE))
MulByOne(t, o) ==
  push_immediate(IF o.k # "temp" THEN push_operand(t, o)
                 ELSE encode_copy_sx(push_operand(t, o), temp_slot(t.ops, Top(t) + 1), o), "i64", 0)
ByConst(os, c) == \E i \in 1..2 : os[i].k = "imm" /\ os[i].n = c
translate_i64_mul_wide(t, f, os) ==
  CASE \A i \in 1..2 : os[i].k = "imm" ->
         push_immediate(push_immediate(t, "i64", (os[1].n * os[2].n) % Base), "i64", 0)
    [] ByConst(os, 0) /\ \E i \in 1..2 : os[i].k # "imm" ->
         push_immediate(push_immediate(t, "i64", 0), "i64", 0)
    [] ByConst(os, 1) /\ f = "i64.mul_wide_u" /\ \E i \in 1..2 : os[i].k # "imm" ->
         MulByOne(t, IF os[1].k = "imm" THEN os[2] ELSE os[1])
    [] OTHER -> Push2(CopyAll(t, os, <<1, 2>>), <<"i64", "i64">>, InSlots(os), f)

(* translate_i64_binop128: the right operands are copied first. *)
translate_i64_binop128(t, f, os) ==
  IF \A i \in 1..4 : os[i].k = "imm"
    THEN LET c == [i \in 1..4 |-> Const(os[i].n)]
         IN push_immediate(push_immediate(t, "i64", WideSum(f, 1, c, Base).n), "i64", WideSum(f, 2, c, Base).n)
    ELSE Push2(CopyAll(t, os, <<3, 4, 1, 2>>), <<"i64", "i64">>, InSlots(os), f)

GrowsByZero(f, os) == f \in {"memory.grow", "table.grow"} /\ os[Len(os)].k = "imm" /\ os[Len(os)].n = 0
SizeOf(f) == IF f = "memory.grow" THEN "memory.size" ELSE "table.size"
EffectOf(u, f, os, ins, out) ==
  CASE f \in {"global.get", "global.get_f32", "ref.func"} -> push_op_with_result_reg(u, out[1], f, ins, TRUE)
    [] f = "global.get_v128" -> push_op_with_result_slot(u, out[1], f, ins, TRUE)
    [] f \in {"memory.size", "table.size", "table.get", "i32.load", "i32.load_far", "f32.load"} ->
         stage_op_with_result_reg(u, out[1], f, ins, TRUE)
    [] f \in {"memory.grow", "table.grow"} ->
         IF GrowsByZero(f, os) THEN stage_op_with_result_reg(u, out[1], SizeOf(f), <<>>, TRUE)
         ELSE stage_op_with_result_reg(CopyAll(u, os, [i \in DOMAIN os |-> i]), out[1], f, InSlots(os), TRUE)
    [] f = "v128.load" ->
         push_op_with_result_slot(copy_immediate_to_slot(u, os[1]), out[1], f, <<imm_slot_of(os[1])>>, TRUE)
    [] f \in {"v128.load_lane", "v128.load_splat"} -> translate_v128_load_lane(u, f, os)
    [] f \in {"i32.store", "i32.store_far", "f32.store"} -> choose_store_op(u, f, os)
    [] f = "v128.store" ->
         encode_op(copy_operand_to_slot(copy_immediate_to_slot(u, os[1]), os[2]),
                   MOp(f, <<imm_slot_of(os[1]), slot_of(os[2])>>, <<>>, TRUE))
    [] f = "v128.store_lane" -> translate_v128_store_lane(u, f, os)
    [] f \in {"global.set_v128", "memory.fill", "table.fill"} \cup Bulk ->
         encode_op(CopyAll(u, os, IF f = "memory.fill" THEN <<1, 3, 2>> ELSE [i \in DOMAIN os |-> i]),
                   MOp(f, InSlots(os), <<>>, TRUE))
    [] f \in WideProducts -> translate_i64_mul_wide(u, f, os)
    [] f \in WideSums -> translate_i64_binop128(u, f, os)
    [] OTHER -> encode_op([u EXCEPT !.panic = @ \/ (Len(os) = 2 /\ os[1].in_reg /\ os[2].in_reg)],
                          MOp(f, ins, <<>>, TRUE))
visit_effect(t, f) ==
  LET os == Peeked(t, Len(EffectSig[f].in))
  IN EffectOf(pop(t, Len(EffectSig[f].in)), f, os, [i \in DOMAIN os |-> resolve(os[i])], EffectSig[f].out)

-----------------------------------------------------------------------------
(* Calls.                                                                   *)

(* adjust_stack_for_call and the call: registers are spilled, the parameters *)
(* copied to their own cells, where the results will be.                     *)
CopyToTemp(t, n, skip) ==
  IF n = 0 THEN t
  ELSE copy_operands_to_dst(t, Top(t) - skip - n + 1, Top(t) - skip,
                            temp_slot(t.ops, Top(t) - skip - n + 1))
SlotsAt(tys, at) == [i \in DOMAIN tys |-> SlotLoc(at + Cells(SubSeq(tys, 1, i - 1)), Width(tys[i]))]

adjust_stack_for_call(t, ty) ==
  PushTemps(pop(CopyToTemp(preserve_regs(t), Len(ty[1]), 0), Len(ty[1])), ty[2])
CallOp(f, ty, at, extra) ==
  [MOp(f, SlotsAt(ty[1], at) \o extra,
       [i \in DOMAIN ty[2] |-> [l |-> SlotsAt(ty[2], at)[i], n |-> i]], TRUE) EXCEPT !.over = at]

translate_call(t, f, ty, extra) ==
  encode_op(adjust_stack_for_call(t, ty), CallOp(f, ty, temp_slot(t.ops, Top(t) - Len(ty[1]) + 1), extra))
translate_call_indirect(t, f, ty, index) ==
  translate_call(copy_immediate_to_slot(pop(t, 1), index), f, ty, <<imm_slot_of(index)>>)

Indirect == {"call_indirect", "return_call_indirect"}
visit_call(t, f, ty) ==
  IF f \in Indirect THEN translate_call_indirect(t, f, ty, peek(t, 0)) ELSE translate_call(t, f, ty, <<>>)

(* visit_return_call and visit_return_call_indirect *)
visit_return_call(t, f, ty) == Mark([visit_call(t, f, ty) EXCEPT !.reachable = FALSE], Leave("", 0))

-----------------------------------------------------------------------------
(* Control.                                                                 *)

(* fused_cmp_branch: the staged comparison becomes the branch. *)
can_fuse_cmp_branch(t, c) ==
  IsCmp(t.staged.f) /\ resolve(c) = RegLoc("ireg")

(* encode_br_if: the branch on condition c, negated for eqz. *)
encode_br_if(t, c, eqz) ==
  IF can_fuse_cmp_branch(t, c)
    THEN Mark(drop_staged(t), Decide(IF eqz THEN Negated[t.staged.f] ELSE t.staged.f, t.staged.in, eqz))
    ELSE encode_op(t, Decide(IF eqz THEN "i32.eq" ELSE "i32.ne", <<resolve(c), ImmLoc(0, 1)>>, eqz))

visit_unreachable(t) == translate_trap(t)

(* preserve_pure_locals: a returned local goes to its own cells unless it is *)
(* in a register or already where the caller expects it.                     *)
RECURSIVE preserve_pure_locals(_, _, _)
preserve_pure_locals(t, depth, slot) ==
  LET o == peek(t, depth)
      moves == o.k = "local" /\ ~o.in_reg /\ resolve(o).n # slot
  IN IF depth < 0 THEN t
     ELSE preserve_pure_locals(
            IF moves THEN encode_op(ToTemp(t, Top(t) - depth), Copy(resolve(o), SlotLoc(o.slot, Width(o.ty)))) ELSE t,
            depth - 1, slot + Width(o.ty))

(* encode_return *)
prepare_return(t, n) ==
  CASE n = 0 -> t
    [] n = 1 -> encode_copy_sx(t, 0, peek(t, 0))
    [] OTHER -> copy_operands_to_dst(preserve_pure_locals(t, n - 1, 0), Top(t) - n + 1, Top(t), 0)
encode_return(t) ==
  Mark(encode_op(prepare_return(t, Len(t.results)), MOp("return", SlotsAt(t.results, 0), <<>>, TRUE)),
       Leave("return", Len(t.results)))
visit_return(t) == [pop(encode_return(t), Len(t.results)) EXCEPT !.reachable = FALSE]

visit_block(t, bt) ==
  LET n == Len(bt[1])
  IN Enter(push_control(preserve_temp_regs(preserve_all_locals(t, n), n), Frame("block", bt, Top(t) - n)),
           NoView)

visit_loop(t, bt) ==
  LET n == Len(bt[1])
      f == Frame("loop", bt, Top(t) - n)
  IN EnterHere(push_control(push_branch_params(commit_staged(
       preserve_all_locals(copy_branch_params(preserve_temp_regs(t, n), f), n)), f), f))

(* visit_if: a constant condition makes one of the two branches the only one. *)
IfFrame(t, bt) ==
  LET n == Len(bt[1])
  IN [Frame("if", bt, Top(t) - n) EXCEPT !.eops = SubSeq(t.ops, Top(t) - n + 1, Top(t)), !.eregs = t.regs]
OnlyBranch(t, bt, taken) ==
  Enter(push_control([t EXCEPT !.reachable = taken],
                     [IfFrame(t, bt) EXCEPT !.both = IF taken THEN "then" ELSE "else"]), NoView)
BothBranches(t, bt, f, in) == EnterHere(push_control(encode_op(t, Decide(f, in, TRUE)), IfFrame(t, bt)))
IfPreserves(t, n) == preserve_temp_regs(preserve_all_locals(t, n), n)
visit_if(t, bt) ==
  LET c == peek(t, 0)
  IN CASE c.k = "imm" -> OnlyBranch(IfPreserves(pop(t, 1), Len(bt[1])), bt, c.n # 0)
       [] c.k # "imm" /\ can_fuse_cmp_branch(t, c) ->
            BothBranches(IfPreserves(drop_staged(pop(t, 1)), Len(bt[1])), bt, Negated[t.staged.f], t.staged.in)
       [] OTHER -> BothBranches(IfPreserves(pop(t, 1), Len(bt[1])), bt, "i32.eq", <<resolve(c), ImmLoc(0, 1)>>)

(* push_else_operands *)
RECURSIVE PushOperands(_, _)
PushOperands(t, os) ==
  IF os = <<>> THEN t
  ELSE PushOperands(PushAs(t, Head(os), Head(os).reg), Tail(os))
push_else_operands(t, f) == IF f.both = "both" THEN PushOperands(trunc(t, f.h), f.eops) ELSE t

(* visit_else: from the end of `then` to the end of `if`, the `else` label,  *)
(* and the operands and registers of the start.                             *)
EndThen(t, f) ==
  IF f.both = "both" /\ t.reachable
    THEN Mark(encode_op(branch_to(copy_branch_params(t, f), 0), Goto(t, 0, f)), Gone) ELSE t
ElseFrame(f, tend) == [f EXCEPT !.k = "else", !.tend = tend, !.eops = <<>>, !.eregs = NoRegs]
BeginElse(t, f, tend) ==
  LET u == IF f.both = "then" THEN t ELSE [push_else_operands(t, f) EXCEPT !.regs = f.eregs]
  IN [push_control(pop_control(u), ElseFrame(peek_control(u, 0), tend)) EXCEPT !.reachable = f.both # "then"]
visit_else(t) ==
  LET f == peek_control(t, 0)
  IN IF f.k = "unreachable" THEN push_control(pop_control(t), Unreachable("else"))
     ELSE IF f.both = "both" THEN BeginElse(encode_op(EndThen(t, f), ElseLabel), f, t.reachable)
     ELSE BeginElse(t, f, t.reachable)

(* The end of a frame: its label is pinned where the run goes on with the    *)
(* operands of t.                                                            *)
EndFrame(t, passes) == encode_op(t, EndLabel(t, passes))

(* translate_end_block, and the return at the end of the function. *)
ReturnAtEnd(t) == IF t.reachable /\ t.frames = <<>> THEN encode_return(t) ELSE t
translate_end_block_dead(t, f) ==
  ReturnAtEnd(EndFrame(IF ~f.br THEN t
                       ELSE push_branch_params(IF t.reachable THEN copy_branch_params(t, f) ELSE t, f), FALSE))
translate_end_block(t, f) ==
  ReturnAtEnd([EndFrame(IF ~f.br THEN t
                        ELSE push_branch_params(IF t.reachable THEN copy_branch_params(t, f) ELSE t, f), FALSE)
               EXCEPT !.reachable = @ \/ f.br])

(* translate_end_if_or_else_only *)
translate_end_if_or_else_only(t, f, endReachable) ==
  [EndFrame(IF ~f.br THEN t
            ELSE push_branch_params(IF endReachable THEN copy_branch_params(t, f) ELSE t, f), FALSE)
   EXCEPT !.reachable = endReachable \/ f.br]

(* translate_end_if: without `else` the parameters are the results. *)
translate_end_if(t, f) ==
  LET results == f.results # <<>>
      u == IF results THEN encode_op(EndThen(t, f), ElseLabel) ELSE t
      v == push_else_operands(pop_control(u), f)
      w == IF results THEN copy_branch_params(v, f) ELSE v
  IN [EndFrame(push_branch_params(w, f), ~results) EXCEPT !.reachable = TRUE]

(* translate_end_else *)
translate_end_else(t, f) ==
  [EndFrame(push_branch_params(IF t.reachable THEN copy_branch_params(t, f) ELSE t, f), FALSE)
   EXCEPT !.reachable = t.reachable \/ f.tend \/ f.br]

visit_end(t) ==
  LET f == peek_control(t, 0)
      u == pop_control(t)
  IN CASE f.k = "block" -> translate_end_block(u, f)
       [] f.k = "loop" -> Mark(u, EndLabel(u, FALSE))
       [] f.k = "if" /\ f.both = "both" -> translate_end_if(t, f)
       [] f.k = "else" /\ f.both = "both" -> translate_end_else(u, f)
       [] f.k \in {"if", "else"} /\ f.both # "both" ->
            translate_end_if_or_else_only(u, f,
              CASE f.k = "if" -> f.both = "else" \/ t.reachable
                [] f.k = "else" -> IF f.both = "then" THEN f.tend ELSE t.reachable)
       [] f.k = "unreachable" -> EndFrame(u, FALSE)

is_root(t, depth) == depth = Len(t.frames) - 1

visit_br(t, depth) ==
  LET f == peek_control(t, depth)
  IN IF is_root(t, depth) THEN visit_return(t)
     ELSE [Mark(encode_op(branch_to(copy_branch_params(t, f), depth), Goto(t, depth, f)), Gone)
           EXCEPT !.reachable = FALSE]

(* visit_br_if: parameters that are not in place are copied on the way to   *)
(* the target only.                                                         *)
SideCopies(t, f) == copy_branch_params([t EXCEPT !.code = <<>>, !.staged = NoOp], f).code
BranchIf(t, c, depth, f) ==
  IF requires_branch_param_copies(t, f)
    THEN Mark(encode_br_if(t, c, TRUE), Fork(Append(SideCopies(t, f), Goto(t, depth, f))))
    ELSE Mark(encode_br_if(t, c, FALSE), Fork(<<Goto(t, depth, f)>>))
visit_br_if(t, depth) ==
  LET c == peek(t, 0)
  IN CASE c.k = "imm" /\ c.n # 0 -> visit_br(pop(t, 1), depth)
       [] c.k = "imm" /\ c.n = 0 -> pop(t, 1)
       [] OTHER -> BranchIf(branch_to(pop(t, 1), depth), c, depth, peek_control(t, depth))

(* visit_br_table with a target and a default target: the parameters go to   *)
(* their own cells, and from there, unless the targets have equal heights,   *)
(* to those of the target.                                                   *)
CopySpan(from, to) == MOp("copies", from, [i \in DOMAIN to |-> [l |-> to[i], n |-> i]], FALSE)
TableTarget(t, tys, moves, depth, f) ==
  Mark(branch_to(t, depth),
       Fork((IF moves /\ f.h # Top(t) - Len(tys)
               THEN <<CopySpan(SlotsAt(SubSeq(tys, 1, Len(tys) - LenRegs(tys)), temp_slot(t.ops, Top(t) - Len(tys) + 1)),
                               SlotsAt(SubSeq(tys, 1, Len(tys) - LenRegs(tys)), branch_slot(t, f)))>>
               ELSE <<>>) \o <<Goto(t, depth, f)>>))
TableParams(t, n, regs) == copy_branch_params_regs(CopyToTemp(t, n - regs, regs), 0, regs)
BranchTable(t, c, depth, default, tys) ==
  LET keeps == c.in_reg /\ claims_reg(tys, "ireg")
      index == IF keeps THEN SlotLoc(c.slot, 1) ELSE resolve(c)
      moves == Len(tys) # LenRegs(tys) /\ peek_control(t, depth).h # peek_control(t, default).h
      u == encode_op(TableParams(IF keeps THEN encode_copy_sx(t, c.slot, c) ELSE t, Len(tys), LenRegs(tys)),
                     MOp("br_table", <<index>>, <<>>, TRUE))
  IN [Mark(TableTarget(TableTarget(u, tys, moves, depth, peek_control(t, depth)), tys, moves, default,
                       peek_control(t, default)), Gone) EXCEPT !.reachable = FALSE]
visit_br_table(t, depth, default) ==
  LET c == peek(t, 0)
  IN CASE c.k = "imm" -> visit_br(pop(t, 1), IF c.n = 0 THEN depth ELSE default)
       [] c.k # "imm" /\ depth = default -> visit_br(pop(t, 1), default)
       [] OTHER -> BranchTable(pop(t, 1), c, depth, default, BranchTys(peek_control(t, default)))

(* FuncTranslator::new and reset: init_func_params, register_locals and the *)
(* frame of the body, whose end is the function's.                          *)
Fresh(results) ==
  [ops |-> <<>>, regs |-> NoRegs, frames |-> <<Frame("block", <<<<>>, results>>, 0)>>, results |-> results,
   reachable |-> TRUE, staged |-> NoOp, panic |-> FALSE, code |-> <<>>]
=============================================================================
