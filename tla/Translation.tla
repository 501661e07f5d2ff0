---------------------------- MODULE Translation ----------------------------
(***************************************************************************)
(* The translator at work on every function body over a small alphabet,    *)
(* against what the Wasm instructions mean.                                 *)
(*                                                                         *)
(* Beside the translator's state s the model holds a pair m of runs on      *)
(* symbolic values (module SymbolicMachine): a run of the emitted code and  *)
(* a run of the Wasm instructions. A visit advances both, the one by what   *)
(* the translator emits, the other by what the instruction means. When they *)
(* still agree the pair is replaced by the most general pair that agrees    *)
(* (Generic): a state stands for every program that leads to it. At a       *)
(* branch the pair must agree under what the translator assumes at the      *)
(* target; a pair that does not is kept, and violates an invariant.         *)
(***************************************************************************)
EXTENDS Translator

CONSTANTS
  Alphabets,    \* what functions are made of: instructions, locals, types and bounds (see AlphabetType)
  MaxHeight,    \* bound: operands on the stack
  Avoid         \* the situations a run leaves out (see Avoided)

ASSUME TranslationAssumption ==
  /\ MaxHeight \in Nat
  /\ \A a \in Alphabets : a.height \in 0..MaxHeight /\ a.frames \in Nat \ {0} /\ a.locals \subseteq DOMAIN LocalTys

VARIABLES
  fam,          \* the alphabet of the function
  s,            \* the translator
  m             \* the pair of runs

vars == <<fam, s, m>>

Slots == 0..LocalCells + 2 * (MaxHeight + 1) + 2

-----------------------------------------------------------------------------
(* The pair: whether a run is at this point of the code, in what the two     *)
(* differ; cells, registers and log of the code; operands, locals and log of *)
(* the Wasm instructions; and for every control frame the view at its start  *)
(* and the views of the branches to its end.                                 *)

Nowhere(x) == [x EXCEPT !.run = FALSE, !.cell = <<>>, !.reg = <<>>, !.log = <<>>,
                        !.val = <<>>, !.loc = <<>>, !.wlog = <<>>]

Held(x, v) == [p \in DOMAIN v.ops |-> Read(x, resolve(Operand(v.ops, v.regs, p)))]
Locals(x) == [i \in DOMAIN LocalTys |-> Read(x, SlotLoc(local_to_slot(i), Width(LocalTys[i])))]

(* In what the Wasm run x and the code run d differ under a view. *)
Differences(x, d, v) ==
  {what \in {"operands", "locals", "links", "effects"} :
     CASE what = "operands" -> Held(d, v) # x.val
       [] what = "locals" -> Locals(d) # x.loc
       [] what = "links" -> \E r \in Regs : v.regs[r].k = "local" /\ d.reg[r] # x.loc[v.regs[r].n]
       [] what = "effects" -> d.log # x.wlog}

(* The most general pair that agrees: every cell and every register holds a  *)
(* value of its own, but a register linked to a local holds the local's. The *)
(* two-cell values are those of locals, operands and what is staged.         *)
WideAt(v) ==
  {local_to_slot(i) : i \in {j \in DOMAIN LocalTys : Width(LocalTys[j]) = 2}}
  \cup {temp_slot(v.ops, p) : p \in {q \in DOMAIN v.ops : Width(v.ops[q].ty) = 2}}
StagedWideAt(staged) == {l.n : l \in {x \in Range(staged.in) : x.k = "slot" /\ x.w = 2}}
WideCells(at, staged) == staged \cup {k \in at : {k - 1, k, k + 1} \cap staged = {}}
Tokens(x, v, wide) ==
  [x EXCEPT
     !.cell = [k \in Slots |-> IF k \in wide THEN Cell(SlotTok(k), 0, 2)
                               ELSE IF k - 1 \in wide THEN Cell(SlotTok(k - 1), 1, 2)
                               ELSE Cell(SlotTok(k), 0, 1)],
     !.reg = [r \in Regs |-> IF v.regs[r].k = "local" THEN SlotTok(local_to_slot(v.regs[r].n)) ELSE RegTok(r)],
     !.log = <<>>]
Follow(x, d, v) == [x EXCEPT !.run = TRUE, !.val = Held(d, v), !.loc = Locals(d), !.wlog = d.log]
FollowCode(x, v, staged) == Follow(x, Exec(x, staged, Base), v)
Generic(x, v, staged) ==
  FollowCode(Tokens(x, v, WideCells(WideAt(v), StagedWideAt(staged))), v, staged)

-----------------------------------------------------------------------------
(* The run of the emitted code.                                             *)

MarkOf(x, depth) == x.marks[Len(x.marks) - depth]

(* A jump arrives in the state the target assumes, which a forward jump puts *)
(* on record.                                                                *)
Recorded(x, i, v, bad) ==
  CASE bad # {} -> [x EXCEPT !.bad = bad]
    [] bad = {} /\ ~i.loop -> [x EXCEPT !.marks[Len(x.marks) - i.depth].views = @ \cup {v}]
    [] OTHER -> x
ArriveAt(x, i, v) ==
  Recorded(x, i, v, Differences([x EXCEPT !.val = SubSeq(@, 1, i.h) \o SubSeq(@, Len(@) - i.n + 1, Len(@))], x, v))
Arrive(x, i) ==
  IF x.run THEN ArriveAt(x, i, IF i.loop THEN MarkOf(x, i.depth).head ELSE i.view) ELSE x

(* The end of a frame: the run that falls through and those that come by a   *)
(* branch go on with the same operands and registers.                       *)
Joined(x, v, bad) == IF bad # {} THEN [x EXCEPT !.bad = bad] ELSE Generic(x, v, NoOp)
Join(x, v, views) ==
  IF views = {} THEN x
  ELSE Joined(x, v, UNION {Differences(p, p, v) : p \in (IF x.run THEN {x} ELSE {})
                                                      \cup {Generic(x, w, NoOp) : w \in views}})
EndOfFrame(x, i, mark) ==
  Join([x EXCEPT !.marks = SubSeq(@, 1, Len(@) - 1)], i.view,
       mark.views \cup (IF i.passes THEN {mark.head} ELSE {}))

(* The truth of a decision, as the log shows it. *)
Truth(p, negated) == Apply(IF negated THEN "i32.eq" ELSE "i32.ne", <<p, Const(0)>>, Base)
Decided(x, p, negated) == [x EXCEPT !.log = Append(@, Effect("br", <<Truth(p, negated)>>))]

(* Both runs leave the function: they must have had the same effects. *)
Left(x) == IF x.run /\ x.log # x.wlog THEN [x EXCEPT !.bad = {"effects"}] ELSE Nowhere(x)
LeaveBy(x, i) ==
  Left(IF i.what = "" \/ ~x.run THEN x
       ELSE [x EXCEPT !.wlog = Append(@, Effect(i.what, SubSeq(x.val, Len(x.val) - i.n + 1, Len(x.val))))])

Rejoin(x, y) == IF y.bad # {} THEN y ELSE [x EXCEPT !.marks = y.marks]

RECURSIVE RunCode(_, _)
RunItem(x, i) ==
  CASE i.f = "enter" -> [x EXCEPT !.marks = Append(@, [head |-> i.view, views |-> {}])]
    [] i.f = "goto" -> Arrive(x, i)
    [] i.f = "fork" -> Rejoin(x, RunCode(x, i.side))
    [] i.f = "decide" -> IF x.run THEN Decided(x, Apply(i.cmp, Args(x, i.in), Base), i.negated) ELSE x
    [] i.f = "gone" -> Nowhere(x)
    [] i.f = "leave" -> LeaveBy(x, i)
    [] i.f = "else" -> [Generic(x, MarkOf(x, 0).head, NoOp) EXCEPT !.marks[Len(x.marks)].head = NoView]
    [] i.f = "end" -> EndOfFrame(x, i, MarkOf(x, 0))
    [] OTHER -> IF x.run THEN Exec(x, i, Base) ELSE x
RunCode(x, code) ==
  IF code = <<>> \/ x.bad # {} THEN x ELSE RunCode(RunItem(x, Head(code)), Tail(code))

(* The state after a visit. *)
Verdict(x, t, bad) == IF bad # {} THEN [x EXCEPT !.bad = bad] ELSE Generic(x, View(t), t.staged)
Settle(x, t) ==
  IF x.bad # {} THEN x
  ELSE IF ~x.run THEN Nowhere(x)
  ELSE Verdict(x, t, Differences(x, Exec(x, t.staged, Base), View(t)))

-----------------------------------------------------------------------------
(* The run of the Wasm instructions.                                        *)

Taken(x, n) == SubSeq(x.val, Len(x.val) - n + 1, Len(x.val))
Pops(x, n) == [x EXCEPT !.val = SubSeq(@, 1, Len(@) - n)]
Push(x, v) == [x EXCEPT !.val = Append(@, v)]
Log(x, f, args) == [x EXCEPT !.wlog = Append(@, Effect(f, args))]
Replace(x, n, vs) == [x EXCEPT !.val = SubSeq(@, 1, Len(@) - n) \o vs]

Meaning(f) == IF f \in {"i32.reinterpret", "f32.reinterpret", "i64.extend"} THEN "copy" ELSE f
WasmCompute(x, f, args) ==
  IF Traps(f, args) THEN x
  ELSE Replace(IF f \in MayTrap /\ \E i \in DOMAIN args : ~IsConst(args[i]) THEN Log(x, f, args) ELSE x,
               Len(args), <<Apply(Meaning(f), args, Base)>>)

(* Growing by zero is asking for the size; a lane load is a load and the     *)
(* lane's operator.                                                          *)
Zero(f, args) == f \in {"memory.grow", "table.grow"} /\ args[Len(args)] = Const(0)
LaneOf(f, got, args) ==
  CASE f = "v128.load_lane" -> Apply("v128.replace", <<args[2], got>>, Base)
    [] f = "v128.load_splat" -> Apply("v128.splat", <<got>>, Base)
    [] OTHER -> got
Doer(f, args) == IF Zero(f, args) THEN SizeOf(f) ELSE f
Loads(f, args) == IF Zero(f, args) THEN <<>> ELSE IF f = "v128.load_lane" THEN <<args[1]>> ELSE args
WasmEffect(x, f, args, n) ==
  IF f \in WideProducts \cup WideSums
    THEN Replace(x, Len(args), <<Result(f, 1, args, Base), Result(f, 2, args, Base)>>)
    ELSE Replace(Log(x, Doer(f, args), Loads(f, args)), Len(args),
                 IF n = 0 THEN <<>> ELSE <<LaneOf(f, Application(Doer(f, args), Loads(f, args)), args)>>)
WasmCall(x, f, ty, args) ==
  Replace(Log(x, f, args), Len(args), [i \in DOMAIN ty[2] |-> Result(f, i, args, Base)])
WasmDecide(x, c) == IF IsConst(c) THEN Pops(x, 1) ELSE Log(Pops(x, 1), "br", <<Truth(c, FALSE)>>)

CallTakes(f, ty) == ty[1] \o (IF f \in Indirect THEN <<"i32">> ELSE <<>>)

(* An instruction: its name, an index or constant, and a type. *)
Instr(f, n, ty) == [f |-> f, n |-> n, ty |-> ty]
ConstTy == [f \in {"i32.const"} |-> "i32"] @@ [f \in {"f32.const"} |-> "f32"]
             @@ [f \in {"i64.const"} |-> "i64"] @@ [f \in {"v128.const"} |-> "v128"]
             @@ [f \in {"ref.null"} |-> "funcref"]
Wasm(x, i) ==
  CASE i.f \in DOMAIN ConstTy -> Push(x, Const(i.n))
    [] i.f \in DOMAIN Sig -> WasmCompute(x, i.f, Taken(x, Len(Sig[i.f].in)))
    [] i.f = "i32.eqz" -> Replace(x, 1, <<Truth(x.val[Len(x.val)], TRUE)>>)
    [] i.f = "drop" -> Pops(x, 1)
    [] i.f = "select" -> Replace(x, 3, <<Apply("select", <<Taken(x, 1)[1], Taken(x, 3)[1], Taken(x, 2)[1]>>, Base)>>)
    [] i.f = "local.get" -> Push(x, x.loc[i.n])
    [] i.f = "local.set" -> [Pops(x, 1) EXCEPT !.loc[i.n] = x.val[Len(x.val)]]
    [] i.f = "local.tee" -> [x EXCEPT !.loc[i.n] = x.val[Len(x.val)]]
    [] i.f \in DOMAIN EffectSig ->
         WasmEffect(x, i.f, Taken(x, Len(EffectSig[i.f].in)), Len(EffectSig[i.f].out))
    [] i.f \in {"call", "return_call"} \cup Indirect ->
         WasmCall(x, i.f, i.ty, Taken(x, Len(CallTakes(i.f, i.ty))))
    [] i.f \in {"if", "br_if"} -> WasmDecide(x, x.val[Len(x.val)])
    [] i.f = "br_table" -> IF i.n = 0 \/ IsConst(x.val[Len(x.val)]) THEN Pops(x, 1)
                           ELSE Log(Pops(x, 1), "br_table", Taken(x, 1))
    [] OTHER -> x

-----------------------------------------------------------------------------
(* The specification: every function body over the alphabet, one after the  *)
(* other with the same translator.                                          *)

Pair == [run |-> TRUE, bad |-> {}, cell |-> <<>>, reg |-> <<>>, log |-> <<>>,
         val |-> <<>>, loc |-> <<>>, wlog |-> <<>>, marks |-> <<[head |-> NoView, views |-> {}]>>]
Start == Generic(Pair, NoView, NoOp)
Idle == [Fresh(<<>>) EXCEPT !.frames = <<>>]
Init == fam \in Alphabets /\ s = Idle /\ m = Start

(* A visit: the translator's new state, and both runs. *)
Take(t, i) ==
  /\ UNCHANGED fam
  /\ s' = [t EXCEPT !.code = <<>>]
  /\ m' = Settle(RunCode(IF m.run THEN Wasm(m, i) ELSE m, t.code), t)

(* What validation guarantees: the operands are there, above the height of  *)
(* the innermost block, with their types.                                   *)
Takes(tys) ==
  LET n == Top(s) - Len(tys)
  IN /\ n >= peek_control(s, 0).h
     /\ \A i \in DOMAIN tys : s.ops[n + i].ty = tys[i]
Room(out, in) == Top(s) - in + out <= fam.height

(* bail_unreachable: but for blocks nothing is visited in unreachable code. *)
Going == m.bad = {} /\ ~s.panic /\ s.frames # <<>>
Live == Going /\ s.reachable
Depths == 0..Len(s.frames) - 1

(* The situations that a run may leave out. *)
Avoided(what, holds) == what \in Avoid /\ holds
SkipsLocals(t, n) == PreservedLocals(t.ops, n) # {p \in LocalsOn(t.ops) : p <= Top(t) - n}
LosesLocal(t, bt) ==
  \E p \in LocalsOn(t.ops), d \in 0..LenRegs(bt[1]) - 1 :
    /\ p <= Top(t) - Len(bt[1]) /\ Operand(t.ops, t.regs, p).in_reg
    /\ RegKind(t.ops[p].ty) = RegKind(peek(t, d).ty) /\ ~peek(t, d).in_reg
FusesStale(t) == /\ can_fuse_select(t, resolve(peek(t, 0))) /\ peek(t, 0).k # "imm"
                 /\ t.staged.in[1].k = "slot"

StaleElse(t, f) == \E i \in DOMAIN f.eops :
  /\ f.k = "if" /\ f.both = "both" /\ f.eops[i].k = "local"
  /\ is_local_in_reg(t.regs, f.eops[i].ty, f.eops[i].n) /\ ~is_local_in_reg(f.eregs, f.eops[i].ty, f.eops[i].n)

(* Parameters above the height that all targets of a table share. *)
Unmoved(t, d, e, tys) ==
  /\ d # e /\ peek(t, 0).k # "imm" /\ Len(tys) # LenRegs(tys)
  /\ peek_control(t, d).h = peek_control(t, e).h /\ peek_control(t, e).h # Top(t) - 1 - Len(tys)

VisitConst == /\ Live /\ Room(1, 0)
              /\ \E f \in fam.instrs \cap DOMAIN ConstTy, c \in Consts :
                   (f = "ref.null" => c = 0) /\ Take(visit_const(s, ConstTy[f], c), Instr(f, c, <<>>))
VisitCompute == /\ Live
                /\ \E f \in fam.instrs \cap DOMAIN Sig :
                     Takes(Sig[f].in) /\ Take(visit_compute(s, f), Instr(f, 0, <<>>))
VisitEqz == Live /\ "i32.eqz" \in fam.instrs /\ Takes(<<"i32">>) /\ Take(visit_i32_eqz(s), Instr("i32.eqz", 0, <<>>))
VisitDrop == /\ Live /\ "drop" \in fam.instrs
             /\ Top(s) > peek_control(s, 0).h
             /\ Take(visit_drop(s), Instr("drop", 0, <<>>))
VisitSelect == /\ Live /\ "select" \in fam.instrs
               /\ \E ty \in {"i32", "f32", "v128"} : Takes(<<ty, ty, "i32">>)
               /\ ~Avoided("eqz_select", FusesStale(s))
               /\ Take(visit_select(s), Instr("select", 0, <<>>))
VisitLocal == /\ Live
              /\ \E f \in fam.instrs \cap {"local.get", "local.set", "local.tee"}, i \in fam.locals :
                   /\ IF f = "local.get" THEN Room(1, 0) ELSE Takes(<<LocalTys[i]>>)
                   /\ Take(CASE f = "local.get" -> visit_local_get(s, i)
                             [] f = "local.set" -> visit_local_set(s, i)
                             [] f = "local.tee" -> visit_local_tee(s, i), Instr(f, i, <<>>))
VisitEffect == /\ Live
               /\ \E f \in fam.instrs \cap DOMAIN EffectSig :
                    /\ Takes(EffectSig[f].in) /\ Room(Len(EffectSig[f].out), Len(EffectSig[f].in))
                    /\ ~Avoided("store", f = "i32.store_far" /\ peek(s, 0).in_reg /\ peek(s, 1).in_reg)
                    /\ Take(visit_effect(s, f), Instr(f, 0, <<>>))
VisitCall == /\ Live
             /\ \E f \in fam.instrs \cap ({"call", "return_call"} \cup Indirect), ty \in fam.callees :
                  /\ Takes(CallTakes(f, ty)) /\ Room(Len(ty[2]), Len(ty[1]))
                  /\ f \in {"return_call", "return_call_indirect"} => ty[2] = s.results
                  /\ Take(IF f \in {"call", "call_indirect"} THEN visit_call(s, f, ty) ELSE visit_return_call(s, f, ty),
                          Instr(f, 0, ty))
VisitLeave == /\ Live
              /\ \E f \in fam.instrs \cap {"unreachable", "return"} :
                   /\ f = "return" => Takes(s.results)
                   /\ Take(IF f = "return" THEN visit_return(s) ELSE visit_unreachable(s), Instr(f, 0, <<>>))

VisitBlock ==
  /\ Live /\ Len(s.frames) < fam.frames
  /\ \E f \in fam.instrs \cap {"block", "loop"}, bt \in fam.blocks :
       /\ Takes(bt[1]) /\ Room(Len(bt[2]), Len(bt[1]))
       /\ ~Avoided("skip", SkipsLocals(s, Len(bt[1])))
       /\ ~Avoided("loop", f = "loop" /\ LosesLocal(s, bt))
       /\ Take(IF f = "block" THEN visit_block(s, bt) ELSE visit_loop(s, bt), Instr(f, 0, bt))
VisitIf ==
  /\ Live /\ "if" \in fam.instrs /\ Len(s.frames) < fam.frames
  /\ \E bt \in fam.blocks : /\ Takes(Append(bt[1], "i32")) /\ Room(Len(bt[2]), Len(bt[1]) + 1)
                          /\ ~Avoided("skip", SkipsLocals(pop(s, 1), Len(bt[1])))
                          /\ Take(visit_if(s, bt), Instr("if", 0, bt))

(* In unreachable code only the nesting of the blocks is kept. *)
VisitUnreachableBlock ==
  /\ Going /\ ~s.reachable /\ Len(s.frames) < fam.frames
  /\ \E k \in fam.instrs \cap {"block", "loop", "if"} :
       /\ UNCHANGED fam
       /\ s' = push_control(s, Unreachable(k))
       /\ m' = [m EXCEPT !.marks = Append(@, [head |-> NoView, views |-> {}])]

(* The operands at the end of a block are its results. *)
AtEnd(f) == s.reachable => /\ Top(s) = f.h + Len(f.results)
                           /\ Takes(f.results)
VisitElse ==
  /\ Going /\ "if" \in fam.instrs
  /\ \E f \in {peek_control(s, 0)} : AtEnd(f) /\ (f.k = "if" \/ (f.k = "unreachable" /\ f.both = "if"))
  /\ Take(visit_else(s), Instr("else", 0, <<>>))
VisitEnd ==
  /\ Going
  /\ \E f \in {peek_control(s, 0)} : AtEnd(f) /\ (f.k = "if" => f.params = f.results) /\ ~Avoided("end_if", StaleElse(s, f))
  /\ Take(visit_end(s), Instr("end", 0, <<>>))

BranchTakes(depth, more) == Takes(BranchTys(peek_control(s, depth)) \o more)
VisitBr == /\ Live /\ "br" \in fam.instrs
           /\ \E d \in Depths : BranchTakes(d, <<>>) /\ Take(visit_br(s, d), Instr("br", 0, <<>>))
VisitBrIf == /\ Live /\ "br_if" \in fam.instrs
             /\ \E d \in Depths : BranchTakes(d, <<"i32">>) /\ Take(visit_br_if(s, d), Instr("br_if", 0, <<>>))
VisitBrTable == /\ Live /\ "br_table" \in fam.instrs
                /\ \E d, e \in Depths : /\ BranchTakes(e, <<"i32">>)
                                        /\ BranchTys(peek_control(s, d)) = BranchTys(peek_control(s, e))
                                        /\ ~Avoided("br_table", Unmoved(s, d, e, BranchTys(peek_control(s, e))))
                                        /\ Take(visit_br_table(s, d, e), Instr("br_table", d - e, <<>>))

(* FuncTranslator::new: the next function, with the allocations of the last. *)
Reset == /\ m.bad = {} /\ s.frames = <<>>
         /\ fam' \in Alphabets /\ s' = Fresh(fam'.results) /\ m' = Start

Next == \/ VisitConst \/ VisitCompute \/ VisitEqz \/ VisitDrop \/ VisitSelect \/ VisitLocal
        \/ VisitEffect \/ VisitCall \/ VisitLeave
        \/ VisitBlock \/ VisitIf \/ VisitUnreachableBlock \/ VisitElse \/ VisitEnd
        \/ VisitBr \/ VisitBrIf \/ VisitBrTable \/ Reset

Spec == Init /\ [][Next]_vars

-----------------------------------------------------------------------------
(* Properties.                                                              *)

(* Where the translator says an operand lives (Operand::resolve), the code   *)
(* it has emitted has put the operand's value: after every visit, at every   *)
(* branch to a label and at every label where paths meet. The cell of a      *)
(* local holds the local's value whenever it is read again (local.set and    *)
(* local.tee, fused or not), and a register that RegisterMap links to a      *)
(* local holds that local's value over calls, branches and arms of an `if`.  *)
ValuesHeld == m.bad \cap {"operands", "locals", "links"} = {}

(* The emitted code has the effects of the Wasm function, with the same      *)
(* operands and in the same order: no store, call, trap, load or branch      *)
(* decision is lost, doubled or moved by staging, fusing or dropping         *)
(* operators (stage_op, drop_staged, replace_staged).                        *)
EffectsInOrder == "effects" \notin m.bad

(* RegisterMap and the operand stack agree: a register is linked to an       *)
(* operand exactly when that operand is a temporary in this register, so no  *)
(* two operands own one register (alloc_reg and dealloc_reg).                *)
RegistersOwned ==
  \A r \in Regs, p \in DOMAIN s.ops :
    s.regs[r] = TempLink(p) <=> s.ops[p].k = "temp" /\ s.ops[p].reg /\ RegKind(s.ops[p].ty) = r

SkippedPart(f) == (f.k = "if" /\ f.both = "else") \/ (f.k = "else" /\ f.both = "then")

(* Every valid function body is translated, without reaching an              *)
(* `unreachable!()` (choose_store_op_vt), and to its end: where a run of the *)
(* function can be, `reachable` is set, unless the run is beside the arm of  *)
(* an `if` that a constant condition rules out.                              *)
RunsTranslated ==
  /\ ~s.panic
  /\ m.run /\ s.frames # <<>> => s.reachable \/ \E i \in DOMAIN s.frames : SkippedPart(s.frames[i])
=============================================================================
