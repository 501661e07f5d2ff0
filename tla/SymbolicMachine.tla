-------------------------- MODULE SymbolicMachine --------------------------
(***************************************************************************)
(* What the bytecode of the translator computes, on symbolic values: the  *)
(* cells of a stack frame, the three accumulator registers, and the log of *)
(* the effects (loads, stores, calls, traps, branch decisions, returns).  *)
(* A value is a term over tokens; two programs agree when they compute the *)
(* same terms and log the same effects.                                    *)
(***************************************************************************)
EXTENDS Integers, Sequences, FiniteSets

(* A term: an operator, the index of its result and its arguments, as a set *)
(* of <<position, term>>. The arguments of a commutative operator share     *)
(* position 0, so that their order does not matter.                         *)
Term(f, n, args) == [f |-> f, n |-> n, a |-> args]
Const(c)    == Term("const", c, {})
SlotTok(k)  == Term("slot", k, {})
RegTok(r)   == Term(r, 0, {})
Junk        == Term("junk", 0, {})

IsConst(t) == t.f = "const"

Commutative == {"i32.add", "i32.eq", "i32.ne"}

(* The comparisons and their negations (of a float the negation of lt is not ge). *)
Negated == [f \in {"i32.eq", "i32.ne", "i32.lt", "i32.ge", "f32.lt", "f32.nlt"} |->
              CASE f = "i32.eq" -> "i32.ne" [] f = "i32.ne" -> "i32.eq"
                [] f = "i32.lt" -> "i32.ge" [] f = "i32.ge" -> "i32.lt"
                [] f = "f32.lt" -> "f32.nlt" [] f = "f32.nlt" -> "f32.lt"]
IsCmp(f) == f \in DOMAIN Negated

Application(f, args) ==
  Term(f, 1, {<<IF f \in Commutative THEN 0 ELSE i, args[i]>> : i \in DOMAIN args})

(* Constant folding, modulo the number of constants of the model. *)
Fold(f, c, base) ==
  CASE f = "i32.eq" -> IF c[1] = c[2] THEN 1 ELSE 0
    [] f = "i32.ne" -> IF c[1] # c[2] THEN 1 ELSE 0
    [] f \in {"i32.lt", "f32.lt"} -> IF c[1] < c[2] THEN 1 ELSE 0
    [] f \in {"i32.ge", "f32.nlt"} -> IF c[1] >= c[2] THEN 1 ELSE 0
    [] f = "i32.div" -> c[1] \div c[2]
    [] f \in {"i32.shl", "v128.shl"} -> (c[1] * (c[2] + 1)) % base
    [] Len(c) = 2 -> (c[1] + c[2]) % base
    [] f \in {"v128.splat", "v128.extract"} -> c[1]
    [] OTHER -> (base - c[1]) % base
Folds == {"i32.add", "i32.eq", "i32.ne", "i32.lt", "i32.ge", "i32.div", "i32.shl", "i32.clz",
          "i32.trunc", "i32.wrap", "f32.abs", "f32.neg", "f32.nabs", "f32.add", "f32.lt", "f32.nlt",
          "v128.not", "v128.add", "v128.shl", "v128.splat", "v128.extract", "v128.any",
          "v128.replace"}

(* eq and ne of a comparison with zero are the comparison negated or itself. *)
ZeroCmp(t, f) == IF f = "i32.eq" THEN [t EXCEPT !.f = Negated[t.f]] ELSE t
OfZero(args) == {i \in DOMAIN args : args[i] = Const(0)}
OtherArg(args) == args[IF 1 \in OfZero(args) THEN 2 ELSE 1]

(* A select on a comparison with zero is a select on the compared value. *)
NotEqualsZero(c) == c.f \in {"i32.eq", "i32.ne"} /\ \E p, q \in c.a : p[2] = Const(0) /\ q[2] # Const(0)
Selected(c, a, b) ==
  Application("select", <<(CHOOSE p \in {q \in c.a : q[2] # Const(0)} : TRUE)[2],
                          IF c.f = "i32.eq" THEN b ELSE a, IF c.f = "i32.eq" THEN a ELSE b>>)

(* What an operator computes. Reinterpretations, zero extensions and copies *)
(* keep the bits; "i32.dbl" is the multiplication by 2 that `add` of a      *)
(* register with itself becomes; neg of abs is nabs.                        *)
Apply(f, args, base) ==
  CASE f \in {"copy", "reinterpret", "extend"} -> args[1]
    [] f \in Folds /\ \A i \in DOMAIN args : IsConst(args[i]) ->
         Const(Fold(f, [i \in DOMAIN args |-> args[i].n], base))
    [] f \in {"i32.shl", "v128.shl"} /\ args[2] = Const(0) -> args[1]
    [] f = "i32.dbl" -> Application("i32.add", <<args[1], args[1]>>)
    [] f \in {"i32.eq", "i32.ne"} /\ OfZero(args) # {} /\ IsCmp(OtherArg(args).f) ->
         ZeroCmp(OtherArg(args), f)
    [] f = "f32.neg" /\ args[1].f = "f32.abs" -> [args[1] EXCEPT !.f = "f32.nabs"]
    [] f = "select" /\ IsConst(args[1]) -> IF args[1].n # 0 THEN args[2] ELSE args[3]
    [] f = "select" /\ args[2] = args[3] -> args[2]
    [] f = "select" /\ NotEqualsZero(args[1]) -> Selected(args[1], args[2], args[3])
    [] OTHER -> Application(f, args)

WideProducts == {"i64.mul_wide_s", "i64.mul_wide_u"}
WideSums == {"i64.add128", "i64.sub128"}

(* The halves of a wide product: of a factor zero, or unsigned of a factor one. *)
WideProduct(f, n, args, base) ==
  LET consts == {i \in 1..2 : IsConst(args[i])}
  IN CASE consts = {1, 2} -> Const(IF n = 1 THEN (args[1].n * args[2].n) % base ELSE 0)
       [] consts # {1, 2} /\ Const(0) \in {args[1], args[2]} -> Const(0)
       [] consts # {1, 2} /\ Const(1) \in {args[1], args[2]} /\ f = "i64.mul_wide_u" ->
            IF n = 2 THEN Const(0) ELSE args[IF 1 \in consts THEN 2 ELSE 1]
       [] OTHER -> [Application(f, args) EXCEPT !.n = n]

(* The halves of a wide sum or difference. *)
WideSum(f, n, args, base) ==
  LET lo(i) == args[2 * i - 1].n
      hi(i) == args[2 * i].n
      sign == IF f = "i64.add128" THEN 1 ELSE -1
      carry == (lo(1) + sign * lo(2)) \div base
  IN IF \A i \in DOMAIN args : IsConst(args[i])
       THEN Const((IF n = 1 THEN lo(1) + sign * lo(2) ELSE hi(1) + sign * hi(2) + carry) % base)
       ELSE [Application(f, args) EXCEPT !.n = n]

(* The n-th result of an operator; only calls, wide arithmetic and the copy  *)
(* of a span have more.                                                      *)
Result(f, n, args, base) ==
  CASE f = "copies" -> args[n]
    [] f \in WideProducts -> WideProduct(f, n, args, base)
    [] f \in WideSums -> WideSum(f, n, args, base)
    [] f \notin {"copies"} \cup WideProducts \cup WideSums /\ n = 1 -> Apply(f, args, base)
    [] OTHER -> [Application(f, args) EXCEPT !.n = n]

(* Where an operator reads and writes: a cell (w cells for a wide value), *)
(* an accumulator register, or an immediate it reads.                     *)
SlotLoc(k, w) == [k |-> "slot", n |-> k, w |-> w]
RegLoc(r)     == [k |-> r, n |-> 0, w |-> 1]
ImmLoc(c, w)  == [k |-> "imm", n |-> c, w |-> w]

(* A cell holds part i of a value that is w cells wide. *)
Cell(t, i, w) == [v |-> t, i |-> i, w |-> w]

Read(m, l) ==
  CASE l.k = "imm" -> Const(l.n)
    [] l.k = "slot" ->
         IF \A i \in 0..l.w - 1 : m.cell[l.n + i] = Cell(m.cell[l.n].v, i, l.w)
           THEN m.cell[l.n].v ELSE Junk
    [] OTHER -> m.reg[l.k]

Write(m, l, t) ==
  IF l.k = "slot"
    THEN [m EXCEPT !.cell = [k \in DOMAIN @ |->
                               IF k \in l.n..(l.n + l.w - 1) THEN Cell(t, k - l.n, l.w) ELSE @[k]]]
    ELSE [m EXCEPT !.reg[l.k] = t]

(* An operator of the bytecode: what it computes, the locations it reads, *)
(* the locations of its results with the index of the result each takes,  *)
(* whether it has an effect besides, and for a call the cell from which on *)
(* it overwrites the frame.                                               *)
MOp(f, in, out, eff) == [f |-> f, in |-> in, out |-> out, eff |-> eff, over |-> -1]
To(l) == [l |-> l, n |-> 1]
NoOp == MOp("none", <<>>, <<>>, FALSE)

Args(m, in) == [i \in DOMAIN in |-> Read(m, in[i])]

(* An effect as the log shows it. *)
Effect(f, args) == Term(f, 0, {<<i, args[i]>> : i \in DOMAIN args})
Logged(m, op, args) == IF op.eff THEN [m EXCEPT !.log = Append(@, Effect(op.f, args))] ELSE m

(* A call: the callee's frame lies over the cells from the first parameter *)
(* on, and the accumulators are the callee's.                              *)
Clobber(m, from) ==
  IF from < 0 THEN m
  ELSE [m EXCEPT !.cell = [k \in DOMAIN @ |-> IF k >= from THEN Cell(Junk, 0, 1) ELSE @[k]],
                 !.reg = [r \in DOMAIN @ |-> Junk]]

RECURSIVE WriteResults(_, _, _, _, _)
WriteResults(m, op, args, i, base) ==
  IF i > Len(op.out) THEN m
  ELSE WriteResults(Write(m, op.out[i].l, Result(op.f, op.out[i].n, args, base)), op, args, i + 1, base)

Perform(m, op, args, base) == WriteResults(Clobber(Logged(m, op, args), op.over), op, args, 1, base)
Exec(m, op, base) == IF op.f = "none" THEN m ELSE Perform(m, op, Args(m, op.in), base)
=============================================================================
