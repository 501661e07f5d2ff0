------------------------------ MODULE MCJitRun ------------------------------
(* The instances of JitRun that TLC checks. *)
EXTENDS JitRun

Family(ops, mode, tails) ==
    [ops |-> ops \cup {"return"}, mode |-> mode, tails |-> tails, results |-> 1,
     len |-> 3, glen |-> 2, exact |-> TRUE]
Jit(ops) == Family(ops, "jit", FALSE)

\* Memory instructions that may trap; divisions, without stores; effects and calls, without
\* traps; functions of another instance, run on the kernel up to a tail call.
ExactFamilies ==
    {Jit({"load", "load_oob", "store", "store_oob", "tail_s", "set1"}),
     Jit({"load_oob", "div", "set0", "tail_s", "unreachable"}),
     Jit({"load", "store", "gset", "call", "import"}),
     Jit({"load", "store", "host", "import", "grow", "tail_s"}),
     Family({"import", "load_oob", "store", "store_oob", "acc", "tail_r"}, "yield", FALSE)}

\* Every instruction, in either mode, in shorter programs.
AllOps == {"load", "load_oob", "store", "store_oob", "div", "unreachable", "gset", "grow", "host",
           "host_err", "call", "import", "acc", "set0", "set1", "tail_s", "tail_r"}
MixedFamilies ==
    {[Family(AllOps, mode, TRUE) EXCEPT !.len = 2, !.glen = 1, !.exact = FALSE] : mode \in {"jit", "yield"}}

AllFamilies == ExactFamilies \cup MixedFamilies

\* A callee that traps.
CalleeTrap == {[Jit({"call", "load_oob"}) EXCEPT !.exact = FALSE]}

\* Further programs the two tiers execute differently: TLC refutes LikeStock on each of
\* them (README.md, "Disagreements").
Differs(ops, mode, tails, results) == {[Family(ops, mode, tails) EXCEPT !.results = results]}
DivStore == Differs({"div", "store"}, "jit", FALSE, 1)
LoadDiv == Differs({"store", "load_oob", "div"}, "jit", FALSE, 1)
CalleeStore == Differs({"call", "store", "load_oob"}, "jit", FALSE, 1)
GlobalSet == Differs({"gset", "load_oob"}, "jit", FALSE, 1)
TailAccumulator == Differs({"acc", "tail_r"}, "jit", FALSE, 1)
CalleeGrow == Differs({"call", "grow", "load"}, "jit", FALSE, 1)
TwoResults == Differs({"set0", "set1"}, "jit", FALSE, 2)
YieldReturned == Differs({"import", "store"}, "yield", TRUE, 1)
=============================================================================
