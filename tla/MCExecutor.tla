----------------------------- MODULE MCExecutor -----------------------------
(* Model-checking instances of Executor. *)
EXTENDS Executor

\* Two instances, one function with cells and one without in the first.
MCInstanceOf == [f \in Funcs |-> IF f = "c" THEN "j" ELSE "i"]
MCSize == [f \in Funcs |-> CASE f = "a" -> 2 [] f = "b" -> 0 [] OTHER -> 1]
MCParams == [f \in Funcs |-> IF f = "c" THEN 1 ELSE 0]

MCHostParams == [h \in Hosts |-> IF h = "n" THEN 0 ELSE 1]
MCHostResults == [h \in Hosts |-> IF h = "p" THEN 1 ELSE 0]
\* `g` grows the memory of the first instance; `n` and `p` do not, `n` has no cells.
MCGrows == [h \in Hosts |-> IF h = "g" THEN {"m"} ELSE {}]

MCMem0 == [i \in Instances |-> IF i = "i" THEN "m" ELSE NoMem]
MCOtherMems == [i \in Instances |-> IF i = "i" THEN {} ELSE {"m"}]
MCAliasMems == [i \in Instances |-> {"m"}]
=============================================================================
