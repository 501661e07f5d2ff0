----------------------------- MODULE FuncTable -----------------------------
(***************************************************************************)
(* What the code map promises its users: a table that only grows, in which  *)
(* an entry is defined once, from source or from code, and in which the     *)
(* source of a function is turned into code, or found broken, exactly once. *)
(***************************************************************************)
EXTENDS Integers

CONSTANT MaxFuncs

VARIABLES len, status

Entries == 0 .. MaxFuncs - 1
Statuses == {"absent", "source", "code", "broken"}

Init ==
    /\ len = 0
    /\ status = [f \in Entries |-> "absent"]

\* The table grows by absent entries.
Grow ==
    /\ len' \in len .. MaxFuncs
    /\ UNCHANGED status

\* A published entry is defined.
Define(f, s) ==
    /\ f < len /\ status[f] = "absent"
    /\ s \in {"source", "code"}
    /\ status' = [status EXCEPT ![f] = s]
    /\ UNCHANGED len

\* The source of a function is compiled or found broken.
Decide(f, s) ==
    /\ status[f] = "source"
    /\ s \in {"code", "broken"}
    /\ status' = [status EXCEPT ![f] = s]
    /\ UNCHANGED len

Next == \/ Grow
        \/ \E f \in Entries, s \in Statuses : Define(f, s) \/ Decide(f, s)

Spec == Init /\ [][Next]_<<len, status>>
=============================================================================
