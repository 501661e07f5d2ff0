----------------------------- MODULE MCCodeMap -----------------------------
(* Model-checking instances of CodeMap. *)
EXTENDS CodeMap, TLC

\* The threads are interchangeable; used by the runs without liveness.
ThreadSymmetry == Permutations(Threads)

\* One function of each kind of body.
MCBodyKind == [f \in Funcs |-> CASE f % 3 = 0 -> "valid"
                                 [] f % 3 = 1 -> "invalid"
                                 [] OTHER     -> "untranslatable"]
=============================================================================
