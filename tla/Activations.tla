---------------------------- MODULE Activations ----------------------------
(***************************************************************************)
(* What an execution promises: a stack of function activations, each with   *)
(* its place in its function and the base of its frame, of which only the   *)
(* top one runs, in the instance of its function.  Suspending an execution  *)
(* and resuming it changes nothing.                                         *)
(***************************************************************************)
EXTENDS Integers, Sequences

CONSTANTS Instances, Funcs, NoInst, InstanceOf, MaxPos

VARIABLES acts, inst, phase

avars == <<acts, inst, phase>>

Entered(f, base) == [ip |-> [func |-> f, pos |-> 0], base |-> base]
Popped == SubSeq(acts, 1, Len(acts) - 1)

\* The instance in which the top activation of s runs.
RunsIn(s) == IF s = <<>> THEN NoInst ELSE InstanceOf[s[Len(s)].ip.func]

\* The top activation is at another place of its function.
Moved(s) ==
    \E p \in 0 .. MaxPos : s = [acts EXCEPT ![Len(acts)].ip.pos = p]

\* The top activation is past its call, where it goes on when the callee returns.
PastCall == [acts EXCEPT ![Len(acts)].ip.pos = (@ + 1) % (MaxPos + 1)]

Init == acts = <<>> /\ inst = NoInst /\ phase = "idle"

Start ==
    /\ phase = "idle"
    /\ \/ \E f \in Funcs : acts' = <<Entered(f, 0)>> /\ phase' = "running"
       \/ acts' = <<>> /\ phase' = "host"

Step == phase = "running" /\ Moved(acts') /\ UNCHANGED phase

Call(f) ==
    /\ phase = "running"
    /\ Len(acts') = Len(acts) + 1
    /\ LET base == acts'[Len(acts')].base
       IN  /\ base >= acts[Len(acts)].base
           /\ acts' = Append(PastCall, Entered(f, base))
    /\ UNCHANGED phase

TailCall(f) ==
    /\ phase = "running"
    /\ acts' = Append(Popped, Entered(f, acts[Len(acts)].base))
    /\ UNCHANGED phase

Return ==
    /\ phase = "running" /\ Popped # <<>>
    /\ acts' = Popped
    /\ UNCHANGED phase

\* A host function is called by the top activation, or takes its place.
HostCall ==
    /\ phase = "running"
    /\ acts' = PastCall \/ acts' = Popped
    /\ phase' = "host"

HostReturn ==
    /\ phase = "host" /\ acts # <<>>
    /\ phase' = "running" /\ UNCHANGED acts

Suspend ==
    /\ phase \in {"running", "host"} /\ acts # <<>>
    /\ phase' = "suspended" /\ UNCHANGED acts

Resume == phase = "suspended" /\ phase' = "running" /\ UNCHANGED acts

\* The execution ends: it has returned, it traps, or it is dropped.
End == phase' = "idle" /\ acts' = <<>>

Next ==
    /\ \/ Start \/ Step \/ Return \/ HostCall \/ HostReturn \/ Suspend \/ Resume \/ End
       \/ \E f \in Funcs : Call(f) \/ TailCall(f)
    /\ inst' = RunsIn(acts')

Spec == Init /\ [][Next]_avars
=============================================================================
