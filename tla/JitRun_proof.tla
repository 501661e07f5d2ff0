---------------------------- MODULE JitRun_proof ----------------------------
(***************************************************************************)
(* No call on the JIT tier leaves the trap flag set, for every program.    *)
(***************************************************************************)
EXTENDS JitRun, TLAPS

-----------------------------------------------------------------------------
(* The invariant *)

\* The thread locals, an activation and a stack of n of them have their parts.
IsFlags(l) == DOMAIN l = {"ctx", "trap", "did", "code", "yield", "off", "slots", "regs"}

IsAct(a) ==
    /\ DOMAIN a = {"f", "tier", "pc", "td", "acc", "cells", "saved", "via"}
    /\ IsFlags(a.saved)

Stack(s, n) ==
    /\ s \in Seq(Range(s)) /\ Len(s) = n /\ DOMAIN s = 1 .. n
    /\ \A k \in 1 .. n : IsAct(s[k])

\* A body without calls, which ends with its only final instruction.
Leaf(b) ==
    /\ Len(b) \in Nat \ {0} /\ DOMAIN b = 1 .. Len(b)
    /\ \A i \in DOMAIN b : b[i] \notin Calls /\ (i = Len(b) => b[i] \in Finals)

\* main on the kernel or on the stock executor, and g called by it.
OnTier(a) == a.tier \in {"kernel", "left"} /\ a.via = "run_jit"
OnExecutor(a) == a.tier = "stock" /\ a.via \in {"run_jit", "stock"}
Callee(b, p) == b.f = "g" /\ b.pc \in DOMAIN p.g

\* Nothing runs, or main on the kernel, whatever the flags; main on the stock executor, with
\* clean flags; g called from the kernel; g called from the stock executor, by it, with
\* clean flags, or on the kernel, to come back to clean ones.
Idle(s, l) == s = <<>> /\ ~l.trap
MainOnTier(s) == Stack(s, 1) /\ OnTier(s[1])
MainOnStock(s, l) == Stack(s, 1) /\ OnExecutor(s[1]) /\ ~l.trap
CalledFromTier(s, p) ==
    /\ Stack(s, 2) /\ Callee(s[2], p)
    /\ s[1].tier = "kernel" /\ s[1].via = "run_jit" /\ s[2].via \in {"call", "import"}
CalledFromStock(s, l, p) ==
    /\ Stack(s, 2) /\ Callee(s[2], p)
    /\ OnExecutor(s[1]) /\ s[2].tier = "stock" /\ s[2].via = "stock" /\ ~l.trap
Yielding(s, l, p) ==
    /\ Stack(s, 2) /\ Callee(s[2], p)
    /\ OnExecutor(s[1]) /\ s[2].tier \in {"kernel", "left"} /\ s[2].via = "yield" /\ ~s[2].saved.trap
    /\ l.yield => l.off \in DOMAIN p.g

Shape(s, l, p) ==
    \/ Idle(s, l) \/ MainOnTier(s) \/ MainOnStock(s, l)
    \/ CalledFromTier(s, p) \/ CalledFromStock(s, l, p) \/ Yielding(s, l, p)

FlagsInv ==
    /\ Leaf(prog.g) /\ IsFlags(tls)
    /\ outcome.kind # "none" => Idle(acts, tls)
    /\ Shape(acts, tls, prog)

-----------------------------------------------------------------------------
(* Activations and flags *)

\* A stack with another activation on top, one more, or one fewer.
Over(s, x) == [s EXCEPT ![Len(s)] = x]

\* A stack, its last element replaced.
LEMMA Replaced ==
    ASSUME NEW s, NEW n \in Nat \ {0}, Stack(s, n), NEW x, IsAct(x)
    PROVE  /\ Stack(Over(s, x), n) /\ Over(s, x)[n] = x
           /\ \A k \in 1 .. n : k # n => Over(s, x)[k] = s[k]
<1> DEFINE r == Over(s, x)
           T == Range(s) \cup {x}
<1>1. s \in Seq(Range(s)) /\ Len(s) = n /\ DOMAIN s = 1 .. n /\ \A k \in 1 .. n : IsAct(s[k])
  BY Zenon DEF Stack
<1> HIDE DEF T
<1>2. s \in Seq(T)
  BY <1>1 DEF T
<1>3. x \in T
  BY DEF T
<1>4. r \in Seq(T) /\ Len(r) = n /\ DOMAIN r = 1 .. n /\ r[n] = x /\ \A k \in 1 .. n : k # n => r[k] = s[k]
  BY <1>1, <1>2, <1>3, SMTT(60) DEF Over
<1> HIDE DEF r
<1>5. r \in Seq(Range(r))
  BY <1>4 DEF Range
<1>6. \A k \in 1 .. n : IsAct(r[k])
  BY <1>1, <1>4, Zenon
<1> QED
  BY <1>4, <1>5, <1>6, Zenon DEF Stack, r

\* So for a stack of activations (Step writes the running one).
LEMMA ReplacedTop ==
    ASSUME NEW s, NEW x, IsAct(x)
    PROVE  /\ Stack(s, 1) => Stack(Over(s, x), 1) /\ Over(s, x)[1] = x
           /\ Stack(s, 2) => Stack(Over(s, x), 2) /\ Over(s, x)[2] = x /\ Over(s, x)[1] = s[1]
<1>1. 1 \in Nat \ {0} /\ 2 \in Nat \ {0} /\ 1 \in 1 .. 2 /\ 1 # 2
  OBVIOUS
<1>2. ASSUME NEW n \in Nat \ {0}, Stack(s, n)
      PROVE  Stack(Over(s, x), n) /\ Over(s, x)[n] = x /\ (n = 2 => Over(s, x)[1] = s[1])
  <2>1. /\ Stack(Over(s, x), n) /\ Over(s, x)[n] = x
        /\ \A k \in 1 .. n : k # n => Over(s, x)[k] = s[k]
    BY <1>2, Replaced, SMTT(60)
  <2> QED
    BY <1>1, <2>1, Zenon
<1> QED
  BY <1>1, <1>2, Zenon

\* g is called: its activation is put on top of that of main.
LEMMA Pushed ==
    ASSUME NEW s, Stack(s, 1), NEW x, IsAct(x)
    PROVE  Stack(Append(s, x), 2) /\ Append(s, x)[1] = s[1] /\ Append(s, x)[2] = x
<1> DEFINE r == Append(s, x)
           T == Range(s) \cup {x}
<1>1. s \in Seq(Range(s)) /\ Len(s) = 1 /\ DOMAIN s = 1 .. 1 /\ \A k \in 1 .. 1 : IsAct(s[k])
  BY Zenon DEF Stack
<1> HIDE DEF T
<1>2. s \in Seq(T)
  BY <1>1 DEF T
<1>3. x \in T
  BY DEF T
<1>4. /\ r \in Seq(T) /\ Len(r) = Len(s) + 1 /\ DOMAIN r = 1 .. (Len(s) + 1)
      /\ r[Len(s) + 1] = x /\ \A k \in 1 .. Len(s) : r[k] = s[k]
  BY <1>2, <1>3, SMTT(60)
<1> HIDE DEF r
<1>5. r \in Seq(Range(r))
  BY <1>4, SMTT(60) DEF Range
<1>6. 1 + 1 = 2 /\ 1 \in 1 .. 1 /\ \A k \in 1 .. 2 : k = 1 \/ k = 2
  OBVIOUS
<1>7. r[1] = s[1] /\ r[2] = x /\ Len(r) = 2 /\ DOMAIN r = 1 .. 2
  BY <1>1, <1>4, <1>6, ZenonT(60)
<1>8. \A k \in 1 .. 2 : IsAct(r[k])
  BY <1>1, <1>6, <1>7, ZenonT(60)
<1> QED
  BY <1>5, <1>7, <1>8, ZenonT(60) DEF Stack, r

\* g is done: main is on top again.
LEMMA Popped ==
    ASSUME NEW s, Stack(s, 2)
    PROVE  Stack(Front(s), 1) /\ Front(s)[1] = s[1]
<1> DEFINE r == SubSeq(s, 1, 1)
           T == Range(s)
<1>1. s \in Seq(T) /\ Len(s) = 2 /\ DOMAIN s = 1 .. 2 /\ \A k \in 1 .. 2 : IsAct(s[k])
  BY Zenon DEF Stack
<1>2. Front(s) = r
  BY <1>1, SMTT(60) DEF Front
<1> HIDE DEF T
<1>3. r \in Seq(T) /\ Len(r) = 1 /\ DOMAIN r = 1 .. 1 /\ r[1] = s[1]
  BY <1>1, SMTT(60)
<1> HIDE DEF r
<1>4. r \in Seq(Range(r))
  BY <1>3, SMTT(60) DEF Range
<1>5. \A k \in 1 .. 1 : IsAct(r[k])
  BY <1>1, <1>3, SMTT(60)
<1> QED
  BY <1>2, <1>3, <1>4, <1>5, ZenonT(60) DEF Stack

\* A call begins with one activation.
LEMMA Single ==
    ASSUME NEW x, IsAct(x)
    PROVE  Stack(<<x>>, 1) /\ <<x>>[1] = x
  BY DEF Stack, Range

\* What the operations on the thread locals leave of them.
LEMMA CtxSet ==
    ASSUME NEW l, IsFlags(l), NEW m
    PROVE  IsFlags(set_mem_ctx(l, m)) /\ set_mem_ctx(l, m).trap = l.trap /\ set_mem_ctx(l, m).yield = FALSE
  BY Zenon DEF IsFlags, set_mem_ctx

\* None of the others yields.
AsYielding(l, k) == IsFlags(k) /\ k.yield = l.yield /\ k.off = l.off

\* update_mem_ctx brings the memory context up to date.
LEMMA CtxUpdated ==
    ASSUME NEW l, IsFlags(l), NEW m
    PROVE  AsYielding(l, update_mem_ctx(l, m))
  BY Zenon DEF AsYielding, IsFlags, update_mem_ctx

\* set_residual_trap records the trap of a residual call.
LEMMA TrapSet ==
    ASSUME NEW l, IsFlags(l), NEW code
    PROVE  AsYielding(l, set_residual_trap(l, code))
  BY Zenon DEF AsYielding, IsFlags, set_residual_trap

\* sync_trap_to_tls writes the kernel's trap flags back.
LEMMA TrapSynced ==
    ASSUME NEW l, IsFlags(l), NEW td
    PROVE  AsYielding(l, sync_trap_to_tls(l, td))
  BY Zenon DEF AsYielding, IsFlags, sync_trap_to_tls

\* Every program of every family has such a g.
LEMMA ProgramsLeaf ==
    ASSUME NEW p \in Programs
    PROVE  Leaf(p.g)
<1>1. \A y \in Families : \A P : p \in [main : P, g : {b \in Bodies(y.ops \ Calls, y.glen) : AccLive(b)},
            jit  : BOOLEAN, exact : {y.exact},
            tails : {y.tails}, results : {y.results}, mode : {y.mode}] => p.g \in Bodies(y.ops \ Calls, y.glen)
  OBVIOUS
<1>2. PICK y \in Families : p.g \in Bodies(y.ops \ Calls, y.glen)
  BY <1>1, Zenon DEF Programs
<1> DEFINE is == y.ops \ Calls
<1> HIDE DEF is
<1>3. PICK e \in is \cap Finals : \E b \in BoundedSeq(is \ Finals, y.glen) : p.g = b \o <<e>>
  BY <1>2, Zenon DEF Bodies, is
<1>4. PICK b \in BoundedSeq(is \ Finals, y.glen) : p.g = b \o <<e>>
  BY <1>3, Zenon
<1>5. PICK m \in 0 .. y.glen : b \in [1 .. m -> is \ Finals]
  BY <1>4, Zenon DEF BoundedSeq, SeqOf
<1>6. m \in Nat
  BY <1>5, SMTT(60)
<1>7. b \in Seq(is \ Finals)
  BY <1>5, <1>6, SMTT(60)
<1>8. p.g \in Seq(is) /\ Len(p.g) = Len(b) + 1 /\ p.g[Len(b) + 1] = e
  BY <1>4, <1>7, SMTT(60)
<1>9. \A i \in is : i \notin Calls
  BY DEF is
<1> HIDE DEF Calls, Finals
<1> QED
  BY <1>7, <1>8, <1>9, SMTT(60) DEF Leaf

-----------------------------------------------------------------------------
(* Steps within an activation *)

\* The running activation is the only one, or g.
LEMMA TopIs ==
    ASSUME FlagsInv, acts # <<>>
    PROVE  /\ IsAct(Top) /\ Len(acts) \in Nat \ {0} /\ Stack(acts, Len(acts))
           /\ Len(acts) = 1 \/ (Len(acts) = 2 /\ Callee(Top, prog))
<1>1. (Stack(acts, 1) \/ (Stack(acts, 2) /\ Callee(acts[2], prog)))
  BY Zenon DEF FlagsInv, Shape, Idle, MainOnTier, MainOnStock, CalledFromTier, CalledFromStock, Yielding
<1>2. 1 \in 1 .. 1 /\ 2 \in 1 .. 2 /\ 1 \in Nat \ {0} /\ 2 \in Nat \ {0}
  OBVIOUS
<1>3. CASE Stack(acts, 1)
  BY <1>2, <1>3, Zenon DEF Stack, Top
<1>4. CASE Stack(acts, 2) /\ Callee(acts[2], prog)
  BY <1>2, <1>4, ZenonT(60) DEF Stack, Top
<1> QED
  BY <1>1, <1>3, <1>4, ZenonT(60)

\* g calls nothing, and goes on after an instruction that is not its last.
LEMMA CalleeGoesOn ==
    ASSUME FlagsInv, acts # <<>>, Callee(Top, prog)
    PROVE  /\ Op \notin Calls
           /\ Op \notin Finals => Top.pc + 1 \in DOMAIN prog.g
           /\ 1 \in DOMAIN prog.g
<1>1. Leaf(prog.g) /\ Top.pc \in DOMAIN prog.g /\ Op = prog.g[Top.pc]
  BY Zenon DEF FlagsInv, Callee, Op, Body
<1>2. /\ Len(prog.g) \in Nat \ {0} /\ DOMAIN prog.g = 1 .. Len(prog.g)
      /\ Op \notin Calls /\ (Top.pc = Len(prog.g) => Op \in Finals)
  BY <1>1, ZenonT(60) DEF Leaf
<1> HIDE DEF Calls, Finals
<1> QED
  BY <1>1, <1>2, SMTT(60)

\* What a step leaves of an activation that it takes to its next instruction.
Onward(a, x) ==
    /\ IsAct(x) /\ x.f = a.f /\ x.tier = a.tier /\ x.via = a.via /\ x.saved = a.saved
    /\ x.pc = a.pc + 1

\* An activation goes on to its next instruction: the stack keeps its shape.
LEMMA GoesOn ==
    ASSUME FlagsInv, outcome.kind = "none", acts # <<>>, NEW x, Onward(Top, x), Op \notin Finals,
           acts' = Over(acts, x),
           AsYielding(tls, tls'), Top.tier = "kernel" \/ tls' = tls,
           prog' = prog, outcome' = outcome
    PROVE  FlagsInv'
<1>1. IsAct(x) /\ IsFlags(tls') /\ tls'.yield = tls.yield /\ tls'.off = tls.off
  BY Zenon DEF Onward, AsYielding
<1>2. CASE Stack(acts, 1)
  <2>1. Top = acts[1] /\ Len(acts) = 1
    BY <1>2, Zenon DEF Stack, Top
  <2>2. Stack(acts', 1) /\ acts'[1] = x
    BY <1>1, <1>2, ReplacedTop, SMTT(60)
  <2>3. MainOnTier(acts) \/ MainOnStock(acts, tls)
    <3>1. ~Stack(acts, 2)
      BY <2>1, SMTT(60) DEF Stack
    <3> QED
      BY <3>1, Zenon DEF FlagsInv, Shape, Idle, CalledFromTier, CalledFromStock, Yielding
  <2>4. MainOnTier(acts') \/ MainOnStock(acts', tls')
    <3>1. CASE MainOnTier(acts)
      BY <2>1, <2>2, <3>1, ZenonT(60) DEF MainOnTier, OnTier, Onward
    <3>2. CASE MainOnStock(acts, tls)
      <4>1. Top.tier = "stock" /\ "stock" # "kernel"
        BY <2>1, <3>2, Zenon DEF MainOnStock, OnExecutor
      <4> QED
        BY <2>1, <2>2, <3>2, <4>1, ZenonT(60) DEF MainOnStock, OnExecutor, Onward
    <3> QED
      BY <2>3, <3>1, <3>2, ZenonT(60)
  <2> QED
    BY <1>1, <2>4, ZenonT(60) DEF FlagsInv, Shape
<1>3. CASE Stack(acts, 2)
  <2>1. Top = acts[2] /\ Len(acts) = 2
    BY <1>3, Zenon DEF Stack, Top
  <2>2. Stack(acts', 2) /\ acts'[2] = x /\ acts'[1] = acts[1]
    BY <1>1, <1>3, ReplacedTop, SMTT(60)
  <2>3. ~Stack(acts, 1) /\ acts # <<>>
    BY <2>1, SMTT(60) DEF Stack
  <2>4. Callee(Top, prog)
    BY <2>1, <2>3, ZenonT(60) DEF FlagsInv, Shape, Idle, MainOnTier, MainOnStock, CalledFromTier, CalledFromStock, Yielding
  <2>5. Callee(x, prog)
    BY <2>4, CalleeGoesOn, ZenonT(60) DEF Callee, Onward
  <2>6. CalledFromTier(acts, prog) \/ CalledFromStock(acts, tls, prog) \/ Yielding(acts, tls, prog)
    BY <2>3, Zenon DEF FlagsInv, Shape, Idle, MainOnTier, MainOnStock
  <2>7. CASE CalledFromTier(acts, prog)
    BY <1>1, <2>1, <2>2, <2>5, <2>7, ZenonT(60) DEF CalledFromTier, Onward, FlagsInv, Shape
  <2>8. CASE CalledFromStock(acts, tls, prog)
    <3>1. tls' = tls
      BY <2>1, <2>8, Zenon DEF CalledFromStock
    <3> QED
      BY <1>1, <2>1, <2>2, <2>5, <2>8, <3>1, ZenonT(60) DEF CalledFromStock, Onward, FlagsInv, Shape
  <2>9. CASE Yielding(acts, tls, prog)
    BY <1>1, <2>1, <2>2, <2>5, <2>9, ZenonT(60) DEF Yielding, Onward, FlagsInv, Shape
  <2> QED
    BY <2>6, <2>7, <2>8, <2>9, ZenonT(60)
<1> QED
  BY <1>2, <1>3, TopIs, ZenonT(60)

\* What is left of an activation that the kernel leaves.
Leaving(a, x) ==
    /\ IsAct(x) /\ x.f = a.f /\ x.tier = "left" /\ x.via = a.via /\ x.saved = a.saved /\ x.pc = a.pc

\* The kernel leaves an activation, perhaps with a yield at its instruction.
LEMMA LeavesKernel ==
    ASSUME FlagsInv, outcome.kind = "none", acts # <<>>, Top.tier = "kernel", NEW x, Leaving(Top, x), acts' = Over(acts, x),
           IsFlags(tls'), tls'.yield => tls'.off = Top.pc \/ (tls.yield /\ tls'.off = tls.off),
           prog' = prog, outcome' = outcome
    PROVE  FlagsInv'
<1>1. IsAct(x) /\ x.f = Top.f /\ x.tier = "left" /\ x.via = Top.via /\ x.saved = Top.saved /\ x.pc = Top.pc
  BY Zenon DEF Leaving
<1>3. CASE Stack(acts, 1)
  <2>1. Top = acts[1] /\ Len(acts) = 1
    BY <1>3, Zenon DEF Stack, Top
  <2>2. Stack(acts', 1) /\ acts'[1] = x
    BY <1>1, <1>3, ReplacedTop, SMTT(60)
  <2>3. ~Stack(acts, 2)
    BY <2>1, SMTT(60) DEF Stack
  <2>4. ~MainOnStock(acts, tls)
    BY <2>1, Zenon DEF MainOnStock, OnExecutor
  <2>5. MainOnTier(acts)
    BY <2>3, <2>4, Zenon DEF FlagsInv, Shape, Idle, CalledFromTier, CalledFromStock, Yielding
  <2> QED
    BY <1>1, <2>1, <2>2, <2>5, ZenonT(60) DEF FlagsInv, Shape, MainOnTier, OnTier
<1>4. CASE Stack(acts, 2)
  <2>1. Top = acts[2] /\ Len(acts) = 2
    BY <1>4, Zenon DEF Stack, Top
  <2>2. Stack(acts', 2) /\ acts'[2] = x /\ acts'[1] = acts[1]
    BY <1>1, <1>4, ReplacedTop, SMTT(60)
  <2>3. ~Stack(acts, 1) /\ acts # <<>>
    BY <2>1, SMTT(60) DEF Stack
  <2>4. ~CalledFromStock(acts, tls, prog)
    BY <2>1, Zenon DEF CalledFromStock
  <2>5. CalledFromTier(acts, prog) \/ Yielding(acts, tls, prog)
    BY <2>3, <2>4, ZenonT(60) DEF FlagsInv, Shape, Idle, MainOnTier, MainOnStock
  <2>6. CASE CalledFromTier(acts, prog)
    BY <1>1, <2>1, <2>2, <2>6, ZenonT(60) DEF CalledFromTier, Callee, FlagsInv, Shape
  <2>7. CASE Yielding(acts, tls, prog)
    <3>1. Yielding(acts', tls', prog)
      BY <1>1, <2>1, <2>2, <2>7, ZenonT(60) DEF Yielding, Callee
    <3> QED
      BY <3>1, Zenon DEF FlagsInv, Shape
  <2> QED
    BY <2>5, <2>6, <2>7, ZenonT(60)
<1> QED
  BY <1>3, <1>4, TopIs, ZenonT(60)

-----------------------------------------------------------------------------
(* The kernel *)

\* The activations that Step may be given: the running one with another accumulator, other
\* cells or other flags.
Same(a, b) ==
    /\ IsAct(b) /\ b.f = a.f /\ b.tier = a.tier /\ b.via = a.via /\ b.saved = a.saved /\ b.pc = a.pc

\* The updates an instruction makes before it goes on.
LEMMA Sames ==
    ASSUME NEW a, IsAct(a), NEW v
    PROVE  /\ Same(a, a) /\ Same(a, [a EXCEPT !.td.trap = TRUE]) /\ Same(a, [a EXCEPT !.td.did = TRUE])
           /\ Same(a, [a EXCEPT !.acc = v])
           /\ Same(a, [a EXCEPT !.cells[1] = v]) /\ Same(a, [a EXCEPT !.cells[2] = v])
<1>1. \A w : Same(a, [a EXCEPT !.td = w]) /\ Same(a, [a EXCEPT !.acc = w]) /\ Same(a, [a EXCEPT !.cells = w])
  BY Zenon DEF Same, IsAct
<1>2. Same(a, a)
  BY Zenon DEF Same
<1> QED
  BY <1>1, <1>2, ZenonT(60)

\* Step with one of these updates.
LEMMA Stepped ==
    ASSUME NEW a, Same(Top, a), Step(a)
    PROVE  \E x : Onward(Top, x) /\ acts' = Over(acts, x)
<1> DEFINE x == [a EXCEPT !.pc = @ + 1]
<1>1. Onward(Top, x)
  BY Zenon DEF Same, Onward, IsAct
<1>2. acts' = Over(acts, x)
  BY Zenon DEF Step, Over
<1> QED
  BY <1>1, <1>2, Zenon

\* A step of the kernel within an activation.
LEMMA KernelSteps ==
    ASSUME FlagsInv, NEW op, OnKernel(op), op \notin Finals, NEW a, Same(Top, a), Step(a),
           AsYielding(tls, tls'), prog' = prog, outcome' = outcome
    PROVE  FlagsInv'
<1>1. /\ outcome.kind = "none" /\ acts # <<>> /\ Top.tier = "kernel" /\ Op \notin Finals
  BY Zenon DEF OnKernel
<1> QED
  BY <1>1, Stepped, GoesOn, ZenonT(60)

\* The kernel's loads and stores.
LEMMA KernelAccesses ==
    ASSUME FlagsInv, kernel_load \/ kernel_load_oob \/ kernel_store \/ kernel_store_oob \/ global_set \/ kernel_write
    PROVE  FlagsInv'
<1>1. prog' = prog /\ outcome' = outcome /\ tls' = tls
  BY Zenon DEF kernel_load, kernel_load_oob, kernel_store, kernel_store_oob, global_set, kernel_write
<1>2. AsYielding(tls, tls')
  BY <1>1, Zenon DEF FlagsInv, AsYielding
<1>3. \A op \in {"load", "load_oob", "store", "store_oob", "gset", "acc", "set0", "set1"} : op \notin Finals
  BY DEF Finals
<1>4. \E op \in {"load", "load_oob", "store", "store_oob", "gset", "acc", "set0", "set1"} :
        /\ OnKernel(op)
        /\ \/ Step(Top) \/ Step([Top EXCEPT !.td.trap = TRUE]) \/ Step([Top EXCEPT !.td.did = TRUE])
           \/ Step([Top EXCEPT !.acc = Here])
           \/ Step([Top EXCEPT !.cells[1] = Here]) \/ Step([Top EXCEPT !.cells[2] = Here])
  BY Zenon DEF kernel_load, kernel_load_oob, kernel_store, kernel_store_oob, global_set, kernel_write
<1>5. acts # <<>>
  BY <1>4, Zenon DEF OnKernel
<1>6. IsAct(Top)
  BY <1>5, TopIs, ZenonT(60)
<1>7. \E op : OnKernel(op) /\ op \notin Finals /\ \E a : Same(Top, a) /\ Step(a)
  BY <1>3, <1>4, <1>6, Sames, ZenonT(60)
<1> QED
  BY <1>1, <1>2, <1>7, KernelSteps, ZenonT(60)

\* The kernel's division.
LEMMA KernelDivides ==
    ASSUME FlagsInv, kernel_div
    PROVE  FlagsInv'
<1>1. OnKernel("div") /\ Step(Top) /\ prog' = prog /\ outcome' = outcome /\ acts # <<>>
  BY Zenon DEF kernel_div, OnKernel
<1>2. "div" \notin Finals
  BY DEF Finals
<1>3. IsAct(Top) /\ IsFlags(tls)
  BY <1>1, TopIs, Zenon DEF FlagsInv
<1>4. Same(Top, Top)
  BY <1>3, Zenon DEF Same
<1>5. AsYielding(tls, tls')
  BY <1>3, TrapSet, Zenon DEF kernel_div
<1> QED
  BY <1>1, <1>2, <1>4, <1>5, KernelSteps, ZenonT(60)

\* The run of a function on the kernel ends.
LEMMA KernelEnds ==
    ASSUME FlagsInv, kernel_return \/ kernel_trap \/ kernel_yield
    PROVE  FlagsInv'
<1> DEFINE x == [Top EXCEPT !.tier = "left"]
<1>1. /\ outcome.kind = "none" /\ acts # <<>> /\ Top.tier = "kernel" /\ prog' = prog /\ outcome' = outcome
      /\ acts' = [acts EXCEPT ![Len(acts)].tier = "left"]
  BY Zenon DEF kernel_return, kernel_trap, kernel_yield, OnKernel
<1>2. acts' = Over(acts, x)
  BY <1>1, Zenon DEF Over, Top
<1>3. IsAct(Top) /\ IsFlags(tls)
  BY <1>1, TopIs, ZenonT(60) DEF FlagsInv
<1>4. Leaving(Top, x)
  BY <1>3, Zenon DEF Leaving, IsAct
<1>5. IsFlags(tls') /\ (tls'.yield => tls'.off = Top.pc \/ (tls.yield /\ tls'.off = tls.off))
  <2>1. CASE kernel_return
    BY <1>3, <2>1, TrapSynced, ZenonT(60) DEF kernel_return, AsYielding
  <2>2. CASE kernel_trap
    <3> DEFINE l == set_residual_trap(tls, Traps["unreachable"])
    <3>1. AsYielding(tls, l)
      BY <1>3, TrapSet, Zenon
    <3>2. tls' = sync_trap_to_tls(l, Top.td)
      BY <2>2, Zenon DEF kernel_trap
    <3> HIDE DEF l
    <3> QED
      BY <3>1, <3>2, TrapSynced, ZenonT(60) DEF AsYielding
  <2>3. CASE kernel_yield
    <3> DEFINE l == sync_trap_to_tls(tls, Top.td)
    <3>1. IsFlags(l)
      BY <1>3, TrapSynced, ZenonT(60) DEF AsYielding
    <3>2. tls' = [l EXCEPT !.yield = TRUE, !.off = Top.pc, !.slots = Top.cells, !.regs = Top.acc]
      BY <2>3, Zenon DEF kernel_yield
    <3> HIDE DEF l
    <3> QED
      BY <3>1, <3>2, ZenonT(60) DEF IsFlags
  <2> QED
    BY <2>1, <2>2, <2>3, ZenonT(60)
<1> HIDE DEF x
<1> QED
  BY <1>1, <1>2, <1>4, <1>5, LeavesKernel, ZenonT(60)

-----------------------------------------------------------------------------
(* Calls from the kernel *)

\* The activations that are made.
MadeAs(x, f, tier, pc, via) == IsAct(x) /\ x.f = f /\ x.tier = tier /\ x.pc = pc /\ x.via = via

\* KernelAct has the parts of an activation.
LEMMA KernelMade ==
    ASSUME NEW f, NEW cells, NEW l, NEW saved, IsFlags(saved), NEW via
    PROVE  MadeAs(KernelAct(f, cells, l, saved, via), f, "kernel", 1, via)
  BY Zenon DEF MadeAs, IsAct, KernelAct

\* So has StockAct.
LEMMA StockMade ==
    ASSUME NEW f, NEW pc, NEW acc, NEW cells, NEW via
    PROVE  MadeAs(StockAct(f, pc, acc, cells, via), f, "stock", pc, via)
<1>1. IsFlags(NoFlags)
  BY Zenon DEF IsFlags, NoFlags
<1> QED
  BY <1>1, Zenon DEF MadeAs, IsAct, StockAct

\* A call is made by main.
LEMMA CallerIsMain ==
    ASSUME FlagsInv, acts # <<>>, Op \in Calls
    PROVE  Stack(acts, 1) /\ Top = acts[1] /\ (MainOnTier(acts) \/ MainOnStock(acts, tls))
<1>1. ~Callee(Top, prog)
  BY CalleeGoesOn, Zenon
<1>2. Len(acts) = 1 /\ Stack(acts, 1)
  BY <1>1, TopIs, ZenonT(60)
<1>3. ~Stack(acts, 2)
  BY <1>2, SMTT(60) DEF Stack
<1> QED
  BY <1>2, <1>3, ZenonT(60) DEF Top, FlagsInv, Shape, Idle, CalledFromTier, CalledFromStock, Yielding

\* Main, on the kernel, calls g.
LEMMA CalledOnTier ==
    ASSUME FlagsInv, outcome.kind = "none", acts # <<>>, Top.tier = "kernel", Op \in Calls,
           NEW x, NEW tier, NEW via \in {"call", "import"}, MadeAs(x, "g", tier, 1, via),
           acts' = Append(acts, x), IsFlags(tls'), prog' = prog, outcome' = outcome
    PROVE  FlagsInv'
<1>1. Stack(acts, 1) /\ Top = acts[1] /\ (MainOnTier(acts) \/ MainOnStock(acts, tls))
  BY CallerIsMain, ZenonT(60)
<1>2. ~MainOnStock(acts, tls)
  BY <1>1, ZenonT(60) DEF MainOnStock, OnExecutor
<1>3. acts[1].tier = "kernel" /\ acts[1].via = "run_jit"
  BY <1>1, <1>2, ZenonT(60) DEF MainOnTier, OnTier
<1>4. Stack(acts', 2) /\ acts'[1] = acts[1] /\ acts'[2] = x
  <2>1. IsAct(x)
    BY Zenon DEF MadeAs
  <2> QED
    BY <1>1, <2>1, Pushed, ZenonT(60)
<1>5. Callee(x, prog)
  <2>1. 1 \in DOMAIN prog.g
    BY SMTT(60) DEF FlagsInv, Leaf
  <2> QED
    BY <2>1, ZenonT(60) DEF Callee, MadeAs
<1>6. CalledFromTier(acts', prog)
  BY <1>3, <1>4, <1>5, ZenonT(60) DEF CalledFromTier, MadeAs
<1> QED
  BY <1>6, ZenonT(60) DEF FlagsInv, Shape

\* call_internal and call_imported_residual of a Wasm function.
LEMMA KernelCalls ==
    ASSUME FlagsInv, call_internal \/ call_imported_wasm
    PROVE  FlagsInv'
<1> DEFINE l == sync_trap_to_tls(tls, Top.td)
<1>1. "call" \in Calls /\ "import" \in Calls
  BY DEF Calls
<1>2. /\ outcome.kind = "none" /\ acts # <<>> /\ Top.tier = "kernel" /\ Op \in Calls
      /\ prog' = prog /\ outcome' = outcome
  BY <1>1, Zenon DEF call_internal, call_imported_wasm, OnKernel
<1>3. IsFlags(l)
  BY TrapSynced, Zenon DEF FlagsInv, AsYielding
<1>4. IsFlags(set_mem_ctx(l, mem))
  BY <1>3, CtxSet, Zenon
<1>5. \/ /\ tls' = set_mem_ctx(l, mem)
         /\ acts' = Append(acts, KernelAct("g", Entry("g"), tls', l, "call"))
      \/ /\ tls' = l
         /\ \/ acts' = Append(acts, StockAct("g", 1, Mark("g", 0), Entry("g"), "call"))
            \/ acts' = Append(acts, StockAct("g", 1, Mark("g", 0), Entry("g"), "import"))
  BY Zenon DEF call_internal, call_imported_wasm
<1> HIDE DEF l
<1>6. IsFlags(tls')
  BY <1>3, <1>4, <1>5, ZenonT(60)
<1>7. \E x, tier : \E via \in {"call", "import"} : acts' = Append(acts, x) /\ MadeAs(x, "g", tier, 1, via)
  <2>1. \A k : MadeAs(KernelAct("g", Entry("g"), k, l, "call"), "g", "kernel", 1, "call")
    BY <1>3, KernelMade, ZenonT(60)
  <2>2. \A via : MadeAs(StockAct("g", 1, Mark("g", 0), Entry("g"), via), "g", "stock", 1, via)
    BY StockMade, Zenon
  <2> QED
    BY <1>5, <2>1, <2>2, ZenonT(60)
<1> QED
  BY <1>2, <1>6, <1>7, CalledOnTier, ZenonT(60)

\* Back in main after a call of a host function or of g.
LEMMA BackInMain ==
    ASSUME FlagsInv, outcome.kind = "none", NEW rest, Stack(rest, 1), rest[1].tier = "kernel",
           rest[1].via = "run_jit", NEW l, CallReturned(rest, l),
           IsFlags(tls'), prog' = prog, outcome' = outcome
    PROVE  FlagsInv'
<1> DEFINE y == [rest[1] EXCEPT !.td = read_trap_from_tls(l)]
           x == [y EXCEPT !.pc = @ + 1]
           r == [rest EXCEPT ![1] = y]
<1>1. Len(rest) = 1 /\ IsAct(rest[1]) /\ DOMAIN rest = 1 .. 1
  <2>1. 1 \in 1 .. 1
    OBVIOUS
  <2> QED
    BY <2>1, Zenon DEF Stack
<1>2. IsAct(y) /\ y.tier = "kernel" /\ y.via = "run_jit"
  BY <1>1, Zenon DEF IsAct
<1>3. IsAct(x) /\ x.tier = "kernel" /\ x.via = "run_jit"
  <2> HIDE DEF y
  <2> QED
    BY <1>2, Zenon DEF IsAct
<1>4. r[1] = y
  <2>1. 1 \in DOMAIN rest
    BY <1>1, SMTT(60)
  <2> HIDE DEF y
  <2> QED
    BY <2>1, Zenon
<1>5. acts' = [r EXCEPT ![1] = x]
  BY <1>1, <1>4, ZenonT(60) DEF CallReturned
<1>6. r = Over(rest, y)
  BY <1>1, Zenon DEF Over
<1> HIDE DEF x, r, y
<1>7. Stack(r, 1)
  BY <1>2, <1>6, ReplacedTop, SMTT(60)
<1>8. acts' = Over(r, x)
  BY <1>5, <1>7, ZenonT(60) DEF Over, Stack
<1>9. Stack(acts', 1) /\ acts'[1] = x
  BY <1>3, <1>7, <1>8, ReplacedTop, SMTT(60)
<1>10. MainOnTier(acts')
  BY <1>3, <1>9, ZenonT(60) DEF MainOnTier, OnTier
<1> QED
  BY <1>10, Zenon DEF FlagsInv, Shape

\* call_imported_residual of a host function: no activation is made.
LEMMA HostCalled ==
    ASSUME FlagsInv, call_imported_host
    PROVE  FlagsInv'
<1> DEFINE l == update_mem_ctx(sync_trap_to_tls(tls, Top.td), mem')
<1>1. /\ outcome.kind = "none" /\ acts # <<>> /\ Top.tier = "kernel" /\ Op \in {"host", "host_err"}
      /\ prog' = prog /\ outcome' = outcome
  BY Zenon DEF call_imported_host, OnKernel
<1>2. AsYielding(tls, l)
  <2> DEFINE k == sync_trap_to_tls(tls, Top.td)
  <2>1. AsYielding(tls, k)
    BY TrapSynced, ZenonT(60) DEF FlagsInv
  <2> HIDE DEF k
  <2>2. AsYielding(k, update_mem_ctx(k, mem'))
    BY <2>1, CtxUpdated, ZenonT(60) DEF AsYielding
  <2> QED
    BY <2>1, <2>2, ZenonT(60) DEF AsYielding, k
<1>3. tls' = l \/ tls' = set_residual_trap(l, Traps["unreachable"])
  BY Zenon DEF call_imported_host
<1> HIDE DEF l
<1>4. AsYielding(tls, tls')
  <2>1. AsYielding(l, set_residual_trap(l, Traps["unreachable"]))
    BY <1>2, TrapSet, ZenonT(60) DEF AsYielding
  <2> QED
    BY <1>2, <1>3, <2>1, ZenonT(60) DEF AsYielding
<1>5. \A op \in {"host", "host_err"} : op \notin Finals
  BY SMTT(60) DEF Finals
<1> DEFINE n == Len(acts)
           y == [acts[n] EXCEPT !.td = read_trap_from_tls(tls')]
           x == [y EXCEPT !.pc = @ + 1]
           r == [acts EXCEPT ![n] = y]
<1>6. IsAct(Top) /\ Top = acts[n] /\ n \in DOMAIN acts
  <2>1. Stack(acts, n) /\ n \in Nat \ {0} /\ IsAct(Top)
    BY <1>1, TopIs, ZenonT(60)
  <2>2. n \in 1 .. n
    BY <2>1, SMTT(60)
  <2> QED
    BY <2>1, <2>2, ZenonT(60) DEF Stack, Top
<1>7. Same(Top, y)
  BY <1>6, Zenon DEF Same, IsAct
<1>8. r[n] = y
  <2> HIDE DEF y, n
  <2> QED
    BY <1>6, ZenonT(60)
<1>9. acts' = [r EXCEPT ![n] = x]
  BY <1>8, ZenonT(60) DEF call_imported_host, CallReturned
<1>10. [r EXCEPT ![n] = x] = [acts EXCEPT ![n] = x]
  <2> HIDE DEF y, n, x
  <2> QED
    BY <1>6, ZenonT(60)
<1>11. Step(y)
  BY <1>9, <1>10, Zenon DEF Step
<1> HIDE DEF y
<1> QED
  BY <1>1, <1>4, <1>5, <1>7, <1>11, Stepped, GoesOn, ZenonT(60)

\* run_callee is back in main.
LEMMA CalleeDone ==
    ASSUME FlagsInv, run_callee_done
    PROVE  FlagsInv'
<1> DEFINE l == [Top.saved EXCEPT !.off = tls.off, !.slots = tls.slots, !.regs = tls.regs]
<1>1. /\ outcome.kind = "none" /\ acts # <<>> /\ Top.tier = "left" /\ Top.via = "call"
      /\ prog' = prog /\ outcome' = outcome /\ tls' = l /\ CallReturned(Front(acts), tls')
  BY Zenon DEF run_callee_done
<1>2. IsFlags(tls')
  <2>1. IsFlags(Top.saved)
    BY <1>1, TopIs, ZenonT(60) DEF IsAct
  <2>2. IsFlags(l)
    BY <2>1, Zenon DEF IsFlags
  <2> QED
    BY <1>1, <2>2, ZenonT(60)
<1>3. CalledFromTier(acts, prog)
  <2>1. ~MainOnTier(acts) /\ ~MainOnStock(acts, tls)
    <3>1. Stack(acts, 1) => Top = acts[1]
      BY Zenon DEF Stack, Top
    <3> QED
      BY <1>1, <3>1, ZenonT(60) DEF MainOnTier, MainOnStock, OnTier, OnExecutor
  <2>2. ~CalledFromStock(acts, tls, prog) /\ ~Yielding(acts, tls, prog)
    <3>1. Stack(acts, 2) => Top = acts[2]
      BY Zenon DEF Stack, Top
    <3> QED
      BY <1>1, <3>1, ZenonT(60) DEF CalledFromStock, Yielding
  <2> QED
    BY <1>1, <2>1, <2>2, ZenonT(60) DEF FlagsInv, Shape, Idle
<1>4. Stack(Front(acts), 1) /\ Front(acts)[1] = acts[1]
  BY <1>3, Popped, ZenonT(60) DEF CalledFromTier
<1> QED
  BY <1>1, <1>2, <1>3, <1>4, BackInMain, ZenonT(60) DEF CalledFromTier

\* Every step of the kernel keeps the invariant.
LEMMA KernelKeeps ==
    ASSUME FlagsInv, Kernel
    PROVE  FlagsInv'
  BY KernelAccesses, KernelDivides, HostCalled, KernelCalls, KernelEnds, CalleeDone, ZenonT(60) DEF Kernel

-----------------------------------------------------------------------------
(* The stock executor *)

\* The executor runs with clean flags unless it was called from the kernel.
LEMMA ExecutorAt ==
    ASSUME FlagsInv, acts # <<>>, Top.tier = "stock"
    PROVE  \/ CalledFromTier(acts, prog) /\ Top = acts[2] /\ Top.via \in {"call", "import"}
           \/ MainOnStock(acts, tls) /\ Top = acts[1] /\ Top.via \in {"run_jit", "stock"} /\ Len(acts) = 1
           \/ CalledFromStock(acts, tls, prog) /\ Top = acts[2] /\ Top.via = "stock" /\ Len(acts) = 2
<1>1. (Stack(acts, 1) => Top = acts[1] /\ Len(acts) = 1) /\ (Stack(acts, 2) => Top = acts[2] /\ Len(acts) = 2)
  BY Zenon DEF Stack, Top
<1>2. ~MainOnTier(acts) /\ ~Yielding(acts, tls, prog)
  BY <1>1, ZenonT(60) DEF MainOnTier, OnTier, Yielding
<1>3. MainOnStock(acts, tls) \/ CalledFromTier(acts, prog) \/ CalledFromStock(acts, tls, prog)
  BY <1>2, Zenon DEF FlagsInv, Shape, Idle
<1> QED
  BY <1>1, <1>3, ZenonT(60) DEF MainOnStock, OnExecutor, CalledFromTier, CalledFromStock

\* The executor goes on to its next instruction.
LEMMA StockSteps ==
    ASSUME FlagsInv, stock_step \/ stock_effect
    PROVE  FlagsInv'
<1>1. prog' = prog /\ outcome' = outcome /\ tls' = tls
  BY Zenon DEF stock_step, stock_effect
<1>2. \A op \in {"acc", "set0", "set1", "load", "store", "gset", "host", "grow"} : op \notin Finals
  BY DEF Finals
<1>3. \E op \in {"acc", "set0", "set1", "load", "store", "gset", "host", "grow"} :
        /\ OnStock(op)
        /\ \/ Step(Top) \/ Step([Top EXCEPT !.acc = Here])
           \/ Step([Top EXCEPT !.cells[1] = Here]) \/ Step([Top EXCEPT !.cells[2] = Here])
  BY Zenon DEF stock_step, stock_effect
<1>4. outcome.kind = "none" /\ acts # <<>> /\ Op \notin Finals
  BY <1>2, <1>3, ZenonT(60) DEF OnStock
<1>5. IsAct(Top)
  BY <1>4, TopIs, ZenonT(60)
<1>6. \E a : Same(Top, a) /\ Step(a)
  BY <1>3, <1>5, Sames, ZenonT(60)
<1>7. AsYielding(tls, tls')
  BY <1>1, Zenon DEF FlagsInv, AsYielding
<1> QED
  BY <1>1, <1>4, <1>6, <1>7, Stepped, GoesOn, ZenonT(60)

\* A call of the executor ends: run_jit's, the kernel's, or one of its own.
LEMMA StockEnds ==
    ASSUME FlagsInv, outcome.kind = "none", acts # <<>>, Top.tier = "stock", NEW o, StockDone(o), prog' = prog
    PROVE  FlagsInv'
<1>0. "run_jit" \notin {"call", "import"} /\ "stock" \notin {"call", "import"} /\ "stock" # "run_jit"
  OBVIOUS
<1>1. CASE CalledFromTier(acts, prog) /\ Top = acts[2] /\ Top.via \in {"call", "import"}
  <2> DEFINE l == IF o.kind = "ok" THEN tls ELSE set_residual_trap(tls, Traps["unreachable"])
  <2>1. /\ tls' = IF Top.via = "import" THEN update_mem_ctx(l, mem) ELSE l
        /\ CallReturned(Front(acts), tls') /\ outcome' = outcome
    BY <1>0, <1>1, ZenonT(60) DEF StockDone
  <2>2. IsFlags(l)
    BY TrapSet, Zenon DEF FlagsInv, AsYielding
  <2> HIDE DEF l
  <2>3. IsFlags(tls')
    BY <2>1, <2>2, CtxUpdated, ZenonT(60) DEF AsYielding
  <2>4. Stack(Front(acts), 1) /\ Front(acts)[1] = acts[1]
    BY <1>1, Popped, ZenonT(60) DEF CalledFromTier
  <2> QED
    BY <1>1, <2>1, <2>3, <2>4, BackInMain, ZenonT(60) DEF CalledFromTier
<1>2. ASSUME Finish(o), tls' = tls, ~tls.trap
      PROVE  FlagsInv'
  BY <1>2, Zenon DEF Finish, FlagsInv, Shape, Idle
<1>3. CASE MainOnStock(acts, tls) /\ Top = acts[1] /\ Top.via \in {"run_jit", "stock"} /\ Len(acts) = 1
  <2>1. ~(Len(acts) > 1)
    BY <1>3, SMTT(60)
  <2>2. Finish(o) /\ tls' = tls
    BY <1>0, <1>3, <2>1, ZenonT(60) DEF StockDone
  <2> QED
    BY <1>2, <1>3, <2>2, ZenonT(60) DEF MainOnStock
<1>4. CASE CalledFromStock(acts, tls, prog) /\ Top = acts[2] /\ Top.via = "stock" /\ Len(acts) = 2
  <2> DEFINE rest == Front(acts)
             x == [rest[1] EXCEPT !.pc = @ + 1]
  <2>0. 2 - 1 = 1 /\ 2 > 1
    OBVIOUS
  <2>1. \/ Finish(o) /\ tls' = tls
        \/ acts' = [rest EXCEPT ![1].pc = @ + 1] /\ tls' = tls /\ outcome' = outcome
    BY <1>0, <1>4, <2>0, ZenonT(60) DEF StockDone
  <2>2. Stack(rest, 1) /\ rest[1] = acts[1]
    BY <1>4, Popped, ZenonT(60) DEF CalledFromStock
  <2>3. CASE acts' = [rest EXCEPT ![1].pc = @ + 1] /\ tls' = tls /\ outcome' = outcome
    <3>1. acts' = Over(rest, x)
      BY <2>2, <2>3, ZenonT(60) DEF Over, Stack
    <3>2. IsAct(rest[1])
      <4>1. 1 \in 1 .. 1
        OBVIOUS
      <4> QED
        BY <2>2, <4>1, ZenonT(60) DEF Stack
    <3>3. IsAct(x) /\ x.tier = rest[1].tier /\ x.via = rest[1].via
      BY <3>2, ZenonT(60) DEF IsAct
    <3> HIDE DEF x, rest
    <3>4. Stack(acts', 1) /\ acts'[1] = x
      BY <2>2, <3>1, <3>3, ReplacedTop, SMTT(60)
    <3>5. MainOnStock(acts', tls')
      BY <1>4, <2>2, <2>3, <3>3, <3>4, ZenonT(60) DEF MainOnStock, OnExecutor, CalledFromStock
    <3> QED
      BY <2>3, <3>5, ZenonT(60) DEF FlagsInv, Shape
  <2> QED
    BY <1>2, <1>4, <2>1, <2>3, ZenonT(60) DEF CalledFromStock
<1> QED
  BY <1>1, <1>3, <1>4, ExecutorAt, ZenonT(60)

\* The executor traps, returns or tail-calls: the call it runs is done.
LEMMA StockReturns ==
    ASSUME FlagsInv, stock_trap \/ stock_return \/ stock_tail_call
    PROVE  FlagsInv'
<1>1. prog' = prog /\ outcome.kind = "none" /\ acts # <<>> /\ Top.tier = "stock" /\ \E o : StockDone(o)
  BY Zenon DEF stock_trap, stock_return, stock_tail_call, OnStock
<1> QED
  BY <1>1, StockEnds, ZenonT(60)

\* g called from the executor, by it or on the kernel.
LEMMA CalledOnStock ==
    ASSUME FlagsInv, outcome.kind = "none", acts # <<>>, Top.tier = "stock", Op \in Calls,
           NEW x, NEW tier, NEW via, MadeAs(x, "g", tier, 1, via), acts' = Append(acts, x),
           prog' = prog, outcome' = outcome, IsFlags(tls'),
           \/ tier = "stock" /\ via = "stock" /\ tls' = tls
           \/ tier = "kernel" /\ via = "yield" /\ x.saved = tls /\ tls'.yield = FALSE
    PROVE  FlagsInv'
<1>1. Stack(acts, 1) /\ Top = acts[1] /\ (MainOnTier(acts) \/ MainOnStock(acts, tls))
  BY CallerIsMain, Zenon
<1>2. MainOnStock(acts, tls)
  BY <1>1, ZenonT(60) DEF MainOnTier, OnTier
<1>3. Stack(acts', 2) /\ acts'[1] = acts[1] /\ acts'[2] = x
  <2>1. IsAct(x)
    BY Zenon DEF MadeAs
  <2> QED
    BY <1>1, <2>1, Pushed, ZenonT(60)
<1>4. Callee(x, prog)
  <2>1. 1 \in DOMAIN prog.g
    BY DEF FlagsInv, Leaf
  <2> QED
    BY <2>1, Zenon DEF Callee, MadeAs
<1>5. CASE tier = "stock" /\ via = "stock" /\ tls' = tls
  <2>1. CalledFromStock(acts', tls', prog)
    BY <1>2, <1>3, <1>4, <1>5, ZenonT(60) DEF CalledFromStock, MainOnStock, MadeAs
  <2> QED
    BY <2>1, Zenon DEF FlagsInv, Shape
<1>6. CASE tier = "kernel" /\ via = "yield" /\ x.saved = tls /\ tls'.yield = FALSE
  <2>1. Yielding(acts', tls', prog)
    BY <1>2, <1>3, <1>4, <1>6, ZenonT(60) DEF Yielding, MainOnStock, MadeAs
  <2> QED
    BY <2>1, Zenon DEF FlagsInv, Shape
<1> QED
  BY <1>5, <1>6, ZenonT(60)

\* The executor calls g, or has the kernel run it (run_callee_yield).
LEMMA StockCalls ==
    ASSUME FlagsInv, stock_call \/ run_callee_yield
    PROVE  FlagsInv'
<1>1. "call" \in Calls /\ "import" \in Calls
  BY DEF Calls
<1>2. /\ outcome.kind = "none" /\ acts # <<>> /\ Top.tier = "stock" /\ Op \in Calls
      /\ prog' = prog /\ outcome' = outcome /\ IsFlags(tls)
  BY <1>1, Zenon DEF stock_call, run_callee_yield, OnStock, FlagsInv
<1>3. CASE stock_call
  <2> DEFINE x == StockAct("g", 1, Mark("g", 0), Entry("g"), "stock")
  <2>1. acts' = Append(acts, x) /\ tls' = tls
    BY <1>3, Zenon DEF stock_call
  <2>2. MadeAs(x, "g", "stock", 1, "stock")
    BY StockMade, Zenon
  <2> HIDE DEF x
  <2> QED
    BY <1>2, <2>1, <2>2, CalledOnStock, ZenonT(60)
<1>4. CASE run_callee_yield
  <2> DEFINE l == set_mem_ctx(tls, mem)
             x == KernelAct("g", Entry("g"), tls', tls, "yield")
  <2>1. acts' = Append(acts, x) /\ tls' = [l EXCEPT !.slots = <<>>]
    BY <1>4, Zenon DEF run_callee_yield
  <2>2. MadeAs(x, "g", "kernel", 1, "yield") /\ x.saved = tls
    <3>1. \A k : MadeAs(KernelAct("g", Entry("g"), k, tls, "yield"), "g", "kernel", 1, "yield")
      BY <1>2, KernelMade, Zenon
    <3>2. x.saved = tls
      BY Zenon DEF KernelAct
    <3> QED
      BY <3>1, <3>2, ZenonT(60)
  <2>3. IsFlags(l) /\ l.yield = FALSE
    BY <1>2, CtxSet, ZenonT(60)
  <2> HIDE DEF x, l
  <2>4. IsFlags(tls') /\ tls'.yield = FALSE
    BY <2>1, <2>3, ZenonT(60) DEF IsFlags
  <2> QED
    BY <1>2, <2>1, <2>2, <2>4, CalledOnStock, ZenonT(60)
<1> QED
  BY <1>3, <1>4, ZenonT(60)

\* g called from a yield has left the kernel: the executor goes on with it, or the call traps.
LEMMA CalleeYieldDone ==
    ASSUME FlagsInv, run_callee_yield_done
    PROVE  FlagsInv'
<1>1. /\ outcome.kind = "none" /\ acts # <<>> /\ Top.tier = "left" /\ Top.via = "yield"
      /\ prog' = prog /\ tls' = Top.saved
  BY Zenon DEF run_callee_yield_done
<1>2. Yielding(acts, tls, prog) /\ Top = acts[2]
  <2>1. (Stack(acts, 1) => Top = acts[1]) /\ (Stack(acts, 2) => Top = acts[2])
    BY Zenon DEF Stack, Top
  <2>2. "yield" \notin {"run_jit", "stock"} /\ "yield" \notin {"call", "import"} /\ "left" # "stock"
    BY SMTT(60)
  <2> QED
    BY <1>1, <2>1, <2>2, ZenonT(60)
       DEF FlagsInv, Shape, Idle, MainOnTier, OnTier, MainOnStock, OnExecutor, CalledFromTier, CalledFromStock, Yielding
<1>3. IsFlags(tls') /\ ~tls'.trap
  <2>1. 2 \in 1 .. 2
    OBVIOUS
  <2> QED
    BY <1>1, <1>2, <2>1, ZenonT(60) DEF Yielding, Stack, IsAct
<1>4. Stack(Front(acts), 1) /\ Front(acts)[1] = acts[1]
  BY <1>2, Popped, ZenonT(60) DEF Yielding
<1>5. ASSUME NEW pc \in DOMAIN prog.g, NEW acc, NEW cells, outcome' = outcome,
             acts' = Append(Front(acts), StockAct("g", pc, acc, cells, "stock"))
      PROVE  FlagsInv'
  <2> DEFINE x == StockAct("g", pc, acc, cells, "stock")
  <2>1. MadeAs(x, "g", "stock", pc, "stock")
    BY StockMade, Zenon
  <2>2. acts' = Append(Front(acts), x)
    BY <1>5, Zenon
  <2> HIDE DEF x
  <2>3. Stack(acts', 2) /\ acts'[1] = acts[1] /\ acts'[2] = x
    <3>1. IsAct(x)
      BY <2>1, ZenonT(60) DEF MadeAs
    <3> QED
      BY <1>4, <2>2, <3>1, Pushed, ZenonT(60)
  <2>4. CalledFromStock(acts', tls', prog)
    BY <1>2, <1>3, <2>1, <2>3, ZenonT(60) DEF CalledFromStock, Yielding, Callee, MadeAs
  <2> QED
    BY <1>1, <1>3, <1>5, <2>4, ZenonT(60) DEF FlagsInv, Shape
<1>6. 1 \in DOMAIN prog.g
  BY DEF FlagsInv, Leaf
<1>7. CASE \E o : Finish(o)
  BY <1>1, <1>3, <1>7, ZenonT(60) DEF Finish, FlagsInv, Shape, Idle
<1>8. CASE ~tls.trap /\ tls.yield
  <2>1. acts' = Append(Front(acts), StockAct("g", tls.off, tls.regs, tls.slots, "stock")) /\ outcome' = outcome
    BY <1>8, Zenon DEF run_callee_yield_done
  <2>2. tls.off \in DOMAIN prog.g
    BY <1>2, <1>8, Zenon DEF Yielding
  <2> QED
    BY <1>5, <2>1, <2>2, ZenonT(60)
<1>9. CASE \/ ~tls.trap /\ ~tls.yield
           \/ tls.trap /\ ~tls.did
  <2>1. acts' = Append(Front(acts), StockAct("g", 1, Mark("g", 0), Entry("g"), "stock")) /\ outcome' = outcome
    BY <1>9, Zenon DEF run_callee_yield_done
  <2> QED
    BY <1>5, <1>6, <2>1, ZenonT(60)
<1> QED
  BY <1>7, <1>8, <1>9, ZenonT(60) DEF run_callee_yield_done

-----------------------------------------------------------------------------
(* run_jit and execute_stock *)

\* A call begins, on the kernel or on the stock executor.
LEMMA CallBegins ==
    ASSUME FlagsInv, run_jit \/ execute_stock
    PROVE  FlagsInv'
<1>1. acts = <<>> /\ outcome.kind = "none" /\ outcome' = outcome /\ prog' = prog /\ IsFlags(tls)
  BY Zenon DEF run_jit, execute_stock, FlagsInv
<1>2. CASE run_jit
  <2> DEFINE x == KernelAct("main", frame, tls', tls, "run_jit")
  <2>1. acts' = <<x>> /\ tls' = set_mem_ctx(tls, mem)
    BY <1>2, ZenonT(60) DEF run_jit
  <2>2. MadeAs(x, "main", "kernel", 1, "run_jit")
    <3>1. \A k : MadeAs(KernelAct("main", frame, k, tls, "run_jit"), "main", "kernel", 1, "run_jit")
      BY <1>1, KernelMade, ZenonT(60)
    <3> QED
      BY <3>1, Zenon
  <2>3. IsFlags(tls')
    BY <1>1, <2>1, CtxSet, ZenonT(60)
  <2> HIDE DEF x
  <2>4. Stack(acts', 1) /\ acts'[1] = x
    BY <2>1, <2>2, Single, ZenonT(60) DEF MadeAs
  <2>5. MainOnTier(acts')
    BY <2>2, <2>4, ZenonT(60) DEF MainOnTier, OnTier, MadeAs
  <2> QED
    BY <1>1, <2>3, <2>5, ZenonT(60) DEF FlagsInv, Shape
<1>3. CASE execute_stock
  <2> DEFINE x == StockAct("main", 1, Mark("main", 0), frame, "stock")
  <2>1. acts' = <<x>> /\ tls' = tls
    BY <1>3, Zenon DEF execute_stock
  <2>2. MadeAs(x, "main", "stock", 1, "stock")
    BY StockMade, Zenon
  <2> HIDE DEF x
  <2>3. Stack(acts', 1) /\ acts'[1] = x
    BY <2>1, <2>2, Single, ZenonT(60) DEF MadeAs
  <2>4. 0 # 1 /\ 0 # 2 /\ Len(<<>>) = 0
    BY SMTT(60)
  <2>5. ~tls.trap
    BY <1>1, <2>4, ZenonT(60)
       DEF FlagsInv, Shape, Idle, MainOnTier, MainOnStock, CalledFromTier, CalledFromStock, Yielding, Stack
  <2>6. MainOnStock(acts', tls')
    BY <2>1, <2>2, <2>3, <2>5, ZenonT(60) DEF MainOnStock, OnExecutor, MadeAs
  <2> QED
    BY <1>1, <2>1, <2>6, ZenonT(60) DEF FlagsInv, Shape
<1> QED
  BY <1>2, <1>3, ZenonT(60)

\* main has left the kernel: the call is done, or goes on with the stock executor.  Either
\* way the trap flag has been taken.
LEMMA TierLeft ==
    ASSUME FlagsInv, run_jit_trapped \/ run_jit_yielded \/ run_jit_returned
    PROVE  FlagsInv'
<1>1. prog' = prog /\ outcome.kind = "none" /\ IsFlags(tls)
  BY Zenon DEF run_jit_trapped, run_jit_yielded, run_jit_returned, Left, FlagsInv
<1>2. \/ tls' = [tls EXCEPT !.yield = FALSE, !.trap = FALSE, !.did = FALSE, !.ctx = Top.saved.ctx]
      \/ ~tls.trap /\ tls' = [tls EXCEPT !.yield = FALSE, !.slots = <<>>, !.ctx = Top.saved.ctx]
      \/ ~tls.trap /\ tls' = [tls EXCEPT !.ctx = Top.saved.ctx]
  BY Zenon DEF run_jit_trapped, run_jit_yielded, run_jit_returned
<1>3. IsFlags(tls') /\ ~tls'.trap
  BY <1>1, <1>2, ZenonT(60) DEF IsFlags
<1>4. CASE \E o : Finish(o)
  BY <1>1, <1>3, <1>4, ZenonT(60) DEF Finish, FlagsInv, Shape, Idle
<1>5. CASE \E pc, cells : execute_stock_at(pc, cells) /\ outcome' = outcome
  <2>1. PICK pc, cells : execute_stock_at(pc, cells) /\ outcome' = outcome
    BY <1>5, Zenon
  <2> DEFINE x == StockAct("main", pc, Mark("main", 0), cells, "run_jit")
  <2>2. acts' = <<x>>
    BY <2>1, ZenonT(60) DEF execute_stock_at
  <2>3. MadeAs(x, "main", "stock", pc, "run_jit")
    BY StockMade, ZenonT(60)
  <2> HIDE DEF x
  <2>4. Stack(acts', 1) /\ acts'[1] = x
    BY <2>2, <2>3, Single, ZenonT(60) DEF MadeAs
  <2>5. MainOnStock(acts', tls')
    BY <1>3, <2>3, <2>4, ZenonT(60) DEF MainOnStock, OnExecutor, MadeAs
  <2> QED
    BY <1>1, <1>3, <2>1, <2>5, ZenonT(60) DEF FlagsInv, Shape
<1> QED
  BY <1>4, <1>5, ZenonT(60) DEF run_jit_trapped, run_jit_yielded, run_jit_returned

-----------------------------------------------------------------------------
(* The theorem *)

\* Every step keeps the invariant.
LEMMA StepsKeep ==
    ASSUME FlagsInv, [Next]_vars
    PROVE  FlagsInv'
<1>1. CASE Kernel
  BY <1>1, KernelKeeps, ZenonT(60)
<1>2. CASE Stock
  BY <1>2, StockSteps, StockReturns, StockCalls, CalleeYieldDone, CallBegins, ZenonT(60) DEF Stock
<1>3. CASE run_jit \/ run_jit_trapped \/ run_jit_yielded \/ run_jit_returned
  BY <1>3, CallBegins, TierLeft, ZenonT(60)
<1>4. CASE UNCHANGED vars
  BY <1>4, ZenonT(60) DEF vars, FlagsInv
<1> QED
  BY <1>1, <1>2, <1>3, <1>4, ZenonT(60) DEF Next

\* Whatever the program, main and the function it calls: a call on the JIT tier, on the stock
\* executor, or begun on the one and ended on the other after a trap or a yield, returns with
\* the thread's trap flag taken (run_jit, run_callee, run_callee_yield): the next call on the
\* thread does not find a trap that is not its own.
THEOREM CallsLeaveFlagsClean == Spec => []FlagsClean
<1>1. Init => FlagsInv
  <2>1. IsFlags(NoFlags) /\ ~NoFlags.trap
    BY Zenon DEF IsFlags, NoFlags
  <2>2. [kind |-> "none"].kind = "none"
    BY SMTT(60)
  <2> QED
    BY <2>1, <2>2, ProgramsLeaf, ZenonT(60) DEF Init, FlagsInv, Shape, Idle
<1>2. FlagsInv /\ [Next]_vars => FlagsInv'
  BY StepsKeep, SMTT(60)
<1>3. FlagsInv => FlagsClean
  BY Zenon DEF FlagsInv, FlagsClean, Idle
<1> QED
  BY <1>1, <1>2, <1>3, PTL DEF Spec
=============================================================================
