--------------------------- MODULE LowerSim_proof ---------------------------
(***************************************************************************)
(* A run of lowered code that traps may be repeated by the stock executor: *)
(* Repeatable holds for every width, page size and choice of operands.     *)
(***************************************************************************)
EXTENDS LowerSim, TLAPS

\* The fields of the kernel's state, and the ones no destination of an arm is.
KernelFields == {"slots", "A0", "A1", "A2", "memory", "globals", "trap", "did", "code", "taken"}
Kept(s, st) ==
    /\ DOMAIN s = KernelFields
    /\ s.memory = st.memory /\ s.globals = st.globals /\ s.did = st.did
    /\ s.trap = st.trap /\ s.code = st.code

\* The state with its trap flag set, and with a flagged write.
WithTrap(st, trap) == [st EXCEPT !.trap = trap]
WithStore(st, m) == [st EXCEPT !.memory = m, !.did = TRUE]

Trapped(st) == st.trap = TRUE \/ st.code # "None"
Untouched == k.memory = entry.memory /\ k.globals = entry.globals
Writing == \E j \in 1 .. Len(todo) : Kind(todo[j]) \in Writers
IsCode(code) == code \in Seq({code[j] : j \in 1 .. Len(code)})

\* The state of the kernel has its fields; the code left is executable, with an
\* instruction that writes only as the last one after quiet ones; while one is to
\* come nothing has trapped, and once one has written no code is left; a trap
\* has changed nothing and a changed memory is flagged.
RepeatInv ==
    /\ DOMAIN k = KernelFields /\ k.trap \in BOOLEAN /\ k.did \in BOOLEAN
    /\ IsCode(todo)
    /\ \A j \in 1 .. Len(todo) : IsArm(K!Arms[todo[j][1]])
    /\ WritesLast(todo)
    /\ Writing => ~Trapped(k)
    /\ ~Untouched => todo = <<>>
    /\ Trapped(k) => Untouched
    /\ k.memory # entry.memory => k.did = TRUE

-----------------------------------------------------------------------------
\* Putting a result into its place leaves memory, globals and the trap flags alone (`Put`).
LEMMA PutKeeps ==
    ASSUME NEW st, DOMAIN st = KernelFields, NEW P, NEW v,
           NEW dst, dst \in {"slot", "both", "A0", "A1", "A2"}
    PROVE  Kept(K!Put(st, P, dst, v), st)
<1>1. CASE dst = "slot"
    BY <1>1, SMTT(60) DEF K!Put, Kept, KernelFields
<1>2. CASE dst = "both"
    BY <1>2, ZenonT(60) DEF K!Put, Kept, KernelFields
<1>3. CASE dst = "A0"
    BY <1>3, SMTT(60) DEF K!Put, Kept, KernelFields
<1>4. CASE dst = "A1"
    BY <1>4, SMTT(60) DEF K!Put, Kept, KernelFields
<1>5. CASE dst = "A2"
    BY <1>5, SMTT(60) DEF K!Put, Kept, KernelFields
<1> QED
    BY <1>1, <1>2, <1>3, <1>4, <1>5, SMTT(60)

\* An arm that only computes keeps memory, globals and the trap flags (the moves and the arithmetic
\* of `wasm_mainloop`, select, shift, global_get and memory.size).
LEMMA ComputeKeeps ==
    ASSUME NEW st, DOMAIN st = KernelFields, NEW P, IsArm(K!Arms[P[1]]),
           Kind(P) \in {"alu", "move", "global_get", "select", "shr_mask", "memory_size"}
    PROVE  Kept(K!Step(st, P), st)
<1> DEFINE a == K!Arms[P[1]]
<1>1. a.dst \in {"slot", "both", "A0", "A1", "A2"}
    BY SMTT(60) DEF IsArm, Putting, NotPutting, Kind
<1>2. \A v : Kept(K!Put(st, P, a.dst, v), st)
    BY <1>1, PutKeeps, SMTT(60)
<1>3. \E v : K!Step(st, P) = K!Put(st, P, a.dst, v)
    BY Zenon DEF K!Step, Kind
<1> QED
    BY <1>2, <1>3, SMTT(60)

\* A residual helper keeps memory and globals and may record a trap (`set_residual_trap`).
LEMMA ResidualKeeps ==
    ASSUME NEW st, DOMAIN st = KernelFields, NEW P, IsArm(K!Arms[P[1]]), Kind(P) = "residual"
    PROVE  \E s, code : Kept(s, st) /\ K!Step(st, P) = K!set_residual_trap(s, code)
<1> DEFINE a == K!Arms[P[1]]
<1>1. a.dst \in {"slot", "both", "A0", "A1", "A2"}
    BY SMTT(60) DEF IsArm, Putting, NotPutting, Kind
<1>2. \A v : Kept(K!Put(st, P, a.dst, v), st)
    BY <1>1, PutKeeps, SMTT(60)
<1>3. \E v, code : K!Step(st, P) = K!set_residual_trap(K!Put(st, P, a.dst, v), code)
    BY Zenon DEF K!Step, Kind
<1> QED
    BY <1>2, <1>3, ZenonT(60)

\* A load keeps memory and globals and may set the trap flag (`kernel_load`).
LEMMA LoadKeeps ==
    ASSUME NEW st, DOMAIN st = KernelFields, NEW P, IsArm(K!Arms[P[1]]), Kind(P) = "load"
    PROVE  \E s : \E trap \in BOOLEAN : Kept(s, st) /\ K!Step(st, P) = WithTrap(s, trap)
<1> DEFINE a == K!Arms[P[1]]
<1>1. a.dst \in {"slot", "both", "A0", "A1", "A2"}
    BY SMTT(60) DEF IsArm, Putting, NotPutting, Kind
<1>2. \A v : Kept(K!Put(st, P, a.dst, v), st)
    BY <1>1, PutKeeps, SMTT(60)
<1>3. K!Step(st, P) = K!kernel_load(st, P, a)
    BY Zenon DEF K!Step, Kind
<1> DEFINE ea == K!Wrap(K!W, K!Zx32(st.A0) + P[2])
           trap == st.trap \/ K!OutOfBounds(st, ea, K!Bytes(a.ty))
           v == IF trap THEN 0 ELSE K!Cast(a.ty, "i64", K!FromLe(st.memory, ea, K!Bytes(a.ty)))
<1>4. K!kernel_load(st, P, a) = WithTrap(K!Put(st, P, a.dst, v), trap)
    BY Zenon DEF K!kernel_load, WithTrap
<1>5. trap \in BOOLEAN
    BY SMTT(60)
<1> HIDE DEF trap, v
<1>6. Kept(K!Put(st, P, a.dst, v), st)
    BY <1>2, SMTT(60)
<1> QED
    BY <1>3, <1>4, <1>5, <1>6, ZenonT(60)

\* A branch changes where the code goes on, and nothing else (`br_*`, `br_table`).
LEMMA BranchKeeps ==
    ASSUME NEW st, DOMAIN st = KernelFields, NEW P, Kind(P) \in {"branch", "branch_table"}
    PROVE  Kept(K!Step(st, P), st)
<1>1. K!Step(st, P) = st \/ \E to : K!Step(st, P) = [st EXCEPT !.taken = to]
    BY Zenon DEF K!Step, Kind
<1>2. Kept(st, st) /\ \A to : Kept([st EXCEPT !.taken = to], st)
    BY DEF Kept, KernelFields
<1> QED
    BY <1>1, <1>2, SMTT(60)

\* An untrapped instruction that writes to memory traps and writes nothing, or else flags what it
\* writes (`kernel_store`, `mem_copy_within`).
LEMMA StoreFlags ==
    ASSUME NEW st, DOMAIN st = KernelFields, NEW P, Kind(P) = "store" \/ Kind(P) = "copy_within",
           ~Trapped(st), st.trap \in BOOLEAN
    PROVE  K!Step(st, P) = WithTrap(st, TRUE) \/ \E m : K!Step(st, P) = WithStore(st, m)
<1> DEFINE a == K!Arms[P[1]]
<1>0. st.trap = FALSE
    BY DEF Trapped
<1>1. CASE Kind(P) = "store"
  <2>1. K!Step(st, P) = K!kernel_store(st, P, a)
    BY <1>1, Zenon DEF K!Step, Kind
  <2>2. K!kernel_store(st, P, a) = WithTrap(st, TRUE) \/ \E m : K!kernel_store(st, P, a) = WithStore(st, m)
    BY <1>0, Zenon DEF K!kernel_store, WithTrap, WithStore
  <2> QED
    BY <2>1, <2>2, Zenon
<1>2. CASE Kind(P) = "copy_within"
  <2>1. K!Step(st, P) = K!mem_copy_within(st, P)
    BY <1>2, Zenon DEF K!Step, Kind
  <2>2. \/ K!mem_copy_within(st, P) = WithTrap(st, TRUE)
        \/ \E m : K!mem_copy_within(st, P) = [st EXCEPT !.did = TRUE, !.memory = m]
    BY Zenon DEF K!mem_copy_within, WithTrap
  <2>3. \A m : [st EXCEPT !.did = TRUE, !.memory = m] = WithStore(st, m)
    BY ZenonT(60) DEF WithStore
  <2> QED
    BY <2>1, <2>2, <2>3, ZenonT(60)
<1> QED
    BY <1>1, <1>2, ZenonT(60)

-----------------------------------------------------------------------------
\* A function on 1 .. n is a sequence of its values.
LEMMA FunctionIsCode ==
    ASSUME NEW s, NEW n \in Nat, s \in [1 .. n -> {s[j] : j \in 1 .. n}]
    PROVE  Len(s) = n /\ IsCode(s)
<1> DEFINE R == {s[j] : j \in 1 .. n}
<1>1. s \in Seq(R) /\ Len(s) = n
    <2> HIDE DEF R
    <2>1. s \in [1 .. n -> R]
        BY SMTT(60) DEF R
    <2> QED
        BY <2>1, SMTT(60)
<1>2. R = {s[j] : j \in 1 .. Len(s)}
    BY <1>1, SMTT(60)
<1> QED
    BY <1>1, <1>2, ZenonT(60) DEF IsCode

\* The code of a lowering has arms and writes last, whatever its operands (`prepass`).
LEMMA LoweredCode ==
    ASSUME NEW i, NEW r \in RowSet
    PROVE  LET code == Instantiate(i, r[3])
           IN  /\ IsCode(code) /\ WritesLast(code)
               /\ \A j \in 1 .. Len(code) : IsArm(K!Arms[code[j][1]])
<1> DEFINE code == Instantiate(i, r[3])
           n == Len(r[3])
<1>1. n \in Nat /\ Executable(r[3]) /\ WritesLast(r[3])
    BY SimAssumption, LowerAssumption, SMTT(60)
<1>2. code \in [1 .. n -> {code[j] : j \in 1 .. n}]
    BY ZenonT(60) DEF Instantiate
<1>3. Len(code) = n /\ IsCode(code)
  <2> HIDE DEF code, n
  <2> QED
    BY <1>1, <1>2, FunctionIsCode, ZenonT(60)
<1>4. ASSUME NEW j \in 1 .. n
      PROVE  code[j][1] = r[3][j][1]
    BY <1>1, SMTT(60) DEF Instantiate, Executable
<1>5. \A j \in 1 .. n : Kind(code[j]) = Kind(r[3][j])
    BY <1>4, SMTT(60) DEF Kind
<1>6. WritesLast(code)
    BY <1>1, <1>3, <1>5, SMTT(60) DEF WritesLast
<1>7. \A j \in 1 .. n : IsArm(K!Arms[code[j][1]])
    BY <1>1, <1>4, SMTT(60) DEF Executable
<1> QED
    BY <1>3, <1>6, <1>7, SMTT(60)

\* The kernel's state at the start of a lowering: nothing has trapped or been stored.
LEMMA InitRepeat == Init => RepeatInv
<1> SUFFICES ASSUME Init PROVE RepeatInv
    BY SMTT(60)
<1>1. PICK r \in RowSet : \E ops : todo = Instantiate(ins, r[3]) /\ k = KernelState(ops) /\ entry = k
    BY SMTT(60) DEF Init
<1>0. PICK ops : todo = Instantiate(ins, r[3]) /\ k = KernelState(ops) /\ entry = k
    BY <1>1, SMTT(60)
<1>2. /\ DOMAIN k = KernelFields /\ k.trap = FALSE /\ k.did = FALSE /\ k.code = "None"
    BY <1>0, SMTT(60) DEF KernelState, KernelFields
<1>3. /\ IsCode(todo) /\ WritesLast(todo)
      /\ \A j \in 1 .. Len(todo) : IsArm(K!Arms[todo[j][1]])
    BY <1>0, LoweredCode, ZenonT(60)
<1> QED
    BY <1>0, <1>2, <1>3, ZenonT(60) DEF RepeatInv, Trapped, Untouched

\* What is left of the code after a turn: the rest, which keeps its order.
LEMMA RestOfCode ==
    ASSUME NEW code, IsCode(code), code # <<>>, WritesLast(code),
           \A j \in 1 .. Len(code) : IsArm(K!Arms[code[j][1]])
    PROVE  /\ Len(code) \in Nat \ {0} /\ Head(code) = code[1]
           /\ Tail(code) \in Seq({code[j] : j \in 1 .. Len(code)}) /\ Len(Tail(code)) = Len(code) - 1
           /\ \A j \in 1 .. Len(Tail(code)) : Tail(code)[j] = code[j + 1]
           /\ IsCode(Tail(code)) /\ WritesLast(Tail(code))
           /\ \A j \in 1 .. Len(Tail(code)) : IsArm(K!Arms[Tail(code)[j][1]])
<1> DEFINE R == {code[j] : j \in 1 .. Len(code)}
           t == Tail(code)
<1>1. code \in Seq(R)
    BY SMTT(60) DEF IsCode
<1> HIDE DEF R
<1>2. /\ Len(code) \in Nat \ {0} /\ Head(code) = code[1]
      /\ t \in Seq(R) /\ Len(t) = Len(code) - 1
      /\ \A j \in 1 .. Len(t) : t[j] = code[j + 1]
    BY <1>1, SMTT(60)
<1> HIDE DEF t
<1>3. t \in [1 .. Len(t) -> {t[j] : j \in 1 .. Len(t)}]
    BY <1>2, SMTT(60)
<1>4. Len(t) \in Nat
    BY <1>2, SMTT(60)
<1>7. IsCode(t)
    BY <1>3, <1>4, FunctionIsCode, ZenonT(60)
<1>5. WritesLast(t)
  <2> SUFFICES ASSUME NEW j \in 1 .. Len(t), Kind(t[j]) \in Writers
               PROVE  j = Len(t) /\ \A i \in 1 .. j - 1 : Kind(t[i]) \in Quiet
    BY DEF WritesLast
  <2>1. t[j] = code[j + 1] /\ j + 1 \in 1 .. Len(code)
    BY <1>2, SMTT(60)
  <2>2. j + 1 = Len(code) /\ \A i \in 1 .. (j + 1) - 1 : Kind(code[i]) \in Quiet
    BY <2>1, SMTT(60) DEF WritesLast
  <2>3. ASSUME NEW i \in 1 .. j - 1
        PROVE  Kind(t[i]) \in Quiet
    <3>1. t[i] = code[i + 1] /\ i + 1 \in 1 .. (j + 1) - 1
      BY <1>2, SMTT(60)
    <3> QED
      BY <2>2, <3>1, SMTT(60)
  <2> QED
    BY <1>2, <2>2, <2>3, SMTT(60)
<1>6. \A j \in 1 .. Len(t) : IsArm(K!Arms[t[j][1]])
    BY <1>2, SMTT(60)
<1> QED
    BY <1>2, <1>5, <1>6, <1>7, SMTT(60) DEF t, R

\* A turn of the kernel's loop keeps RepeatInv (`wasm_mainloop`).
LEMMA TurnRepeat == RepeatInv /\ Turn => RepeatInv'
<1> SUFFICES ASSUME RepeatInv, Turn PROVE RepeatInv'
    OBVIOUS
<1> DEFINE P == todo[1]
<1>0. P = todo[1]
    OBVIOUS
<1> HIDE DEF P
<1>1. /\ Len(todo) \in Nat \ {0} /\ Head(todo) = P
      /\ Len(todo') = Len(todo) - 1 /\ todo' \in Seq({todo[j] : j \in 1 .. Len(todo)})
      /\ \A j \in 1 .. Len(todo') : todo'[j] = todo[j + 1]
      /\ IsCode(todo') /\ WritesLast(todo')
      /\ \A j \in 1 .. Len(todo') : IsArm(K!Arms[todo'[j][1]])
    BY <1>0, RestOfCode, ZenonT(60) DEF RepeatInv, Turn
<1>2. /\ k' = K!Step(k, P) /\ entry' = entry
      /\ DOMAIN k = KernelFields /\ k.trap \in BOOLEAN /\ k.did \in BOOLEAN
      /\ k.memory = entry.memory /\ k.globals = entry.globals
    BY <1>1, Zenon DEF RepeatInv, Turn, Untouched
<1>3. IsArm(K!Arms[P[1]])
    BY <1>0, <1>1, SMTT(60) DEF RepeatInv
<1>4. \A j \in 1 .. Len(todo) : Kind(todo[j]) \in Writers => j = Len(todo) /\ \A i \in 1 .. j - 1 : Kind(todo[i]) \in Quiet
    BY Zenon DEF RepeatInv, WritesLast
<1>5. ASSUME Writing'
      PROVE  Kind(P) \in Quiet /\ ~Trapped(k)
  <2>1. PICK j \in 1 .. Len(todo') : Kind(todo'[j]) \in Writers
    BY <1>5, SMTT(60) DEF Writing, Kind
  <2>2. j + 1 \in 1 .. Len(todo) /\ 1 \in 1 .. (j + 1) - 1 /\ todo'[j] = todo[j + 1]
    BY <1>1, SMTT(60)
  <2>3. Kind(todo[j + 1]) \in Writers
    BY <2>1, <2>2, ZenonT(60)
  <2>4. Kind(P) \in Quiet
    BY <1>0, <1>4, <2>2, <2>3, SMTT(60)
  <2> QED
    BY <2>2, <2>3, <2>4, ZenonT(60) DEF RepeatInv, Writing
<1>6. CASE Kind(P) \in Writers
  <2>1. Len(todo) = 1 /\ ~Trapped(k)
    BY <1>0, <1>1, <1>4, <1>6, SMTT(60) DEF RepeatInv, Writing
  <2>2. todo' = <<>> /\ ~Writing'
    BY <1>1, <2>1, SMTT(60) DEF Writing
  <2>3. k.trap = FALSE /\ k.code = "None"
    BY <1>2, <2>1, SMTT(60) DEF Trapped
  <2>4. CASE Kind(P) = "global_set"
    <3>1. \E g : k' = [k EXCEPT !.globals = g]
      BY <1>2, <2>4, ZenonT(60) DEF K!Step, Kind
    <3> QED
      BY <1>1, <1>2, <2>2, <2>3, <3>1, SMTT(60) DEF RepeatInv, Trapped, Untouched, KernelFields
  <2>5. CASE Kind(P) \in {"store", "copy_within"}
    <3>0. Kind(P) = "store" \/ Kind(P) = "copy_within"
      BY <2>5, SMTT(60)
    <3>1. K!Step(k, P) = WithTrap(k, TRUE) \/ \E m : K!Step(k, P) = WithStore(k, m)
      BY <1>2, <2>1, <3>0, StoreFlags, ZenonT(60)
    <3>2. CASE K!Step(k, P) = WithTrap(k, TRUE)
      BY <1>1, <1>2, <2>2, <2>3, <3>2, SMTT(60) DEF RepeatInv, Trapped, Untouched, KernelFields, WithTrap
    <3>3. CASE \E m : K!Step(k, P) = WithStore(k, m)
      BY <1>1, <1>2, <2>2, <2>3, <3>3, SMTT(60) DEF RepeatInv, Trapped, Untouched, KernelFields, WithStore
    <3> QED
      BY <3>1, <3>2, <3>3, ZenonT(60)
  <2> QED
    BY <1>6, <2>4, <2>5, SMTT(60) DEF Writers
<1>7. CASE Kept(k', k)
  <2>1. Trapped(k') = Trapped(k)
    BY <1>7, SMTT(60) DEF Kept, Trapped
  <2> QED
    BY <1>1, <1>2, <1>5, <1>7, <2>1, SMTT(60) DEF RepeatInv, Untouched, Kept
<1>8. CASE Kind(P) \in {"residual", "load"}
  <2>1. ~Writing'
    BY <1>5, <1>8, SMTT(60) DEF Quiet
  <2>2. /\ DOMAIN k' = KernelFields /\ k'.trap \in BOOLEAN /\ k'.did = k.did
        /\ k'.memory = k.memory /\ k'.globals = k.globals
    <3>1. CASE Kind(P) = "residual"
      <4>1. PICK s, code : Kept(s, k) /\ k' = K!set_residual_trap(s, code)
        BY <1>2, <1>3, <3>1, ResidualKeeps, ZenonT(60)
      <4> QED
        BY <1>2, <4>1, SMTT(60) DEF K!set_residual_trap, Kept, KernelFields
    <3>2. CASE Kind(P) = "load"
      <4>1. PICK s : \E trap \in BOOLEAN : Kept(s, k) /\ k' = WithTrap(s, trap)
        BY <1>2, <1>3, <3>2, LoadKeeps, ZenonT(60)
      <4> QED
        BY <1>2, <4>1, SMTT(60) DEF Kept, KernelFields, WithTrap
    <3> QED
      BY <1>8, <3>1, <3>2, SMTT(60)
  <2> QED
    BY <1>1, <1>2, <2>1, <2>2, SMTT(60) DEF RepeatInv, Untouched
<1>9. CASE Kind(P) \in {"alu", "move", "global_get", "select", "shr_mask", "memory_size"}
    BY <1>2, <1>3, <1>7, <1>9, ComputeKeeps, ZenonT(60)
<1>10. CASE Kind(P) \in {"branch", "branch_table"}
    BY <1>2, <1>7, <1>10, BranchKeeps, SMTT(60)
<1>11. Kind(P) \in Putting \cup NotPutting
    BY <1>3, SMTT(60) DEF IsArm, Kind
<1> QED
    BY <1>6, <1>8, <1>9, <1>10, <1>11, SMTT(60) DEF Putting, NotPutting, Writers

\* Lowered code that traps has changed neither memory nor globals, and a changed memory is flagged in
\* `mem_trap_did`: for every width, page size, operand and row of the lowering table.
THEOREM TrapsAreRepeatable == Spec => []Repeatable
<1>1. RepeatInv /\ UNCHANGED vars => RepeatInv'
    BY Zenon DEF RepeatInv, vars, Untouched, Writing
<1>2. RepeatInv /\ [Next]_vars => RepeatInv'
    BY <1>1, TurnRepeat, SMTT(60) DEF Next
<1>3. RepeatInv => Repeatable
  <2> SUFFICES ASSUME RepeatInv PROVE Repeatable
    BY SMTT(60)
  <2>1. KernelTrap # "None" => Trapped(k)
    BY DEF KernelTrap, Trapped, RepeatInv
  <2> QED
    BY <2>1, SMTT(60) DEF RepeatInv, Repeatable, Untouched
<1> QED
    BY InitRepeat, <1>2, <1>3, PTL DEF Spec

=============================================================================
