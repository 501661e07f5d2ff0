------------------------ MODULE Instantiation_proof ------------------------
(***************************************************************************)
(* What instantiations, the instructions of the instances and the host's   *)
(* calls keep true of a store, for every set of modules, limiter and fuel. *)
(***************************************************************************)
EXTENDS Instantiation_steps, Instantiation_segments

-----------------------------------------------------------------------------
(* The beginning. *)

\* An empty store.
LEMMA InitKeeps ==
    ASSUME Init
    PROVE  IInv
<1>1. /\ memories = <<>> /\ tables = <<>> /\ elems = <<>> /\ datas = <<>>
      /\ funcs = <<>> /\ instances = <<>>
      /\ meter = [bytes |-> 0, elements |-> 0] /\ failures = 0 /\ build = NotBuilding
  BY Zenon DEF Init, RuntimeInit
<1>2. fuel \in Fuels /\ limits \in Limits
  <2>1. PICK choice \in StoreChoices : fuel = choice.fuel /\ limits = choice.limits
    BY Zenon DEF Init, RuntimeInit
  <2>2. choice \in [fuel : Fuels, limits : Limits]
    BY OperandsAssumption, Zenon
  <2>3. choice.fuel \in Fuels /\ choice.limits \in Limits
    BY <2>2, Zenon
  <2> QED
    BY <2>1, <2>3, Zenon
<1>3. NotBuilding \in Builds /\ NotBuilding.at = 0
  BY DEF NotBuilding, Builds, Uninitialized, Entities
<1>4. Typed
  <2>1. /\ memories \in Seq(Memories) /\ tables \in Seq(Tables)
        /\ elems \in Seq(Seq(Nat)) /\ datas \in Seq(Seq(Nat))
        /\ funcs \in Seq(FuncTypes) /\ instances \in Seq(InstanceTypes)
    BY <1>1, SMTT(60)
  <2>2. meter \in [bytes : Int, elements : Int] /\ failures \in Nat
    BY <1>1, SMTT(60)
  <2> QED
    BY <1>1, <1>2, <1>3, <2>1, <2>2, ZenonT(60) DEF Typed
<1>5. \A x : x \notin DOMAIN <<>>
  OBVIOUS
<1>6. WithinBounds
  <2>1. limits.on => Len(instances) <= limits.instances
    BY <1>1, <1>2, SMTT(60) DEF Limits
  <2> QED
    BY <1>1, <1>5, <2>1, ZenonT(60) DEF WithinBounds
<1>7. Accounts
  <2>1. [n \in DOMAIN <<>> |-> Len(memories[n].data)] = <<>> /\ [n \in DOMAIN <<>> |-> Len(tables[n].elements)] = <<>>
    OBVIOUS
  <2>2. Total(<<>>) = 0
    <3>1. <<>> \in Seq(Int) /\ Len(<<>>) = 0
      OBVIOUS
    <3> QED
      BY <3>1, TotalIs, Zenon DEF Sums
  <2>3. TotalBytes = 0 /\ TotalElements = 0
    BY <1>1, <2>1, <2>2, ZenonT(60) DEF TotalBytes, TotalElements
  <2> QED
    BY <1>1, <2>3, Zenon DEF Accounts
<1>8. Resolved /\ References
  BY <1>1, <1>5, Zenon DEF Resolved, References
<1>9. Underway /\ OwnReferences /\ Imported
  BY <1>1, <1>3, <1>5, Zenon DEF Underway, OwnReferences, Imported
<1> QED
  BY <1>4, <1>6, <1>7, <1>8, <1>9, ZenonT(60) DEF IInv

-----------------------------------------------------------------------------
(* The items of a kind. *)

\* An instantiation begins with its module's tables and its builder.
LEMMA BuildBegins ==
    ASSUME NEW e \in Entities, NEW ts \in Seq(Tables), NEW ms \in Seq(Memories)
    PROVE  [at |-> 1, next |-> 1, entity |-> e, tables |-> ts, memories |-> ms] \in Builds
<1>1. 1 \in 0..4 /\ 1 \in Nat
  OBVIOUS
<1> QED
  BY <1>1, Zenon DEF Builds

\* OfKind and NumberOf agree about imports and what is given for them.
LEMMA OfKindIs ==
    ASSUME NEW externs \in Seq(Externals), NEW imports, NEW kind,
           Len(imports) = Len(externs), \A n \in 1..Len(externs) : imports[n].kind = externs[n].kind
    PROVE  /\ OfKind(externs, kind) \in
                Seq({externs[n].index : n \in {m \in 1..Len(externs) : externs[m].kind = kind}})
           /\ Len(OfKind(externs, kind)) = NumberOf(imports, kind)
           /\ NumberOf(imports, kind) \in Nat
<1> DEFINE len == Len(externs)
           V == {externs[n].index : n \in {m \in 1..len : externs[m].kind = kind}}
           seqs == [i \in 1..len |-> [v \in Seq(V) |->
                        IF externs[i].kind = kind THEN Append(v, externs[i].index) ELSE v]]
           nums == [i \in 1..len |-> [v \in Nat |-> IF externs[i].kind = kind THEN v + 1 ELSE v]]
           IsSeqs(f) == f = [n \in 0..len |->
                            IF n = 0 THEN <<>>
                            ELSE IF externs[n].kind = kind THEN Append(f[n - 1], externs[n].index) ELSE f[n - 1]]
           IsNums(f) == f = [n \in 0..len |->
                            IF n = 0 THEN 0 ELSE IF imports[n].kind = kind THEN f[n - 1] + 1 ELSE f[n - 1]]
           s == CHOOSE f : IsSeqs(f)
           c == CHOOSE f : IsNums(f)
<1>1. len \in Nat /\ seqs \in [1..len -> [Seq(V) -> Seq(V)]] /\ nums \in [1..len -> [Nat -> Nat]]
  OBVIOUS
<1>2. \A i \in 1..len : /\ \A v \in Seq(V) : seqs[i][v] = IF externs[i].kind = kind THEN Append(v, externs[i].index) ELSE v
                        /\ \A v \in Nat : nums[i][v] = IF externs[i].kind = kind THEN v + 1 ELSE v
  BY Zenon
<1>3. OfKind(externs, kind) = s[len]
  BY Zenon DEF OfKind
<1>4. NumberOf(imports, kind) = c[len]
  BY Zenon DEF NumberOf
<1>5. \A i \in 0..len : i = 0 \/ (i \in 1..len /\ i - 1 \in 0..len)
  BY <1>1, SMTT(60)
<1>6. \A i \in 1..len : externs[i].kind = kind => externs[i].index \in V
  BY Zenon
<1> HIDE DEF len, V, seqs, nums
<1>7. PICK f \in [0..len -> Seq(V)] : IsRecursive(f, len, <<>>, seqs)
  <2>1. <<>> \in Seq(V)
    OBVIOUS
  <2> QED
    BY <1>1, <2>1, RecursionExists, ZenonT(60)
<1>8. PICK g \in [0..len -> Nat] : IsRecursive(g, len, 0, nums)
  <2>1. 0 \in Nat
    BY Zenon
  <2> QED
    BY <1>1, <2>1, RecursionExists, ZenonT(60)
<1>9. IsSeqs(f)
  <2>1. \A n \in 0..len : f[n] = IF n = 0 THEN <<>>
                          ELSE IF externs[n].kind = kind THEN Append(f[n - 1], externs[n].index) ELSE f[n - 1]
    <3>1. ASSUME NEW n \in 1..len, n - 1 \in 0..len
          PROVE  f[n] = IF externs[n].kind = kind THEN Append(f[n - 1], externs[n].index) ELSE f[n - 1]
      <4>1. f[n] = seqs[n][f[n - 1]] /\ f[n - 1] \in Seq(V)
        BY <1>7, <3>1, ZenonT(60) DEF IsRecursive
      <4> QED
        BY <1>2, <4>1, Zenon
    <3>2. f[0] = <<>> /\ \A n \in 1..len : n # 0
      BY <1>1, <1>7, SMTT(60) DEF IsRecursive
    <3> QED
      BY <1>5, <3>1, <3>2, ZenonT(60)
  <2>2. f = [n \in 0..len |-> f[n]]
    BY Zenon
  <2> QED
    BY <2>1, <2>2, Zenon
<1>10. IsNums(g)
  <2>1. \A n \in 0..len : g[n] = IF n = 0 THEN 0 ELSE IF imports[n].kind = kind THEN g[n - 1] + 1 ELSE g[n - 1]
    <3>1. ASSUME NEW n \in 1..len, n - 1 \in 0..len
          PROVE  g[n] = IF imports[n].kind = kind THEN g[n - 1] + 1 ELSE g[n - 1]
      <4>1. g[n] = nums[n][g[n - 1]] /\ g[n - 1] \in Nat
        BY <1>8, <3>1, Zenon DEF IsRecursive
      <4>2. imports[n].kind = externs[n].kind
        BY Zenon DEF len
      <4> QED
        BY <1>2, <4>1, <4>2, ZenonT(60)
    <3>2. g[0] = 0 /\ \A n \in 1..len : n # 0
      BY <1>1, <1>8, SMTT(60) DEF IsRecursive
    <3> QED
      BY <1>5, <3>1, <3>2, ZenonT(60)
  <2>2. g = [n \in 0..len |-> g[n]]
    BY Zenon
  <2> QED
    BY <2>1, <2>2, Zenon
<1>11. IsSeqs(s) /\ IsNums(c)
  <2> HIDE DEF IsSeqs, IsNums
  <2> QED
    BY <1>9, <1>10, ZenonT(60)
<1> HIDE DEF s, c
<1>12. /\ s[0] = <<>> /\ c[0] = 0
       /\ \A n \in 1..len : s[n] = IF externs[n].kind = kind THEN Append(s[n - 1], externs[n].index) ELSE s[n - 1]
       /\ \A n \in 1..len : c[n] = IF externs[n].kind = kind THEN c[n - 1] + 1 ELSE c[n - 1]
  <2>1. 0 \in 0..len /\ \A i \in 1..len : i \in 0..len /\ i # 0
    BY <1>1, SMTT(60)
  <2> QED
    BY <1>11, <2>1, ZenonT(60) DEF len
<1> DEFINE S == {n \in 0..len : s[n] \in Seq(V) /\ c[n] \in Nat /\ Len(s[n]) = c[n]}
<1>13. 0..len \subseteq S
  <2>1. 0 \in S
    <3>1. <<>> \in Seq(V) /\ Len(<<>>) = 0 /\ 0 \in Nat /\ 0 \in 0..len
      BY <1>1, SMTT(60)
    <3> QED
      BY <1>12, <3>1, ZenonT(60)
  <2>2. ASSUME NEW n \in 1..len, n - 1 \in S PROVE n \in S
    <3>1. s[n - 1] \in Seq(V) /\ c[n - 1] \in Nat /\ Len(s[n - 1]) = c[n - 1] /\ n \in 0..len
      BY <1>1, <2>2, SMTT(60)
    <3>2. \A q \in Seq(V) : \A x \in V : Append(q, x) \in Seq(V) /\ Len(Append(q, x)) = Len(q) + 1
      BY SMTT(60)
    <3>3. \A k \in Nat : k + 1 \in Nat
      OBVIOUS
    <3> QED
      BY <1>6, <1>12, <3>1, <3>2, <3>3, ZenonT(60)
  <2> HIDE DEF S
  <2> QED
    BY <1>1, <2>1, <2>2, Upto, ZenonT(60)
<1>14. len \in 0..len
  BY <1>1, SMTT(60)
<1> QED
  BY <1>3, <1>4, <1>13, <1>14, ZenonT(60) DEF len, V

\* An operation keeps the invariant.
LEMMA OperationKeeps ==
    ASSUME IInv, Operation, build' = build
    PROVE  IInv'
<1>1. StoreKept
  BY StoreStepKeeps, ZenonT(60) DEF Operation
<1>2. UNCHANGED <<funcs, instances, build>>
  BY Zenon DEF Operation
<1>3. InstancesKept
  BY <1>1, <1>2, InstancesSame, ZenonT(60)
<1> QED
  BY <1>1, <1>3, Together, ZenonT(60) DEF Operation

-----------------------------------------------------------------------------
(* The steps of an instantiation. *)

\* A step that only sets the outcome of an instance, with no instantiation after it.
LEMMA OutcomeSet ==
    ASSUME IInv, StoreKept, funcs' = funcs, NEW i \in DOMAIN instances, NEW error \in Outcomes,
           instances' = [instances EXCEPT ![i].outcome = error], build' \in Builds, build'.at = 0,
           Ready(i, instances, AtSegments) => Ready(i, instances', FALSE),
           AtSegments => i = Len(instances)
    PROVE  InstancesKept
<1>1. /\ \A j \in DOMAIN instances :
            /\ instances[j] \in InstanceTypes /\ instances[j].entity \in Entities
            /\ instances[j].externs \in Seq(Externals)
            /\ instances[j].module \in DOMAIN Modules
      /\ DOMAIN instances = 1..Len(instances) /\ Len(instances) \in Nat
  BY InstanceAt, Zenon
<1>2. instances' \in Seq(InstanceTypes)
  <2>1. instances \in Seq(InstanceTypes)
    BY Zenon DEF IInv, Typed
  <2>2. [instances[i] EXCEPT !.outcome = error] \in InstanceTypes
    BY <1>1, ZenonT(60) DEF InstanceTypes
  <2> QED
    BY <2>1, <2>2, SMTT(60)
<1>3. DOMAIN instances' = DOMAIN instances /\ Len(instances') = Len(instances)
  <2>1. DOMAIN instances' = 1..Len(instances') /\ Len(instances') \in Nat
    BY <1>2, SMTT(60)
  <2>2. DOMAIN instances' = DOMAIN instances
    BY Zenon
  <2> QED
    BY <1>1, <2>1, <2>2, SMTT(60)
<1>4. ASSUME NEW j \in DOMAIN instances
      PROVE  /\ instances'[j].initialized = instances[j].initialized /\ instances'[j].entity = instances[j].entity
             /\ instances'[j].module = instances[j].module /\ instances'[j].externs = instances[j].externs
             /\ j # i => instances'[j] = instances[j]
  BY <1>1, Zenon DEF InstanceTypes
<1>5. AtSegments' = FALSE
  BY DEF AtSegments
<1>6. FuncsKept /\ ReadyKept
  <2>1. FuncsKept
    BY Zenon DEF FuncsKept
  <2>2. ASSUME NEW o \in DOMAIN instances, Ready(o, instances, AtSegments), o # i
        PROVE  Ready(o, instances', AtSegments')
    BY <1>4, <2>2, ZenonT(60) DEF Ready
  <2>3. Ready(i, instances, AtSegments) => Ready(i, instances', AtSegments')
    BY <1>5, ZenonT(60)
  <2> QED
    BY <2>1, <2>2, <2>3, ZenonT(60) DEF ReadyKept
<1>7. /\ funcs' \in Seq(FuncTypes) /\ (limits.on => Len(instances') <= limits.instances)
      /\ \A f \in DOMAIN funcs' : funcs'[f].owner \in DOMAIN instances'
  BY <1>3, ZenonT(60) DEF IInv, Typed, WithinBounds, Resolved
<1>8. \A j \in DOMAIN instances' : Resolves(instances'[j].entity, memories', tables', elems', datas')
  BY <1>3, <1>4, ResolvesKept, ZenonT(60) DEF IInv, Resolved
<1>9. \A j \in DOMAIN instances' : \A n \in DOMAIN instances'[j].entity.funcs :
            FineAfter(instances'[j].entity.funcs[n])
  BY <1>3, <1>4, <1>6, FineKept, ZenonT(60) DEF IInv, References
<1>10. Underway' /\ OwnReferences'
  BY Zenon DEF Underway, OwnReferences
<1>11. Imported'
  <2> SUFFICES ASSUME NEW j \in DOMAIN instances, instances[j].initialized
               PROVE  Importing(instances'[j], memories', tables')
    BY <1>3, <1>4, ZenonT(60) DEF Imported
  <2>1. Importing(instances[j], memories', tables')
    BY <1>1, ImportingKept, ZenonT(60) DEF IInv, Imported
  <2> QED
    BY <1>4, <2>1, ZenonT(60) DEF Importing
<1> QED
  BY <1>2, <1>6, <1>7, <1>8, <1>9, <1>10, <1>11, ZenonT(60) DEF InstancesKept

\* A step of an instantiation allows what the action properties ask.
LEMMA InstantiatingPays ==
    ASSUME IInv, last'.op \in {"instantiate", "start"}, last'.by = "host", fuel' = fuel
    PROVE  LeavesNothing /\ Paid
<1>1. Paid
  BY HostPaid, Zenon
<1> QED
  BY <1>1, Zenon DEF LeavesNothing

\* The start function ends.
LEMMA Starts ==
    ASSUME IInv, NEW i \in DOMAIN instances, NEW error \in {"Ok", "trap"}, start(i, error),
           build.at = 0, build' = build
    PROVE  IInv' /\ LeavesNothing /\ Paid
<1>1. /\ instances[i].outcome = "starting" /\ instances' = [instances EXCEPT ![i].outcome = error]
      /\ Did("start", "host", error)
      /\ memories' = memories /\ tables' = tables /\ elems' = elems /\ datas' = datas /\ funcs' = funcs
      /\ fuel' = fuel /\ limits' = limits /\ meter' = meter /\ failures' = failures
  BY Zenon DEF start
<1>2. LeavesNothing /\ Paid
  <2>1. last'.op = "start" /\ last'.by = "host"
    BY <1>1, DidIs, ZenonT(60)
  <2> QED
    BY <1>1, <2>1, InstantiatingPays, ZenonT(60)
<1>3. StoreStep /\ RestTyped
  BY <1>1, UnchangedTyped, ZenonT(60) DEF StoreStep, RestTyped
<1>4. StoreKept
  BY <1>3, StoreStepKeeps, ZenonT(60)
<1>5. ~AtSegments /\ error \in Outcomes /\ build' \in Builds /\ build'.at = 0
  BY SMTT(60) DEF AtSegments, Outcomes, IInv, Typed, Errors
<1>6. Ready(i, instances, AtSegments) => Ready(i, instances', FALSE)
  <2>1. instances'[i].initialized = instances[i].initialized
    <3>1. instances[i] \in InstanceTypes
      BY InstanceAt, ZenonT(60)
    <3> QED
      BY <1>1, <3>1, ZenonT(60) DEF InstanceTypes
  <2>2. instances[i].outcome \notin {"ElementSegmentDoesNotFit", "OutOfBoundsAccess"}
    BY <1>1, ZenonT(60)
  <2> QED
    BY <1>5, <2>1, <2>2, ZenonT(60) DEF Ready
<1>7. InstancesKept
  BY <1>1, <1>4, <1>5, <1>6, OutcomeSet, ZenonT(60)
<1> QED
  BY <1>2, <1>3, <1>4, <1>7, Together, ZenonT(60)

\* The host's calls.
LEMMA HostCalls ==
    ASSUME IInv, HostNext, build.at = 0, build' = build
    PROVE  IInv' /\ LeavesNothing /\ Paid
<1>1. ASSUME Operation
      PROVE  IInv' /\ LeavesNothing /\ Paid
  BY <1>1, OperationKeeps, ZenonT(60) DEF Operation
<1>2. CASE \E i \in DOMAIN instances, error \in {"Ok", "trap"} : start(i, error)
  BY <1>2, Starts, ZenonT(60)
<1>3. CASE ~\E i \in DOMAIN instances, error \in {"Ok", "trap"} : start(i, error)
  <2>1. Operation
    BY <1>3, SetFuel, HostNewMemory, HostNewTable, HostGrowsMemory, HostWritesMemory, HostGrowsTable, ZenonT(60)
       DEF HostNext
  <2> QED
    BY <1>1, <2>1, ZenonT(60)
<1> QED
  BY <1>2, <1>3, ZenonT(60)

\* An instantiation that fails, after its segments have begun only with one that does not fit.
LEMMA FailsKeeps ==
    ASSUME IInv, StoreKept, RestTyped, build.at # 0, funcs' = funcs, fuel' = fuel, NEW error \in Outcomes, Fails(error),
           ~AtSegments \/ error \in {"ElementSegmentDoesNotFit", "OutOfBoundsAccess"}
    PROVE  IInv' /\ LeavesNothing /\ Paid
<1> DEFINE h == Len(instances)
<1>1. /\ instances' = [instances EXCEPT ![h].outcome = error] /\ build' = NotBuilding
      /\ Did("instantiate", "host", error)
  BY Zenon DEF Fails, Handled
<1>2. h \in DOMAIN instances /\ instances[h] \in InstanceTypes
  BY InstanceAt, Zenon
<1>3. ~instances[h].initialized /\ instances[h].outcome = "building"
  BY Zenon DEF IInv, Underway
<1>4. build' \in Builds /\ build'.at = 0
  <2>1. NotBuilding.at = 0 /\ NotBuilding \in Builds
    BY DEF NotBuilding, Builds, Uninitialized, Entities
  <2> QED
    BY <1>1, <2>1, Zenon
<1>5. instances'[h].outcome = error
  BY <1>1, <1>2, ZenonT(60) DEF InstanceTypes
<1>6. Ready(h, instances, AtSegments) => Ready(h, instances', FALSE)
  <2>1. "building" \notin {"ElementSegmentDoesNotFit", "OutOfBoundsAccess"}
    BY Zenon
  <2> QED
    BY <1>3, <1>5, <2>1, ZenonT(60) DEF Ready
<1>7. AtSegments => h = Len(instances)
  BY Zenon
<1> HIDE DEF h
<1>8. InstancesKept
  BY <1>1, <1>2, <1>4, <1>6, <1>7, OutcomeSet, ZenonT(60)
<1>9. LeavesNothing /\ Paid
  <2>1. last'.op = "instantiate" /\ last'.by = "host"
    BY <1>1, DidIs, Zenon
  <2> QED
    BY <2>1, InstantiatingPays, Zenon
<1> QED
  BY <1>8, <1>9, Together, ZenonT(60)

\* An instantiation that goes on.
LEMMA GoesOn ==
    ASSUME IInv, StoreKept, RestTyped, build.at # 0, funcs' = funcs, fuel' = fuel, instances' = instances, Going,
           build' \in Builds, build'.at # 0, AtSegments => AtSegments',
           build'.entity.funcs = build.entity.funcs, Resolves(build'.entity, memories', tables', elems', datas')
    PROVE  IInv' /\ LeavesNothing /\ Paid
<1>1. \A i \in DOMAIN instances : instances[i] \in InstanceTypes
  BY InstanceAt, Zenon
<1>2. FuncsKept /\ ReadyKept
  BY Zenon DEF FuncsKept, ReadyKept, Ready
<1>3. /\ funcs' \in Seq(FuncTypes) /\ instances' \in Seq(InstanceTypes)
      /\ limits.on => Len(instances') <= limits.instances
      /\ \A f \in DOMAIN funcs' : funcs'[f].owner \in DOMAIN instances'
  BY Zenon DEF IInv, Typed, WithinBounds, Resolved
<1>4. \A i \in DOMAIN instances' : Resolves(instances'[i].entity, memories', tables', elems', datas')
  BY ResolvesKept, Zenon DEF IInv, Resolved
<1>5. \A i \in DOMAIN instances' : \A n \in DOMAIN instances'[i].entity.funcs :
            FineAfter(instances'[i].entity.funcs[n])
  BY <1>2, FineKept, ZenonT(60) DEF IInv, References
<1>6. Underway'
  BY Zenon DEF IInv, Underway
<1>7. OwnReferences'
  <2> SUFFICES ASSUME NEW n \in DOMAIN build.entity.funcs
               PROVE  Own(build.entity.funcs[n])'
    BY Zenon DEF OwnReferences
  <2>1. Own(build.entity.funcs[n])
    BY Zenon DEF IInv, OwnReferences
  <2>2. build'.entity.funcs[n] = build.entity.funcs[n]
    BY Zenon
  <2> DEFINE r == build.entity.funcs[n]
  <2>3. CASE Fine(r)
    <3>1. FineAfter(r)
      BY <1>2, <2>3, FineKept, ZenonT(60)
    <3> QED
      BY <2>2, <3>1, ZenonT(60) DEF FineAfter, Own, Fine
  <2>4. CASE r \in DOMAIN funcs /\ funcs[r].owner = Len(instances)
    BY <2>2, <2>4, ZenonT(60) DEF Own
  <2> QED
    BY <2>1, <2>3, <2>4, ZenonT(60) DEF Own
<1>8. Imported'
  BY <1>1, ImportingKept, ZenonT(60) DEF IInv, Imported
<1>9. InstancesKept
  BY <1>2, <1>3, <1>4, <1>5, <1>6, <1>7, <1>8, ZenonT(60) DEF InstancesKept
<1>10. LeavesNothing /\ Paid
  <2>1. last'.op = "instantiate" /\ last'.by = "host"
    BY Zenon DEF Going
  <2> QED
    BY <2>1, InstantiatingPays, ZenonT(60)
<1> QED
  BY <1>9, <1>10, Together, ZenonT(60)

\* A segment copied into a memory of the store.
LEMMA MemoryCopied ==
    ASSUME IInv, NEW m, NEW offset \in Nat, NEW bytes \in Seq(Nat), meter' = meter,
           memories' = [memories EXCEPT ![m].data = copy_from_slice(@, offset, bytes)]
    PROVE  MemoryStep
<1>1. CASE m \notin DOMAIN memories
  <2>1. memories \in Seq(Memories)
    BY Zenon DEF IInv, Typed
  <2>2. memories' = memories
    BY <1>1, <2>1, SMTT(60)
  <2> QED
    BY <2>2, Zenon DEF MemoryStep, MemorySame
<1>2. CASE m \in DOMAIN memories
  <2> DEFINE data == memories[m].data
             after == copy_from_slice(data, offset, bytes)
             r == [error |-> "Ok", slice |-> after, spent |-> 0]
  <2>1. data \in Seq(Nat)
    BY <1>2, MemoryAt, ZenonT(60)
  <2>2. memories' = [memories EXCEPT ![m].data = after]
    BY <1>2, ZenonT(60)
  <2>5. Bulked(r, data, Held(bytes), NoFuel)
    BY <2>1, SegmentWrites, ZenonT(60)
  <2>4. r.slice = after
    BY ZenonT(60)
  <2> HIDE DEF after, r
  <2>6. memories' = [memories EXCEPT ![m].data = r.slice]
    BY <2>2, <2>4, ZenonT(60)
  <2> QED
    BY <1>2, <2>5, <2>6, MemoryBulked, ZenonT(60)
<1> QED
  BY <1>1, <1>2, ZenonT(60)

\* A segment of references that may be anywhere, copied into a table of the store.
LEMMA TableCopied ==
    ASSUME IInv, NEW t, NEW offset \in Nat, NEW items \in Seq(Nat), meter' = meter,
           \A n \in 1..Len(items) : Fine(items[n]),
           tables' = [tables EXCEPT ![t].elements = copy_from_slice(@, offset, items)]
    PROVE  TableStep
<1>1. CASE t \notin DOMAIN tables
  <2>1. tables \in Seq(Tables)
    BY Zenon DEF IInv, Typed
  <2>2. tables' = tables
    BY <1>1, <2>1, SMTT(60)
  <2> QED
    BY <2>2, ZenonT(60) DEF TableStep, TableSame
<1>2. CASE t \in DOMAIN tables
  <2> DEFINE elements == tables[t].elements
             after == copy_from_slice(elements, offset, items)
             r == [error |-> "Ok", slice |-> after, spent |-> 0]
  <2>1. elements \in Seq(Nat)
    BY <1>2, TableAt, ZenonT(60)
  <2>2. tables' = [tables EXCEPT ![t].elements = after]
    BY <1>2, ZenonT(60)
  <2>5. Bulked(r, elements, Held(items), NoFuel)
    BY <2>1, SegmentWrites, ZenonT(60)
  <2>4. r.slice = after
    BY Zenon
  <2> HIDE DEF after, r
  <2>6. tables' = [tables EXCEPT ![t].elements = r.slice]
    BY <2>2, <2>4, ZenonT(60)
  <2>7. \A x \in Held(items) : Fine(x)
    BY Zenon DEF Held
  <2> QED
    BY <1>2, <2>5, <2>6, <2>7, TableBulked, ZenonT(60)
<1> QED
  BY <1>1, <1>2, ZenonT(60)

\* The items of a module, as validation has left them.
LEMMA ItemIs ==
    ASSUME IInv
    PROVE  /\ More("tables") => Item \in Types /\ ValidType(Item) /\ Item.min < TableMax
           /\ More("memories") => Item \in Types /\ ValidType(Item)
           /\ More("elems") => /\ Item \in ElementSegments
                               /\ \A n \in DOMAIN Item.items : Item.items[n] <= Len(build.entity.funcs)
           /\ More("datas") => Item \in DataSegments
<1> DEFINE name == instances[Len(instances)].module
           module == Modules[name]
<1>1. build.at # 0 =>
        /\ name \in DOMAIN Modules
        /\ module \in ParsedModules
        /\ \A n \in DOMAIN module.memories : ValidType(module.memories[n])
        /\ \A n \in DOMAIN module.tables : ValidType(module.tables[n]) /\ module.tables[n].min < TableMax
        /\ \A e \in DOMAIN module.elems : \A n \in DOMAIN module.elems[e].items :
                module.elems[e].items[n] <= NumberOf(module.imports, "func") + Len(module.funcs)
  BY InstanceAt, ModulesAssumption, ZenonT(60)
<1>2. build.at # 0 => Len(build.entity.funcs) = NumberOf(module.imports, "func") + Len(module.funcs)
  BY Zenon DEF IInv, Underway
<1>3. Building = module
  BY Zenon DEF Building, Handled
<1>4. ASSUME NEW stage, More(stage)
      PROVE  build.at # 0 /\ build.next \in DOMAIN module[stage] /\ Item = module[stage][build.next]
  BY <1>3, <1>4, ZenonT(60) DEF More, At, Item
<1>5. module \in ParsedModules =>
        /\ module.tables \in Seq(Types) /\ module.memories \in Seq(Types)
        /\ module.elems \in Seq(ElementSegments) /\ module.datas \in Seq(DataSegments)
        /\ module["tables"] = module.tables /\ module["memories"] = module.memories
        /\ module["elems"] = module.elems /\ module["datas"] = module.datas
  BY Zenon DEF ParsedModules
<1> HIDE DEF module
<1>6. ASSUME More("tables") PROVE Item \in Types /\ ValidType(Item) /\ Item.min < TableMax
  <2>1. build.next \in DOMAIN module.tables /\ Item = module.tables[build.next]
    BY <1>1, <1>4, <1>5, <1>6, ZenonT(60)
  <2>2. Item \in Types
    BY <1>1, <1>4, <1>5, <1>6, <2>1, SMTT(60)
  <2> QED
    BY <1>1, <1>4, <1>6, <2>1, <2>2, ZenonT(60)
<1>7. ASSUME More("memories") PROVE Item \in Types /\ ValidType(Item)
  <2>1. build.next \in DOMAIN module.memories /\ Item = module.memories[build.next]
    BY <1>1, <1>4, <1>5, <1>7, ZenonT(60)
  <2>2. Item \in Types
    BY <1>1, <1>4, <1>5, <1>7, <2>1, SMTT(60)
  <2> QED
    BY <1>1, <1>4, <1>7, <2>1, <2>2, ZenonT(60)
<1>8. ASSUME More("elems")
      PROVE  Item \in ElementSegments /\ \A n \in DOMAIN Item.items : Item.items[n] <= Len(build.entity.funcs)
  <2>1. build.next \in DOMAIN module.elems /\ Item = module.elems[build.next]
    BY <1>1, <1>4, <1>5, <1>8, ZenonT(60)
  <2>2. Item \in ElementSegments
    BY <1>1, <1>4, <1>5, <1>8, <2>1, SMTT(60)
  <2> QED
    BY <1>1, <1>2, <1>4, <1>8, <2>1, <2>2, ZenonT(60)
<1>9. ASSUME More("datas") PROVE Item \in DataSegments
  <2>1. build.next \in DOMAIN module.datas /\ Item = module.datas[build.next]
    BY <1>1, <1>4, <1>5, <1>9, ZenonT(60)
  <2> QED
    BY <1>1, <1>4, <1>5, <1>9, <2>1, SMTT(60)
<1> QED
  BY <1>6, <1>7, <1>8, <1>9, ZenonT(60)

\* The references of an element segment may be anywhere once the segments have begun.
LEMMA ItemsFine ==
    ASSUME IInv, More("elems")
    PROVE  Items(Item) \in Seq(Nat) /\ \A n \in 1..Len(Items(Item)) : Fine(Items(Item)[n])
<1> DEFINE segment == Item
           items == segment.items
           own == build.entity.funcs
<1>1. segment \in ElementSegments /\ \A n \in DOMAIN items : items[n] <= Len(own)
  BY ItemIs, Zenon
<1>2. items \in Seq(Nat) /\ own \in Seq(Nat)
  BY <1>1, InstanceAt, ZenonT(60) DEF ElementSegments, Entities
<1>3. AtSegments /\ build.at # 0
  BY StagesAre, Zenon DEF More, At, AtSegments
<1>4. Items(Item) = IF segment.kind = "declared" THEN <<>>
                    ELSE [n \in DOMAIN items |-> IF items[n] = 0 THEN NullRef ELSE own[items[n]]]
  BY Zenon DEF Items
<1>5. ASSUME NEW r, Own(r)
      PROVE  Fine(r)
  BY <1>3, <1>5, ZenonT(60) DEF Own, Fine, Ready
<1>6. \A n \in DOMAIN own : Fine(own[n])
  BY <1>3, <1>5, ZenonT(60) DEF IInv, OwnReferences
<1> HIDE DEF segment, items, own
<1>7. ASSUME NEW n \in DOMAIN items
      PROVE  /\ (IF items[n] = 0 THEN NullRef ELSE own[items[n]]) \in Nat
             /\ Fine(IF items[n] = 0 THEN NullRef ELSE own[items[n]])
  <2>1. CASE items[n] = 0
    BY <2>1, ZenonT(60) DEF NullRef, Fine
  <2>2. CASE items[n] # 0
    <3>1. items[n] \in DOMAIN own
      BY <1>1, <1>2, <2>2, SMTT(60)
    <3>2. own[items[n]] \in Nat
      BY <1>2, <3>1, SMTT(60)
    <3> QED
      BY <1>6, <2>2, <3>1, <3>2, ZenonT(60)
  <2> QED
    BY <2>1, <2>2, ZenonT(60)
<1>8. CASE segment.kind = "declared"
  BY <1>4, <1>8, SMTT(60)
<1>9. CASE segment.kind # "declared"
  <2> DEFINE F(n) == IF items[n] = 0 THEN NullRef ELSE own[items[n]]
             refs == [n \in DOMAIN items |-> F(n)]
  <2>1. Items(Item) = refs
    BY <1>4, <1>9, Zenon
  <2>2. \A n \in DOMAIN items : F(n) \in Nat /\ Fine(F(n))
    BY <1>7, Zenon
  <2> HIDE DEF F
  <2>3. DOMAIN items = 1..Len(items) /\ Len(items) \in Nat
    BY <1>2, SMTT(60)
  <2>4. refs \in Seq(Nat) /\ Len(refs) = Len(items)
    BY <2>2, <2>3, SMTT(60)
  <2>5. \A n \in 1..Len(refs) : refs[n] = F(n) /\ n \in DOMAIN items
    BY <2>3, <2>4, Zenon
  <2> HIDE DEF refs
  <2> QED
    BY <2>1, <2>2, <2>4, <2>5, ZenonT(60)
<1> QED
  BY <1>8, <1>9, ZenonT(60)

\* The limits on tables and memories of a store are exceeded.
LEMMA TooManyFails ==
    ASSUME IInv, too_many
    PROVE  IInv' /\ LeavesNothing /\ Paid
<1> DEFINE error == IF At("tables") THEN "TooManyTables" ELSE "TooManyMemories"
<1>1. /\ TooMany /\ Fails(error)
      /\ memories' = memories /\ tables' = tables /\ elems' = elems /\ datas' = datas /\ funcs' = funcs
      /\ fuel' = fuel /\ limits' = limits /\ meter' = meter /\ failures' = failures
  BY Zenon DEF too_many
<1>2. build.at # 0 /\ ~AtSegments
  BY <1>1, StagesAre, SMTT(60) DEF TooMany, AtSegments
<1>3. error \in Outcomes
  BY Zenon DEF Outcomes
<1> HIDE DEF error
<1>4. StoreStep /\ RestTyped
  BY <1>1, UnchangedTyped, ZenonT(60) DEF StoreStep, RestTyped
<1>5. StoreKept
  BY <1>4, StoreStepKeeps, Zenon
<1> QED
  BY <1>1, <1>2, <1>3, <1>4, <1>5, FailsKeeps, ZenonT(60)

\* What one more of a kind is called resolves.
LEMMA PushResolves ==
    ASSUME NEW names \in Seq(Nat), NEW index \in Nat, NEW D, index \in D, \A k \in DOMAIN names : names[k] \in D,
           NEW more, more = Append(names, index)
    PROVE  \A k \in DOMAIN more : more[k] \in D
<1>1. /\ DOMAIN more = 1..(Len(names) + 1) /\ DOMAIN names = 1..Len(names) /\ Len(names) \in Nat
      /\ \A k \in 1..Len(names) : more[k] = names[k]
      /\ more[Len(names) + 1] = index
  BY SMTT(60)
<1>2. \A k \in 1..(Len(names) + 1) : k \in 1..Len(names) \/ k = Len(names) + 1
  BY <1>1, SMTT(60)
<1> QED
  BY <1>1, <1>2, ZenonT(60)

\* An item is there and the instantiation goes on.
LEMMA PushedKeeps ==
    ASSUME IInv, StoreKept, RestTyped, build.at # 0, funcs' = funcs, fuel' = fuel,
           NEW stage \in {"tables", "memories", "elems", "datas"}, NEW index \in Nat, Pushed(stage, index),
           stage = "tables" => index \in DOMAIN tables', stage = "memories" => index \in DOMAIN memories',
           stage = "elems" => index \in DOMAIN elems', stage = "datas" => index \in DOMAIN datas'
    PROVE  IInv' /\ LeavesNothing /\ Paid
<1>1. /\ build' \in Builds /\ build'.at = build.at /\ build'.entity.funcs = build.entity.funcs
      /\ stage = "tables" => build'.entity.tables = Append(build.entity.tables, index)
      /\ stage # "tables" => build'.entity.tables = build.entity.tables
      /\ stage = "memories" => build'.entity.memories = Append(build.entity.memories, index)
      /\ stage # "memories" => build'.entity.memories = build.entity.memories
      /\ stage = "elems" => build'.entity.elems = Append(build.entity.elems, index)
      /\ stage # "elems" => build'.entity.elems = build.entity.elems
      /\ stage = "datas" => build'.entity.datas = Append(build.entity.datas, index)
      /\ stage # "datas" => build'.entity.datas = build.entity.datas
  BY PushedIs, Zenon
<1>2. Going /\ instances' = instances
  BY Zenon DEF Pushed
<1>3. Resolves(build.entity, memories', tables', elems', datas')
  BY ResolvesKept, Zenon DEF IInv, Underway
<1>4. /\ build.entity.tables \in Seq(Nat) /\ build.entity.memories \in Seq(Nat)
      /\ build.entity.elems \in Seq(Nat) /\ build.entity.datas \in Seq(Nat)
  BY InstanceAt, Zenon DEF Entities
<1>5. \A k \in DOMAIN build'.entity.tables : build'.entity.tables[k] \in DOMAIN tables'
  <2>1. \A k \in DOMAIN build.entity.tables : build.entity.tables[k] \in DOMAIN tables'
    BY <1>3, Zenon DEF Resolves
  <2> QED
    BY <1>1, <1>4, <2>1, PushResolves, ZenonT(60)
<1>6. \A k \in DOMAIN build'.entity.memories : build'.entity.memories[k] \in DOMAIN memories'
  <2>1. \A k \in DOMAIN build.entity.memories : build.entity.memories[k] \in DOMAIN memories'
    BY <1>3, Zenon DEF Resolves
  <2> QED
    BY <1>1, <1>4, <2>1, PushResolves, ZenonT(60)
<1>7. \A k \in DOMAIN build'.entity.elems : build'.entity.elems[k] \in DOMAIN elems'
  <2>1. \A k \in DOMAIN build.entity.elems : build.entity.elems[k] \in DOMAIN elems'
    BY <1>3, Zenon DEF Resolves
  <2> QED
    BY <1>1, <1>4, <2>1, PushResolves, ZenonT(60)
<1>8. \A k \in DOMAIN build'.entity.datas : build'.entity.datas[k] \in DOMAIN datas'
  <2>1. \A k \in DOMAIN build.entity.datas : build.entity.datas[k] \in DOMAIN datas'
    BY <1>3, Zenon DEF Resolves
  <2> QED
    BY <1>1, <1>4, <2>1, PushResolves, ZenonT(60)
<1>9. Resolves(build'.entity, memories', tables', elems', datas')
  BY <1>5, <1>6, <1>7, <1>8, ZenonT(60) DEF Resolves
<1>10. build'.at # 0 /\ (AtSegments => AtSegments')
  BY <1>1, Zenon DEF AtSegments
<1> QED
  BY <1>1, <1>2, <1>9, <1>10, GoesOn, ZenonT(60)

\* A table of the module.
LEMMA ExtractsTable ==
    ASSUME IInv, NEW alloc \in BOOLEAN, extract_tables(alloc)
    PROVE  IInv' /\ LeavesNothing /\ Paid
<1> DEFINE init == DefaultRef(Item)
<1>0. PICK new \in {Table_new(limits, Item, init, alloc)} :
        /\ MeterElements(new, Item.min)
        /\ \/ /\ new.error = "Ok"
              /\ tables' = Append(tables, [ty |-> Item, elements |-> new.contents])
              /\ Pushed("tables", Len(tables) + 1)
           \/ new.error # "Ok" /\ Fails(new.error) /\ UNCHANGED tables
  BY Zenon DEF extract_tables
<1> DEFINE table == [ty |-> Item, elements |-> new.contents]
<1>1. /\ More("tables") /\ Allocates(alloc) /\ MeterElements(new, Item.min)
      /\ \/ new.error = "Ok" /\ tables' = Append(tables, table) /\ Pushed("tables", Len(tables) + 1)
         \/ new.error # "Ok" /\ Fails(new.error) /\ tables' = tables
      /\ memories' = memories /\ elems' = elems /\ datas' = datas /\ funcs' = funcs /\ fuel' = fuel /\ limits' = limits
  <2>1. /\ More("tables") /\ Allocates(alloc)
        /\ memories' = memories /\ elems' = elems /\ datas' = datas /\ funcs' = funcs /\ fuel' = fuel /\ limits' = limits
    BY Zenon DEF extract_tables
  <2> QED
    BY <1>0, <2>1, ZenonT(60)
<1>2. Item \in Types /\ ValidType(Item) /\ Item.min < TableMax
  BY <1>1, ItemIs, Zenon
<1>3. init.raw = NullRef /\ new = Table_new(limits, Item, init, alloc)
  BY <1>0, Zenon DEF DefaultRef
<1>4. build.at # 0 /\ ~AtSegments
  BY <1>1, StagesAre, SMTT(60) DEF More, AtSegments
<1>5. limits \in Limits /\ NullRef \in Nat /\ tables \in Seq(Tables)
  BY Zenon DEF IInv, Typed, NullRef
<1>6. new.error \in Outcomes
  <2>1. init.raw \in Nat
    BY <1>3, <1>5, ZenonT(60)
  <2> HIDE DEF init
  <2>2. new.error \in Errors
    BY <1>2, <1>3, <1>5, <2>1, TableNew, ZenonT(60)
  <2> QED
    BY <2>2, Zenon DEF Outcomes
<1> HIDE DEF init, table
<1>7. tables' = IF new.error = "Ok" THEN Append(tables, table) ELSE tables
  BY <1>1, Zenon
<1>8. TableStep /\ meter' \in [bytes : Int, elements : Int] /\ meter'.bytes = meter.bytes
  <2>1. tables' = IF new.error = "Ok" THEN Append(tables, [ty |-> Item, elements |-> new.contents]) ELSE tables
    BY <1>7, Zenon DEF table
  <2>2. MeterElements(new, Item.min)
    BY <1>1, Zenon
  <2> QED
    BY <1>2, <1>3, <2>1, <2>2, TableCreated, ZenonT(60)
<1>9. failures' \in Nat
  BY <1>1, AllocatesIs, ZenonT(60)
<1>10. StoreStep
  BY <1>1, <1>8, UnchangedTyped, ZenonT(60) DEF StoreStep
<1>11. RestTyped
  BY <1>1, <1>8, <1>9, UnchangedTyped, ZenonT(60) DEF RestTyped
<1>12. StoreKept
  BY <1>10, StoreStepKeeps, ZenonT(60)
<1>13. CASE new.error # "Ok"
  BY <1>1, <1>4, <1>6, <1>11, <1>12, <1>13, FailsKeeps, ZenonT(60)
<1>14. CASE new.error = "Ok"
  <2>1. tables' = Append(tables, table) /\ Pushed("tables", Len(tables) + 1)
    BY <1>1, <1>14, ZenonT(60)
  <2> DEFINE index == Len(tables) + 1
  <2>2. index \in Nat /\ index \in DOMAIN tables'
    <3>1. DOMAIN Append(tables, table) = 1..(Len(tables) + 1) /\ Len(tables) \in Nat
      BY <1>5, SMTT(60)
    <3> QED
      BY <2>1, <3>1, SMTT(60)
  <2>3. Pushed("tables", index)
    BY <2>1, Zenon
  <2>4. "tables" # "memories" /\ "tables" # "elems" /\ "tables" # "datas"
    BY Zenon
  <2> HIDE DEF index
  <2> QED
    BY <1>1, <1>4, <1>11, <1>12, <2>2, <2>3, <2>4, PushedKeeps, ZenonT(60)
<1> QED
  BY <1>13, <1>14, ZenonT(60)

\* A memory of the module.
LEMMA ExtractsMemory ==
    ASSUME IInv, NEW alloc \in BOOLEAN, extract_memories(alloc)
    PROVE  IInv' /\ LeavesNothing /\ Paid
<1> DEFINE new == Memory_new(limits, Item, None, alloc)
           memory == [ty |-> Item, data |-> new.contents, capacity |-> None]
<1>1. /\ More("memories") /\ Allocates(alloc) /\ MeterBytes(new, ToBytes(Item.min))
      /\ \/ new.error = "Ok" /\ memories' = Append(memories, memory) /\ Pushed("memories", Len(memories) + 1)
         \/ new.error # "Ok" /\ Fails(new.error) /\ memories' = memories
      /\ tables' = tables /\ elems' = elems /\ datas' = datas /\ funcs' = funcs /\ fuel' = fuel /\ limits' = limits
  BY Zenon DEF extract_memories
<1>2. Item \in Types /\ ValidType(Item)
  BY <1>1, ItemIs, ZenonT(60)
<1>3. new = Memory_new(limits, Item, None, alloc)
  BY Zenon
<1>4. build.at # 0 /\ ~AtSegments
  BY <1>1, StagesAre, SMTT(60) DEF More, AtSegments
<1>5. limits \in Limits /\ None \in Option /\ memories \in Seq(Memories)
  BY Zenon DEF IInv, Typed, Option
<1> HIDE DEF new, memory
<1>6. new.error \in Outcomes
  <2>1. new.error \in Errors
    BY <1>2, <1>3, <1>5, MemoryNew, ZenonT(60)
  <2> QED
    BY <2>1, Zenon DEF Outcomes
<1>7. memories' = IF new.error = "Ok" THEN Append(memories, memory) ELSE memories
  BY <1>1, Zenon
<1>8. MemoryStep /\ meter' \in [bytes : Int, elements : Int] /\ meter'.elements = meter.elements
  <2>1. memories' = IF new.error = "Ok"
                    THEN Append(memories, [ty |-> Item, data |-> new.contents, capacity |-> None]) ELSE memories
    BY <1>7, Zenon DEF memory
  <2>2. MeterBytes(new, ToBytes(Item.min))
    BY <1>1, Zenon
  <2> QED
    BY <1>2, <1>3, <1>5, <2>1, <2>2, MemoryCreated, ZenonT(60)
<1>9. failures' \in Nat
  BY <1>1, AllocatesIs, ZenonT(60)
<1>10. StoreStep
  BY <1>1, <1>8, UnchangedTyped, ZenonT(60) DEF StoreStep
<1>11. RestTyped
  BY <1>1, <1>8, <1>9, UnchangedTyped, ZenonT(60) DEF RestTyped
<1>12. StoreKept
  BY <1>10, StoreStepKeeps, ZenonT(60)
<1>13. CASE new.error # "Ok"
  BY <1>1, <1>4, <1>6, <1>11, <1>12, <1>13, FailsKeeps, ZenonT(60)
<1>14. CASE new.error = "Ok"
  <2>1. memories' = Append(memories, memory) /\ Pushed("memories", Len(memories) + 1)
    BY <1>1, <1>14, ZenonT(60)
  <2> DEFINE index == Len(memories) + 1
  <2>2. index \in Nat /\ index \in DOMAIN memories'
    <3>1. DOMAIN Append(memories, memory) = 1..(Len(memories) + 1) /\ Len(memories) \in Nat
      BY <1>5, SMTT(60)
    <3> QED
      BY <2>1, <3>1, SMTT(60)
  <2>3. Pushed("memories", index)
    BY <2>1, Zenon
  <2>4. "memories" # "tables" /\ "memories" # "elems" /\ "memories" # "datas"
    BY Zenon
  <2> HIDE DEF index
  <2> QED
    BY <1>1, <1>4, <1>11, <1>12, <2>2, <2>3, <2>4, PushedKeeps, ZenonT(60)
<1> QED
  BY <1>13, <1>14, ZenonT(60)

\* An element segment of the module.
LEMMA InitializesTable ==
    ASSUME IInv, initialize_table_elements
    PROVE  IInv' /\ LeavesNothing /\ Paid
<1>0. PICK items \in {Items(Item)}, t \in {build.entity.tables[Item.table]} :
        \/ /\ Item.kind # "active"
           /\ elems' = Append(elems, items)
           /\ Pushed("elems", Len(elems) + 1) /\ UNCHANGED tables
        \/ /\ Item.kind = "active" /\ InBounds(tables[t].elements, Item.offset, Len(items))
           /\ tables' = [tables EXCEPT ![t].elements = copy_from_slice(@, Item.offset, items)]
           /\ elems' = Append(elems, <<>>)
           /\ Pushed("elems", Len(elems) + 1)
        \/ /\ Item.kind = "active" /\ ~InBounds(tables[t].elements, Item.offset, Len(items))
           /\ elems' = Append(elems, items)
           /\ Fails("ElementSegmentDoesNotFit") /\ UNCHANGED tables
  BY Zenon DEF initialize_table_elements
<1>1. /\ More("elems")
      /\ memories' = memories /\ datas' = datas /\ funcs' = funcs
      /\ fuel' = fuel /\ limits' = limits /\ meter' = meter /\ failures' = failures
  BY Zenon DEF initialize_table_elements
<1>2. items \in Seq(Nat) /\ \A n \in 1..Len(items) : Fine(items[n])
  BY <1>0, <1>1, ItemsFine, ZenonT(60)
<1>3. DOMAIN items = 1..Len(items) /\ <<>> \in Seq(Nat) /\ DOMAIN <<>> = {}
  BY <1>2, SMTT(60)
<1>4. build.at # 0
  BY <1>1, ZenonT(60) DEF More, At
<1>5. Item.offset \in Nat
  <2>1. Item \in ElementSegments
    BY <1>1, ItemIs, ZenonT(60)
  <2> QED
    BY <2>1, ZenonT(60) DEF ElementSegments
<1>6. TableStep
  <2>1. CASE tables' = tables
    BY <1>1, <2>1, UnchangedTyped, ZenonT(60)
  <2>2. CASE tables' = [tables EXCEPT ![t].elements = copy_from_slice(@, Item.offset, items)]
    <3> DEFINE offset == Item.offset
    <3>1. tables' = [tables EXCEPT ![t].elements = copy_from_slice(@, offset, items)] /\ offset \in Nat
      BY <1>5, <2>2, ZenonT(60)
    <3>2. meter' = meter
      BY <1>1, ZenonT(60)
    <3> HIDE DEF offset
    <3> QED
      BY <1>2, <3>1, <3>2, TableCopied, ZenonT(60)
  <2> QED
    BY <1>0, <2>1, <2>2, ZenonT(60)
<1>7. ElemsStep
  BY <1>0, <1>2, <1>3, ZenonT(60) DEF ElemsStep
<1>8. StoreStep /\ RestTyped
  BY <1>1, <1>6, <1>7, UnchangedTyped, ZenonT(60) DEF StoreStep, RestTyped
<1>9. StoreKept
  BY <1>8, StoreStepKeeps, ZenonT(60)
<1>10. CASE Pushed("elems", Len(elems) + 1)
  <2> DEFINE index == Len(elems) + 1
  <2>1. elems \in Seq(Seq(Nat))
    BY Zenon DEF IInv, Typed
  <2>2. index \in Nat /\ \A x \in Seq(Nat) : index \in DOMAIN Append(elems, x)
    BY <2>1, SMTT(60)
  <2>3. PICK x \in Seq(Nat) : elems' = Append(elems, x)
    BY <1>0, <1>2, <1>3, ZenonT(60)
  <2>4. Pushed("elems", index) /\ index \in DOMAIN elems'
    BY <1>10, <2>2, <2>3, ZenonT(60)
  <2>5. "elems" # "tables" /\ "elems" # "memories" /\ "elems" # "datas"
    BY Zenon
  <2> HIDE DEF index
  <2> QED
    BY <1>1, <1>4, <1>8, <1>9, <2>2, <2>4, <2>5, PushedKeeps, ZenonT(60)
<1>11. CASE Fails("ElementSegmentDoesNotFit")
  <2> DEFINE error == "ElementSegmentDoesNotFit"
  <2>1. error \in Outcomes /\ error \in {"ElementSegmentDoesNotFit", "OutOfBoundsAccess"}
    BY Zenon DEF Outcomes
  <2>2. Fails(error)
    BY <1>11, ZenonT(60)
  <2> HIDE DEF error
  <2> QED
    BY <1>1, <1>4, <1>8, <1>9, <2>1, <2>2, FailsKeeps, ZenonT(60)
<1> QED
  BY <1>0, <1>10, <1>11, ZenonT(60)

\* A data segment of the module.
LEMMA InitializesMemory ==
    ASSUME IInv, initialize_memory_data
    PROVE  IInv' /\ LeavesNothing /\ Paid
<1>0. PICK m \in {build.entity.memories[Item.memory]} :
        \/ /\ ~Item.active
           /\ datas' = Append(datas, Item.bytes)
           /\ Pushed("datas", Len(datas) + 1) /\ UNCHANGED memories
        \/ /\ Item.active /\ InBounds(memories[m].data, Item.offset, Len(Item.bytes))
           /\ memories' = [memories EXCEPT ![m].data = copy_from_slice(@, Item.offset, Item.bytes)]
           /\ datas' = Append(datas, <<>>)
           /\ Pushed("datas", Len(datas) + 1)
        \/ /\ Item.active /\ ~InBounds(memories[m].data, Item.offset, Len(Item.bytes))
           /\ Fails("OutOfBoundsAccess") /\ UNCHANGED <<memories, datas>>
  BY Zenon DEF initialize_memory_data
<1>1. /\ More("datas")
      /\ tables' = tables /\ elems' = elems /\ funcs' = funcs
      /\ fuel' = fuel /\ limits' = limits /\ meter' = meter /\ failures' = failures
  BY Zenon DEF initialize_memory_data
<1>2. Item.offset \in Nat /\ Item.bytes \in Seq(Nat) /\ <<>> \in Seq(Nat)
  <2>1. Item \in DataSegments
    BY <1>1, ItemIs, ZenonT(60)
  <2> QED
    BY <2>1, SMTT(60) DEF DataSegments
<1>3. build.at # 0
  BY <1>1, ZenonT(60) DEF More, At
<1>4. MemoryStep
  <2>1. CASE memories' = memories
    BY <1>1, <2>1, UnchangedTyped, ZenonT(60)
  <2>2. CASE memories' = [memories EXCEPT ![m].data = copy_from_slice(@, Item.offset, Item.bytes)]
    <3> DEFINE offset == Item.offset
               bytes == Item.bytes
    <3>1. memories' = [memories EXCEPT ![m].data = copy_from_slice(@, offset, bytes)]
      BY <2>2, ZenonT(60)
    <3>2. meter' = meter /\ offset \in Nat /\ bytes \in Seq(Nat)
      BY <1>1, <1>2, ZenonT(60)
    <3> HIDE DEF offset, bytes
    <3> QED
      BY <3>1, <3>2, MemoryCopied, ZenonT(60)
  <2> QED
    BY <1>0, <2>1, <2>2, ZenonT(60)
<1>5. DatasStep
  BY <1>0, <1>2, ZenonT(60) DEF DatasStep
<1>6. StoreStep /\ RestTyped
  BY <1>1, <1>4, <1>5, UnchangedTyped, ZenonT(60) DEF StoreStep, RestTyped
<1>7. StoreKept
  BY <1>6, StoreStepKeeps, ZenonT(60)
<1>8. CASE ~Fails("OutOfBoundsAccess")
  <2> DEFINE index == Len(datas) + 1
  <2>1. datas \in Seq(Seq(Nat))
    BY Zenon DEF IInv, Typed
  <2>2. index \in Nat /\ \A x \in Seq(Nat) : index \in DOMAIN Append(datas, x)
    BY <2>1, SMTT(60)
  <2>3. PICK x \in Seq(Nat) : datas' = Append(datas, x)
    BY <1>0, <1>2, <1>8, ZenonT(60)
  <2>4. Pushed("datas", index) /\ index \in DOMAIN datas'
    BY <1>0, <1>8, <2>2, <2>3, ZenonT(60)
  <2>5. "datas" # "tables" /\ "datas" # "memories" /\ "datas" # "elems"
    BY Zenon
  <2> HIDE DEF index
  <2> QED
    BY <1>1, <1>3, <1>6, <1>7, <2>2, <2>4, <2>5, PushedKeeps, ZenonT(60)
<1>9. CASE Fails("OutOfBoundsAccess")
  <2> DEFINE error == "OutOfBoundsAccess"
  <2>1. error \in Outcomes /\ error \in {"ElementSegmentDoesNotFit", "OutOfBoundsAccess"}
    BY Zenon DEF Outcomes
  <2>2. Fails(error)
    BY <1>9, ZenonT(60)
  <2> HIDE DEF error
  <2> QED
    BY <1>1, <1>3, <1>6, <1>7, <2>1, <2>2, FailsKeeps, ZenonT(60)
<1> QED
  BY <1>8, <1>9, ZenonT(60)

\* The instance is initialised with what has been built.
LEMMA Initializes ==
    ASSUME IInv, StoreKept, build.at # 0, funcs' = funcs, NEW outcome \in Outcomes, build' = NotBuilding,
           instances' = [instances EXCEPT ![Len(instances)] =
                [@ EXCEPT !.initialized = TRUE, !.entity = build.entity, !.outcome = outcome]]
    PROVE  InstancesKept
<1> DEFINE h == Len(instances)
           done == [instances[h] EXCEPT !.initialized = TRUE, !.entity = build.entity, !.outcome = outcome]
<1>1. /\ \A j \in DOMAIN instances : instances[j] \in InstanceTypes
      /\ DOMAIN instances = 1..Len(instances) /\ Len(instances) \in Nat /\ h \in DOMAIN instances
      /\ build.entity \in Entities
  BY InstanceAt, Zenon
<1>2. /\ done \in InstanceTypes /\ done.initialized = TRUE /\ done.entity = build.entity
      /\ done.module = instances[h].module /\ done.externs = instances[h].externs
  BY <1>1, ZenonT(60) DEF InstanceTypes
<1>3. instances \in Seq(InstanceTypes) /\ instances' = [instances EXCEPT ![h] = done]
  BY <1>1, ZenonT(60) DEF IInv, Typed
<1>4. build'.at = 0 /\ build' \in Builds
  <2>1. NotBuilding.at = 0 /\ NotBuilding \in Builds
    BY DEF NotBuilding, Builds, Uninitialized, Entities
  <2> QED
    BY <2>1, ZenonT(60)
<1> HIDE DEF done
<1>5. /\ instances' \in Seq(InstanceTypes) /\ DOMAIN instances' = DOMAIN instances /\ Len(instances') = Len(instances)
      /\ instances'[h] = done /\ \A j \in DOMAIN instances : j # h => instances'[j] = instances[j]
  BY <1>1, <1>2, <1>3, SMTT(60)
<1> HIDE DEF h
<1>6. FuncsKept /\ ReadyKept
  <2>1. FuncsKept
    BY Zenon DEF FuncsKept
  <2>2. ASSUME NEW o \in DOMAIN instances, Ready(o, instances, AtSegments)
        PROVE  Ready(o, instances', AtSegments')
    <3>1. CASE o = h
      BY <1>2, <1>5, <3>1, ZenonT(60) DEF Ready
    <3>2. CASE o # h
      BY <1>5, <2>2, <3>2, ZenonT(60) DEF Ready, h
    <3> QED
      BY <3>1, <3>2, ZenonT(60)
  <2> QED
    BY <2>1, <2>2, ZenonT(60) DEF ReadyKept
<1>7. /\ funcs' \in Seq(FuncTypes) /\ (limits.on => Len(instances') <= limits.instances)
      /\ \A f \in DOMAIN funcs' : funcs'[f].owner \in DOMAIN instances'
  BY <1>5, ZenonT(60) DEF IInv, Typed, WithinBounds, Resolved
<1>8. \A j \in DOMAIN instances' : Resolves(instances'[j].entity, memories', tables', elems', datas')
  <2>1. Resolves(build.entity, memories', tables', elems', datas')
    BY ResolvesKept, ZenonT(60) DEF IInv, Underway
  <2> QED
    BY <1>2, <1>5, <2>1, ResolvesKept, ZenonT(60) DEF IInv, Resolved
<1>9. \A j \in DOMAIN instances' : \A n \in DOMAIN instances'[j].entity.funcs :
            FineAfter(instances'[j].entity.funcs[n])
  <2>1. ASSUME NEW r, Own(r)
        PROVE  FineAfter(r)
    <3>1. CASE Fine(r)
      BY <1>6, <3>1, FineKept, ZenonT(60)
    <3>2. CASE r \in DOMAIN funcs /\ funcs[r].owner = Len(instances)
      BY <1>2, <1>5, <3>2, ZenonT(60) DEF FineAfter, Ready, h
    <3> QED
      BY <2>1, <3>1, <3>2, ZenonT(60) DEF Own
  <2>2. \A n \in DOMAIN build.entity.funcs : FineAfter(build.entity.funcs[n])
    BY <2>1, ZenonT(60) DEF IInv, OwnReferences
  <2>3. \A j \in DOMAIN instances : \A n \in DOMAIN instances[j].entity.funcs :
            FineAfter(instances[j].entity.funcs[n])
    BY <1>6, FineKept, ZenonT(60) DEF IInv, References
  <2>4. \A n \in DOMAIN done.entity.funcs : FineAfter(done.entity.funcs[n])
    BY <1>2, <2>2, ZenonT(60)
  <2> SUFFICES ASSUME NEW j \in DOMAIN instances, NEW n \in DOMAIN instances'[j].entity.funcs
               PROVE  FineAfter(instances'[j].entity.funcs[n])
    BY <1>5, Zenon
  <2>5. CASE j = h
    BY <1>5, <2>4, <2>5, ZenonT(60)
  <2>6. CASE j # h
    BY <1>5, <2>3, <2>6, ZenonT(60)
  <2> QED
    BY <2>5, <2>6, ZenonT(60)
<1>10. Underway' /\ OwnReferences'
  BY <1>4, Zenon DEF Underway, OwnReferences
<1>11. Imported'
  <2> SUFFICES ASSUME NEW j \in DOMAIN instances, j = h \/ instances[j].initialized
               PROVE  Importing(instances'[j], memories', tables')
    BY <1>4, <1>5, ZenonT(60) DEF Imported
  <2>1. Importing(instances[j], memories', tables')
    BY <1>1, ImportingKept, ZenonT(60) DEF IInv, Imported, h
  <2>2. CASE j = h
    BY <1>2, <1>5, <2>1, <2>2, ZenonT(60) DEF Importing
  <2>3. CASE j # h
    BY <1>5, <2>1, <2>3, ZenonT(60)
  <2> QED
    BY <2>2, <2>3, ZenonT(60)
<1> QED
  BY <1>4, <1>5, <1>6, <1>7, <1>8, <1>9, <1>10, <1>11, ZenonT(60) DEF InstancesKept

\* A stage ends.
LEMMA StageEnds ==
    ASSUME IInv, stage_done
    PROVE  IInv' /\ LeavesNothing /\ Paid
<1>1. /\ build.at # 0
      /\ \/ /\ build.at < Len(Stages) /\ build' = [build EXCEPT !.at = @ + 1, !.next = 1]
            /\ Going /\ instances' = instances
         \/ /\ instances' = [instances EXCEPT ![Handled] =
                    [@ EXCEPT !.initialized = TRUE, !.entity = build.entity,
                              !.outcome = IF Building.start THEN "starting" ELSE "Ok"]]
            /\ build' = NotBuilding
            /\ Did("instantiate", "host", "Ok")
      /\ memories' = memories /\ tables' = tables /\ elems' = elems /\ datas' = datas /\ funcs' = funcs
      /\ fuel' = fuel /\ limits' = limits /\ meter' = meter /\ failures' = failures
  BY Zenon DEF stage_done
<1>2. StoreStep /\ RestTyped
  BY <1>1, UnchangedTyped, ZenonT(60) DEF StoreStep, RestTyped
<1>3. StoreKept
  BY <1>2, StoreStepKeeps, ZenonT(60)
<1>4. CASE /\ build.at < Len(Stages) /\ build' = [build EXCEPT !.at = @ + 1, !.next = 1]
           /\ Going /\ instances' = instances
  <2>1. build \in Builds /\ build.at \in 0..4 /\ Len(Stages) = 4
    BY StagesAre, ZenonT(60) DEF IInv, Typed
  <2>2. build.at + 1 \in 0..4 /\ build.at + 1 # 0 /\ (build.at \in {3, 4} => build.at + 1 \in {3, 4}) /\ 1 \in Nat
    BY <1>1, <1>4, <2>1, SMTT(60)
  <2>3. build' \in Builds /\ build'.at = build.at + 1 /\ build'.entity = build.entity
    BY <1>4, <2>1, <2>2, ZenonT(60) DEF Builds
  <2>4. build'.at # 0 /\ (AtSegments => AtSegments')
    BY <2>2, <2>3, ZenonT(60) DEF AtSegments
  <2>5. Resolves(build'.entity, memories', tables', elems', datas') /\ build'.entity.funcs = build.entity.funcs
    BY <1>1, <1>3, <2>3, ResolvesKept, ZenonT(60) DEF IInv, Underway
  <2> QED
    BY <1>1, <1>2, <1>3, <1>4, <2>3, <2>4, <2>5, GoesOn, ZenonT(60)
<1>5. CASE /\ instances' = [instances EXCEPT ![Handled] =
                    [@ EXCEPT !.initialized = TRUE, !.entity = build.entity,
                              !.outcome = IF Building.start THEN "starting" ELSE "Ok"]]
           /\ build' = NotBuilding
           /\ Did("instantiate", "host", "Ok")
  <2> DEFINE outcome == IF Building.start THEN "starting" ELSE "Ok"
  <2>1. outcome \in Outcomes
    BY Zenon DEF Outcomes, Errors
  <2>2. instances' = [instances EXCEPT ![Len(instances)] =
                [@ EXCEPT !.initialized = TRUE, !.entity = build.entity, !.outcome = outcome]]
    BY <1>5, Zenon DEF Handled
  <2> HIDE DEF outcome
  <2>3. InstancesKept
    BY <1>1, <1>3, <1>5, <2>1, <2>2, Initializes, ZenonT(60)
  <2>4. LeavesNothing /\ Paid
    <3>1. last'.op = "instantiate" /\ last'.by = "host"
      BY <1>5, DidIs, ZenonT(60)
    <3> QED
      BY <1>1, <3>1, InstantiatingPays, ZenonT(60)
  <2> QED
    BY <1>2, <1>3, <2>3, <2>4, Together, ZenonT(60)
<1> QED
  BY <1>1, <1>4, <1>5, ZenonT(60)

\* What the host may give for an import is in the store, and a function among it may
\* be anywhere.
LEMMA ExternsAre ==
    ASSUME IInv, NEW x \in Externs
    PROVE  /\ x \in Externals
           /\ x.kind = "memory" => x.index \in DOMAIN memories
           /\ x.kind = "table" => x.index \in DOMAIN tables
           /\ x.kind = "func" => x.index \in DOMAIN funcs /\ Fine(x.index)
<1>1. /\ \A m \in DOMAIN memories : m \in Nat
      /\ \A t \in DOMAIN tables : t \in Nat
      /\ \A f \in DOMAIN funcs : f \in Nat
  BY DEF IInv, Typed
<1>2. ASSUME NEW f \in HostFuncs
      PROVE  f \in DOMAIN funcs /\ Fine(f)
  <2>1. CASE f \in DOMAIN funcs /\ instances[funcs[f].owner].initialized
    BY <2>1, ZenonT(60) DEF Fine, Ready
  <2>2. CASE f \in UNION {Range(tables[t].elements) : t \in DOMAIN tables} /\ f # NullRef
    <3>1. PICK t \in DOMAIN tables : f \in Range(tables[t].elements)
      BY <2>2, Zenon
    <3>2. PICK n \in DOMAIN tables[t].elements : f = tables[t].elements[n]
      BY <3>1, ZenonT(60) DEF Range
    <3> QED
      BY <2>2, <3>2, ZenonT(60) DEF IInv, References, Fine
  <2>3. \/ f \in DOMAIN funcs /\ instances[funcs[f].owner].initialized
        \/ f \in UNION {Range(tables[t].elements) : t \in DOMAIN tables} /\ f # NullRef
    <3> DEFINE A == {g \in DOMAIN funcs : instances[funcs[g].owner].initialized}
               B == UNION {Range(tables[t].elements) : t \in DOMAIN tables}
    <3>1. HostFuncs = A \cup (B \ {NullRef})
      BY Zenon DEF HostFuncs
    <3>2. f \in A => f \in DOMAIN funcs /\ instances[funcs[f].owner].initialized
      BY Zenon
    <3> HIDE DEF A, B
    <3>3. f \in A \/ (f \in B /\ f # NullRef)
      BY <1>2, <3>1, ZenonT(60)
    <3> QED
      BY <3>2, <3>3, ZenonT(60) DEF B
  <2> QED
    BY <2>1, <2>2, <2>3, ZenonT(60)
<1>3. CASE \E m \in DOMAIN memories : x = [kind |-> "memory", index |-> m]
  BY <1>1, <1>3, SMTT(60) DEF Externals
<1>4. CASE \E t \in DOMAIN tables : x = [kind |-> "table", index |-> t]
  BY <1>1, <1>4, SMTT(60) DEF Externals
<1>5. CASE \E f \in HostFuncs : x = [kind |-> "func", index |-> f]
  <2>1. PICK f \in HostFuncs : x = [kind |-> "func", index |-> f]
    BY <1>5, Zenon
  <2>2. f \in DOMAIN funcs /\ Fine(f) /\ f \in Nat
    BY <1>1, <1>2, ZenonT(60)
  <2>3. x.kind = "func" /\ x.index = f /\ x \in Externals /\ x.kind # "memory" /\ x.kind # "table"
    BY <2>1, <2>2, ZenonT(60) DEF Externals
  <2> QED
    BY <2>2, <2>3, ZenonT(60)
<1> QED
  BY <1>3, <1>4, <1>5, ZenonT(60) DEF Externs

\* So is all that is given for the imports of a module.
LEMMA Given ==
    ASSUME IInv, NEW name \in DOMAIN Modules, NEW externs \in ExternsFor(Modules[name].imports)
    PROVE  /\ externs \in Seq(Externals) /\ DOMAIN externs = 1..Len(externs) /\ Len(externs) \in Nat
           /\ \A n \in DOMAIN externs : externs[n] \in Externs
<1> DEFINE imports == Modules[name].imports
<1>1. imports \in Seq(Imports)
  BY ModulesAssumption, ZenonT(60) DEF ParsedModules
<1>2. DOMAIN imports = 1..Len(imports) /\ Len(imports) \in Nat
  BY <1>1, SMTT(60)
<1>3. \A x \in Externs : x \in Externals
  BY ExternsAre, ZenonT(60)
<1> HIDE DEF imports
<1>4. CASE externs \in [DOMAIN imports -> Externs]
  <2>1. \A n \in 1..Len(imports) : externs[n] \in Externs /\ externs[n] \in Externals
    BY <1>2, <1>3, <1>4, ZenonT(60)
  <2>2. externs \in [1..Len(imports) -> Externals]
    BY <1>2, <1>4, <2>1, ZenonT(60)
  <2>3. externs \in Seq(Externals) /\ DOMAIN externs = 1..Len(imports) /\ Len(externs) = Len(imports)
    BY <1>2, <2>2, SMTT(60)
  <2> QED
    BY <1>2, <2>1, <2>3, ZenonT(60)
<1>5. CASE externs = <<>>
  BY <1>5, SMTT(60)
<1>6. CASE \E x \in Externs : externs = [n \in DOMAIN imports |-> x]
  BY <1>4, <1>6, ZenonT(60)
<1> QED
  BY <1>4, <1>5, <1>6, ZenonT(60) DEF ExternsFor, imports

\* The handle of an instance to be is added.
LEMMA HandleAdded ==
    ASSUME IInv, StoreKept, FuncsKept, build.at = 0, ~TooManyInstances,
           NEW name \in DOMAIN Modules, NEW externs \in Seq(Externals), NEW error \in Outcomes,
           instances' = Append(instances, Handle(name, externs, error))
    PROVE  /\ instances' \in Seq(InstanceTypes) /\ Len(instances') = Len(instances) + 1
           /\ Len(instances') \in Nat /\ Len(instances') # 0 /\ Len(instances') \in DOMAIN instances'
           /\ instances'[Len(instances')] = Handle(name, externs, error)
           /\ \A i \in DOMAIN instances : i \in DOMAIN instances' /\ i # Len(instances') /\ instances'[i] = instances[i]
           /\ \A i \in DOMAIN instances' : i \in DOMAIN instances \/ i = Len(instances')
           /\ limits.on => Len(instances') <= limits.instances
           /\ ReadyKept
           /\ \A i \in DOMAIN instances' : Resolves(instances'[i].entity, memories', tables', elems', datas')
           /\ \A i \in DOMAIN instances' : \A n \in DOMAIN instances'[i].entity.funcs :
                    FineAfter(instances'[i].entity.funcs[n])
           /\ \A i \in DOMAIN instances : instances[i].initialized => Importing(instances'[i], memories', tables')
<1> DEFINE h == Handle(name, externs, error)
<1>1. h \in InstanceTypes /\ h.entity = Uninitialized /\ h.initialized = FALSE
  <2>1. Uninitialized \in Entities
    BY SMTT(60) DEF Uninitialized, Entities
  <2>2. (IF error = "Ok" THEN "building" ELSE error) \in Outcomes
    BY ZenonT(60) DEF Outcomes
  <2> QED
    BY <2>1, <2>2, ZenonT(60) DEF Handle, InstanceTypes
<1>2. instances \in Seq(InstanceTypes) /\ instances' = Append(instances, h)
  BY ZenonT(60) DEF IInv, Typed
<1> HIDE DEF h
<1>3. /\ instances' \in Seq(InstanceTypes) /\ Len(instances') = Len(instances) + 1
      /\ Len(instances') \in Nat /\ Len(instances') # 0 /\ Len(instances') \in DOMAIN instances'
      /\ instances'[Len(instances')] = h
  BY <1>1, <1>2, SMTT(60)
<1>4. /\ \A i \in DOMAIN instances : i \in DOMAIN instances' /\ i # Len(instances') /\ instances'[i] = instances[i]
      /\ \A i \in DOMAIN instances' : i \in DOMAIN instances \/ i = Len(instances')
  BY <1>1, <1>2, SMTT(60)
<1>5. limits.on => Len(instances') <= limits.instances
  BY <1>3, ZenonT(60) DEF TooManyInstances, CanCreateMore
<1>6. ~AtSegments
  BY DEF AtSegments
<1>7. ReadyKept
  BY <1>4, <1>6, ZenonT(60) DEF ReadyKept, Ready
<1>8. \A i \in DOMAIN instances' : Resolves(instances'[i].entity, memories', tables', elems', datas')
  <2>1. Resolves(h.entity, memories', tables', elems', datas')
    BY <1>1, SMTT(60) DEF Resolves, Uninitialized
  <2> QED
    BY <1>3, <1>4, <2>1, ResolvesKept, ZenonT(60) DEF IInv, Resolved
<1>9. \A i \in DOMAIN instances' : \A n \in DOMAIN instances'[i].entity.funcs :
            FineAfter(instances'[i].entity.funcs[n])
  <2>1. \A n : n \notin DOMAIN h.entity.funcs
    BY <1>1, SMTT(60) DEF Uninitialized
  <2> QED
    BY <1>3, <1>4, <1>7, <2>1, FineKept, ZenonT(60) DEF IInv, References
<1>10. \A i \in DOMAIN instances : instances[i].initialized => Importing(instances'[i], memories', tables')
  <2>1. \A i \in DOMAIN instances : instances[i] \in InstanceTypes
    BY <1>2, SMTT(60)
  <2> QED
    BY <1>4, <2>1, ImportingKept, ZenonT(60) DEF IInv, Imported
<1> QED
  BY <1>3, <1>4, <1>5, <1>7, <1>8, <1>9, <1>10, ZenonT(60) DEF h

\* The imports are checked in order.
LEMMA ImportsChecked ==
    ASSUME NEW imports, NEW externs
    PROVE  /\ extract_imports(imports, externs) \in Outcomes
           /\ extract_imports(imports, externs) = "Ok" =>
                /\ Len(externs) = Len(imports)
                /\ \A n \in DOMAIN imports : n \in DOMAIN externs => Matches(imports[n], externs[n])
<1> DEFINE a == Len(externs) # Len(imports)
           b == \E n \in DOMAIN imports : n \in DOMAIN externs /\ ~Matches(imports[n], externs[n])
           e == "ImportsExternalsLenMismatch"
           f == "ImportTypeMismatch"
           r == extract_imports(imports, externs)
<1>1. r = FirstError(<< <<a, e>>, <<b, f>> >>)
  BY Zenon DEF extract_imports
<1>2. a \in BOOLEAN /\ b \in BOOLEAN
  BY Zenon
<1>3. e # "Ok" /\ f # "Ok" /\ e \in Outcomes /\ f \in Outcomes /\ "Ok" \in Outcomes
  BY Zenon DEF Outcomes, Errors
<1>4. ~a /\ ~b => /\ Len(externs) = Len(imports)
                  /\ \A n \in DOMAIN imports : n \in DOMAIN externs => Matches(imports[n], externs[n])
  BY Zenon
<1> HIDE DEF a, b, e, f, r
<1>5. r = IF a THEN e ELSE IF b THEN f ELSE "Ok"
  BY <1>1, <1>2, FirstError2, SMTT(60)
<1>6. r \in Outcomes /\ (r = "Ok" => ~a /\ ~b)
  BY <1>3, <1>5, ZenonT(60)
<1> QED
  BY <1>4, <1>6, ZenonT(60) DEF r

\* The imports do not match.
LEMMA RefusesImports ==
    ASSUME IInv, StoreKept, build.at = 0, ~TooManyInstances, funcs' = funcs, build' = build,
           NEW name \in DOMAIN Modules, NEW externs \in Seq(Externals), NEW error \in Outcomes,
           instances' = Append(instances, Handle(name, externs, error))
    PROVE  InstancesKept
<1>1. FuncsKept
  BY Zenon DEF FuncsKept
<1> DEFINE Added ==
           /\ instances' \in Seq(InstanceTypes)
           /\ instances'[Len(instances')] = Handle(name, externs, error)
           /\ \A i \in DOMAIN instances : i \in DOMAIN instances' /\ i # Len(instances') /\ instances'[i] = instances[i]
           /\ \A i \in DOMAIN instances' : i \in DOMAIN instances \/ i = Len(instances')
           /\ limits.on => Len(instances') <= limits.instances
           /\ ReadyKept
           /\ \A i \in DOMAIN instances' : Resolves(instances'[i].entity, memories', tables', elems', datas')
           /\ \A i \in DOMAIN instances' : \A n \in DOMAIN instances'[i].entity.funcs :
                    FineAfter(instances'[i].entity.funcs[n])
           /\ \A i \in DOMAIN instances : instances[i].initialized => Importing(instances'[i], memories', tables')
<1>2. Added
  BY <1>1, HandleAdded, ZenonT(60)
<1>3. Handle(name, externs, error).initialized = FALSE
  BY Zenon DEF Handle
<1>4. /\ funcs' \in Seq(FuncTypes) /\ build' \in Builds /\ build'.at = 0
      /\ \A f \in DOMAIN funcs' : funcs'[f].owner \in DOMAIN instances'
  BY <1>2, ZenonT(60) DEF IInv, Typed, Resolved
<1>5. Underway' /\ OwnReferences'
  BY <1>4, Zenon DEF Underway, OwnReferences
<1>6. Imported'
  BY <1>2, <1>3, <1>4, ZenonT(60) DEF Imported
<1> QED
  BY <1>1, <1>2, <1>4, <1>5, <1>6, ZenonT(60) DEF InstancesKept

\* The functions of the module are added, of which the instance to be is the owner.
LEMMA FunctionsAdded ==
    ASSUME IInv, NEW name \in DOMAIN Modules, extract_functions(Modules[name])
    PROVE  /\ funcs' \in Seq(FuncTypes) /\ FuncsKept
           /\ \A n \in DOMAIN Modules[name].funcs :
                    Len(funcs) + n \in DOMAIN funcs' /\ funcs'[Len(funcs) + n].owner = Len(instances) + 1
           /\ \A f \in DOMAIN funcs' : f \in DOMAIN funcs \/ funcs'[f].owner = Len(instances) + 1
<1> DEFINE o == Len(instances) + 1
           s == Modules[name].funcs
           more == [n \in DOMAIN s |-> [owner |-> o, ty |-> s[n]]]
<1>1. s \in Seq(STRING)
  BY ModulesAssumption, ZenonT(60) DEF ParsedModules
<1>2. funcs' = funcs \o more /\ funcs \in Seq(FuncTypes)
  BY ZenonT(60) DEF extract_functions, IInv, Typed
<1>3. o \in Nat
  BY SMTT(60) DEF IInv, Typed
<1> HIDE DEF o, s
<1>4. DOMAIN s = 1..Len(s) /\ Len(s) \in Nat /\ \A n \in DOMAIN s : s[n] \in STRING
  BY <1>1, SMTT(60)
<1>5. \A n \in DOMAIN s : [owner |-> o, ty |-> s[n]] \in FuncTypes
  BY <1>3, <1>4, ZenonT(60) DEF FuncTypes
<1>6. more \in [1..Len(s) -> FuncTypes]
  BY <1>4, <1>5, ZenonT(60)
<1>7. more \in Seq(FuncTypes) /\ Len(more) = Len(s) /\ \A n \in DOMAIN s : more[n].owner = o
  BY <1>4, <1>6, SMTT(60)
<1> HIDE DEF more
<1>8. funcs' \in Seq(FuncTypes) /\ FuncsKept
  BY <1>2, <1>7, SMTT(60) DEF FuncsKept
<1>9. \A n \in DOMAIN s : Len(funcs) + n \in DOMAIN funcs' /\ funcs'[Len(funcs) + n] = more[n]
  BY <1>2, <1>4, <1>7, SMTT(60)
<1>10. \A f \in DOMAIN funcs' : f \in DOMAIN funcs \/ funcs'[f].owner = o
  <2> SUFFICES ASSUME NEW f \in DOMAIN funcs', f \notin DOMAIN funcs
               PROVE  funcs'[f].owner = o
    BY Zenon
  <2>1. f - Len(funcs) \in DOMAIN s /\ f = Len(funcs) + (f - Len(funcs))
    BY <1>2, <1>4, <1>7, SMTT(60)
  <2>2. funcs'[f] = more[f - Len(funcs)]
    BY <1>9, <2>1, ZenonT(60)
  <2> QED
    BY <1>7, <2>1, <2>2, ZenonT(60)
<1> QED
  BY <1>7, <1>8, <1>9, <1>10, ZenonT(60) DEF o, s

\* What the instance to be has once its imports are checked: all of it in the store,
\* and of functions the imported ones and its own.
LEMMA BuilderIs ==
    ASSUME IInv, NEW name \in DOMAIN Modules, NEW externs \in ExternsFor(Modules[name].imports),
           extract_imports(Modules[name].imports, externs) = "Ok"
    PROVE  /\ Builder(Modules[name], externs) \in Entities
           /\ Resolves(Builder(Modules[name], externs), memories, tables, elems, datas)
           /\ Len(Builder(Modules[name], externs).funcs)
                = NumberOf(Modules[name].imports, "func") + Len(Modules[name].funcs)
           /\ \A n \in DOMAIN Builder(Modules[name], externs).funcs :
                \/ Fine(Builder(Modules[name], externs).funcs[n])
                \/ \E m \in DOMAIN Modules[name].funcs : Builder(Modules[name], externs).funcs[n] = Len(funcs) + m
<1> DEFINE imports == Modules[name].imports
           s == Modules[name].funcs
           b == Builder(Modules[name], externs)
           own == [n \in DOMAIN s |-> Len(funcs) + n]
           Indices(kind) == {externs[n].index : n \in {m \in 1..Len(externs) : externs[m].kind = kind}}
<1>1. /\ externs \in Seq(Externals) /\ DOMAIN externs = 1..Len(externs) /\ Len(externs) \in Nat
      /\ \A n \in DOMAIN externs : externs[n] \in Externs
  BY Given, Zenon
<1>2. imports \in Seq(Imports) /\ s \in Seq(STRING)
  BY ModulesAssumption, ZenonT(60) DEF ParsedModules
<1>3. DOMAIN imports = 1..Len(imports) /\ DOMAIN s = 1..Len(s) /\ Len(s) \in Nat
  BY <1>2, SMTT(60)
<1>4. Len(imports) = Len(externs) /\ \A n \in 1..Len(externs) : imports[n].kind = externs[n].kind
  <2>1. /\ Len(externs) = Len(imports)
        /\ \A n \in DOMAIN imports : n \in DOMAIN externs => Matches(imports[n], externs[n])
    BY ImportsChecked, ZenonT(60)
  <2>2. \A import, extern : Matches(import, extern) => import.kind = extern.kind
    BY Zenon DEF Matches
  <2> HIDE DEF imports
  <2> QED
    BY <1>1, <1>3, <2>1, <2>2, ZenonT(60)
<1> HIDE DEF imports, s
<1>5. \A kind : /\ OfKind(externs, kind) \in Seq(Indices(kind))
                /\ Len(OfKind(externs, kind)) = NumberOf(imports, kind) /\ NumberOf(imports, kind) \in Nat
  BY <1>1, <1>4, OfKindIs, ZenonT(60)
<1>6. /\ \A x \in Indices("memory") : x \in DOMAIN memories
      /\ \A x \in Indices("table") : x \in DOMAIN tables
      /\ \A x \in Indices("func") : x \in DOMAIN funcs /\ Fine(x)
  BY <1>1, ExternsAre, ZenonT(60)
<1>7. /\ \A m \in DOMAIN memories : m \in Nat
      /\ \A t \in DOMAIN tables : t \in Nat
      /\ \A f \in DOMAIN funcs : f \in Nat
      /\ Len(funcs) \in Nat
  BY DEF IInv, Typed
<1> DEFINE tt == OfKind(externs, "table")
           mm == OfKind(externs, "memory")
           ff == OfKind(externs, "func")
<1>8. /\ tt \in Seq(Indices("table")) /\ mm \in Seq(Indices("memory")) /\ ff \in Seq(Indices("func"))
      /\ Len(ff) = NumberOf(imports, "func")
  BY <1>5, ZenonT(60)
<1>9. b = [Uninitialized EXCEPT !.tables = tt, !.memories = mm, !.funcs = ff \o own]
  BY Zenon DEF Builder, s
<1> HIDE DEF Indices, tt, mm, ff, b
<1>10. /\ tt \in Seq(Nat) /\ \A k \in DOMAIN tt : tt[k] \in DOMAIN tables
       /\ mm \in Seq(Nat) /\ \A k \in DOMAIN mm : mm[k] \in DOMAIN memories
       /\ ff \in Seq(Nat) /\ \A k \in DOMAIN ff : Fine(ff[k])
  <2>1. /\ \A k \in DOMAIN tt : tt[k] \in Indices("table")
        /\ \A k \in DOMAIN mm : mm[k] \in Indices("memory")
        /\ \A k \in DOMAIN ff : ff[k] \in Indices("func")
    BY <1>8, SMTT(60)
  <2>2. /\ Indices("table") \subseteq Nat /\ Indices("memory") \subseteq Nat /\ Indices("func") \subseteq Nat
    BY <1>6, <1>7, ZenonT(60)
  <2>3. tt \in Seq(Nat) /\ mm \in Seq(Nat) /\ ff \in Seq(Nat)
    BY <1>8, <2>2, SMTT(60)
  <2> QED
    BY <1>6, <2>1, <2>3, ZenonT(60)
<1>11. own \in [1..Len(s) -> Nat]
  BY <1>3, <1>7, SMTT(60)
<1>12. own \in Seq(Nat) /\ Len(own) = Len(s) /\ \A n \in 1..Len(s) : own[n] = Len(funcs) + n
  BY <1>3, <1>11, SMTT(60)
<1> HIDE DEF own
<1>13. /\ b \in Entities /\ b.tables = tt /\ b.memories = mm /\ b.funcs = ff \o own
       /\ b.elems = <<>> /\ b.datas = <<>>
  <2> DEFINE both == ff \o own
  <2>1. both \in Seq(Nat)
    BY <1>10, <1>12, SMTT(60)
  <2>2. b = [Uninitialized EXCEPT !.tables = tt, !.memories = mm, !.funcs = both]
    BY <1>9, ZenonT(60)
  <2> HIDE DEF both
  <2>3. b = [tables |-> tt, memories |-> mm, funcs |-> both, elems |-> <<>>, datas |-> <<>>]
    BY <2>2, ZenonT(60) DEF Uninitialized
  <2>4. b \in Entities /\ b.tables = tt /\ b.memories = mm /\ b.funcs = both /\ b.elems = <<>> /\ b.datas = <<>>
    BY <1>10, <2>1, <2>3, SMTT(60) DEF Entities
  <2> QED
    BY <2>4, ZenonT(60) DEF both
<1>14. Resolves(b, memories, tables, elems, datas)
  <2>1. DOMAIN <<>> = {}
    BY SMTT(60)
  <2> QED
    BY <1>10, <1>13, <2>1, ZenonT(60) DEF Resolves
<1>15. Len(b.funcs) = NumberOf(imports, "func") + Len(s)
  <2>1. \A p, q \in Seq(Nat) : Len(p \o q) = Len(p) + Len(q)
    BY SMTT(60)
  <2> QED
    BY <1>8, <1>10, <1>12, <1>13, <2>1, ZenonT(60)
<1>16. ASSUME NEW n \in DOMAIN b.funcs
       PROVE  Fine(b.funcs[n]) \/ \E m \in DOMAIN s : b.funcs[n] = Len(funcs) + m
  <2>1. n \in DOMAIN (ff \o own) /\ b.funcs[n] = (ff \o own)[n]
    BY <1>13, <1>16, ZenonT(60)
  <2>2. \/ n \in DOMAIN ff /\ (ff \o own)[n] = ff[n]
        \/ n - Len(ff) \in 1..Len(s) /\ (ff \o own)[n] = own[n - Len(ff)]
    BY <1>3, <1>10, <1>12, <2>1, SMTT(60)
  <2> QED
    BY <1>3, <1>10, <1>12, <2>1, <2>2, ZenonT(60)
<1> QED
  BY <1>13, <1>14, <1>15, <1>16, ZenonT(60) DEF b, imports, s

\* What an import that matches promises.
LEMMA MatchesHolds ==
    ASSUME IInv, NEW import \in Imports, NEW extern \in Externs, Matches(import, extern)
    PROVE  ImportHolds(import, extern.index, memories, tables)
<1>1. /\ extern.kind = import.kind
      /\ extern.kind = "memory" => extern.index \in DOMAIN memories
      /\ extern.kind = "table" => extern.index \in DOMAIN tables
  BY ExternsAre, ZenonT(60) DEF Matches
<1> DEFINE x == extern.index
           ty == import.ty
<1>2. CASE import.kind = "memory"
  <2>1. x \in DOMAIN memories /\ memories[x] \in Memories
    BY <1>1, <1>2, SMTT(60) DEF IInv, Typed
  <2>2. is_subtype_of(memory_dynamic_ty(memories[x]), ty)
    BY <1>2, ZenonT(60) DEF Matches
  <2>3. memories[x].ty \in Types
    BY <2>1, Zenon DEF Memories
  <2> DEFINE d == memory_dynamic_ty(memories[x])
  <2>4. d.min = Pages(memories[x]) /\ d.max = memories[x].ty.max
    BY <2>3, ZenonT(60) DEF memory_dynamic_ty, Types
  <2>5. Pages(memories[x]) \in Nat /\ ty.min \in Nat
    <3>1. ty \in Types
      BY <1>2, ZenonT(60) DEF Imports
    <3>2. Len(memories[x].data) \in Nat
      BY <2>1, MemoryAt, ZenonT(60)
    <3>3. Len(memories[x].data) <= Len(memories[x].data)
      BY <3>2
    <3>4. Pages(memories[x]) \in Nat
      BY <3>2, <3>3, PagesKept, ZenonT(60) DEF Pages
    <3>5. ty.min \in Nat
      BY <3>1, ZenonT(60) DEF Types
    <3> QED
      BY <3>4, <3>5, Zenon
  <2> HIDE DEF d
  <2>6. d.min >= ty.min /\ (ty.max # None => d.max # None /\ d.max <= ty.max)
    BY <2>2, ZenonT(60) DEF is_subtype_of, d
  <2>7. ty.min <= Pages(memories[x])
    BY <2>4, <2>5, <2>6, ZenonT(60)
  <2>8. MemoryImported(ty, x, memories)
    BY <2>1, <2>4, <2>6, <2>7, ZenonT(60) DEF MemoryImported
  <2>9. import.kind # "table"
    BY <1>2, ZenonT(60)
  <2> QED
    BY <2>8, <2>9, ZenonT(60) DEF ImportHolds
<1>3. CASE import.kind = "table"
  <2>1. x \in DOMAIN tables /\ tables[x] \in Tables
    BY <1>1, <1>3, SMTT(60) DEF IInv, Typed
  <2>2. is_subtype_of(table_dynamic_ty(tables[x]), ty)
    BY <1>3, ZenonT(60) DEF Matches
  <2>3. tables[x].ty \in Types
    BY <2>1, Zenon DEF Tables
  <2> DEFINE d == table_dynamic_ty(tables[x])
  <2>4. d.min = Len(tables[x].elements) /\ d.max = tables[x].ty.max
    BY <2>3, ZenonT(60) DEF table_dynamic_ty, Types
  <2>5. Len(tables[x].elements) \in Nat /\ ty.min \in Nat
    <3>1. ty \in Types
      BY <1>3, ZenonT(60) DEF Imports
    <3>2. Len(tables[x].elements) \in Nat
      BY <2>1, TableAt, ZenonT(60)
    <3> QED
      BY <3>1, <3>2, ZenonT(60) DEF Types
  <2> HIDE DEF d
  <2>6. d.min >= ty.min /\ (ty.max # None => d.max # None /\ d.max <= ty.max)
    BY <2>2, ZenonT(60) DEF is_subtype_of, d
  <2>7. ty.min <= Len(tables[x].elements)
    BY <2>4, <2>5, <2>6, ZenonT(60)
  <2>8. TableImported(ty, x, tables)
    BY <2>1, <2>4, <2>6, <2>7, ZenonT(60) DEF TableImported
  <2>9. import.kind # "memory"
    BY <1>3, ZenonT(60)
  <2> QED
    BY <2>8, <2>9, ZenonT(60) DEF ImportHolds
<1> QED
  BY <1>2, <1>3, ZenonT(60) DEF ImportHolds

\* The instantiation begins.
LEMMA Begins ==
    ASSUME IInv, StoreKept, build.at = 0, ~TooManyInstances,
           memories' = memories, tables' = tables, elems' = elems, datas' = datas,
           NEW name \in DOMAIN Modules, NEW externs \in ExternsFor(Modules[name].imports),
           extract_imports(Modules[name].imports, externs) = "Ok",
           instances' = Append(instances, Handle(name, externs, "Ok")),
           extract_functions(Modules[name]),
           build' = [at |-> 1, next |-> 1, entity |-> Builder(Modules[name], externs),
                     tables |-> tables, memories |-> memories]
    PROVE  InstancesKept
<1> DEFINE module == Modules[name]
           b == Builder(module, externs)
           h == Handle(name, externs, "Ok")
           new == Len(instances')
<1>1. /\ funcs' \in Seq(FuncTypes) /\ FuncsKept
      /\ \A n \in DOMAIN module.funcs :
                Len(funcs) + n \in DOMAIN funcs' /\ funcs'[Len(funcs) + n].owner = Len(instances) + 1
      /\ \A f \in DOMAIN funcs' : f \in DOMAIN funcs \/ funcs'[f].owner = Len(instances) + 1
  BY FunctionsAdded, ZenonT(60)
<1>2. /\ externs \in Seq(Externals) /\ DOMAIN externs = 1..Len(externs) /\ Len(externs) \in Nat
      /\ \A n \in DOMAIN externs : externs[n] \in Externs
  BY Given, ZenonT(60)
<1>3. /\ instances' \in Seq(InstanceTypes) /\ new = Len(instances) + 1
      /\ new # 0 /\ new \in DOMAIN instances' /\ instances'[new] = h
      /\ \A i \in DOMAIN instances : i \in DOMAIN instances' /\ i # new /\ instances'[i] = instances[i]
      /\ \A i \in DOMAIN instances' : i \in DOMAIN instances \/ i = new
      /\ limits.on => new <= limits.instances
      /\ ReadyKept
      /\ \A i \in DOMAIN instances' : Resolves(instances'[i].entity, memories', tables', elems', datas')
      /\ \A i \in DOMAIN instances' : \A n \in DOMAIN instances'[i].entity.funcs :
                FineAfter(instances'[i].entity.funcs[n])
      /\ \A i \in DOMAIN instances : instances[i].initialized => Importing(instances'[i], memories', tables')
  <2>1. "Ok" \in Outcomes
    BY ZenonT(60) DEF Outcomes, Errors
  <2> QED
    BY <1>1, <1>2, <2>1, HandleAdded, ZenonT(60)
<1>4. /\ b \in Entities
      /\ Resolves(b, memories, tables, elems, datas)
      /\ Len(b.funcs) = NumberOf(module.imports, "func") + Len(module.funcs)
      /\ \A n \in DOMAIN b.funcs :
            Fine(b.funcs[n]) \/ \E m \in DOMAIN module.funcs : b.funcs[n] = Len(funcs) + m
  BY BuilderIs, ZenonT(60)
<1>5. h.module = name /\ h.externs = externs /\ h.outcome = "building" /\ h.initialized = FALSE
  BY Zenon DEF Handle
<1>6. build' = [at |-> 1, next |-> 1, entity |-> b, tables |-> tables, memories |-> memories]
  BY Zenon
<1> HIDE DEF b, h, module
<1>7. build' \in Builds /\ build'.at = 1 /\ build'.at # 0 /\ build'.entity = b
  <2>1. memories \in Seq(Memories) /\ tables \in Seq(Tables)
    BY ZenonT(60) DEF IInv, Typed
  <2>2. build' \in Builds
    BY <1>4, <1>6, <2>1, BuildBegins, ZenonT(60)
  <2>3. build'.at = 1 /\ build'.entity = b /\ 1 # 0
    BY <1>6, SMTT(60)
  <2> QED
    BY <2>2, <2>3, ZenonT(60)
<1> HIDE DEF new
<1>8. \A f \in DOMAIN funcs' : funcs'[f].owner \in DOMAIN instances'
  BY <1>1, <1>3, ZenonT(60) DEF IInv, Resolved, FuncsKept
<1>9. Underway'
  BY <1>3, <1>4, <1>5, <1>7, ZenonT(60) DEF Underway, new, module
<1>10. OwnReferences'
  <2> DEFINE OwnAfter(r) == FineAfter(r) \/ (r \in DOMAIN funcs' /\ funcs'[r].owner = Len(instances'))
  <2>1. \A n \in DOMAIN b.funcs : OwnAfter(b.funcs[n])
    <3>1. \A r : Fine(r) => FineAfter(r)
      BY <1>1, <1>3, FineKept, ZenonT(60)
    <3>2. \A m \in DOMAIN module.funcs : OwnAfter(Len(funcs) + m)
      BY <1>1, <1>3, ZenonT(60) DEF new
    <3> HIDE DEF OwnAfter
    <3>3. \A r : FineAfter(r) => OwnAfter(r)
      BY ZenonT(60) DEF OwnAfter
    <3> QED
      BY <1>4, <3>1, <3>2, <3>3, ZenonT(60)
  <2> QED
    BY <1>7, <2>1, ZenonT(60) DEF OwnReferences, Own, Fine, FineAfter
<1>11. Importing(h, memories', tables')
  <2>1. /\ Len(externs) = Len(module.imports)
        /\ \A n \in DOMAIN module.imports : n \in DOMAIN externs => Matches(module.imports[n], externs[n])
    BY ImportsChecked, ZenonT(60) DEF module
  <2>2. DOMAIN module.imports = 1..Len(module.imports) /\ \A n \in DOMAIN module.imports : module.imports[n] \in Imports
    <3>1. module \in ParsedModules
      BY ModulesAssumption, ZenonT(60) DEF module
    <3>2. module.imports \in Seq(Imports)
      BY <3>1, ZenonT(60) DEF ParsedModules
    <3> DEFINE imports == module.imports
    <3> HIDE DEF imports
    <3>3. imports \in Seq(Imports)
      BY <3>2, ZenonT(60) DEF imports
    <3>4. DOMAIN imports = 1..Len(imports) /\ \A n \in DOMAIN imports : imports[n] \in Imports
      BY <3>3, SMTT(60)
    <3> QED
      BY <3>4, ZenonT(60) DEF imports
  <2>3. \A n \in DOMAIN externs : ImportHolds(module.imports[n], externs[n].index, memories, tables)
    BY <1>2, <2>1, <2>2, MatchesHolds, ZenonT(60)
  <2> QED
    BY <1>5, <2>1, <2>3, ZenonT(60) DEF Importing, module
<1>12. Imported'
  <2> SUFFICES ASSUME NEW i \in DOMAIN instances', instances'[i].initialized \/ i = new
               PROVE  Importing(instances'[i], memories', tables')
    BY Zenon DEF Imported, new
  <2> QED
    BY <1>3, <1>11, ZenonT(60)
<1> QED
  BY <1>1, <1>3, <1>7, <1>8, <1>9, <1>10, <1>12, ZenonT(60) DEF InstancesKept, new

\* Module::instantiate, up to its first item.
LEMMA Instantiates ==
    ASSUME IInv, NEW name \in DOMAIN Modules, NEW externs \in ExternsFor(Modules[name].imports),
           instantiate(name, externs)
    PROVE  IInv' /\ LeavesNothing /\ Paid
<1> DEFINE error == extract_imports(Modules[name].imports, externs)
<1>1. /\ build.at = 0
      /\ \/ Did("instantiate", "host", "TooManyInstances") /\ UNCHANGED <<funcs, instances, build>>
         \/ /\ ~TooManyInstances
            /\ instances' = Append(instances, Handle(name, externs, error))
            /\ error = "Ok"
            /\ extract_functions(Modules[name])
            /\ build' = [at |-> 1, next |-> 1, entity |-> Builder(Modules[name], externs),
                         tables |-> tables, memories |-> memories]
            /\ Going
         \/ /\ ~TooManyInstances
            /\ instances' = Append(instances, Handle(name, externs, error))
            /\ Did("instantiate", "host", error)
            /\ funcs' = funcs /\ build' = build
  BY Zenon DEF instantiate
<1>2. /\ memories' = memories /\ tables' = tables /\ elems' = elems /\ datas' = datas
      /\ fuel' = fuel /\ limits' = limits /\ meter' = meter /\ failures' = failures
  BY Zenon DEF instantiate
<1>3. StoreStep /\ RestTyped
  BY <1>2, UnchangedTyped, ZenonT(60) DEF StoreStep, RestTyped
<1>4. StoreKept
  BY <1>3, StoreStepKeeps, ZenonT(60)
<1>5. error \in Outcomes
  BY ImportsChecked, ZenonT(60)
<1>6. externs \in Seq(Externals)
  BY Given, ZenonT(60)
<1> HIDE DEF error
<1>7. LeavesNothing /\ Paid
  <2>1. last'.op = "instantiate" /\ last'.by = "host"
    <3>1. CASE Going
      BY <3>1, ZenonT(60) DEF Going
    <3> QED
      BY <1>1, <3>1, DidIs, ZenonT(60)
  <2> QED
    BY <1>2, <2>1, InstantiatingPays, ZenonT(60)
<1>8. InstancesKept
  <2>1. CASE UNCHANGED <<funcs, instances, build>>
    BY <1>4, <2>1, InstancesSame, ZenonT(60)
  <2>2. CASE /\ ~TooManyInstances /\ instances' = Append(instances, Handle(name, externs, error))
             /\ error = "Ok" /\ extract_functions(Modules[name])
             /\ build' = [at |-> 1, next |-> 1, entity |-> Builder(Modules[name], externs),
                          tables |-> tables, memories |-> memories]
    <3>1. extract_imports(Modules[name].imports, externs) = "Ok" /\ instances' = Append(instances, Handle(name, externs, "Ok"))
      BY <2>2, ZenonT(60) DEF error
    <3> QED
      BY <1>1, <1>2, <1>4, <2>2, <3>1, Begins, ZenonT(60)
  <2>3. CASE /\ ~TooManyInstances /\ instances' = Append(instances, Handle(name, externs, error))
             /\ funcs' = funcs /\ build' = build
    BY <1>1, <1>4, <1>5, <1>6, <2>3, RefusesImports, ZenonT(60)
  <2> QED
    BY <1>1, <2>1, <2>2, <2>3, ZenonT(60)
<1> QED
  BY <1>3, <1>4, <1>7, <1>8, Together, ZenonT(60)

\* One item of a stage, or its end.
LEMMA BuildSteps ==
    ASSUME IInv, BuildNext
    PROVE  IInv' /\ LeavesNothing /\ Paid
  BY TooManyFails, InitializesTable, InitializesMemory, StageEnds, ExtractsTable, ExtractsMemory, ZenonT(60)
     DEF BuildNext

-----------------------------------------------------------------------------
(* All steps. *)

\* A step keeps the invariant, and is one the action properties allow.
LEMMA NextKeeps ==
    ASSUME IInv, Next
    PROVE  IInv' /\ LeavesNothing /\ Paid
<1>1. CASE build.at = 0 /\ UNCHANGED build /\ HostNext
  BY <1>1, HostCalls, ZenonT(60)
<1>2. CASE UNCHANGED build /\ \E i \in DOMAIN instances : WasmNext(i)
  <2>1. Operation
    BY <1>2, InstructionsAre, ZenonT(60)
  <2> QED
    BY <1>2, <2>1, OperationKeeps, ZenonT(60) DEF Operation
<1>3. CASE \E name \in DOMAIN Modules : \E externs \in ExternsFor(Modules[name].imports) : instantiate(name, externs)
  BY <1>3, Instantiates, ZenonT(60)
<1>4. CASE BuildNext
  BY <1>4, BuildSteps, ZenonT(60)
<1> QED
  BY <1>1, <1>2, <1>3, <1>4, ZenonT(60) DEF Next

\* A step that changes nothing.
LEMMA StutterKeeps ==
    ASSUME IInv, UNCHANGED vars
    PROVE  IInv'
<1>1. /\ memories' = memories /\ tables' = tables /\ elems' = elems /\ datas' = datas
      /\ fuel' = fuel /\ limits' = limits /\ meter' = meter /\ failures' = failures
      /\ UNCHANGED <<funcs, instances, build>>
  BY Zenon DEF vars, runtime
<1>2. StoreStep /\ RestTyped
  <2>1. fuel \in Fuels
    BY Zenon DEF IInv, Typed
  <2> QED
    BY <1>1, <2>1, UnchangedTyped, ZenonT(60) DEF StoreStep, RestTyped
<1>3. StoreKept
  BY <1>2, StoreStepKeeps, ZenonT(60)
<1>4. InstancesKept
  BY <1>1, <1>3, InstancesSame, ZenonT(60)
<1> QED
  BY <1>2, <1>3, <1>4, Together, ZenonT(60)

-----------------------------------------------------------------------------
(* The theorems. *)

\* The invariant holds of every store.
THEOREM Invariant == Spec => []IInv
<1>1. Init => IInv
  BY InitKeeps, ZenonT(60)
<1>2. IInv /\ [Next]_vars => IInv'
  BY NextKeeps, StutterKeeps, ZenonT(60)
<1> QED
  BY <1>1, <1>2, PTL DEF Spec

\* Memory::new and grow, Table::new and grow_raw keep every memory and table within its
\* type, its index type, its buffer and the limiter's bounds, and instantiate keeps
\* within the number of instances, whatever the sizes, the modules and the limits.
THEOREM Bounded == Spec => []WithinBounds
<1>1. IInv => WithinBounds
  BY Zenon DEF IInv
<1> QED
  BY <1>1, Invariant, PTL

\* What memory_growing and table_growing approve, less what memory_grow_failed and
\* table_grow_failed take back, is at all times what the store holds.
THEOREM Accounted == Spec => []Metered
<1>1. IInv => Metered
  <2> SUFFICES ASSUME IInv PROVE meter = [bytes |-> TotalBytes, elements |-> TotalElements]
    BY ZenonT(60) DEF Metered
  <2>1. meter \in [bytes : Int, elements : Int] /\ meter.bytes = TotalBytes /\ meter.elements = TotalElements
    BY Zenon DEF IInv, Typed, Accounts
  <2> HIDE DEF TotalBytes, TotalElements
  <2> QED
    BY <2>1, ZenonT(60)
<1> QED
  BY <1>1, Invariant, PTL

\* What extract_imports has checked of an imported memory or table by is_subtype_of
\* stays true of it, whoever grows it.
THEOREM ImportsKept == Spec => []ImportsStayWithin
<1>1. IInv => ImportsStayWithin
  <2> SUFFICES ASSUME IInv, NEW i \in DOMAIN instances, instances[i].initialized,
                      NEW n \in DOMAIN instances[i].externs
               PROVE  Satisfies(Modules[instances[i].module].imports[n], instances[i].externs[n].index)
    BY Zenon DEF ImportsStayWithin
  <2> DEFINE import == Modules[instances[i].module].imports[n]
             x == instances[i].externs[n].index
  <2>1. ImportHolds(import, x, memories, tables)
    BY ZenonT(60) DEF IInv, Imported, Importing
  <2>2. import \in Imports
    <3>1. Len(instances[i].externs) = Len(Modules[instances[i].module].imports)
      BY Zenon DEF IInv, Imported, Importing
    <3>2. instances[i].externs \in Seq(Externals) /\ instances[i].module \in DOMAIN Modules
      BY InstanceAt, ZenonT(60)
    <3>3. Modules[instances[i].module].imports \in Seq(Imports)
      BY <3>2, ModulesAssumption, ZenonT(60) DEF ParsedModules
    <3> QED
      BY <3>1, <3>2, <3>3, SMTT(60)
  <2> HIDE DEF import, x
  <2>3. ASSUME import.kind = "memory"
        PROVE  Pages(memories[x]) >= import.ty.min /\ ~Exceeds(Pages(memories[x]), import.ty.max)
    <3>1. MemoryImported(import.ty, x, memories)
      BY <2>1, <2>3, ZenonT(60) DEF ImportHolds
    <3>2. import.ty.min \in Nat /\ import.ty.max \in Option
      BY <2>2, <2>3, ZenonT(60) DEF Imports, Types
    <3>3. memories \in Seq(Memories) /\ x \in DOMAIN memories /\ MemoryFits(memories[x])
      BY <3>1, ZenonT(60) DEF MemoryImported, IInv, Typed, WithinBounds
    <3>4. memories[x].ty.max \in Option /\ Pages(memories[x]) \in Nat
      <4>1. memories[x] \in Memories
        BY <3>3, SMTT(60)
      <4>2. Len(memories[x].data) \in Nat
        BY <3>3, MemoryAt, ZenonT(60)
      <4>3. Len(memories[x].data) <= Len(memories[x].data)
        BY <4>2
      <4>4. Pages(memories[x]) \in Nat
        BY <4>2, <4>3, PagesKept, ZenonT(60) DEF Pages
      <4>5. memories[x].ty.max \in Option
        BY <4>1, ZenonT(60) DEF Memories, Types
      <4> QED
        BY <4>4, <4>5, Zenon
    <3>5. ~Exceeds(Pages(memories[x]), memories[x].ty.max)
      BY <3>3, ZenonT(60) DEF MemoryFits
    <3> DEFINE p == Pages(memories[x])
    <3> HIDE DEF p
    <3> QED
      BY <3>1, <3>2, <3>4, <3>5, SizesAssumption, SMTT(60) DEF MemoryImported, Exceeds, Option
  <2>4. ASSUME import.kind = "table"
        PROVE  Len(tables[x].elements) >= import.ty.min /\ ~Exceeds(Len(tables[x].elements), import.ty.max)
    <3>1. TableImported(import.ty, x, tables)
      BY <2>1, <2>4, ZenonT(60) DEF ImportHolds
    <3>2. import.ty.min \in Nat /\ import.ty.max \in Option
      BY <2>2, <2>4, ZenonT(60) DEF Imports, Types
    <3>3. tables \in Seq(Tables) /\ x \in DOMAIN tables /\ TableFits(tables[x])
      BY <3>1, ZenonT(60) DEF TableImported, IInv, Typed, WithinBounds
    <3>4. tables[x].ty.max \in Option /\ Len(tables[x].elements) \in Nat
      <4>1. tables[x] \in Tables
        BY <3>3, SMTT(60)
      <4>2. Len(tables[x].elements) \in Nat
        BY <3>3, TableAt, ZenonT(60)
      <4> QED
        BY <4>1, <4>2, ZenonT(60) DEF Tables, Types
    <3>5. ~Exceeds(Len(tables[x].elements), tables[x].ty.max)
      BY <3>3, ZenonT(60) DEF TableFits
    <3> QED
      BY <3>1, <3>2, <3>4, <3>5, SizesAssumption, SMTT(60) DEF TableImported, Exceeds, Option
  <2> QED
    BY <2>3, <2>4, ZenonT(60) DEF Satisfies, import, x
<1> QED
  BY <1>1, Invariant, PTL

\* A table names functions of the store only, and of an instance that was never
\* initialised only once its instantiation has come to its segments.
THEOREM NoStrays == Spec => []OrphanFuncs
<1>1. IInv => OrphanFuncs
  <2> SUFFICES ASSUME IInv, NEW t \in DOMAIN tables, NEW n \in DOMAIN tables[t].elements,
                      tables[t].elements[n] # NullRef
               PROVE  tables[t].elements[n] \in DOMAIN funcs /\ Published(tables[t].elements[n])
    BY ZenonT(60) DEF OrphanFuncs
  <2> DEFINE f == tables[t].elements[n]
  <2>1. f \in DOMAIN funcs /\ Ready(funcs[f].owner, instances, AtSegments)
    BY Zenon DEF IInv, References, Fine
  <2>2. AtSegments => At("elems") \/ At("datas")
    BY StagesAre, ZenonT(60) DEF AtSegments
  <2> HIDE DEF f
  <2>3. Published(f)
    BY <2>1, <2>2, ZenonT(60) DEF Published, Ready, Handled
  <2> QED
    BY <2>1, <2>3, ZenonT(60) DEF f
<1> QED
  BY <1>1, Invariant, PTL

\* While a module is instantiated, initialize_table_elements and initialize_memory_data
\* have written the segments so far over each other in the module's order, and nothing
\* else, whatever imports it shares with other instances; the active segments of an
\* instance are empty ever after.
THEOREM SegmentsCopied == Spec => []SegmentsApplied
<1>1. Init => SegmentsInv
  BY SegmentsBegin, ZenonT(60)
<1>2. IInv /\ SegmentsInv /\ [Next]_vars => SegmentsInv'
  BY SegmentsKeep, ZenonT(60)
<1>3. IInv /\ SegmentsInv => SegmentsApplied
  BY SegmentsAre, ZenonT(60)
<1> QED
  BY <1>1, <1>2, <1>3, Invariant, PTL DEF Spec

\* An operation that fails leaves the store as it was, and the fuel unless it was the
\* buffer that could not grow.
THEOREM FailuresClean == Spec => FailuresLeaveNothing
<1>1. IInv /\ [Next]_vars => [LeavesNothing]_vars
  BY NextKeeps, ZenonT(60)
<1> QED
  BY <1>1, Invariant, PTL DEF Spec, FailuresLeaveNothing, LeavesNothing

\* Growths of instances are paid for by what they add, those of the host are not, and
\* only set_fuel gives fuel.
THEOREM GrowthsPaid == Spec => GrowthPaid
<1>1. IInv /\ [Next]_vars => [Paid]_vars
  BY NextKeeps, Zenon
<1> QED
  BY <1>1, Invariant, PTL DEF Spec, GrowthPaid, Paid, MemoryPaid, TablePaid

=============================================================================
