--------------------------- MODULE CodeMap_proof ---------------------------
(***************************************************************************)
(* The code map is safe for every number of threads, functions and         *)
(* buckets.  The index arithmetic of `Funcs`: a function below the         *)
(* published length lies in a bucket that publication of that length has   *)
(* allocated, and two functions never share a slot.  Who owns an entry,    *)
(* and the steps that leave builders or entries alone.  The steps that     *)
(* build the table, and those that execute, look up and compile entries,   *)
(* preserve IInv, so IInv is an inductive invariant of Spec, the safety    *)
(* properties follow, and every step implements a step of FuncTable.       *)
(***************************************************************************)
EXTENDS CodeMap, WellFoundedInduction, TLAPS

-----------------------------------------------------------------------------
(* The buckets of the table *)

\* A non-empty set of naturals has a least element.
LEMMA LeastNat ==
    ASSUME NEW T \in SUBSET Nat, T # {}
    PROVE  \E x \in T : \A y \in T : x <= y
<1>1. PICK x \in T : \A y \in T : ~ (<<y, x>> \in OpToRel(<, Nat))
  BY NatLessThanWellFounded, WFMin, T \subseteq Nat, Zenon
<1>2. ASSUME NEW y \in T PROVE x <= y
  <2>1. ~ (<<y, x>> \in OpToRel(<, Nat))
    BY <1>1, Zenon
  <2>2. x \in Nat /\ y \in Nat
    BY Zenon
  <2>3. ~ (y < x)
    BY <2>1, <2>2, Zenon DEF OpToRel
  <2> QED BY <2>2, <2>3
<1> QED BY <1>1, <1>2, Zenon

\* `63 - leading_zeros` of a non-zero word is its greatest set bit.
LEMMA MsbIsMax ==
    ASSUME NEW j \in Nat, 1 <= j
    PROVE  /\ Msb(j) \in BitsUpTo(j)
           /\ \A k \in BitsUpTo(j) : k <= Msb(j)
<1> DEFINE T == {n \in 0..30 : 30 - n \in BitsUpTo(j)}
<1>1. 2 ^ 0 = 1
  OBVIOUS
<1>2. 0 \in BitsUpTo(j)
  BY <1>1 DEF BitsUpTo
<1>3. 30 \in T
  BY <1>2
<1>4. PICK x \in T : \A y \in T : x <= y
  BY <1>3, LeastNat, T \in SUBSET Nat, Zenon
<1>5. 30 - x \in BitsUpTo(j)
  BY <1>4, Zenon
<1>6. ASSUME NEW k \in BitsUpTo(j) PROVE k <= 30 - x
  <2>1. k \in 0..30
    BY Zenon DEF BitsUpTo
  <2>2. 30 - (30 - k) = k
    BY <2>1
  <2>3. 30 - k \in T
    BY <2>1, <2>2
  <2>4. x <= 30 - k
    BY <1>4, <2>3, Zenon
  <2>5. x \in 0..30
    BY <1>4, Zenon
  <2> HIDE DEF T
  <2> QED BY <2>1, <2>4, <2>5
<1>7. \E m \in BitsUpTo(j) : \A k \in BitsUpTo(j) : k <= m
  BY <1>5, <1>6, Zenon
<1> QED BY <1>7, Zenon DEF Msb

\* The leading bit is monotone.
LEMMA MsbMonotone ==
    ASSUME NEW i \in Nat, NEW j \in Nat, 1 <= i, i <= j
    PROVE  /\ Msb(i) \in 0..30
           /\ Msb(j) \in 0..30
           /\ Msb(i) <= Msb(j)
<1>1. Msb(i) \in BitsUpTo(i)
  BY MsbIsMax, Zenon
<1>2. BitsUpTo(i) \subseteq BitsUpTo(j)
  BY DEF BitsUpTo
<1>3. /\ Msb(j) \in BitsUpTo(j)
      /\ \A k \in BitsUpTo(j) : k <= Msb(j)
  BY MsbIsMax
<1> QED BY <1>1, <1>2, <1>3, Zenon DEF BitsUpTo

\* The first bucket (LEN_BUCKET0) has at least one slot.
LEMMA LenBucket0 == LEN_BUCKET0 \in Nat /\ 1 <= LEN_BUCKET0
BY BucketAssumption DEF LEN_BUCKET0

\* The bucket of a function below the length is one of the buckets required
\* for that length: `get_within` never reads a slot that `alloc_funcs` did not
\* write before it published the length.
THEOREM LocateWithinRequired ==
    ASSUME NEW func \in Nat, NEW len \in Nat, func < len
    PROVE  bucket_of(func) < required_buckets_for_len(len)
<1>1. Msb(func + LEN_BUCKET0) <= Msb(len - 1 + LEN_BUCKET0)
  BY LenBucket0, MsbMonotone
<1>2. /\ Msb(func + LEN_BUCKET0) \in 0..30
      /\ Msb(len - 1 + LEN_BUCKET0) \in 0..30
  BY LenBucket0, MsbMonotone
<1> QED
  BY <1>1, <1>2, BucketAssumption DEF bucket_of, required_buckets_for_len

\* Growing the table never releases a bucket: the number of required buckets is
\* monotone in the length, so `alloc_funcs` writes the slots from
\* current_buckets up and no other.
THEOREM RequiredMonotone ==
    ASSUME NEW m \in Nat, NEW n \in Nat, m <= n
    PROVE  required_buckets_for_len(m) <= required_buckets_for_len(n)
<1>1. CASE m = 0
  <2>1. CASE n = 0
    BY <1>1, <2>1, Zenon DEF required_buckets_for_len
  <2>2. CASE n # 0
    <3>1. BitsUpTo(LEN_BUCKET0) \subseteq BitsUpTo(n - 1 + LEN_BUCKET0)
      BY <2>2, LenBucket0 DEF BitsUpTo
    <3>2. LEN_BUCKET0_LOG2 \in BitsUpTo(LEN_BUCKET0)
      BY BucketAssumption DEF BitsUpTo, LEN_BUCKET0
    <3>3. /\ Msb(n - 1 + LEN_BUCKET0) \in 0..30
          /\ LEN_BUCKET0_LOG2 <= Msb(n - 1 + LEN_BUCKET0)
      <4>1. n - 1 + LEN_BUCKET0 \in Nat /\ 1 <= n - 1 + LEN_BUCKET0
        BY <2>2, LenBucket0
      <4> QED BY <3>1, <3>2, <4>1, MsbIsMax, Zenon DEF BitsUpTo
    <3> QED BY <1>1, <2>2, <3>3, BucketAssumption DEF required_buckets_for_len
  <2> QED BY <2>1, <2>2, Zenon
<1>2. CASE m # 0
  <2>1. /\ Msb(m - 1 + LEN_BUCKET0) <= Msb(n - 1 + LEN_BUCKET0)
        /\ Msb(m - 1 + LEN_BUCKET0) \in 0..30
        /\ Msb(n - 1 + LEN_BUCKET0) \in 0..30
    BY <1>2, LenBucket0, MsbMonotone
  <2> QED BY <1>2, <2>1, BucketAssumption DEF required_buckets_for_len
<1> QED BY <1>1, <1>2, Zenon

\* Two functions never share an entry: `locate` is injective.
THEOREM LocateInjective ==
    ASSUME NEW f \in Nat, NEW g \in Nat,
           bucket_of(f) = bucket_of(g), slot_of(f) = slot_of(g)
    PROVE  f = g
<1>1. /\ Msb(f + LEN_BUCKET0) \in 0..30
      /\ Msb(g + LEN_BUCKET0) \in 0..30
  BY LenBucket0, MsbMonotone
<1>2. Msb(f + LEN_BUCKET0) = Msb(g + LEN_BUCKET0)
  BY <1>1, BucketAssumption DEF bucket_of
<1>3. /\ 2 ^ Msb(f + LEN_BUCKET0) \in Int
      /\ 2 ^ Msb(f + LEN_BUCKET0) = 2 ^ Msb(g + LEN_BUCKET0)
  BY <1>1, <1>2
<1> QED BY <1>3, LenBucket0 DEF slot_of

-----------------------------------------------------------------------------
(* Facts on buckets and locations *)

\* Buckets are counted, and none is required for no function at all.
LEMMA BucketType ==
    ASSUME NEW n \in Nat
    PROVE  /\ required_buckets_for_len(n) \in Nat
           /\ bucket_of(n) \in Nat
<1>1. required_buckets_for_len(0) = 0
  BY Zenon DEF required_buckets_for_len
<1>2. /\ n - 1 + LEN_BUCKET0 \in Int /\ n + LEN_BUCKET0 \in Nat
      /\ 1 <= n + LEN_BUCKET0
      /\ n # 0 => n - 1 + LEN_BUCKET0 \in Nat /\ 1 <= n - 1 + LEN_BUCKET0
  BY LenBucket0
<1>3. required_buckets_for_len(n) \in Int /\ 0 <= required_buckets_for_len(n)
  <2>1. required_buckets_for_len(0) <= required_buckets_for_len(n)
    BY RequiredMonotone
  <2>2. n # 0 => Msb(n - 1 + LEN_BUCKET0) \in 0..30
    BY <1>2, MsbMonotone
  <2>3. required_buckets_for_len(n) \in Int
    BY <2>2, BucketAssumption DEF required_buckets_for_len
  <2> QED BY <1>1, <2>1, <2>3, Zenon
<1>4. bucket_of(n) \in Int /\ 0 <= bucket_of(n)
  <2>1. LEN_BUCKET0_LOG2 \in BitsUpTo(n + LEN_BUCKET0)
    BY BucketAssumption, LenBucket0 DEF BitsUpTo, LEN_BUCKET0
  <2>2. /\ Msb(n + LEN_BUCKET0) \in BitsUpTo(n + LEN_BUCKET0)
        /\ LEN_BUCKET0_LOG2 <= Msb(n + LEN_BUCKET0)
    BY <1>2, <2>1, MsbIsMax, Zenon
  <2>3. Msb(n + LEN_BUCKET0) \in 0..30
    BY <2>2, Zenon DEF BitsUpTo
  <2> QED BY <2>2, <2>3, BucketAssumption DEF bucket_of
<1> QED BY <1>3, <1>4

\* A bucket's pointer and an entry's data are different locations.
LEMMA LocFacts ==
    /\ \A m, n : Slot(m) = Slot(n) => m = n
    /\ \A f, g : Data(f) = Data(g) => f = g
    /\ \A n, f : Slot(n) # Data(f)
    /\ \A n \in Buckets : Slot(n) \in Locs
    /\ \A f \in Funcs : Data(f) \in Locs
BY Zenon DEF Slot, Data, Locs

\* The index arithmetic of `Funcs`, for the functions of the model.
LEMMA BucketFacts ==
    /\ \A n \in 0 .. MaxFuncs : required_buckets_for_len(n) \in Nat
    /\ \A m, n \in 0 .. MaxFuncs :
         m <= n => required_buckets_for_len(m) <= required_buckets_for_len(n)
    /\ \A f \in Funcs : bucket_of(f) \in Buckets
    /\ \A f \in Funcs : \A n \in 0 .. MaxFuncs :
         f < n => bucket_of(f) < required_buckets_for_len(n)
    /\ \A n \in 0 .. MaxFuncs : \A b \in Nat :
         b < required_buckets_for_len(n) => b \in Buckets
<1>1. MaxFuncs \in Nat
  BY CodeMapAssumption, Zenon
<1>2. \A n \in 0 .. MaxFuncs : required_buckets_for_len(n) \in Nat
  BY <1>1, BucketType
<1>3. \A m, n \in 0 .. MaxFuncs :
        m <= n => required_buckets_for_len(m) <= required_buckets_for_len(n)
  BY <1>1, RequiredMonotone
<1>4. \A f \in Funcs : \A n \in 0 .. MaxFuncs :
        f < n => bucket_of(f) < required_buckets_for_len(n)
  BY <1>1, LocateWithinRequired DEF Funcs
<1>5. \A f \in Funcs : bucket_of(f) \in Nat
  BY <1>1, BucketType DEF Funcs
<1>6. \A f \in Funcs : bucket_of(f) \in Buckets
  BY <1>1, <1>2, <1>4, <1>5 DEF Funcs, Buckets
<1>7. \A n \in 0 .. MaxFuncs : \A b \in Nat :
        b < required_buckets_for_len(n) => b \in Buckets
  BY <1>1, <1>2, <1>3 DEF Buckets
<1> QED BY <1>2, <1>3, <1>4, <1>6, <1>7, Zenon

\* The program points.
LEMMA PcsFacts ==
    /\ OwnerPcs \subseteq Pcs
    /\ \A p \in {"host", "alloc", "init", "init_store", "wasm", "compile",
                 "compare_exchange", "fmt", "fmt_payload", "assume_compiled",
                 "double_init_panic", "missing_entry_panic", "ub"} : p \in Pcs \ OwnerPcs
    /\ OwnerPcs = {"take_uncompiled", "translate", "set_compiled", "set_uncompiled",
                   "store_compiled", "store_uncompiled", "failed"}
BY Zenon DEF Pcs, OwnerPcs, ReaderPcs, PanicPcs

\* A step that neither starts nor ends a compilation keeps the owners.
LEMMA OwnersKeep ==
    ASSUME OneCompiler,
           \A f \in Funcs : state'[f] = "COMPILING" <=> state[f] = "COMPILING",
           \A x \in Threads : /\ pc'[x] \in OwnerPcs <=> pc[x] \in OwnerPcs
                              /\ pc[x] \in OwnerPcs => cur'[x] = cur[x]
    PROVE  OneCompiler'
BY DEF OneCompiler, Owns

\* A step that leaves the payloads alone and makes nobody an owner keeps what
\* the owners know.
LEMMA OwnersStay ==
    ASSUME OwnerInv, data' = data,
           \A x \in Threads : pc'[x] \in OwnerPcs =>
                pc'[x] = pc[x] /\ cur'[x] = cur[x] /\ know[x] \subseteq know'[x]
    PROVE  OwnerInv'
BY Zenon DEF OwnerInv, OwnerPcs

\* The function a module is about to initialize is its own: published, not yet
\* initialized, reachable by nobody and in no other module.
LEMMA BuilderFacts ==
    ASSUME IInv, NEW t \in Threads,
           \/ pc[t] = "init" /\ cur[t] < span[t].end
           \/ pc[t] = "init_store"
    PROVE  /\ cur[t] \in Funcs /\ Data(cur[t]) \in Locs
           /\ state[cur[t]] = "UNINIT" /\ cur[t] < len_funcs
           /\ span[t].start <= cur[t] /\ cur[t] < span[t].end
           /\ \A u \in Threads : cur[t] \notin reach[u]
           /\ \A u \in Threads \ {t} : pc[u] \in BuildPcs =>
                ~ (span[u].start <= cur[t] /\ cur[t] < span[u].end)
<1>1. /\ cur[t] < span[t].end /\ cur[t] \in Nat
      /\ span[t] \in [start : 0 .. MaxFuncs, end : 0 .. MaxFuncs]
  BY Zenon DEF IInv, BuildInv, TypeOK, InitStored
<1>2. cur[t] \in Funcs
  BY <1>1, CodeMapAssumption DEF Funcs
<1>3. /\ span[t].end <= len_funcs /\ span[t].start <= cur[t] /\ state[cur[t]] = "UNINIT"
      /\ len_funcs \in Nat
  BY <1>1, <1>2, CodeMapAssumption DEF IInv, BuildInv, TypeOK, InitProgress
<1>4. \A u \in Threads : cur[t] \notin reach[u]
  BY <1>3, Zenon DEF IInv, ReachInv
<1>5. ASSUME NEW u \in Threads \ {t}, pc[u] \in BuildPcs,
             span[u].start <= cur[t], cur[t] < span[u].end
      PROVE  FALSE
  <2>1. span[t].end <= span[u].start \/ span[u].end <= span[t].start
    BY <1>5, Zenon DEF IInv, BuildInv, SpansDisjoint, BuildPcs
  <2>2. span[u] \in [start : 0 .. MaxFuncs, end : 0 .. MaxFuncs]
    BY Zenon DEF IInv, TypeOK
  <2> QED BY <1>1, <1>3, <1>5, <2>1, <2>2, CodeMapAssumption
<1> QED BY <1>1, <1>2, <1>3, <1>4, <1>5, LocFacts, CodeMapAssumption

\* The function a thread compiles is COMPILING and nobody else's.
LEMMA OwnerFacts ==
    ASSUME IInv, NEW t \in Threads, pc[t] \in OwnerPcs
    PROVE  /\ cur[t] \in Funcs /\ Data(cur[t]) \in Locs
           /\ cur[t] \in reach[t] /\ cur[t] < len_funcs
           /\ state[cur[t]] = "COMPILING"
           /\ \A u \in Threads \ {t} : pc[u] \in OwnerPcs => cur[u] # cur[t]
           /\ \A u \in Threads : pc[u] = "init_store" => cur[u] # cur[t]
<1>1. cur[t] \in reach[t] /\ cur[t] \in Funcs /\ cur[t] < len_funcs
  BY Zenon DEF IInv, TypeOK, ReachInv, CallPcs
<1>2. /\ state[cur[t]] = "COMPILING"
      /\ \A u \in Threads \ {t} : pc[u] \in OwnerPcs => cur[u] # cur[t]
  BY <1>1, Zenon DEF IInv, EntryInv, OneCompiler, Owns
<1>3. ASSUME NEW u \in Threads, pc[u] = "init_store", cur[u] = cur[t]
      PROVE  FALSE
  <2>1. state[cur[u]] = "UNINIT"
    BY <1>3, BuilderFacts, Zenon
  <2> QED BY <1>2, <1>3, <2>1, Zenon
<1> QED BY <1>1, <1>2, <1>3, LocFacts, Zenon

\* A step that leaves the writers of the table, their modules and what they know
\* alone.
BuildersUntouched ==
    /\ UNCHANGED <<buckets, len_funcs, alloc_lock, reach>>
    /\ \A x \in Threads : pc[x] \in BuildPcs \/ pc'[x] \in BuildPcs =>
         pc'[x] = pc[x] /\ span'[x] = span[x] /\ cur'[x] = cur[x]
    /\ \A x \in Threads : \A n \in Buckets : Slot(n) \in know[x] => Slot(n) \in know'[x]
    /\ \A n \in Buckets : /\ Slot(n) \in lenMsg => Slot(n) \in lenMsg'
                          /\ Slot(n) \in lockMsg => Slot(n) \in lockMsg'
    /\ \A f \in Funcs : state'[f] = "UNINIT" <=> state[f] = "UNINIT"
    /\ \A x \in Threads : pc[x] = "init_store" =>
         /\ data'[cur[x]] = data[cur[x]]
         /\ Data(cur[x]) \in know[x] => Data(cur[x]) \in know'[x]

\* Such a step keeps the allocator's and the modules' invariants.
LEMMA BuildersKeep ==
    ASSUME IInv, BuildersUntouched
    PROVE  AllocInv' /\ BuildInv'
<1>1. AllocInv'
  <2>1. \A x \in Threads : pc'[x] = "alloc" <=> pc[x] = "alloc"
    BY Zenon DEF BuildersUntouched, BuildPcs
  <2>2. \A x \in Threads : pc[x] = "alloc" => span'[x] = span[x] /\ cur'[x] = cur[x]
    BY Zenon DEF BuildersUntouched, BuildPcs
  <2> QED BY <2>1, <2>2 DEF IInv, BuildersUntouched, AllocInv, SlotsIn
<1>2. \A x \in Threads : pc'[x] \in BuildPcs =>
        pc[x] = pc'[x] /\ span'[x] = span[x] /\ cur'[x] = cur[x]
  BY Zenon DEF BuildersUntouched
<1>3. InitProgress'
  BY <1>2, Zenon DEF IInv, BuildInv, BuildersUntouched, InitProgress, SlotsIn, BuildPcs
<1>4. InitStored'
  BY <1>2 DEF IInv, BuildInv, BuildersUntouched, InitStored, BuildPcs
<1>5. SpansDisjoint' /\ SpansUnreached'
  BY <1>2, Zenon DEF IInv, BuildInv, BuildersUntouched, SpansDisjoint, SpansUnreached
<1>6. TailUninit'
  BY Zenon DEF IInv, BuildInv, BuildersUntouched, TailUninit
<1> QED BY <1>1, <1>3, <1>4, <1>5, <1>6, Zenon DEF BuildInv

\* A step that leaves the entries, their owners and readers alone.
EntriesUntouched ==
    /\ UNCHANGED <<state, data>>
    /\ \A x \in Threads : pc[x] \in OwnerPcs \cup ReaderPcs
                          \/ pc'[x] \in OwnerPcs \cup ReaderPcs =>
         pc'[x] = pc[x] /\ cur'[x] = cur[x]
    /\ \A x \in Threads : \A f : Data(f) \in know[x] => Data(f) \in know'[x]
    /\ \A f \in Funcs : Data(f) \in stateMsg[f] => Data(f) \in stateMsg'[f]

\* Such a step keeps the entries' invariants.
LEMMA EntriesKeep ==
    ASSUME IInv, EntriesUntouched
    PROVE  EntryInv'
<1>1. OneCompiler'
  BY OwnersKeep, Zenon DEF IInv, EntryInv, EntriesUntouched
<1>2. PayloadInv'
  BY Zenon DEF IInv, EntryInv, EntriesUntouched, PayloadInv
<1>3. OwnerInv'
  BY PcsFacts, Zenon DEF IInv, EntryInv, EntriesUntouched, OwnerInv
<1>4. ReaderInv'
  BY Zenon DEF IInv, EntryInv, EntriesUntouched, ReaderInv, ReaderPcs
<1> QED BY <1>1, <1>2, <1>3, <1>4, Zenon DEF EntryInv

-----------------------------------------------------------------------------
(* Every action preserves the inductive invariant *)

-----------------------------------------------------------------------------
(* Allocation of entries, and translation while parsing *)

\* The allocator takes the lock: its span starts at the published length.
LEMMA Step_alloc_funcs ==
    ASSUME IInv, NEW t \in Threads, NEW n \in Nat, alloc_funcs(t, n)
    PROVE  IInv'
<1>1. TypeOK'
  <2>1. buckets' \subseteq Buckets /\ len_funcs' \in 0 .. MaxFuncs /\ alloc_lock' \in Threads \cup {NoThread}
    BY Zenon DEF IInv, TypeOK, alloc_funcs
  <2>2. pc' \in [Threads -> Pcs]
    BY PcsFacts, Zenon DEF IInv, TypeOK, alloc_funcs, Goto
  <2>3. span' \in [Threads -> [start : 0 .. MaxFuncs, end : 0 .. MaxFuncs]]
    BY DEF IInv, TypeOK, alloc_funcs, FitsTable
  <2>4. cur' \in [Threads -> Nat]
    BY BucketFacts, Zenon DEF IInv, TypeOK, alloc_funcs
  <2>5. /\ know' \in [Threads -> SUBSET Locs] /\ lenMsg' \subseteq Locs
        /\ lockMsg' \subseteq Locs /\ stateMsg' \in [Funcs -> SUBSET Locs]
    BY Zenon DEF IInv, TypeOK, alloc_funcs, Acquire
  <2> QED
    BY <2>1, <2>2, <2>3, <2>4, <2>5, Zenon DEF IInv, TypeOK, alloc_funcs, entryVars
<1>2. AllocInv'
  BY BucketFacts, CodeMapAssumption
  DEF IInv, EntryInv, alloc_funcs, Acquire, Goto, entryVars, TypeOK, AllocInv, SlotsIn
<1>3. InitProgress'
  BY DEF IInv, BuildInv, EntryInv, alloc_funcs, Acquire, Goto, entryVars, InitProgress
<1>4. InitStored'
  BY DEF IInv, BuildInv, alloc_funcs, Acquire, Goto, entryVars, InitStored
<1>5. SpansDisjoint'
  <2> SUFFICES ASSUME NEW x \in Threads, NEW u \in Threads, x # u,
                      pc'[x] \in BuildPcs, pc'[u] \in BuildPcs
               PROVE  span'[x].end <= span'[u].start \/ span'[u].end <= span'[x].start
    BY Zenon DEF SpansDisjoint
  <2>1. \A y \in Threads : y # t /\ pc'[y] \in BuildPcs => span[y].end <= len_funcs
    BY CodeMapAssumption
    DEF IInv, BuildInv, InitProgress, AllocInv, alloc_funcs, Goto, BuildPcs
  <2>2. CASE x = t
    BY <2>1, <2>2, Zenon DEF IInv, TypeOK, alloc_funcs
  <2>3. CASE u = t
    BY <2>1, <2>3, Zenon DEF IInv, TypeOK, alloc_funcs
  <2>4. CASE x # t /\ u # t
    BY <2>4 DEF IInv, BuildInv, SpansDisjoint, alloc_funcs, Goto
  <2> QED BY <2>2, <2>3, <2>4, Zenon
<1>6. SpansUnreached'
  BY Zenon DEF IInv, BuildInv, alloc_funcs, Goto, TypeOK, SpansUnreached, ReachInv
<1>7. TailUninit'
  BY Zenon DEF IInv, BuildInv, alloc_funcs, entryVars, TailUninit
<1>8. ReachInv'
  BY PcsFacts, Zenon
  DEF IInv, TypeOK, alloc_funcs, Acquire, Goto, entryVars, ReachInv, SlotsIn, CallPcs,
      FmtPcs
<1>9. EntryInv'
  <2>1. EntriesUntouched
    BY PcsFacts, Zenon
    DEF IInv, TypeOK, EntriesUntouched, ReaderPcs, alloc_funcs, Acquire, Goto, entryVars
  <2> QED BY <2>1, EntriesKeep, Zenon
<1>10. NoPanic'
  BY DEF IInv, alloc_funcs, Goto, NoPanic, PanicPcs
<1> QED
  BY <1>1, <1>2, <1>3, <1>4, <1>5, <1>6, <1>7, <1>8, <1>9, <1>10, Zenon DEF IInv, BuildInv

\* A rejected allocation changes nothing but what the thread knows.
LEMMA Step_alloc_funcs_overflow ==
    ASSUME IInv, NEW t \in Threads, NEW n \in Nat, alloc_funcs_overflow(t, n)
    PROVE  IInv'
<1>1. TypeOK'
  <2>1. /\ know' \in [Threads -> SUBSET Locs] /\ lenMsg' \subseteq Locs
        /\ lockMsg' \subseteq Locs /\ stateMsg' \in [Funcs -> SUBSET Locs]
    BY Zenon DEF IInv, TypeOK, alloc_funcs_overflow, Acquire
  <2> QED
    BY <2>1, Zenon DEF IInv, TypeOK, alloc_funcs_overflow, tableVars, entryVars
<1>2. AllocInv' /\ BuildInv'
  <2>1. BuildersUntouched
    BY DEF BuildersUntouched, alloc_funcs_overflow, Acquire, tableVars, entryVars
  <2> QED BY <2>1, BuildersKeep, Zenon
<1>3. ReachInv'
  BY DEF IInv, BuildInv, alloc_funcs_overflow, Acquire, tableVars, entryVars, ReachInv,
         FmtPcs
<1>4. EntryInv'
  <2>1. EntriesUntouched
    BY DEF EntriesUntouched, alloc_funcs_overflow, Acquire, entryVars
  <2> QED BY <2>1, EntriesKeep, Zenon
<1>5. NoPanic'
  BY Zenon DEF IInv, alloc_funcs_overflow, NoPanic
<1> QED
  BY <1>1, <1>2, <1>3, <1>4, <1>5, Zenon DEF IInv

\* The allocator writes a bucket beyond the published ones.
LEMMA Step_alloc_funcs_bucket ==
    ASSUME IInv, NEW t \in Threads, alloc_funcs_bucket(t)
    PROVE  IInv'
<1>0. cur[t] \in Buckets /\ Slot(cur[t]) \in Locs /\ cur[t] >= required_buckets_for_len(len_funcs)
  BY BucketFacts, LocFacts, Zenon DEF IInv, TypeOK, AllocInv, alloc_funcs_bucket
<1>1. TypeOK'
  <2>1. buckets' \subseteq Buckets /\ len_funcs' \in 0 .. MaxFuncs /\ alloc_lock' \in Threads \cup {NoThread}
    BY <1>0, Zenon DEF IInv, TypeOK, alloc_funcs_bucket
  <2>2. cur' \in [Threads -> Nat]
    BY <1>0 DEF IInv, TypeOK, alloc_funcs_bucket
  <2>3. /\ know' \in [Threads -> SUBSET Locs] /\ lenMsg' \subseteq Locs
        /\ lockMsg' \subseteq Locs /\ stateMsg' \in [Funcs -> SUBSET Locs]
    BY <1>0, Zenon DEF IInv, TypeOK, alloc_funcs_bucket, Write
  <2> QED
    BY <2>1, <2>2, <2>3, Zenon DEF IInv, TypeOK, alloc_funcs_bucket, entryVars
<1>2. AllocInv'
  <2>1. /\ pc[t] = "alloc" /\ cur[t] < required_buckets_for_len(span[t].end)
        /\ buckets' = buckets \cup {cur[t]} /\ cur' = [cur EXCEPT ![t] = cur[t] + 1]
        /\ UNCHANGED <<len_funcs, alloc_lock, pc, span>>
        /\ know' = [u \in Threads |-> IF u = t THEN know[u] \cup {Slot(cur[t])} ELSE know[u] \ {Slot(cur[t])}]
        /\ lenMsg' = lenMsg \ {Slot(cur[t])} /\ lockMsg' = lockMsg \ {Slot(cur[t])}
    BY Zenon DEF alloc_funcs_bucket, Write
  <2>2. /\ len_funcs \in 0 .. MaxFuncs /\ required_buckets_for_len(len_funcs) \in Nat
        /\ cur[t] \in Nat /\ \A n \in Buckets : n \in Nat
    BY BucketFacts DEF IInv, TypeOK, Buckets
  <2>3. \A n \in Buckets : n < required_buckets_for_len(len_funcs) => Slot(n) # Slot(cur[t])
    BY <1>0, <2>2, LocFacts
  <2>4. alloc_lock = t /\ \A x \in Threads : x # t => pc[x] # "alloc"
    BY <2>1, Zenon DEF IInv, AllocInv
  <2>5. SlotsIn(len_funcs, lenMsg')
    BY <2>1, <2>3, Zenon DEF IInv, AllocInv, SlotsIn
  <2>6. \A n \in Buckets : n < cur[t] + 1 => n \in buckets' /\ Slot(n) \in know'[t]
    <3>1. \A n \in Buckets : n < cur[t] => n \in buckets /\ Slot(n) \in know[t]
      BY <2>1, Zenon DEF IInv, AllocInv
    <3>2. \A n \in Buckets : n < cur[t] + 1 => n < cur[t] \/ n = cur[t]
      BY <2>2
    <3> QED BY <2>1, <3>1, <3>2, Zenon
  <2>7. cur'[t] = cur[t] + 1 /\ cur[t] + 1 >= required_buckets_for_len(len_funcs)
    BY <1>0, <2>1, <2>2 DEF IInv, TypeOK
  <2>8. span[t].start = len_funcs /\ span[t].end >= len_funcs
    BY <2>1, Zenon DEF IInv, AllocInv
  <2>9. \A n \in Buckets : n < required_buckets_for_len(len_funcs) => n \in buckets'
    BY <2>1, Zenon DEF IInv, AllocInv
  <2>10. alloc_lock # NoThread
    BY <2>4, CodeMapAssumption, Zenon
  <2> QED BY <2>1, <2>4, <2>5, <2>6, <2>7, <2>8, <2>9, <2>10, Zenon DEF AllocInv
<1>3. InitProgress'
  BY <1>0, LocFacts, BucketFacts, PcsFacts, SMTT(60)
  DEF IInv, BuildInv, EntryInv, alloc_funcs_bucket, Write, entryVars, TypeOK,
      InitProgress, SlotsIn
<1>4. InitStored'
  BY <1>0, LocFacts, ZenonT(20)
  DEF TypeOK, IInv, BuildInv, alloc_funcs_bucket, Write, entryVars, InitStored
<1>5. SpansDisjoint'
  BY <1>0, Zenon DEF IInv, BuildInv, alloc_funcs_bucket, SpansDisjoint
<1>6. SpansUnreached'
  BY <1>0, Zenon DEF IInv, BuildInv, alloc_funcs_bucket, SpansUnreached
<1>7. TailUninit'
  BY <1>0, Zenon DEF IInv, BuildInv, alloc_funcs_bucket, entryVars, TailUninit
<1>8. ReachInv'
  BY <1>0, LocFacts, BucketFacts, PcsFacts
  DEF IInv, BuildInv, EntryInv, alloc_funcs_bucket, Write, entryVars, TypeOK, ReachInv,
      SlotsIn, CallPcs, FmtPcs, AllocInv
<1>9. EntryInv'
  <2>1. EntriesUntouched
    BY <1>0, LocFacts, PcsFacts, ZenonT(60)
    DEF IInv, TypeOK, EntriesUntouched, ReaderPcs, alloc_funcs_bucket, Write, entryVars
  <2> QED BY <2>1, EntriesKeep, Zenon
<1>10. NoPanic'
  BY <1>0, Zenon DEF IInv, alloc_funcs_bucket, NoPanic
<1> QED
  BY <1>1, <1>2, <1>3, <1>4, <1>5, <1>6, <1>7, <1>8, <1>9, <1>10, Zenon DEF IInv, BuildInv

\* everything the allocator knows.
LEMMA Step_alloc_funcs_publish ==
    ASSUME IInv, NEW t \in Threads, alloc_funcs_publish(t)
    PROVE  IInv'
<1>0. /\ len_funcs <= span[t].end /\ span[t].start = len_funcs
      /\ SlotsIn(span[t].end, know[t])
      /\ \A b \in Buckets : b < required_buckets_for_len(span[t].end) => b \in buckets
      /\ alloc_lock = t
      /\ \A u \in Threads : u # t => pc[u] # "alloc"
      /\ len_funcs \in 0 .. MaxFuncs /\ span[t].end \in 0 .. MaxFuncs
  <2>1. pc[t] = "alloc" /\ cur[t] >= required_buckets_for_len(span[t].end)
    BY Zenon DEF alloc_funcs_publish, BucketsWritten
  <2>2. /\ alloc_lock = t /\ \A u \in Threads : u # t => pc[u] # "alloc"
        /\ span[t].start = len_funcs /\ len_funcs <= span[t].end
        /\ \A n \in Buckets : n < cur[t] => n \in buckets /\ Slot(n) \in know[t]
    BY <2>1, Zenon DEF IInv, AllocInv
  <2>3. /\ cur[t] \in Nat /\ len_funcs \in 0 .. MaxFuncs /\ span[t].end \in 0 .. MaxFuncs
        /\ \A n \in Buckets : n \in Int
    BY DEF IInv, TypeOK, Buckets
  <2>4. required_buckets_for_len(span[t].end) \in Nat
    BY <2>3, BucketFacts, Zenon
  <2>5. \A b \in Buckets : b < required_buckets_for_len(span[t].end) => b < cur[t]
    BY <2>1, <2>3, <2>4
  <2> QED BY <2>2, <2>3, <2>5, Zenon DEF SlotsIn
<1>1. TypeOK'
  <2>1. buckets' \subseteq Buckets /\ len_funcs' \in 0 .. MaxFuncs /\ alloc_lock' \in Threads \cup {NoThread}
    BY <1>0, Zenon DEF IInv, TypeOK, alloc_funcs_publish
  <2>2. pc' \in [Threads -> Pcs]
    BY <1>0, PcsFacts, Zenon DEF IInv, TypeOK, alloc_funcs_publish, Goto
  <2>3. cur' \in [Threads -> Nat]
    BY <1>0 DEF IInv, TypeOK, alloc_funcs_publish
  <2>4. /\ know' \in [Threads -> SUBSET Locs] /\ lenMsg' \subseteq Locs
        /\ lockMsg' \subseteq Locs /\ stateMsg' \in [Funcs -> SUBSET Locs]
    BY <1>0, Zenon DEF IInv, TypeOK, alloc_funcs_publish
  <2> QED
    BY <2>1, <2>2, <2>3, <2>4, Zenon DEF IInv, TypeOK, alloc_funcs_publish, entryVars
<1>2. AllocInv'
  BY <1>0, CodeMapAssumption, Zenon
  DEF IInv, alloc_funcs_publish, Goto, BucketsWritten, TypeOK, AllocInv
<1>3. InitProgress'
  <2> SUFFICES ASSUME NEW x \in Threads, pc'[x] \in {"init", "init_store"}
               PROVE  /\ span'[x].end <= len_funcs' /\ SlotsIn(span'[x].end, know'[x])
                      /\ span'[x].start <= cur'[x] /\ cur'[x] <= span'[x].end
                      /\ \A f \in Funcs : span'[x].start <= f /\ f < cur'[x] => state'[f] # "UNINIT"
                      /\ \A f \in Funcs : cur'[x] <= f /\ f < span'[x].end => state'[f] = "UNINIT"
    BY Zenon DEF InitProgress
  <2>1. /\ len_funcs' = span[t].end /\ cur' = [cur EXCEPT ![t] = span[t].start]
        /\ UNCHANGED <<span, know, state>> /\ pc' = [pc EXCEPT ![t] = "init"]
    BY Zenon DEF alloc_funcs_publish, Goto, entryVars
  <2>2. \A f \in Funcs : f \in Nat
    BY DEF Funcs
  <2>3. CASE x = t
    <3>1. cur'[t] = len_funcs /\ span[t].end \in Nat /\ len_funcs \in Nat
      BY <1>0, <2>1 DEF IInv, TypeOK
    <3>2. \A f \in Funcs : f >= len_funcs => state[f] = "UNINIT"
      BY ZenonT(30) DEF IInv, BuildInv, TailUninit
    <3> QED BY <1>0, <2>1, <2>2, <2>3, <3>1, <3>2
  <2>4. CASE x # t
    <3>1. pc[x] \in {"init", "init_store"} /\ cur'[x] = cur[x]
      BY <2>1, <2>4, SMTT(60)
    <3>2. span[x].end <= len_funcs /\ span[x].end \in Int /\ len_funcs \in Int /\ span[t].end \in Int
      BY <1>0, <3>1, SMTT(30) DEF IInv, BuildInv, InitProgress, TypeOK
    <3> QED BY <1>0, <2>1, <3>1, <3>2 DEF IInv, BuildInv, InitProgress
  <2> QED BY <2>3, <2>4, Zenon
<1>4. InitStored'
  BY <1>0, ZenonT(20) DEF TypeOK, IInv, BuildInv, alloc_funcs_publish, Goto, entryVars, InitStored
<1>5. SpansDisjoint'
  BY <1>0, ZenonT(60) DEF TypeOK, IInv, BuildInv, alloc_funcs_publish, Goto, SpansDisjoint, BuildPcs
<1>6. SpansUnreached'
  BY <1>0, ZenonT(20)
  DEF TypeOK, IInv, BuildInv, alloc_funcs_publish, Goto, SpansUnreached, BuildPcs
<1>7. TailUninit'
  <2>1. \A f \in Funcs : f \in Nat
    BY DEF Funcs
  <2> QED BY <1>0, <2>1 DEF IInv, BuildInv, TailUninit, alloc_funcs_publish, entryVars
<1>8. ReachInv'
  <2>1. /\ len_funcs' = span[t].end /\ UNCHANGED <<span, know, state, reach, view>>
        /\ pc' = [pc EXCEPT ![t] = "init"] /\ \A x \in Threads : x # t => cur'[x] = cur[x]
    BY ZenonT(20) DEF IInv, TypeOK, alloc_funcs_publish, Goto, entryVars
  <2>2. \A f \in Funcs : f \in Nat
    BY DEF Funcs
  <2>3. \A x \in Threads : \A f \in reach[x] : f < len_funcs'
    BY <1>0, <2>1, <2>2, SMTT(60) DEF IInv, TypeOK, ReachInv
  <2>4. \A x \in Threads : span[x].end <= len_funcs => span[x].end <= len_funcs'
    BY <1>0, <2>1 DEF IInv, TypeOK
  <2> QED BY <2>1, <2>3, <2>4, PcsFacts, Zenon DEF IInv, TypeOK, ReachInv, CallPcs, FmtPcs
<1>9. EntryInv'
  <2>1. EntriesUntouched
    BY <1>0, LocFacts, PcsFacts, ZenonT(60)
    DEF IInv, TypeOK, EntriesUntouched, ReaderPcs, alloc_funcs_publish, Goto, BucketsWritten,
        entryVars
  <2> QED BY <2>1, EntriesKeep, ZenonT(30)
<1>10. NoPanic'
  BY <1>0, Zenon DEF IInv, alloc_funcs_publish, Goto, TypeOK, NoPanic, PanicPcs
<1> QED
  BY <1>1, <1>2, <1>3, <1>4, <1>5, <1>6, <1>7, <1>8, <1>9, <1>10, Zenon DEF IInv, BuildInv

\* payload is nobody else's.
LEMMA Step_translate_func ==
    ASSUME IInv, NEW t \in Threads, translate_func(t)
    PROVE  IInv'
<1>0. /\ cur[t] \in Funcs /\ Data(cur[t]) \in Locs
      /\ state[cur[t]] = "UNINIT" /\ cur[t] < len_funcs
      /\ span[t].start <= cur[t] /\ cur[t] < span[t].end
      /\ \A u \in Threads : cur[t] \notin reach[u]
      /\ \A u \in Threads \ {t} : pc[u] \in BuildPcs =>
           ~ (span[u].start <= cur[t] /\ cur[t] < span[u].end)
  BY BuilderFacts, Zenon DEF translate_func
<1>e. /\ data' = [data EXCEPT ![cur[t]] = IF CompilationMode = "Eager"
                                        THEN "compiled" ELSE "uncompiled"]
      /\ Write(t, Data(cur[t]))
      /\ pc' = [pc EXCEPT ![t] = "init_store"]
      /\ pc[t] = "init"
  BY <1>0, Zenon DEF translate_func, Goto
<1>1. TypeOK'
  <2>1. state' \in [Funcs -> States] /\ data' \in [Funcs -> Payloads]
    BY <1>0, <1>e, Zenon DEF IInv, TypeOK, translate_func, Payloads
  <2>2. pc' \in [Threads -> Pcs]
    BY <1>0, <1>e, PcsFacts, Zenon DEF IInv, TypeOK
  <2>3. /\ know' \in [Threads -> SUBSET Locs] /\ lenMsg' \subseteq Locs
        /\ lockMsg' \subseteq Locs /\ stateMsg' \in [Funcs -> SUBSET Locs]
    BY <1>0, <1>e, ZenonT(30) DEF IInv, TypeOK, Write
  <2> QED
    BY <2>1, <2>2, <2>3, Zenon DEF IInv, TypeOK, translate_func, tableVars
<1>2. AllocInv'
  BY <1>0, <1>e, LocFacts, PcsFacts, CodeMapAssumption, ZenonT(60)
  DEF IInv, BuildInv, EntryInv, translate_func, Goto, Write, tableVars, TypeOK,
      AllocInv, SlotsIn
<1>3. InitProgress'
  BY <1>0, <1>e, LocFacts, BucketFacts, PcsFacts, ZenonT(120)
  DEF TypeOK, IInv, BuildInv, EntryInv, translate_func, Goto, Write, tableVars, orderVars,
      InitProgress, SlotsIn
<1>4. InitStored'
  <2>1. /\ \A x \in Threads \ {t} : pc'[x] = pc[x]
        /\ UNCHANGED <<cur, span>> /\ Data(cur[t]) \in know'[t]
        /\ \A x \in Threads : \A f : Data(f) \in know[x] /\ f # cur[t] => Data(f) \in know'[x]
    <3>1. \A x \in Threads \ {t} : pc'[x] = pc[x]
      BY <1>e, Zenon DEF IInv, TypeOK
    <3>2. UNCHANGED <<cur, span>>
      BY Zenon DEF translate_func
    <3>3. /\ Data(cur[t]) \in know'[t]
          /\ \A x \in Threads : \A f : Data(f) \in know[x] /\ f # cur[t] => Data(f) \in know'[x]
      BY <1>e, LocFacts, Zenon DEF Write
    <3> QED
      BY <3>1, <3>2, <3>3, Zenon
  <2>2. \A x \in Threads \ {t} : pc[x] = "init_store" => cur[x] # cur[t] /\ cur[x] \in Funcs
    <3>1. \A x \in Threads : pc[x] = "init_store" =>
            span[x].start <= cur[x] /\ cur[x] < span[x].end
      BY Zenon DEF IInv, BuildInv, InitProgress, InitStored
    <3>2. \A x \in Threads : span[x].end \in 0 .. MaxFuncs /\ cur[x] \in Nat
      BY Zenon DEF IInv, TypeOK
    <3> QED BY <1>0, <3>1, <3>2, CodeMapAssumption DEF BuildPcs, Funcs
  <2>3. /\ data'[cur[t]] = IF CompilationMode = "Eager" THEN "compiled" ELSE "uncompiled"
        /\ \A f \in Funcs : f # cur[t] => data'[f] = data[f]
    BY <1>0, <1>e, Zenon DEF IInv, TypeOK
  <2>4. InitStored
    BY Zenon DEF IInv, BuildInv
  <2> QED BY <1>0, <2>1, <2>2, <2>3, <2>4, ZenonT(120) DEF InitStored
<1>5. SpansDisjoint'
  <2>1. UNCHANGED span /\ \A x \in Threads : pc'[x] \in BuildPcs => pc[x] \in BuildPcs
    BY <1>e, Zenon DEF IInv, TypeOK, translate_func, BuildPcs
  <2> QED
    BY <2>1, Zenon DEF IInv, BuildInv, SpansDisjoint
<1>6. SpansUnreached'
  <2>1. UNCHANGED <<span, reach>> /\ \A x \in Threads : pc'[x] \in BuildPcs => pc[x] \in BuildPcs
    BY <1>e, Zenon DEF IInv, TypeOK, translate_func, BuildPcs
  <2>2. SpansUnreached
    BY Zenon DEF IInv, BuildInv
  <2> QED
    BY <2>1, <2>2, Zenon DEF SpansUnreached
<1>7. TailUninit'
  BY <1>0, <1>e, Zenon DEF IInv, BuildInv, translate_func, tableVars, TailUninit
<1>8. ReachInv'
  BY <1>0, <1>e, LocFacts, BucketFacts, PcsFacts, ZenonT(60)
  DEF IInv, BuildInv, EntryInv, translate_func, Goto, Write, tableVars, orderVars,
      TypeOK, ReachInv, SlotsIn, CallPcs, FmtPcs
<1>9. OneCompiler'
  <2>1. \A g \in Funcs : state'[g] = "COMPILING" <=> state[g] = "COMPILING"
    BY <1>0, <1>e, Zenon DEF translate_func
  <2>2. \A x \in Threads : /\ pc'[x] \in OwnerPcs <=> pc[x] \in OwnerPcs
                           /\ pc[x] \in OwnerPcs => cur'[x] = cur[x]
    BY <1>0, <1>e, PcsFacts, ZenonT(20) DEF TypeOK, IInv, translate_func, Goto, tableVars
  <2> QED BY <2>1, <2>2, OwnersKeep, Zenon DEF IInv, EntryInv
<1>10. PayloadInv'
  BY <1>0, <1>e, LocFacts, ZenonT(60)
  DEF IInv, BuildInv, EntryInv, translate_func, Write, orderVars, TypeOK, PayloadInv
<1>11. OwnerInv'
  BY <1>0, <1>e, LocFacts, PcsFacts, ZenonT(60)
  DEF IInv, BuildInv, EntryInv, translate_func, Goto, Write, orderVars, TypeOK,
      OwnerInv, ReachInv, CallPcs
<1>12. ReaderInv'
  BY <1>0, <1>e, LocFacts, Zenon
  DEF IInv, EntryInv, translate_func, Goto, Write, TypeOK, ReaderInv
<1>13. NoPanic'
  BY <1>0, <1>e, Zenon DEF IInv, TypeOK, NoPanic, PanicPcs
<1> QED
  BY <1>1, <1>2, <1>3, <1>4, <1>5, <1>6, <1>7, <1>8, <1>9, <1>10, <1>11, <1>12, <1>13, Zenon
  DEF IInv, BuildInv, EntryInv

-----------------------------------------------------------------------------
(* Initialization of entries, shared modules, Debug *)

\* The stored state announces the payload written just before.
LEMMA Step_init_store ==
    ASSUME IInv, NEW t \in Threads, init_store(t)
    PROVE  IInv'
<1>0. /\ cur[t] \in Funcs /\ Data(cur[t]) \in Locs
      /\ state[cur[t]] = "UNINIT" /\ cur[t] < len_funcs
      /\ span[t].start <= cur[t] /\ cur[t] < span[t].end
      /\ \A u \in Threads : cur[t] \notin reach[u]
      /\ \A u \in Threads \ {t} : pc[u] \in BuildPcs =>
           ~ (span[u].start <= cur[t] /\ cur[t] < span[u].end)
  BY BuilderFacts, Zenon DEF init_store
<1>1. TypeOK'
  <2>1. state' \in [Funcs -> States] /\ data' \in [Funcs -> Payloads]
    BY <1>0, Zenon DEF IInv, TypeOK, init_store, States
  <2>2. pc' \in [Threads -> Pcs]
    BY <1>0, PcsFacts, Zenon DEF IInv, TypeOK, init_store, Goto
  <2>3. cur' \in [Threads -> Nat]
    BY <1>0 DEF IInv, TypeOK, init_store
  <2>4. /\ know' \in [Threads -> SUBSET Locs] /\ lenMsg' \subseteq Locs
        /\ lockMsg' \subseteq Locs /\ stateMsg' \in [Funcs -> SUBSET Locs]
    BY <1>0, Zenon DEF IInv, TypeOK, init_store
  <2> QED
    BY <2>1, <2>2, <2>3, <2>4, Zenon DEF IInv, TypeOK, init_store, tableVars
<1>2. AllocInv'
  <2>1. AllocInv
    BY Zenon DEF IInv
  <2>2. /\ UNCHANGED <<span, know, buckets, len_funcs, alloc_lock, lenMsg, lockMsg>>
        /\ \A x \in Threads : pc'[x] = "alloc" <=> pc[x] = "alloc"
        /\ \A x \in Threads : pc[x] = "alloc" => cur'[x] = cur[x]
    BY Zenon DEF IInv, TypeOK, init_store, Goto, tableVars
  <2>3. /\ span' = span /\ know' = know /\ buckets' = buckets /\ len_funcs' = len_funcs
        /\ alloc_lock' = alloc_lock /\ lenMsg' = lenMsg /\ lockMsg' = lockMsg
    BY <2>2, Zenon
  <2>4. ASSUME NEW x \in Threads, pc'[x] = "alloc"
        PROVE  /\ span'[x].start = len_funcs' /\ span'[x].end >= len_funcs'
               /\ cur'[x] >= required_buckets_for_len(len_funcs')
               /\ \A n \in Buckets : n < cur'[x] => n \in buckets' /\ Slot(n) \in know'[x]
    <3>1. pc[x] = "alloc" /\ cur'[x] = cur[x]
      BY <2>2, <2>4, Zenon
    <3>2. /\ span[x].start = len_funcs /\ span[x].end >= len_funcs
          /\ cur[x] >= required_buckets_for_len(len_funcs)
          /\ \A n \in Buckets : n < cur[x] => n \in buckets /\ Slot(n) \in know[x]
      BY <2>1, <3>1, Zenon DEF AllocInv
    <3> QED BY <2>3, <3>1, <3>2, Zenon
  <2>5. \A x \in Threads : pc'[x] = "alloc" <=> alloc_lock' = x
    <3>1. \A x \in Threads : pc[x] = "alloc" <=> alloc_lock = x
      BY <2>1, Zenon DEF AllocInv
    <3> QED BY <2>2, <2>3, <3>1, Zenon
  <2>6. /\ \A n \in Buckets : n < required_buckets_for_len(len_funcs) => n \in buckets
        /\ SlotsIn(len_funcs, lenMsg)
        /\ alloc_lock = NoThread => SlotsIn(len_funcs, lockMsg)
    BY <2>1, Zenon DEF AllocInv
  <2>7. /\ \A n \in Buckets : n < required_buckets_for_len(len_funcs') => n \in buckets'
        /\ SlotsIn(len_funcs', lenMsg')
        /\ alloc_lock' = NoThread => SlotsIn(len_funcs', lockMsg')
    BY <2>3, <2>6, Zenon
  <2> QED BY <2>4, <2>5, <2>7, Zenon DEF AllocInv, SlotsIn
<1>3. InitProgress'
  <2> SUFFICES ASSUME NEW x \in Threads, pc'[x] \in {"init", "init_store"}
               PROVE  /\ span'[x].end <= len_funcs' /\ SlotsIn(span'[x].end, know'[x])
                      /\ span'[x].start <= cur'[x] /\ cur'[x] <= span'[x].end
                      /\ \A f \in Funcs : span'[x].start <= f /\ f < cur'[x] => state'[f] # "UNINIT"
                      /\ \A f \in Funcs : cur'[x] <= f /\ f < span'[x].end => state'[f] = "UNINIT"
    BY Zenon DEF InitProgress
  <2>1. \A f \in Funcs : f \in Nat
    BY SMTT(30) DEF Funcs
  <2>2. \A f \in Funcs : state'[f] # "UNINIT" <=> f = cur[t] \/ state[f] # "UNINIT"
    BY <1>0, Zenon DEF IInv, TypeOK, init_store
  <2>3. CASE x = t
    <3>1. cur'[t] = cur[t] + 1 /\ cur[t] \in Nat /\ pc[t] = "init_store"
          /\ UNCHANGED <<span, know, len_funcs>> /\ span[t] \in [start : Nat, end : Nat]
      BY SMTT(30) DEF IInv, TypeOK, init_store, tableVars
    <3>2. /\ span[t].end <= len_funcs /\ SlotsIn(span[t].end, know[t])
          /\ \A f \in Funcs : span[t].start <= f /\ f < cur[t] => state[f] # "UNINIT"
          /\ \A f \in Funcs : cur[t] <= f /\ f < span[t].end => state[f] = "UNINIT"
      BY <3>1, Zenon DEF IInv, BuildInv, InitProgress
    <3>3. \A f \in Funcs : span[t].start <= f /\ f < cur[t] + 1 => state'[f] # "UNINIT"
      BY <2>1, <2>2, <3>1, <3>2, SMTT(60)
    <3>4. \A f \in Funcs : cur[t] + 1 <= f /\ f < span[t].end => state'[f] = "UNINIT"
      BY <2>1, <2>2, <3>1, <3>2, SMTT(60)
    <3>5. span[t].start <= cur[t] + 1 /\ cur[t] + 1 <= span[t].end
      BY <1>0, <3>1, SMTT(30)
    <3> QED BY <2>3, <3>1, <3>2, <3>3, <3>4, <3>5, Zenon
  <2>4. CASE x # t
    <3>1. cur'[x] = cur[x] /\ pc'[x] = pc[x] /\ UNCHANGED <<span, know, len_funcs>>
      BY <2>4, Zenon DEF IInv, TypeOK, init_store, Goto, tableVars
    <3>2. /\ span[x].end <= len_funcs /\ SlotsIn(span[x].end, know[x])
          /\ span[x].start <= cur[x] /\ cur[x] <= span[x].end
          /\ \A f \in Funcs : span[x].start <= f /\ f < cur[x] => state[f] # "UNINIT"
          /\ \A f \in Funcs : cur[x] <= f /\ f < span[x].end => state[f] = "UNINIT"
      BY <3>1, Zenon DEF IInv, BuildInv, InitProgress
    <3>3. ~ (cur[x] <= cur[t] /\ cur[t] < span[x].end)
      <4>1. ~ (span[x].start <= cur[t] /\ cur[t] < span[x].end)
        BY <1>0, <2>4, <3>1, Zenon DEF BuildPcs
      <4>2. span[x].start \in Int /\ cur[x] \in Int /\ cur[t] \in Int
        BY SMTT(30) DEF IInv, TypeOK
      <4> QED BY <3>2, <4>1, <4>2, SMTT(30)
    <3> QED BY <2>2, <3>1, <3>2, <3>3, Zenon
  <2> QED BY <2>3, <2>4, Zenon
<1>4. InitStored'
  BY <1>0, Zenon DEF IInv, BuildInv, init_store, Goto, TypeOK, InitStored
<1>5. SpansDisjoint'
  BY <1>0, ZenonT(20) DEF TypeOK, IInv, BuildInv, init_store, Goto, SpansDisjoint, BuildPcs
<1>6. SpansUnreached'
  BY <1>0, ZenonT(20) DEF TypeOK, IInv, BuildInv, init_store, Goto, SpansUnreached, BuildPcs
<1>7. TailUninit'
  BY <1>0, SMTT(30) DEF IInv, BuildInv, init_store, tableVars, TypeOK, TailUninit
<1>8. ReachInv'
  BY <1>0, PcsFacts, ZenonT(60)
  DEF IInv, init_store, Goto, tableVars, TypeOK, ReachInv, CallPcs, FmtPcs
<1>9. OneCompiler'
  <2>1. \A g \in Funcs : state'[g] = "COMPILING" <=> state[g] = "COMPILING"
    BY <1>0, ZenonT(20) DEF IInv, TypeOK, init_store, Goto
  <2>2. \A x \in Threads : /\ pc'[x] \in OwnerPcs <=> pc[x] \in OwnerPcs
                           /\ pc[x] \in OwnerPcs => cur'[x] = cur[x]
    BY <1>0, PcsFacts, ZenonT(20) DEF IInv, TypeOK, init_store, Goto
  <2> QED BY <2>1, <2>2, OwnersKeep, Zenon DEF IInv, EntryInv
<1>10. PayloadInv'
  BY <1>0, Zenon
  DEF IInv, BuildInv, EntryInv, init_store, Goto, tableVars, TypeOK, PayloadInv,
      InitStored
<1>11. OwnerInv'
  BY <1>0, PcsFacts, ZenonT(60) DEF TypeOK, IInv, EntryInv, init_store, Goto, OwnerInv
<1>12. ReaderInv'
  BY <1>0, SMTT(30) DEF IInv, EntryInv, init_store, Goto, tableVars, ReaderInv
<1>13. NoPanic'
  BY <1>0, ZenonT(20) DEF TypeOK, IInv, init_store, Goto, NoPanic, PanicPcs
<1> QED
  BY <1>1, <1>2, <1>3, <1>4, <1>5, <1>6, <1>7, <1>8, <1>9, <1>10, <1>11, <1>12, <1>13, Zenon
  DEF IInv, BuildInv, EntryInv

\* A failed module leaves its entries to nobody.
LEMMA Step_parse_error ==
    ASSUME IInv, NEW t \in Threads, parse_error(t)
    PROVE  IInv'
<1>1. TypeOK'
  <2>1. pc' \in [Threads -> Pcs]
    BY PcsFacts, Zenon DEF IInv, TypeOK, parse_error, Goto
  <2>2. span' \in [Threads -> [start : 0 .. MaxFuncs, end : 0 .. MaxFuncs]]
    BY CodeMapAssumption DEF IInv, TypeOK, parse_error, EndSpan
  <2>3. cur' \in [Threads -> Nat]
    BY Zenon DEF IInv, TypeOK, parse_error, EndSpan, EndCall
  <2> QED
    BY <2>1, <2>2, <2>3, Zenon DEF IInv, TypeOK, parse_error, tableVars, entryVars, orderVars
<1>2. AllocInv'
  BY ZenonT(20)
  DEF TypeOK, IInv, parse_error, Goto, EndSpan, EndCall, tableVars, entryVars, orderVars,
         AllocInv
<1>3. InitProgress'
  BY Zenon DEF IInv, BuildInv, parse_error, Goto, EndSpan, EndCall, tableVars, entryVars,
         orderVars, TypeOK, InitProgress
<1>4. InitStored'
  BY Zenon DEF IInv, TypeOK, BuildInv, parse_error, Goto, EndSpan, EndCall, entryVars, orderVars,
         InitStored
<1>5. SpansDisjoint'
  BY SMTT(30) DEF IInv, BuildInv, parse_error, Goto, EndSpan, TypeOK, SpansDisjoint
<1>6. SpansUnreached'
  BY Zenon DEF IInv, BuildInv, parse_error, Goto, EndSpan, TypeOK, SpansUnreached, BuildPcs
<1>7. TailUninit'
  BY Zenon DEF IInv, BuildInv, parse_error, tableVars, entryVars, TailUninit
<1>8. ReachInv'
  BY PcsFacts, ZenonT(60)
  DEF IInv, TypeOK, parse_error, Goto, EndSpan, EndCall, tableVars, entryVars, orderVars,
      ReachInv, CallPcs, FmtPcs
<1>9. EntryInv'
  <2>1. EntriesUntouched
    BY PcsFacts, ZenonT(20)
    DEF IInv, TypeOK, EntriesUntouched, ReaderPcs, parse_error, Goto, EndSpan, EndCall, entryVars,
        orderVars
  <2> QED BY <2>1, EntriesKeep, Zenon
<1>10. NoPanic'
  BY ZenonT(20) DEF TypeOK, IInv, parse_error, Goto, NoPanic, PanicPcs
<1> QED
  BY <1>1, <1>2, <1>3, <1>4, <1>5, <1>6, <1>7, <1>8, <1>9, <1>10, Zenon DEF IInv, BuildInv

\* A finished module makes only initialized entries reachable.
LEMMA Step_finish_module ==
    ASSUME IInv, NEW t \in Threads, finish_module(t)
    PROVE  IInv'
<1>1. TypeOK'
  <2>1. pc' \in [Threads -> Pcs]
    BY PcsFacts, Zenon DEF IInv, TypeOK, finish_module, Goto
  <2>2. span' \in [Threads -> [start : 0 .. MaxFuncs, end : 0 .. MaxFuncs]]
    BY CodeMapAssumption, SMTT(30) DEF IInv, TypeOK, finish_module, EndSpan
  <2>3. cur' \in [Threads -> Nat]
    BY Zenon DEF IInv, TypeOK, finish_module, EndSpan, EndCall
  <2>4. reach' \in [Threads -> SUBSET Funcs]
    BY CodeMapAssumption, SMTT(30) DEF IInv, TypeOK, finish_module, Funcs
  <2> QED
    BY <2>1, <2>2, <2>3, <2>4, Zenon
    DEF IInv, TypeOK, finish_module, tableVars, entryVars, orderVars
<1>2. AllocInv'
  BY Zenon DEF IInv, TypeOK, finish_module, Goto, EndSpan, EndCall, tableVars, orderVars,
         AllocInv
<1>3. InitProgress'
  <2>1. InitProgress
    BY Zenon DEF IInv, BuildInv
  <2>2. \A x \in Threads : pc'[x] \in {"init", "init_store"} =>
            pc'[x] = pc[x] /\ span'[x] = span[x] /\ cur'[x] = cur[x]
    BY Zenon DEF IInv, TypeOK, finish_module, Goto, EndSpan, EndCall
  <2>3. know' = know /\ len_funcs' = len_funcs /\ state' = state
    BY Zenon DEF finish_module, tableVars, entryVars, orderVars
  <2> QED
    BY <2>1, <2>2, <2>3, Zenon DEF InitProgress, SlotsIn
<1>4. InitStored'
  BY ZenonT(20)
  DEF TypeOK, IInv, BuildInv, finish_module, Goto, EndSpan, EndCall, entryVars, orderVars,
         InitStored
<1>5. SpansDisjoint'
  BY SMTT(60) DEF IInv, BuildInv, finish_module, Goto, EndSpan, TypeOK, SpansDisjoint
<1>6. SpansUnreached'
  BY PcsFacts
  DEF IInv, BuildInv, finish_module, Goto, EndSpan, EndCall, entryVars, orderVars,
      TypeOK, SpansUnreached, BuildPcs, SpansDisjoint
<1>7. TailUninit'
  BY Zenon DEF IInv, BuildInv, finish_module, tableVars, entryVars, TailUninit
<1>8. ReachInv'
  <2>1. /\ pc[t] = "init" /\ cur[t] = span[t].end
        /\ reach' = [reach EXCEPT ![t] = @ \cup (span[t].start .. span[t].end - 1)]
        /\ pc' = [pc EXCEPT ![t] = "host"]
        /\ UNCHANGED <<len_funcs, state, know, view>>
        /\ \A x \in Threads : x # t => cur'[x] = cur[x] /\ span'[x] = span[x]
    BY ZenonT(20)
    DEF IInv, TypeOK, finish_module, Goto, EndSpan, EndCall, tableVars, entryVars, orderVars
  <2>2. ASSUME NEW f \in span[t].start .. span[t].end - 1
        PROVE  f \in Funcs /\ f < len_funcs /\ state[f] # "UNINIT" /\ Slot(bucket_of(f)) \in know[t]
    <3>1. /\ span[t].end <= len_funcs /\ SlotsIn(span[t].end, know[t])
          /\ \A g \in Funcs : span[t].start <= g /\ g < cur[t] => state[g] # "UNINIT"
      BY <2>1, Zenon DEF IInv, BuildInv, InitProgress
    <3>2. span[t].start \in 0 .. MaxFuncs /\ span[t].end \in 0 .. MaxFuncs /\ len_funcs \in 0 .. MaxFuncs
      BY Zenon DEF IInv, TypeOK
    <3>3. f \in Nat /\ f < span[t].end /\ span[t].start <= f /\ f \in Funcs /\ f < len_funcs
      BY <3>1, <3>2, CodeMapAssumption, SMTT(60) DEF Funcs
    <3>4. bucket_of(f) \in Buckets /\ bucket_of(f) < required_buckets_for_len(span[t].end)
      BY <3>2, <3>3, BucketFacts, Zenon
    <3> QED BY <2>1, <3>1, <3>3, <3>4, Zenon DEF SlotsIn
  <2>3. \A f \in reach'[t] : f < len_funcs /\ state[f] # "UNINIT" /\ Slot(bucket_of(f)) \in know[t]
    <3>1. \A f \in reach[t] : f < len_funcs /\ state[f] # "UNINIT" /\ Slot(bucket_of(f)) \in know[t]
      BY Zenon DEF IInv, ReachInv
    <3>2. reach'[t] = reach[t] \cup (span[t].start .. span[t].end - 1)
      BY <2>1, Zenon DEF IInv, TypeOK
    <3> QED BY <2>2, <3>1, <3>2, Zenon
  <2>4. \A x \in Threads : x # t => reach'[x] = reach[x] /\ pc'[x] = pc[x]
    BY <2>1, Zenon DEF IInv, TypeOK
  <2>5. pc'[t] = "host"
    BY <2>1, Zenon DEF IInv, TypeOK
  <2>6. ReachInv
    BY Zenon DEF IInv
  <2>7. "host" \notin CallPcs \cup {"wasm"} /\ "host" \notin FmtPcs /\ "host" # "fmt_payload"
    BY PcsFacts, Zenon DEF CallPcs, FmtPcs
  <2>8. UNCHANGED <<len_funcs, state, know, view>>
    BY <2>1, Zenon
  <2>9. \A x \in Threads : x # t => cur'[x] = cur[x] /\ span'[x] = span[x]
    BY <2>1, Zenon
  <2> QED BY <2>3, <2>4, <2>5, <2>6, <2>7, <2>8, <2>9, ZenonT(60) DEF ReachInv, SlotsIn
<1>9. EntryInv'
  <2>1. EntriesUntouched
    BY PcsFacts, Zenon
    DEF IInv, TypeOK, EntriesUntouched, ReaderPcs, finish_module, Goto, EndSpan, EndCall,
        entryVars, orderVars
  <2> QED BY <2>1, EntriesKeep, Zenon
<1>10. NoPanic'
  BY ZenonT(20) DEF TypeOK, IInv, finish_module, Goto, NoPanic, PanicPcs
<1> QED
  BY <1>1, <1>2, <1>3, <1>4, <1>5, <1>6, <1>7, <1>8, <1>9, <1>10, Zenon DEF IInv, BuildInv

\* The receiver learns what the giver knows.
LEMMA Step_share_modules ==
    ASSUME IInv, NEW t \in Threads, NEW u \in Threads, share_modules(t, u)
    PROVE  IInv'
<1>1. TypeOK'
  <2>1. reach' \in [Threads -> SUBSET Funcs]
    BY Zenon DEF IInv, TypeOK, share_modules
  <2>2. /\ know' \in [Threads -> SUBSET Locs] /\ lenMsg' \subseteq Locs
        /\ lockMsg' \subseteq Locs /\ stateMsg' \in [Funcs -> SUBSET Locs]
    BY Zenon DEF IInv, TypeOK, share_modules, Acquire
  <2> QED
    BY <2>1, <2>2, Zenon DEF IInv, TypeOK, share_modules, tableVars, entryVars
<1>0. /\ \A x \in Threads : know[x] \subseteq know'[x]
      /\ UNCHANGED <<pc, span, cur, buckets, len_funcs, alloc_lock, lenMsg, lockMsg, state>>
  BY Zenon DEF IInv, TypeOK, share_modules, Acquire, tableVars, entryVars
<1>2. AllocInv'
  <2>1. AllocInv
    BY Zenon DEF IInv
  <2> QED
    BY <1>0, <2>1, Zenon DEF AllocInv, SlotsIn
<1>3. InitProgress'
  <2>1. InitProgress
    BY Zenon DEF IInv, BuildInv
  <2> QED
    BY <1>0, <2>1, Zenon DEF InitProgress, SlotsIn
<1>4. InitStored'
  BY Zenon DEF IInv, TypeOK, BuildInv, share_modules, Acquire, entryVars, InitStored
<1>5. SpansDisjoint'
  BY Zenon DEF IInv, BuildInv, share_modules, SpansDisjoint
<1>6. SpansUnreached'
  <2>1. SpansUnreached
    BY Zenon DEF IInv, BuildInv
  <2>2. ASSUME NEW x \in Threads, NEW v \in Threads, pc'[x] \in BuildPcs, NEW f \in reach'[v]
        PROVE  f < span'[x].start \/ span'[x].end <= f
    <3>1. f \in reach[v] \/ f \in reach[t]
      BY Zenon DEF IInv, TypeOK, share_modules
    <3> QED
      BY <1>0, <2>1, <2>2, <3>1, Zenon DEF SpansUnreached
  <2> QED
    BY <2>2, Zenon DEF SpansUnreached
<1>7. TailUninit'
  BY Zenon DEF IInv, BuildInv, share_modules, tableVars, entryVars, TailUninit
<1>8. ReachInv'
  BY LocFacts, PcsFacts
  DEF IInv, BuildInv, share_modules, Acquire, tableVars, entryVars, TypeOK, ReachInv,
      CallPcs, FmtPcs
<1>9. EntryInv'
  <2>1. EntriesUntouched
    BY Zenon DEF IInv, TypeOK, EntriesUntouched, ReaderPcs, share_modules, Acquire, entryVars
  <2> QED BY <2>1, EntriesKeep, Zenon
<1>10. NoPanic'
  BY Zenon DEF IInv, share_modules, NoPanic
<1> QED
  BY <1>1, <1>2, <1>3, <1>4, <1>5, <1>6, <1>7, <1>8, <1>9, <1>10, Zenon DEF IInv, BuildInv

\* Printing starts at a published length.
LEMMA Step_fmt ==
    ASSUME IInv, NEW t \in Threads, fmt(t)
    PROVE  IInv'
<1>1. TypeOK'
  <2>1. pc' \in [Threads -> Pcs]
    BY PcsFacts, Zenon DEF IInv, TypeOK, fmt, Goto
  <2>2. span' \in [Threads -> [start : 0 .. MaxFuncs, end : 0 .. MaxFuncs]]
    BY CodeMapAssumption, SMTT(30) DEF IInv, TypeOK, fmt
  <2>3. cur' \in [Threads -> Nat]
    BY Zenon DEF IInv, TypeOK, fmt
  <2>4. /\ know' \in [Threads -> SUBSET Locs] /\ lenMsg' \subseteq Locs
        /\ lockMsg' \subseteq Locs /\ stateMsg' \in [Funcs -> SUBSET Locs]
    BY Zenon DEF IInv, TypeOK, fmt, Acquire
  <2> QED
    BY <2>1, <2>2, <2>3, <2>4, Zenon DEF IInv, TypeOK, fmt, tableVars, entryVars
<1>2. AllocInv' /\ BuildInv'
  <2>1. BuildersUntouched
    BY ZenonT(20)
    DEF IInv, TypeOK, BuildersUntouched, BuildPcs, fmt, Acquire, Goto, tableVars, entryVars
  <2> QED BY <2>1, BuildersKeep, Zenon
<1>3. ReachInv'
  BY LocFacts, PcsFacts, SMTT(60)
  DEF IInv, fmt, Acquire, Goto, tableVars, entryVars, TypeOK, ReachInv, SlotsIn,
      CallPcs, AllocInv
<1>4. EntryInv'
  <2>1. EntriesUntouched
    BY PcsFacts, ZenonT(20)
    DEF IInv, TypeOK, EntriesUntouched, ReaderPcs, fmt, Acquire, Goto, entryVars
  <2> QED BY <2>1, EntriesKeep, ZenonT(30)
<1>5. NoPanic'
  BY ZenonT(20) DEF TypeOK, IInv, fmt, Goto, NoPanic, PanicPcs
<1> QED
  BY <1>1, <1>2, <1>3, <1>4, <1>5, Zenon DEF IInv

\* Printing an entry only reads.
LEMMA Step_fmt_entry ==
    ASSUME IInv, NEW t \in Threads, fmt_entry(t)
    PROVE  IInv'
<1>0. cur[t] \in Funcs
  BY Zenon DEF fmt_entry, FmtMore
<1>1. TypeOK'
  <2>1. pc' \in [Threads -> Pcs]
    BY <1>0, PcsFacts, Zenon DEF IInv, TypeOK, fmt_entry, Goto
  <2>2. cur' \in [Threads -> Nat]
    <3>1. cur' = cur \/ cur' = [cur EXCEPT ![t] = cur[t] + 1]
      BY Zenon DEF fmt_entry
    <3> QED BY <3>1, SMTT(60) DEF IInv, TypeOK
  <2>3. /\ know' \in [Threads -> SUBSET Locs] /\ lenMsg' \subseteq Locs
        /\ lockMsg' \subseteq Locs /\ stateMsg' \in [Funcs -> SUBSET Locs]
    BY <1>0, Zenon DEF IInv, TypeOK, fmt_entry, Acquire, AcquiredState
  <2> QED
    BY <2>1, <2>2, <2>3, Zenon DEF IInv, TypeOK, fmt_entry, tableVars, entryVars
<1>2. AllocInv' /\ BuildInv'
  <2>1. BuildersUntouched
    BY <1>0, ZenonT(30)
    DEF IInv, TypeOK, BuildersUntouched, BuildPcs, fmt_entry, Acquire, Goto, tableVars,
        entryVars
  <2> QED BY <2>1, BuildersKeep, Zenon
<1>3. ReachInv'
  BY <1>0, BucketFacts, PcsFacts, ZenonT(240)
  DEF IInv, fmt_entry, Acquire, Goto, tableVars, entryVars, TypeOK, ReachInv, SlotsIn,
      CallPcs, FmtPcs
<1>4. OneCompiler'
  <2>1. \A g \in Funcs : state'[g] = "COMPILING" <=> state[g] = "COMPILING"
    BY <1>0, Zenon DEF fmt_entry, entryVars
  <2>2. \A x \in Threads : /\ pc'[x] \in OwnerPcs <=> pc[x] \in OwnerPcs
                           /\ pc[x] \in OwnerPcs => cur'[x] = cur[x]
    BY <1>0, PcsFacts, Zenon DEF IInv, TypeOK, fmt_entry, Goto
  <2> QED BY <2>1, <2>2, OwnersKeep, Zenon DEF IInv, EntryInv
<1>5. PayloadInv'
  BY <1>0, Zenon DEF IInv, EntryInv, fmt_entry, entryVars, PayloadInv
<1>6. OwnerInv'
  BY <1>0, PcsFacts, ZenonT(120)
  DEF IInv, BuildInv, EntryInv, fmt_entry, Acquire, Goto, entryVars, TypeOK, OwnerInv
<1>7. ReaderInv'
  BY <1>0, ZenonT(60)
  DEF IInv, EntryInv, fmt_entry, Acquire, Goto, AcquiredState, entryVars, TypeOK,
      ReaderInv, PayloadInv
<1>8. NoPanic'
  BY <1>0, Zenon DEF IInv, fmt_entry, Goto, TypeOK, NoPanic, PanicPcs
<1> QED
  BY <1>1, <1>2, <1>3, <1>4, <1>5, <1>6, <1>7, <1>8, ZenonT(30) DEF IInv, EntryInv

\* Printing a payload only reads.
LEMMA Step_fmt_payload ==
    ASSUME IInv, NEW t \in Threads, fmt_payload(t)
    PROVE  IInv'
<1>0. /\ pc[t] = "fmt_payload" /\ pc'[t] = "fmt"
      /\ \A x \in Threads \ {t} : pc'[x] = pc[x] /\ cur'[x] = cur[x]
      /\ UNCHANGED <<buckets, len_funcs, alloc_lock, reach, span, state, data, know, lenMsg, lockMsg>>
  BY Zenon DEF IInv, TypeOK, fmt_payload, Goto, tableVars, entryVars, orderVars
<1>1. TypeOK'
  <2>1. pc' \in [Threads -> Pcs]
    BY PcsFacts, Zenon DEF IInv, TypeOK, fmt_payload, Goto
  <2>2. cur' \in [Threads -> Nat]
    BY DEF IInv, TypeOK, fmt_payload
  <2> QED
    BY <2>1, <2>2, Zenon DEF IInv, TypeOK, fmt_payload, tableVars, entryVars, orderVars
<1>2. AllocInv' /\ BuildInv'
  <2>1. BuildersUntouched
    <3>1. \A x \in Threads : pc[x] \in BuildPcs \/ pc'[x] \in BuildPcs \/ pc[x] = "init_store" => x # t
      BY <1>0, Zenon DEF BuildPcs
    <3> QED
      BY <1>0, <3>1, Zenon DEF BuildersUntouched
  <2> QED BY <2>1, BuildersKeep, Zenon
<1>3. ReachInv'
  BY PcsFacts, ZenonT(30)
  DEF IInv, fmt_payload, Goto, tableVars, entryVars, orderVars, TypeOK, ReachInv,
      CallPcs, FmtPcs
<1>4. OneCompiler'
  <2>1. \A g \in Funcs : state'[g] = "COMPILING" <=> state[g] = "COMPILING"
    BY Zenon DEF fmt_payload, entryVars
  <2>2. \A x \in Threads : /\ pc'[x] \in OwnerPcs <=> pc[x] \in OwnerPcs
                           /\ pc[x] \in OwnerPcs => cur'[x] = cur[x]
    BY <1>0, PcsFacts, Zenon
  <2> QED BY <2>1, <2>2, OwnersKeep, Zenon DEF IInv, EntryInv
<1>5. PayloadInv'
  BY Zenon DEF IInv, EntryInv, fmt_payload, entryVars, orderVars, PayloadInv
<1>6. OwnerInv'
  <2>1. \A x \in Threads : pc'[x] \in OwnerPcs => x # t /\ pc'[x] = pc[x]
    BY <1>0, PcsFacts, Zenon
  <2>2. {"take_uncompiled", "store_compiled", "store_uncompiled"} \subseteq OwnerPcs
    BY PcsFacts, Zenon
  <2> QED
    BY <1>0, <2>1, <2>2, ZenonT(60) DEF IInv, EntryInv, OwnerInv
<1>7. ReaderInv'
  BY Zenon DEF IInv, EntryInv, fmt_payload, Goto, entryVars, orderVars, TypeOK, ReaderInv
<1>8. NoPanic'
  BY ZenonT(20) DEF TypeOK, IInv, fmt_payload, Goto, NoPanic, PanicPcs
<1> QED
  BY <1>1, <1>2, <1>3, <1>4, <1>5, <1>6, <1>7, <1>8, Zenon DEF IInv, EntryInv

\* Printing ends.
LEMMA Step_fmt_end ==
    ASSUME IInv, NEW t \in Threads, fmt_end(t)
    PROVE  IInv'
<1>1. TypeOK'
  <2>1. pc' \in [Threads -> Pcs]
    BY PcsFacts, ZenonT(30) DEF IInv, TypeOK, fmt_end, Goto
  <2>2. span' \in [Threads -> [start : 0 .. MaxFuncs, end : 0 .. MaxFuncs]]
    BY CodeMapAssumption, SMTT(30) DEF IInv, TypeOK, fmt_end, EndSpan
  <2>3. cur' \in [Threads -> Nat]
    BY Zenon DEF IInv, TypeOK, fmt_end, EndSpan, EndCall
  <2> QED
    BY <2>1, <2>2, <2>3, Zenon DEF IInv, TypeOK, fmt_end, tableVars, entryVars, orderVars
<1>2. AllocInv' /\ BuildInv'
  <2>1. BuildersUntouched
    BY ZenonT(20)
    DEF IInv, TypeOK, BuildersUntouched, BuildPcs, fmt_end, Goto, EndSpan, EndCall, tableVars,
           entryVars, orderVars
  <2> QED BY <2>1, BuildersKeep, Zenon
<1>3. ReachInv'
  BY LocFacts, BucketFacts, PcsFacts, ZenonT(120)
  DEF IInv, BuildInv, fmt_end, Goto, EndSpan, EndCall, tableVars, entryVars, orderVars,
      TypeOK, ReachInv, SlotsIn, CallPcs, FmtPcs
<1>4. EntryInv'
  <2>1. EntriesUntouched
    BY PcsFacts, ZenonT(20)
    DEF IInv, TypeOK, EntriesUntouched, ReaderPcs, fmt_end, Goto, EndSpan, EndCall, entryVars,
        orderVars
  <2> QED BY <2>1, EntriesKeep, Zenon
<1>5. NoPanic'
  BY ZenonT(20) DEF TypeOK, IInv, fmt_end, Goto, NoPanic, PanicPcs
<1> QED
  BY <1>1, <1>2, <1>3, <1>4, <1>5, Zenon DEF IInv


-----------------------------------------------------------------------------
(* Execution, lookup and compilation *)

\* A fresh view covers all that is reachable.
LEMMA Step_execute ==
    ASSUME IInv, NEW t \in Threads, execute(t)
    PROVE  IInv'
<1>1. TypeOK'
  <2>1. pc' \in [Threads -> Pcs]
    BY PcsFacts, Zenon DEF IInv, TypeOK, execute, Goto
  <2>2. view' \in [Threads -> 0 .. MaxFuncs] /\ executing' \in [Threads -> BOOLEAN]
    BY Zenon DEF IInv, TypeOK, execute
  <2>3. /\ know' \in [Threads -> SUBSET Locs] /\ lenMsg' \subseteq Locs
        /\ lockMsg' \subseteq Locs /\ stateMsg' \in [Funcs -> SUBSET Locs]
    BY Zenon DEF IInv, TypeOK, execute, Acquire
  <2> QED
    BY <2>1, <2>2, <2>3, Zenon DEF IInv, TypeOK, execute, tableVars, entryVars
<1>2. AllocInv' /\ BuildInv'
  <2>1. BuildersUntouched
    BY DEF BuildersUntouched, BuildPcs, execute, Acquire, Goto, tableVars, entryVars
  <2> QED BY <2>1, BuildersKeep, Zenon
<1>3. ReachInv'
  BY PcsFacts, ZenonT(60)
  DEF IInv, execute, Acquire, Goto, tableVars, entryVars, TypeOK, ReachInv, SlotsIn,
      CallPcs, FmtPcs, AllocInv
<1>4. EntryInv'
  <2>1. EntriesUntouched
    BY PcsFacts DEF EntriesUntouched, ReaderPcs, execute, Acquire, Goto, entryVars
  <2> QED BY <2>1, EntriesKeep, Zenon
<1>5. NoPanic'
  BY DEF IInv, execute, Goto, NoPanic, PanicPcs
<1> QED
  BY <1>1, <1>2, <1>3, <1>4, <1>5, Zenon DEF IInv

\* A host call suspends the execution.
LEMMA Step_call_host ==
    ASSUME IInv, NEW t \in Threads, call_host(t)
    PROVE  IInv'
<1>1. TypeOK'
  <2>1. pc' \in [Threads -> Pcs]
    BY PcsFacts, Zenon DEF IInv, TypeOK, call_host, Goto
  <2>2. view' \in [Threads -> 0 .. MaxFuncs] /\ executing' \in [Threads -> BOOLEAN]
    BY Zenon DEF IInv, TypeOK, call_host
  <2> QED
    BY <2>1, <2>2, Zenon DEF IInv, TypeOK, call_host, tableVars, entryVars, orderVars
<1>2. AllocInv' /\ BuildInv'
  <2>1. BuildersUntouched
    BY SMTT(60) DEF BuildersUntouched, BuildPcs, call_host, Goto, tableVars, entryVars, orderVars
  <2> QED BY <2>1, BuildersKeep, Zenon
<1>3. ReachInv'
  BY LocFacts, BucketFacts, PcsFacts
  DEF IInv, call_host, Goto, tableVars, entryVars, orderVars, ReachInv, CallPcs, FmtPcs
<1>4. EntryInv'
  <2>1. EntriesUntouched
    BY PcsFacts DEF EntriesUntouched, ReaderPcs, call_host, Goto, entryVars, orderVars
  <2> QED BY <2>1, EntriesKeep, Zenon
<1>5. NoPanic'
  BY DEF IInv, call_host, Goto, NoPanic, PanicPcs
<1> QED
  BY <1>1, <1>2, <1>3, <1>4, <1>5, Zenon DEF IInv

\* The refreshed view covers what the host call made reachable.
LEMMA Step_refresh ==
    ASSUME IInv, NEW t \in Threads, refresh(t)
    PROVE  IInv'
<1>1. TypeOK'
  <2>1. pc' \in [Threads -> Pcs]
    BY PcsFacts, Zenon DEF IInv, TypeOK, refresh, Goto
  <2>2. view' \in [Threads -> 0 .. MaxFuncs] /\ executing' \in [Threads -> BOOLEAN]
    BY Zenon DEF IInv, TypeOK, refresh, RefreshedLen
  <2>3. /\ know' \in [Threads -> SUBSET Locs] /\ lenMsg' \subseteq Locs
        /\ lockMsg' \subseteq Locs /\ stateMsg' \in [Funcs -> SUBSET Locs]
    BY Zenon DEF IInv, TypeOK, refresh, Acquire
  <2> QED
    BY <2>1, <2>2, <2>3, Zenon DEF IInv, TypeOK, refresh, tableVars, entryVars
<1>2. AllocInv' /\ BuildInv'
  <2>1. BuildersUntouched
    BY DEF BuildersUntouched, BuildPcs, refresh, Acquire, Goto, tableVars, entryVars
  <2> QED BY <2>1, BuildersKeep, Zenon
<1>3. ReachInv'
  <2>1. /\ UNCHANGED <<reach, state, len_funcs, span, cur>>
        /\ know' = [know EXCEPT ![t] = @ \cup lenMsg]
        /\ pc' = [pc EXCEPT ![t] = "wasm"]
        /\ view' = [view EXCEPT ![t] = len_funcs]
    BY Zenon DEF refresh, Acquire, Goto, RefreshedLen, tableVars, entryVars
  <2>2. /\ pc'[t] = "wasm" /\ view'[t] = len_funcs
        /\ \A x \in Threads : know[x] \subseteq know'[x]
        /\ \A x \in Threads : x # t => pc'[x] = pc[x] /\ view'[x] = view[x]
    BY <2>1, Zenon DEF IInv, TypeOK
  <2>3. "wasm" \notin CallPcs /\ "wasm" \notin FmtPcs
    BY PcsFacts, Zenon DEF CallPcs, FmtPcs
  <2>4. \A x \in Threads : \A n : SlotsIn(n, know[x]) => SlotsIn(n, know'[x])
    BY <2>2, Zenon DEF SlotsIn
  <2> QED BY <2>1, <2>2, <2>3, <2>4, ZenonT(60) DEF IInv, ReachInv
<1>4. EntryInv'
  <2>1. EntriesUntouched
    BY PcsFacts DEF EntriesUntouched, ReaderPcs, refresh, Acquire, Goto, entryVars
  <2> QED BY <2>1, EntriesKeep, Zenon
<1>5. NoPanic'
  BY DEF IInv, refresh, Goto, NoPanic, PanicPcs
<1> QED
  BY <1>1, <1>2, <1>3, <1>4, <1>5, Zenon DEF IInv

\* A failed host call ends the execution.
LEMMA Step_host_error ==
    ASSUME IInv, NEW t \in Threads, host_error(t)
    PROVE  IInv'
<1>1. TypeOK'
  <2>1. view' \in [Threads -> 0 .. MaxFuncs] /\ executing' \in [Threads -> BOOLEAN]
    BY CodeMapAssumption DEF IInv, TypeOK, host_error, EndExecution
  <2> QED
    BY <2>1, Zenon DEF IInv, TypeOK, host_error, tableVars, entryVars, orderVars
<1>2. AllocInv' /\ BuildInv'
  <2>1. BuildersUntouched
    BY ZenonT(60) DEF BuildersUntouched, host_error, tableVars, entryVars, orderVars
  <2> QED BY <2>1, BuildersKeep, Zenon
<1>3. ReachInv'
  BY PcsFacts
  DEF IInv, BuildInv, EntryInv, host_error, EndExecution, tableVars, entryVars,
      orderVars, ReachInv, CallPcs
<1>4. EntryInv'
  <2>1. EntriesUntouched
    BY Zenon DEF EntriesUntouched, host_error, entryVars, orderVars
  <2> QED BY <2>1, EntriesKeep, Zenon
<1>5. NoPanic'
  BY Zenon DEF IInv, host_error, NoPanic
<1> QED
  BY <1>1, <1>2, <1>3, <1>4, <1>5, Zenon DEF IInv

\* A finished execution leaves no call behind.
LEMMA Step_leave ==
    ASSUME IInv, NEW t \in Threads, leave(t)
    PROVE  IInv'
<1>1. TypeOK'
  <2>1. pc' \in [Threads -> Pcs]
    BY PcsFacts, Zenon DEF IInv, TypeOK, leave, Goto
  <2>2. view' \in [Threads -> 0 .. MaxFuncs] /\ executing' \in [Threads -> BOOLEAN]
    BY CodeMapAssumption DEF IInv, TypeOK, leave, EndExecution
  <2> QED
    BY <2>1, <2>2, Zenon DEF IInv, TypeOK, leave, tableVars, entryVars, orderVars
<1>2. AllocInv' /\ BuildInv'
  <2>1. BuildersUntouched
    BY SMTT(60) DEF BuildersUntouched, BuildPcs, leave, Goto, tableVars, entryVars, orderVars
  <2> QED BY <2>1, BuildersKeep, Zenon
<1>3. ReachInv'
  BY LocFacts, PcsFacts, SMTT(60)
  DEF IInv, leave, Goto, EndExecution, tableVars, entryVars, orderVars, TypeOK,
      ReachInv, SlotsIn, CallPcs, FmtPcs
<1>4. EntryInv'
  <2>1. EntriesUntouched
    BY PcsFacts, ZenonT(20)
    DEF IInv, TypeOK, EntriesUntouched, ReaderPcs, leave, Goto, tableVars, entryVars, orderVars
  <2> QED BY <2>1, EntriesKeep, Zenon
<1>5. NoPanic'
  BY DEF IInv, leave, Goto, NoPanic, PanicPcs
<1> QED
  BY <1>1, <1>2, <1>3, <1>4, <1>5, Zenon DEF IInv

\* The callee is below the view and in a published bucket.
LEMMA Step_get_or_compile ==
    ASSUME IInv, NEW t \in Threads, NEW f \in Funcs, get_or_compile(t, f)
    PROVE  IInv'
<1>0. /\ f < view[t] /\ ~ (f >= view[t]) /\ bucket_of(f) \in buckets /\ f \in Nat
      /\ state[f] # "UNINIT" /\ f < len_funcs /\ f \in reach[t]
      /\ pc[t] = "wasm"
      /\ pc' = [pc EXCEPT ![t] = IF state[f] = "COMPILED" THEN "assume_compiled" ELSE "compile"]
      /\ know' = [know EXCEPT ![t] = @ \cup stateMsg[f]]
      /\ cur' = [cur EXCEPT ![t] = f]
  <2>1. f \in Nat /\ view[t] \in Nat /\ len_funcs \in Nat /\ len_funcs \in 0 .. MaxFuncs
    BY SMTT(30) DEF Funcs, IInv, TypeOK
  <2>2. pc[t] = "wasm" /\ f \in reach[t]
    BY Zenon DEF get_or_compile
  <2>3. f < view[t] /\ state[f] # "UNINIT" /\ f < len_funcs
    BY <2>2, Zenon DEF IInv, ReachInv
  <2>4. bucket_of(f) \in buckets
    BY <2>1, <2>3, BucketFacts, Zenon DEF IInv, AllocInv
  <2>5. ~ (f >= view[t])
    BY <2>1, <2>3
  <2> QED BY <2>1, <2>2, <2>3, <2>4, <2>5, Zenon
          DEF get_or_compile, AcquiredState, Acquire, Goto
<1>1. TypeOK'
  <2>1. pc' \in [Threads -> Pcs]
    BY <1>0, PcsFacts, Zenon DEF IInv, TypeOK
  <2>2. cur' \in [Threads -> Nat]
    BY <1>0, Zenon DEF IInv, TypeOK
  <2>3. /\ know' \in [Threads -> SUBSET Locs] /\ lenMsg' \subseteq Locs
        /\ lockMsg' \subseteq Locs /\ stateMsg' \in [Funcs -> SUBSET Locs]
    BY <1>0, Zenon DEF IInv, TypeOK, get_or_compile
  <2> QED
    BY <2>1, <2>2, <2>3, Zenon DEF IInv, TypeOK, get_or_compile, tableVars, entryVars
<1>2. AllocInv' /\ BuildInv'
  <2>1. BuildersUntouched
    BY <1>0, ZenonT(20)
    DEF TypeOK, IInv, BuildersUntouched, BuildPcs, get_or_compile, tableVars, entryVars
  <2> QED BY <2>1, BuildersKeep, Zenon
<1>3. ReachInv'
  BY <1>0, LocFacts, Zenon
  DEF IInv, BuildInv, EntryInv, get_or_compile, Acquire, Goto, AcquiredState, tableVars,
      entryVars, TypeOK, ReachInv, SlotsIn, CallPcs, FmtPcs
<1>4. OneCompiler'
  <2>1. \A g \in Funcs : state'[g] = "COMPILING" <=> state[g] = "COMPILING"
    BY <1>0, Zenon DEF get_or_compile, entryVars
  <2>2. \A x \in Threads : /\ pc'[x] \in OwnerPcs <=> pc[x] \in OwnerPcs
                           /\ pc[x] \in OwnerPcs => cur'[x] = cur[x]
    BY <1>0, PcsFacts, SMTT(30)
  <2> QED BY <2>1, <2>2, OwnersKeep, Zenon DEF IInv, EntryInv
<1>5. PayloadInv'
  BY <1>0, Zenon DEF IInv, EntryInv, get_or_compile, entryVars, PayloadInv
<1>6. OwnerInv'
  BY <1>0, PcsFacts, ZenonT(60)
  DEF TypeOK, IInv, BuildInv, EntryInv, get_or_compile, entryVars, OwnerInv
<1>7. ReaderInv'
  BY <1>0, ZenonT(120)
  DEF IInv, EntryInv, get_or_compile, Acquire, entryVars, TypeOK, ReaderInv, PayloadInv
<1>8. NoPanic'
  BY <1>0 DEF IInv, NoPanic, PanicPcs
<1> QED
  BY <1>1, <1>2, <1>3, <1>4, <1>5, <1>6, <1>7, <1>8, Zenon DEF IInv, EntryInv

\* Whatever state the loop observes, its branch fits the payload.
LEMMA Step_compile ==
    ASSUME IInv, NEW t \in Threads, compile(t)
    PROVE  IInv'
<1>0. /\ cur[t] \in Funcs /\ Data(cur[t]) \in Locs
      /\ cur[t] \in reach[t] /\ cur[t] < len_funcs /\ state[cur[t]] # "UNINIT"
  BY LocFacts, Zenon DEF IInv, compile, TypeOK, ReachInv, CallPcs
<1>1. TypeOK'
  <2>1. pc' \in [Threads -> Pcs]
    BY <1>0, PcsFacts, ZenonT(60) DEF IInv, TypeOK, compile, Goto, entryVars
  <2>2. cur' \in [Threads -> Nat]
    <3>1. cur' = cur \/ cur' = [cur EXCEPT ![t] = 0]
      BY Zenon DEF compile, EndCall
    <3> QED BY <3>1, SMTT(60) DEF IInv, TypeOK
  <2>3. view' \in [Threads -> 0 .. MaxFuncs] /\ executing' \in [Threads -> BOOLEAN]
    BY <1>0, CodeMapAssumption, SMTT(60) DEF IInv, TypeOK, compile, EndExecution
  <2>4. /\ know' \in [Threads -> SUBSET Locs] /\ lenMsg' \subseteq Locs
        /\ lockMsg' \subseteq Locs /\ stateMsg' \in [Funcs -> SUBSET Locs]
    BY <1>0, Zenon DEF IInv, TypeOK, compile, Acquire, AcquiredState
  <2> QED
    BY <2>1, <2>2, <2>3, <2>4, Zenon DEF IInv, TypeOK, compile, tableVars, entryVars
<1>2. AllocInv' /\ BuildInv'
  <2>1. BuildersUntouched
    BY <1>0, ZenonT(60)
    DEF IInv, TypeOK, BuildersUntouched, BuildPcs, compile, Acquire, Goto, EndCall,
        tableVars, entryVars
  <2> QED BY <2>1, BuildersKeep, Zenon
<1>3. ReachInv'
  BY <1>0, PcsFacts
  DEF IInv, compile, Acquire, Goto, EndCall, EndExecution, tableVars, entryVars, TypeOK,
      ReachInv, CallPcs, FmtPcs
<1>4. OneCompiler'
  <2>1. \A g \in Funcs : state'[g] = "COMPILING" <=> state[g] = "COMPILING"
    BY <1>0, Zenon DEF compile, entryVars
  <2>2. \A x \in Threads : /\ pc'[x] \in OwnerPcs <=> pc[x] \in OwnerPcs
                           /\ pc[x] \in OwnerPcs => cur'[x] = cur[x]
    BY <1>0, PcsFacts, ZenonT(240) DEF IInv, TypeOK, compile, Goto, EndCall
  <2> QED BY <2>1, <2>2, OwnersKeep, Zenon DEF IInv, EntryInv
<1>5. PayloadInv'
  BY <1>0, Zenon DEF IInv, EntryInv, compile, entryVars, PayloadInv
<1>6. OwnerInv'
  BY <1>0, PcsFacts
  DEF IInv, EntryInv, compile, Acquire, Goto, EndCall, entryVars, TypeOK, OwnerInv
<1>7. ReaderInv'
  BY <1>0, ZenonT(240)
  DEF IInv, EntryInv, compile, Acquire, Goto, AcquiredState, EndCall, entryVars, TypeOK,
      ReaderInv, PayloadInv
<1>8. NoPanic'
  BY <1>0, ZenonT(60) DEF IInv, compile, Goto, TypeOK, NoPanic, PanicPcs, States
<1> QED
  BY <1>1, <1>2, <1>3, <1>4, <1>5, <1>6, <1>7, <1>8, Zenon DEF IInv, EntryInv

\* The winner becomes the only owner of the entry.
LEMMA Step_compare_exchange ==
    ASSUME IInv, NEW t \in Threads, compare_exchange(t)
    PROVE  IInv'
<1>0. /\ cur[t] \in Funcs /\ Data(cur[t]) \in Locs
      /\ cur[t] \in reach[t] /\ cur[t] < len_funcs /\ state[cur[t]] # "UNINIT"
  BY LocFacts, Zenon DEF IInv, compare_exchange, TypeOK, ReachInv, CallPcs
<1>1. TypeOK'
  <2>1. state' \in [Funcs -> States] /\ data' \in [Funcs -> Payloads]
    BY <1>0, Zenon DEF IInv, TypeOK, compare_exchange, States
  <2>2. pc' \in [Threads -> Pcs]
    BY <1>0, PcsFacts, ZenonT(60) DEF IInv, TypeOK, compare_exchange, Acquire, Goto, AcquiredState
  <2>3. /\ know' \in [Threads -> SUBSET Locs] /\ lenMsg' \subseteq Locs
        /\ lockMsg' \subseteq Locs /\ stateMsg' \in [Funcs -> SUBSET Locs]
    BY <1>0, SMTT(60) DEF IInv, TypeOK, compare_exchange, Acquire, AcquiredState
  <2> QED
    BY <2>1, <2>2, <2>3, Zenon DEF IInv, TypeOK, compare_exchange, tableVars
<1>2. AllocInv' /\ BuildInv'
  <2>1. BuildersUntouched
    BY <1>0, ZenonT(60)
    DEF IInv, TypeOK, BuildersUntouched, BuildPcs, compare_exchange, Acquire, Goto,
        tableVars
  <2> QED BY <2>1, BuildersKeep, Zenon
<1>3. ReachInv'
  BY <1>0, ZenonT(240)
  DEF IInv, BuildInv, compare_exchange, Acquire, Goto, AcquiredState, tableVars, TypeOK,
      ReachInv, CallPcs, FmtPcs
<1>4. OneCompiler'
  <2>1. CASE WinsRace(cur[t])
    <3>1. /\ state' = [state EXCEPT ![cur[t]] = "COMPILING"] /\ state[cur[t]] = "UNCOMPILED"
          /\ pc' = [pc EXCEPT ![t] = "take_uncompiled"] /\ UNCHANGED cur
      BY <2>1, Zenon DEF compare_exchange, WinsRace, Goto
    <3>2. \A x \in Threads : Owns(x, cur[t]) <=> FALSE
      BY <1>0, <3>1, Zenon DEF IInv, EntryInv, OneCompiler
    <3>3. \A x \in Threads, g \in Funcs : Owns(x, g)' <=> Owns(x, g) \/ (x = t /\ g = cur[t])
      BY <3>1, PcsFacts, Zenon DEF Owns, IInv, TypeOK
    <3>4. \A g \in Funcs : state'[g] = "COMPILING" <=> state[g] = "COMPILING" \/ g = cur[t]
      BY <1>0, <3>1, Zenon DEF IInv, TypeOK
    <3> QED BY <1>0, <3>2, <3>3, <3>4, ZenonT(60) DEF IInv, EntryInv, OneCompiler
  <2>2. CASE ~ WinsRace(cur[t])
    <3>1. UNCHANGED <<state, cur>> /\ pc' = [pc EXCEPT ![t] = "compile"] /\ pc[t] = "compare_exchange"
      BY <2>2, Zenon DEF compare_exchange, Goto
    <3>2. \A x \in Threads : /\ pc'[x] \in OwnerPcs <=> pc[x] \in OwnerPcs
                             /\ pc[x] \in OwnerPcs => cur'[x] = cur[x]
      BY <3>1, PcsFacts, SMTT(30)
    <3> QED BY <3>1, <3>2, OwnersKeep, Zenon DEF IInv, EntryInv
  <2> QED BY <2>1, <2>2, Zenon
<1>5. PayloadInv'
  BY <1>0, ZenonT(60) DEF IInv, EntryInv, compare_exchange, WinsRace, TypeOK, PayloadInv
<1>6. OwnerInv'
  BY <1>0, PcsFacts, SMTT(60)
  DEF IInv, EntryInv, compare_exchange, Acquire, Goto, AcquiredState, WinsRace, TypeOK,
      OwnerInv, PayloadInv
<1>7. ReaderInv'
  <2>1. /\ pc'[t] \in {"take_uncompiled", "compile"} /\ UNCHANGED cur
        /\ \A x \in Threads : x # t => pc'[x] = pc[x] /\ know'[x] = know[x]
    BY Zenon DEF compare_exchange, Acquire, Goto, IInv, TypeOK
  <2>2. \A g \in Funcs : /\ state[g] = "COMPILED" => state'[g] = "COMPILED"
                         /\ state[g] # "UNINIT" => state'[g] # "UNINIT"
    BY Zenon DEF compare_exchange, WinsRace, IInv, TypeOK
  <2>3. \A x \in Threads : pc[x] \in ReaderPcs => cur[x] \in Funcs
    BY Zenon DEF IInv, TypeOK, ReachInv, CallPcs, ReaderPcs
  <2> QED BY <2>1, <2>2, <2>3, Zenon DEF IInv, EntryInv, ReaderInv, ReaderPcs
<1>8. NoPanic'
  BY <1>0, Zenon DEF IInv, compare_exchange, Goto, TypeOK, NoPanic, PanicPcs
<1> QED
  BY <1>1, <1>2, <1>3, <1>4, <1>5, <1>6, <1>7, <1>8, Zenon DEF IInv, EntryInv

\* The owner moves the payload out; nobody reads it.
LEMMA Step_take_uncompiled ==
    ASSUME IInv, NEW t \in Threads, take_uncompiled(t)
    PROVE  IInv'
<1>0. /\ cur[t] \in Funcs /\ Data(cur[t]) \in Locs
      /\ cur[t] \in reach[t] /\ cur[t] < len_funcs
      /\ state[cur[t]] = "COMPILING"
      /\ \A u \in Threads \ {t} : pc[u] \in OwnerPcs => cur[u] # cur[t]
      /\ \A u \in Threads : pc[u] = "init_store" => cur[u] # cur[t] /\ pc[t] \in OwnerPcs
  BY OwnerFacts, PcsFacts, Zenon DEF take_uncompiled
<1>1. TypeOK'
  <2>1. state' \in [Funcs -> States] /\ data' \in [Funcs -> Payloads]
    BY <1>0, Zenon DEF IInv, TypeOK, take_uncompiled, Payloads
  <2>2. pc' \in [Threads -> Pcs]
    BY <1>0, PcsFacts, Zenon DEF IInv, TypeOK, take_uncompiled, Goto
  <2>3. /\ know' \in [Threads -> SUBSET Locs] /\ lenMsg' \subseteq Locs
        /\ lockMsg' \subseteq Locs /\ stateMsg' \in [Funcs -> SUBSET Locs]
    BY <1>0, Zenon DEF IInv, TypeOK, take_uncompiled, Write
  <2> QED
    BY <2>1, <2>2, <2>3, Zenon DEF IInv, TypeOK, take_uncompiled, tableVars
<1>2. AllocInv' /\ BuildInv'
  <2>1. BuildersUntouched
    <3>1. \A n, f : Slot(n) # Data(f)
      BY LocFacts, Zenon
    <3>2. /\ UNCHANGED <<buckets, len_funcs, alloc_lock, reach, state, span, cur>>
          /\ data' = [data EXCEPT ![cur[t]] = "undefined"]
          /\ know' = [u \in Threads |-> IF u = t THEN know[u] \cup {Data(cur[t])} ELSE know[u] \ {Data(cur[t])}]
          /\ lenMsg' = lenMsg \ {Data(cur[t])} /\ lockMsg' = lockMsg \ {Data(cur[t])}
      BY Zenon DEF take_uncompiled, Write, tableVars
    <3>3. \A x \in Threads : pc[x] \in BuildPcs \/ pc'[x] \in BuildPcs => pc'[x] = pc[x]
      BY Zenon DEF IInv, TypeOK, take_uncompiled, Goto, BuildPcs
    <3>4. \A x \in Threads : \A l : l # Data(cur[t]) /\ l \in know[x] => l \in know'[x]
      BY <3>2, Zenon
    <3>5. ASSUME NEW x \in Threads, pc[x] = "init_store"
          PROVE  data'[cur[x]] = data[cur[x]] /\ (Data(cur[x]) \in know[x] => Data(cur[x]) \in know'[x])
      <4>1. cur[x] # cur[t] /\ cur[x] \in Funcs
        BY <1>0, <3>5, BuilderFacts, Zenon
      <4>2. Data(cur[x]) # Data(cur[t])
        BY <4>1, LocFacts, Zenon
      <4> QED
        BY <3>2, <3>4, <4>1, <4>2, Zenon DEF IInv, TypeOK
    <3> QED
      BY <3>1, <3>2, <3>3, <3>4, <3>5, ZenonT(60) DEF BuildersUntouched
  <2> QED BY <2>1, BuildersKeep, ZenonT(30)
<1>3. ReachInv'
  BY <1>0, LocFacts, BucketFacts, PcsFacts, SMTT(60)
  DEF IInv, BuildInv, EntryInv, take_uncompiled, Goto, Write, tableVars, ReachInv,
      SlotsIn, CallPcs, FmtPcs
<1>4. OneCompiler'
  <2>1. \A g \in Funcs : state'[g] = "COMPILING" <=> state[g] = "COMPILING"
    BY <1>0, Zenon DEF take_uncompiled
  <2>2. \A x \in Threads : /\ pc'[x] \in OwnerPcs <=> pc[x] \in OwnerPcs
                           /\ pc[x] \in OwnerPcs => cur'[x] = cur[x]
    BY <1>0, PcsFacts, ZenonT(20) DEF IInv, TypeOK, take_uncompiled, Goto
  <2> QED BY <2>1, <2>2, OwnersKeep, Zenon DEF IInv, EntryInv
<1>5. PayloadInv'
  BY <1>0, LocFacts, ZenonT(60) DEF TypeOK, IInv, EntryInv, take_uncompiled, Write, PayloadInv
<1>6. OwnerInv'
  BY <1>0, LocFacts, PcsFacts, SMTT(60)
  DEF IInv, EntryInv, take_uncompiled, Goto, Write, tableVars, TypeOK, OwnerInv
<1>7. ReaderInv'
  BY <1>0, LocFacts, PcsFacts, ZenonT(60)
  DEF TypeOK, IInv, BuildInv, EntryInv, take_uncompiled, Goto, Write, tableVars, ReaderInv,
      PayloadInv, ReachInv
<1>8. NoPanic'
  BY <1>0, PcsFacts, ZenonT(20) DEF TypeOK, IInv, take_uncompiled, Goto, NoPanic, PanicPcs
<1> QED
  BY <1>1, <1>2, <1>3, <1>4, <1>5, <1>6, <1>7, <1>8, Zenon DEF IInv, EntryInv

\* The owner translates on its own.
LEMMA Step_translate ==
    ASSUME IInv, NEW t \in Threads, translate(t)
    PROVE  IInv'
<1>0. /\ cur[t] \in Funcs /\ Data(cur[t]) \in Locs
      /\ cur[t] \in reach[t] /\ cur[t] < len_funcs
      /\ state[cur[t]] = "COMPILING"
      /\ \A u \in Threads \ {t} : pc[u] \in OwnerPcs => cur[u] # cur[t]
      /\ \A u \in Threads : pc[u] = "init_store" => cur[u] # cur[t] /\ pc[t] \in OwnerPcs
  BY OwnerFacts, PcsFacts, Zenon DEF translate
<1>1. TypeOK'
  <2>1. pc' \in [Threads -> Pcs]
    BY <1>0, PcsFacts, Zenon DEF IInv, TypeOK, translate, Goto
  <2> QED
    BY <2>1, Zenon DEF IInv, TypeOK, translate, tableVars, entryVars, orderVars
<1>2. AllocInv' /\ BuildInv'
  <2>1. BuildersUntouched
    BY <1>0, Zenon
    DEF IInv, TypeOK, BuildersUntouched, BuildPcs, translate, Goto, tableVars,
        entryVars, orderVars
  <2> QED BY <2>1, BuildersKeep, Zenon
<1>3. ReachInv'
  BY <1>0, PcsFacts, ZenonT(60)
  DEF IInv, BuildInv, translate, Goto, tableVars, entryVars, orderVars, TypeOK,
      ReachInv, SlotsIn, CallPcs, FmtPcs
<1>4. OneCompiler'
  <2>1. \A g \in Funcs : state'[g] = "COMPILING" <=> state[g] = "COMPILING"
    BY <1>0, Zenon DEF translate, entryVars
  <2>2. \A x \in Threads : /\ pc'[x] \in OwnerPcs <=> pc[x] \in OwnerPcs
                           /\ pc[x] \in OwnerPcs => cur'[x] = cur[x]
    BY <1>0, PcsFacts, ZenonT(60) DEF IInv, TypeOK, translate, Goto
  <2> QED BY <2>1, <2>2, OwnersKeep, Zenon DEF IInv, EntryInv
<1>5. PayloadInv'
  BY <1>0, Zenon DEF IInv, EntryInv, translate, entryVars, orderVars, PayloadInv
<1>6. OwnerInv'
  BY <1>0, PcsFacts, ZenonT(60)
  DEF IInv, EntryInv, translate, Goto, entryVars, orderVars, TypeOK, OwnerInv
<1>7. ReaderInv'
  BY <1>0, Zenon DEF IInv, EntryInv, translate, Goto, entryVars, orderVars, TypeOK, ReaderInv
<1>8. NoPanic'
  BY <1>0, Zenon DEF IInv, translate, Goto, TypeOK, NoPanic, PanicPcs
<1> QED
  BY <1>1, <1>2, <1>3, <1>4, <1>5, <1>6, <1>7, <1>8, Zenon DEF IInv, EntryInv

\* The owner writes the outcome; nobody reads it.
LEMMA Step_set_payload ==
    ASSUME IInv, NEW t \in Threads, set_payload(t)
    PROVE  IInv'
<1>0. /\ cur[t] \in Funcs /\ Data(cur[t]) \in Locs
      /\ cur[t] \in reach[t] /\ cur[t] < len_funcs
      /\ state[cur[t]] = "COMPILING"
      /\ \A u \in Threads \ {t} : pc[u] \in OwnerPcs => cur[u] # cur[t]
      /\ \A u \in Threads : pc[u] = "init_store" => cur[u] # cur[t] /\ pc[t] \in OwnerPcs
  BY OwnerFacts, PcsFacts, Zenon DEF set_payload
<1>1. TypeOK'
  <2>1. state' \in [Funcs -> States] /\ data' \in [Funcs -> Payloads]
    BY <1>0, Zenon DEF IInv, TypeOK, set_payload, Payloads
  <2>2. pc' \in [Threads -> Pcs]
    BY <1>0, PcsFacts, Zenon DEF IInv, TypeOK, set_payload, Goto
  <2>3. /\ know' \in [Threads -> SUBSET Locs] /\ lenMsg' \subseteq Locs
        /\ lockMsg' \subseteq Locs /\ stateMsg' \in [Funcs -> SUBSET Locs]
    BY <1>0, Zenon DEF IInv, TypeOK, set_payload, Write
  <2> QED
    BY <2>1, <2>2, <2>3, Zenon DEF IInv, TypeOK, set_payload, tableVars
<1>2. AllocInv' /\ BuildInv'
  <2>1. BuildersUntouched
    BY <1>0, LocFacts, SMTT(60)
    DEF BuildersUntouched, BuildPcs, set_payload, Goto, Write, tableVars, IInv, TypeOK
  <2> QED BY <2>1, BuildersKeep, ZenonT(60)
<1>3. ReachInv'
  BY <1>0, LocFacts, BucketFacts, PcsFacts, SMTT(60)
  DEF IInv, BuildInv, EntryInv, set_payload, Goto, Write, tableVars, TypeOK, ReachInv,
      SlotsIn, CallPcs, FmtPcs
<1>4. OneCompiler'
  <2>1. \A g \in Funcs : state'[g] = "COMPILING" <=> state[g] = "COMPILING"
    BY <1>0, ZenonT(30) DEF set_payload
  <2>2. \A x \in Threads : /\ pc'[x] \in OwnerPcs <=> pc[x] \in OwnerPcs
                           /\ pc[x] \in OwnerPcs => cur'[x] = cur[x]
    BY <1>0, PcsFacts, ZenonT(20) DEF IInv, TypeOK, set_payload, Goto
  <2> QED BY <2>1, <2>2, OwnersKeep, Zenon DEF IInv, EntryInv
<1>5. PayloadInv'
  BY <1>0, LocFacts, PcsFacts, ZenonT(60)
  DEF IInv, BuildInv, EntryInv, set_payload, Goto, Write, tableVars, TypeOK, PayloadInv
<1>6. OwnerInv'
  <2>1. /\ cur' = cur /\ pc[t] \in {"set_compiled", "set_uncompiled"}
        /\ pc' = [pc EXCEPT ![t] = IF pc[t] = "set_compiled" THEN "store_compiled" ELSE "store_uncompiled"]
        /\ data' = [data EXCEPT ![cur[t]] = IF pc[t] = "set_compiled" THEN "compiled" ELSE "uncompiled"]
        /\ know' = [u \in Threads |-> IF u = t THEN know[u] \cup {Data(cur[t])} ELSE know[u] \ {Data(cur[t])}]
    BY Zenon DEF set_payload, Goto, Write
  <2>2. pc \in [Threads -> Pcs] /\ data \in [Funcs -> Payloads]
    BY Zenon DEF IInv, TypeOK
  <2>3. /\ pc'[t] \in {"store_compiled", "store_uncompiled"} /\ Data(cur'[t]) \in know'[t]
        /\ pc'[t] = "store_compiled" => data'[cur'[t]] = "compiled"
        /\ pc'[t] = "store_uncompiled" => data'[cur'[t]] = "uncompiled"
    BY <1>0, <2>1, <2>2, Zenon
  <2>4. ASSUME NEW x \in Threads, x # t, pc'[x] \in OwnerPcs
        PROVE  pc'[x] = pc[x] /\ cur'[x] = cur[x] /\ data'[cur[x]] = data[cur[x]] /\ Data(cur[x]) \in know'[x]
    <3>1. pc'[x] = pc[x] /\ cur'[x] = cur[x]
      BY <2>1, <2>2, <2>4, Zenon
    <3>2. cur[x] # cur[t] /\ cur[x] \in Funcs /\ Data(cur[x]) \in know[x]
      BY <1>0, <2>4, <3>1, OwnerFacts, Zenon DEF IInv, EntryInv, OwnerInv
    <3>3. Data(cur[x]) # Data(cur[t])
      BY <3>2, LocFacts, Zenon
    <3> QED
      BY <2>1, <2>2, <2>4, <3>1, <3>2, <3>3, Zenon
  <2>5. {"take_uncompiled", "store_compiled", "store_uncompiled"} \subseteq OwnerPcs
    BY PcsFacts, Zenon
  <2>6. ASSUME NEW x \in Threads, x # t
        PROVE  /\ pc'[x] \in OwnerPcs => Data(cur'[x]) \in know'[x]
               /\ pc'[x] = "take_uncompiled" => data'[cur'[x]] = "uncompiled"
               /\ pc'[x] = "store_compiled" => data'[cur'[x]] = "compiled"
               /\ pc'[x] = "store_uncompiled" => data'[cur'[x]] = "uncompiled"
    BY <2>4, <2>5, <2>6, ZenonT(60) DEF IInv, EntryInv, OwnerInv
  <2>7. "take_uncompiled" \notin {"store_compiled", "store_uncompiled"}
    BY Zenon
  <2> QED
    BY <2>3, <2>6, <2>7, Zenon DEF OwnerInv
<1>7. ReaderInv'
  BY <1>0, LocFacts, PcsFacts, ZenonT(60)
  DEF IInv, BuildInv, EntryInv, set_payload, Goto, Write, tableVars, TypeOK, ReaderInv,
      PayloadInv, ReachInv
<1>8. NoPanic'
  BY <1>0, ZenonT(20) DEF TypeOK, IInv, set_payload, Goto, NoPanic, PanicPcs
<1> QED
  BY <1>1, <1>2, <1>3, <1>4, <1>5, <1>6, <1>7, <1>8, Zenon DEF IInv, EntryInv

\* The owner publishes the outcome and gives the entry up.
LEMMA Step_store_state ==
    ASSUME IInv, NEW t \in Threads, store_state(t)
    PROVE  IInv'
<1>0. /\ cur[t] \in Funcs /\ Data(cur[t]) \in Locs
      /\ cur[t] \in reach[t] /\ cur[t] < len_funcs
      /\ state[cur[t]] = "COMPILING"
      /\ \A u \in Threads \ {t} : pc[u] \in OwnerPcs => cur[u] # cur[t]
      /\ \A u \in Threads : pc[u] = "init_store" => cur[u] # cur[t] /\ pc[t] \in OwnerPcs
      /\ pc[t] \in OwnerPcs
  BY OwnerFacts, PcsFacts, Zenon DEF store_state
<1>p. /\ pc' = [pc EXCEPT ![t] = pc'[t]]
      /\ pc'[t] \in {"assume_compiled", "host"}
      /\ pc'[t] = "assume_compiled" => pc[t] = "store_compiled" /\ cur' = cur
      /\ \A x \in Threads : x # t => pc'[x] = pc[x] /\ cur'[x] = cur[x]
  BY Zenon DEF IInv, TypeOK, store_state, Goto, EndCall
<1>1. TypeOK'
  <2>1. state' \in [Funcs -> States] /\ data' \in [Funcs -> Payloads]
    BY <1>0, Zenon DEF IInv, TypeOK, store_state, AttemptState, States
  <2>2. pc' \in [Threads -> Pcs]
    BY <1>p, PcsFacts, ZenonT(60) DEF IInv, TypeOK
  <2>3. cur' \in [Threads -> Nat]
    <3>1. cur' = cur \/ cur' = [cur EXCEPT ![t] = 0]
      BY Zenon DEF store_state, EndCall
    <3> QED BY <3>1, SMTT(60) DEF IInv, TypeOK
  <2>4. view' \in [Threads -> 0 .. MaxFuncs] /\ executing' \in [Threads -> BOOLEAN]
    BY <1>0, CodeMapAssumption, SMTT(60) DEF IInv, TypeOK, store_state, AttemptState, EndExecution
  <2>5. /\ know' \in [Threads -> SUBSET Locs] /\ lenMsg' \subseteq Locs
        /\ lockMsg' \subseteq Locs /\ stateMsg' \in [Funcs -> SUBSET Locs]
    BY <1>0, Zenon DEF IInv, TypeOK, store_state
  <2> QED
    BY <2>1, <2>2, <2>3, <2>4, <2>5, Zenon DEF IInv, TypeOK, store_state, tableVars
<1>2. AllocInv' /\ BuildInv'
  <2>1. BuildersUntouched
    BY <1>0, ZenonT(60)
    DEF IInv, TypeOK, BuildersUntouched, BuildPcs, store_state, Goto, AttemptState,
        EndCall, tableVars
  <2> QED BY <2>1, BuildersKeep, Zenon
<1>3. ReachInv'
  BY <1>0, PcsFacts, SMTT(30)
  DEF IInv, BuildInv, store_state, Goto, AttemptState, EndCall, EndExecution, tableVars,
      TypeOK, ReachInv, CallPcs, FmtPcs
<1>4. OneCompiler'
  <2>1. /\ state' = [state EXCEPT ![cur[t]] = AttemptState(pc[t])]
        /\ AttemptState(pc[t]) # "COMPILING"
        /\ pc'[t] \notin OwnerPcs
    BY <1>p, PcsFacts, Zenon DEF store_state, AttemptState
  <2>2. \A x \in Threads, g \in Funcs : Owns(x, g)' <=> Owns(x, g) /\ x # t
    BY <1>p, <2>1, Zenon DEF Owns
  <2>3. \A g \in Funcs : state'[g] = "COMPILING" <=> state[g] = "COMPILING" /\ g # cur[t]
    BY <1>0, <2>1, Zenon DEF IInv, TypeOK
  <2>4. \A g \in Funcs : Owns(t, g) <=> g = cur[t]
    BY <1>0, Zenon DEF Owns
  <2>5. /\ \A g \in Funcs : state[g] = "COMPILING" <=> \E x \in Threads : Owns(x, g)
        /\ \A x, y \in Threads : \A g \in Funcs : Owns(x, g) /\ Owns(y, g) => x = y
    BY Zenon DEF IInv, EntryInv, OneCompiler
  <2>6. ASSUME NEW g \in Funcs
        PROVE  state'[g] = "COMPILING" <=> \E x \in Threads : Owns(x, g)'
    <3>1. CASE g = cur[t]
      <4>1. \A x \in Threads : Owns(x, g) => x = t
        BY <2>4, <2>5, <3>1, Zenon
      <4> QED
        BY <2>2, <2>3, <3>1, <4>1, Zenon
    <3>2. CASE g # cur[t]
      <4>1. \A x \in Threads : Owns(x, g) => x # t
        BY <2>4, <3>2, Zenon
      <4> QED
        BY <2>2, <2>3, <2>5, <3>2, <4>1, Zenon
    <3> QED
      BY <3>1, <3>2, Zenon
  <2>7. \A x, y \in Threads : \A g \in Funcs : Owns(x, g)' /\ Owns(y, g)' => x = y
    BY <2>2, <2>5, Zenon
  <2> QED BY <2>6, <2>7, Zenon DEF OneCompiler
<1>5. PayloadInv'
  BY <1>0, PcsFacts, ZenonT(60)
  DEF IInv, EntryInv, store_state, AttemptState, TypeOK, PayloadInv, OwnerInv
<1>6. OwnerInv'
  <2>1. pc'[t] \notin OwnerPcs /\ pc[t] \in OwnerPcs
    BY <1>0, PcsFacts, Zenon DEF IInv, TypeOK, store_state, Goto
  <2>2. \A x \in Threads \ {t} : pc'[x] = pc[x] /\ cur'[x] = cur[x]
    BY Zenon DEF IInv, TypeOK, store_state, Goto, EndCall
  <2>3. UNCHANGED <<know, data>>
    BY Zenon DEF store_state
  <2>4. {"take_uncompiled", "store_compiled", "store_uncompiled"} \subseteq OwnerPcs
    BY PcsFacts, Zenon
  <2> QED
    BY <2>1, <2>2, <2>3, <2>4, ZenonT(60) DEF IInv, EntryInv, OwnerInv
<1>7. ReaderInv'
  <2>1. UNCHANGED know /\ state' = [state EXCEPT ![cur[t]] = AttemptState(pc[t])]
    BY Zenon DEF store_state
  <2>2. AttemptState(pc[t]) # "UNINIT" /\ AttemptState("store_compiled") = "COMPILED"
    BY Zenon DEF store_state, AttemptState
  <2>3. state \in [Funcs -> States]
    BY ZenonT(30) DEF IInv, TypeOK
  <2>4. ASSUME NEW x \in Threads, x # t
        PROVE  /\ pc'[x] = "assume_compiled" =>
                    state'[cur'[x]] = "COMPILED" /\ Data(cur'[x]) \in know'[x]
               /\ pc'[x] = "fmt_payload" =>
                    /\ state'[cur'[x]] # "UNINIT"
                    /\ CompilationMode = "Eager" => Data(cur'[x]) \in know'[x]
    <3>1. pc'[x] = pc[x] /\ cur'[x] = cur[x] /\ know' = know
      BY <1>p, <2>1, <2>4, Zenon
    <3>2. pc[x] \in {"assume_compiled", "fmt_payload"} => cur[x] \in Funcs
      BY Zenon DEF IInv, TypeOK, ReachInv, CallPcs
    <3>3. cur[x] \in Funcs =>
            state'[cur[x]] = IF cur[x] = cur[t] THEN AttemptState(pc[t]) ELSE state[cur[x]]
      BY <2>1, <2>3, Zenon
    <3>4. /\ pc[x] = "assume_compiled" => state[cur[x]] = "COMPILED" /\ Data(cur[x]) \in know[x]
          /\ pc[x] = "fmt_payload" => /\ state[cur[x]] # "UNINIT"
                                      /\ CompilationMode = "Eager" => Data(cur[x]) \in know[x]
      BY Zenon DEF IInv, EntryInv, ReaderInv
    <3> QED
      BY <1>0, <2>2, <3>1, <3>2, <3>3, <3>4, Zenon
  <2>5. pc'[t] = "assume_compiled" =>
          state'[cur'[t]] = "COMPILED" /\ Data(cur'[t]) \in know'[t]
    BY <1>0, <1>p, <2>1, <2>2, <2>3, Zenon DEF IInv, EntryInv, OwnerInv
  <2> QED BY <1>p, <2>4, <2>5, Zenon DEF ReaderInv
<1>8. NoPanic'
  BY <1>0, Zenon DEF IInv, store_state, Goto, TypeOK, NoPanic, PanicPcs
<1> QED
  BY <1>1, <1>2, <1>3, <1>4, <1>5, <1>6, <1>7, <1>8, Zenon DEF IInv, EntryInv

\* Reading a compiled payload changes nothing.
LEMMA Step_assume_compiled ==
    ASSUME IInv, NEW t \in Threads, assume_compiled(t)
    PROVE  IInv'
<1>1. TypeOK'
  <2>1. pc' \in [Threads -> Pcs]
    BY PcsFacts, Zenon DEF IInv, TypeOK, assume_compiled, Goto
  <2>2. cur' \in [Threads -> Nat]
    BY Zenon DEF IInv, TypeOK, assume_compiled, EndCall
  <2> QED
    BY <2>1, <2>2, Zenon DEF IInv, TypeOK, assume_compiled, tableVars, entryVars, orderVars
<1>2. AllocInv' /\ BuildInv'
  <2>1. BuildersUntouched
    BY ZenonT(20)
    DEF IInv, TypeOK, BuildersUntouched, BuildPcs, assume_compiled, Goto, EndCall, tableVars,
           entryVars, orderVars
  <2> QED BY <2>1, BuildersKeep, Zenon
<1>3. ReachInv'
  BY PcsFacts, Zenon
  DEF IInv, assume_compiled, Goto, EndCall, tableVars, entryVars, orderVars, TypeOK,
      ReachInv, CallPcs, FmtPcs
<1>4. OneCompiler'
  <2>1. \A g \in Funcs : state'[g] = "COMPILING" <=> state[g] = "COMPILING"
    BY Zenon DEF assume_compiled, entryVars
  <2>2. \A x \in Threads : /\ pc'[x] \in OwnerPcs <=> pc[x] \in OwnerPcs
                           /\ pc[x] \in OwnerPcs => cur'[x] = cur[x]
    BY PcsFacts, ZenonT(20) DEF IInv, TypeOK, assume_compiled, Goto, EndCall
  <2> QED BY <2>1, <2>2, OwnersKeep, Zenon DEF IInv, EntryInv
<1>5. PayloadInv'
  <2>1. PayloadInv
    BY Zenon DEF IInv, EntryInv
  <2> QED BY <2>1, Zenon DEF assume_compiled, entryVars, orderVars, PayloadInv
<1>6. OwnerInv'
  <2>1. OwnerInv
    BY Zenon DEF IInv, EntryInv
  <2>2. data' = data /\ know' = know
    BY Zenon DEF assume_compiled, entryVars, orderVars
  <2>3. \A x \in Threads : pc'[x] \in OwnerPcs => pc'[x] = pc[x] /\ cur'[x] = cur[x]
    BY PcsFacts, Zenon DEF assume_compiled, Goto, EndCall, IInv, TypeOK
  <2> QED BY <2>1, <2>2, <2>3, OwnersStay, Zenon
<1>7. ReaderInv'
  BY Zenon DEF IInv, EntryInv, assume_compiled, Goto, EndCall, entryVars, orderVars, TypeOK,
         ReaderInv
<1>8. NoPanic'
  BY ZenonT(20) DEF TypeOK, IInv, assume_compiled, Goto, NoPanic, PanicPcs
<1> QED
  BY <1>1, <1>2, <1>3, <1>4, <1>5, <1>6, <1>7, <1>8, ZenonT(30) DEF IInv, EntryInv

-----------------------------------------------------------------------------
(* The inductive invariant *)

\* The invariant holds of the empty table.
LEMMA InitIInv == Init => IInv
<1> SUFFICES ASSUME Init PROVE IInv
  BY Zenon
<1>0. required_buckets_for_len(0) = 0
  BY Zenon DEF required_buckets_for_len
<1>1. TypeOK
  BY PcsFacts, CodeMapAssumption, SMTT(60) DEF Init, TypeOK, States, Payloads
<1>2. AllocInv
  BY <1>0, CodeMapAssumption DEF Init, AllocInv, SlotsIn, Buckets
<1>3. BuildInv
  BY Zenon DEF Init, BuildInv, InitProgress, InitStored, SpansDisjoint, SpansUnreached,
         TailUninit, BuildPcs
<1>4. ReachInv
  BY PcsFacts, Zenon DEF Init, ReachInv, CallPcs, FmtPcs
<1>5. EntryInv
  BY PcsFacts, Zenon DEF Init, EntryInv, OneCompiler, Owns, PayloadInv, OwnerInv, ReaderInv
<1>6. NoPanic
  BY Zenon DEF Init, NoPanic, PanicPcs
<1> QED BY <1>1, <1>2, <1>3, <1>4, <1>5, <1>6, Zenon DEF IInv

\* Every step of every thread preserves it.
LEMMA NextIInv == IInv /\ [Next]_vars => IInv'
<1> SUFFICES ASSUME IInv, [Next]_vars PROVE IInv'
  BY Zenon
<1>1. CASE UNCHANGED vars
  <2>0. /\ UNCHANGED <<buckets, len_funcs, alloc_lock, state, data, pc, span, cur>>
        /\ UNCHANGED <<view, executing, reach, know, lenMsg, stateMsg, lockMsg>>
    BY <1>1, Zenon DEF vars, tableVars, entryVars, threadVars, orderVars
  <2>1. TypeOK'
    BY <2>0, Zenon DEF IInv, TypeOK
  <2>2. AllocInv'
    BY <2>0, Zenon DEF IInv, AllocInv, SlotsIn
  <2>3. BuildInv'
    BY <2>0, ZenonT(60) DEF IInv, BuildInv, InitProgress, InitStored, SpansDisjoint,
                SpansUnreached, TailUninit, SlotsIn
  <2>4. ReachInv'
    BY <2>0, Zenon DEF IInv, ReachInv, SlotsIn
  <2>5. EntryInv'
    BY <2>0, ZenonT(60) DEF IInv, EntryInv, OneCompiler, Owns, PayloadInv, OwnerInv, ReaderInv
  <2>6. NoPanic'
    BY <2>0, Zenon DEF IInv, NoPanic
  <2> QED BY <2>1, <2>2, <2>3, <2>4, <2>5, <2>6, Zenon DEF IInv
<1>2. ASSUME NEW t \in Threads, Resolve(t) PROVE IInv'
  BY <1>2, Step_compile, Step_compare_exchange, Step_take_uncompiled, Step_translate,
     Step_set_payload, Step_store_state, Step_assume_compiled, Zenon
  DEF Resolve
<1>3. ASSUME NEW t \in Threads, Build(t) PROVE IInv'
  <2>1. ASSUME NEW n \in 0 .. MaxModuleFuncs,
               alloc_funcs(t, n) \/ alloc_funcs_overflow(t, n)
        PROVE  IInv'
    BY <2>1, n \in Nat, Step_alloc_funcs, Step_alloc_funcs_overflow, CodeMapAssumption, Zenon
  <2>2. ASSUME NEW u \in Threads, share_modules(t, u) PROVE IInv'
    BY <2>2, Step_share_modules, Zenon
  <2> QED BY <1>3, <2>1, <2>2, Step_alloc_funcs_bucket, Step_alloc_funcs_publish,
             Step_translate_func, Step_init_store, Step_parse_error, Step_finish_module, Zenon
          DEF Build
<1>4. ASSUME NEW t \in Threads, Execute(t) PROVE IInv'
  <2>1. ASSUME NEW f \in Funcs, get_or_compile(t, f) PROVE IInv'
    BY <2>1, Step_get_or_compile, Zenon
  <2> QED BY <1>4, <2>1, Step_execute, Step_call_host, Step_refresh, Step_host_error,
             Step_leave, Zenon
          DEF Execute
<1>5. ASSUME NEW t \in Threads, Format(t) PROVE IInv'
  BY <1>5, Step_fmt, Step_fmt_entry, Step_fmt_payload, Step_fmt_end, Zenon DEF Format
<1> QED BY <1>1, <1>2, <1>3, <1>4, <1>5, Zenon DEF Next

\* The inductive invariant holds in every reachable state of the code map, for
\* every number of threads, functions and buckets and every compilation mode.
THEOREM Invariant == Spec => []IInv
BY InitIInv, NextIInv, PTL DEF Spec

-----------------------------------------------------------------------------
(* The safety properties *)

\* Every variable keeps its type; in particular the table never outgrows MAX_FUNCS.
THEOREM Typed == Spec => []TypeOK
<1>1. IInv => TypeOK
  BY Zenon DEF IInv
<1> QED BY <1>1, Invariant, PTL

\* The buckets of the published length are always present: `Funcs::get_within`
\* never reaches its unreachable_unchecked.
THEOREM Published == Spec => []BucketsPublished
<1>1. IInv => BucketsPublished
  <2> SUFFICES ASSUME IInv, NEW n \in 0 .. required_buckets_for_len(len_funcs) - 1
               PROVE  n \in buckets
    BY Zenon DEF BucketsPublished
  <2>1. len_funcs \in 0 .. MaxFuncs /\ required_buckets_for_len(len_funcs) \in Nat
    BY BucketFacts, Zenon DEF IInv, TypeOK
  <2>2. n \in Buckets /\ n < required_buckets_for_len(len_funcs)
    BY <2>1, BucketFacts
  <2> QED BY <2>2, Zenon DEF IInv, AllocInv
<1> QED BY <1>1, Invariant, PTL

\* Whoever reads or moves out a payload finds the active field of the union.
THEOREM Active == Spec => []ActiveField
<1>1. IInv => ActiveField
  <2> SUFFICES ASSUME IInv, NEW t \in Threads
               PROVE  /\ pc[t] = "assume_compiled" => data[cur[t]] = "compiled"
                      /\ pc[t] = "take_uncompiled" => data[cur[t]] = "uncompiled"
    BY Zenon DEF ActiveField
  <2>1. pc[t] = "take_uncompiled" => data[cur[t]] = "uncompiled"
    BY Zenon DEF IInv, EntryInv, OwnerInv
  <2>2. pc[t] = "assume_compiled" => cur[t] \in Funcs /\ state[cur[t]] = "COMPILED"
    BY Zenon DEF IInv, EntryInv, TypeOK, ReachInv, CallPcs, ReaderInv
  <2> QED BY <2>1, <2>2, Zenon DEF IInv, EntryInv, PayloadInv
<1> QED BY <1>1, Invariant, PTL

\* A function is compiled by one thread at a time, and COMPILING by somebody.
THEOREM SingleCompiler == Spec => []OneCompiler
<1>1. IInv => OneCompiler
  BY Zenon DEF IInv, EntryInv
<1> QED BY <1>1, Invariant, PTL

\* Every function a store reaches resolves through the executor's view, and no
\* assertion of the code map fails.
THEOREM Resolves == Spec => []CallsResolve
<1>1. IInv => CallsResolve
  <2> SUFFICES ASSUME IInv, NEW t \in Threads
               PROVE  /\ pc[t] \notin {"missing_entry_panic", "double_init_panic", "ub"}
                      /\ pc[t] = "wasm" => reach[t] \subseteq 0 .. view[t] - 1
                      /\ \A f \in reach[t] : state[f] # "UNINIT"
    BY Zenon DEF CallsResolve
  <2>1. pc[t] \notin {"missing_entry_panic", "double_init_panic", "ub"}
    BY Zenon DEF IInv, NoPanic, PanicPcs
  <2>2. /\ \A f \in reach[t] : state[f] # "UNINIT"
        /\ pc[t] = "wasm" => \A f \in reach[t] : f < view[t]
    BY Zenon DEF IInv, ReachInv
  <2>3. view[t] \in Nat /\ \A f \in reach[t] : f \in Nat
    BY CodeMapAssumption DEF IInv, TypeOK, Funcs
  <2> QED BY <2>1, <2>2, <2>3
<1> QED BY <1>1, Invariant, PTL

\* The code map has no data race, as long as nobody prints an engine that compiles
\* lazily: every access to a payload or a bucket is ordered after its last write,
\* and a writer has the payload to itself.
THEOREM NoRaces ==
    ASSUME DebugThreads = {} \/ CompilationMode = "Eager"
    PROVE  Spec => []RaceFree
<1>1. IInv => RaceFree
  <2> SUFFICES ASSUME IInv, NEW t \in Threads
               PROVE  /\ pc[t] \in WriterPcs =>
                           \A u \in Threads \ {t} :
                             pc[u] \in WriterPcs \cup ReaderPcs => cur[u] # cur[t]
                      /\ pc[t] \in WriterPcs \cup ReaderPcs => Data(cur[t]) \in know[t]
                      /\ pc[t] = "wasm" =>
                           \A f \in reach[t] : f < view[t] => Slot(bucket_of(f)) \in know[t]
                      /\ pc[t] = "fmt" /\ FmtMore(t) => Slot(bucket_of(cur[t])) \in know[t]
    BY Zenon DEF RaceFree
  <2>1. \A u \in Threads : pc[u] = "fmt_payload" =>
          CompilationMode = "Eager" /\ cur[u] \in Funcs
    BY Zenon DEF IInv, ReachInv, FmtPcs
  <2>2. \A u \in Threads : pc[u] \in ReaderPcs => state[cur[u]] # "COMPILING"
    <3>1. ASSUME NEW u \in Threads, pc[u] = "fmt_payload" PROVE state[cur[u]] # "COMPILING"
      BY <2>1, <3>1, Zenon DEF IInv, EntryInv, PayloadInv
    <3>2. ASSUME NEW u \in Threads, pc[u] = "assume_compiled"
          PROVE  state[cur[u]] # "COMPILING"
      BY <3>2, Zenon DEF IInv, EntryInv, ReaderInv
    <3> QED BY <3>1, <3>2, Zenon DEF ReaderPcs
  <2>3. pc[t] \in WriterPcs =>
          \A u \in Threads \ {t} : pc[u] \in WriterPcs \cup ReaderPcs => cur[u] # cur[t]
    <3> SUFFICES ASSUME pc[t] \in WriterPcs, NEW u \in Threads \ {t},
                        pc[u] \in WriterPcs \cup ReaderPcs
                 PROVE  cur[u] # cur[t]
      BY Zenon
    <3>1. pc[t] \in OwnerPcs /\ (pc[u] \in WriterPcs => pc[u] \in OwnerPcs)
      BY PcsFacts, Zenon DEF WriterPcs
    <3>2. /\ state[cur[t]] = "COMPILING"
          /\ pc[u] \in OwnerPcs => cur[u] # cur[t]
      BY <3>1, OwnerFacts, Zenon
    <3> QED BY <2>2, <3>1, <3>2, Zenon
  <2>4. pc[t] \in WriterPcs \cup ReaderPcs => Data(cur[t]) \in know[t]
    <3>1. pc[t] \in WriterPcs => pc[t] \in OwnerPcs
      BY PcsFacts, Zenon DEF WriterPcs
    <3>2. pc[t] \in OwnerPcs \cup ReaderPcs => Data(cur[t]) \in know[t]
      BY <2>1, Zenon DEF IInv, EntryInv, OwnerInv, ReaderInv, ReaderPcs
    <3> QED BY <3>1, <3>2, Zenon
  <2>5. \A f \in reach[t] : Slot(bucket_of(f)) \in know[t]
    BY Zenon DEF IInv, ReachInv
  <2>6. pc[t] = "fmt" /\ FmtMore(t) => Slot(bucket_of(cur[t])) \in know[t]
    BY BucketFacts, Zenon DEF IInv, ReachInv, FmtPcs, SlotsIn, FmtMore
  <2> QED BY <2>3, <2>4, <2>5, <2>6, Zenon
<1> QED BY <1>1, Invariant, PTL

-----------------------------------------------------------------------------
(* What a step may do to an entry *)

\* The moves of FuncEntry's state machine.
Move(from, to) ==
    \/ from = "UNINIT" /\ to \in {"UNCOMPILED", "COMPILED"}
    \/ from = "UNCOMPILED" /\ to = "COMPILING"
    \/ from = "COMPILING" /\ to \in {"COMPILED", "UNCOMPILED", "FAILED_TO_COMPILE"}

\* A step grows the table, writes the payload of an entry that announces none, or
\* moves the state of one published entry.
EntryStep ==
    \/ UNCHANGED <<state, data>> /\ len_funcs' \in len_funcs .. MaxFuncs
    \/ /\ UNCHANGED <<state, len_funcs>>
       /\ \E f \in Funcs, p \in Payloads :
            state[f] \in {"UNINIT", "COMPILING"} /\ data' = [data EXCEPT ![f] = p]
    \/ /\ UNCHANGED <<data, len_funcs>>
       /\ \E f \in Funcs, s \in States :
            f < len_funcs /\ Move(state[f], s) /\ state' = [state EXCEPT ![f] = s]

\* Every step of every thread is such a step.
LEMMA StepsMoveEntries ==
    ASSUME IInv, Next
    PROVE  EntryStep
<1> SUFFICES ASSUME NEW t \in Threads, Resolve(t) \/ Build(t) \/ Execute(t) \/ Format(t)
             PROVE  EntryStep
  BY Zenon DEF Next
<1>0. len_funcs \in 0 .. MaxFuncs /\ MaxFuncs \in Nat
  BY CodeMapAssumption, Zenon DEF IInv, TypeOK
<1>1. CASE UNCHANGED <<state, data, len_funcs>>
  BY <1>0, <1>1, SMTT(60) DEF EntryStep
<1>2. CASE alloc_funcs_publish(t)
  <2>1. span[t].end >= len_funcs
    BY <1>2, Zenon DEF alloc_funcs_publish, IInv, AllocInv
  <2>2. span[t].end \in 0 .. MaxFuncs
    BY Zenon DEF IInv, TypeOK
  <2>3. len_funcs' = span[t].end /\ UNCHANGED <<state, data>>
    BY <1>2, Zenon DEF alloc_funcs_publish, entryVars
  <2> QED BY <1>0, <2>1, <2>2, <2>3, SMTT(30) DEF EntryStep
<1>3. CASE translate_func(t) /\ ~ UNCHANGED data
  <2>1. cur[t] \in Funcs /\ state[cur[t]] = "UNINIT"
    BY <1>3, BuilderFacts, Zenon DEF translate_func
  <2>2. \E p \in Payloads : data' = [data EXCEPT ![cur[t]] = p]
    BY <1>3, Zenon DEF translate_func, Payloads
  <2> QED BY <1>3, <2>1, <2>2, ZenonT(30) DEF EntryStep, translate_func, tableVars
<1>4. CASE init_store(t)
  <2>1. cur[t] \in Funcs /\ state[cur[t]] = "UNINIT" /\ cur[t] < len_funcs
    BY <1>4, BuilderFacts, Zenon DEF init_store
  <2>2. \E s \in {"UNCOMPILED", "COMPILED"} : state' = [state EXCEPT ![cur[t]] = s]
    BY <1>4, Zenon DEF init_store
  <2> QED BY <1>4, <2>1, <2>2, ZenonT(30) DEF EntryStep, Move, States, init_store, tableVars
<1>5. CASE compare_exchange(t) /\ ~ UNCHANGED state
  <2>1. cur[t] \in Funcs /\ cur[t] < len_funcs
    BY <1>5, Zenon DEF compare_exchange, IInv, TypeOK, ReachInv, CallPcs
  <2>2. state[cur[t]] = "UNCOMPILED" /\ state' = [state EXCEPT ![cur[t]] = "COMPILING"]
    BY <1>5, Zenon DEF compare_exchange, WinsRace
  <2> QED BY <1>5, <2>1, <2>2, Zenon DEF EntryStep, Move, States, compare_exchange, tableVars
<1>6. CASE take_uncompiled(t) \/ set_payload(t)
  <2>1. cur[t] \in Funcs /\ state[cur[t]] = "COMPILING"
    BY <1>6, OwnerFacts, PcsFacts, Zenon DEF take_uncompiled, set_payload
  <2>2. \E p \in Payloads : data' = [data EXCEPT ![cur[t]] = p]
    BY <1>6, Zenon DEF take_uncompiled, set_payload, Payloads
  <2> QED BY <1>6, <2>1, <2>2, Zenon DEF EntryStep, take_uncompiled, set_payload, tableVars
<1>7. CASE store_state(t)
  <2>1. cur[t] \in Funcs /\ state[cur[t]] = "COMPILING" /\ cur[t] < len_funcs
    BY <1>7, OwnerFacts, PcsFacts, Zenon DEF store_state
  <2>2. AttemptState(pc[t]) \in {"COMPILED", "UNCOMPILED", "FAILED_TO_COMPILE"}
    BY <1>7, Zenon DEF store_state, AttemptState
  <2> QED BY <1>7, <2>1, <2>2, Zenon DEF EntryStep, Move, States, store_state, tableVars
<1>8. \/ UNCHANGED <<state, data, len_funcs>>
      \/ alloc_funcs_publish(t) \/ (translate_func(t) /\ ~ UNCHANGED data)
      \/ init_store(t) \/ (compare_exchange(t) /\ ~ UNCHANGED state)
      \/ take_uncompiled(t) \/ set_payload(t) \/ store_state(t)
  <2>1. CASE Resolve(t)
    BY <2>1, Zenon DEF Resolve, compile, compare_exchange, translate, assume_compiled,
                tableVars, entryVars
  <2>2. CASE Build(t)
    <3>1. ASSUME NEW n \in 0 .. MaxModuleFuncs,
                 alloc_funcs(t, n) \/ alloc_funcs_overflow(t, n)
          PROVE  UNCHANGED <<state, data, len_funcs>>
      BY <3>1, Zenon DEF alloc_funcs, alloc_funcs_overflow, tableVars, entryVars
    <3>2. ASSUME NEW u \in Threads, share_modules(t, u)
          PROVE  UNCHANGED <<state, data, len_funcs>>
      BY <3>2, Zenon DEF share_modules, tableVars, entryVars
    <3>3. CASE alloc_funcs_bucket(t) \/ parse_error(t) \/ finish_module(t)
      BY <3>3, Zenon DEF alloc_funcs_bucket, parse_error, finish_module, tableVars, entryVars
    <3>4. translate_func(t) => \/ UNCHANGED <<state, data, len_funcs>>
                               \/ translate_func(t) /\ ~ UNCHANGED data
      BY Zenon DEF translate_func, tableVars
    <3> QED BY <2>2, <3>1, <3>2, <3>3, <3>4, Zenon DEF Build
  <2>3. CASE Execute(t)
    BY <2>3, Zenon DEF Execute, execute, call_host, refresh, host_error, leave,
                get_or_compile, tableVars, entryVars
  <2>4. CASE Format(t)
    BY <2>4, Zenon DEF Format, fmt, fmt_entry, fmt_payload, fmt_end, tableVars, entryVars
  <2> QED BY <2>1, <2>2, <2>3, <2>4, Zenon
<1> QED BY <1>1, <1>2, <1>3, <1>4, <1>5, <1>6, <1>7, <1>8, Zenon

\* The decision on a function is final: compiled code is immutable, a failure is
\* never retried and no entry becomes uninitialized again.
THEOREM Decided == Spec => Final
<1> DEFINE Kept == \A f \in Funcs :
              /\ state[f] = "COMPILED" => state'[f] = "COMPILED" /\ data'[f] = data[f]
              /\ state[f] = "FAILED_TO_COMPILE" => state'[f] = "FAILED_TO_COMPILE"
              /\ state[f] # "UNINIT" => state'[f] # "UNINIT"
<1>1. IInv /\ Next => Kept
  <2> SUFFICES ASSUME IInv, Next PROVE Kept
    BY Zenon
  <2>1. EntryStep
    BY StepsMoveEntries, Zenon
  <2>2. state \in [Funcs -> States] /\ data \in [Funcs -> Payloads]
    BY Zenon DEF IInv, TypeOK
  <2> QED BY <2>1, <2>2, Zenon DEF EntryStep, Move
<1>2. IInv /\ [Next]_vars => [Kept]_vars
  BY <1>1, Zenon
<1>3. Final <=> [][Kept]_vars
  BY Zenon DEF Final
<1> HIDE DEF Kept
<1> QED BY <1>2, <1>3, Invariant, PTL DEF Spec

\* The code map implements the abstract table: it grows, an entry is defined once,
\* and its source becomes code or is found broken once.
THEOREM Refines == Spec => ImplementsFuncTable
<1>1. Init => Table!Init
  BY Zenon DEF Init, Table!Init, Table!Entries, Funcs, EntryStatus
<1>2. IInv /\ [Next]_vars => [Table!Next]_<<len_funcs, EntryStatus>>
  <2> SUFFICES ASSUME IInv, [Next]_vars
               PROVE  Table!Next \/ UNCHANGED <<len_funcs, EntryStatus>>
    BY Zenon
  <2>1. CASE UNCHANGED <<state, len_funcs>>
    BY <2>1, Zenon DEF EntryStatus
  <2>2. CASE UNCHANGED state /\ len_funcs' \in len_funcs .. MaxFuncs
    BY <2>2, Zenon DEF EntryStatus, Table!Next, Table!Grow
  <2>3. ASSUME NEW f \in Funcs, NEW s \in States, UNCHANGED len_funcs,
               f < len_funcs, Move(state[f], s), state' = [state EXCEPT ![f] = s]
        PROVE  Table!Next \/ UNCHANGED <<len_funcs, EntryStatus>>
    <3> DEFINE Status(q) == CASE q = "UNINIT"            -> "absent"
                              [] q = "FAILED_TO_COMPILE" -> "broken"
                              [] q = "COMPILED"          -> "code"
                              [] OTHER                   -> "source"
    <3>1. /\ EntryStatus = [g \in Funcs |-> Status(state[g])]
          /\ EntryStatus' = [g \in Funcs |-> Status(state'[g])]
      BY Zenon DEF EntryStatus
    <3>2. EntryStatus' = [EntryStatus EXCEPT ![f] = Status(s)]
      BY <2>3, <3>1, Zenon DEF IInv, TypeOK
    <3>3. EntryStatus[f] = Status(state[f]) /\ f \in Table!Entries
      BY <3>1, Zenon DEF Table!Entries, Funcs
    <3>s. \A q : Status(q) \in Table!Statuses
      BY Zenon DEF Table!Statuses
    <3>4. CASE state[f] = "UNINIT"
      <4>1. Status(state[f]) = "absent" /\ Status(s) \in {"source", "code"}
        BY <2>3, <3>4, Zenon DEF Move
      <4>2. Table!Define(f, Status(s))
        BY <2>3, <3>2, <3>3, <4>1, Zenon DEF Table!Define
      <4> HIDE DEF Status
      <4> QED BY <3>3, <3>s, <4>2, Zenon DEF Table!Next
    <3>5. CASE state[f] = "UNCOMPILED" \/ (s = "UNCOMPILED" /\ state[f] = "COMPILING")
      <4>1. Status(state[f]) = "source" /\ Status(s) = "source"
        BY <2>3, <3>5, Zenon DEF Move
      <4>2. EntryStatus' = EntryStatus
        BY <3>1, <3>2, <3>3, <4>1, Zenon
      <4> QED BY <2>3, <4>2, Zenon
    <3>6. CASE state[f] = "COMPILING" /\ s # "UNCOMPILED"
      <4>1. Status(state[f]) = "source" /\ Status(s) \in {"code", "broken"}
        BY <2>3, <3>6, Zenon DEF Move
      <4>2. Table!Decide(f, Status(s))
        BY <2>3, <3>2, <3>3, <4>1, Zenon DEF Table!Decide
      <4> HIDE DEF Status
      <4> QED BY <3>3, <3>s, <4>2, Zenon DEF Table!Next
    <3> HIDE DEF Status
    <3>7. state[f] \in {"UNINIT", "UNCOMPILED", "COMPILING"}
      BY <2>3, Zenon DEF Move
    <3> QED BY <3>4, <3>5, <3>6, <3>7, Zenon
  <2>4. CASE Next
    <3>1. EntryStep
      BY <2>4, StepsMoveEntries, Zenon
    <3> QED BY <2>1, <2>2, <2>3, <3>1, Zenon DEF EntryStep
  <2>5. CASE UNCHANGED vars
    BY <2>1, <2>5, Zenon DEF vars, tableVars, entryVars
  <2> QED BY <2>4, <2>5, Zenon
<1> QED BY <1>1, <1>2, Invariant, PTL DEF Spec, ImplementsFuncTable, Table!Spec

=============================================================================
