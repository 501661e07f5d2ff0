------------------------------ MODULE CodeMap ------------------------------
(***************************************************************************)
(* The engine's code map: an append-only function table that many threads  *)
(* read without locks (`Funcs`, `CodeView`), and the state machine that     *)
(* compiles an entry lazily, at most once, whichever threads ask for it     *)
(* (`FuncEntry`).  A thread builds modules (parse, allocate, initialize),   *)
(* receives modules from other threads, executes Wasm through a snapshot    *)
(* of the table, calls host functions, and may print the engine.            *)
(*                                                                         *)
(* Atomics are modelled with their orderings: a non-atomic location is      *)
(* known to a thread once the thread wrote it or acquired a release made    *)
(* by a thread that knew it, and a write makes it unknown to all others.    *)
(***************************************************************************)
EXTENDS FuncBuckets

CONSTANTS
    Threads,          \* threads that share the engine
    NoThread,         \* "nobody": the alloc lock is free
    MaxFuncs,         \* MAX_FUNCS, 100_000_000 in the engine
    MaxModuleFuncs,   \* bound on the functions one module defines
    CompilationMode,  \* Config::get_compilation_mode
    FuelMetering,     \* Config::get_consume_fuel
    BodyKind,         \* what the translator makes of each function body
    DebugThreads      \* threads that may format the engine with {:?}

Funcs == 0 .. MaxFuncs - 1
BodyKinds == {"valid", "invalid", "untranslatable"}

ASSUME CodeMapAssumption ==
    /\ MaxFuncs \in Nat /\ MaxModuleFuncs \in Nat
    /\ NoThread \notin Threads
    /\ CompilationMode \in {"Eager", "LazyTranslation", "Lazy"}
    /\ FuelMetering \in BOOLEAN
    /\ BodyKind \in [Funcs -> BodyKinds]
    /\ DebugThreads \subseteq Threads

VARIABLES
    buckets,    \* Funcs::buckets: the slots that are Some
    len_funcs,  \* Funcs::len_funcs
    alloc_lock, \* CodeMap::alloc_lock: its holder
    state,      \* FuncEntry::state of every entry
    data,       \* FuncEntry::data: the active union field of every entry
    pc,         \* what each thread is about to do
    span,       \* EngineFuncSpan of the module a thread is building
    cur,        \* the function a thread is initializing, resolving or printing
    view,       \* CodeView::len_funcs of the thread's executor
    executing,  \* is a Wasm execution of the thread suspended in a host call?
    reach,      \* functions the thread's store can reach
    know,       \* happens-before: the locations whose last write a thread knows
    lenMsg,     \* what the last Release of len_funcs carries
    stateMsg,   \* what the last Release of an entry's state carries
    lockMsg     \* what the last unlock of alloc_lock carries

tableVars == <<buckets, len_funcs, alloc_lock>>
entryVars == <<state, data>>
threadVars == <<pc, span, cur, view, executing, reach>>
orderVars == <<know, lenMsg, stateMsg, lockMsg>>
vars == <<tableVars, entryVars, threadVars, orderVars>>

-----------------------------------------------------------------------------
(* mod state *)
States == {"UNINIT", "UNCOMPILED", "COMPILING", "FAILED_TO_COMPILE", "COMPILED"}

(* union FuncEntryData *)
Payloads == {"undefined", "uncompiled", "compiled"}

\* The non-atomic locations: the bucket slots and the entries' payloads.
Slot(n) == <<"slot", n>>
Data(f) == <<"data", f>>
Buckets == 0 .. required_buckets_for_len(MaxFuncs) - 1
Locs == {Slot(n) : n \in Buckets} \cup {Data(f) : f \in Funcs}

\* Thread t writes location l: nobody else is ordered after the write yet.
Write(t, l) ==
    /\ know' = [u \in Threads |-> IF u = t THEN know[u] \cup {l} ELSE know[u] \ {l}]
    /\ lenMsg' = lenMsg \ {l}
    /\ stateMsg' = [f \in Funcs |-> stateMsg[f] \ {l}]
    /\ lockMsg' = lockMsg \ {l}

\* What an Acquire load of an entry's state synchronizes with.
AcquiredState_relaxed(f) == {}
AcquiredState(f) == stateMsg[f]

\* Thread t acquires what the message msg carries.
Acquire(t, msg) == know' = [know EXCEPT ![t] = @ \cup msg]

\* Thread t moves on to p.
Goto(t, p) == pc' = [pc EXCEPT ![t] = p]

\* The locals of a finished call, parse or print, and of a finished execution,
\* are dead; they get their initial values back.
EndCall(t) == cur' = [cur EXCEPT ![t] = 0]
EndSpan(t) == EndCall(t) /\ span' = [span EXCEPT ![t] = [start |-> 0, end |-> 0]]
EndExecution(t) == view' = [view EXCEPT ![t] = 0]

-----------------------------------------------------------------------------
(* Module building: ModuleParser and CodeMap::alloc_funcs *)

\* start.checked_add(n).filter(|&end| end <= MAX_FUNCS)
FitsTable(n) == len_funcs + n <= MaxFuncs

\* alloc_funcs takes the writer lock and computes the span of the n functions.
alloc_funcs(t, n) ==
    /\ pc[t] = "host" /\ alloc_lock = NoThread
    /\ FitsTable(n)
    /\ alloc_lock' = t
    /\ span' = [span EXCEPT ![t] = [start |-> len_funcs, end |-> len_funcs + n]]
    /\ cur' = [cur EXCEPT ![t] = required_buckets_for_len(len_funcs)]
    /\ Acquire(t, lockMsg)
    /\ Goto(t, "alloc")
    /\ UNCHANGED <<buckets, len_funcs, entryVars, view, executing, reach,
                   lenMsg, stateMsg, lockMsg>>

\* Too many functions: unwrap panics and unwinding drops the guard; the embedder
\* carries on with the engine.
alloc_funcs_overflow(t, n) ==
    /\ pc[t] = "host" /\ alloc_lock = NoThread
    /\ ~ FitsTable(n)
    /\ Acquire(t, lockMsg)
    /\ UNCHANGED <<tableVars, entryVars, pc, span, cur, view, executing, reach,
                   lenMsg, stateMsg, lockMsg>>

\* One turn of the loop over current_buckets..needed.
alloc_funcs_bucket(t) ==
    /\ pc[t] = "alloc"
    /\ cur[t] < required_buckets_for_len(span[t].end)
    /\ buckets' = buckets \cup {cur[t]}
    /\ cur' = [cur EXCEPT ![t] = @ + 1]
    /\ Write(t, Slot(cur[t]))
    /\ UNCHANGED <<len_funcs, alloc_lock, entryVars, pc, span, view, executing, reach>>

\* Are the buckets for the new length written?
BucketsWritten_early(t) == TRUE
BucketsWritten(t) == cur[t] >= required_buckets_for_len(span[t].end)

\* The Release store of len_funcs, and the guard's drop.
alloc_funcs_publish(t) ==
    /\ pc[t] = "alloc"
    /\ BucketsWritten(t)
    /\ len_funcs' = span[t].end
    /\ alloc_lock' = NoThread
    /\ lenMsg' = know[t] /\ lockMsg' = know[t]
    /\ cur' = [cur EXCEPT ![t] = span[t].start]
    /\ Goto(t, "init")
    /\ UNCHANGED <<buckets, entryVars, span, view, executing, reach, know, stateMsg>>

\* Does the parser itself reject the body of f?  Eager translation needs a body
\* that validates and translates, lazy translation one that validates, and lazy
\* compilation looks at neither.
Rejects(f) ==
    \/ CompilationMode = "Eager" /\ BodyKind[f] # "valid"
    \/ CompilationMode = "LazyTranslation" /\ BodyKind[f] = "invalid"

\* translate_func of an accepted body: init_compiled or init_uncompiled asserts
\* that the entry is not initialized and writes the payload.
translate_func(t) ==
    LET f == cur[t] IN
    /\ pc[t] = "init" /\ f < span[t].end
    /\ ~ Rejects(f)
    /\ IF state[f] # "UNINIT"
       THEN /\ Goto(t, "double_init_panic")
            /\ UNCHANGED <<data, orderVars>>
       ELSE /\ data' = [data EXCEPT ![f] = IF CompilationMode = "Eager"
                                           THEN "compiled" ELSE "uncompiled"]
            /\ Write(t, Data(f))
            /\ Goto(t, "init_store")
    /\ UNCHANGED <<tableVars, state, span, cur, view, executing, reach>>

\* The Release store of the entry's state that ends init_(un)compiled.
init_store(t) ==
    LET f == cur[t] IN
    /\ pc[t] = "init_store"
    /\ state' = [state EXCEPT ![f] = IF CompilationMode = "Eager"
                                     THEN "COMPILED" ELSE "UNCOMPILED"]
    /\ stateMsg' = [stateMsg EXCEPT ![f] = know[t]]
    /\ cur' = [cur EXCEPT ![t] = @ + 1]
    /\ Goto(t, "init")
    /\ UNCHANGED <<tableVars, data, span, view, executing, reach, know, lenMsg, lockMsg>>

\* The module fails to parse: its functions stay in the table, in whatever state
\* they are, and nothing refers to them.
parse_error(t) ==
    /\ pc[t] = "init"
    /\ Goto(t, "host") /\ EndSpan(t)
    /\ UNCHANGED <<tableVars, entryVars, view, executing, reach, orderVars>>

\* The parsed module is instantiated in the thread's store.
finish_module(t) ==
    /\ pc[t] = "init" /\ cur[t] = span[t].end
    /\ reach' = [reach EXCEPT ![t] = @ \cup (span[t].start .. span[t].end - 1)]
    /\ Goto(t, "host") /\ EndSpan(t)
    /\ UNCHANGED <<tableVars, entryVars, view, executing, orderVars>>

\* Thread u receives the modules of t (they are Arc handles) and instantiates
\* them; the hand-over synchronizes the two threads.
share_modules(t, u) ==
    /\ pc[t] = "host" /\ pc[u] = "host" /\ t # u
    /\ reach' = [reach EXCEPT ![u] = @ \cup reach[t]]
    /\ Acquire(u, know[t])
    /\ UNCHANGED <<tableVars, entryVars, pc, span, cur, view, executing,
                   lenMsg, stateMsg, lockMsg>>

-----------------------------------------------------------------------------
(* Execution: EngineExecutor, CodeView and host calls *)

\* EngineExecutor::new takes a fresh view of the code map.
execute(t) ==
    /\ pc[t] = "host" /\ ~ executing[t]
    /\ view' = [view EXCEPT ![t] = len_funcs]
    /\ Acquire(t, lenMsg)
    /\ Goto(t, "wasm")
    /\ UNCHANGED <<tableVars, entryVars, span, cur, executing, reach,
                   lenMsg, stateMsg, lockMsg>>

\* Wasm calls a host function.
call_host(t) ==
    /\ pc[t] = "wasm"
    /\ executing' = [executing EXCEPT ![t] = TRUE]
    /\ Goto(t, "host")
    /\ UNCHANGED <<tableVars, entryVars, span, cur, view, reach, orderVars>>

\* CodeView::refresh
RefreshedLen_stale(t) == view[t]
RefreshedLen(t) == len_funcs

\* The host function returns and the handler refreshes the view.
refresh(t) ==
    /\ pc[t] = "host" /\ executing[t]
    /\ view' = [view EXCEPT ![t] = RefreshedLen(t)]
    /\ Acquire(t, lenMsg)
    /\ executing' = [executing EXCEPT ![t] = FALSE]
    /\ Goto(t, "wasm")
    /\ UNCHANGED <<tableVars, entryVars, span, cur, reach, lenMsg, stateMsg, lockMsg>>

\* The execution ends: the root function returns or traps.
leave(t) ==
    /\ pc[t] = "wasm"
    /\ Goto(t, "host") /\ EndExecution(t)
    /\ UNCHANGED <<tableVars, entryVars, span, cur, executing, reach, orderVars>>

\* The host function fails: the suspended execution is abandoned.
host_error(t) ==
    /\ pc[t] = "host" /\ executing[t]
    /\ executing' = [executing EXCEPT ![t] = FALSE]
    /\ EndExecution(t)
    /\ UNCHANGED <<tableVars, entryVars, pc, span, cur, reach, orderVars>>

\* A call resolves f through the view (CodeView::entry, Funcs::get_within) and
\* looks at its state once (FuncEntry::get_or_compile).
get_or_compile(t, f) ==
    /\ pc[t] = "wasm" /\ f \in reach[t]
    /\ cur' = [cur EXCEPT ![t] = f]
    /\ IF f >= view[t] THEN Goto(t, "missing_entry_panic") /\ UNCHANGED know
       ELSE IF bucket_of(f) \notin buckets THEN Goto(t, "ub") /\ UNCHANGED know
       ELSE /\ Acquire(t, AcquiredState(f))
            /\ Goto(t, IF state[f] = "COMPILED" THEN "assume_compiled" ELSE "compile")
    /\ UNCHANGED <<tableVars, entryVars, span, view, executing, reach,
                   lenMsg, stateMsg, lockMsg>>

-----------------------------------------------------------------------------
(* FuncEntry::compile: the lazy compilation state machine *)

\* One Acquire load of the state, at the head of the loop.
compile(t) ==
    LET f == cur[t] IN
    /\ pc[t] = "compile"
    /\ Acquire(t, AcquiredState(f))
    /\ IF state[f] = "FAILED_TO_COMPILE"
       THEN Goto(t, "host") /\ EndCall(t) /\ EndExecution(t)
       ELSE /\ Goto(t, CASE state[f] = "COMPILED"   -> "assume_compiled"
                         [] state[f] = "COMPILING"  -> "compile"
                         [] state[f] = "UNCOMPILED" -> "compare_exchange"
                         [] OTHER                   -> "ub")
            /\ UNCHANGED <<cur, view>>
    /\ UNCHANGED <<tableVars, entryVars, span, executing, reach,
                   lenMsg, stateMsg, lockMsg>>

\* Does the compare_exchange succeed?
WinsRace_store(f) == TRUE
WinsRace_retry(f) == state[f] # "COMPILED"
WinsRace(f) == state[f] = "UNCOMPILED"

\* The AcqRel compare_exchange of UNCOMPILED with COMPILING; a thread that loses
\* re-observes the state.
compare_exchange(t) ==
    LET f == cur[t] IN
    /\ pc[t] = "compare_exchange"
    /\ Acquire(t, AcquiredState(f))
    /\ IF WinsRace(f)
       THEN /\ state' = [state EXCEPT ![f] = "COMPILING"]
            /\ stateMsg' = [stateMsg EXCEPT ![f] = @ \cup know[t]]
            /\ Goto(t, "take_uncompiled")
       ELSE /\ UNCHANGED <<state, stateMsg>>
            /\ Goto(t, "compile")
    /\ UNCHANGED <<tableVars, data, span, cur, view, executing, reach, lenMsg, lockMsg>>

\* The winner moves the uncompiled payload out of the entry.
take_uncompiled(t) ==
    LET f == cur[t] IN
    /\ pc[t] = "take_uncompiled"
    /\ data' = [data EXCEPT ![f] = "undefined"]
    /\ Write(t, Data(f))
    /\ Goto(t, "translate")
    /\ UNCHANGED <<tableVars, state, span, cur, view, executing, reach>>

\* UncompiledFuncEntry::compile charges fuel before it touches the payload, then
\* validates (under lazy compilation) and translates the body.
translate(t) ==
    LET f == cur[t] IN
    /\ pc[t] = "translate"
    /\ \/ FuelMetering /\ Goto(t, "set_uncompiled")
       \/ Goto(t, IF BodyKind[f] = "valid" THEN "set_compiled" ELSE "failed")
    /\ UNCHANGED <<tableVars, entryVars, span, cur, view, executing, reach, orderVars>>

\* set_compiled and set_uncompiled write the payload ...
set_payload(t) ==
    LET f == cur[t] IN
    /\ pc[t] \in {"set_compiled", "set_uncompiled"}
    /\ data' = [data EXCEPT ![f] = IF pc[t] = "set_compiled"
                                   THEN "compiled" ELSE "uncompiled"]
    /\ Write(t, Data(f))
    /\ Goto(t, IF pc[t] = "set_compiled" THEN "store_compiled" ELSE "store_uncompiled")
    /\ UNCHANGED <<tableVars, state, span, cur, view, executing, reach>>

\* The state that ends a compilation attempt at program point p.
AttemptState_forgets(p) == CASE p = "store_compiled"   -> "COMPILED"
                             [] p = "store_uncompiled" -> "UNCOMPILED"
                             [] p = "failed"           -> "COMPILING"
AttemptState_resets(p) == IF p = "store_compiled" THEN "COMPILED" ELSE "UNINIT"
AttemptState(p) == CASE p = "store_compiled"   -> "COMPILED"
                     [] p = "store_uncompiled" -> "UNCOMPILED"
                     [] p = "failed"           -> "FAILED_TO_COMPILE"

\* ... and publish it with a Release store; failure publishes no payload.  Out of
\* fuel and failure end the execution with an error, success goes on to the call.
store_state(t) ==
    LET f == cur[t] IN
    /\ pc[t] \in {"store_compiled", "store_uncompiled", "failed"}
    /\ state' = [state EXCEPT ![f] = AttemptState(pc[t])]
    /\ stateMsg' = [stateMsg EXCEPT ![f] = know[t]]
    /\ IF pc[t] = "store_compiled"
       THEN Goto(t, "assume_compiled") /\ UNCHANGED <<cur, view>>
       ELSE Goto(t, "host") /\ EndCall(t) /\ EndExecution(t)
    /\ UNCHANGED <<tableVars, data, span, executing, reach,
                   know, lenMsg, lockMsg>>

\* assume_compiled reads the compiled payload and the call enters the function.
assume_compiled(t) ==
    /\ pc[t] = "assume_compiled"
    /\ Goto(t, "wasm") /\ EndCall(t)
    /\ UNCHANGED <<tableVars, entryVars, span, view, executing, reach, orderVars>>

-----------------------------------------------------------------------------
(* Formatting the engine with {:?}: Buckets and FuncEntry's Debug *)

\* Buckets::new loads the length; the buckets it yields are printed in full.
fmt(t) ==
    /\ t \in DebugThreads /\ pc[t] = "host"
    /\ span' = [span EXCEPT ![t] = [start |-> 0, end |-> len_funcs]]
    /\ cur' = [cur EXCEPT ![t] = 0]
    /\ Acquire(t, lenMsg)
    /\ Goto(t, "fmt")
    /\ UNCHANGED <<tableVars, entryVars, view, executing, reach,
                   lenMsg, stateMsg, lockMsg>>

\* Is there an entry left to print?
FmtMore(t) == /\ cur[t] \in Funcs
              /\ bucket_of(cur[t]) < required_buckets_for_len(span[t].end)

\* Debug of an entry loads its state and reads the payload the state announces.
fmt_entry(t) ==
    LET f == cur[t] IN
    /\ pc[t] = "fmt" /\ FmtMore(t)
    /\ Acquire(t, AcquiredState(f))
    /\ IF state[f] \in {"UNCOMPILED", "COMPILED"}
       THEN Goto(t, "fmt_payload") /\ UNCHANGED cur
       ELSE cur' = [cur EXCEPT ![t] = @ + 1] /\ UNCHANGED pc
    /\ UNCHANGED <<tableVars, entryVars, span, view, executing, reach,
                   lenMsg, stateMsg, lockMsg>>

fmt_payload(t) ==
    /\ pc[t] = "fmt_payload"
    /\ cur' = [cur EXCEPT ![t] = @ + 1]
    /\ Goto(t, "fmt")
    /\ UNCHANGED <<tableVars, entryVars, span, view, executing, reach, orderVars>>

fmt_end(t) ==
    /\ pc[t] = "fmt" /\ ~ FmtMore(t)
    /\ Goto(t, "host") /\ EndSpan(t)
    /\ UNCHANGED <<tableVars, entryVars, view, executing, reach, orderVars>>

-----------------------------------------------------------------------------
Init ==
    /\ buckets = {} /\ len_funcs = 0 /\ alloc_lock = NoThread
    /\ state = [f \in Funcs |-> "UNINIT"]
    /\ data = [f \in Funcs |-> "undefined"]
    /\ pc = [t \in Threads |-> "host"]
    /\ span = [t \in Threads |-> [start |-> 0, end |-> 0]]
    /\ cur = [t \in Threads |-> 0]
    /\ view = [t \in Threads |-> 0]
    /\ executing = [t \in Threads |-> FALSE]
    /\ reach = [t \in Threads |-> {}]
    /\ know = [t \in Threads |-> {}]
    /\ lenMsg = {} /\ lockMsg = {}
    /\ stateMsg = [f \in Funcs |-> {}]

\* The steps of the lazy compilation of one call.
Resolve(t) ==
    \/ compile(t) \/ compare_exchange(t) \/ take_uncompiled(t) \/ translate(t)
    \/ set_payload(t) \/ store_state(t) \/ assume_compiled(t)

\* The steps of a module under construction.
Build(t) ==
    \/ \E n \in 0 .. MaxModuleFuncs : alloc_funcs(t, n) \/ alloc_funcs_overflow(t, n)
    \/ alloc_funcs_bucket(t) \/ alloc_funcs_publish(t)
    \/ translate_func(t) \/ init_store(t) \/ parse_error(t) \/ finish_module(t)
    \/ \E u \in Threads : share_modules(t, u)

\* The steps of an execution outside the compilation of a callee.
Execute(t) ==
    \/ execute(t) \/ call_host(t) \/ refresh(t) \/ host_error(t) \/ leave(t)
    \/ \E f \in Funcs : get_or_compile(t, f)

Format(t) == fmt(t) \/ fmt_entry(t) \/ fmt_payload(t) \/ fmt_end(t)

Next == \E t \in Threads : Resolve(t) \/ Build(t) \/ Execute(t) \/ Format(t)

Spec == Init /\ [][Next]_vars

\* A thread inside a compilation keeps running: nothing in `compile` blocks but
\* the spin on COMPILING.
FairSpec == Spec /\ \A t \in Threads : WF_vars(Resolve(t))

-----------------------------------------------------------------------------
(* Properties *)

\* Program points at which a thread is about to write the payload of cur[t],
\* and those at which it reads it.
OwnerPcs == {"take_uncompiled", "translate", "set_compiled", "set_uncompiled",
             "store_compiled", "store_uncompiled", "failed"}
WriterPcs == {"take_uncompiled", "set_compiled", "set_uncompiled"}
ReaderPcs == {"assume_compiled", "fmt_payload"}
PanicPcs == {"double_init_panic", "missing_entry_panic", "ub"}
Pcs == OwnerPcs \cup ReaderPcs \cup PanicPcs
       \cup {"host", "alloc", "init", "init_store", "wasm", "compile",
             "compare_exchange", "fmt"}

TypeOK ==
    /\ buckets \subseteq Buckets
    /\ len_funcs \in 0 .. MaxFuncs
    /\ alloc_lock \in Threads \cup {NoThread}
    /\ state \in [Funcs -> States]
    /\ data \in [Funcs -> Payloads]
    /\ pc \in [Threads -> Pcs]
    /\ span \in [Threads -> [start : 0 .. MaxFuncs, end : 0 .. MaxFuncs]]
    /\ cur \in [Threads -> Nat]
    /\ view \in [Threads -> 0 .. MaxFuncs]
    /\ executing \in [Threads -> BOOLEAN]
    /\ reach \in [Threads -> SUBSET Funcs]
    /\ know \in [Threads -> SUBSET Locs]
    /\ lenMsg \subseteq Locs /\ lockMsg \subseteq Locs
    /\ stateMsg \in [Funcs -> SUBSET Locs]

\* Funcs: "The first `required_buckets_for_len(len_funcs)` slots are `Some`".  No
\* reader of a published length, at any moment of any allocation, finds a bucket
\* missing (the unreachable_unchecked of get_within).
BucketsPublished ==
    \A n \in 0 .. required_buckets_for_len(len_funcs) - 1 : n \in buckets

\* The three facts that make FuncEntry and Funcs Sync: conflicting accesses to
\* one payload never overlap, an access to a payload is ordered after its last
\* write, and so is every read of a bucket slot through a view or by Buckets.
RaceFree ==
    \A t \in Threads :
        /\ pc[t] \in WriterPcs =>
             \A u \in Threads \ {t} :
                 pc[u] \in WriterPcs \cup ReaderPcs => cur[u] # cur[t]
        /\ pc[t] \in WriterPcs \cup ReaderPcs => Data(cur[t]) \in know[t]
        /\ pc[t] = "wasm" =>
             \A f \in reach[t] : f < view[t] => Slot(bucket_of(f)) \in know[t]
        /\ pc[t] = "fmt" /\ FmtMore(t) => Slot(bucket_of(cur[t])) \in know[t]

\* The union field a thread reads or moves out of an entry is the active one:
\* `assume_compiled` finds a compiled payload and `take_uncompiled` the
\* uncompiled one, however compilations, failures and retries interleave.
ActiveField ==
    \A t \in Threads :
        /\ pc[t] = "assume_compiled" => data[cur[t]] = "compiled"
        /\ pc[t] = "take_uncompiled" => data[cur[t]] = "uncompiled"

\* Thread t is between winning the race for f and storing the outcome.
Owns(t, f) == pc[t] \in OwnerPcs /\ cur[t] = f

\* COMPILING has exactly one owner, the thread that won the compare_exchange: no
\* two threads compile one function, and no entry is left COMPILING by nobody
\* (its waiters would spin for ever).
OneCompiler ==
    /\ \A f \in Funcs : state[f] = "COMPILING" <=> \E t \in Threads : Owns(t, f)
    /\ \A t, u \in Threads : \A f \in Funcs : Owns(t, f) /\ Owns(u, f) => t = u

\* Every function a store can reach resolves through the executor's view: the
\* view taken at the start of the execution, or refreshed after a host call that
\* may have built or received modules, is never too old, and every reachable
\* entry is initialized.
CallsResolve ==
    \A t \in Threads :
        /\ pc[t] \notin {"missing_entry_panic", "double_init_panic", "ub"}
        /\ pc[t] = "wasm" => reach[t] \subseteq 0 .. view[t] - 1
        /\ \A f \in reach[t] : state[f] # "UNINIT"

\* The decision on a function is final: a compiled payload is immutable from then
\* on, a failure is never retried, and an entry never becomes uninitialized.
Final == [][\A f \in Funcs :
              /\ state[f] = "COMPILED" =>
                   state'[f] = "COMPILED" /\ data'[f] = data[f]
              /\ state[f] = "FAILED_TO_COMPILE" => state'[f] = "FAILED_TO_COMPILE"
              /\ state[f] # "UNINIT" => state'[f] # "UNINIT"]_vars

\* Somebody who compiles a function always finishes.
CompilingEnds ==
    \A f \in Funcs : state[f] = "COMPILING" ~> state[f] # "COMPILING"

\* Without fuel metering every call resolves: it enters its callee or ends in an
\* error.  (With metering a call can lose the compare_exchange over and over to
\* callers that run out of fuel.)
CallsEnd ==
    \A t \in Threads : pc[t] = "compile" ~> pc[t] \in {"assume_compiled", "host"}

-----------------------------------------------------------------------------
(* The inductive invariant behind the safety properties *)

BuildPcs == {"alloc", "init", "init_store"}
CallPcs == OwnerPcs \cup {"compile", "compare_exchange", "assume_compiled"}
FmtPcs == {"fmt", "fmt_payload"}

\* The slots of a table of length len are among the locations locs.
SlotsIn(len, locs) ==
    \A n \in Buckets : n < required_buckets_for_len(len) => Slot(n) \in locs

\* The lock protects the tail of the table: its holder has written, and knows,
\* every bucket below cur, and whoever reads the length knows all it publishes.
AllocInv ==
    /\ \A t \in Threads : pc[t] = "alloc" <=> alloc_lock = t
    /\ \A n \in Buckets : n < required_buckets_for_len(len_funcs) => n \in buckets
    /\ SlotsIn(len_funcs, lenMsg)
    /\ alloc_lock = NoThread => SlotsIn(len_funcs, lockMsg)
    /\ \A t \in Threads : pc[t] = "alloc" =>
         /\ span[t].start = len_funcs /\ span[t].end >= len_funcs
         /\ cur[t] >= required_buckets_for_len(len_funcs)
         /\ \A n \in Buckets : n < cur[t] => n \in buckets /\ Slot(n) \in know[t]

\* A module's functions are initialized in order, from start up to cur, in
\* buckets its thread knows.
InitProgress ==
    \A t \in Threads : pc[t] \in {"init", "init_store"} =>
        /\ span[t].end <= len_funcs /\ SlotsIn(span[t].end, know[t])
        /\ span[t].start <= cur[t] /\ cur[t] <= span[t].end
        /\ \A f \in Funcs : span[t].start <= f /\ f < cur[t] => state[f] # "UNINIT"
        /\ \A f \in Funcs : cur[t] <= f /\ f < span[t].end => state[f] = "UNINIT"

\* Between the payload's write and the state's store the payload is in place.
InitStored ==
    \A t \in Threads : pc[t] = "init_store" =>
        /\ cur[t] < span[t].end
        /\ data[cur[t]] = IF CompilationMode = "Eager" THEN "compiled" ELSE "uncompiled"
        /\ Data(cur[t]) \in know[t]

\* The spans of modules under construction are disjoint from each other and from
\* everything reachable.
SpansDisjoint ==
    \A t, u \in Threads : t # u /\ pc[t] \in BuildPcs /\ pc[u] \in BuildPcs =>
        span[t].end <= span[u].start \/ span[u].end <= span[t].start

SpansUnreached ==
    \A t, u \in Threads : pc[t] \in BuildPcs =>
        \A f \in reach[u] : f < span[t].start \/ span[t].end <= f

\* No entry beyond the published length is initialized.
TailUninit == \A f \in Funcs : f >= len_funcs => state[f] = "UNINIT"

BuildInv == InitProgress /\ InitStored /\ SpansDisjoint /\ SpansUnreached /\ TailUninit

\* What a store reaches is initialized, and known to its thread; what an executing
\* thread reaches is below its view.
ReachInv ==
    \A t \in Threads :
        /\ \A f \in reach[t] : /\ f < len_funcs /\ state[f] # "UNINIT"
                               /\ Slot(bucket_of(f)) \in know[t]
        /\ pc[t] \in CallPcs \cup {"wasm"} => \A f \in reach[t] : f < view[t]
        /\ pc[t] \in CallPcs => cur[t] \in reach[t]
        /\ pc[t] \in FmtPcs => /\ span[t].end <= len_funcs
                               /\ SlotsIn(span[t].end, know[t])
                               /\ t \in DebugThreads
        /\ pc[t] = "fmt_payload" => cur[t] \in Funcs

\* The state announces the payload, and the state's Release carries it.
PayloadInv ==
    \A f \in Funcs :
        /\ state[f] = "COMPILED" => data[f] = "compiled" /\ Data(f) \in stateMsg[f]
        /\ state[f] = "UNCOMPILED" => data[f] = "uncompiled" /\ Data(f) \in stateMsg[f]
        /\ CompilationMode = "Eager" => state[f] \in {"UNINIT", "COMPILED"}

\* The owner of a COMPILING entry knows the payload and what it has put there.
OwnerInv ==
    \A t \in Threads :
        /\ pc[t] \in OwnerPcs => Data(cur[t]) \in know[t]
        /\ pc[t] = "take_uncompiled" => data[cur[t]] = "uncompiled"
        /\ pc[t] = "store_compiled" => data[cur[t]] = "compiled"
        /\ pc[t] = "store_uncompiled" => data[cur[t]] = "uncompiled"

\* Whoever is about to read a payload saw the state that announces it.
ReaderInv ==
    \A t \in Threads :
        /\ pc[t] = "assume_compiled" => state[cur[t]] = "COMPILED" /\ Data(cur[t]) \in know[t]
        /\ pc[t] = "fmt_payload" => /\ state[cur[t]] # "UNINIT"
                                    /\ CompilationMode = "Eager" => Data(cur[t]) \in know[t]

EntryInv == OneCompiler /\ PayloadInv /\ OwnerInv /\ ReaderInv

NoPanic == \A t \in Threads : pc[t] \notin PanicPcs

\* The conjunction is inductive; every safety property of the code map follows
\* from it.
IInv == TypeOK /\ AllocInv /\ BuildInv /\ ReachInv /\ EntryInv /\ NoPanic

-----------------------------------------------------------------------------
(* Refinement *)

\* What a reader of the table may know of an entry: a compilation in progress
\* still shows the source.
EntryStatus ==
    [f \in Funcs |-> CASE state[f] = "UNINIT"            -> "absent"
                       [] state[f] = "FAILED_TO_COMPILE" -> "broken"
                       [] state[f] = "COMPILED"          -> "code"
                       [] OTHER                          -> "source"]

Table == INSTANCE FuncTable WITH len <- len_funcs, status <- EntryStatus

\* With all its interleavings, retries and failures the code map is an append-only
\* table whose entries are decided once.
ImplementsFuncTable == Table!Spec
=============================================================================
