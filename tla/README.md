# A verification of wasmi's engine in TLA+

These modules model the parts of the wasmi interpreter, and of its experimental
JIT tier (`majit`), in which a mistake is hard to reach with a test: the lock-free
table of functions with its lazy compilation, the stacks of a running call with
suspension and resumption, the two tiers of execution and the hand-over between
them, the translator and its choice of bytecode, the numeric core, and the
memories, tables, limits and fuel of a store with the instantiation of modules.
TLC checks them on small instances; TLAPS proves the code map, the stacks and the
store for every value of their constants.

Paths below are relative to `src/crates/`. `PROJECT.json` maps every definition to
the lines it models.

## The system and its modules

A host compiles a module into an engine and instantiates it in a store. The
*translator* turns each function body into bytecode, at once or upon the first call;
the engine's *code map* keeps the result and gives it to executors of any thread.
An *executor* runs the bytecode on a call stack and a value stack; its handlers
call the operators of the *core* crate and change the memories and tables of the
*store*, which asks a *limiter* and takes *fuel*. A call may be diverted to the
*JIT tier*: the prepass lowers the bytecode to that of a kernel, and what the
kernel cannot do is handed back to the stock executor.

| Part | Source | Modules |
| --- | --- | --- |
| Code map | `wasmi/src/engine/code_map` | `FuncBuckets`, `CodeMap`; abstract: `FuncTable`; proof: `CodeMap_proof` |
| Stacks, calls, resumption | `wasmi/src/engine/executor`, `resumable.rs` | `Executor`; abstract: `Activations`; proofs: `Executor_proof` |
| JIT tier: runs | `executor/handler/majit`, `handler/func.rs` | `JitRun`; proof: `JitRun_proof` |
| JIT tier: lowering | `majit/prepass.rs`, `majit/kernel.rs`, `handler/exec.rs` | `Lower`, `Kernel`, `Handlers`, `LowerSim`; proof: `LowerSim_proof` |
| Numeric core | `core/src/wasm.rs`, `value.rs`, `memory/access.rs` | `WasmOps`, `Numerics` |
| Vector operators | `core/src/simd.rs`, `translator/func/simd`, `handler/exec/simd.rs` | `Simd`, `Vectors` |
| Translator | `wasmi/src/engine/translator/func` | `Translator`, `SymbolicMachine`, `Translation` |
| Operator selection | `translator/func/op`, `translator/comparator.rs` | `OpTables`, `OpSelection` |
| Memories, tables, fuel, limits | `core/src/{memory,table,fuel,limiter}`, `wasmi/src/{limits.rs,store}` | `Resources`, `Runtime`; proof: `Resources_proof` |
| Instantiation | `wasmi/src/module/instantiate`, `wasmi/src/instance` | `Instantiation`; proofs: `StoreInvariant`, `Instantiation_steps`, `Instantiation_segments`, `Instantiation_proof` |

Each `MC…` module gives the constants of a specification the values of a run.

### Code map

`CodeMap` has one program counter per thread and one action per atomic access of
`alloc_funcs`, `init_compiled`/`init_uncompiled`, `CodeView::refresh`,
`get_or_compile`, `compile` and the `Debug` formatting. `buckets`, `len_funcs` and
`alloc_lock` are the fields of `Funcs`; `state` and `data` those of a `FuncEntry`.
Orderings are part of the state: `know[t]` is the set of non-atomic locations whose
last write thread `t` is ordered after, an Acquire load adds what the Release store
before it carried (`lenMsg`, `stateMsg`, `lockMsg`), and a write takes the location
from everybody else. An access to a location the thread does not know is a data
race. `FuncBuckets` is the index arithmetic of `Funcs::locate`.

### Stacks and calls

`Executor` is one execution on one `Stack`: `frames` is the call stack, with the
instance each frame saved if it left it, `len` the extent of the value stack, and
`args` the registers of the handlers (`Args`): the instruction pointer, the
stack pointer, the instance and the cached default memory. A program is any
program: at each position any operator may stand. Calls, tail calls and returns of
Wasm and host functions, re-entry of the host, memory and table growth, running out
of fuel, suspension, resumption and abandonment are its actions.

### JIT tier

`JitRun` executes one call on the kernel and the same call on the stock executor, and
compares what both leave behind. Programs are drawn from families: sets of
instructions for which the tiers are meant to agree. The thread-local flags of the
kernel (`MEM_TRAP`, `TRAP_CODE`, `MEM_DID_STORE`), the state field `mem_trap_did`,
and the re-run, yield and callee paths of `run_jit` and `run_callee` are modelled in
full. `Lower` is the table of the prepass: for each stock instruction and form the
kernel instructions it becomes. `LowerSim` executes each row with the arms of
`Kernel` and compares trap, result, memory, globals, branch, slots and accumulators
with the stock handler of `Handlers`. Two differences are known and named:
`Scratched` lists the accumulators that a lowering overwrites and the handler keeps,
and `InReach` the addresses for which the two tiers agree. Memories have 32-bit and
64-bit addresses.

### Numbers

`WasmOps` and `Simd` are the operators of the core crate on bit patterns of scaled
widths: a byte has `BYTE` bits, and masks, signs, infinities and NaNs follow from it
as they do in the code. `Numerics` and `Vectors` compare them with reference
definitions that share nothing with them; `Vectors` also has the two other copies of
each vector operator, the constant folding and the handler.

### Translator

`Translator` is the state of `FuncTranslator` (operand stack, register map, control
stack, staged operator) and one operator per `visit_` method. `Translation` runs the
code it emits beside the Wasm instructions on the symbolic values of
`SymbolicMachine`: two runs agree when they compute the same terms and log the same
effects. `OpSelection` does the same with concrete numbers for the choice of
operators, forms and fusions (`OpTables`).

### Store

`Resources` has memories, tables, fuel and limits as operators: an operation is a
list of checks in the order of the code, the first that does not pass decides
(`FirstError`), and its result says what was written, spent, asked of the limiter and
reported to it. `Runtime` has the store's variables and one action for each
instruction on memories and tables and each call of the host; `Instantiation` adds
`Module::instantiate`, one item of the module a step. It holds the store exclusively,
so nothing happens between its steps, but each may fail and what the earlier ones
did stays. `meter` is an external limiter's account: what it approved less what it
was told has failed.

## Runs

`tlc -workers 2 -config X.cfg M` checks module `M`. Each property has a mutant in
`PROJECT.json`: a plausible bug in the code it is about, under which the same run
refutes it.

| Run | Configuration | What it shows |
| --- | --- | --- |
| `codemap_lazy` | `MCCodeMap`, `CodeMapLazy.cfg` | Two threads build, share and run lazily compiled modules under fuel metering. `RaceFree`: no data race on a payload or a bucket. `OneCompiler`: an entry is COMPILING exactly while one thread owns it. `CallsResolve`: no assertion fails, and what a store reaches lies in the executor's view. `Final`: decisions about a function stay. `IInv`: the invariant of the proof. `ImplementsFuncTable`: refinement. |
| `codemap_live` | `MCCodeMap`, `CodeMapLive.cfg` | Without fuel metering, one thread also printing the engine: a compilation in progress ends (`CompilingEnds`) and each call resolves or fails (`CallsEnd`). |
| `executor_all` | `MCExecutor`, `ExecutorAll.cfg` | All operators, with fallible, tail called and cell-less host functions and `table.grow`: functions run in their own instance (`OwnInstance`), on frames that fit (`FramesFit`), and a suspended call can be restored (`Restorable`); `IInv` as above. |
| `executor_safe` | `MCExecutor`, `ExecutorSafe.cfg` | Without the programs of the disagreements below: the cached memory (`Mem0Fresh`) and the stack pointer (`SpOfTop`) are never stale, results of a failed host function go where they belong (`ResumeSlots`), a call is suspended where it stopped (`SuspendsInPlace`), and the stacks implement `Activations`. |
| `jit_run` | `MCJitRun`, `JitRun.cfg` | In the exact families a call on the JIT tier leaves the result, trap, memory, globals and host calls of the stock executor (`LikeStock`); in all families no flag outlives the call (`FlagsClean`). |
| `lower` | `MCLowerSim`, `LowerSim.cfg` | Each row of the lowering does what the handler does, up to the accumulators in `Scratched` (102 of the 569 rows overwrite one that the handler keeps) and for addresses below 2^32 (`Simulates`); it may be repeated when it traps (`Repeatable`) and leaves sign-extended i32 words where later rows rely on it (`Canonical`). |
| `numerics` | `MCNumerics`, `Numerics.cfg` | Scalars, vectors, folding and memory accesses against their references. |
| `translation` | `MCTranslation`, `Translation.cfg` | Over the bodies of twelve alphabets: operands are where the translator thinks (`ValuesHeld`), effects happen once and in order (`EffectsInOrder`), the two tables of registers agree (`RegistersOwned`), and code that runs was translated as reachable (`RunsTranslated`). |
| `selection` | `MCOpSelection`, `OpSelection.cfg` | Chains of up to three numeric operators, over all placements of operands: what is selected computes (`SelectedComputes`), branches (`BranchDecides`), loads and stores (`AccessExact`) as the Wasm operators do. |
| `instantiation` | `MCInstantiation`, `Instantiation.cfg` | Three modules instantiated in any order, growths and bulk operations of both sides, a limiter, fuel, an allocator that may fail: sizes stay within every bound (`WithinBounds`), the limiter's account is right (`Metered`), imports stay what they were checked to be (`ImportsStayWithin`), no reference to a function of an unfinished instance escapes before its segments (`OrphanFuncs`), segments are applied in order up to the one that fails (`SegmentsApplied`), failures leave nothing else (`FailuresLeaveNothing`), growth is paid for (`GrowthPaid`). |
| `executor_tail_host` | `MCExecutor`, `ExecutorTailHost.cfg` | Refutes `Mem0Fresh`: see Disagreements. |
| `jit_callee_trap` | `MCJitRun`, `JitRunCalleeTrap.cfg` | Refutes `CalleeTrapKept`: see Disagreements. |

### Bounds

* Code map: two threads, two functions, `LEN_BUCKET0_LOG2 = 0`, so that the two
  functions lie in different buckets and the table grows by a bucket; `MCBodyKind`
  gives a valid and an invalid body. Two threads are enough for each race of one
  winner and one loser; the proofs have no such bound.
* Executor: two instances, three functions of which one has no cells, two host
  functions, three frames on five cells. Overflow of either stack, calls between
  instances, chains of tail calls over both and re-entry happen within it.
  `MaxPos` and `MaxPages` cap positions and growths at one.
* JIT: programs of three instructions and callees of two, in families of
  instructions; two and one for the families that mix all of them.
* Numbers: an i32 has 4 bits, an i64 8, a byte one, a float an exponent of 2 or 4
  bits. All narrow patterns and those wide ones at which a case distinction of the
  code changes. `WidthAssumption` states what the scaling keeps.
* Translator: five locals, two constants, stacks of two to four operands and up to
  three control frames. A state stands for all programs that lead to it (`Generic` of
  `Translation` forgets how a value was made), so bodies have no bound on length.
* Store: a page, a reference and a unit of fuel have two bytes; two instances, two
  memories, one table made by the host, one failure of the allocator, four
  operations.

`Translation.cfg` and `OpSelection.cfg` exclude by `Avoid` and `SelfStore` the
programs of the disagreements below, named one by one. The runs `instantiation`,
`jit_run`, `jit_callee_trap` and `lower` may stop, at the bound on operations or
after the one call or instruction they are about; in the others deadlock is checked.

### Fairness

Only `codemap_live` needs it: weak fairness of `Resolve(t)`, the steps of a thread
inside `get_or_compile`. Nothing blocks there: no lock is taken, translation
terminates, and the loop on COMPILING re-reads the state. Nothing is assumed of a
thread outside, which may stop at any time. With fuel metering `CallsEnd` does not
hold: a compilation that runs out of fuel puts the entry back to UNCOMPILED, so a
spinning thread may see COMPILING for ever while others fail in turn.

## Proofs

`tlapm M.tla` checks the proofs of a module. They hold for every value of the
constants under the named assumptions of the modules (`CodeMapAssumption`,
`BucketAssumption`, `ExecutorAssumption`, `SizesAssumption`, `OperandsAssumption`,
`ModulesAssumption`, `WidthAssumption`, `SimAssumption`), which only give the constants
their types and what validation guarantees of a module; `LowerAssumption`, about a
table, is explained below.

**Index arithmetic** (`CodeMap_proof`). `LocateWithinRequired`: a function below a
length lies in a bucket required for it; `RequiredMonotone`; `LocateInjective`: no two
functions share a slot. They follow from `MsbIsMax` and `MsbMonotone`: `Msb` is the
greatest exponent of a power of two up to its argument.

**Code map** (`CodeMap_proof`). `IInv` is inductive. Race freedom
alone is not: it needs to know *why* a thread knows a location. `AllocInv` says that
the holder of the lock has written all buckets below its own and that the published
length carries the slots it covers; `BuildInv` that spans of modules being built are
disjoint and not reachable; `ReachInv` that what a store reaches is initialised and
known; `EntryInv` that the state of an entry carries its payload and that the one
owner of a COMPILING entry knows it. From it: `Typed`, `Published`, `Active`,
`SingleCompiler`, `Resolves`, `NoRaces` (if nobody prints a lazily compiling
engine), `Decided`, and `Refines`: the code map implements `FuncTable`. A step
outside a part is covered by frame lemmas (`BuildersKeep`, `EntriesKeep`,
`OwnersKeep`).

**Stacks** (`Executor_proof`). `IInv` says
that a call stack is well formed: walking it down, each frame's instance is the one
saved by the first frame above that left it, and frames fit behind one another. From
it: `RunsInOwnInstance`, `CanBeRestored`, `Fit`. Each register has a further invariant
of its own: `FreshMem0` (if tail called host functions grow no memory and the default
memory has no second index), `SpIsTop` (if tail called host functions have cells),
`ResumesWithResults` (if they do not fail). `Refines`: the lazily synchronised stack
implements `Activations`, and `SuspendedInPlace`, both unless `table.grow` is
metered. The conditions are exactly the disagreements below.

**Resources** (`Resources_proof`). What each operator of `Resources` returns:
`MemoryGrow` and `TableGrow` say that a growth is by what was asked or not at all, that
it stays within the type, the index type, the buffer and the limiter's bound, that
the limiter is told of every approved growth that fails, and that a failure spends
fuel only if it was the buffer or the allocator that failed; lemmas of the same kind
cover creation, bulk operations and copies within one slice. `TotalAppend` and
`TotalChange` say how a sum changes with one item. `Total`, `OfKind` and `NumberOf`
are recursive functions, and what they compute is proved: `RecursionExists` builds
the function a loop computes from a least counterexample (`Induction`, `Upto`).

**Store and instantiation** (`StoreInvariant` for the invariants,
`Instantiation_steps`, `Instantiation_segments`, `Instantiation_proof`).
`WithinBounds` and `Metered` are close to inductive, `OrphanFuncs` and
`ImportsStayWithin` are not. `IInv` adds:

* `Resolved`, `Underway`: the handles of every instance, and of the builder of the one
  being built, name entities of the store;
* `References`: every reference in a table, a segment or an instance is null or of a
  function whose instance is initialised, has failed in its segments, or is at them
  (`Ready`); `OwnReferences` lets the builder's functions be of its own instance;
* `Imported`: what `is_subtype_of` saw of an extern still holds of it. Memories and
  tables never shrink and keep their types (`MemoriesKept`, `TablesKept`), so only the
  comparison at import matters;
* `Accounts`: the limiter's account is right, also when there is no limiter.

Each operation is first reduced to one of a few shapes of change (`MemorySame`,
`MemoryMade`, `MemorySet` and the like), and the invariant is proved for the shapes.
From it: `Bounded`, `Accounted`, `ImportsKept`, `NoStrays`, and the action properties
`FailuresClean` and `GrowthsPaid`. TLC has checked this `IInv` on the instance of
`instantiation` too.

`SegmentsCopied` (`SegmentsApplied`) rests on a second invariant, `SegmentsInv`.
`Progress` ties how many segments the builder has to its stage, so that no data segment
is written before the last element segment. `TablesAfter` and `MemoriesAfter` say what
every place is: what was there before if none of the segments so far covers it, else
what the latest of them has there; `ElemsCoveringNext` and `DatasCoveringNext` say how
the covering segments change with one more, and `TablesCopied` and `MemoriesCopied` that
one more copy makes it the latest. `Dropped` and `Whole` say that an instance has a
segment for each of its module's and that the active ones are empty; arenas only grow
and segments only become empty, so this stays (`StaysDropped`). A new table or memory
is full of nulls or zeros (`NewTableIs`, `NewMemoryIs`), and nobody else runs while a
module is instantiated. TLC has checked `SegmentsInv` on the instance of
`instantiation`.

**Runs of the JIT tier** (`JitRun_proof`). `CallsLeaveFlagsClean`: no call leaves the
trap flag set (`FlagsClean`), for every program and not for the families of the run
only. `FlagsClean` speaks of the end of a call; `FlagsInv` says how a call can be under
way: its `Shape` is one of six stacks, and it is the shape that says who will take
the flag. On the kernel (`MainOnTier`, `CalledFromTier`) the flag may be set, for
`run_jit` has yet to look at it; on the stock executor (`MainOnStock`,
`CalledFromStock`) it is clear, since nothing will; while a callee runs on the kernel
for the stock executor (`Yielding`) it may be set, and the flags saved by
`run_callee_yield`, which are put back, are clean. The yield of a callee must name an
instruction of the callee for the stock executor to resume at: `Leaf`, which every
program has (`ProgramsLeaf`). TLC has checked `FlagsInv` on the instance of `jit_run`.

**Lowered code** (`LowerSim_proof`). `TrapsAreRepeatable`: lowered code that traps has
changed neither memory nor globals, and a changed memory is flagged (`Repeatable`), for
every width, page size and operand, of which the run has a few. `Repeatable` is about
the state between two instructions; `RepeatInv` adds what is left of the row's code: an instruction that writes is the last one, nothing before it can have trapped,
and once it has written no code is left. Each kind of arm has a lemma that says what it
leaves alone (`ComputeKeeps`, `LoadKeeps`, `ResidualKeeps`, `BranchKeeps`,
`StoreFlags`). That the rows of `Lower` write last, and after moves and arithmetic that
cannot trap only, is `LowerAssumption`: a fact about a finite table, evaluated by TLC for
all its rows.

### Only model-checked

* `CompilingEnds` and `CallsEnd`: liveness under fairness is beyond the prover.
* `LikeStock`: it compares the outcome with that of another execution of the same
  program, which is a recursion over programs of any length; an inductive invariant
  would have to relate the kernel's state with the stock executor's at every
  instruction and hold for the exact families only.
* `Simulates` and `Canonical` of `lower`, `numerics`, `selection`: statements about
  finite tables of operators and all bit patterns of a width. `Lower`, `WasmOps` and
  `Simd` are evaluated, row by row and pattern by pattern; their reasoning about bits is
  out of the provers' reach.
* `translation`: its invariants compare runs on terms through recursive operators,
  which the prover does not accept.

## Disagreements

Where the code does not do what a document or a comment of it says. The first two
have runs of their own, with `findings` in `PROJECT.json`. The others show when a run
is given the programs it leaves out: `JitRun` and `Executor` by the constants named
here, `Translation` by taking the name out of `Avoid`, `LowerSim` by rows and words
its relation leaves out, an empty `Scratched`, `InReach` always true, another `StockPage` or `DETERMINISTIC = TRUE`.

**Executor**

1. `executor_tail_host`: after a tail called host function the default memory is
   looked up again only when the instance changes (`handler/utils.rs:1273`); a memory
   the host function grew stays cached with its old data. The comment of the twin at
   `:1235` explains why it has to be looked up.
2. `memory.grow` reloads the cached memory only for index 0 (`handler/exec.rs:445`);
   an instance that imports one memory at two indices grows it by the other one
   (`OtherMems <- MCAliasMems`).
3. A tail called host function without parameters and results leaves a dangling stack
   pointer when the popped frame starts where its caller's does, although the caller may
   have cells (`handler/state.rs:1050`; `"n"` in `TailHosts` refutes `SpOfTop`).
4. When a tail called host function fails, the slots recorded for its results are those
   of the popped frame, and are applied to its caller's (`handler/utils.rs:1183`;
   `TailHosts = {"g"}` refutes `ResumeSlots`).
5. `table.grow` that runs out of fuel does not write the instruction pointer back
   (`handler/exec.rs:718`; `TableGrow = TRUE` refutes `SuspendsInPlace`); with
   `trap_on_grow_failure` it traps instead of suspending the call.

**JIT tier** (families of `MCJitRun` in parentheses)

6. `jit_callee_trap`: `run_callee` puts the caller's trap flags back without looking at
   the callee's, so a callee's trap is lost (`majit/kernel.rs:4377`).
7. A store after a division that traps is committed: stores look at `mem_trap_did`,
   divisions set `MEM_TRAP` (`kernel.rs:642`; `DivStore`).
8. An out-of-bounds load followed by a trapping division reports the division
   (`kernel.rs:1027`; `LoadDiv`).
9. Stores of a callee are not seen by the caller, which is run again after a trap
   (`kernel.rs:4378`; `CalleeStore`).
10. A `global.set` or a host call before a trap happens again in the re-run
    (`func.rs:375`; `GlobalSet`).
11. After a yield the stock executor gets the accumulators of the function's entry
    (`func.rs:344`; `TailAccumulator`).
12. After an internal callee grew the memory the kernel keeps the old base
    (`func.rs:735`; `CalleeGrow`).
13. Only the first of several results is written back (`func.rs:385`; `TwoResults`).
14. A callee of another instance that returned on the kernel is run again
    (`utils.rs:1073`; `YieldReturned`).

**Lowering and numbers**

15. Fused i32 equality branches compare whole words, though zero-extended words reach
    them (`majit/prepass.rs:1714`); constants of `U32Select`, i32 globals and u32
    saturating truncations are the zero-extended ones (`:3214`, `:4958`, `:3934`).
16. Many lowerings take an accumulator as scratch that the stock handler keeps: a
    store whose operands are not both where the kernel wants them (`prepass.rs:4629`
    to `:4748`), a fused branch that first computes its comparison, a `br_table` with
    its index in a slot, and a float load with its address in a slot (`:4488`)
    overwrite `ireg`; `F64NotLe` of two slots overwrites the f64 accumulator on the
    way to its result. The comment at `:37` says that separate accumulators let "an
    integer value in `ireg` survive across f64 ops (and vice versa) exactly as it does
    in wasmi"; the translator spills registers at calls and blocks, not at stores.
17. The kernel cuts the address of a load or a store to its low 32 bits
    (`kernel.rs:2320`), also on a 64-bit memory, which is enabled by default
    (`engine/config.rs:80`): beyond 4 GiB it accesses another byte where the handler
    traps or reads. `memory.copy` compares sums of whole words as signed numbers
    (`kernel.rs:832`).
18. `memory.size` on the kernel divides by 65536 whatever the page size
    (`kernel.rs:2876`).
19. Under the `deterministic` feature kernel arithmetic does not canonicalise NaNs
    (`kernel.rs:1117`).
20. The documentation of `i32_rem_s` and `i64_rem_s` (`core/src/wasm.rs:123`) names an
    overflow trap; the code returns 0, as Wasm demands. `into_shift_amount`
    (`core/src/shift_amount.rs:22`) documents `None` for an amount of 0 and returns
    `Some`.

**Translator** (names in `Avoid`)

21. `preserve_all_locals(skip)` counts locals where its documentation counts operands
    (`stack/operands.rs:890`; `skip`).
22. `visit_loop` copies parameters to the register before it preserves the locals that
    live there (`func/visit.rs:144`; `loop`).
23. `translate_end_if` does not set the registers of the join (`func/mod.rs:1245`;
    `end_if`), and `visit_else` may trip the debug assertion of `alloc_reg`
    (`DebugAssertions`).
24. The fusion of `eqz` into `select` uses a stale register (`mod.rs:2308`;
    `eqz_select`).
25. `br_table` takes targets of equal height as needing no copies (`visit.rs:358`;
    `br_table`).
26. A store with a far offset of its own address reaches an `unreachable!()`
    (`mod.rs:2587`; `store`, and `SelfStore` of `OpSelection`).

**Code map and store**

27. Printing a lazily compiling engine reads payloads that another thread may take
    (`code_map/mod.rs:572`): with `DebugThreads` not empty `RaceFree` does not hold.
28. `trap_on_grow_failure` (`limits.rs:83`) is documented for every failure; growing
    past a type's own maximum returns -1 without asking the limiter.
29. The limiter documents that creating memories and tables fails beyond its counts;
    `Memory::new` and `Table::new` never ask, and a module without tables is refused
    when the host has made too many. Failed instantiations keep counting.
    `len_tables` and `len_memories`, documented as the number of the "non-imported"
    ones (`module/mod.rs:317`), count the imported ones too, so that a module that
    imports a table is refused although it makes none.
30. `memory.grow` of a static memory beyond its buffer panics (`exec.rs:421`), and so
    does `table.copy` or `memory.copy` between two indices of one entity. A 64-bit
    memory may declare the maximum of its index type, 2^48 pages
    (`core/src/memory/ty.rs:198`); its byte size does not fit a word, and
    `max_size_in_bytes` panics at the first growth (`core/src/memory/mod.rs:166`). The
    sizes of the model have no such limit.
31. `initialize_table_elements` says that it skips segments without items; it does not.
    An instantiation that fails in its segments leaves functions of its instance in
    imported tables (`OrphanFuncs` says exactly which).

## Not modelled

* **Code generation**: tracing, optimisation and native code of the JIT tier, its
  tier policy, the BAIL exit, functions of more than 16 parameters and the cache of
  lowered programs, which is keyed by address.
* **Panics in translation**: an entry would stay COMPILING; the code has no guard.
* **Contents of cells in `Executor`**: cells are addresses; contents are in
  `LowerSim`, `JitRun` and `Translation`.
* **Fuel of single instructions** and its instrumentation, encoding of labels and
  instructions, frame sizes of the translator.
* **Globals and constant expressions** as offsets of segments, exports, the host's
  `Table::set`, `copy` and `fill` (the core operations are those of the
  instructions), overflow of 64-bit sums of sizes, and calls into instances that
  never were initialised.
* **Parser, validator, linker, configuration, typed calls, C API, WASI, command line,
  test runner and fuzzers**: decoding, plain data and wrappers.
* **The pool of stacks**: each operation is one critical section of a mutex.
