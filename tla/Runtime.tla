------------------------------ MODULE Runtime ------------------------------
(***************************************************************************)
(* A store and what happens to the memories, tables and segments in it:    *)
(* instantiation of modules (crates/wasmi/src/module/instantiate), the     *)
(* handlers of the memory.* and table.* instructions of its instances      *)
(* (engine/executor/handler/exec.rs) and the host's own calls (Memory,     *)
(* Table and Store of the API).  Any of these may be the next step: a host *)
(* function called by an instance, its start function included, may do     *)
(* whatever the host may do.  The allocator fails whenever it likes, up to *)
(* MaxFailures times.                                                      *)
(*                                                                         *)
(* An entity is its index in the arena of its kind.  Handles are not freed *)
(* while the store lives.                                                  *)
(***************************************************************************)
EXTENDS Resources, Functions

CONSTANTS
    Modules,        \* the modules that may be instantiated, by name
    StoreChoices,   \* the limiters and the fuel a store may start with
    FuelAmounts,    \* what set_fuel may be called with
    MemoryTypes, TableTypes,    \* types of the memories and tables the host creates
    Capacities,     \* capacities of the static buffers the host has
    Deltas, Offsets, Lens,      \* operands of the instructions
    Values,         \* bytes and non-null references the host and programs write
    MaxInstances, MaxMemories, MaxTables,   \* bounds on the arenas
    MaxFailures,    \* bound on the failures of the allocator
    MaxSteps        \* bound on the operations of a behaviour

\* The minimum of a table type is an index: less than the number of them.
ASSUME OperandsAssumption ==
    /\ StoreChoices \subseteq [fuel : Fuels, limits : Limits]
    /\ MemoryTypes \subseteq Types
    /\ TableTypes \subseteq {ty \in Types : ty.min < TableMax}
    /\ Capacities \subseteq Option
    /\ FuelAmounts \subseteq Nat /\ Deltas \subseteq Nat
    /\ Offsets \subseteq Nat /\ Lens \subseteq Nat /\ Values \subseteq Nat

VARIABLES memories, tables, elems, datas, funcs, instances, fuel, limits,
          meter,    \* what an accounting limiter has approved less what it was told failed
          failures, \* how often the allocator has failed
          steps,    \* operations so far
          last      \* the last operation, who did it and what it came to

store == <<memories, tables, elems, datas, funcs, instances>>
runtime == <<memories, tables, elems, datas, funcs, instances, fuel, limits, meter, failures, steps, last>>

RuntimeInit ==
    /\ memories = <<>> /\ tables = <<>> /\ elems = <<>> /\ datas = <<>>
    /\ funcs = <<>> /\ instances = <<>>
    /\ \E choice \in StoreChoices : fuel = choice.fuel /\ limits = choice.limits
    /\ meter = [bytes |-> 0, elements |-> 0]
    /\ failures = 0 /\ steps = 0
    /\ last = [op |-> "none", by |-> "host", error |-> "Ok"]

-----------------------------------------------------------------------------
(* Steps. *)

Did(op, by, error) ==
    /\ steps < MaxSteps /\ steps' = steps + 1
    /\ last' = [op |-> op, by |-> by, error |-> error]

\* The allocator has the room, or fails once more.
Allocates(alloc) ==
    /\ alloc \/ failures < MaxFailures
    /\ failures' = IF alloc THEN failures ELSE failures + 1

\* What the limiter's approvals and notices add up to.
Charged(growth, amount) ==
    (IF growth.asked THEN amount ELSE 0) - (IF growth.told THEN amount ELSE 0)

MeterBytes(growth, amount) == meter' = [meter EXCEPT !.bytes = @ + Charged(growth, amount)]

MeterElements(growth, amount) == meter' = [meter EXCEPT !.elements = @ + Charged(growth, amount)]

\* What an instance names its functions, tables, memories and segments by.
Entity(i) == instances[i].entity

\* The references a program of instance i can come by: the null reference, ref.func
\* of its functions and what is in its tables.
RefsOf(i) ==
    {NullRef} \cup Range(Entity(i).funcs)
        \cup UNION {Range(tables[Entity(i).tables[k]].elements) : k \in DOMAIN Entity(i).tables}

-----------------------------------------------------------------------------
(* The host's calls. *)

set_fuel(amount) ==
    /\ fuel' = IF fuel.enabled THEN [fuel EXCEPT !.remaining = amount] ELSE fuel
    /\ Did("set_fuel", "host", IF fuel.enabled THEN "Ok" ELSE "FuelMeteringDisabled")
    /\ UNCHANGED <<store, limits, meter, failures>>

NewMemory(ty, capacity, alloc) ==
    /\ Len(memories) < MaxMemories /\ ValidType(ty)
    /\ Allocates(alloc)
    /\ \E new \in {Memory_new(limits, ty, capacity, alloc)} :
        /\ memories' = IF new.error = "Ok"
                       THEN Append(memories, [ty |-> ty, data |-> new.contents, capacity |-> capacity])
                       ELSE memories
        /\ MeterBytes(new, ToBytes(ty.min))
        /\ Did("Memory::new", "host", new.error)
    /\ UNCHANGED <<tables, elems, datas, funcs, instances, fuel, limits>>

NewTable(ty, init, alloc) ==
    /\ Len(tables) < MaxTables /\ ValidType(ty)
    /\ Allocates(alloc)
    /\ \E new \in {Table_new(limits, ty, init, alloc)} :
        /\ tables' = IF new.error = "Ok" THEN Append(tables, [ty |-> ty, elements |-> new.contents]) ELSE tables
        /\ MeterElements(new, ty.min)
        /\ Did("Table::new", "host", new.error)
    /\ UNCHANGED <<memories, elems, datas, funcs, instances, fuel, limits>>

\* Memory::grow: whatever the error, the host is told OutOfBoundsGrowth.
HostMemoryGrow(m, additional, alloc) ==
    /\ Allocates(alloc)
    /\ \E grown \in {Memory_grow(limits, memories[m], additional, NoFuel, alloc)} :
        /\ memories' = [memories EXCEPT ![m].data = grown.contents]
        /\ MeterBytes(grown, ToBytes(additional))
        /\ Did("Memory::grow", "host", IF grown.error = "Ok" THEN "Ok" ELSE "OutOfBoundsGrowth")
    /\ UNCHANGED <<tables, elems, datas, funcs, instances, fuel, limits>>

HostMemoryWrite(m, offset, bytes) ==
    /\ \E written \in {CopyFrom(memories[m].data, offset, bytes, 0, Len(bytes), NoFuel, 1)} :
        /\ memories' = [memories EXCEPT ![m].data = written.slice]
        /\ Did("Memory::write", "host", written.error)
    /\ UNCHANGED <<tables, elems, datas, funcs, instances, fuel, limits, meter, failures>>

HostTableGrow(t, delta, init, alloc) ==
    /\ Allocates(alloc)
    /\ \E grown \in {IF init.ty # tables[t].ty.element
                     THEN [NoGrowth(tables[t].elements) EXCEPT !.error = "ElementTypeMismatch"]
                     ELSE Table_grow(limits, tables[t], delta, init.raw, NoFuel, alloc)} :
        /\ tables' = [tables EXCEPT ![t].elements = grown.contents]
        /\ MeterElements(grown, delta)
        /\ Did("Table::grow", "host", grown.error)
    /\ UNCHANGED <<memories, elems, datas, funcs, instances, fuel, limits>>

-----------------------------------------------------------------------------
(* The instructions of an instance i.  An operand names a memory, table or  *)
(* segment by its index in the instance.                                    *)

\* The results of memory.grow and table.grow: -1, a trap, or a suspension.
GrowResult(error) ==
    CASE error \in {"OutOfBoundsGrowth", "GrowOutOfBounds", "OutOfSystemMemory"} -> "minus_one"
      [] error = "ResourceLimiterDeniedAllocation" -> "GrowthOperationLimited"
      [] error \in {"OutOfFuel", "Ok"} -> error
      [] OTHER -> "panic"

memory_grow(i, k, delta, alloc) ==
    /\ Allocates(alloc)
    /\ \E m \in {Entity(i).memories[k]} :
        \E grown \in {Memory_grow(limits, memories[m], delta, fuel, alloc)} :
            /\ memories' = [memories EXCEPT ![m].data = grown.contents]
            /\ fuel' = Spend(fuel, grown.spent)
            /\ MeterBytes(grown, ToBytes(delta))
            /\ Did("memory.grow", "wasm", GrowResult(grown.error))
    /\ UNCHANGED <<tables, elems, datas, funcs, instances, limits>>

table_grow(i, k, delta, init, alloc) ==
    /\ Allocates(alloc)
    /\ \E t \in {Entity(i).tables[k]} :
        \E grown \in {Table_grow(limits, tables[t], delta, init, fuel, alloc)} :
            /\ tables' = [tables EXCEPT ![t].elements = grown.contents]
            /\ fuel' = Spend(fuel, grown.spent)
            /\ MeterElements(grown, delta)
            /\ Did("table.grow", "wasm", GrowResult(grown.error))
    /\ UNCHANGED <<memories, elems, datas, funcs, instances, limits>>

\* A bulk instruction on the bytes of memory m or the elements of table t.
OnMemory(op, m, bulk) ==
    /\ memories' = [memories EXCEPT ![m].data = bulk.slice]
    /\ fuel' = Spend(fuel, bulk.spent)
    /\ Did(op, "wasm", bulk.error)
    /\ UNCHANGED <<tables, elems, datas, funcs, instances, limits, meter, failures>>

OnTable(op, t, bulk) ==
    /\ tables' = [tables EXCEPT ![t].elements = bulk.slice]
    /\ fuel' = Spend(fuel, bulk.spent)
    /\ Did(op, "wasm", bulk.error)
    /\ UNCHANGED <<memories, elems, datas, funcs, instances, limits, meter, failures>>

memory_fill(i, k, dst, value, len) ==
    \E m \in {Entity(i).memories[k]} :
        OnMemory("memory.fill", m, Fill(memories[m].data, dst, value, len, fuel, 1))

memory_init(i, k, d, dst, src, len) ==
    \E m \in {Entity(i).memories[k]} :
        OnMemory("memory.init", m,
                 CopyFrom(memories[m].data, dst, datas[Entity(i).datas[d]], src, len, fuel, 1))

\* The same index twice is one memory; two indices of one memory are a panic of
\* resolve_memory_pair_and_fuel, before anything has changed.
memory_copy(i, k, l, dst, src, len) ==
    \E m \in {Entity(i).memories[k]}, n \in {Entity(i).memories[l]} :
        OnMemory("memory.copy", m,
                 CASE k = l -> copy_within(memories[m].data, dst, src, len, fuel, 1)
                   [] k # l /\ m = n -> [error |-> "panic", slice |-> memories[m].data, spent |-> 0]
                   [] OTHER -> CopyFrom(memories[m].data, dst, memories[n].data, src, len, fuel, 1))

table_fill(i, k, dst, value, len) ==
    \E t \in {Entity(i).tables[k]} :
        OnTable("table.fill", t, Fill(tables[t].elements, dst, value, len, fuel, RefSize))

table_init(i, k, e, dst, src, len) ==
    \E t \in {Entity(i).tables[k]} :
        OnTable("table.init", t,
                CopyFrom(tables[t].elements, dst, elems[Entity(i).elems[e]], src, len, fuel, RefSize))

table_copy(i, k, l, dst, src, len) ==
    \E t \in {Entity(i).tables[k]}, u \in {Entity(i).tables[l]} :
        OnTable("table.copy", t,
                CASE k = l -> copy_within(tables[t].elements, dst, src, len, fuel, RefSize)
                  [] k # l /\ t = u -> [error |-> "panic", slice |-> tables[t].elements, spent |-> 0]
                  [] OTHER -> CopyFrom(tables[t].elements, dst, tables[u].elements, src, len, fuel, RefSize))

\* table.set stores without charging fuel for it.
table_set(i, k, index, value) ==
    \E t \in {Entity(i).tables[k]} :
        OnTable("table.set", t, Fill(tables[t].elements, index, value, 1, fuel, 0))

data_drop(i, d) ==
    /\ datas' = [datas EXCEPT ![Entity(i).datas[d]] = <<>>]
    /\ Did("data.drop", "wasm", "Ok")
    /\ UNCHANGED <<memories, tables, elems, funcs, instances, fuel, limits, meter, failures>>

elem_drop(i, e) ==
    /\ elems' = [elems EXCEPT ![Entity(i).elems[e]] = <<>>]
    /\ Did("elem.drop", "wasm", "Ok")
    /\ UNCHANGED <<memories, tables, datas, funcs, instances, fuel, limits, meter, failures>>

=============================================================================
