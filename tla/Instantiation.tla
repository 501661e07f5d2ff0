--------------------------- MODULE Instantiation ---------------------------
(***************************************************************************)
(* Module::instantiate (crates/wasmi/src/module/instantiate/mod.rs) over a *)
(* store, and the store's steps together.  Instantiation goes through the  *)
(* tables, the memories, the element segments and the data segments of the *)
(* module, one item a step; it holds the store exclusively, so nothing     *)
(* else happens until it ends.  An item that fails ends it, and what the   *)
(* earlier ones have put into the store stays there.                       *)
(***************************************************************************)
EXTENDS Runtime

\* How many imports are of one kind.
NumberOf(imports, kind) ==
    LET upto[n \in 0..Len(imports)] ==
            IF n = 0 THEN 0 ELSE IF imports[n].kind = kind THEN upto[n - 1] + 1 ELSE upto[n - 1]
    IN  upto[Len(imports)]

Imports == [kind : {"func"}, ty : STRING] \cup [kind : {"table", "memory"}, ty : Types]

ElementSegments == [kind : {"active", "passive", "declared"}, table : Nat, offset : Nat, items : Seq(Nat)]

DataSegments == [active : BOOLEAN, memory : Nat, offset : Nat, bytes : Seq(Nat)]

ParsedModules == [imports : Seq(Imports), tables : Seq(Types), memories : Seq(Types), funcs : Seq(STRING),
                  elems : Seq(ElementSegments), datas : Seq(DataSegments), start : BOOLEAN]

\* What validation leaves of a module: types are consistent, and an element segment
\* names functions that are there, or null by 0.
ASSUME ModulesAssumption ==
    \A name \in DOMAIN Modules :
        /\ Modules[name] \in ParsedModules
        /\ \A n \in DOMAIN Modules[name].memories : ValidType(Modules[name].memories[n])
        /\ \A n \in DOMAIN Modules[name].tables :
                ValidType(Modules[name].tables[n]) /\ Modules[name].tables[n].min < TableMax
        /\ \A e \in DOMAIN Modules[name].elems : \A n \in DOMAIN Modules[name].elems[e].items :
                Modules[name].elems[e].items[n] <= NumberOf(Modules[name].imports, "func") + Len(Modules[name].funcs)

\* Module::instantiate under way: the stage `at` of Stages (0 when there is none),
\* the next item of it, the InstanceEntityBuilder, and for the properties the
\* tables and memories as they were.
VARIABLE build

vars == <<runtime, build>>

\* InstanceEntity::uninitialized
Uninitialized == [tables |-> <<>>, memories |-> <<>>, funcs |-> <<>>, elems |-> <<>>, datas |-> <<>>]

NotBuilding == [at |-> 0, next |-> 1, entity |-> Uninitialized, tables |-> <<>>, memories |-> <<>>]

Init == RuntimeInit /\ build = NotBuilding

-----------------------------------------------------------------------------
(* From the limiter to the functions. *)

\* One import against the extern given for it.
Matches(import, extern) ==
    /\ import.kind = extern.kind
    /\ CASE import.kind = "func" -> funcs[extern.index].ty = import.ty
         [] import.kind = "table" -> is_subtype_of(table_dynamic_ty(tables[extern.index]), import.ty)
         [] import.kind = "memory" -> is_subtype_of(memory_dynamic_ty(memories[extern.index]), import.ty)

\* What the builder has of one kind after the loop over the imports.
OfKind(externs, kind) ==
    LET upto[n \in 0..Len(externs)] ==
            IF n = 0 THEN <<>>
            ELSE IF externs[n].kind = kind THEN Append(upto[n - 1], externs[n].index)
            ELSE upto[n - 1]
    IN  upto[Len(externs)]

extract_imports(imports, externs) ==
    FirstError(<< <<Len(externs) # Len(imports), "ImportsExternalsLenMismatch">>,
                  <<\E n \in DOMAIN imports : n \in DOMAIN externs /\ ~Matches(imports[n], externs[n]),
                    "ImportTypeMismatch">> >>)

\* The functions of a module belong to the handle of the instance to be.
extract_functions(module) ==
    funcs' = funcs \o [n \in DOMAIN module.funcs |-> [owner |-> Len(instances) + 1, ty |-> module.funcs[n]]]

\* The builder once the imports and the functions of the module are known.
Builder(module, externs) ==
    [Uninitialized EXCEPT
        !.tables = OfKind(externs, "table"),
        !.memories = OfKind(externs, "memory"),
        !.funcs = OfKind(externs, "func") \o [n \in DOMAIN module.funcs |-> Len(funcs) + n]]

\* The handle is allocated before anything is looked at, and stays behind
\* uninitialised after an error.
Handle(name, externs, error) ==
    [initialized |-> FALSE, module |-> name, externs |-> externs, entity |-> Uninitialized,
     outcome |-> IF error = "Ok" THEN "building" ELSE error]

TooManyInstances == ~CanCreateMore(limits, Len(instances), 1, limits.instances)

\* Not an operation of its own: the step goes on with one.
Going == last' = [op |-> "instantiate", by |-> "host", error |-> "Ok"] /\ UNCHANGED steps

instantiate(name, externs) ==
    /\ build.at = 0 /\ steps < MaxSteps /\ Len(instances) < MaxInstances
    /\ Len(tables) + Len(Modules[name].tables) <= MaxTables
    /\ Len(memories) + Len(Modules[name].memories) <= MaxMemories
    /\ \/ /\ TooManyInstances
          /\ Did("instantiate", "host", "TooManyInstances")
          /\ UNCHANGED <<funcs, instances, build>>
       \/ /\ ~TooManyInstances
          /\ \E error \in {extract_imports(Modules[name].imports, externs)} :
                /\ instances' = Append(instances, Handle(name, externs, error))
                /\ \/ /\ error = "Ok"
                      /\ extract_functions(Modules[name])
                      /\ build' = [at |-> 1, next |-> 1, entity |-> Builder(Modules[name], externs),
                                   tables |-> tables, memories |-> memories]
                      /\ Going
                   \/ /\ error # "Ok"
                      /\ Did("instantiate", "host", error)
                      /\ UNCHANGED <<funcs, build>>
    /\ UNCHANGED <<memories, tables, elems, datas, fuel, limits, meter, failures>>

-----------------------------------------------------------------------------
(* The stages. *)

\* Mutant: element segments take effect before the memories are there.
Stages_eager == <<"tables", "elems", "memories", "datas">>

\* Mutant: data segments take effect before element segments.
Stages_backwards == <<"tables", "memories", "datas", "elems">>

Stages == <<"tables", "memories", "elems", "datas">>

\* The instance being built and its module.
Handled == Len(instances)
Building == Modules[instances[Handled].module]

\* At an item of the named stage.
At(stage) == build.at # 0 /\ Stages[build.at] = stage
More(stage) == At(stage) /\ build.next \in DOMAIN Building[stage]
Item == Building[Stages[build.at]][build.next]

\* The item is there, under the given index of the store.
Pushed(stage, index) ==
    /\ build' = [build EXCEPT !.next = @ + 1, !.entity[stage] = Append(@, index)]
    /\ Going
    /\ UNCHANGED instances

Fails(error) ==
    /\ instances' = [instances EXCEPT ![Handled].outcome = error]
    /\ build' = NotBuilding
    /\ Did("instantiate", "host", error)

\* Module::len_tables and Module::len_memories: the imported ones count as well.
len_tables == NumberOf(Building.imports, "table") + Len(Building.tables)
len_memories == NumberOf(Building.imports, "memory") + Len(Building.memories)

\* The limits on the tables and memories of a store are looked at when a stage begins,
\* even for a module that has none of its own.
TooMany ==
    /\ build.next = 1
    /\ \/ At("tables") /\ ~CanCreateMore(limits, Len(tables), len_tables, limits.tables)
       \/ At("memories") /\ ~CanCreateMore(limits, Len(memories), len_memories, limits.memories)

too_many ==
    /\ TooMany
    /\ Fails(IF At("tables") THEN "TooManyTables" ELSE "TooManyMemories")
    /\ UNCHANGED <<memories, tables, elems, datas, funcs, fuel, limits, meter, failures>>

\* Ref::default_for_ty
DefaultRef(ty) == [ty |-> ty.element, raw |-> NullRef]

extract_tables(alloc) ==
    /\ More("tables") /\ ~TooMany
    /\ Allocates(alloc)
    /\ \E new \in {Table_new(limits, Item, DefaultRef(Item), alloc)} :
        /\ MeterElements(new, Item.min)
        /\ \/ /\ new.error = "Ok"
              /\ tables' = Append(tables, [ty |-> Item, elements |-> new.contents])
              /\ Pushed("tables", Len(tables) + 1)
           \/ new.error # "Ok" /\ Fails(new.error) /\ UNCHANGED tables
    /\ UNCHANGED <<memories, elems, datas, funcs, fuel, limits>>

extract_memories(alloc) ==
    /\ More("memories") /\ ~TooMany
    /\ Allocates(alloc)
    /\ \E new \in {Memory_new(limits, Item, None, alloc)} :
        /\ MeterBytes(new, ToBytes(Item.min))
        /\ \/ /\ new.error = "Ok"
              /\ memories' = Append(memories, [ty |-> Item, data |-> new.contents, capacity |-> None])
              /\ Pushed("memories", Len(memories) + 1)
           \/ new.error # "Ok" /\ Fails(new.error) /\ UNCHANGED memories
    /\ UNCHANGED <<tables, elems, datas, funcs, fuel, limits>>

\* The references of an element segment; a declared one has none.
Items(segment) ==
    IF segment.kind = "declared" THEN <<>>
    ELSE [n \in DOMAIN segment.items |->
            IF segment.items[n] = 0 THEN NullRef ELSE build.entity.funcs[segment.items[n]]]

\* An active segment is copied into its table and then dropped; one that does not fit
\* is in the store all the same.
initialize_table_elements ==
    /\ More("elems")
    /\ \E items \in {Items(Item)}, t \in {build.entity.tables[Item.table]} :
        \/ /\ Item.kind # "active"
           /\ elems' = Append(elems, items)
           /\ Pushed("elems", Len(elems) + 1) /\ UNCHANGED tables
        \/ /\ Item.kind = "active" /\ InBounds(tables[t].elements, Item.offset, Len(items))
           /\ tables' = [tables EXCEPT ![t].elements = copy_from_slice(@, Item.offset, items)]
           /\ elems' = Append(elems, <<>>)
           /\ Pushed("elems", Len(elems) + 1)
        \/ /\ Item.kind = "active" /\ ~InBounds(tables[t].elements, Item.offset, Len(items))
           /\ elems' = Append(elems, items)
           /\ Fails("ElementSegmentDoesNotFit") /\ UNCHANGED tables
    /\ UNCHANGED <<memories, datas, funcs, fuel, limits, meter, failures>>

initialize_memory_data ==
    /\ More("datas")
    /\ \E m \in {build.entity.memories[Item.memory]} :
        \/ /\ ~Item.active
           /\ datas' = Append(datas, Item.bytes)
           /\ Pushed("datas", Len(datas) + 1) /\ UNCHANGED memories
        \/ /\ Item.active /\ InBounds(memories[m].data, Item.offset, Len(Item.bytes))
           /\ memories' = [memories EXCEPT ![m].data = copy_from_slice(@, Item.offset, Item.bytes)]
           /\ datas' = Append(datas, <<>>)
           /\ Pushed("datas", Len(datas) + 1)
        \/ /\ Item.active /\ ~InBounds(memories[m].data, Item.offset, Len(Item.bytes))
           /\ Fails("OutOfBoundsAccess") /\ UNCHANGED <<memories, datas>>
    /\ UNCHANGED <<tables, elems, funcs, fuel, limits, meter, failures>>

\* No item is left of a stage: the next stage, or initialize_instance.
stage_done ==
    /\ build.at # 0 /\ ~TooMany /\ build.next > Len(Building[Stages[build.at]])
    /\ \/ /\ build.at < Len(Stages)
          /\ build' = [build EXCEPT !.at = @ + 1, !.next = 1]
          /\ Going /\ UNCHANGED instances
       \/ /\ build.at = Len(Stages)
          /\ instances' = [instances EXCEPT ![Handled] =
                [@ EXCEPT !.initialized = TRUE, !.entity = build.entity,
                          !.outcome = IF Building.start THEN "starting" ELSE "Ok"]]
          /\ build' = NotBuilding
          /\ Did("instantiate", "host", "Ok")
    /\ UNCHANGED <<memories, tables, elems, datas, funcs, fuel, limits, meter, failures>>

BuildNext ==
    \/ too_many \/ initialize_table_elements \/ initialize_memory_data \/ stage_done
    \/ \E alloc \in BOOLEAN : extract_tables(alloc) \/ extract_memories(alloc)

\* The start function returns, or traps and instantiate returns its error; what
\* it does meanwhile are steps of its instance.
start(i, error) ==
    /\ instances[i].outcome = "starting"
    /\ instances' = [instances EXCEPT ![i].outcome = error]
    /\ Did("start", "host", error)
    /\ UNCHANGED <<memories, tables, elems, datas, funcs, fuel, limits, meter, failures>>

-----------------------------------------------------------------------------
\* The functions the host can come by: those of instances it has, and those in tables.
HostFuncs ==
    {f \in DOMAIN funcs : instances[funcs[f].owner].initialized}
        \cup ((UNION {Range(tables[t].elements) : t \in DOMAIN tables}) \ {NullRef})

Externs ==
    {[kind |-> "memory", index |-> m] : m \in DOMAIN memories}
        \cup {[kind |-> "table", index |-> t] : t \in DOMAIN tables}
        \cup {[kind |-> "func", index |-> f] : f \in HostFuncs}

\* Externs of the kinds that are imported, one for all, or none.
ExternsFor(imports) ==
    {x \in [DOMAIN imports -> Externs] : \A n \in DOMAIN imports : x[n].kind = imports[n].kind}
        \cup {[n \in DOMAIN imports |-> x] : x \in Externs} \cup {<<>>}

HostNext ==
    \/ \E amount \in FuelAmounts : set_fuel(amount)
    \/ \E alloc \in BOOLEAN, ty \in MemoryTypes, capacity \in Capacities : NewMemory(ty, capacity, alloc)
    \/ \E alloc \in BOOLEAN, ty \in TableTypes, rty \in {"func", "extern"} :
            NewTable(ty, [ty |-> rty, raw |-> NullRef], alloc)
    \/ \E alloc \in BOOLEAN, m \in DOMAIN memories, n \in Deltas : HostMemoryGrow(m, n, alloc)
    \/ \E m \in DOMAIN memories, offset \in Offsets, v \in Values : HostMemoryWrite(m, offset, <<v>>)
    \/ \E alloc \in BOOLEAN, t \in DOMAIN tables, n \in Deltas, rty \in {"func", "extern"} :
            HostTableGrow(t, n, [ty |-> rty, raw |-> NullRef], alloc)
    \/ \E i \in DOMAIN instances, error \in {"Ok", "trap"} : start(i, error)

MemoryNext(i, k) ==
    \/ \E alloc \in BOOLEAN, n \in Deltas : memory_grow(i, k, n, alloc)
    \/ \E dst \in Offsets, len \in Lens, v \in Values : memory_fill(i, k, dst, v, len)
    \/ \E d \in DOMAIN Entity(i).datas, dst \in Offsets, src \in Offsets, len \in Lens :
            memory_init(i, k, d, dst, src, len)
    \/ \E l \in DOMAIN Entity(i).memories, dst \in Offsets, src \in Offsets, len \in Lens :
            memory_copy(i, k, l, dst, src, len)

TableNext(i, k) ==
    \/ \E alloc \in BOOLEAN, n \in Deltas, init \in RefsOf(i) : table_grow(i, k, n, init, alloc)
    \/ \E dst \in Offsets, len \in Lens, v \in RefsOf(i) : table_fill(i, k, dst, v, len)
    \/ \E e \in DOMAIN Entity(i).elems, dst \in Offsets, src \in Offsets, len \in Lens :
            table_init(i, k, e, dst, src, len)
    \/ \E l \in DOMAIN Entity(i).tables, dst \in Offsets, src \in Offsets, len \in Lens :
            table_copy(i, k, l, dst, src, len)
    \/ \E dst \in Offsets, v \in RefsOf(i) : table_set(i, k, dst, v)

WasmNext(i) ==
    \/ \E k \in DOMAIN Entity(i).memories : MemoryNext(i, k)
    \/ \E k \in DOMAIN Entity(i).tables : TableNext(i, k)
    \/ \E d \in DOMAIN Entity(i).datas : data_drop(i, d)
    \/ \E e \in DOMAIN Entity(i).elems : elem_drop(i, e)

Next ==
    \/ /\ build.at = 0 /\ UNCHANGED build
       /\ HostNext \/ \E i \in DOMAIN instances : WasmNext(i)
    \/ \E name \in DOMAIN Modules : \E externs \in ExternsFor(Modules[name].imports) : instantiate(name, externs)
    \/ BuildNext

Spec == Init /\ [][Next]_vars

-----------------------------------------------------------------------------
(* Properties. *)

TotalBytes == Total([n \in DOMAIN memories |-> Len(memories[n].data)])

TotalElements == Total([n \in DOMAIN tables |-> Len(tables[n].elements)])

\* A limiter that keeps accounts by what Memory and Table tell it is right: the
\* bytes and elements it has approved, less those it was told failed
\* (memory_grow_failed, table_grow_failed), are those the store holds, whatever
\* mixture of instantiations, growths, denials, lack of fuel and of memory went on.
Metered == limits.on => meter = [bytes |-> TotalBytes, elements |-> TotalElements]

\* A memory is whole pages, and never larger than its type's maximum, its index type,
\* its static buffer or the limiter allow.
MemoryFits(memory) ==
    /\ Len(memory.data) % PageSize = 0
    /\ ~Exceeds(Pages(memory), memory.ty.max) /\ Pages(memory) <= AbsoluteMax
    /\ ~Exceeds(Len(memory.data), memory.capacity)
    /\ limits.on => ~Exceeds(Len(memory.data), limits.memory_size)

TableFits(table) ==
    /\ ~Exceeds(Len(table.elements), table.ty.max) /\ Len(table.elements) < TableMax
    /\ limits.on => ~Exceeds(Len(table.elements), limits.table_elements)

\* All memories and tables stay within their bounds (Memory::new and grow, Table::new
\* and grow_raw), and there are no more instances than the limiter allows, failed
\* instantiations included.
WithinBounds ==
    /\ \A m \in DOMAIN memories : MemoryFits(memories[m])
    /\ \A t \in DOMAIN tables : TableFits(tables[t])
    /\ limits.on => Len(instances) <= limits.instances

\* What an import declares of a memory or table holds of it now.
Satisfies(import, x) ==
    /\ import.kind = "memory" => Pages(memories[x]) >= import.ty.min /\ ~Exceeds(Pages(memories[x]), import.ty.max)
    /\ import.kind = "table" =>
            Len(tables[x].elements) >= import.ty.min /\ ~Exceeds(Len(tables[x].elements), import.ty.max)

\* What an instance's import declaration promises of an imported memory or table
\* (extract_imports looks at its type once, by is_subtype_of of the dynamic type)
\* stays true however it is grown later, by the instance, by another one or by the
\* host: never below the declared minimum, never above the declared maximum.
ImportsStayWithin ==
    \A i \in DOMAIN instances : instances[i].initialized =>
        \A n \in DOMAIN instances[i].externs :
            Satisfies(Modules[instances[i].module].imports[n], instances[i].externs[n].index)

\* The instance of a function in use: initialised, or left behind by its segments, or
\* being built and at its segments.
Published(f) ==
    LET owner == instances[funcs[f].owner]
    IN  \/ owner.initialized
        \/ owner.outcome \in {"ElementSegmentDoesNotFit", "OutOfBoundsAccess"}
        \/ funcs[f].owner = Handled /\ (At("elems") \/ At("datas"))

\* A function whose instance was never initialised is in a table only after an
\* instantiation that failed in its segments: the stages that check imports and
\* create entities come before the first one that publishes a reference.
OrphanFuncs ==
    \A t \in DOMAIN tables : \A n \in DOMAIN tables[t].elements :
        tables[t].elements[n] # NullRef => tables[t].elements[n] \in DOMAIN funcs /\ Published(tables[t].elements[n])

\* An operation that fails leaves the store as it was, and takes fuel only when it
\* was the buffer that could not grow: bounds, limits and lack of fuel cost nothing
\* ("not charge fuel if there is any other deterministic failure", Memory::grow).
FailuresLeaveNothing ==
    [][last'.error # "Ok" /\ last'.op \notin {"instantiate", "start"} =>
        /\ UNCHANGED store
        /\ \/ fuel' = fuel
           \/ failures' # failures
           \/ last'.op = "memory.grow" /\ \E m \in DOMAIN memories : memories[m].capacity # None]_vars

\* Fuel is taken from an instance's growths, by what the growth adds in bytes, and
\* never from the host's; it is given by set_fuel only.
GrowthPaid ==
    [][/\ last'.by = "wasm" /\ fuel.enabled =>
            /\ \A m \in DOMAIN memories :
                LET bytes == Len(memories'[m].data) - Len(memories[m].data)
                IN  bytes # 0 => fuel.remaining - fuel'.remaining = bytes \div BytesPerFuel
            /\ \A t \in DOMAIN tables :
                LET elements == Len(tables'[t].elements) - Len(tables[t].elements)
                IN  elements # 0 => fuel.remaining - fuel'.remaining = (elements * RefSize) \div BytesPerFuel
       /\ last'.by = "host" /\ last'.op # "set_fuel" => fuel' = fuel
       /\ last'.op # "set_fuel" => fuel'.remaining \in 0..fuel.remaining]_vars

\* What place n is once the first `count` segments have been copied: the last active
\* one that covers it decides, and what was there before when there is none.
AfterSegments(segments, count, n, before, Covers(_), Written(_)) ==
    LET covering == {s \in 1..count : Covers(segments[s])
                        /\ n \in (segments[s].offset + 1)..(segments[s].offset + Len(Written(segments[s])))}
    IN  IF covering = {} THEN before
        ELSE LET final == CHOOSE s \in covering : \A o \in covering : o <= s
             IN  Written(segments[final])[n - segments[final].offset]

\* While a module is instantiated, its tables and memories are those there were
\* with the segments so far copied over each other in the module's order, every
\* element segment before the first data segment; nothing else has touched them.
\* Once the instance is initialised its active segments are empty: none is applied
\* a second time by table.init or memory.init.
SegmentsApplied ==
    /\ build.at # 0 =>
        /\ build.entity.datas # <<>> => Len(build.entity.elems) = Len(Building.elems)
        /\ \A t \in DOMAIN tables : \A n \in DOMAIN tables[t].elements :
            LET Covers(s) == s.kind = "active" /\ build.entity.tables[s.table] = t
            IN  tables[t].elements[n] =
                    AfterSegments(Building.elems, Len(build.entity.elems), n,
                                  IF t \in DOMAIN build.tables THEN build.tables[t].elements[n] ELSE NullRef,
                                  Covers, Items)
        /\ \A m \in DOMAIN memories : \A n \in DOMAIN memories[m].data :
            LET Covers(s) == s.active /\ build.entity.memories[s.memory] = m
                Bytes(s) == s.bytes
            IN  memories[m].data[n] =
                    AfterSegments(Building.datas, Len(build.entity.datas), n,
                                  IF m \in DOMAIN build.memories THEN build.memories[m].data[n] ELSE 0,
                                  Covers, Bytes)
    /\ \A i \in DOMAIN instances : instances[i].initialized =>
        LET module == Modules[instances[i].module]
        IN  /\ \A e \in DOMAIN module.elems : module.elems[e].kind = "active" => elems[Entity(i).elems[e]] = <<>>
            /\ \A d \in DOMAIN module.datas : module.datas[d].active => datas[Entity(i).datas[d]] = <<>>

=============================================================================
