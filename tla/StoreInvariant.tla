--------------------------- MODULE StoreInvariant ---------------------------
(***************************************************************************)
(* What is true of a store and of an instantiation under way between any   *)
(* two steps: the inductive invariants of Instantiation.                   *)
(***************************************************************************)
EXTENDS Instantiation, Resources_proof

-----------------------------------------------------------------------------
(* The store. *)

Externals == [kind : {"func", "table", "memory"}, index : Nat]

Entities == [tables : Seq(Nat), memories : Seq(Nat), funcs : Seq(Nat), elems : Seq(Nat), datas : Seq(Nat)]

\* How far an instance has come, or what its instantiation failed with.
Outcomes == {"building", "starting", "trap", "ImportsExternalsLenMismatch", "ImportTypeMismatch",
             "TooManyTables", "TooManyMemories", "ElementSegmentDoesNotFit", "OutOfBoundsAccess"} \cup Errors

InstanceTypes == [initialized : BOOLEAN, module : DOMAIN Modules, externs : Seq(Externals),
                  entity : Entities, outcome : Outcomes]

FuncTypes == [owner : Nat, ty : STRING]

Builds == [at : 0..4, next : Nat, entity : Entities, tables : Seq(Tables), memories : Seq(Memories)]

\* The type invariant.
Typed ==
    /\ memories \in Seq(Memories) /\ tables \in Seq(Tables)
    /\ elems \in Seq(Seq(Nat)) /\ datas \in Seq(Seq(Nat))
    /\ funcs \in Seq(FuncTypes) /\ instances \in Seq(InstanceTypes)
    /\ fuel \in Fuels /\ limits \in Limits
    /\ meter \in [bytes : Int, elements : Int]
    /\ failures \in Nat
    /\ build \in Builds

\* What an entity names is in the store, whose arenas are m, t, e and d.
Resolves(entity, m, t, e, d) ==
    /\ \A k \in DOMAIN entity.memories : entity.memories[k] \in DOMAIN m
    /\ \A k \in DOMAIN entity.tables : entity.tables[k] \in DOMAIN t
    /\ \A k \in DOMAIN entity.elems : entity.elems[k] \in DOMAIN e
    /\ \A k \in DOMAIN entity.datas : entity.datas[k] \in DOMAIN d

Resolved ==
    /\ \A i \in DOMAIN instances : Resolves(instances[i].entity, memories, tables, elems, datas)
    /\ \A f \in DOMAIN funcs : funcs[f].owner \in DOMAIN instances

\* An instance that is being built is the last one, and has its functions.
Underway ==
    build.at # 0 =>
        /\ Resolves(build.entity, memories, tables, elems, datas)
        /\ Len(instances) # 0 /\ ~instances[Len(instances)].initialized
        /\ instances[Len(instances)].outcome = "building"
        /\ Len(build.entity.funcs) =
                NumberOf(Modules[instances[Len(instances)].module].imports, "func")
                    + Len(Modules[instances[Len(instances)].module].funcs)

\* The instance of a function may be called into, or is left behind by its segments,
\* or is at them.
Ready(owner, is, segments) ==
    \/ is[owner].initialized
    \/ is[owner].outcome \in {"ElementSegmentDoesNotFit", "OutOfBoundsAccess"}
    \/ owner = Len(is) /\ segments

AtSegments == build.at \in {3, 4}

\* A reference that may be anywhere.
Fine(r) == r = NullRef \/ (r \in DOMAIN funcs /\ Ready(funcs[r].owner, instances, AtSegments))

References ==
    /\ \A t \in DOMAIN tables : \A n \in DOMAIN tables[t].elements : Fine(tables[t].elements[n])
    /\ \A e \in DOMAIN elems : \A n \in DOMAIN elems[e] : Fine(elems[e][n])
    /\ \A i \in DOMAIN instances : \A n \in DOMAIN instances[i].entity.funcs : Fine(instances[i].entity.funcs[n])

\* One of the instance that is being built, or one it may use.
Own(r) == Fine(r) \/ (r \in DOMAIN funcs /\ funcs[r].owner = Len(instances))

OwnReferences == build.at # 0 => \A n \in DOMAIN build.entity.funcs : Own(build.entity.funcs[n])

\* What is_subtype_of has seen of the extern x of an import stays so.
MemoryImported(ty, x, m) ==
    /\ x \in DOMAIN m /\ ty.min <= Pages(m[x])
    /\ ty.max # None => m[x].ty.max # None /\ m[x].ty.max <= ty.max

TableImported(ty, x, t) ==
    /\ x \in DOMAIN t /\ ty.min <= Len(t[x].elements)
    /\ ty.max # None => t[x].ty.max # None /\ t[x].ty.max <= ty.max

ImportHolds(import, x, m, t) ==
    /\ import.kind = "memory" => MemoryImported(import.ty, x, m)
    /\ import.kind = "table" => TableImported(import.ty, x, t)

Importing(instance, m, t) ==
    /\ Len(instance.externs) = Len(Modules[instance.module].imports)
    /\ \A n \in DOMAIN instance.externs :
            ImportHolds(Modules[instance.module].imports[n], instance.externs[n].index, m, t)

Imported ==
    \A i \in DOMAIN instances :
        instances[i].initialized \/ (build.at # 0 /\ i = Len(instances)) => Importing(instances[i], memories, tables)

\* The accounts of the limiter are right even when there is none.
Accounts == meter.bytes = TotalBytes /\ meter.elements = TotalElements

IInv ==
    /\ Typed /\ WithinBounds /\ Accounts
    /\ Resolved /\ Underway /\ References /\ OwnReferences /\ Imported

-----------------------------------------------------------------------------
(* The segments of a module that is being instantiated. *)

\* The references of an element segment for an instance with the functions fs.
ItemsIn(segment, fs) ==
    IF segment.kind = "declared" THEN <<>>
    ELSE [n \in DOMAIN segment.items |-> IF segment.items[n] = 0 THEN NullRef ELSE fs[segment.items[n]]]

\* Segment s of a module writes place n of table t, or of memory m, of an entity.
ElemCovers(module, entity, t, n, s) ==
    /\ module.elems[s].kind = "active" /\ entity.tables[module.elems[s].table] = t
    /\ n \in (module.elems[s].offset + 1)..(module.elems[s].offset + Len(ItemsIn(module.elems[s], entity.funcs)))

DataCovers(module, entity, m, n, s) ==
    /\ module.datas[s].active /\ entity.memories[module.datas[s].memory] = m
    /\ n \in (module.datas[s].offset + 1)..(module.datas[s].offset + Len(module.datas[s].bytes))

\* Those among the first `count`.
ElemsCovering(module, entity, t, n, count) == {s \in 1..count : ElemCovers(module, entity, t, n, s)}

DatasCovering(module, entity, m, n, count) == {s \in 1..count : DataCovers(module, entity, m, n, s)}

Latest(S) == CHOOSE s \in S : \A o \in S : o <= s

\* What that place is, when it was one of the tables or memories `before`, or new.
Element(module, entity, before, t, n, S) ==
    IF S = {} THEN IF t \in DOMAIN before THEN before[t].elements[n] ELSE NullRef
    ELSE ItemsIn(module.elems[Latest(S)], entity.funcs)[n - module.elems[Latest(S)].offset]

Byte(module, before, m, n, S) ==
    IF S = {} THEN IF m \in DOMAIN before THEN before[m].data[n] ELSE 0
    ELSE module.datas[Latest(S)].bytes[n - module.datas[Latest(S)].offset]

TablesAfter(ts, module, entity, before, count) ==
    \A t \in DOMAIN ts : \A n \in DOMAIN ts[t].elements :
        ts[t].elements[n] = Element(module, entity, before, t, n, ElemsCovering(module, entity, t, n, count))

MemoriesAfter(ms, module, entity, before, count) ==
    \A m \in DOMAIN ms : \A n \in DOMAIN ms[m].data :
        ms[m].data[n] = Byte(module, before, m, n, DatasCovering(module, entity, m, n, count))

\* How many segments are done with: none before their stage, all of them after it.
Progress(b, module) ==
    /\ b.next \in 1..(Len(module[Stages[b.at]]) + 1)
    /\ b.at \in {1, 2} => Len(b.entity.elems) = 0
    /\ b.at = 3 => Len(b.entity.elems) = b.next - 1
    /\ b.at = 4 => Len(b.entity.elems) = Len(module.elems) /\ Len(b.entity.datas) = b.next - 1
    /\ b.at \in {1, 2, 3} => Len(b.entity.datas) = 0

\* The active segments of an entity of the module are dropped from the arenas es and ds.
Dropped(module, entity, es, ds) ==
    /\ \A e \in DOMAIN entity.elems : module.elems[e].kind = "active" => es[entity.elems[e]] = <<>>
    /\ \A d \in DOMAIN entity.datas : module.datas[d].active => ds[entity.datas[d]] = <<>>

\* An instance has a segment for each of its module's.
Whole(module, entity) ==
    Len(entity.elems) = Len(module.elems) /\ Len(entity.datas) = Len(module.datas)

\* Where the instantiation b of a module has come in the store.
Applied(b, module, ts, ms, es, ds) ==
    /\ Len(b.tables) <= Len(ts) /\ Len(b.memories) <= Len(ms)
    /\ Progress(b, module)
    /\ TablesAfter(ts, module, b.entity, b.tables, Len(b.entity.elems))
    /\ MemoriesAfter(ms, module, b.entity, b.memories, Len(b.entity.datas))
    /\ Dropped(module, b.entity, es, ds)

InstancesDropped ==
    \A i \in DOMAIN instances : instances[i].initialized =>
        /\ Whole(Modules[instances[i].module], instances[i].entity)
        /\ Dropped(Modules[instances[i].module], instances[i].entity, elems, datas)

SegmentsInv ==
    /\ build.at # 0 => Applied(build, Building, tables, memories, elems, datas)
    /\ InstancesDropped

=============================================================================
