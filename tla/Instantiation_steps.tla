------------------------ MODULE Instantiation_steps ------------------------
(***************************************************************************)
(* The steps on a store that keep what the inductive invariant says of     *)
(* memories, tables, segments and fuel: the host's calls and the           *)
(* instructions of the instances.                                          *)
(***************************************************************************)
EXTENDS StoreInvariant

-----------------------------------------------------------------------------
(* What a step does to the memories and to the limiter's account of them. *)

MemorySame == memories' = memories /\ meter'.bytes = meter.bytes

MemoryMade(memory) ==
    /\ memory \in Memories /\ MemoryFits(memory)
    /\ memories' = Append(memories, memory)
    /\ meter'.bytes = meter.bytes + Len(memory.data)

MemorySet(m, data) ==
    /\ m \in DOMAIN memories /\ data \in Seq(Nat) /\ Len(data) >= Len(memories[m].data)
    /\ MemoryFits([memories[m] EXCEPT !.data = data])
    /\ memories' = [memories EXCEPT ![m].data = data]
    /\ meter'.bytes = meter.bytes + (Len(data) - Len(memories[m].data))

MemoryStep == MemorySame \/ (\E memory : MemoryMade(memory)) \/ (\E m, data : MemorySet(m, data))

\* What is kept of every memory.
MemoriesKept ==
    \A m \in DOMAIN memories :
        /\ m \in DOMAIN memories'
        /\ memories'[m].ty = memories[m].ty /\ Len(memories'[m].data) >= Len(memories[m].data)

MemoryGood ==
    /\ memories \in Seq(Memories)
    /\ \A m \in DOMAIN memories : MemoryFits(memories[m])
    /\ meter.bytes \in Int /\ meter.bytes = TotalBytes

\* What is at a place of a sequence of references.
LEMMA ElementIs ==
    ASSUME NEW s \in Seq(Nat), NEW n \in DOMAIN s
    PROVE  s[n] \in Nat
  OBVIOUS

\* The sizes of the memories.
LEMMA MemorySizes ==
    ASSUME memories \in Seq(Memories)
    PROVE  [n \in DOMAIN memories |-> Len(memories[n].data)] \in Seq(Int)
<1>1. \A n \in DOMAIN memories : Len(memories[n].data) \in Int
  BY DEF Memories
<1>2. DOMAIN memories = 1..Len(memories) /\ Len(memories) \in Nat
  OBVIOUS
<1> QED
  BY <1>1, <1>2

\* Each kind of step keeps the memories good.
LEMMA MemoryStepKeeps ==
    ASSUME MemoryGood, MemoryStep, limits' = limits
    PROVE  MemoryGood' /\ MemoriesKept
<1> DEFINE sizes == [n \in DOMAIN memories |-> Len(memories[n].data)]
<1>1. /\ DOMAIN memories = 1..Len(memories) /\ Len(memories) \in Nat
      /\ \A n \in DOMAIN memories : memories[n] \in Memories /\ MemoryFits(memories[n])
      /\ meter.bytes \in Int /\ meter.bytes = Total(sizes) /\ memories \in Seq(Memories)
  BY DEF MemoryGood, TotalBytes
<1>2. sizes \in Seq(Int) /\ DOMAIN sizes = 1..Len(memories) /\ Len(sizes) = Len(memories)
  BY <1>1, MemorySizes
<1>3. \A memory : MemoryFits(memory)' <=> MemoryFits(memory)
  BY Zenon DEF MemoryFits
<1>4. CASE MemorySame
  <2>1. memories' = memories /\ meter'.bytes = meter.bytes
    BY <1>4, Zenon DEF MemorySame
  <2>2. TotalBytes' = Total(sizes)
    BY <2>1, Zenon DEF TotalBytes
  <2>3. MemoryGood'
    BY <1>1, <1>3, <2>1, <2>2, Zenon DEF MemoryGood
  <2>4. MemoriesKept
    <3>1. \A n \in DOMAIN memories : Len(memories[n].data) >= Len(memories[n].data)
      BY <1>1 DEF Memories
    <3> QED
      BY <2>1, <3>1, Zenon DEF MemoriesKept
  <2> QED
    BY <2>3, <2>4, Zenon
<1>5. ASSUME NEW memory, MemoryMade(memory) PROVE MemoryGood' /\ MemoriesKept
  <2>1. /\ memory \in Memories /\ MemoryFits(memory) /\ memories' = Append(memories, memory)
        /\ meter'.bytes = meter.bytes + Len(memory.data)
    BY <1>5, Zenon DEF MemoryMade
  <2>2. /\ memories' \in Seq(Memories) /\ DOMAIN memories' = 1..(Len(memories) + 1) /\ Len(memory.data) \in Nat
        /\ \A n \in DOMAIN memories : memories'[n] = memories[n] /\ n \in DOMAIN memories'
        /\ memories'[Len(memories) + 1] = memory
    BY <1>1, <2>1 DEF Memories
  <2>3. \A n \in DOMAIN memories' : n \in DOMAIN memories \/ n = Len(memories) + 1
    BY <1>1, <2>2
  <2>4. \A n \in DOMAIN memories' : MemoryFits(memories'[n])
    BY <1>1, <2>1, <2>2, <2>3, Zenon
  <2>5. TotalBytes' = Total(sizes) + Len(memory.data)
    <3> DEFINE after == [n \in DOMAIN memories' |-> Len(memories'[n].data)]
    <3>1. after = Append(sizes, Len(memory.data))
      <4>1. DOMAIN Append(sizes, Len(memory.data)) = 1..(Len(memories) + 1)
        BY <1>2, <2>2
      <4>2. \A n \in DOMAIN memories : Append(sizes, Len(memory.data))[n] = Len(memories[n].data)
        BY <1>1, <1>2, <2>2
      <4>3. Append(sizes, Len(memory.data))[Len(memories) + 1] = Len(memory.data)
        BY <1>1, <1>2, <2>2
      <4>4. ASSUME NEW n \in 1..(Len(memories) + 1)
            PROVE  Append(sizes, Len(memory.data))[n] = Len(memories'[n].data)
        BY <2>2, <2>3, <4>2, <4>3, Zenon
      <4>5. Append(sizes, Len(memory.data)) =
              [n \in 1..(Len(memories) + 1) |-> Append(sizes, Len(memory.data))[n]]
        BY <1>2, <2>2, <4>1
      <4> QED
        BY <2>2, <4>4, <4>5, Zenon
    <3>2. Len(memory.data) \in Int
      BY <2>2
    <3>3. Total(Append(sizes, Len(memory.data))) = Total(sizes) + Len(memory.data)
      BY <1>2, <3>2, TotalAppend, Zenon
    <3> QED
      BY <3>1, <3>3, Zenon DEF TotalBytes
  <2>6. MemoryGood'
    <3>1. meter'.bytes \in Int
      BY <1>1, <2>1, <2>2
    <3>2. \A n \in DOMAIN memories' : MemoryFits(memories[n])'
      BY <2>4, Zenon DEF MemoryFits
    <3> QED
      BY <1>1, <2>1, <2>2, <2>5, <3>1, <3>2, Zenon DEF MemoryGood
  <2>7. MemoriesKept
    <3>1. \A n \in DOMAIN memories : Len(memories[n].data) >= Len(memories[n].data)
      BY <1>1 DEF Memories
    <3> QED
      BY <2>2, <3>1, Zenon DEF MemoriesKept
  <2> QED
    BY <2>6, <2>7, Zenon
<1>6. ASSUME NEW m, NEW data, MemorySet(m, data) PROVE MemoryGood' /\ MemoriesKept
  <2> DEFINE memory == [memories[m] EXCEPT !.data = data]
             more == Len(data) - Len(memories[m].data)
  <2>1. /\ m \in DOMAIN memories /\ data \in Seq(Nat) /\ Len(data) >= Len(memories[m].data)
        /\ MemoryFits(memory) /\ memories' = [memories EXCEPT ![m].data = data]
        /\ meter'.bytes = meter.bytes + more
    BY <1>6, Zenon DEF MemorySet
  <2>2. memory \in Memories /\ memory.ty = memories[m].ty /\ memory.data = data
    BY <1>1, <2>1, Zenon DEF Memories
  <2>3. memories' = [memories EXCEPT ![m] = memory]
    BY <2>1, Zenon
  <2>4. Len(data) \in Int /\ Len(memories[m].data) \in Int /\ more \in Int
    BY <1>1, <2>1 DEF Memories
  <2> HIDE DEF memory
  <2>5. /\ memories' \in Seq(Memories) /\ DOMAIN memories' = DOMAIN memories
        /\ \A n \in DOMAIN memories : memories'[n] = IF n = m THEN memory ELSE memories[n]
    <3>1. /\ DOMAIN memories' = DOMAIN memories
          /\ \A n \in DOMAIN memories : memories'[n] = IF n = m THEN memory ELSE memories[n]
      BY <2>3, Zenon
    <3>2. \A n \in DOMAIN memories : memories'[n] \in Memories
      BY <1>1, <2>2, <3>1, Zenon
    <3>3. memories' = [n \in 1..Len(memories) |-> memories'[n]]
      BY <1>1, <2>3, Zenon
    <3>4. memories' \in Seq(Memories)
      BY <1>1, <3>2, <3>3
    <3> QED
      BY <3>1, <3>4, Zenon
  <2>6. \A n \in DOMAIN memories' : MemoryFits(memories'[n])
    BY <1>1, <2>1, <2>5, Zenon
  <2>7. TotalBytes' = Total(sizes) + more
    <3> DEFINE after == [n \in DOMAIN memories' |-> Len(memories'[n].data)]
    <3>1. \A n \in 1..Len(memories) : after[n] = Len(memories'[n].data) /\ sizes[n] = Len(memories[n].data)
      BY <1>1, <2>5, Zenon
    <3>2. \A n \in DOMAIN memories : Len(memories[n].data) \in Int
      BY <1>1 DEF Memories
    <3>3. after \in Seq(Int) /\ Len(after) = Len(sizes)
      <4>1. \A n \in DOMAIN memories : Len(memories'[n].data) \in Int
        BY <2>2, <2>4, <2>5, <3>2, Zenon
      <4> QED
        BY <1>1, <1>2, <2>5, <4>1, SMTT(60)
    <3>4. m \in 1..Len(sizes)
      BY <1>1, <1>2, <2>1, Zenon
    <3>5. Differ(sizes, after, Len(sizes), m, more)
      <4> SUFFICES ASSUME NEW n \in 1..Len(sizes)
                   PROVE  after[n] = IF n = m THEN sizes[n] + more ELSE sizes[n]
        BY Zenon DEF Differ
      <4>1. n \in 1..Len(memories) /\ n \in DOMAIN memories
        BY <1>1, <1>2, Zenon
      <4>2. CASE n = m
        <5>1. after[n] = Len(data) /\ sizes[n] = Len(memories[m].data)
          BY <2>2, <2>5, <3>1, <4>1, <4>2, Zenon
        <5>2. Len(data) = Len(memories[m].data) + more
          BY <2>4
        <5> QED
          BY <4>2, <5>1, <5>2, Zenon
      <4>3. CASE n # m
        BY <2>5, <3>1, <4>1, <4>3, Zenon
      <4> QED
        BY <4>2, <4>3, Zenon
    <3> HIDE DEF after, sizes, more
    <3>6. Total(after) = Total(sizes) + more
      BY <1>2, <2>4, <3>3, <3>4, <3>5, TotalChange, Zenon
    <3> QED
      BY <3>6, Zenon DEF TotalBytes, after
  <2>8. MemoryGood'
    <3>1. meter'.bytes \in Int
      BY <1>1, <2>1, <2>4
    <3>2. \A n \in DOMAIN memories' : MemoryFits(memories[n])'
      BY <2>6, Zenon DEF MemoryFits
    <3> QED
      BY <1>1, <2>1, <2>5, <2>7, <3>1, <3>2, Zenon DEF MemoryGood
  <2>9. MemoriesKept
    <3>1. \A n \in DOMAIN memories : Len(memories[n].data) >= Len(memories[n].data)
      BY <1>1 DEF Memories
    <3> QED
      BY <2>1, <2>2, <2>5, <3>1, Zenon DEF MemoriesKept
  <2> QED
    BY <2>8, <2>9, Zenon
<1> QED
  BY <1>4, <1>5, <1>6, Zenon DEF MemoryStep

-----------------------------------------------------------------------------
(* What a step does to the tables and to the limiter's account of them. *)

TableSame == tables' = tables /\ meter'.elements = meter.elements

TableMade(table) ==
    /\ table \in Tables /\ TableFits(table) /\ \A n \in DOMAIN table.elements : table.elements[n] = NullRef
    /\ tables' = Append(tables, table)
    /\ meter'.elements = meter.elements + Len(table.elements)

TableSet(t, items) ==
    /\ t \in DOMAIN tables /\ items \in Seq(Nat) /\ Len(items) >= Len(tables[t].elements)
    /\ TableFits([tables[t] EXCEPT !.elements = items]) /\ \A n \in DOMAIN items : Fine(items[n])
    /\ tables' = [tables EXCEPT ![t].elements = items]
    /\ meter'.elements = meter.elements + (Len(items) - Len(tables[t].elements))

TableStep == TableSame \/ (\E table : TableMade(table)) \/ (\E t, items : TableSet(t, items))

\* What is kept of every table.
TablesKept ==
    \A t \in DOMAIN tables :
        /\ t \in DOMAIN tables'
        /\ tables'[t].ty = tables[t].ty /\ Len(tables'[t].elements) >= Len(tables[t].elements)

TableGood ==
    /\ tables \in Seq(Tables)
    /\ \A t \in DOMAIN tables : TableFits(tables[t])
    /\ meter.elements \in Int /\ meter.elements = TotalElements

\* The sizes of the tables.
LEMMA TableSizes ==
    ASSUME tables \in Seq(Tables)
    PROVE  [n \in DOMAIN tables |-> Len(tables[n].elements)] \in Seq(Int)
<1>1. \A n \in DOMAIN tables : Len(tables[n].elements) \in Int
  BY DEF Tables
<1>2. DOMAIN tables = 1..Len(tables) /\ Len(tables) \in Nat
  OBVIOUS
<1> QED
  BY <1>1, <1>2

\* Each kind of step keeps the tables good.
LEMMA TableStepKeeps ==
    ASSUME TableGood, TableStep, limits' = limits
    PROVE  TableGood' /\ TablesKept
<1> DEFINE sizes == [n \in DOMAIN tables |-> Len(tables[n].elements)]
<1>1. /\ DOMAIN tables = 1..Len(tables) /\ Len(tables) \in Nat
      /\ \A n \in DOMAIN tables : tables[n] \in Tables /\ TableFits(tables[n])
      /\ meter.elements \in Int /\ meter.elements = Total(sizes) /\ tables \in Seq(Tables)
  BY DEF TableGood, TotalElements
<1>2. sizes \in Seq(Int) /\ DOMAIN sizes = 1..Len(tables) /\ Len(sizes) = Len(tables)
  BY <1>1, TableSizes
<1>3. \A table : TableFits(table)' <=> TableFits(table)
  BY Zenon DEF TableFits
<1>4. CASE TableSame
  <2>1. tables' = tables /\ meter'.elements = meter.elements
    BY <1>4, Zenon DEF TableSame
  <2>2. TotalElements' = Total(sizes)
    BY <2>1, Zenon DEF TotalElements
  <2>3. TableGood'
    BY <1>1, <1>3, <2>1, <2>2, Zenon DEF TableGood
  <2>4. TablesKept
    <3>1. \A n \in DOMAIN tables : Len(tables[n].elements) >= Len(tables[n].elements)
      BY <1>1 DEF Tables
    <3> QED
      BY <2>1, <3>1, Zenon DEF TablesKept
  <2> QED
    BY <2>3, <2>4, Zenon
<1>5. ASSUME NEW table, TableMade(table) PROVE TableGood' /\ TablesKept
  <2>1. /\ table \in Tables /\ TableFits(table) /\ tables' = Append(tables, table)
        /\ meter'.elements = meter.elements + Len(table.elements)
    BY <1>5, Zenon DEF TableMade
  <2>2. /\ tables' \in Seq(Tables) /\ DOMAIN tables' = 1..(Len(tables) + 1) /\ Len(table.elements) \in Nat
        /\ \A n \in DOMAIN tables : tables'[n] = tables[n] /\ n \in DOMAIN tables'
        /\ tables'[Len(tables) + 1] = table
    BY <1>1, <2>1 DEF Tables
  <2>3. \A n \in DOMAIN tables' : n \in DOMAIN tables \/ n = Len(tables) + 1
    BY <1>1, <2>2
  <2>4. \A n \in DOMAIN tables' : TableFits(tables'[n])
    BY <1>1, <2>1, <2>2, <2>3, Zenon
  <2>5. TotalElements' = Total(sizes) + Len(table.elements)
    <3> DEFINE after == [n \in DOMAIN tables' |-> Len(tables'[n].elements)]
    <3>1. after = Append(sizes, Len(table.elements))
      <4>1. DOMAIN Append(sizes, Len(table.elements)) = 1..(Len(tables) + 1)
        BY <1>2, <2>2
      <4>2. \A n \in DOMAIN tables : Append(sizes, Len(table.elements))[n] = Len(tables[n].elements)
        BY <1>1, <1>2, <2>2
      <4>3. Append(sizes, Len(table.elements))[Len(tables) + 1] = Len(table.elements)
        BY <1>1, <1>2, <2>2
      <4>4. ASSUME NEW n \in 1..(Len(tables) + 1)
            PROVE  Append(sizes, Len(table.elements))[n] = Len(tables'[n].elements)
        BY <2>2, <2>3, <4>2, <4>3, Zenon
      <4>5. Append(sizes, Len(table.elements)) =
              [n \in 1..(Len(tables) + 1) |-> Append(sizes, Len(table.elements))[n]]
        BY <1>2, <2>2, <4>1
      <4> QED
        BY <2>2, <4>4, <4>5, Zenon
    <3>2. Len(table.elements) \in Int
      BY <2>2
    <3>3. Total(Append(sizes, Len(table.elements))) = Total(sizes) + Len(table.elements)
      BY <1>2, <3>2, TotalAppend, Zenon
    <3> QED
      BY <3>1, <3>3, Zenon DEF TotalElements
  <2>6. TableGood'
    <3>1. meter'.elements \in Int
      BY <1>1, <2>1, <2>2
    <3>2. \A n \in DOMAIN tables' : TableFits(tables[n])'
      BY <2>4, Zenon DEF TableFits
    <3> QED
      BY <1>1, <2>1, <2>2, <2>5, <3>1, <3>2, Zenon DEF TableGood
  <2>7. TablesKept
    <3>1. \A n \in DOMAIN tables : Len(tables[n].elements) >= Len(tables[n].elements)
      BY <1>1 DEF Tables
    <3> QED
      BY <2>2, <3>1, Zenon DEF TablesKept
  <2> QED
    BY <2>6, <2>7, Zenon
<1>6. ASSUME NEW t, NEW items, TableSet(t, items) PROVE TableGood' /\ TablesKept
  <2> DEFINE table == [tables[t] EXCEPT !.elements = items]
             more == Len(items) - Len(tables[t].elements)
  <2>1. /\ t \in DOMAIN tables /\ items \in Seq(Nat) /\ Len(items) >= Len(tables[t].elements)
        /\ TableFits(table) /\ tables' = [tables EXCEPT ![t].elements = items]
        /\ meter'.elements = meter.elements + more
    BY <1>6, Zenon DEF TableSet
  <2>2. table \in Tables /\ table.ty = tables[t].ty /\ table.elements = items
    BY <1>1, <2>1, Zenon DEF Tables
  <2>3. tables' = [tables EXCEPT ![t] = table]
    BY <2>1, Zenon
  <2>4. Len(items) \in Int /\ Len(tables[t].elements) \in Int /\ more \in Int
    BY <1>1, <2>1 DEF Tables
  <2> HIDE DEF table
  <2>5. /\ tables' \in Seq(Tables) /\ DOMAIN tables' = DOMAIN tables
        /\ \A n \in DOMAIN tables : tables'[n] = IF n = t THEN table ELSE tables[n]
    <3>1. /\ DOMAIN tables' = DOMAIN tables
          /\ \A n \in DOMAIN tables : tables'[n] = IF n = t THEN table ELSE tables[n]
      BY <2>3, Zenon
    <3>2. \A n \in DOMAIN tables : tables'[n] \in Tables
      BY <1>1, <2>2, <3>1, Zenon
    <3>3. tables' = [n \in 1..Len(tables) |-> tables'[n]]
      BY <1>1, <2>3, Zenon
    <3>4. tables' \in Seq(Tables)
      BY <1>1, <3>2, <3>3, SMTT(60)
    <3> QED
      BY <3>1, <3>4, Zenon
  <2>6. \A n \in DOMAIN tables' : TableFits(tables'[n])
    BY <1>1, <2>1, <2>5, Zenon
  <2>7. TotalElements' = Total(sizes) + more
    <3> DEFINE after == [n \in DOMAIN tables' |-> Len(tables'[n].elements)]
    <3>1. \A n \in 1..Len(tables) : after[n] = Len(tables'[n].elements) /\ sizes[n] = Len(tables[n].elements)
      BY <1>1, <2>5, Zenon
    <3>2. \A n \in DOMAIN tables : Len(tables[n].elements) \in Int
      BY <1>1 DEF Tables
    <3>3. after \in Seq(Int) /\ Len(after) = Len(sizes)
      <4>1. \A n \in DOMAIN tables : Len(tables'[n].elements) \in Int
        BY <2>2, <2>4, <2>5, <3>2, Zenon
      <4> QED
        BY <1>1, <1>2, <2>5, <4>1, SMTT(60)
    <3>4. t \in 1..Len(sizes)
      BY <1>1, <1>2, <2>1, Zenon
    <3>5. Differ(sizes, after, Len(sizes), t, more)
      <4> SUFFICES ASSUME NEW n \in 1..Len(sizes)
                   PROVE  after[n] = IF n = t THEN sizes[n] + more ELSE sizes[n]
        BY Zenon DEF Differ
      <4>1. n \in 1..Len(tables) /\ n \in DOMAIN tables
        BY <1>1, <1>2, Zenon
      <4>2. CASE n = t
        <5>1. after[n] = Len(items) /\ sizes[n] = Len(tables[t].elements)
          BY <2>2, <2>5, <3>1, <4>1, <4>2, Zenon
        <5>2. Len(items) = Len(tables[t].elements) + more
          BY <2>4
        <5> QED
          BY <4>2, <5>1, <5>2, Zenon
      <4>3. CASE n # t
        BY <2>5, <3>1, <4>1, <4>3, Zenon
      <4> QED
        BY <4>2, <4>3, Zenon
    <3> HIDE DEF after, sizes, more
    <3>6. Total(after) = Total(sizes) + more
      BY <1>2, <2>4, <3>3, <3>4, <3>5, TotalChange, Zenon
    <3> QED
      BY <3>6, Zenon DEF TotalElements, after
  <2>8. TableGood'
    <3>1. meter'.elements \in Int
      BY <1>1, <2>1, <2>4
    <3>2. \A n \in DOMAIN tables' : TableFits(tables[n])'
      BY <2>6, Zenon DEF TableFits
    <3> QED
      BY <1>1, <2>1, <2>5, <2>7, <3>1, <3>2, Zenon DEF TableGood
  <2>9. TablesKept
    <3>1. \A n \in DOMAIN tables : Len(tables[n].elements) >= Len(tables[n].elements)
      BY <1>1 DEF Tables
    <3> QED
      BY <2>1, <2>2, <2>5, <3>1, Zenon DEF TablesKept
  <2> QED
    BY <2>8, <2>9, Zenon
<1> QED
  BY <1>4, <1>5, <1>6, Zenon DEF TableStep

\* What a step leaves in the tables may be anywhere.
LEMMA TableStepFine ==
    ASSUME tables \in Seq(Tables), TableStep,
           \A t \in DOMAIN tables : \A n \in DOMAIN tables[t].elements : Fine(tables[t].elements[n])
    PROVE  \A t \in DOMAIN tables' : \A n \in DOMAIN tables'[t].elements : Fine(tables'[t].elements[n])
<1>1. CASE TableSame
  BY <1>1, Zenon DEF TableSame
<1>2. ASSUME NEW table, TableMade(table), NEW t \in DOMAIN tables', NEW n \in DOMAIN tables'[t].elements
      PROVE  Fine(tables'[t].elements[n])
  <2>1. \/ t \in DOMAIN tables /\ tables'[t] = tables[t]
        \/ tables'[t] = table
    BY <1>2 DEF TableMade
  <2> QED
    BY <1>2, <2>1, Zenon DEF TableMade, Fine
<1>3. ASSUME NEW k, NEW items, TableSet(k, items), NEW t \in DOMAIN tables', NEW n \in DOMAIN tables'[t].elements
      PROVE  Fine(tables'[t].elements[n])
  <2>1. /\ k \in DOMAIN tables /\ tables' = [tables EXCEPT ![k].elements = items]
        /\ \A o \in DOMAIN items : Fine(items[o])
    BY <1>3, Zenon DEF TableSet
  <2>2. \/ t \in DOMAIN tables /\ tables'[t] = tables[t]
        \/ tables'[t].elements = items
    BY <2>1 DEF Tables
  <2> QED
    BY <1>3, <2>1, <2>2, Zenon
<1> QED
  BY <1>1, <1>2, <1>3, Zenon DEF TableStep

-----------------------------------------------------------------------------
(* What a step does to the segments, and what is kept of all the entities. *)

ElemsStep ==
    \/ elems' = elems
    \/ \E e \in DOMAIN elems : elems' = [elems EXCEPT ![e] = <<>>]
    \/ \E items \in Seq(Nat) : elems' = Append(elems, items) /\ \A n \in DOMAIN items : Fine(items[n])

DatasStep ==
    \/ datas' = datas
    \/ \E d \in DOMAIN datas : datas' = [datas EXCEPT ![d] = <<>>]
    \/ \E bytes \in Seq(Nat) : datas' = Append(datas, bytes)

\* elem.drop and the segments of a new instance leave well-formed references.
LEMMA ElemsStepKeeps ==
    ASSUME elems \in Seq(Seq(Nat)), ElemsStep,
           \A e \in DOMAIN elems : \A n \in DOMAIN elems[e] : Fine(elems[e][n])
    PROVE  /\ elems' \in Seq(Seq(Nat)) /\ \A e \in DOMAIN elems : e \in DOMAIN elems'
           /\ \A e \in DOMAIN elems' : \A n \in DOMAIN elems'[e] : Fine(elems'[e][n])
<1>1. CASE elems' = elems
  BY <1>1, Zenon
<1>2. ASSUME NEW x \in DOMAIN elems, elems' = [elems EXCEPT ![x] = <<>>]
      PROVE  /\ elems' \in Seq(Seq(Nat)) /\ \A e \in DOMAIN elems : e \in DOMAIN elems'
             /\ \A e \in DOMAIN elems' : \A n \in DOMAIN elems'[e] : Fine(elems'[e][n])
  <2>1. elems' \in Seq(Seq(Nat)) /\ DOMAIN elems' = DOMAIN elems
    BY <1>2
  <2>2. \A e \in DOMAIN elems : elems'[e] = IF e = x THEN <<>> ELSE elems[e]
    BY <1>2, Zenon
  <2>3. DOMAIN <<>> = {}
    OBVIOUS
  <2> QED
    BY <2>1, <2>2, <2>3, Zenon
<1>3. ASSUME NEW items \in Seq(Nat), elems' = Append(elems, items), \A n \in DOMAIN items : Fine(items[n])
      PROVE  /\ elems' \in Seq(Seq(Nat)) /\ \A e \in DOMAIN elems : e \in DOMAIN elems'
             /\ \A e \in DOMAIN elems' : \A n \in DOMAIN elems'[e] : Fine(elems'[e][n])
  <2>1. elems' \in Seq(Seq(Nat)) /\ \A e \in DOMAIN elems : e \in DOMAIN elems'
    BY <1>3
  <2>2. \A e \in DOMAIN elems' : (e \in DOMAIN elems /\ elems'[e] = elems[e]) \/ elems'[e] = items
    BY <1>3
  <2> QED
    BY <1>3, <2>1, <2>2, Zenon
<1> QED
  BY <1>1, <1>2, <1>3, Zenon DEF ElemsStep

\* data.drop and the segments of a new instance.
LEMMA DatasStepKeeps ==
    ASSUME datas \in Seq(Seq(Nat)), DatasStep
    PROVE  datas' \in Seq(Seq(Nat)) /\ \A d \in DOMAIN datas : d \in DOMAIN datas'
<1>1. CASE datas' = datas
  BY <1>1, Zenon
<1>2. ASSUME NEW x \in DOMAIN datas, datas' = [datas EXCEPT ![x] = <<>>]
      PROVE  datas' \in Seq(Seq(Nat)) /\ \A d \in DOMAIN datas : d \in DOMAIN datas'
  BY <1>2
<1>3. ASSUME NEW bytes \in Seq(Nat), datas' = Append(datas, bytes)
      PROVE  datas' \in Seq(Seq(Nat)) /\ \A d \in DOMAIN datas : d \in DOMAIN datas'
  BY <1>3
<1> QED
  BY <1>1, <1>2, <1>3, Zenon DEF DatasStep

\* The entities stay, what is written may be anywhere, and the limiter's accounts are right.
StoreKept ==
    /\ MemoryGood' /\ TableGood' /\ MemoriesKept /\ TablesKept
    /\ elems' \in Seq(Seq(Nat)) /\ \A e \in DOMAIN elems : e \in DOMAIN elems'
    /\ datas' \in Seq(Seq(Nat)) /\ \A d \in DOMAIN datas : d \in DOMAIN datas'
    /\ \A t \in DOMAIN tables' : \A n \in DOMAIN tables'[t].elements : Fine(tables'[t].elements[n])
    /\ \A e \in DOMAIN elems' : \A n \in DOMAIN elems'[e] : Fine(elems'[e][n])

StoreStep == MemoryStep /\ TableStep /\ ElemsStep /\ DatasStep /\ limits' = limits

\* The parts of the invariant about memories and tables.
LEMMA IInvGood ==
    ASSUME IInv
    PROVE  MemoryGood /\ TableGood
<1>1. meter.bytes \in Int /\ meter.elements \in Int
  BY Zenon DEF IInv, Typed
<1> QED
  BY <1>1, Zenon DEF IInv, Typed, WithinBounds, Accounts, MemoryGood, TableGood

\* A step on the store keeps what the invariant says of it.
LEMMA StoreStepKeeps ==
    ASSUME IInv, StoreStep
    PROVE  StoreKept
<1>1. MemoryGood /\ TableGood /\ MemoryStep /\ TableStep /\ ElemsStep /\ DatasStep /\ limits' = limits
  BY IInvGood, Zenon DEF StoreStep
<1>2. MemoryGood' /\ MemoriesKept /\ TableGood' /\ TablesKept
  BY <1>1, MemoryStepKeeps, TableStepKeeps, Zenon
<1>3. \A t \in DOMAIN tables' : \A n \in DOMAIN tables'[t].elements : Fine(tables'[t].elements[n])
  BY <1>1, TableStepFine, Zenon DEF IInv, Typed, References
<1>4. /\ elems' \in Seq(Seq(Nat)) /\ \A e \in DOMAIN elems : e \in DOMAIN elems'
      /\ \A e \in DOMAIN elems' : \A n \in DOMAIN elems'[e] : Fine(elems'[e][n])
  BY <1>1, ElemsStepKeeps, Zenon DEF IInv, Typed, References
<1>5. datas' \in Seq(Seq(Nat)) /\ \A d \in DOMAIN datas : d \in DOMAIN datas'
  BY <1>1, DatasStepKeeps, Zenon DEF IInv, Typed
<1> QED
  BY <1>2, <1>3, <1>4, <1>5, Zenon DEF StoreKept

\* What an entity names stays in the store.
LEMMA ResolvesKept ==
    ASSUME StoreKept, NEW entity, Resolves(entity, memories, tables, elems, datas)
    PROVE  Resolves(entity, memories', tables', elems', datas')
  BY Zenon DEF StoreKept, MemoriesKept, TablesKept, Resolves

\* A memory that has not become smaller has not lost pages.
LEMMA PagesKept ==
    ASSUME NEW a \in Nat, NEW b \in Nat, a <= b
    PROVE  a \div PageSize <= b \div PageSize /\ a \div PageSize \in Nat /\ b \div PageSize \in Nat
  BY SizesAssumption

\* What has been imported stays as it was declared.
LEMMA ImportingKept ==
    ASSUME IInv, StoreKept, NEW instance \in InstanceTypes, Importing(instance, memories, tables)
    PROVE  Importing(instance, memories', tables')
<1> DEFINE imports == Modules[instance.module].imports
<1>1. Len(instance.externs) = Len(imports) /\ DOMAIN instance.externs = DOMAIN imports
  <2>1. Modules[instance.module] \in ParsedModules /\ instance.externs \in Seq(Externals)
    BY ModulesAssumption, Zenon DEF InstanceTypes
  <2> QED
    BY <2>1 DEF Importing, ParsedModules
<1>2. \A n \in DOMAIN imports : imports[n] \in Imports
  BY ModulesAssumption DEF InstanceTypes, ParsedModules
<1>3. /\ memories \in Seq(Memories) /\ memories' \in Seq(Memories) /\ MemoriesKept
      /\ tables \in Seq(Tables) /\ tables' \in Seq(Tables) /\ TablesKept
  BY Zenon DEF IInv, Typed, StoreKept, MemoryGood, TableGood
<1> SUFFICES ASSUME NEW n \in DOMAIN instance.externs
             PROVE  ImportHolds(imports[n], instance.externs[n].index, memories', tables')
  BY <1>1, Zenon DEF Importing
<1> DEFINE x == instance.externs[n].index
           ty == imports[n].ty
<1>4. ImportHolds(imports[n], x, memories, tables) /\ imports[n] \in Imports
  BY <1>1, <1>2, Zenon DEF Importing
<1> HIDE DEF imports, x
<1>5. CASE imports[n].kind = "memory"
  <2>1. MemoryImported(ty, x, memories) /\ ty.min \in Nat
    BY <1>4, <1>5, Zenon DEF ImportHolds, Imports, Types
  <2>2. /\ x \in DOMAIN memories /\ x \in DOMAIN memories' /\ memories'[x].ty = memories[x].ty
        /\ Len(memories[x].data) <= Len(memories'[x].data)
        /\ Len(memories[x].data) \in Nat /\ Len(memories'[x].data) \in Nat
    <3>1. x \in DOMAIN memories /\ x \in DOMAIN memories'
      BY <1>3, <2>1, Zenon DEF MemoryImported, MemoriesKept
    <3>2. Len(memories[x].data) \in Nat /\ Len(memories'[x].data) \in Nat
      BY <1>3, <3>1, SMTT(60) DEF Memories
    <3>3. memories'[x].ty = memories[x].ty /\ Len(memories'[x].data) >= Len(memories[x].data)
      BY <1>3, <3>1, Zenon DEF MemoriesKept
    <3> QED
      BY <3>1, <3>2, <3>3, Zenon
  <2>3. Pages(memories[x]) <= Pages(memories'[x]) /\ Pages(memories[x]) \in Nat /\ Pages(memories'[x]) \in Nat
    BY <2>2, PagesKept, Zenon DEF Pages
  <2>4. ty.min <= Pages(memories'[x])
    <3>1. ty.min <= Pages(memories[x])
      BY <2>1, Zenon DEF MemoryImported
    <3> QED
      BY <2>1, <2>3, <3>1, SMTT(60)
  <2>5. MemoryImported(ty, x, memories')
    BY <2>1, <2>2, <2>4, Zenon DEF MemoryImported
  <2> QED
    BY <1>5, <2>5, Zenon DEF ImportHolds, x
<1>6. CASE imports[n].kind = "table"
  <2>1. TableImported(ty, x, tables) /\ ty.min \in Nat
    BY <1>4, <1>6, Zenon DEF ImportHolds, Imports, Types
  <2>2. /\ x \in DOMAIN tables /\ x \in DOMAIN tables' /\ tables'[x].ty = tables[x].ty
        /\ Len(tables'[x].elements) >= Len(tables[x].elements)
    BY <1>3, <2>1, Zenon DEF TableImported, TablesKept
  <2>3. Len(tables[x].elements) \in Nat /\ Len(tables'[x].elements) \in Nat
    BY <1>3, <2>2, SMTT(60) DEF Tables
  <2>4. ty.min <= Len(tables'[x].elements)
    <3>1. ty.min <= Len(tables[x].elements)
      BY <2>1, Zenon DEF TableImported
    <3> QED
      BY <2>1, <2>2, <2>3, <3>1
  <2>5. TableImported(ty, x, tables')
    BY <2>1, <2>2, <2>4, Zenon DEF TableImported
  <2> QED
    BY <1>6, <2>5, Zenon DEF ImportHolds, x
<1> QED
  BY <1>5, <1>6, Zenon DEF ImportHolds, x

-----------------------------------------------------------------------------
(* What a step does to the functions and the instances. *)

\* Fine, after the step.
FineAfter(r) == r = NullRef \/ (r \in DOMAIN funcs' /\ Ready(funcs'[r].owner, instances', AtSegments'))

FuncsKept == \A f \in DOMAIN funcs : f \in DOMAIN funcs' /\ funcs'[f] = funcs[f]

ReadyKept ==
    \A o \in DOMAIN instances : Ready(o, instances, AtSegments) => Ready(o, instances', AtSegments')

\* A reference that may be anywhere may still be.
LEMMA FineKept ==
    ASSUME IInv, FuncsKept, ReadyKept, NEW r, Fine(r)
    PROVE  FineAfter(r)
  BY Zenon DEF IInv, Resolved, FuncsKept, ReadyKept, Fine, FineAfter

InstancesKept ==
    /\ funcs' \in Seq(FuncTypes) /\ instances' \in Seq(InstanceTypes) /\ build' \in Builds
    /\ FuncsKept /\ ReadyKept
    /\ limits.on => Len(instances') <= limits.instances
    /\ \A f \in DOMAIN funcs' : funcs'[f].owner \in DOMAIN instances'
    /\ \A i \in DOMAIN instances' : Resolves(instances'[i].entity, memories', tables', elems', datas')
    /\ \A i \in DOMAIN instances' : \A n \in DOMAIN instances'[i].entity.funcs :
            FineAfter(instances'[i].entity.funcs[n])
    /\ Underway' /\ OwnReferences' /\ Imported'

\* The rest of the state.
RestTyped == fuel' \in Fuels /\ failures' \in Nat /\ meter' \in [bytes : Int, elements : Int] /\ limits' = limits

\* The two halves make the invariant.
LEMMA Together ==
    ASSUME IInv, StoreKept, InstancesKept, RestTyped
    PROVE  IInv'
<1>1. Typed'
  BY Zenon DEF IInv, Typed, StoreKept, MemoryGood, TableGood, InstancesKept, RestTyped
<1>2. WithinBounds'
  BY Zenon DEF StoreKept, MemoryGood, TableGood, InstancesKept, RestTyped, WithinBounds
<1>3. Accounts'
  BY Zenon DEF StoreKept, MemoryGood, TableGood, Accounts
<1>4. Resolved'
  BY Zenon DEF InstancesKept, Resolved
<1>5. References'
  <2>1. /\ \A t \in DOMAIN tables' : \A n \in DOMAIN tables'[t].elements : FineAfter(tables'[t].elements[n])
        /\ \A e \in DOMAIN elems' : \A n \in DOMAIN elems'[e] : FineAfter(elems'[e][n])
    BY FineKept, Zenon DEF StoreKept, InstancesKept
  <2>2. \A i \in DOMAIN instances' : \A n \in DOMAIN instances'[i].entity.funcs :
            FineAfter(instances'[i].entity.funcs[n])
    BY Zenon DEF InstancesKept
  <2> QED
    BY <2>1, <2>2, Zenon DEF References, Fine, FineAfter
<1> QED
  BY <1>1, <1>2, <1>3, <1>4, <1>5, Zenon DEF InstancesKept, IInv

\* Nothing of the instances changes.
LEMMA InstancesSame ==
    ASSUME IInv, StoreKept, UNCHANGED <<funcs, instances, build>>
    PROVE  InstancesKept
<1>1. funcs' = funcs /\ instances' = instances /\ build' = build /\ AtSegments' = AtSegments
  BY Zenon DEF AtSegments
<1>2. FuncsKept /\ ReadyKept
  BY <1>1, Zenon DEF FuncsKept, ReadyKept
<1>3. /\ funcs' \in Seq(FuncTypes) /\ instances' \in Seq(InstanceTypes) /\ build' \in Builds
      /\ limits.on => Len(instances') <= limits.instances
      /\ \A f \in DOMAIN funcs' : funcs'[f].owner \in DOMAIN instances'
  BY <1>1, Zenon DEF IInv, Typed, WithinBounds, Resolved
<1>4. \A i \in DOMAIN instances' : Resolves(instances'[i].entity, memories', tables', elems', datas')
  BY <1>1, ResolvesKept, Zenon DEF IInv, Resolved
<1>5. \A i \in DOMAIN instances' : \A n \in DOMAIN instances'[i].entity.funcs :
            FineAfter(instances'[i].entity.funcs[n])
  BY <1>1, <1>2, FineKept, Zenon DEF IInv, References
<1>6. Underway'
  BY <1>1, ResolvesKept, Zenon DEF IInv, Underway
<1>7. OwnReferences'
  BY <1>1, Zenon DEF IInv, OwnReferences, Own, Fine
<1>8. Imported'
  <2>1. \A i \in DOMAIN instances : instances[i] \in InstanceTypes
    BY DEF IInv, Typed
  <2> QED
    BY <1>1, <2>1, ImportingKept, Zenon DEF IInv, Imported
<1> QED
  BY <1>2, <1>3, <1>4, <1>5, <1>6, <1>7, <1>8, ZenonT(60) DEF InstancesKept

-----------------------------------------------------------------------------
(* The operations on memories. *)

\* The memories there are keep their sizes.
MemoryLengths == \A n \in DOMAIN memories : n \in DOMAIN memories' /\ Len(memories'[n].data) = Len(memories[n].data)

\* A growth from `before` to `after` that was asked for, and told of when it failed.
Accountable(r, amount, before, after) ==
    /\ amount \in Nat /\ before \in Nat /\ after \in Nat
    /\ r.asked \in BOOLEAN /\ r.told \in BOOLEAN
    /\ r.error = "Ok" => after = before + amount /\ (amount = 0 \/ (r.asked /\ ~r.told))
    /\ r.error # "Ok" => after = before /\ (r.asked <=> r.told)

\* What an account has after a growth.
LEMMA ChargedIs ==
    ASSUME NEW r, NEW amount, NEW before, NEW after, Accountable(r, amount, before, after)
    PROVE  Charged(r, amount) \in Int /\ Charged(r, amount) = after - before
<1> DEFINE a == r.asked
           b == r.told
<1>0. /\ amount \in Nat /\ before \in Nat /\ after \in Nat /\ a \in BOOLEAN /\ b \in BOOLEAN
      /\ r.error = "Ok" => after = before + amount /\ (amount = 0 \/ (a /\ ~b))
      /\ r.error # "Ok" => after = before /\ (a <=> b)
  BY Zenon DEF Accountable
<1>1. Charged(r, amount) = (IF a THEN amount ELSE 0) - (IF b THEN amount ELSE 0)
  BY Zenon DEF Charged
<1>2. CASE r.error = "Ok" /\ amount = 0
  <2>1. after = before + amount
    BY <1>0, <1>2, Zenon
  <2> HIDE DEF a, b
  <2> QED
    BY <1>0, <1>1, <1>2, <2>1, SMTT(60)
<1>3. CASE r.error = "Ok" /\ amount # 0
  <2>1. a = TRUE /\ b = FALSE /\ after = before + amount
    BY <1>0, <1>3, Zenon
  <2> HIDE DEF a, b
  <2> QED
    BY <1>0, <1>1, <2>1, SMTT(60)
<1>4. CASE r.error # "Ok"
  <2>1. a = b /\ after = before
    BY <1>0, <1>4, Zenon
  <2> HIDE DEF a, b
  <2> QED
    BY <1>0, <1>1, <2>1, SMTT(60)
<1> QED
  BY <1>2, <1>3, <1>4, Zenon

\* The accounts of bytes after memory_growing and memory_grow_failed.
LEMMA MeterBytesIs ==
    ASSUME IInv, NEW r, NEW amount \in Int, Charged(r, amount) \in Int, MeterBytes(r, amount)
    PROVE  /\ meter' \in [bytes : Int, elements : Int]
           /\ meter'.bytes = meter.bytes + Charged(r, amount) /\ meter'.elements = meter.elements
<1> DEFINE charged == Charged(r, amount)
<1>1. meter \in [bytes : Int, elements : Int]
  BY Zenon DEF IInv, Typed
<1>2. meter' = [meter EXCEPT !.bytes = @ + charged] /\ charged \in Int
  BY Zenon DEF MeterBytes
<1> HIDE DEF charged
<1>3. /\ meter' \in [bytes : Int, elements : Int]
      /\ meter'.bytes = meter.bytes + charged /\ meter'.elements = meter.elements
  BY <1>1, <1>2, SMTT(60)
<1> QED
  BY <1>3, Zenon DEF charged

\* Whether a memory fits depends on its size.
LEMMA FitsBySize ==
    ASSUME NEW memory \in Memories, NEW data \in Seq(Nat), MemoryFits(memory), Len(data) = Len(memory.data)
    PROVE  MemoryFits([memory EXCEPT !.data = data])
  BY Zenon DEF MemoryFits, Pages, Memories

\* What there is of a memory of the store.
LEMMA MemoryAt ==
    ASSUME IInv, NEW m \in DOMAIN memories
    PROVE  /\ memories[m] \in Memories /\ MemoryFits(memories[m])
           /\ memories[m].data \in Seq(Nat) /\ Len(memories[m].data) \in Nat
           /\ memories[m].ty \in Types /\ memories[m].capacity \in Option
           /\ Len(memories[m].data) % PageSize = 0
<1>1. memories[m] \in Memories /\ MemoryFits(memories[m])
  BY DEF IInv, Typed, WithinBounds
<1> QED
  BY <1>1 DEF Memories, MemoryFits

\* Writing into a memory what it holds changes nothing.
LEMMA MemoryBack ==
    ASSUME IInv, NEW m \in DOMAIN memories
    PROVE  [memories EXCEPT ![m].data = memories[m].data] = memories
<1>1. memories \in Seq(Memories)
  BY Zenon DEF IInv, Typed
<1>2. \A n \in DOMAIN memories : memories[n] \in Memories
  BY <1>1
<1>3. [memories[m] EXCEPT !.data = memories[m].data] = memories[m]
  BY <1>2, Zenon DEF Memories
<1>4. [memories EXCEPT ![m] = memories[m]] = memories
  BY <1>1
<1>5. [memories EXCEPT ![m].data = memories[m].data] =
          [memories EXCEPT ![m] = [memories[m] EXCEPT !.data = memories[m].data]]
  BY Zenon
<1> QED
  BY <1>3, <1>4, <1>5, Zenon

\* The memories when the data of one is replaced.
LEMMA MemoryLengthsAre ==
    ASSUME IInv, NEW m \in DOMAIN memories, NEW data \in Seq(Nat), memories' = [memories EXCEPT ![m].data = data]
    PROVE  /\ DOMAIN memories' = DOMAIN memories
           /\ \A n \in DOMAIN memories : memories'[n].data = IF n = m THEN data ELSE memories[n].data
<1>1. memories \in Seq(Memories) /\ \A n \in DOMAIN memories : memories[n] \in Memories
  BY DEF IInv, Typed
<1>2. DOMAIN memories' = DOMAIN memories
  BY Zenon
<1>3. ASSUME NEW n \in DOMAIN memories
      PROVE  memories'[n].data = IF n = m THEN data ELSE memories[n].data
  BY <1>1, Zenon DEF Memories
<1> QED
  BY <1>2, <1>3, Zenon

\* Memory m has grown by a number of pages, or has not, and grown is how that went.
MemoryGrows(m, additional, f, alloc, grown) ==
    /\ m \in DOMAIN memories /\ additional \in Nat /\ f \in Fuels /\ alloc \in BOOLEAN
    /\ grown = Memory_grow(limits, memories[m], additional, f, alloc)
    /\ memories' = [memories EXCEPT ![m].data = grown.contents]
    /\ MeterBytes(grown, ToBytes(additional))

\* Memory::grow of a memory of the store.
LEMMA MemoryGrown ==
    ASSUME IInv, NEW m, NEW additional, NEW f, NEW alloc, NEW grown, MemoryGrows(m, additional, f, alloc, grown)
    PROVE  /\ MemoryStep /\ meter' \in [bytes : Int, elements : Int] /\ meter'.elements = meter.elements
           /\ grown.spent \in Nat /\ (f.enabled => grown.spent <= f.remaining)
           /\ grown.error # "Ok" =>
                memories' = memories /\ (grown.spent = 0 \/ memories[m].capacity # None \/ ~alloc)
           /\ \A n \in DOMAIN memories :
                \/ Len(memories'[n].data) = Len(memories[n].data)
                \/ /\ Len(memories'[n].data) - Len(memories[n].data) = additional * PageSize
                   /\ grown.spent = MemoryCost(additional)
<1>0. /\ m \in DOMAIN memories /\ additional \in Nat /\ f \in Fuels /\ alloc \in BOOLEAN
      /\ grown = Memory_grow(limits, memories[m], additional, f, alloc)
      /\ memories' = [memories EXCEPT ![m].data = grown.contents]
      /\ MeterBytes(grown, ToBytes(additional))
  BY Zenon DEF MemoryGrows
<1> USE <1>0
<1> DEFINE memory == memories[m]
           data == memory.data
           after == grown.contents
           more == additional * PageSize
<1>1. /\ memory \in Memories /\ MemoryFits(memory) /\ data \in Seq(Nat) /\ Len(data) \in Nat
      /\ memory.ty \in Types /\ memory.capacity \in Option /\ Len(data) % PageSize = 0
  BY MemoryAt, Zenon
<1>2. limits \in Limits
  BY Zenon DEF IInv, Typed
<1>3. /\ Grown(grown, data, more, {0}, f, MemoryCost(additional))
      /\ more \in Nat /\ ToBytes(additional) = more
      /\ grown.error = "Ok" /\ additional # 0 =>
                /\ Pages(memory) + additional <= AbsoluteMax
                /\ ~Exceeds(Pages(memory) + additional, memory.ty.max)
                /\ ~Exceeds(Len(data) + more, memory.capacity)
                /\ limits.on => ~Exceeds(Len(data) + more, limits.memory_size)
      /\ grown.error # "Ok" => grown.spent = 0 \/ memory.capacity # None \/ ~alloc
  BY <1>1, <1>2, MemoryGrow, Zenon
<1>4. /\ after \in Seq(Nat) /\ Len(after) \in Nat
      /\ grown.error = "Ok" => Len(after) = Len(data) + more /\ grown.spent = MemoryCost(additional)
                               /\ (more = 0 \/ (grown.asked /\ ~grown.told))
      /\ grown.error # "Ok" => after = data /\ (grown.asked <=> grown.told)
      /\ grown.asked \in BOOLEAN /\ grown.told \in BOOLEAN
      /\ grown.spent \in Nat /\ (f.enabled => grown.spent <= f.remaining)
  <2>1. after \in Seq(Nat)
    BY <1>3, Zenon DEF Grown
  <2>2. Len(after) \in Nat
    BY <2>1
  <2> QED
    BY <1>3, <2>1, <2>2, Zenon DEF Grown
<1>5. Charged(grown, more) \in Int /\ Charged(grown, more) = Len(after) - Len(data)
  <2> DEFINE a == Len(after)
             b == Len(data)
  <2>1. Accountable(grown, more, b, a)
    BY <1>1, <1>3, <1>4, Zenon DEF Accountable
  <2> HIDE DEF a, b, more
  <2>2. Charged(grown, more) \in Int /\ Charged(grown, more) = a - b
    BY <2>1, ChargedIs, Zenon
  <2> QED
    BY <2>2, Zenon DEF a, b
<1>6. /\ meter' \in [bytes : Int, elements : Int]
      /\ meter'.bytes = meter.bytes + (Len(after) - Len(data)) /\ meter'.elements = meter.elements
  <2>1. more \in Int /\ MeterBytes(grown, more)
    BY <1>3, SMTT(60)
  <2> HIDE DEF more
  <2> QED
    BY <1>5, <2>1, MeterBytesIs, Zenon
<1>7. Len(after) >= Len(data)
  BY <1>1, <1>3, <1>4, SMTT(60)
<1>8. MemoryFits([memory EXCEPT !.data = after])
  <2>1. CASE Len(after) = Len(data)
    BY <1>1, <1>4, <2>1, FitsBySize, Zenon
  <2>2. CASE Len(after) # Len(data)
    <3>1. /\ grown.error = "Ok" /\ Len(after) = Len(data) + more /\ more # 0
          /\ additional # 0
      <4>1. grown.error = "Ok" /\ Len(after) = Len(data) + more
        BY <1>4, <2>2, Zenon
      <4>2. more # 0
        BY <1>1, <1>3, <2>2, <4>1, SMTT(60)
      <4>3. additional # 0
        BY <4>2, SizesAssumption
      <4> QED
        BY <4>1, <4>2, <4>3, Zenon
    <3> DEFINE new == [memory EXCEPT !.data = after]
               p == Pages(memory)
    <3>2. new.data = after /\ new.ty = memory.ty /\ new.capacity = memory.capacity
      BY <1>1, Zenon DEF Memories
    <3>3. p \in Nat /\ Len(data) + more = (p + additional) * PageSize
      BY <1>1, WholePages, Zenon DEF Pages
    <3>4. p + additional \in Nat
      BY <3>3
    <3>5. Len(after) % PageSize = 0 /\ Len(after) \div PageSize = p + additional
      <4> HIDE DEF p
      <4> QED
        BY <3>1, <3>3, <3>4, Products, Zenon
    <3>6. Pages(new) = p + additional
      BY <3>2, <3>5, Zenon DEF Pages
    <3> QED
      BY <1>3, <3>1, <3>2, <3>5, <3>6, Zenon DEF MemoryFits
  <2> QED
    BY <2>1, <2>2, Zenon
<1>9. MemorySet(m, after)
  BY <1>4, <1>6, <1>7, <1>8, Zenon DEF MemorySet
<1>10. grown.error # "Ok" => memories' = memories
  BY <1>4, MemoryBack, Zenon
<1>11. ASSUME NEW n \in DOMAIN memories
       PROVE  \/ Len(memories'[n].data) = Len(memories[n].data)
              \/ /\ Len(memories'[n].data) - Len(memories[n].data) = additional * PageSize
                 /\ grown.spent = MemoryCost(additional)
  <2>1. memories'[n].data = IF n = m THEN after ELSE memories[n].data
    BY <1>4, MemoryLengthsAre, ZenonT(60)
  <2>2. CASE n # m \/ grown.error # "Ok"
    BY <1>4, <2>1, <2>2, Zenon
  <2>3. CASE n = m /\ grown.error = "Ok"
    <3>1. memories'[n].data = after /\ Len(after) = Len(data) + more /\ grown.spent = MemoryCost(additional)
      BY <1>4, <2>1, <2>3, Zenon
    <3>2. (Len(data) + more) - Len(data) = more
      BY <1>1, <1>3
    <3> QED
      BY <2>3, <3>1, <3>2, Zenon
  <2> QED
    BY <2>2, <2>3, Zenon
<1> QED
  BY <1>3, <1>4, <1>6, <1>9, <1>10, <1>11, ZenonT(60) DEF MemoryStep

\* A bulk operation on the bytes of a memory of the store.
LEMMA MemoryBulked ==
    ASSUME IInv, NEW m \in DOMAIN memories, NEW r, NEW V, NEW f, Bulked(r, memories[m].data, V, f),
           memories' = [memories EXCEPT ![m].data = r.slice], meter' = meter
    PROVE  /\ MemoryStep /\ MemoryLengths
           /\ r.error # "Ok" => memories' = memories /\ r.spent = 0
           /\ r.spent \in Nat /\ (f.enabled => r.spent <= f.remaining)
<1> DEFINE data == memories[m].data
           after == r.slice
<1>1. /\ memories[m] \in Memories /\ MemoryFits(memories[m]) /\ data \in Seq(Nat) /\ Len(data) \in Nat
  BY MemoryAt, Zenon
<1>2. /\ after \in Seq(Nat) /\ Len(after) = Len(data) /\ (r.error # "Ok" => after = data /\ r.spent = 0)
      /\ r.spent \in Nat /\ (f.enabled => r.spent <= f.remaining)
  BY Zenon DEF Bulked
<1>3. MemoryFits([memories[m] EXCEPT !.data = after])
  BY <1>1, <1>2, FitsBySize, Zenon
<1>4. meter'.bytes = meter.bytes + (Len(after) - Len(data)) /\ Len(after) >= Len(data)
  <2>1. meter.bytes \in Int
    BY Zenon DEF IInv, Typed
  <2>2. Len(after) - Len(data) = 0 /\ Len(after) >= Len(data)
    BY <1>1, <1>2
  <2> HIDE DEF after, data
  <2> QED
    BY <2>1, <2>2
<1>5. MemorySet(m, after)
  BY <1>2, <1>3, <1>4, Zenon DEF MemorySet
<1>6. MemoryLengths
  <2>1. /\ DOMAIN memories' = DOMAIN memories
        /\ \A n \in DOMAIN memories : memories'[n].data = IF n = m THEN after ELSE memories[n].data
    BY <1>2, MemoryLengthsAre, Zenon
  <2> QED
    BY <1>2, <2>1, Zenon DEF MemoryLengths
<1>7. r.error # "Ok" => memories' = memories
  BY <1>2, MemoryBack, Zenon
<1> QED
  BY <1>2, <1>5, <1>6, <1>7, Zenon DEF MemoryStep

\* Memory::new, for the host or a module.
LEMMA MemoryCreated ==
    ASSUME IInv, NEW ty \in Types, ValidType(ty), NEW capacity \in Option, NEW alloc \in BOOLEAN,
           NEW new, new = Memory_new(limits, ty, capacity, alloc), MeterBytes(new, ToBytes(ty.min)),
           memories' = IF new.error = "Ok"
                       THEN Append(memories, [ty |-> ty, data |-> new.contents, capacity |-> capacity])
                       ELSE memories
    PROVE  MemoryStep /\ meter' \in [bytes : Int, elements : Int] /\ meter'.elements = meter.elements
<1> DEFINE bytes == ty.min * PageSize
           memory == [ty |-> ty, data |-> new.contents, capacity |-> capacity]
<1>1. limits \in Limits /\ meter.bytes \in Int
  BY Zenon DEF IInv, Typed
<1>2. /\ new.error = "Ok" =>
                /\ new.contents \in Seq(Nat) /\ Len(new.contents) = bytes
                /\ ty.min <= AbsoluteMax /\ ~Exceeds(bytes, capacity)
                /\ limits.on => ~Exceeds(bytes, limits.memory_size)
                /\ new.asked /\ ~new.told
      /\ new.error # "Ok" => (new.asked <=> new.told)
      /\ new.asked \in BOOLEAN /\ new.told \in BOOLEAN
      /\ ToBytes(ty.min) = bytes /\ bytes \in Nat
  BY <1>1, MemoryNew, SMTT(60)
<1>3. CASE new.error = "Ok"
  <2>1. Charged(new, bytes) \in Int /\ Charged(new, bytes) = bytes - 0
    <3>1. 0 \in Nat /\ bytes = 0 + bytes
      BY <1>2
    <3> HIDE DEF bytes
    <3>2. Accountable(new, bytes, 0, bytes)
      BY <1>2, <1>3, <3>1, Zenon DEF Accountable
    <3> QED
      BY <3>2, ChargedIs, Zenon
  <2>2. /\ meter' \in [bytes : Int, elements : Int]
        /\ meter'.bytes = meter.bytes + bytes /\ meter'.elements = meter.elements
    <3>1. bytes \in Int /\ MeterBytes(new, bytes) /\ bytes - 0 = bytes
      BY <1>2
    <3> HIDE DEF bytes
    <3> QED
      BY <2>1, <3>1, MeterBytesIs, Zenon
  <2>3. memory \in Memories /\ memory.data = new.contents /\ memory.ty = ty /\ memory.capacity = capacity
    BY <1>2, <1>3, Zenon DEF Memories
  <2>4. ty.min \in Nat /\ ty.max \in Option
    BY Zenon DEF Types
  <2>5. Pages(memory) = ty.min /\ Len(memory.data) = bytes /\ bytes % PageSize = 0
    BY <1>2, <1>3, <2>3, <2>4, Products, ZenonT(60) DEF Pages
  <2>6. ~Exceeds(ty.min, ty.max)
    BY <2>4 DEF ValidType, Exceeds, Option, None
  <2>7. MemoryFits(memory)
    BY <1>2, <1>3, <2>3, <2>5, <2>6, Zenon DEF MemoryFits
  <2>8. MemoryMade(memory)
    BY <1>3, <2>2, <2>3, <2>5, <2>7, Zenon DEF MemoryMade
  <2> QED
    BY <2>2, <2>8, Zenon DEF MemoryStep
<1>4. CASE new.error # "Ok"
  <2>1. Charged(new, bytes) \in Int /\ Charged(new, bytes) = 0 - 0
    <3>1. 0 \in Nat
      BY <1>2, Zenon
    <3> HIDE DEF bytes
    <3>2. Accountable(new, bytes, 0, 0)
      BY <1>2, <1>4, <3>1, Zenon DEF Accountable
    <3> QED
      BY <3>2, ChargedIs, Zenon
  <2>2. /\ meter' \in [bytes : Int, elements : Int]
        /\ meter'.bytes = meter.bytes /\ meter'.elements = meter.elements
    <3>1. bytes \in Int /\ MeterBytes(new, bytes) /\ 0 - 0 = 0
      BY <1>2
    <3> HIDE DEF bytes
    <3> QED
      BY <1>1, <2>1, <3>1, MeterBytesIs, SMTT(60)
  <2> QED
    BY <1>4, <2>2, Zenon DEF MemoryStep, MemorySame
<1> QED
  BY <1>3, <1>4, Zenon

-----------------------------------------------------------------------------
(* The operations on tables. *)

\* The tables there are keep their sizes.
TableLengths == \A n \in DOMAIN tables : n \in DOMAIN tables' /\ Len(tables'[n].elements) = Len(tables[n].elements)

\* The accounts of elements after table_growing and table_grow_failed.
LEMMA MeterElementsIs ==
    ASSUME IInv, NEW r, NEW amount \in Int, Charged(r, amount) \in Int, MeterElements(r, amount)
    PROVE  /\ meter' \in [bytes : Int, elements : Int]
           /\ meter'.elements = meter.elements + Charged(r, amount) /\ meter'.bytes = meter.bytes
<1> DEFINE charged == Charged(r, amount)
<1>1. meter \in [bytes : Int, elements : Int]
  BY Zenon DEF IInv, Typed
<1>2. meter' = [meter EXCEPT !.elements = @ + charged] /\ charged \in Int
  BY Zenon DEF MeterElements
<1> HIDE DEF charged
<1>3. /\ meter' \in [bytes : Int, elements : Int]
      /\ meter'.elements = meter.elements + charged /\ meter'.bytes = meter.bytes
  BY <1>1, <1>2
<1> QED
  BY <1>3, Zenon DEF charged

\* Whether a table fits depends on its size.
LEMMA TableFitsBySize ==
    ASSUME NEW table \in Tables, NEW items \in Seq(Nat), TableFits(table), Len(items) = Len(table.elements)
    PROVE  TableFits([table EXCEPT !.elements = items])
  BY Zenon DEF TableFits, Tables

\* What there is of a table of the store.
LEMMA TableAt ==
    ASSUME IInv, NEW t \in DOMAIN tables
    PROVE  /\ tables[t] \in Tables /\ TableFits(tables[t])
           /\ tables[t].elements \in Seq(Nat) /\ Len(tables[t].elements) \in Nat
           /\ DOMAIN tables[t].elements = 1..Len(tables[t].elements)
           /\ \A n \in 1..Len(tables[t].elements) : Fine(tables[t].elements[n])
<1>1. tables[t] \in Tables /\ TableFits(tables[t])
  BY SMTT(60) DEF IInv, Typed, WithinBounds
<1>2. tables[t].elements \in Seq(Nat)
  BY <1>1, Zenon DEF Tables
<1>3. Len(tables[t].elements) \in Nat /\ DOMAIN tables[t].elements = 1..Len(tables[t].elements)
  BY <1>2
<1>4. \A n \in 1..Len(tables[t].elements) : Fine(tables[t].elements[n])
  BY <1>3, Zenon DEF IInv, References
<1> QED
  BY <1>1, <1>2, <1>3, <1>4, Zenon

\* Writing into a table what it holds changes nothing.
LEMMA TableBack ==
    ASSUME IInv, NEW t \in DOMAIN tables
    PROVE  [tables EXCEPT ![t].elements = tables[t].elements] = tables
<1>1. tables \in Seq(Tables)
  BY Zenon DEF IInv, Typed
<1>2. \A n \in DOMAIN tables : tables[n] \in Tables
  BY <1>1
<1>3. [tables[t] EXCEPT !.elements = tables[t].elements] = tables[t]
  BY <1>2, Zenon DEF Tables
<1>4. [tables EXCEPT ![t] = tables[t]] = tables
  BY <1>1, SMTT(60)
<1>5. [tables EXCEPT ![t].elements = tables[t].elements] =
          [tables EXCEPT ![t] = [tables[t] EXCEPT !.elements = tables[t].elements]]
  BY Zenon
<1> QED
  BY <1>3, <1>4, <1>5, Zenon

\* The tables when the elements of one are replaced.
LEMMA TableLengthsAre ==
    ASSUME IInv, NEW t \in DOMAIN tables, NEW items \in Seq(Nat), tables' = [tables EXCEPT ![t].elements = items]
    PROVE  /\ DOMAIN tables' = DOMAIN tables
           /\ \A n \in DOMAIN tables : tables'[n].elements = IF n = t THEN items ELSE tables[n].elements
<1>1. tables \in Seq(Tables) /\ \A n \in DOMAIN tables : tables[n] \in Tables
  BY DEF IInv, Typed
<1>2. DOMAIN tables' = DOMAIN tables
  BY Zenon
<1>3. ASSUME NEW n \in DOMAIN tables
      PROVE  tables'[n].elements = IF n = t THEN items ELSE tables[n].elements
  BY <1>1, Zenon DEF Tables
<1> QED
  BY <1>2, <1>3, Zenon

\* Table t has grown by delta, or has not, and grown is how that went.
TableGrows(t, delta, init, f, cost, grown) ==
    /\ t \in DOMAIN tables /\ delta \in Nat /\ Fine(init)
    /\ Grown(grown, tables[t].elements, delta, {init}, f, cost)
    /\ grown.error = "Ok" /\ delta # 0 =>
            /\ Len(tables[t].elements) + delta < TableMax
            /\ ~Exceeds(Len(tables[t].elements) + delta, tables[t].ty.max)
            /\ limits.on => ~Exceeds(Len(tables[t].elements) + delta, limits.table_elements)
    /\ tables' = [tables EXCEPT ![t].elements = grown.contents]
    /\ MeterElements(grown, delta)

\* What that comes to.
TableGrew(delta, f, cost, grown) ==
    /\ TableStep /\ meter' \in [bytes : Int, elements : Int] /\ meter'.bytes = meter.bytes
    /\ grown.spent \in Nat /\ (f.enabled => grown.spent <= f.remaining)
    /\ grown.error # "Ok" => tables' = tables
    /\ \A n \in DOMAIN tables :
            \/ Len(tables'[n].elements) = Len(tables[n].elements)
            \/ Len(tables'[n].elements) - Len(tables[n].elements) = delta /\ grown.spent = cost

\* A growth of a table of the store, by a reference that may be anywhere.
LEMMA TableGrowthKeeps ==
    ASSUME IInv, NEW t, NEW delta, NEW init, NEW f, NEW cost, NEW grown, TableGrows(t, delta, init, f, cost, grown)
    PROVE  TableGrew(delta, f, cost, grown)
<1>0. /\ t \in DOMAIN tables /\ delta \in Nat /\ Fine(init)
      /\ Grown(grown, tables[t].elements, delta, {init}, f, cost)
      /\ grown.error = "Ok" /\ delta # 0 =>
              /\ Len(tables[t].elements) + delta < TableMax
              /\ ~Exceeds(Len(tables[t].elements) + delta, tables[t].ty.max)
              /\ limits.on => ~Exceeds(Len(tables[t].elements) + delta, limits.table_elements)
      /\ tables' = [tables EXCEPT ![t].elements = grown.contents]
      /\ MeterElements(grown, delta)
  BY Zenon DEF TableGrows
<1> USE <1>0
<1> DEFINE table == tables[t]
           items == table.elements
           after == grown.contents
<1>1. /\ table \in Tables /\ TableFits(table) /\ items \in Seq(Nat) /\ Len(items) \in Nat
      /\ \A n \in 1..Len(items) : Fine(items[n])
  BY TableAt, Zenon
<1>2. /\ after \in Seq(Nat) /\ Len(after) \in Nat /\ DOMAIN after = 1..Len(after)
      /\ \A n \in 1..Len(after) : (n <= Len(items) /\ after[n] = items[n]) \/ after[n] = init
      /\ grown.error = "Ok" => Len(after) = Len(items) + delta /\ grown.spent = cost
                               /\ (delta = 0 \/ (grown.asked /\ ~grown.told))
      /\ grown.error # "Ok" => after = items /\ (grown.asked <=> grown.told)
      /\ grown.asked \in BOOLEAN /\ grown.told \in BOOLEAN
      /\ grown.spent \in Nat /\ (f.enabled => grown.spent <= f.remaining)
  <2>1. after \in Seq(Nat)
    BY Zenon DEF Grown
  <2>2. Len(after) \in Nat /\ DOMAIN after = 1..Len(after)
    BY <2>1
  <2> QED
    BY <2>1, <2>2, Zenon DEF Grown
<1>3. Charged(grown, delta) \in Int /\ Charged(grown, delta) = Len(after) - Len(items)
  <2> DEFINE a == Len(after)
             b == Len(items)
  <2>1. Accountable(grown, delta, b, a)
    BY <1>1, <1>2, Zenon DEF Accountable
  <2> HIDE DEF a, b
  <2>2. Charged(grown, delta) \in Int /\ Charged(grown, delta) = a - b
    BY <2>1, ChargedIs, Zenon
  <2> QED
    BY <2>2, Zenon DEF a, b
<1>4. /\ meter' \in [bytes : Int, elements : Int]
      /\ meter'.elements = meter.elements + (Len(after) - Len(items)) /\ meter'.bytes = meter.bytes
  <2>1. delta \in Int
    OBVIOUS
  <2> QED
    BY <1>3, <2>1, MeterElementsIs, Zenon
<1>5. Len(after) >= Len(items)
  BY <1>1, <1>2, SMTT(60)
<1>6. TableFits([table EXCEPT !.elements = after])
  <2>1. CASE Len(after) = Len(items)
    BY <1>1, <1>2, <2>1, TableFitsBySize, Zenon
  <2>2. CASE Len(after) # Len(items)
    <3>1. grown.error = "Ok" /\ Len(after) = Len(items) + delta
      BY <1>2, <2>2, Zenon
    <3>2. delta # 0
      BY <1>1, <2>2, <3>1, SMTT(60)
    <3> DEFINE new == [table EXCEPT !.elements = after]
    <3>3. new.elements = after /\ new.ty = table.ty
      BY <1>1, Zenon DEF Tables
    <3> QED
      BY <3>1, <3>2, <3>3, Zenon DEF TableFits
  <2> QED
    BY <2>1, <2>2, Zenon
<1>7. \A n \in DOMAIN after : Fine(after[n])
  <2>1. ASSUME NEW n \in 1..Len(after), n <= Len(items), after[n] = items[n]
        PROVE  Fine(after[n])
    <3>1. n \in 1..Len(items)
      BY <1>1, <1>2, <2>1, SMTT(60)
    <3> QED
      BY <1>1, <2>1, <3>1, ZenonT(60)
  <2> QED
    BY <1>2, <2>1, Zenon
<1>8. TableSet(t, after)
  BY <1>2, <1>4, <1>5, <1>6, <1>7, ZenonT(60) DEF TableSet
<1>9. grown.error # "Ok" => tables' = tables
  BY <1>2, TableBack, Zenon
<1>10. ASSUME NEW n \in DOMAIN tables
       PROVE  \/ Len(tables'[n].elements) = Len(tables[n].elements)
              \/ Len(tables'[n].elements) - Len(tables[n].elements) = delta /\ grown.spent = cost
  <2>1. tables'[n].elements = IF n = t THEN after ELSE tables[n].elements
    BY <1>2, TableLengthsAre, Zenon
  <2>2. CASE n # t \/ grown.error # "Ok"
    BY <1>2, <2>1, <2>2, Zenon
  <2>3. CASE n = t /\ grown.error = "Ok"
    <3>1. tables'[n].elements = after /\ Len(after) = Len(items) + delta /\ grown.spent = cost
      BY <1>2, <2>1, <2>3, Zenon
    <3>2. (Len(items) + delta) - Len(items) = delta
      BY <1>1
    <3> QED
      BY <2>3, <3>1, <3>2, Zenon
  <2> QED
    BY <2>2, <2>3, Zenon
<1> QED
  BY <1>2, <1>4, <1>8, <1>9, <1>10, ZenonT(60) DEF TableStep, TableGrew

\* A bulk operation on the elements of a table of the store, with references that may
\* be anywhere.
LEMMA TableBulked ==
    ASSUME IInv, NEW t \in DOMAIN tables, NEW r, NEW V, NEW f, Bulked(r, tables[t].elements, V, f),
           \A x \in V : Fine(x),
           tables' = [tables EXCEPT ![t].elements = r.slice], meter' = meter
    PROVE  /\ TableStep /\ TableLengths
           /\ r.error # "Ok" => tables' = tables /\ r.spent = 0
           /\ r.spent \in Nat /\ (f.enabled => r.spent <= f.remaining)
<1> DEFINE items == tables[t].elements
           after == r.slice
<1>1. /\ tables[t] \in Tables /\ TableFits(tables[t]) /\ items \in Seq(Nat) /\ Len(items) \in Nat
      /\ \A n \in 1..Len(items) : Fine(items[n])
  BY TableAt, Zenon
<1>2. /\ after \in Seq(Nat) /\ Len(after) = Len(items) /\ (r.error # "Ok" => after = items /\ r.spent = 0)
      /\ \A n \in 1..Len(items) : after[n] = items[n] \/ after[n] \in V
      /\ r.spent \in Nat /\ (f.enabled => r.spent <= f.remaining)
  BY Zenon DEF Bulked
<1>3. TableFits([tables[t] EXCEPT !.elements = after])
  BY <1>1, <1>2, TableFitsBySize, Zenon
<1>4. meter'.elements = meter.elements + (Len(after) - Len(items)) /\ Len(after) >= Len(items)
  <2>1. meter.elements \in Int
    BY Zenon DEF IInv, Typed
  <2>2. Len(after) - Len(items) = 0 /\ Len(after) >= Len(items)
    BY <1>1, <1>2
  <2> HIDE DEF after, items
  <2> QED
    BY <2>1, <2>2, SMTT(60)
<1>5. \A n \in DOMAIN after : Fine(after[n])
  <2>1. DOMAIN after = 1..Len(items)
    BY <1>2
  <2> QED
    BY <1>1, <1>2, <2>1, Zenon
<1>6. TableSet(t, after)
  BY <1>2, <1>3, <1>4, <1>5, ZenonT(60) DEF TableSet
<1>7. TableLengths
  <2>1. /\ DOMAIN tables' = DOMAIN tables
        /\ \A n \in DOMAIN tables : tables'[n].elements = IF n = t THEN after ELSE tables[n].elements
    BY <1>2, TableLengthsAre, Zenon
  <2> QED
    BY <1>2, <2>1, Zenon DEF TableLengths
<1>8. r.error # "Ok" => tables' = tables
  BY <1>2, TableBack, Zenon
<1> QED
  BY <1>2, <1>6, <1>7, <1>8, Zenon DEF TableStep

\* Table::new with null references, for the host or a module.
LEMMA TableCreated ==
    ASSUME IInv, NEW ty \in Types, ValidType(ty), ty.min < TableMax, NEW init, init.raw = NullRef,
           NEW alloc \in BOOLEAN,
           NEW new, new = Table_new(limits, ty, init, alloc), MeterElements(new, ty.min),
           tables' = IF new.error = "Ok" THEN Append(tables, [ty |-> ty, elements |-> new.contents]) ELSE tables
    PROVE  TableStep /\ meter' \in [bytes : Int, elements : Int] /\ meter'.bytes = meter.bytes
<1> DEFINE size == ty.min
           table == [ty |-> ty, elements |-> new.contents]
<1>1. limits \in Limits /\ meter.elements \in Int
  BY Zenon DEF IInv, Typed
<1>2. init.raw \in Nat /\ ty.min \in Nat /\ ty.max \in Option
  BY SMTT(60) DEF NullRef, Types
<1>3. /\ new.error = "Ok" =>
                /\ new.contents \in Seq(Nat) /\ Len(new.contents) = size
                /\ \A n \in 1..Len(new.contents) : new.contents[n] = init.raw
                /\ limits.on => ~Exceeds(size, limits.table_elements)
                /\ new.asked /\ ~new.told
      /\ new.error # "Ok" => (new.asked <=> new.told)
      /\ new.asked \in BOOLEAN /\ new.told \in BOOLEAN
  BY <1>1, <1>2, TableNew, SMTT(60)
<1>4. CASE new.error = "Ok"
  <2>1. Charged(new, size) \in Int /\ Charged(new, size) = size - 0
    <3>1. 0 \in Nat /\ size = 0 + size /\ size \in Nat
      BY <1>2, <1>3
    <3> HIDE DEF size
    <3>2. Accountable(new, size, 0, size)
      BY <1>3, <1>4, <3>1, Zenon DEF Accountable
    <3> QED
      BY <3>2, ChargedIs, Zenon
  <2>2. /\ meter' \in [bytes : Int, elements : Int]
        /\ meter'.elements = meter.elements + size /\ meter'.bytes = meter.bytes
    <3>1. size \in Int /\ MeterElements(new, size) /\ size - 0 = size
      BY <1>2
    <3> HIDE DEF size
    <3> QED
      BY <2>1, <3>1, MeterElementsIs, Zenon
  <2>3. table \in Tables /\ table.elements = new.contents /\ table.ty = ty /\ Len(table.elements) = size
    BY <1>3, <1>4, Zenon DEF Tables
  <2>4. DOMAIN new.contents = 1..Len(new.contents)
    BY <1>3, <1>4, SMTT(60)
  <2>5. ~Exceeds(ty.min, ty.max)
    BY <1>2 DEF ValidType, Exceeds, Option, None
  <2>6. TableFits(table)
    BY <1>3, <1>4, <2>3, <2>5, ZenonT(60) DEF TableFits
  <2>7. TableMade(table)
    BY <1>3, <1>4, <2>2, <2>3, <2>4, <2>6, ZenonT(60) DEF TableMade
  <2> QED
    BY <2>2, <2>7, Zenon DEF TableStep
<1>5. CASE new.error # "Ok"
  <2>1. Charged(new, size) \in Int /\ Charged(new, size) = 0 - 0
    <3>1. 0 \in Nat /\ size \in Nat
      BY <1>2, <1>3, Zenon
    <3> HIDE DEF size
    <3>2. Accountable(new, size, 0, 0)
      BY <1>3, <1>5, <3>1, Zenon DEF Accountable
    <3> QED
      BY <3>2, ChargedIs, Zenon
  <2>2. /\ meter' \in [bytes : Int, elements : Int]
        /\ meter'.elements = meter.elements /\ meter'.bytes = meter.bytes
    <3>1. size \in Int /\ MeterElements(new, size) /\ 0 - 0 = 0
      BY <1>2
    <3> HIDE DEF size
    <3> QED
      BY <1>1, <2>1, <3>1, MeterElementsIs, SMTT(60)
  <2> QED
    BY <1>5, <2>2, Zenon DEF TableStep, TableSame
<1> QED
  BY <1>4, <1>5, Zenon

-----------------------------------------------------------------------------
(* The host's calls and the instructions. *)

\* The steps FailuresLeaveNothing and GrowthPaid allow.
LeavesNothing ==
    last'.error # "Ok" /\ last'.op \notin {"instantiate", "start"} =>
        /\ UNCHANGED store
        /\ \/ fuel' = fuel
           \/ failures' # failures
           \/ last'.op = "memory.grow" /\ \E m \in DOMAIN memories : memories[m].capacity # None

MemoryPaid(spent) ==
    \A m \in DOMAIN memories :
        LET bytes == Len(memories'[m].data) - Len(memories[m].data)
        IN  bytes # 0 => spent = bytes \div BytesPerFuel

TablePaid(spent) ==
    \A t \in DOMAIN tables :
        LET elements == Len(tables'[t].elements) - Len(tables[t].elements)
        IN  elements # 0 => spent = (elements * RefSize) \div BytesPerFuel

Paid ==
    /\ last'.by = "wasm" /\ fuel.enabled =>
            MemoryPaid(fuel.remaining - fuel'.remaining) /\ TablePaid(fuel.remaining - fuel'.remaining)
    /\ last'.by = "host" /\ last'.op # "set_fuel" => fuel' = fuel
    /\ last'.op # "set_fuel" => fuel'.remaining \in 0..fuel.remaining

\* An operation is a step on the store that leaves the instances and the functions.
Operation == StoreStep /\ RestTyped /\ UNCHANGED <<funcs, instances>> /\ LeavesNothing /\ Paid

\* Nothing is owed where no size changes.
LEMMA SizesSamePaid ==
    ASSUME IInv
    PROVE  /\ MemoryLengths \/ memories' = memories => \A spent : MemoryPaid(spent)
           /\ TableLengths \/ tables' = tables => \A spent : TablePaid(spent)
<1>1. \A m \in DOMAIN memories : Len(memories[m].data) - Len(memories[m].data) = 0
  <2> SUFFICES ASSUME NEW m \in DOMAIN memories PROVE Len(memories[m].data) - Len(memories[m].data) = 0
    BY Zenon
  <2>1. Len(memories[m].data) \in Nat
    BY MemoryAt, Zenon
  <2> QED
    BY <2>1
<1>2. \A t \in DOMAIN tables : Len(tables[t].elements) - Len(tables[t].elements) = 0
  <2> SUFFICES ASSUME NEW t \in DOMAIN tables PROVE Len(tables[t].elements) - Len(tables[t].elements) = 0
    BY Zenon
  <2>1. Len(tables[t].elements) \in Nat
    BY TableAt, Zenon
  <2> QED
    BY <2>1
<1>3. MemoryLengths \/ memories' = memories => \A spent : MemoryPaid(spent)
  BY <1>1, Zenon DEF MemoryLengths, MemoryPaid
<1>4. TableLengths \/ tables' = tables => \A spent : TablePaid(spent)
  BY <1>2, Zenon DEF TableLengths, TablePaid
<1> QED
  BY <1>3, <1>4, Zenon

\* What fuel is after spending.
LEMMA SpendIs ==
    ASSUME IInv, NEW spent \in Nat, fuel.enabled => spent <= fuel.remaining, fuel' = Spend(fuel, spent)
    PROVE  /\ fuel' \in Fuels /\ fuel'.remaining \in 0..fuel.remaining
           /\ fuel.enabled => fuel.remaining - fuel'.remaining = spent
           /\ spent = 0 => fuel' = fuel
<1>1. fuel \in Fuels
  BY Zenon DEF IInv, Typed
<1>2. CASE fuel.enabled
  <2>1. fuel' = [fuel EXCEPT !.remaining = @ - spent]
    BY <1>2, Zenon DEF Spend
  <2>2. fuel.remaining \in Nat /\ fuel.remaining - spent \in Nat /\ fuel.remaining - spent <= fuel.remaining
        /\ fuel.remaining - (fuel.remaining - spent) = spent
    BY <1>1, <1>2 DEF Fuels
  <2>3. fuel'.remaining = fuel.remaining - spent /\ fuel' \in Fuels
    BY <1>1, <2>1, <2>2, Zenon DEF Fuels
  <2>4. spent = 0 => fuel' = fuel
    BY <1>1, <2>1, <2>2, SMTT(60) DEF Fuels
  <2> QED
    BY <2>2, <2>3, <2>4, SMTT(60)
<1>3. CASE ~fuel.enabled
  BY <1>1, <1>3, SMTT(60) DEF Spend, Fuels
<1> QED
  BY <1>2, <1>3, Zenon

\* A step of the host leaves the fuel.
LEMMA HostPaid ==
    ASSUME IInv, fuel' = fuel, last'.by = "host"
    PROVE  fuel' \in Fuels /\ Paid
<1>1. fuel \in Fuels /\ fuel.remaining \in 0..fuel.remaining
  BY DEF IInv, Typed, Fuels
<1>2. "host" # "wasm"
  BY Zenon
<1> QED
  BY <1>1, <1>2, Zenon DEF Paid

\* A step of an instance that pays what it spends.
LEMMA WasmPaid ==
    ASSUME IInv, NEW spent \in Nat, fuel.enabled => spent <= fuel.remaining, fuel' = Spend(fuel, spent),
           last'.by = "wasm", MemoryPaid(spent), TablePaid(spent)
    PROVE  fuel' \in Fuels /\ Paid /\ (spent = 0 => fuel' = fuel)
<1>1. /\ fuel' \in Fuels /\ fuel'.remaining \in 0..fuel.remaining
      /\ fuel.enabled => fuel.remaining - fuel'.remaining = spent
      /\ spent = 0 => fuel' = fuel
  BY SpendIs, Zenon
<1>2. "host" # "wasm"
  BY Zenon
<1> QED
  BY <1>1, <1>2, Zenon DEF Paid

\* The failures of the allocator are counted.
LEMMA AllocatesIs ==
    ASSUME IInv, NEW alloc \in BOOLEAN, Allocates(alloc)
    PROVE  failures' \in Nat /\ (~alloc => failures' # failures)
  BY DEF IInv, Typed, Allocates

\* What is recorded of an operation.
LEMMA DidIs ==
    ASSUME NEW op, NEW by, NEW error, Did(op, by, error)
    PROVE  last'.op = op /\ last'.by = by /\ last'.error = error
  BY Zenon DEF Did

\* A part of the store that a step leaves alone.
LEMMA UnchangedTyped ==
    ASSUME IInv
    PROVE  /\ failures \in Nat /\ fuel \in Fuels /\ meter \in [bytes : Int, elements : Int]
           /\ memories' = memories /\ meter'.bytes = meter.bytes => MemoryStep
           /\ tables' = tables /\ meter'.elements = meter.elements => TableStep
           /\ elems' = elems => ElemsStep
           /\ datas' = datas => DatasStep
  BY Zenon DEF IInv, Typed, MemoryStep, MemorySame, TableStep, TableSame, ElemsStep, DatasStep

\* Store::set_fuel
LEMMA SetFuel ==
    ASSUME IInv, NEW amount \in FuelAmounts, set_fuel(amount)
    PROVE  Operation
<1>1. /\ last'.op = "set_fuel" /\ last'.by = "host"
      /\ last'.error # "Ok" => ~fuel.enabled
  BY DidIs, Zenon DEF set_fuel
<1>2. /\ UNCHANGED store /\ UNCHANGED <<limits, meter, failures>>
      /\ fuel' = IF fuel.enabled THEN [fuel EXCEPT !.remaining = amount] ELSE fuel
  BY Zenon DEF set_fuel
<1>3. memories' = memories /\ tables' = tables /\ elems' = elems /\ datas' = datas /\ funcs' = funcs /\ instances' = instances
  BY <1>2, Zenon DEF store
<1>4. fuel \in Fuels /\ fuel' \in Fuels
  <2>1. fuel \in Fuels /\ amount \in Nat
    BY OperandsAssumption, Zenon DEF IInv, Typed
  <2> QED
    BY <1>2, <2>1, Zenon DEF Fuels
<1>5. StoreStep
  BY <1>2, <1>3, UnchangedTyped, Zenon DEF StoreStep
<1>6. RestTyped
  BY <1>2, <1>4, UnchangedTyped, Zenon DEF RestTyped
<1>7. LeavesNothing
  BY <1>1, <1>2, Zenon DEF LeavesNothing
<1>8. Paid
  <2>1. "host" # "wasm"
    BY Zenon
  <2> QED
    BY <1>1, <2>1, Zenon DEF Paid
<1> QED
  BY <1>3, <1>5, <1>6, <1>7, <1>8, ZenonT(60) DEF Operation

\* Memory::new and new_static
LEMMA HostNewMemory ==
    ASSUME IInv, NEW ty \in MemoryTypes, NEW capacity \in Capacities, NEW alloc \in BOOLEAN,
           NewMemory(ty, capacity, alloc)
    PROVE  Operation
<1> DEFINE new == Memory_new(limits, ty, capacity, alloc)
<1>1. /\ ValidType(ty) /\ Allocates(alloc)
      /\ memories' = IF new.error = "Ok"
                     THEN Append(memories, [ty |-> ty, data |-> new.contents, capacity |-> capacity])
                     ELSE memories
      /\ MeterBytes(new, ToBytes(ty.min)) /\ Did("Memory::new", "host", new.error)
      /\ UNCHANGED <<tables, elems, datas, funcs, instances, fuel, limits>>
  BY Zenon DEF NewMemory
<1>2. ty \in Types /\ capacity \in Option
  BY OperandsAssumption, Zenon
<1> HIDE DEF new
<1>3. MemoryStep /\ meter' \in [bytes : Int, elements : Int] /\ meter'.elements = meter.elements
  BY <1>1, <1>2, MemoryCreated, Zenon DEF new
<1>4. last'.op = "Memory::new" /\ last'.by = "host" /\ last'.error = new.error
  BY <1>1, DidIs, Zenon
<1>5. failures' \in Nat /\ (~alloc => failures' # failures)
  BY <1>1, AllocatesIs, Zenon
<1>6. /\ tables' = tables /\ elems' = elems /\ datas' = datas /\ funcs' = funcs /\ instances' = instances
      /\ fuel' = fuel /\ limits' = limits
  BY <1>1, Zenon
<1>7. StoreStep
  BY <1>3, <1>6, UnchangedTyped, Zenon DEF StoreStep
<1>8. fuel' \in Fuels /\ Paid
  BY <1>4, <1>6, HostPaid, ZenonT(60)
<1>9. RestTyped
  BY <1>3, <1>5, <1>6, <1>8, Zenon DEF RestTyped
<1>10. LeavesNothing
  BY <1>1, <1>4, <1>6, Zenon DEF LeavesNothing, store
<1> QED
  BY <1>6, <1>7, <1>8, <1>9, <1>10, ZenonT(60) DEF Operation

\* Table::new
LEMMA HostNewTable ==
    ASSUME IInv, NEW ty \in TableTypes, NEW rty, NEW alloc \in BOOLEAN,
           NewTable(ty, [ty |-> rty, raw |-> NullRef], alloc)
    PROVE  Operation
<1> DEFINE init == [ty |-> rty, raw |-> NullRef]
           new == Table_new(limits, ty, init, alloc)
<1>1. /\ ValidType(ty) /\ Allocates(alloc)
      /\ tables' = IF new.error = "Ok" THEN Append(tables, [ty |-> ty, elements |-> new.contents]) ELSE tables
      /\ MeterElements(new, ty.min) /\ Did("Table::new", "host", new.error)
      /\ UNCHANGED <<memories, elems, datas, funcs, instances, fuel, limits>>
  BY Zenon DEF NewTable
<1>2. ty \in Types /\ ty.min < TableMax /\ init.raw = NullRef
  BY OperandsAssumption, Zenon
<1> HIDE DEF new, init
<1>3. TableStep /\ meter' \in [bytes : Int, elements : Int] /\ meter'.bytes = meter.bytes
  BY <1>1, <1>2, TableCreated, Zenon DEF new
<1>4. last'.op = "Table::new" /\ last'.by = "host" /\ last'.error = new.error
  BY <1>1, DidIs, Zenon
<1>5. failures' \in Nat /\ (~alloc => failures' # failures)
  BY <1>1, AllocatesIs, Zenon
<1>6. /\ memories' = memories /\ elems' = elems /\ datas' = datas /\ funcs' = funcs /\ instances' = instances
      /\ fuel' = fuel /\ limits' = limits
  BY <1>1, Zenon
<1>7. StoreStep
  BY <1>3, <1>6, UnchangedTyped, Zenon DEF StoreStep
<1>8. fuel' \in Fuels /\ Paid
  BY <1>4, <1>6, HostPaid, Zenon
<1>9. RestTyped
  BY <1>3, <1>5, <1>6, <1>8, Zenon DEF RestTyped
<1>10. LeavesNothing
  BY <1>1, <1>4, <1>6, Zenon DEF LeavesNothing, store
<1> QED
  BY <1>6, <1>7, <1>8, <1>9, <1>10, ZenonT(60) DEF Operation

\* Memory::grow
LEMMA HostGrowsMemory ==
    ASSUME IInv, NEW m \in DOMAIN memories, NEW additional \in Deltas, NEW alloc \in BOOLEAN,
           HostMemoryGrow(m, additional, alloc)
    PROVE  Operation
<1> DEFINE grown == Memory_grow(limits, memories[m], additional, NoFuel, alloc)
           outcome == IF grown.error = "Ok" THEN "Ok" ELSE "OutOfBoundsGrowth"
<1>1. /\ Allocates(alloc) /\ memories' = [memories EXCEPT ![m].data = grown.contents]
      /\ MeterBytes(grown, ToBytes(additional)) /\ Did("Memory::grow", "host", outcome)
      /\ UNCHANGED <<tables, elems, datas, funcs, instances, fuel, limits>>
  BY Zenon DEF HostMemoryGrow
<1>2. additional \in Nat /\ NoFuel \in Fuels
  BY OperandsAssumption, Zenon DEF NoFuel, Fuels
<1>0. grown = Memory_grow(limits, memories[m], additional, NoFuel, alloc)
  BY Zenon
<1> HIDE DEF grown
<1>3. /\ MemoryStep /\ meter' \in [bytes : Int, elements : Int] /\ meter'.elements = meter.elements
      /\ grown.error # "Ok" => memories' = memories
  <2>1. memories' = [memories EXCEPT ![m].data = grown.contents]
    BY <1>1, Zenon
  <2>2. MeterBytes(grown, ToBytes(additional))
    BY <1>1, Zenon
  <2>3. additional \in Nat
    BY <1>2, Zenon
  <2>4. NoFuel \in Fuels
    BY <1>2, Zenon
  <2>5. MemoryGrows(m, additional, NoFuel, alloc, grown)
    BY <1>0, <2>1, <2>2, <2>3, <2>4, ZenonT(60) DEF MemoryGrows
  <2> QED
    BY <2>5, MemoryGrown, Zenon
<1>4. last'.op = "Memory::grow" /\ last'.by = "host" /\ (last'.error # "Ok" => grown.error # "Ok")
  BY <1>1, DidIs, Zenon
<1>5. failures' \in Nat
  BY <1>1, AllocatesIs, Zenon
<1>6. /\ tables' = tables /\ elems' = elems /\ datas' = datas /\ funcs' = funcs /\ instances' = instances
      /\ fuel' = fuel /\ limits' = limits
  BY <1>1, Zenon
<1>7. StoreStep
  BY <1>3, <1>6, UnchangedTyped, Zenon DEF StoreStep
<1>8. fuel' \in Fuels /\ Paid
  BY <1>4, <1>6, HostPaid, Zenon
<1>9. RestTyped
  BY <1>3, <1>5, <1>6, <1>8, Zenon DEF RestTyped
<1>10. LeavesNothing
  BY <1>3, <1>4, <1>6, Zenon DEF LeavesNothing, store
<1> QED
  BY <1>6, <1>7, <1>8, <1>9, <1>10, ZenonT(60) DEF Operation

\* Memory::write
LEMMA HostWritesMemory ==
    ASSUME IInv, NEW m \in DOMAIN memories, NEW offset \in Offsets, NEW v \in Values,
           HostMemoryWrite(m, offset, <<v>>)
    PROVE  Operation
<1> DEFINE bytes == <<v>>
           written == CopyFrom(memories[m].data, offset, bytes, 0, Len(bytes), NoFuel, 1)
<1>1. /\ memories' = [memories EXCEPT ![m].data = written.slice]
      /\ Did("Memory::write", "host", written.error)
      /\ UNCHANGED <<tables, elems, datas, funcs, instances, fuel, limits, meter, failures>>
  BY Zenon DEF HostMemoryWrite
<1>2. /\ offset \in Nat /\ NoFuel \in Fuels /\ bytes \in Seq(Nat) /\ Len(bytes) \in Nat
      /\ 0 \in Nat /\ 1 \in Nat
  BY OperandsAssumption, SMTT(60) DEF NoFuel, Fuels
<1>3. memories[m].data \in Seq(Nat)
  BY MemoryAt, Zenon
<1> HIDE DEF bytes
<1>4. Bulked(written, memories[m].data, Held(bytes), NoFuel)
  BY <1>2, <1>3, CopyWrites, Zenon
<1> HIDE DEF written
<1>5. MemoryStep /\ (written.error # "Ok" => memories' = memories)
  BY <1>1, <1>4, MemoryBulked, Zenon
<1>6. last'.op = "Memory::write" /\ last'.by = "host" /\ last'.error = written.error
  BY <1>1, DidIs, Zenon
<1>7. /\ tables' = tables /\ elems' = elems /\ datas' = datas /\ funcs' = funcs /\ instances' = instances
      /\ fuel' = fuel /\ limits' = limits /\ meter' = meter /\ failures' = failures
  BY <1>1, Zenon
<1>8. StoreStep
  BY <1>5, <1>7, UnchangedTyped, ZenonT(60) DEF StoreStep
<1>9. fuel' \in Fuels /\ Paid
  BY <1>6, <1>7, HostPaid, Zenon
<1>10. RestTyped
  BY <1>7, <1>9, UnchangedTyped, Zenon DEF RestTyped
<1>11. LeavesNothing
  BY <1>5, <1>6, <1>7, Zenon DEF LeavesNothing, store
<1> QED
  BY <1>7, <1>8, <1>9, <1>10, <1>11, ZenonT(60) DEF Operation

\* Table::grow; an element type that does not match changes nothing.
LEMMA HostGrowsTable ==
    ASSUME IInv, NEW t \in DOMAIN tables, NEW delta \in Deltas, NEW rty, NEW alloc \in BOOLEAN,
           HostTableGrow(t, delta, [ty |-> rty, raw |-> NullRef], alloc)
    PROVE  Operation
<1> DEFINE init == [ty |-> rty, raw |-> NullRef]
           mismatch == init.ty # tables[t].ty.element
           none == [NoGrowth(tables[t].elements) EXCEPT !.error = "ElementTypeMismatch"]
           some == Table_grow(limits, tables[t], delta, init.raw, NoFuel, alloc)
           grown == IF mismatch THEN none ELSE some
           cost == fuel_for_copying_values(delta, RefSize)
<1>1. /\ Allocates(alloc) /\ tables' = [tables EXCEPT ![t].elements = grown.contents]
      /\ MeterElements(grown, delta) /\ Did("Table::grow", "host", grown.error)
      /\ UNCHANGED <<memories, elems, datas, funcs, instances, fuel, limits>>
  BY Zenon DEF HostTableGrow
<1>2. delta \in Nat /\ NoFuel \in Fuels /\ init.raw = NullRef /\ NullRef \in Nat /\ limits \in Limits
  BY OperandsAssumption, Zenon DEF NoFuel, Fuels, NullRef, IInv, Typed
<1>3. tables[t] \in Tables /\ tables[t].elements \in Seq(Nat) /\ Len(tables[t].elements) \in Nat
  BY TableAt, Zenon
<1>4. /\ Grown(grown, tables[t].elements, delta, {NullRef}, NoFuel, cost)
      /\ grown.error = "Ok" /\ delta # 0 =>
                /\ Len(tables[t].elements) + delta < TableMax
                /\ ~Exceeds(Len(tables[t].elements) + delta, tables[t].ty.max)
                /\ limits.on => ~Exceeds(Len(tables[t].elements) + delta, limits.table_elements)
  <2>1. CASE mismatch
    <3>1. grown = none
      BY <2>1, Zenon
    <3>2. /\ none.error = "ElementTypeMismatch" /\ none.contents = tables[t].elements /\ none.spent = 0
          /\ none.asked = FALSE /\ none.told = FALSE
      BY Zenon DEF NoGrowth
    <3>3. ~NoFuel.enabled /\ FALSE \in BOOLEAN /\ none.spent \in Nat
      BY <3>2, SMTT(60) DEF NoFuel
    <3> HIDE DEF none, grown
    <3>4. \A n \in 1..Len(tables[t].elements) : n <= Len(tables[t].elements)
      BY <1>3
    <3>5. none.error # "Ok"
      BY <3>2, Zenon
    <3>6. Grown(none, tables[t].elements, delta, {NullRef}, NoFuel, cost)
      BY <1>3, <3>2, <3>3, <3>4, <3>5, ZenonT(60) DEF Grown
    <3> QED
      BY <3>1, <3>5, <3>6, Zenon
  <2>2. CASE ~mismatch
    <3>1. grown = some /\ some = Table_grow(limits, tables[t], delta, NullRef, NoFuel, alloc)
      BY <1>2, <2>2, Zenon
    <3> HIDE DEF grown, some
    <3> QED
      BY <1>2, <1>3, <3>1, TableGrow, Zenon
  <2> QED
    BY <2>1, <2>2, Zenon
<1> HIDE DEF grown, cost
<1>5. /\ TableStep /\ meter' \in [bytes : Int, elements : Int] /\ meter'.bytes = meter.bytes
      /\ grown.error # "Ok" => tables' = tables
  <2>1. Fine(NullRef)
    BY Zenon DEF Fine
  <2>2. tables' = [tables EXCEPT ![t].elements = grown.contents]
    BY <1>1, Zenon
  <2>3. MeterElements(grown, delta)
    BY <1>1, Zenon
  <2>4. delta \in Nat
    BY <1>2, Zenon
  <2>5. Grown(grown, tables[t].elements, delta, {NullRef}, NoFuel, cost)
    BY <1>4, Zenon
  <2>6. grown.error = "Ok" /\ delta # 0 =>
                /\ Len(tables[t].elements) + delta < TableMax
                /\ ~Exceeds(Len(tables[t].elements) + delta, tables[t].ty.max)
                /\ limits.on => ~Exceeds(Len(tables[t].elements) + delta, limits.table_elements)
    BY <1>4, Zenon
  <2> QED
    <3>1. TableGrows(t, delta, NullRef, NoFuel, cost, grown)
      BY <2>1, <2>2, <2>3, <2>4, <2>5, <2>6, ZenonT(60) DEF TableGrows
    <3>2. TableGrew(delta, NoFuel, cost, grown)
      BY <3>1, TableGrowthKeeps, Zenon
    <3> QED
      BY <3>2, Zenon DEF TableGrew
<1>6. last'.op = "Table::grow" /\ last'.by = "host" /\ last'.error = grown.error
  BY <1>1, DidIs, Zenon
<1>7. failures' \in Nat
  BY <1>1, AllocatesIs, Zenon
<1>8. /\ memories' = memories /\ elems' = elems /\ datas' = datas /\ funcs' = funcs /\ instances' = instances
      /\ fuel' = fuel /\ limits' = limits
  BY <1>1, Zenon
<1>9. StoreStep
  BY <1>5, <1>8, UnchangedTyped, Zenon DEF StoreStep
<1>10. fuel' \in Fuels /\ Paid
  BY <1>6, <1>8, HostPaid, Zenon
<1>11. RestTyped
  BY <1>5, <1>7, <1>8, <1>10, Zenon DEF RestTyped
<1>12. LeavesNothing
  BY <1>5, <1>6, <1>8, Zenon DEF LeavesNothing, store
<1> QED
  BY <1>8, <1>9, <1>10, <1>11, <1>12, ZenonT(60) DEF Operation

\* A growth that succeeds is one for the handler too.
LEMMA GrowResultIs ==
    GrowResult("Ok") = "Ok"
  BY Zenon DEF GrowResult

\* What an instance names is in the store.
LEMMA Named ==
    ASSUME IInv, NEW i \in DOMAIN instances
    PROVE  /\ \A k \in DOMAIN Entity(i).memories : Entity(i).memories[k] \in DOMAIN memories
           /\ \A k \in DOMAIN Entity(i).tables : Entity(i).tables[k] \in DOMAIN tables
           /\ \A k \in DOMAIN Entity(i).elems : Entity(i).elems[k] \in DOMAIN elems
           /\ \A k \in DOMAIN Entity(i).datas : Entity(i).datas[k] \in DOMAIN datas
  BY Zenon DEF IInv, Resolved, Resolves, Entity

\* The references a program comes by may be anywhere.
LEMMA RefsFine ==
    ASSUME IInv, NEW i \in DOMAIN instances, NEW r \in RefsOf(i)
    PROVE  Fine(r) /\ r \in Nat
<1>1. CASE r = NullRef
  BY <1>1, Zenon DEF Fine, NullRef
<1>2. CASE r \in Range(Entity(i).funcs)
  <2>1. PICK n \in DOMAIN Entity(i).funcs : r = Entity(i).funcs[n]
    BY <1>2, Zenon DEF Range
  <2>2. Fine(r)
    BY <2>1, Zenon DEF IInv, References, Entity
  <2>3. instances \in Seq(InstanceTypes)
    BY Zenon DEF IInv, Typed
  <2>5. instances[i] \in InstanceTypes
    BY <2>3
  <2>6. instances[i].entity \in Entities
    BY <2>5, Zenon DEF InstanceTypes
  <2>4. Entity(i).funcs \in Seq(Nat)
    BY <2>6, Zenon DEF Entities, Entity
  <2> QED
    BY <2>1, <2>2, <2>4, ElementIs, ZenonT(60)
<1>3. CASE r \in UNION {Range(tables[Entity(i).tables[k]].elements) : k \in DOMAIN Entity(i).tables}
  <2>1. PICK k \in DOMAIN Entity(i).tables : r \in Range(tables[Entity(i).tables[k]].elements)
    BY <1>3, Zenon
  <2>2. PICK n \in DOMAIN tables[Entity(i).tables[k]].elements : r = tables[Entity(i).tables[k]].elements[n]
    BY <2>1, Zenon DEF Range
  <2>3. Entity(i).tables[k] \in DOMAIN tables
    BY Named, Zenon
  <2>4. Fine(r)
    BY <2>2, <2>3, Zenon DEF IInv, References
  <2>5. tables[Entity(i).tables[k]].elements \in Seq(Nat)
    BY <2>3, TableAt, Zenon
  <2> QED
    BY <2>2, <2>4, <2>5, ElementIs, ZenonT(60)
<1> QED
  BY <1>1, <1>2, <1>3, Zenon DEF RefsOf

\* memory.grow
LEMMA GrowsMemory ==
    ASSUME IInv, NEW i \in DOMAIN instances, NEW k \in DOMAIN Entity(i).memories, NEW delta \in Deltas,
           NEW alloc \in BOOLEAN, memory_grow(i, k, delta, alloc)
    PROVE  Operation
<1> DEFINE m == Entity(i).memories[k]
           grown == Memory_grow(limits, memories[m], delta, fuel, alloc)
           result == GrowResult(grown.error)
<1>1. /\ Allocates(alloc) /\ memories' = [memories EXCEPT ![m].data = grown.contents]
      /\ fuel' = Spend(fuel, grown.spent) /\ MeterBytes(grown, ToBytes(delta))
      /\ Did("memory.grow", "wasm", result)
      /\ UNCHANGED <<tables, elems, datas, funcs, instances, limits>>
  BY Zenon DEF memory_grow
<1>2. delta \in Nat /\ fuel \in Fuels
  BY OperandsAssumption, Zenon DEF IInv, Typed
<1>3. m \in DOMAIN memories /\ grown = Memory_grow(limits, memories[m], delta, fuel, alloc)
  BY Named, Zenon
<1>4. result # "Ok" => grown.error # "Ok"
  BY GrowResultIs, Zenon
<1> HIDE DEF m, grown, result
<1>5. /\ MemoryStep /\ meter' \in [bytes : Int, elements : Int] /\ meter'.elements = meter.elements
      /\ grown.spent \in Nat /\ (fuel.enabled => grown.spent <= fuel.remaining)
      /\ grown.error # "Ok" =>
                memories' = memories /\ (grown.spent = 0 \/ memories[m].capacity # None \/ ~alloc)
      /\ \A n \in DOMAIN memories :
                \/ Len(memories'[n].data) = Len(memories[n].data)
                \/ /\ Len(memories'[n].data) - Len(memories[n].data) = delta * PageSize
                   /\ grown.spent = MemoryCost(delta)
  <2>1. memories' = [memories EXCEPT ![m].data = grown.contents]
    BY <1>1, Zenon
  <2>2. MeterBytes(grown, ToBytes(delta))
    BY <1>1, Zenon
  <2>3. delta \in Nat
    BY <1>2, Zenon
  <2>4. fuel \in Fuels
    BY <1>2, Zenon
  <2>5. m \in DOMAIN memories
    BY <1>3, Zenon
  <2>6. grown = Memory_grow(limits, memories[m], delta, fuel, alloc)
    BY <1>3, Zenon
  <2>7. MemoryGrows(m, delta, fuel, alloc, grown)
    BY <2>1, <2>2, <2>3, <2>4, <2>5, <2>6, ZenonT(60) DEF MemoryGrows
  <2> QED
    BY <2>7, MemoryGrown, Zenon
<1>6. last'.op = "memory.grow" /\ last'.by = "wasm" /\ last'.error = result
  BY <1>1, DidIs, Zenon
<1>7. failures' \in Nat /\ (~alloc => failures' # failures)
  BY <1>1, AllocatesIs, Zenon
<1>8. /\ tables' = tables /\ elems' = elems /\ datas' = datas /\ funcs' = funcs /\ instances' = instances
      /\ limits' = limits
  BY <1>1, Zenon
<1>9. StoreStep
  BY <1>5, <1>8, UnchangedTyped, Zenon DEF StoreStep
<1>10. MemoryPaid(grown.spent)
  <2> SUFFICES ASSUME NEW n \in DOMAIN memories, Len(memories'[n].data) - Len(memories[n].data) # 0
               PROVE  grown.spent = (Len(memories'[n].data) - Len(memories[n].data)) \div BytesPerFuel
    BY Zenon DEF MemoryPaid
  <2>1. Len(memories'[n].data) # Len(memories[n].data)
    <3>1. Len(memories[n].data) \in Nat
      BY MemoryAt, Zenon
    <3> QED
      BY <3>1
  <2> QED
    BY <1>5, <2>1, Zenon DEF MemoryCost, fuel_for_copying_values
<1>11. fuel' \in Fuels /\ Paid /\ (grown.spent = 0 => fuel' = fuel)
  <2>1. TablePaid(grown.spent)
    BY <1>8, SizesSamePaid, Zenon
  <2> QED
    BY <1>1, <1>5, <1>6, <1>10, <2>1, WasmPaid, ZenonT(60)
<1>12. RestTyped
  BY <1>5, <1>7, <1>8, <1>11, ZenonT(60) DEF RestTyped
<1>13. LeavesNothing
  BY <1>3, <1>4, <1>5, <1>6, <1>7, <1>8, <1>11, ZenonT(60) DEF LeavesNothing, store
<1> QED
  BY <1>8, <1>9, <1>11, <1>12, <1>13, ZenonT(60) DEF Operation

\* table.grow
LEMMA GrowsTable ==
    ASSUME IInv, NEW i \in DOMAIN instances, NEW k \in DOMAIN Entity(i).tables, NEW delta \in Deltas,
           NEW init \in RefsOf(i), NEW alloc \in BOOLEAN, table_grow(i, k, delta, init, alloc)
    PROVE  Operation
<1> DEFINE t == Entity(i).tables[k]
           grown == Table_grow(limits, tables[t], delta, init, fuel, alloc)
           result == GrowResult(grown.error)
           cost == fuel_for_copying_values(delta, RefSize)
<1>1. /\ Allocates(alloc) /\ tables' = [tables EXCEPT ![t].elements = grown.contents]
      /\ fuel' = Spend(fuel, grown.spent) /\ MeterElements(grown, delta)
      /\ Did("table.grow", "wasm", result)
      /\ UNCHANGED <<memories, elems, datas, funcs, instances, limits>>
  BY Zenon DEF table_grow
<1>2. delta \in Nat /\ fuel \in Fuels /\ limits \in Limits
  BY OperandsAssumption, Zenon DEF IInv, Typed
<1>3. t \in DOMAIN tables /\ grown = Table_grow(limits, tables[t], delta, init, fuel, alloc)
  BY Named, Zenon
<1>4. result # "Ok" => grown.error # "Ok"
  BY GrowResultIs, Zenon
<1>5. Fine(init) /\ init \in Nat
  BY RefsFine, Zenon
<1> HIDE DEF t, grown, result
<1>6. tables[t] \in Tables
  BY <1>3, TableAt, Zenon
<1>7. /\ Grown(grown, tables[t].elements, delta, {init}, fuel, cost)
      /\ grown.error = "Ok" /\ delta # 0 =>
                /\ Len(tables[t].elements) + delta < TableMax
                /\ ~Exceeds(Len(tables[t].elements) + delta, tables[t].ty.max)
                /\ limits.on => ~Exceeds(Len(tables[t].elements) + delta, limits.table_elements)
      /\ grown.error # "Ok" => grown.spent = 0 \/ ~alloc
  BY <1>2, <1>3, <1>5, <1>6, TableGrow, ZenonT(60)
<1> HIDE DEF cost
<1>8. /\ TableStep /\ meter' \in [bytes : Int, elements : Int] /\ meter'.bytes = meter.bytes
      /\ grown.spent \in Nat /\ (fuel.enabled => grown.spent <= fuel.remaining)
      /\ grown.error # "Ok" => tables' = tables
      /\ \A n \in DOMAIN tables :
                \/ Len(tables'[n].elements) = Len(tables[n].elements)
                \/ Len(tables'[n].elements) - Len(tables[n].elements) = delta /\ grown.spent = cost
  <2>1. t \in DOMAIN tables
    BY <1>3, Zenon
  <2>7. Fine(init)
    BY <1>5, Zenon
  <2>2. tables' = [tables EXCEPT ![t].elements = grown.contents]
    BY <1>1, Zenon
  <2>3. MeterElements(grown, delta)
    BY <1>1, Zenon
  <2>4. delta \in Nat
    BY <1>2, Zenon
  <2>5. Grown(grown, tables[t].elements, delta, {init}, fuel, cost)
    BY <1>7, Zenon
  <2>6. grown.error = "Ok" /\ delta # 0 =>
                /\ Len(tables[t].elements) + delta < TableMax
                /\ ~Exceeds(Len(tables[t].elements) + delta, tables[t].ty.max)
                /\ limits.on => ~Exceeds(Len(tables[t].elements) + delta, limits.table_elements)
    BY <1>7, Zenon
  <2> QED
    <3>1. TableGrows(t, delta, init, fuel, cost, grown)
      BY <2>1, <2>7, <2>2, <2>3, <2>4, <2>5, <2>6, ZenonT(60) DEF TableGrows
    <3>2. TableGrew(delta, fuel, cost, grown)
      BY <3>1, TableGrowthKeeps, Zenon
    <3> QED
      BY <3>2, Zenon DEF TableGrew
<1>9. last'.op = "table.grow" /\ last'.by = "wasm" /\ last'.error = result
  BY <1>1, DidIs, Zenon
<1>10. failures' \in Nat /\ (~alloc => failures' # failures)
  BY <1>1, AllocatesIs, Zenon
<1>11. /\ memories' = memories /\ elems' = elems /\ datas' = datas /\ funcs' = funcs /\ instances' = instances
       /\ limits' = limits
  BY <1>1, Zenon
<1>12. StoreStep
  BY <1>8, <1>11, UnchangedTyped, Zenon DEF StoreStep
<1>13. TablePaid(grown.spent)
  <2> SUFFICES ASSUME NEW n \in DOMAIN tables, Len(tables'[n].elements) - Len(tables[n].elements) # 0
               PROVE  grown.spent = ((Len(tables'[n].elements) - Len(tables[n].elements)) * RefSize) \div BytesPerFuel
    BY Zenon DEF TablePaid
  <2>1. Len(tables'[n].elements) # Len(tables[n].elements)
    <3>1. Len(tables[n].elements) \in Nat
      BY TableAt, Zenon
    <3> QED
      BY <3>1
  <2> QED
    BY <1>8, <2>1, Zenon DEF cost, fuel_for_copying_values
<1>14. fuel' \in Fuels /\ Paid /\ (grown.spent = 0 => fuel' = fuel)
  <2>1. MemoryPaid(grown.spent)
    BY <1>11, SizesSamePaid, Zenon
  <2> QED
    BY <1>1, <1>8, <1>9, <1>13, <2>1, WasmPaid, ZenonT(60)
<1>15. RestTyped
  BY <1>8, <1>10, <1>11, <1>14, ZenonT(60) DEF RestTyped
<1>16. LeavesNothing
  BY <1>4, <1>7, <1>8, <1>9, <1>10, <1>11, <1>14, ZenonT(60) DEF LeavesNothing, store
<1> QED
  BY <1>11, <1>12, <1>14, <1>15, <1>16, ZenonT(60) DEF Operation

\* A bulk instruction on a memory.
LEMMA BulkMemory ==
    ASSUME IInv, NEW m \in DOMAIN memories, NEW op, NEW r, NEW V, Bulked(r, memories[m].data, V, fuel),
           OnMemory(op, m, r)
    PROVE  Operation
<1>1. /\ memories' = [memories EXCEPT ![m].data = r.slice] /\ fuel' = Spend(fuel, r.spent)
      /\ Did(op, "wasm", r.error)
      /\ UNCHANGED <<tables, elems, datas, funcs, instances, limits, meter, failures>>
  BY Zenon DEF OnMemory
<1>2. /\ tables' = tables /\ elems' = elems /\ datas' = datas /\ funcs' = funcs /\ instances' = instances
      /\ limits' = limits /\ meter' = meter /\ failures' = failures
  BY <1>1, Zenon
<1>3. /\ MemoryStep /\ MemoryLengths
      /\ r.error # "Ok" => memories' = memories /\ r.spent = 0
      /\ r.spent \in Nat /\ (fuel.enabled => r.spent <= fuel.remaining)
  BY <1>1, <1>2, MemoryBulked, Zenon
<1>4. last'.op = op /\ last'.by = "wasm" /\ last'.error = r.error
  BY <1>1, DidIs, Zenon
<1>5. StoreStep
  BY <1>2, <1>3, UnchangedTyped, Zenon DEF StoreStep
<1>6. fuel' \in Fuels /\ Paid /\ (r.spent = 0 => fuel' = fuel)
  <2>1. MemoryPaid(r.spent) /\ TablePaid(r.spent)
    BY <1>2, <1>3, SizesSamePaid, ZenonT(60)
  <2> QED
    BY <1>1, <1>3, <1>4, <2>1, WasmPaid, ZenonT(60)
<1>7. RestTyped
  BY <1>2, <1>6, UnchangedTyped, ZenonT(60) DEF RestTyped
<1>8. LeavesNothing
  BY <1>2, <1>3, <1>4, <1>6, ZenonT(60) DEF LeavesNothing, store
<1> QED
  BY <1>2, <1>5, <1>6, <1>7, <1>8, ZenonT(60) DEF Operation

\* The bulk instruction op on table t comes to r, and writes of V.
TableBulk(op, t, r, V) ==
    /\ t \in DOMAIN tables /\ Bulked(r, tables[t].elements, V, fuel) /\ \A x \in V : Fine(x)
    /\ OnTable(op, t, r)

\* A bulk instruction on a table.
LEMMA BulkTable ==
    ASSUME IInv, NEW op, NEW t, NEW r, NEW V, TableBulk(op, t, r, V)
    PROVE  Operation
<1>0. /\ t \in DOMAIN tables /\ Bulked(r, tables[t].elements, V, fuel) /\ \A x \in V : Fine(x)
      /\ OnTable(op, t, r)
  BY Zenon DEF TableBulk
<1> USE <1>0
<1>1. /\ tables' = [tables EXCEPT ![t].elements = r.slice] /\ fuel' = Spend(fuel, r.spent)
      /\ Did(op, "wasm", r.error)
      /\ UNCHANGED <<memories, elems, datas, funcs, instances, limits, meter, failures>>
  BY Zenon DEF OnTable
<1>2. /\ memories' = memories /\ elems' = elems /\ datas' = datas /\ funcs' = funcs /\ instances' = instances
      /\ limits' = limits /\ meter' = meter /\ failures' = failures
  BY <1>1, Zenon
<1>3. /\ TableStep /\ TableLengths
      /\ r.error # "Ok" => tables' = tables /\ r.spent = 0
      /\ r.spent \in Nat /\ (fuel.enabled => r.spent <= fuel.remaining)
  BY <1>1, <1>2, TableBulked, Zenon
<1>4. last'.op = op /\ last'.by = "wasm" /\ last'.error = r.error
  BY <1>1, DidIs, Zenon
<1>5. StoreStep
  BY <1>2, <1>3, UnchangedTyped, Zenon DEF StoreStep
<1>6. fuel' \in Fuels /\ Paid /\ (r.spent = 0 => fuel' = fuel)
  <2>1. MemoryPaid(r.spent) /\ TablePaid(r.spent)
    BY <1>2, <1>3, SizesSamePaid, Zenon
  <2> QED
    BY <1>1, <1>3, <1>4, <2>1, WasmPaid, ZenonT(60)
<1>7. RestTyped
  BY <1>2, <1>6, UnchangedTyped, Zenon DEF RestTyped
<1>8. LeavesNothing
  BY <1>2, <1>3, <1>4, <1>6, ZenonT(60) DEF LeavesNothing, store
<1> QED
  BY <1>2, <1>5, <1>6, <1>7, <1>8, ZenonT(60) DEF Operation

\* Operands are numbers.
LEMMA OperandsAre ==
    /\ \A n \in Offsets : n \in Nat
    /\ \A n \in Lens : n \in Nat
    /\ \A n \in Values : n \in Nat
    /\ \A n \in Deltas : n \in Nat
    /\ 1 \in Nat /\ 0 \in Nat /\ RefSize \in Nat
  BY OperandsAssumption, SizesAssumption, Zenon

\* memory.fill
LEMMA FillsMemory ==
    ASSUME IInv, NEW i \in DOMAIN instances, NEW k \in DOMAIN Entity(i).memories,
           NEW dst \in Offsets, NEW len \in Lens, NEW v \in Values, memory_fill(i, k, dst, v, len)
    PROVE  Operation
<1> DEFINE m == Entity(i).memories[k]
           r == Fill(memories[m].data, dst, v, len, fuel, 1)
<1>1. OnMemory("memory.fill", m, r)
  BY Zenon DEF memory_fill
<1>2. m \in DOMAIN memories
  BY Named, Zenon
<1> HIDE DEF m
<1>3. memories[m].data \in Seq(Nat) /\ fuel \in Fuels
  BY <1>2, MemoryAt, UnchangedTyped, ZenonT(60)
<1>4. Bulked(r, memories[m].data, {v}, fuel)
  BY <1>3, OperandsAre, FillWrites, Zenon
<1> QED
  BY <1>1, <1>2, <1>4, BulkMemory, ZenonT(60)

\* memory.init
LEMMA InitsMemory ==
    ASSUME IInv, NEW i \in DOMAIN instances, NEW k \in DOMAIN Entity(i).memories, NEW d \in DOMAIN Entity(i).datas,
           NEW dst \in Offsets, NEW src \in Offsets, NEW len \in Lens, memory_init(i, k, d, dst, src, len)
    PROVE  Operation
<1> DEFINE m == Entity(i).memories[k]
           bytes == datas[Entity(i).datas[d]]
           r == CopyFrom(memories[m].data, dst, bytes, src, len, fuel, 1)
<1>1. OnMemory("memory.init", m, r)
  BY Zenon DEF memory_init
<1>2. m \in DOMAIN memories /\ Entity(i).datas[d] \in DOMAIN datas
  BY Named, ZenonT(60)
<1>3. bytes \in Seq(Nat)
  BY <1>2, SMTT(60) DEF IInv, Typed
<1> HIDE DEF m, bytes
<1>4. memories[m].data \in Seq(Nat) /\ fuel \in Fuels
  BY <1>2, MemoryAt, UnchangedTyped, ZenonT(60)
<1>5. Bulked(r, memories[m].data, Held(bytes), fuel)
  BY <1>3, <1>4, OperandsAre, CopyWrites, ZenonT(60)
<1> QED
  BY <1>1, <1>2, <1>5, BulkMemory, ZenonT(60)

\* An operation that panics has done nothing.
LEMMA PanicIs ==
    ASSUME NEW slice \in Seq(Nat), NEW V, NEW f \in Fuels
    PROVE  Bulked([error |-> "panic", slice |-> slice, spent |-> 0], slice, V, f)
  BY DEF Bulked, Fuels

\* memory.copy
LEMMA CopiesMemory ==
    ASSUME IInv, NEW i \in DOMAIN instances, NEW k \in DOMAIN Entity(i).memories, NEW l \in DOMAIN Entity(i).memories,
           NEW dst \in Offsets, NEW src \in Offsets, NEW len \in Lens, memory_copy(i, k, l, dst, src, len)
    PROVE  Operation
<1> DEFINE m == Entity(i).memories[k]
           n == Entity(i).memories[l]
           within == copy_within(memories[m].data, dst, src, len, fuel, 1)
           panic == [error |-> "panic", slice |-> memories[m].data, spent |-> 0]
           between == CopyFrom(memories[m].data, dst, memories[n].data, src, len, fuel, 1)
           r == CASE k = l -> within [] k # l /\ m = n -> panic [] OTHER -> between
<1>1. OnMemory("memory.copy", m, r)
  BY Zenon DEF memory_copy
<1>2. m \in DOMAIN memories /\ n \in DOMAIN memories
  BY Named, Zenon
<1>3. r = within \/ r = panic \/ r = between
  <2> HIDE DEF within, panic, between, m, n
  <2> QED
    BY Zenon
<1> HIDE DEF m, n, r
<1>4. memories[m].data \in Seq(Nat) /\ memories[n].data \in Seq(Nat) /\ fuel \in Fuels
  BY <1>2, MemoryAt, UnchangedTyped, Zenon
<1>5. Bulked(within, memories[m].data, Held(memories[m].data), fuel)
  BY <1>4, OperandsAre, CopyWithinWrites, Zenon
<1>6. Bulked(between, memories[m].data, Held(memories[n].data), fuel)
  BY <1>4, OperandsAre, CopyWrites, Zenon
<1>7. Bulked(panic, memories[m].data, {}, fuel)
  BY <1>4, PanicIs, Zenon
<1> HIDE DEF within, panic, between
<1>8. PICK V : Bulked(r, memories[m].data, V, fuel)
  BY <1>3, <1>5, <1>6, <1>7, ZenonT(60)
<1> QED
  BY <1>1, <1>2, <1>8, BulkMemory, ZenonT(60)

\* table.fill
LEMMA FillsTable ==
    ASSUME IInv, NEW i \in DOMAIN instances, NEW k \in DOMAIN Entity(i).tables,
           NEW dst \in Offsets, NEW len \in Lens, NEW v \in RefsOf(i), table_fill(i, k, dst, v, len)
    PROVE  Operation
<1> DEFINE t == Entity(i).tables[k]
           r == Fill(tables[t].elements, dst, v, len, fuel, RefSize)
<1>1. OnTable("table.fill", t, r)
  BY Zenon DEF table_fill
<1>2. t \in DOMAIN tables
  BY Named, Zenon
<1> HIDE DEF t
<1>3. tables[t].elements \in Seq(Nat) /\ fuel \in Fuels /\ v \in Nat /\ Fine(v)
  BY <1>2, TableAt, UnchangedTyped, RefsFine, ZenonT(60)
<1>4. Bulked(r, tables[t].elements, {v}, fuel) /\ \A x \in {v} : Fine(x)
  BY <1>3, OperandsAre, FillWrites, ZenonT(60)
<1> HIDE DEF r
<1>10. TableBulk("table.fill", t, r, {v})
  BY <1>1, <1>2, <1>4, Zenon DEF TableBulk
<1> QED
  BY <1>10, BulkTable, Zenon

\* table.set
LEMMA SetsTable ==
    ASSUME IInv, NEW i \in DOMAIN instances, NEW k \in DOMAIN Entity(i).tables,
           NEW index \in Offsets, NEW v \in RefsOf(i), table_set(i, k, index, v)
    PROVE  Operation
<1> DEFINE t == Entity(i).tables[k]
           r == Fill(tables[t].elements, index, v, 1, fuel, 0)
<1>1. OnTable("table.set", t, r)
  BY Zenon DEF table_set
<1>2. t \in DOMAIN tables
  BY Named, Zenon
<1> HIDE DEF t
<1>3. tables[t].elements \in Seq(Nat) /\ fuel \in Fuels /\ v \in Nat /\ Fine(v)
  BY <1>2, TableAt, UnchangedTyped, RefsFine, ZenonT(60)
<1>4. Bulked(r, tables[t].elements, {v}, fuel) /\ \A x \in {v} : Fine(x)
  BY <1>3, OperandsAre, FillWrites, Zenon
<1> HIDE DEF r
<1>10. TableBulk("table.set", t, r, {v})
  BY <1>1, <1>2, <1>4, Zenon DEF TableBulk
<1> QED
  BY <1>10, BulkTable, Zenon

\* table.init
LEMMA InitsTable ==
    ASSUME IInv, NEW i \in DOMAIN instances, NEW k \in DOMAIN Entity(i).tables, NEW e \in DOMAIN Entity(i).elems,
           NEW dst \in Offsets, NEW src \in Offsets, NEW len \in Lens, table_init(i, k, e, dst, src, len)
    PROVE  Operation
<1> DEFINE t == Entity(i).tables[k]
           items == elems[Entity(i).elems[e]]
           r == CopyFrom(tables[t].elements, dst, items, src, len, fuel, RefSize)
<1>1. OnTable("table.init", t, r)
  BY Zenon DEF table_init
<1>2. t \in DOMAIN tables /\ Entity(i).elems[e] \in DOMAIN elems
  BY Named, Zenon
<1>3. items \in Seq(Nat)
  BY <1>2, SMTT(60) DEF IInv, Typed
<1>4. \A n \in DOMAIN items : Fine(items[n])
  BY <1>2, Zenon DEF IInv, References
<1> HIDE DEF t, items
<1>5. tables[t].elements \in Seq(Nat) /\ fuel \in Fuels
  BY <1>2, TableAt, UnchangedTyped, ZenonT(60)
<1>6. Bulked(r, tables[t].elements, Held(items), fuel)
  BY <1>3, <1>5, OperandsAre, CopyWrites, ZenonT(60)
<1>7. \A x \in Held(items) : Fine(x)
  <2>1. DOMAIN items = 1..Len(items)
    BY <1>3, SMTT(60)
  <2> QED
    BY <1>4, <2>1, Zenon DEF Held
<1>10. TableBulk("table.init", t, r, Held(items))
  BY <1>1, <1>2, <1>6, <1>7, ZenonT(60) DEF TableBulk
<1> QED
  BY <1>10, BulkTable, Zenon

\* table.copy
LEMMA CopiesTable ==
    ASSUME IInv, NEW i \in DOMAIN instances, NEW k \in DOMAIN Entity(i).tables, NEW l \in DOMAIN Entity(i).tables,
           NEW dst \in Offsets, NEW src \in Offsets, NEW len \in Lens, table_copy(i, k, l, dst, src, len)
    PROVE  Operation
<1> DEFINE t == Entity(i).tables[k]
           u == Entity(i).tables[l]
           within == copy_within(tables[t].elements, dst, src, len, fuel, RefSize)
           panic == [error |-> "panic", slice |-> tables[t].elements, spent |-> 0]
           between == CopyFrom(tables[t].elements, dst, tables[u].elements, src, len, fuel, RefSize)
           r == CASE k = l -> within [] k # l /\ t = u -> panic [] OTHER -> between
<1>1. OnTable("table.copy", t, r)
  BY Zenon DEF table_copy
<1>2. t \in DOMAIN tables /\ u \in DOMAIN tables
  BY Named, Zenon
<1>3. r = within \/ r = panic \/ r = between
  <2> HIDE DEF within, panic, between, t, u
  <2> QED
    BY Zenon
<1> HIDE DEF t, u, r
<1>4. tables[t].elements \in Seq(Nat) /\ tables[u].elements \in Seq(Nat) /\ fuel \in Fuels
  BY <1>2, TableAt, UnchangedTyped, ZenonT(60)
<1>5. Bulked(within, tables[t].elements, Held(tables[t].elements), fuel)
  BY <1>4, OperandsAre, CopyWithinWrites, ZenonT(60)
<1>6. Bulked(between, tables[t].elements, Held(tables[u].elements), fuel)
  BY <1>4, OperandsAre, CopyWrites, ZenonT(60)
<1>7. Bulked(panic, tables[t].elements, {}, fuel)
  BY <1>4, PanicIs, Zenon
<1>8. ASSUME NEW o \in DOMAIN tables, NEW x \in Held(tables[o].elements)
      PROVE  Fine(x)
  BY <1>8, TableAt, Zenon DEF Held
<1> HIDE DEF within, panic, between
<1>9. PICK V : Bulked(r, tables[t].elements, V, fuel) /\ \A x \in V : Fine(x)
  <2>1. CASE r = within
    BY <1>2, <1>5, <1>8, <2>1, ZenonT(60)
  <2>2. CASE r = between
    BY <1>2, <1>6, <1>8, <2>2, ZenonT(60)
  <2>3. CASE r = panic
    <3>1. \A x \in {} : Fine(x)
      BY Zenon
    <3> DEFINE V == {}
    <3>2. Bulked(r, tables[t].elements, V, fuel) /\ \A x \in V : Fine(x)
      BY <1>7, <2>3, <3>1, ZenonT(60)
    <3> HIDE DEF V
    <3> QED
      BY <3>2, Zenon
  <2> QED
    BY <1>3, <2>1, <2>2, <2>3, ZenonT(60)
<1>10. TableBulk("table.copy", t, r, V)
  BY <1>1, <1>2, <1>9, Zenon DEF TableBulk
<1> QED
  BY <1>10, BulkTable, ZenonT(60)

\* data.drop and elem.drop
LEMMA Drops ==
    ASSUME IInv, NEW i \in DOMAIN instances
    PROVE  /\ \A d \in DOMAIN Entity(i).datas : data_drop(i, d) => Operation
           /\ \A e \in DOMAIN Entity(i).elems : elem_drop(i, e) => Operation
<1>1. ASSUME NEW op, Did(op, "wasm", "Ok"),
             UNCHANGED <<memories, tables, funcs, instances, fuel, limits, meter, failures>>, ElemsStep, DatasStep
      PROVE  Operation
  <2>1. last'.error = "Ok" /\ last'.by = "wasm"
    BY <1>1, DidIs, ZenonT(60)
  <2>2. /\ memories' = memories /\ tables' = tables /\ funcs' = funcs /\ instances' = instances
        /\ fuel' = fuel /\ limits' = limits /\ meter' = meter /\ failures' = failures
    BY <1>1, Zenon
  <2>3. StoreStep
    BY <1>1, <2>2, UnchangedTyped, Zenon DEF StoreStep
  <2>4. RestTyped
    BY <2>2, UnchangedTyped, Zenon DEF RestTyped
  <2>5. MemoryPaid(0) /\ TablePaid(0)
    BY <2>2, SizesSamePaid, Zenon
  <2>6. fuel.enabled => 0 <= fuel.remaining
    BY UnchangedTyped, SMTT(60) DEF Fuels
  <2>7. fuel' = Spend(fuel, 0)
    BY <2>2, UnchangedTyped, SMTT(60) DEF Fuels, Spend
  <2>8. Paid
    BY <2>1, <2>5, <2>6, <2>7, OperandsAre, WasmPaid, ZenonT(60)
  <2> QED
    BY <2>1, <2>2, <2>3, <2>4, <2>8, ZenonT(60) DEF Operation, LeavesNothing
<1>2. ASSUME NEW d \in DOMAIN Entity(i).datas, data_drop(i, d)
      PROVE  Operation
  <2>1. Entity(i).datas[d] \in DOMAIN datas
    BY Named, ZenonT(60)
  <2>2. DatasStep /\ ElemsStep
    BY <1>2, <2>1, ZenonT(60) DEF data_drop, DatasStep, ElemsStep
  <2> QED
    BY <1>1, <1>2, <2>2, ZenonT(60) DEF data_drop
<1>3. ASSUME NEW e \in DOMAIN Entity(i).elems, elem_drop(i, e)
      PROVE  Operation
  <2>1. Entity(i).elems[e] \in DOMAIN elems
    BY Named, Zenon
  <2>2. DatasStep /\ ElemsStep
    BY <1>3, <2>1, Zenon DEF elem_drop, DatasStep, ElemsStep
  <2> QED
    BY <1>1, <1>3, <2>2, ZenonT(60) DEF elem_drop
<1> QED
  BY <1>2, <1>3, Zenon

\* Every instruction is an operation.
LEMMA InstructionsAre ==
    ASSUME IInv, NEW i \in DOMAIN instances, WasmNext(i)
    PROVE  Operation
<1>1. ASSUME NEW k \in DOMAIN Entity(i).memories, MemoryNext(i, k)
      PROVE  Operation
  BY <1>1, GrowsMemory, FillsMemory, InitsMemory, CopiesMemory, ZenonT(60) DEF MemoryNext
<1>2. ASSUME NEW k \in DOMAIN Entity(i).tables, TableNext(i, k)
      PROVE  Operation
  BY <1>2, GrowsTable, FillsTable, InitsTable, CopiesTable, SetsTable, ZenonT(60) DEF TableNext
<1> QED
  BY <1>1, <1>2, Drops, ZenonT(60) DEF WasmNext

=============================================================================
