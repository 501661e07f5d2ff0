----------------------- MODULE Instantiation_segments -----------------------
(***************************************************************************)
(* The segments of the modules of a store: that an instantiation copies    *)
(* the active ones in order over what was there, and leaves them dropped.  *)
(***************************************************************************)
EXTENDS StoreInvariant

-----------------------------------------------------------------------------
(* One segment after the others. *)

\* Segment s of the module is done with: copied into its table, or its memory, when it is
\* an active one (initialize_table_elements, initialize_memory_data).
ElemDone(ts, us, module, entity, s) ==
    \/ module.elems[s].kind # "active" /\ us = ts
    \/ /\ module.elems[s].kind = "active"
       /\ us = [ts EXCEPT ![entity.tables[module.elems[s].table]].elements =
                    copy_from_slice(@, module.elems[s].offset, ItemsIn(module.elems[s], entity.funcs))]

DataDone(ms, ws, module, entity, s) ==
    \/ ~module.datas[s].active /\ ws = ms
    \/ /\ module.datas[s].active
       /\ ws = [ms EXCEPT ![entity.memories[module.datas[s].memory]].data =
                    copy_from_slice(@, module.datas[s].offset, module.datas[s].bytes)]

\* The next segment is the latest of those that cover a place, when it covers it.
LEMMA LatestIs ==
    ASSUME NEW k \in Nat, NEW S \in SUBSET (1..k)
    PROVE  Latest(S \cup {k + 1}) = k + 1 /\ S \cup {k + 1} # {}
<1> DEFINE T == S \cup {k + 1}
<1>1. k + 1 \in T /\ \A o \in T : o <= k + 1
  OBVIOUS
<1>2. ASSUME NEW s \in T, \A o \in T : o <= s
      PROVE  s = k + 1
  BY <1>1, <1>2
<1> HIDE DEF T
<1>3. Latest(T) \in T /\ \A o \in T : o <= Latest(T)
  BY <1>1, Zenon DEF Latest
<1> QED
  BY <1>1, <1>2, <1>3, Zenon DEF T

\* No segment covers a place before the first one.
LEMMA NoneCovers ==
    ASSUME NEW module, NEW entity, NEW x, NEW n
    PROVE  ElemsCovering(module, entity, x, n, 0) = {} /\ DatasCovering(module, entity, x, n, 0) = {}
<1>1. 1..0 = {}
  OBVIOUS
<1> QED
  BY <1>1, Zenon DEF ElemsCovering, DatasCovering

\* A slice with a segment copied into it.
LEMMA CopiedIs ==
    ASSUME NEW slice, NEW offset, NEW values
    PROVE  /\ DOMAIN copy_from_slice(slice, offset, values) = DOMAIN slice
           /\ \A n \in DOMAIN slice :
                copy_from_slice(slice, offset, values)[n] =
                    IF n \in (offset + 1)..(offset + Len(values)) THEN values[n - offset] ELSE slice[n]
  BY Zenon DEF copy_from_slice

\* The members of a sequence.
LEMMA MemberOf ==
    ASSUME NEW T, NEW s \in Seq(T), NEW n \in DOMAIN s
    PROVE  s[n] \in T
  OBVIOUS

\* The segments that cover a place of a table once one more is done with.
LEMMA ElemsCoveringNext ==
    ASSUME NEW module, NEW entity, NEW t, NEW n, NEW k \in Nat
    PROVE  /\ ElemsCovering(module, entity, t, n, k) \in SUBSET (1..k)
           /\ ElemCovers(module, entity, t, n, k + 1) =>
                ElemsCovering(module, entity, t, n, k + 1) = ElemsCovering(module, entity, t, n, k) \cup {k + 1}
           /\ ~ElemCovers(module, entity, t, n, k + 1) =>
                ElemsCovering(module, entity, t, n, k + 1) = ElemsCovering(module, entity, t, n, k)
<1>1. 1..(k + 1) = (1..k) \cup {k + 1}
  OBVIOUS
<1> QED
  BY <1>1, Zenon DEF ElemsCovering

\* The segments that cover a place of a memory once one more is done with.
LEMMA DatasCoveringNext ==
    ASSUME NEW module, NEW entity, NEW m, NEW n, NEW k \in Nat
    PROVE  /\ DatasCovering(module, entity, m, n, k) \in SUBSET (1..k)
           /\ DataCovers(module, entity, m, n, k + 1) =>
                DatasCovering(module, entity, m, n, k + 1) = DatasCovering(module, entity, m, n, k) \cup {k + 1}
           /\ ~DataCovers(module, entity, m, n, k + 1) =>
                DatasCovering(module, entity, m, n, k + 1) = DatasCovering(module, entity, m, n, k)
<1>1. 1..(k + 1) = (1..k) \cup {k + 1}
  OBVIOUS
<1> QED
  BY <1>1, Zenon DEF DatasCovering

\* The tables of the store once one more element segment is done with, which an active
\* one is by being copied into its table (initialize_table_elements).
LEMMA TablesCopied ==
    ASSUME NEW module, NEW entity, NEW next, NEW before, NEW k \in Nat, NEW ts \in Seq(Tables), NEW us,
           next.tables = entity.tables, next.funcs = entity.funcs,
           TablesAfter(ts, module, entity, before, k),
           ElemDone(ts, us, module, entity, k + 1)
    PROVE  TablesAfter(us, module, next, before, k + 1)
<1> DEFINE s == module.elems[k + 1]
           items == ItemsIn(s, entity.funcs)
           x == entity.tables[s.table]
           S(t, n) == ElemsCovering(module, entity, t, n, k)
           Here(t, n) == ElemCovers(module, entity, t, n, k + 1)
<1>1. \A t, n : ElemsCovering(module, next, t, n, k + 1) = ElemsCovering(module, entity, t, n, k + 1)
  BY Zenon DEF ElemsCovering, ElemCovers
<1>2. \A t, n : Element(module, next, before, t, n, ElemsCovering(module, next, t, n, k + 1))
                = Element(module, entity, before, t, n, ElemsCovering(module, entity, t, n, k + 1))
  BY <1>1, Zenon DEF Element
<1>3. SUFFICES ASSUME NEW t \in DOMAIN us, NEW n \in DOMAIN us[t].elements
               PROVE  us[t].elements[n] = Element(module, entity, before, t, n, ElemsCovering(module, entity, t, n, k + 1))
  BY <1>2, Zenon DEF TablesAfter
<1>4. /\ S(t, n) \in SUBSET (1..k)
      /\ Here(t, n) => ElemsCovering(module, entity, t, n, k + 1) = S(t, n) \cup {k + 1}
      /\ ~Here(t, n) => ElemsCovering(module, entity, t, n, k + 1) = S(t, n)
  BY ElemsCoveringNext
<1>5. /\ t \in DOMAIN ts /\ n \in DOMAIN ts[t].elements
      /\ us[t].elements[n] = IF Here(t, n) THEN items[n - s.offset] ELSE ts[t].elements[n]
  <2>1. CASE s.kind # "active"
    BY <2>1, Zenon DEF ElemCovers, ElemDone
  <2>2. CASE s.kind = "active"
    <3>1. us = [ts EXCEPT ![x].elements = copy_from_slice(@, s.offset, items)]
      BY <2>2, Zenon DEF ElemDone
    <3> HIDE DEF x, items
    <3>2. t \in DOMAIN ts
      BY <3>1, Zenon
    <3>3. CASE t # x
      <4>1. us[t] = ts[t]
        BY <3>1, <3>2, <3>3, Zenon
      <4> QED
        BY <3>2, <3>3, <4>1, Zenon DEF x, ElemCovers
    <3>4. CASE t = x
      <4>1. ts[t] \in Tables
        BY <3>2, MemberOf, Zenon
      <4>2. us[t] = [ts[t] EXCEPT !.elements = copy_from_slice(ts[t].elements, s.offset, items)]
        BY <3>1, <3>2, <3>4, Zenon
      <4>3. us[t].elements = copy_from_slice(ts[t].elements, s.offset, items)
        BY <4>1, <4>2, Zenon DEF Tables
      <4>4. /\ DOMAIN copy_from_slice(ts[t].elements, s.offset, items) = DOMAIN ts[t].elements
            /\ \A i \in DOMAIN ts[t].elements :
                copy_from_slice(ts[t].elements, s.offset, items)[i] =
                    IF i \in (s.offset + 1)..(s.offset + Len(items)) THEN items[i - s.offset] ELSE ts[t].elements[i]
        BY CopiedIs, ZenonT(60)
      <4>5. /\ n \in DOMAIN ts[t].elements
            /\ us[t].elements[n] = IF n \in (s.offset + 1)..(s.offset + Len(items)) THEN items[n - s.offset]
                                   ELSE ts[t].elements[n]
        BY <4>3, <4>4, Zenon
      <4>6. Here(t, n) <=> n \in (s.offset + 1)..(s.offset + Len(items))
        BY <2>2, <3>4, Zenon DEF x, items, ElemCovers
      <4> QED
        BY <3>2, <4>5, <4>6, Zenon
    <3> QED
      BY <3>3, <3>4, Zenon
  <2> QED
    BY <2>1, <2>2, Zenon
<1>6. ts[t].elements[n] = Element(module, entity, before, t, n, S(t, n))
  BY <1>5, Zenon DEF TablesAfter
<1>7. CASE Here(t, n)
  <2>1. Latest(S(t, n) \cup {k + 1}) = k + 1 /\ S(t, n) \cup {k + 1} # {}
    BY <1>4, LatestIs, Zenon
  <2>2. Element(module, entity, before, t, n, S(t, n) \cup {k + 1}) = items[n - s.offset]
    BY <2>1, Zenon DEF Element
  <2> QED
    BY <1>4, <1>5, <1>7, <2>2, Zenon
<1>8. CASE ~Here(t, n)
  BY <1>4, <1>5, <1>6, <1>8, Zenon
<1> QED
  BY <1>7, <1>8, Zenon

\* The memories of the store once one more data segment is done with, which an active
\* one is by being copied into its memory (initialize_memory_data).
LEMMA MemoriesCopied ==
    ASSUME NEW module, NEW entity, NEW next, NEW before, NEW k \in Nat, NEW ms \in Seq(Memories), NEW ws,
           next.memories = entity.memories,
           MemoriesAfter(ms, module, entity, before, k),
           DataDone(ms, ws, module, entity, k + 1)
    PROVE  MemoriesAfter(ws, module, next, before, k + 1)
<1> DEFINE s == module.datas[k + 1]
           bytes == s.bytes
           x == entity.memories[s.memory]
           S(m, n) == DatasCovering(module, entity, m, n, k)
           Here(m, n) == DataCovers(module, entity, m, n, k + 1)
<1>1. \A m, n : DatasCovering(module, next, m, n, k + 1) = DatasCovering(module, entity, m, n, k + 1)
  BY Zenon DEF DatasCovering, DataCovers
<1>2. SUFFICES ASSUME NEW m \in DOMAIN ws, NEW n \in DOMAIN ws[m].data
               PROVE  ws[m].data[n] = Byte(module, before, m, n, DatasCovering(module, entity, m, n, k + 1))
  BY <1>1 DEF MemoriesAfter
<1>3. /\ S(m, n) \in SUBSET (1..k)
      /\ Here(m, n) => DatasCovering(module, entity, m, n, k + 1) = S(m, n) \cup {k + 1}
      /\ ~Here(m, n) => DatasCovering(module, entity, m, n, k + 1) = S(m, n)
  BY DatasCoveringNext
<1>4. /\ m \in DOMAIN ms /\ n \in DOMAIN ms[m].data
      /\ ws[m].data[n] = IF Here(m, n) THEN bytes[n - s.offset] ELSE ms[m].data[n]
  <2>1. CASE ~s.active
    BY <2>1, Zenon DEF DataCovers, DataDone
  <2>2. CASE s.active
    <3>1. ws = [ms EXCEPT ![x].data = copy_from_slice(@, s.offset, bytes)]
      BY <2>2, Zenon DEF DataDone
    <3> HIDE DEF x, bytes
    <3>2. m \in DOMAIN ms
      BY <3>1, Zenon
    <3>3. CASE m # x
      <4>1. ws[m] = ms[m]
        BY <3>1, <3>2, <3>3, Zenon
      <4> QED
        BY <3>2, <3>3, <4>1, Zenon DEF x, DataCovers
    <3>4. CASE m = x
      <4>1. ms[m] \in Memories
        BY <3>2, MemberOf, Zenon
      <4>2. ws[m] = [ms[m] EXCEPT !.data = copy_from_slice(ms[m].data, s.offset, bytes)]
        BY <3>1, <3>2, <3>4, Zenon
      <4>3. ws[m].data = copy_from_slice(ms[m].data, s.offset, bytes)
        BY <4>1, <4>2, Zenon DEF Memories
      <4>4. /\ DOMAIN copy_from_slice(ms[m].data, s.offset, bytes) = DOMAIN ms[m].data
            /\ \A i \in DOMAIN ms[m].data :
                copy_from_slice(ms[m].data, s.offset, bytes)[i] =
                    IF i \in (s.offset + 1)..(s.offset + Len(bytes)) THEN bytes[i - s.offset] ELSE ms[m].data[i]
        BY CopiedIs, ZenonT(60)
      <4>5. /\ n \in DOMAIN ms[m].data
            /\ ws[m].data[n] = IF n \in (s.offset + 1)..(s.offset + Len(bytes)) THEN bytes[n - s.offset]
                                   ELSE ms[m].data[n]
        BY <4>3, <4>4, Zenon
      <4>6. Here(m, n) <=> n \in (s.offset + 1)..(s.offset + Len(bytes))
        BY <2>2, <3>4, Zenon DEF x, bytes, DataCovers
      <4> QED
        BY <3>2, <4>5, <4>6, Zenon
    <3> QED
      BY <3>3, <3>4, Zenon
  <2> QED
    BY <2>1, <2>2, Zenon
<1>5. ms[m].data[n] = Byte(module, before, m, n, S(m, n))
  BY <1>4, Zenon DEF MemoriesAfter
<1>6. CASE Here(m, n)
  <2>1. Latest(S(m, n) \cup {k + 1}) = k + 1 /\ S(m, n) \cup {k + 1} # {}
    BY <1>3, LatestIs, Zenon
  <2>2. Byte(module, before, m, n, S(m, n) \cup {k + 1}) = bytes[n - s.offset]
    BY <2>1, Zenon DEF Byte
  <2> QED
    BY <1>3, <1>4, <1>6, <2>2, Zenon
<1>7. CASE ~Here(m, n)
  BY <1>3, <1>4, <1>5, <1>7, Zenon
<1> QED
  BY <1>6, <1>7, Zenon

-----------------------------------------------------------------------------
(* What the other steps of an instantiation do to that. *)

\* At the beginning, and as long as no segment is done with, nothing is written.
LEMMA NothingWritten ==
    ASSUME NEW module, NEW entity, NEW ts, NEW ms
    PROVE  TablesAfter(ts, module, entity, ts, 0) /\ MemoriesAfter(ms, module, entity, ms, 0)
  BY NoneCovers, Zenon DEF TablesAfter, MemoriesAfter, Element, Byte

\* What is known of tables needs only the tables and functions of the entity, and of
\* memories only its memories.
LEMMA SameAfter ==
    ASSUME NEW module, NEW entity, NEW next, NEW ts, NEW ms, NEW before, NEW count
    PROVE  /\ /\ next.tables = entity.tables /\ next.funcs = entity.funcs
              /\ TablesAfter(ts, module, entity, before, count)
              => TablesAfter(ts, module, next, before, count)
           /\ /\ next.memories = entity.memories
              /\ MemoriesAfter(ms, module, entity, before, count)
              => MemoriesAfter(ms, module, next, before, count)
<1>1. ASSUME next.tables = entity.tables, next.funcs = entity.funcs
      PROVE  \A t, n : Element(module, next, before, t, n, ElemsCovering(module, next, t, n, count))
                        = Element(module, entity, before, t, n, ElemsCovering(module, entity, t, n, count))
  <2>1. \A t, n : ElemsCovering(module, next, t, n, count) = ElemsCovering(module, entity, t, n, count)
    BY <1>1, Zenon DEF ElemsCovering, ElemCovers
  <2> QED
    BY <1>1, <2>1, Zenon DEF Element
<1>2. ASSUME next.memories = entity.memories
      PROVE  \A m, n : DatasCovering(module, next, m, n, count) = DatasCovering(module, entity, m, n, count)
  BY <1>2, Zenon DEF DatasCovering, DataCovers
<1>3. ASSUME next.tables = entity.tables, next.funcs = entity.funcs, TablesAfter(ts, module, entity, before, count)
      PROVE  TablesAfter(ts, module, next, before, count)
  BY <1>1, <1>3, Zenon DEF TablesAfter
<1>4. ASSUME next.memories = entity.memories, MemoriesAfter(ms, module, entity, before, count)
      PROVE  MemoriesAfter(ms, module, next, before, count)
  BY <1>2, <1>4, Zenon DEF MemoriesAfter
<1> QED
  BY <1>3, <1>4, Zenon

\* The sequence a is s with x after it.
OneMore(s, x, a) ==
    /\ Len(s) \in Nat /\ Len(a) = Len(s) + 1
    /\ DOMAIN a = DOMAIN s \cup {Len(s) + 1} /\ Len(s) + 1 \notin DOMAIN s
    /\ \A n \in DOMAIN s : a[n] = s[n]
    /\ a[Len(s) + 1] = x

\* The members of a sequence with one more.
LEMMA Appended ==
    ASSUME NEW T, NEW s \in Seq(T), NEW x
    PROVE  OneMore(s, x, Append(s, x))
  BY DEF OneMore

\* A place after the end of a sequence is not one of a shorter sequence.
LEMMA Beyond ==
    ASSUME NEW T, NEW s \in Seq(T), NEW b \in Seq(T), Len(b) <= Len(s)
    PROVE  Len(s) + 1 \notin DOMAIN b
  OBVIOUS

\* A new table is all null references (extract_tables).
LEMMA TableAdded ==
    ASSUME NEW module, NEW entity, NEW next, NEW before \in Seq(Tables), NEW ts \in Seq(Tables), NEW table,
           Len(before) <= Len(ts), \A n \in DOMAIN table.elements : table.elements[n] = NullRef,
           TablesAfter(ts, module, entity, before, 0)
    PROVE  TablesAfter(Append(ts, table), module, next, before, 0)
<1>1. \A t, n, e : Element(module, e, before, t, n, ElemsCovering(module, e, t, n, 0))
                    = IF t \in DOMAIN before THEN before[t].elements[n] ELSE NullRef
  BY NoneCovers, Zenon DEF Element
<1>2. OneMore(ts, table, Append(ts, table))
  BY Appended
<1>3. Len(ts) + 1 \notin DOMAIN before
  BY Beyond
<1>4. SUFFICES ASSUME NEW t \in DOMAIN Append(ts, table), NEW n \in DOMAIN Append(ts, table)[t].elements
               PROVE  Append(ts, table)[t].elements[n] = IF t \in DOMAIN before THEN before[t].elements[n] ELSE NullRef
  BY <1>1, Zenon DEF TablesAfter
<1>5. CASE t \in DOMAIN ts
  <2>1. Append(ts, table)[t] = ts[t]
    BY <1>5, <1>2, Zenon DEF OneMore
  <2>2. ts[t].elements[n] = Element(module, entity, before, t, n, ElemsCovering(module, entity, t, n, 0))
    BY <1>5, <2>1, Zenon DEF TablesAfter
  <2> QED
    BY <1>1, <2>1, <2>2, Zenon
<1>6. CASE t = Len(ts) + 1
  <2>1. Append(ts, table)[t] = table /\ t \notin DOMAIN before
    BY <1>6, <1>2, <1>3, Zenon DEF OneMore
  <2> QED
    BY <2>1, Zenon
<1>7. t \in DOMAIN ts \/ t = Len(ts) + 1
  BY <1>2, Zenon DEF OneMore
<1> QED
  BY <1>5, <1>6, <1>7, Zenon

\* A new memory is all zeros (extract_memories).
LEMMA MemoryAdded ==
    ASSUME NEW module, NEW entity, NEW next, NEW before \in Seq(Memories), NEW ms \in Seq(Memories),
           NEW memory, Len(before) <= Len(ms), \A n \in DOMAIN memory.data : memory.data[n] = 0,
           MemoriesAfter(ms, module, entity, before, 0)
    PROVE  MemoriesAfter(Append(ms, memory), module, next, before, 0)
<1>1. \A m, n, e : Byte(module, before, m, n, DatasCovering(module, e, m, n, 0))
                    = IF m \in DOMAIN before THEN before[m].data[n] ELSE 0
  BY NoneCovers, Zenon DEF Byte
<1>2. OneMore(ms, memory, Append(ms, memory))
  BY Appended
<1>3. Len(ms) + 1 \notin DOMAIN before
  BY Beyond
<1>4. SUFFICES ASSUME NEW m \in DOMAIN Append(ms, memory), NEW n \in DOMAIN Append(ms, memory)[m].data
               PROVE  Append(ms, memory)[m].data[n] = IF m \in DOMAIN before THEN before[m].data[n] ELSE 0
  BY <1>1, ZenonT(60) DEF MemoriesAfter
<1>5. CASE m \in DOMAIN ms
  <2>1. Append(ms, memory)[m] = ms[m]
    BY <1>5, <1>2, Zenon DEF OneMore
  <2>2. ms[m].data[n] = Byte(module, before, m, n, DatasCovering(module, entity, m, n, 0))
    BY <1>5, <2>1, Zenon DEF MemoriesAfter
  <2> QED
    BY <1>1, <2>1, <2>2, Zenon
<1>6. CASE m = Len(ms) + 1
  <2>1. Append(ms, memory)[m] = memory /\ m \notin DOMAIN before
    BY <1>6, <1>2, <1>3, Zenon DEF OneMore
  <2> QED
    BY <2>1, Zenon
<1>7. m \in DOMAIN ms \/ m = Len(ms) + 1
  BY <1>2, Zenon DEF OneMore
<1> QED
  BY <1>5, <1>6, <1>7, Zenon

\* What is dropped stays dropped where the arenas keep what is empty.
LEMMA StaysDropped ==
    ASSUME NEW module, NEW entity, NEW es, NEW ds, NEW fs, NEW gs,
           Dropped(module, entity, es, ds),
           \A k \in DOMAIN entity.elems : entity.elems[k] \in DOMAIN es,
           \A k \in DOMAIN entity.datas : entity.datas[k] \in DOMAIN ds,
           \A e \in DOMAIN es : es[e] = <<>> => fs[e] = <<>>,
           \A d \in DOMAIN ds : ds[d] = <<>> => gs[d] = <<>>
    PROVE  Dropped(module, entity, fs, gs)
  BY Zenon DEF Dropped

\* One more segment, which is dropped if it is an active one.
LEMMA ElemDropped ==
    ASSUME NEW module, NEW entity \in Entities, NEW next, NEW es \in Seq(Seq(Nat)), NEW ds, NEW items,
           next.elems = Append(entity.elems, Len(es) + 1), next.datas = entity.datas,
           \A k \in DOMAIN entity.elems : entity.elems[k] \in DOMAIN es,
           module.elems[Len(entity.elems) + 1].kind = "active" => items = <<>>,
           Dropped(module, entity, es, ds)
    PROVE  Dropped(module, next, Append(es, items), ds)
<1>1. entity.elems \in Seq(Nat)
  BY Zenon DEF Entities
<1>2. OneMore(es, items, Append(es, items))
  BY Appended
<1>3. OneMore(entity.elems, Len(es) + 1, next.elems)
  <2>1. Len(es) + 1 \in Nat
    BY <1>2 DEF OneMore
  <2> QED
    BY <1>1, <2>1, Appended, SMTT(60)
<1>4. SUFFICES ASSUME NEW e \in DOMAIN next.elems, module.elems[e].kind = "active"
               PROVE  Append(es, items)[next.elems[e]] = <<>>
  BY Zenon DEF Dropped
<1>5. CASE e \in DOMAIN entity.elems
  <2>1. next.elems[e] = entity.elems[e] /\ entity.elems[e] \in DOMAIN es
    BY <1>3, <1>5, Zenon DEF OneMore
  <2>2. es[entity.elems[e]] = <<>>
    BY <1>4, <1>5, Zenon DEF Dropped
  <2> QED
    BY <1>2, <2>1, <2>2, Zenon DEF OneMore
<1>6. CASE e = Len(entity.elems) + 1
  <2>1. next.elems[e] = Len(es) + 1
    BY <1>3, <1>6, Zenon DEF OneMore
  <2> QED
    BY <1>2, <1>4, <1>6, <2>1, Zenon DEF OneMore
<1>7. e \in DOMAIN entity.elems \/ e = Len(entity.elems) + 1
  BY <1>3, Zenon DEF OneMore
<1> QED
  BY <1>5, <1>6, <1>7, Zenon

\* The same of a data segment.
LEMMA DataDropped ==
    ASSUME NEW module, NEW entity \in Entities, NEW next, NEW es, NEW ds \in Seq(Seq(Nat)), NEW bytes,
           next.datas = Append(entity.datas, Len(ds) + 1), next.elems = entity.elems,
           \A k \in DOMAIN entity.datas : entity.datas[k] \in DOMAIN ds,
           module.datas[Len(entity.datas) + 1].active => bytes = <<>>,
           Dropped(module, entity, es, ds)
    PROVE  Dropped(module, next, es, Append(ds, bytes))
<1>1. entity.datas \in Seq(Nat)
  BY Zenon DEF Entities
<1>2. OneMore(ds, bytes, Append(ds, bytes))
  BY Appended
<1>3. OneMore(entity.datas, Len(ds) + 1, next.datas)
  <2>1. Len(ds) + 1 \in Nat
    BY <1>2 DEF OneMore
  <2> QED
    BY <1>1, <2>1, Appended
<1>4. SUFFICES ASSUME NEW d \in DOMAIN next.datas, module.datas[d].active
               PROVE  Append(ds, bytes)[next.datas[d]] = <<>>
  BY Zenon DEF Dropped
<1>5. CASE d \in DOMAIN entity.datas
  <2>1. next.datas[d] = entity.datas[d] /\ entity.datas[d] \in DOMAIN ds
    BY <1>3, <1>5, Zenon DEF OneMore
  <2>2. ds[entity.datas[d]] = <<>>
    BY <1>4, <1>5, Zenon DEF Dropped
  <2> QED
    BY <1>2, <2>1, <2>2, Zenon DEF OneMore
<1>6. CASE d = Len(entity.datas) + 1
  <2>1. next.datas[d] = Len(ds) + 1
    BY <1>3, <1>6, Zenon DEF OneMore
  <2> QED
    BY <1>2, <1>4, <1>6, <2>1, Zenon DEF OneMore
<1>7. d \in DOMAIN entity.datas \/ d = Len(entity.datas) + 1
  BY <1>3, Zenon DEF OneMore
<1> QED
  BY <1>5, <1>6, <1>7, Zenon

-----------------------------------------------------------------------------
(* The state of an instantiation. *)

\* The stages by their numbers.
LEMMA StagesAre ==
    ASSUME IInv
    PROVE  /\ At("tables") <=> build.at = 1
           /\ At("memories") <=> build.at = 2
           /\ At("elems") <=> build.at = 3
           /\ At("datas") <=> build.at = 4
           /\ build.at \in 0..4 /\ Len(Stages) = 4
<1>1. build.at \in 0..4
  BY Zenon DEF IInv, Typed, Builds
<1>2. build.at \in {0, 1, 2, 3, 4}
  BY <1>1
<1>3. /\ Stages[1] = "tables" /\ Stages[2] = "memories" /\ Stages[3] = "elems" /\ Stages[4] = "datas"
      /\ Len(Stages) = 4
  BY Zenon DEF Stages
<1> QED
  BY <1>1, <1>2, <1>3 DEF At

\* The types of an instance, and of what is being built.
LEMMA InstanceAt ==
    ASSUME IInv
    PROVE  /\ \A i \in DOMAIN instances :
                /\ instances[i] \in InstanceTypes
                /\ instances[i].entity \in Entities /\ instances[i].externs \in Seq(Externals)
                /\ instances[i].module \in DOMAIN Modules /\ instances[i].outcome \in Outcomes
           /\ DOMAIN instances = 1..Len(instances) /\ Len(instances) \in Nat
           /\ build.entity \in Entities
           /\ build.at # 0 => Len(instances) \in DOMAIN instances
<1>1. instances \in Seq(InstanceTypes) /\ build \in Builds
  BY Zenon DEF IInv, Typed
<1>2. \A i \in DOMAIN instances : instances[i] \in InstanceTypes
  BY <1>1
<1>3. DOMAIN instances = 1..Len(instances) /\ Len(instances) \in Nat
  BY <1>1
<1>4. ASSUME NEW x \in InstanceTypes
      PROVE  /\ x.entity \in Entities /\ x.externs \in Seq(Externals)
             /\ x.module \in DOMAIN Modules /\ x.outcome \in Outcomes
  BY Zenon DEF InstanceTypes
<1>5. build.entity \in Entities
  BY <1>1, Zenon DEF Builds
<1>6. build.at # 0 => Len(instances) # 0
  BY Zenon DEF IInv, Underway
<1>7. build.at # 0 => Len(instances) \in DOMAIN instances
  BY <1>3, <1>6
<1> QED
  BY <1>2, <1>3, <1>4, <1>5, <1>7, Zenon

\* What is pushed is one more of its kind, and the rest stays.
LEMMA PushedIs ==
    ASSUME IInv, NEW stage \in {"tables", "memories", "elems", "datas"}, NEW index \in Nat, Pushed(stage, index)
    PROVE  /\ build' \in Builds /\ build'.at = build.at /\ build'.next = build.next + 1
           /\ build'.tables = build.tables /\ build'.memories = build.memories
           /\ build'.entity.funcs = build.entity.funcs
           /\ stage = "tables" => build'.entity.tables = Append(build.entity.tables, index)
           /\ stage # "tables" => build'.entity.tables = build.entity.tables
           /\ stage = "memories" => build'.entity.memories = Append(build.entity.memories, index)
           /\ stage # "memories" => build'.entity.memories = build.entity.memories
           /\ stage = "elems" => build'.entity.elems = Append(build.entity.elems, index)
           /\ stage # "elems" => build'.entity.elems = build.entity.elems
           /\ stage = "datas" => build'.entity.datas = Append(build.entity.datas, index)
           /\ stage # "datas" => build'.entity.datas = build.entity.datas
<1>1. build \in Builds /\ build.entity \in Entities
  BY InstanceAt, Zenon DEF IInv, Typed
<1> DEFINE entity == [build.entity EXCEPT ![stage] = Append(@, index)]
<1>2. build' = [build EXCEPT !.next = @ + 1, !.entity = entity]
  BY <1>1, Zenon DEF Pushed, Builds
<1> DEFINE Is(e) ==
             /\ e \in Entities /\ e.funcs = build.entity.funcs
             /\ stage = "tables" => e.tables = Append(build.entity.tables, index)
             /\ stage # "tables" => e.tables = build.entity.tables
             /\ stage = "memories" => e.memories = Append(build.entity.memories, index)
             /\ stage # "memories" => e.memories = build.entity.memories
             /\ stage = "elems" => e.elems = Append(build.entity.elems, index)
             /\ stage # "elems" => e.elems = build.entity.elems
             /\ stage = "datas" => e.datas = Append(build.entity.datas, index)
             /\ stage # "datas" => e.datas = build.entity.datas
<1>3. Is(entity)
  <2>1. CASE stage = "tables"
    <3>1. entity = [build.entity EXCEPT !.tables = Append(build.entity.tables, index)]
      BY <1>1, <2>1, Zenon DEF Entities
    <3>2. Append(build.entity.tables, index) \in Seq(Nat)
      BY <1>1 DEF Entities
    <3> DEFINE more == Append(build.entity.tables, index)
    <3> HIDE DEF entity, more
    <3>3. entity = [build.entity EXCEPT !.tables = more] /\ more \in Seq(Nat)
      BY <3>1, <3>2, Zenon DEF more
    <3>4. entity \in Entities /\ entity.tables = more
      BY <1>1, <3>3, Zenon DEF Entities
    <3>5. entity.memories = build.entity.memories /\ entity.elems = build.entity.elems /\ entity.datas = build.entity.datas /\ entity.funcs = build.entity.funcs
      BY <1>1, <3>3, Zenon DEF Entities
    <3>6. stage # "memories" /\ stage # "elems" /\ stage # "datas"
      BY <2>1, Zenon
    <3> QED
      BY <2>1, <3>4, <3>5, <3>6, Zenon DEF more
  <2>2. CASE stage = "memories"
    <3>1. entity = [build.entity EXCEPT !.memories = Append(build.entity.memories, index)]
      BY <1>1, <2>2, Zenon DEF Entities
    <3>2. Append(build.entity.memories, index) \in Seq(Nat)
      BY <1>1 DEF Entities
    <3> DEFINE more == Append(build.entity.memories, index)
    <3> HIDE DEF entity, more
    <3>3. entity = [build.entity EXCEPT !.memories = more] /\ more \in Seq(Nat)
      BY <3>1, <3>2, Zenon DEF more
    <3>4. entity \in Entities /\ entity.memories = more
      BY <1>1, <3>3, Zenon DEF Entities
    <3>5. entity.tables = build.entity.tables /\ entity.elems = build.entity.elems /\ entity.datas = build.entity.datas /\ entity.funcs = build.entity.funcs
      BY <1>1, <3>3, Zenon DEF Entities
    <3>6. stage # "tables" /\ stage # "elems" /\ stage # "datas"
      BY <2>2, Zenon
    <3> QED
      BY <2>2, <3>4, <3>5, <3>6, Zenon DEF more
  <2>3. CASE stage = "elems"
    <3>1. entity = [build.entity EXCEPT !.elems = Append(build.entity.elems, index)]
      BY <1>1, <2>3, Zenon DEF Entities
    <3>2. Append(build.entity.elems, index) \in Seq(Nat)
      BY <1>1 DEF Entities
    <3> DEFINE more == Append(build.entity.elems, index)
    <3> HIDE DEF entity, more
    <3>3. entity = [build.entity EXCEPT !.elems = more] /\ more \in Seq(Nat)
      BY <3>1, <3>2, Zenon DEF more
    <3>4. entity \in Entities /\ entity.elems = more
      BY <1>1, <3>3, Zenon DEF Entities
    <3>5. entity.tables = build.entity.tables /\ entity.memories = build.entity.memories /\ entity.datas = build.entity.datas /\ entity.funcs = build.entity.funcs
      BY <1>1, <3>3, Zenon DEF Entities
    <3>6. stage # "tables" /\ stage # "memories" /\ stage # "datas"
      BY <2>3, Zenon
    <3> QED
      BY <2>3, <3>4, <3>5, <3>6, Zenon DEF more
  <2>4. CASE stage = "datas"
    <3>1. entity = [build.entity EXCEPT !.datas = Append(build.entity.datas, index)]
      BY <1>1, <2>4, Zenon DEF Entities
    <3>2. Append(build.entity.datas, index) \in Seq(Nat)
      BY <1>1 DEF Entities
    <3> DEFINE more == Append(build.entity.datas, index)
    <3> HIDE DEF entity, more
    <3>3. entity = [build.entity EXCEPT !.datas = more] /\ more \in Seq(Nat)
      BY <3>1, <3>2, Zenon DEF more
    <3>4. entity \in Entities /\ entity.datas = more
      BY <1>1, <3>3, Zenon DEF Entities
    <3>5. entity.tables = build.entity.tables /\ entity.memories = build.entity.memories /\ entity.elems = build.entity.elems /\ entity.funcs = build.entity.funcs
      BY <1>1, <3>3, Zenon DEF Entities
    <3>6. stage # "tables" /\ stage # "memories" /\ stage # "elems"
      BY <2>4, Zenon
    <3> QED
      BY <2>4, <3>4, <3>5, <3>6, Zenon DEF more
  <2> QED
    BY <2>1, <2>2, <2>3, <2>4, Zenon
<1>4. entity \in Entities
  BY <1>3, Zenon
<1> HIDE DEF entity
<1>5. /\ build'.entity = entity /\ build'.at = build.at /\ build' \in Builds
      /\ build'.next = build.next + 1 /\ build'.tables = build.tables /\ build'.memories = build.memories
  <2>1. build.next + 1 \in Nat
    BY <1>1 DEF Builds
  <2> QED
    BY <1>1, <1>2, <1>4, <2>1, Zenon DEF Builds
<1> QED
  BY <1>3, <1>5, Zenon

-----------------------------------------------------------------------------
(* The instances there are. *)

\* A step that leaves empty segments empty.
ArenasKeep ==
    /\ \A e \in DOMAIN elems : elems[e] = <<>> => elems'[e] = <<>>
    /\ \A d \in DOMAIN datas : datas[d] = <<>> => datas'[d] = <<>>

\* A step after which no instance is initialised that was not.
InstancesLike ==
    \A i \in DOMAIN instances' : instances'[i].initialized =>
        /\ i \in DOMAIN instances /\ instances[i].initialized
        /\ instances'[i].module = instances[i].module /\ instances'[i].entity = instances[i].entity

\* Such a step leaves the segments of the instances dropped.
LEMMA InstancesStayDropped ==
    ASSUME IInv, InstancesDropped, ArenasKeep, InstancesLike
    PROVE  InstancesDropped'
<1> SUFFICES ASSUME NEW i \in DOMAIN instances', instances'[i].initialized
             PROVE  /\ Whole(Modules[instances'[i].module], instances'[i].entity)
                    /\ Dropped(Modules[instances'[i].module], instances'[i].entity, elems', datas')
  BY Zenon DEF InstancesDropped
<1> DEFINE entity == instances[i].entity
           module == Modules[instances[i].module]
<1>1. /\ i \in DOMAIN instances /\ instances[i].initialized
      /\ instances'[i].module = instances[i].module /\ instances'[i].entity = entity
  BY Zenon DEF InstancesLike
<1>2. Whole(module, entity) /\ Dropped(module, entity, elems, datas)
  BY <1>1, Zenon DEF InstancesDropped
<1>3. Resolves(entity, memories, tables, elems, datas)
  BY <1>1, Zenon DEF IInv, Resolved
<1> HIDE DEF entity, module
<1>4. Dropped(module, entity, elems', datas')
  BY <1>2, <1>3, StaysDropped, Zenon DEF Resolves, ArenasKeep
<1> QED
  BY <1>1, <1>2, <1>4, Zenon DEF entity, module

\* Instances that stay the same, and one more that is not initialised.
LEMMA InstancesMore ==
    ASSUME IInv, NEW handle, handle.initialized = FALSE,
           instances' = instances \/ instances' = Append(instances, handle)
    PROVE  InstancesLike
<1>1. CASE instances' = instances
  BY <1>1, Zenon DEF InstancesLike
<1>2. CASE instances' = Append(instances, handle)
  <2>1. instances \in Seq(InstanceTypes)
    BY Zenon DEF IInv, Typed
  <2>2. OneMore(instances, handle, instances')
    BY <1>2, <2>1, Appended
  <2> QED
    BY <2>2, Zenon DEF InstancesLike, OneMore
<1> QED
  BY <1>1, <1>2, Zenon

\* The outcome of an instance is not what makes it initialised.
LEMMA OutcomeLike ==
    ASSUME IInv, NEW i, NEW error, instances' = [instances EXCEPT ![i].outcome = error]
    PROVE  InstancesLike
<1> SUFFICES ASSUME NEW k \in DOMAIN instances'
             PROVE  /\ k \in DOMAIN instances /\ instances'[k].initialized = instances[k].initialized
                    /\ instances'[k].module = instances[k].module /\ instances'[k].entity = instances[k].entity
  BY Zenon DEF InstancesLike
<1>1. k \in DOMAIN instances
  BY Zenon
<1>2. instances[k] \in InstanceTypes
  BY <1>1, InstanceAt, Zenon
<1>3. CASE k = i
  <2>1. instances'[k] = [instances[k] EXCEPT !.outcome = error]
    BY <1>1, <1>3, Zenon
  <2> QED
    BY <1>1, <1>2, <2>1, Zenon DEF InstanceTypes
<1>4. CASE k # i
  BY <1>1, <1>4, Zenon
<1> QED
  BY <1>3, <1>4, Zenon

\* Segments that stay the same, or are followed by another.
LEMMA ArenasMore ==
    ASSUME IInv, NEW e, NEW d,
           elems' = elems \/ elems' = Append(elems, e),
           datas' = datas \/ datas' = Append(datas, d)
    PROVE  ArenasKeep
<1>1. elems \in Seq(Seq(Nat)) /\ datas \in Seq(Seq(Nat))
  BY Zenon DEF IInv, Typed
<1>2. OneMore(elems, e, Append(elems, e)) /\ OneMore(datas, d, Append(datas, d))
  BY <1>1, Appended
<1> QED
  BY <1>2, Zenon DEF ArenasKeep, OneMore

\* The host's calls and the instructions leave empty segments empty; data.drop and
\* elem.drop are the only ones that change any.
LEMMA OperationsLeave ==
    ASSUME IInv, HostNext \/ \E i \in DOMAIN instances : WasmNext(i)
    PROVE  ArenasKeep /\ InstancesLike
<1>1. ASSUME elems' = elems, datas' = datas, instances' = instances
      PROVE  ArenasKeep /\ InstancesLike
  BY <1>1, Zenon DEF ArenasKeep, InstancesLike
<1>2. ASSUME NEW i, NEW error, start(i, error)
      PROVE  ArenasKeep /\ InstancesLike
  BY <1>2, OutcomeLike, Zenon DEF start, ArenasKeep
<1>3. ASSUME HostNext
      PROVE  ArenasKeep /\ InstancesLike
  <2>1. CASE \E amount \in FuelAmounts : set_fuel(amount)
    BY <1>1, <2>1, Zenon DEF set_fuel, store
  <2>2. CASE \E alloc \in BOOLEAN, ty \in MemoryTypes, capacity \in Capacities : NewMemory(ty, capacity, alloc)
    BY <1>1, <2>2, Zenon DEF NewMemory
  <2>3. CASE \E alloc \in BOOLEAN, ty \in TableTypes, rty \in {"func", "extern"} :
                NewTable(ty, [ty |-> rty, raw |-> NullRef], alloc)
    BY <1>1, <2>3, Zenon DEF NewTable
  <2>4. CASE \E alloc \in BOOLEAN, m \in DOMAIN memories, n \in Deltas : HostMemoryGrow(m, n, alloc)
    BY <1>1, <2>4, Zenon DEF HostMemoryGrow
  <2>5. CASE \E m \in DOMAIN memories, offset \in Offsets, v \in Values : HostMemoryWrite(m, offset, <<v>>)
    BY <1>1, <2>5, Zenon DEF HostMemoryWrite
  <2>6. CASE \E alloc \in BOOLEAN, t \in DOMAIN tables, n \in Deltas, rty \in {"func", "extern"} :
                HostTableGrow(t, n, [ty |-> rty, raw |-> NullRef], alloc)
    BY <1>1, <2>6, Zenon DEF HostTableGrow
  <2>7. CASE \E i \in DOMAIN instances, error \in {"Ok", "trap"} : start(i, error)
    BY <1>2, <2>7, Zenon
  <2> QED
    BY <1>3, <2>1, <2>2, <2>3, <2>4, <2>5, <2>6, <2>7, ZenonT(60) DEF HostNext
<1>4. ASSUME NEW op, NEW x, NEW bulk, OnMemory(op, x, bulk) \/ OnTable(op, x, bulk)
      PROVE  ArenasKeep /\ InstancesLike
  BY <1>1, <1>4, Zenon DEF OnMemory, OnTable
<1>5. ASSUME NEW i \in DOMAIN instances, NEW k, MemoryNext(i, k)
      PROVE  ArenasKeep /\ InstancesLike
  <2>1. CASE \E alloc \in BOOLEAN, n \in Deltas : memory_grow(i, k, n, alloc)
    BY <1>1, <2>1, Zenon DEF memory_grow
  <2>2. CASE \E dst \in Offsets, len \in Lens, v \in Values : memory_fill(i, k, dst, v, len)
    BY <1>4, <2>2, Zenon DEF memory_fill
  <2>3. CASE \E d \in DOMAIN Entity(i).datas, dst \in Offsets, src \in Offsets, len \in Lens :
                memory_init(i, k, d, dst, src, len)
    BY <1>4, <2>3, Zenon DEF memory_init
  <2>4. CASE \E l \in DOMAIN Entity(i).memories, dst \in Offsets, src \in Offsets, len \in Lens :
                memory_copy(i, k, l, dst, src, len)
    BY <1>4, <2>4, ZenonT(60) DEF memory_copy
  <2> QED
    BY <1>5, <2>1, <2>2, <2>3, <2>4, Zenon DEF MemoryNext
<1>6. ASSUME NEW i \in DOMAIN instances, NEW k, TableNext(i, k)
      PROVE  ArenasKeep /\ InstancesLike
  <2>1. CASE \E alloc \in BOOLEAN, n \in Deltas, init \in RefsOf(i) : table_grow(i, k, n, init, alloc)
    BY <1>1, <2>1, Zenon DEF table_grow
  <2>2. CASE \E dst \in Offsets, len \in Lens, v \in RefsOf(i) : table_fill(i, k, dst, v, len)
    BY <1>4, <2>2, Zenon DEF table_fill
  <2>3. CASE \E e \in DOMAIN Entity(i).elems, dst \in Offsets, src \in Offsets, len \in Lens :
                table_init(i, k, e, dst, src, len)
    BY <1>4, <2>3, Zenon DEF table_init
  <2>4. CASE \E l \in DOMAIN Entity(i).tables, dst \in Offsets, src \in Offsets, len \in Lens :
                table_copy(i, k, l, dst, src, len)
    BY <1>4, <2>4, ZenonT(60) DEF table_copy
  <2>5. CASE \E dst \in Offsets, v \in RefsOf(i) : table_set(i, k, dst, v)
    BY <1>4, <2>5, Zenon DEF table_set
  <2> QED
    BY <1>6, <2>1, <2>2, <2>3, <2>4, <2>5, Zenon DEF TableNext
<1>7. ASSUME NEW i, NEW x, data_drop(i, x) \/ elem_drop(i, x)
      PROVE  ArenasKeep /\ InstancesLike
  <2>1. CASE data_drop(i, x)
    BY <2>1, Zenon DEF data_drop, ArenasKeep, InstancesLike
  <2>2. CASE elem_drop(i, x)
    BY <2>2, Zenon DEF elem_drop, ArenasKeep, InstancesLike
  <2> QED
    BY <1>7, <2>1, <2>2, Zenon
<1>8. ASSUME NEW i \in DOMAIN instances, WasmNext(i)
      PROVE  ArenasKeep /\ InstancesLike
  BY <1>5, <1>6, <1>7, <1>8, Zenon DEF WasmNext
<1> QED
  BY <1>3, <1>8, Zenon

-----------------------------------------------------------------------------
(* The steps of an instantiation. *)

\* It begins with nothing written, or not at all.
LEMMA BeginsApplied ==
    ASSUME IInv, SegmentsInv, NEW name \in DOMAIN Modules, NEW externs, instantiate(name, externs)
    PROVE  SegmentsInv'
<1> DEFINE module == Modules[name]
           error == extract_imports(module.imports, externs)
           handle == Handle(name, externs, error)
<1>1. /\ tables' = tables /\ memories' = memories /\ elems' = elems /\ datas' = datas
      /\ build.at = 0
  BY Zenon DEF instantiate
<1>2. \/ instances' = instances /\ build' = build
      \/ instances' = Append(instances, handle) /\ build' = build
      \/ /\ instances' = Append(instances, handle)
         /\ build' = [at |-> 1, next |-> 1, entity |-> Builder(module, externs), tables |-> tables, memories |-> memories]
  BY Zenon DEF instantiate
<1>3. handle.initialized = FALSE /\ handle.module = name
  BY Zenon DEF Handle
<1> HIDE DEF handle
<1>4. InstancesLike
  BY <1>2, <1>3, InstancesMore, Zenon
<1>5. ArenasKeep
  BY <1>1, Zenon DEF ArenasKeep
<1>6. InstancesDropped'
  BY <1>4, <1>5, InstancesStayDropped, Zenon DEF SegmentsInv
<1>7. ASSUME instances' = Append(instances, handle),
             build' = [at |-> 1, next |-> 1, entity |-> Builder(module, externs), tables |-> tables, memories |-> memories]
      PROVE  Applied(build', Building', tables', memories', elems', datas')
  <2> DEFINE entity == Builder(module, externs)
  <2>1. entity.elems = <<>> /\ entity.datas = <<>>
    BY Zenon DEF Builder, Uninitialized
  <2> HIDE DEF entity
  <2>2. /\ build'.at = 1 /\ build'.next = 1 /\ build'.entity = entity
        /\ build'.tables = tables /\ build'.memories = memories
    BY <1>7, Zenon DEF entity
  <2>3. Building' = module
    <3>1. instances \in Seq(InstanceTypes)
      BY Zenon DEF IInv, Typed
    <3>2. OneMore(instances, handle, instances')
      BY <1>7, <3>1, Appended
    <3>3. Len(instances') = Len(instances) + 1 /\ instances'[Len(instances) + 1] = handle
      BY <3>2, Zenon DEF OneMore
    <3> QED
      BY <1>3, <3>3, Zenon DEF Building, Handled
  <2>4. module \in ParsedModules
    BY ModulesAssumption, Zenon
  <2>5. Len(tables) \in Nat /\ Len(memories) \in Nat
    BY DEF IInv, Typed
  <2>6. Len(entity.elems) = 0 /\ Len(entity.datas) = 0
    BY <2>1
  <2>7. Progress(build', module)
    <3>1. Stages[1] = "tables" /\ module.tables \in Seq(Types)
      BY <2>4, Zenon DEF Stages, ParsedModules
    <3>2. 1 \in 1..(Len(module.tables) + 1)
      BY <3>1
    <3>3. 1 # 3 /\ 1 # 4
      OBVIOUS
    <3> QED
      BY <2>2, <2>6, <3>1, <3>2, <3>3, Zenon DEF Progress
  <2>8. TablesAfter(tables, module, entity, tables, 0) /\ MemoriesAfter(memories, module, entity, memories, 0)
    BY NothingWritten, Zenon
  <2>9. Dropped(module, entity, elems, datas)
    <3>1. \A x : x \notin DOMAIN <<>>
      OBVIOUS
    <3> QED
      BY <2>1, <3>1, Zenon DEF Dropped
  <2>10. Len(tables) <= Len(tables) /\ Len(memories) <= Len(memories)
    BY <2>5
  <2> QED
    BY <1>1, <2>2, <2>3, <2>6, <2>7, <2>8, <2>9, <2>10, ZenonT(60) DEF Applied
<1>8. build'.at # 0 => Applied(build', Building', tables', memories', elems', datas')
  BY <1>1, <1>2, <1>7, Zenon
<1> QED
  BY <1>6, <1>8, Zenon DEF SegmentsInv

\* An instantiation that fails leaves no state of its own.
LEMMA FailsApplied ==
    ASSUME IInv, SegmentsInv, NEW error, Fails(error), ArenasKeep
    PROVE  SegmentsInv'
<1>1. InstancesLike
  BY OutcomeLike, Zenon DEF Fails
<1>2. InstancesDropped'
  BY <1>1, InstancesStayDropped, Zenon DEF SegmentsInv
<1>3. build'.at = 0
  BY Zenon DEF Fails, NotBuilding
<1> QED
  BY <1>2, <1>3, Zenon DEF SegmentsInv

\* The module is the same one as long as the instances are.
LEMMA BuildingSame ==
    ASSUME instances' = instances
    PROVE  Building' = Building
  BY Zenon DEF Building, Handled

\* Too many tables or memories (extract_tables, extract_memories).
LEMMA TooManyApplied ==
    ASSUME IInv, SegmentsInv, too_many
    PROVE  SegmentsInv'
<1>1. ArenasKeep
  BY Zenon DEF too_many, ArenasKeep
<1> QED
  BY <1>1, FailsApplied, Zenon DEF too_many

\* What is known of the module of an instantiation under way.
LEMMA BuildingParsed ==
    ASSUME IInv, build.at # 0
    PROVE  /\ Building \in ParsedModules
           /\ Len(Building.tables) \in Nat /\ Len(Building.memories) \in Nat
           /\ Building.elems \in Seq(ElementSegments) /\ Building.datas \in Seq(DataSegments)
           /\ \A at \in {1, 2, 3, 4} : Len(Building[Stages[at]]) \in Nat
           /\ Len(Building.elems) \in Nat /\ Len(Building.datas) \in Nat
<1>1. instances[Handled].module \in DOMAIN Modules
  BY InstanceAt, Zenon DEF Handled
<1>2. Building \in ParsedModules
  BY <1>1, ModulesAssumption, Zenon DEF Building
<1>3. /\ Building.tables \in Seq(Types) /\ Building.memories \in Seq(Types)
      /\ Building.elems \in Seq(ElementSegments) /\ Building.datas \in Seq(DataSegments)
  BY <1>2, Zenon DEF ParsedModules
<1>4. \A T : \A s \in Seq(T) : Len(s) \in Nat
  OBVIOUS
<1>5. /\ Len(Building.tables) \in Nat /\ Len(Building.memories) \in Nat
      /\ Len(Building.elems) \in Nat /\ Len(Building.datas) \in Nat
  BY <1>3, <1>4, Zenon
<1>6. Stages[1] = "tables" /\ Stages[2] = "memories" /\ Stages[3] = "elems" /\ Stages[4] = "datas"
  BY Zenon DEF Stages
<1> QED
  BY <1>2, <1>3, <1>5, <1>6, Zenon

\* A stage ends with all of its items done with.
LEMMA StageApplied ==
    ASSUME IInv, SegmentsInv, stage_done
    PROVE  SegmentsInv'
<1> DEFINE module == Building
           entity == build.entity
<1>1. /\ tables' = tables /\ memories' = memories /\ elems' = elems /\ datas' = datas
      /\ build.at # 0 /\ build.next > Len(module[Stages[build.at]])
  BY Zenon DEF stage_done
<1>2. Applied(build, module, tables, memories, elems, datas)
  BY <1>1, Zenon DEF SegmentsInv
<1>3. build \in Builds /\ build.at \in {1, 2, 3, 4}
  <2>1. build \in Builds /\ build.at \in 0..4
    BY Zenon DEF IInv, Typed, Builds
  <2> QED
    BY <1>1, <2>1
<1>4. /\ \A at \in {1, 2, 3, 4} : Len(module[Stages[at]]) \in Nat
      /\ Len(module.elems) \in Nat /\ Len(module.datas) \in Nat
  BY <1>1, BuildingParsed, Zenon
<1>5. build.next = Len(module[Stages[build.at]]) + 1
  <2>1. build.next \in 1..(Len(module[Stages[build.at]]) + 1)
    BY <1>2, Zenon DEF Applied, Progress
  <2>2. Len(module[Stages[build.at]]) \in Nat
    BY <1>3, <1>4, Zenon
  <2> QED
    BY <1>1, <2>1, <2>2, SMTT(60)
<1>6. Stages[3] = "elems" /\ Stages[4] = "datas" /\ Len(Stages) = 4
  BY StagesAre, Zenon DEF Stages
<1>7. ArenasKeep
  BY <1>1, Zenon DEF ArenasKeep
<1>8. CASE build.at < Len(Stages)
  <2>1. build' = [build EXCEPT !.at = build.at + 1, !.next = 1] /\ instances' = instances
    <3>1. build.at # 4
      BY <1>3, <1>6, <1>8
    <3> QED
      BY <1>6, <3>1, Zenon DEF stage_done
  <2>2. /\ build'.at = build.at + 1 /\ build'.next = 1 /\ build'.entity = entity
        /\ build'.tables = build.tables /\ build'.memories = build.memories
    BY <1>3, <2>1, Zenon DEF Builds
  <2>3. Building' = module
    BY <2>1, BuildingSame, Zenon
  <2> HIDE DEF module, entity
  <2>4. Progress(build', module)
    <3>1. build.at \in {1, 2, 3}
      BY <1>3, <1>6, <1>8, SMTT(60)
    <3>2. 1 \in 1..(Len(module[Stages[build.at + 1]]) + 1)
      <4>1. build.at + 1 \in {1, 2, 3, 4}
        BY <3>1
      <4> QED
        BY <1>4, <4>1, SMTT(60)
    <3>3. /\ build.at \in {1, 2} => Len(entity.elems) = 0
          /\ build.at = 3 => Len(entity.elems) = build.next - 1
          /\ Len(entity.datas) = 0
      BY <1>2, <3>1, Zenon DEF Applied, Progress, entity
    <3>4. build.at = 3 => Len(entity.elems) = Len(module.elems)
      BY <1>4, <1>5, <1>6, <3>3, SMTT(60)
    <3>5. /\ build.at + 1 \in {1, 2} => build.at \in {1, 2}
          /\ build.at + 1 = 3 => build.at \in {1, 2} /\ 0 = 1 - 1
          /\ build.at + 1 = 4 => build.at = 3 /\ 0 = 1 - 1
      BY <3>1
    <3> QED
      BY <2>2, <3>2, <3>3, <3>4, <3>5, Zenon DEF Progress
  <2>5. Applied(build', module, tables, memories, elems, datas)
    BY <1>2, <2>2, <2>4, Zenon DEF Applied, entity
  <2>6. InstancesDropped'
    BY <1>1, <2>1, Zenon DEF SegmentsInv, InstancesDropped
  <2> QED
    BY <1>1, <2>3, <2>5, <2>6, Zenon DEF SegmentsInv
<1>9. CASE ~(build.at < Len(Stages))
  <2>1. build.at = 4
    BY <1>3, <1>6, <1>9
  <2>2. /\ build' = NotBuilding
        /\ instances' = [instances EXCEPT ![Handled] =
                [@ EXCEPT !.initialized = TRUE, !.entity = build.entity,
                          !.outcome = IF Building.start THEN "starting" ELSE "Ok"]]
    BY <1>9, Zenon DEF stage_done
  <2>3. Whole(module, entity) /\ Dropped(module, entity, elems, datas)
    <3>1. Len(entity.elems) = Len(module.elems) /\ Len(entity.datas) = build.next - 1
      BY <1>2, <2>1, Zenon DEF Applied, Progress
    <3>2. build.next - 1 = Len(module.datas)
      BY <1>4, <1>5, <1>6, <2>1, SMTT(60)
    <3> QED
      BY <1>2, <3>1, <3>2, Zenon DEF Applied, Whole
  <2>4. ASSUME NEW i \in DOMAIN instances', instances'[i].initialized
        PROVE  /\ Whole(Modules[instances'[i].module], instances'[i].entity)
               /\ Dropped(Modules[instances'[i].module], instances'[i].entity, elems', datas')
    <3>1. i \in DOMAIN instances /\ instances[i] \in InstanceTypes
      BY <2>2, InstanceAt, Zenon
    <3>2. CASE i = Handled
      <4>1. instances'[i] = [instances[i] EXCEPT !.initialized = TRUE, !.entity = build.entity,
                                !.outcome = IF Building.start THEN "starting" ELSE "Ok"]
        BY <2>2, <3>1, <3>2, Zenon
      <4>2. instances'[i].module = instances[i].module /\ instances'[i].entity = build.entity
        BY <3>1, <4>1, Zenon DEF InstanceTypes
      <4> QED
        BY <1>1, <2>3, <3>2, <4>2, Zenon DEF Building
    <3>3. CASE i # Handled
      <4>1. instances'[i] = instances[i]
        BY <2>2, <3>1, <3>3, Zenon
      <4> QED
        BY <1>1, <2>4, <3>1, <4>1, Zenon DEF SegmentsInv, InstancesDropped
    <3> QED
      BY <3>2, <3>3, Zenon
  <2>5. build'.at = 0
    BY <2>2, Zenon DEF NotBuilding
  <2> QED
    BY <2>4, <2>5, Zenon DEF SegmentsInv, InstancesDropped
<1> QED
  BY <1>8, <1>9, Zenon

\* What a new table or memory contains.
LEMMA NewTableIs ==
    ASSUME NEW lim, NEW ty, NEW init, NEW alloc, Table_new(lim, ty, init, alloc).error = "Ok"
    PROVE  Table_new(lim, ty, init, alloc).contents = Repeat(init.raw, ty.min)
<1> DEFINE denied == FirstError(<< <<ty.element # init.ty, "ElementTypeMismatch">>,
                         <<table_growing(lim, ty.min, ty.max) # "true", "ResourceLimiterDeniedAllocation">> >>)
           failed == IF alloc THEN "Ok" ELSE "OutOfSystemMemory"
           after == Repeat(init.raw, ty.min)
           r == Table_new(lim, ty, init, alloc)
<1>1. r = Growth(lim, denied, failed, 0, <<>>, after)
  BY Zenon DEF Table_new
<1> HIDE DEF denied, failed, after
<1>2. r.error = "Ok" => r.contents = after
  <2> HIDE DEF r
  <2> QED
    BY <1>1, GrowthIs
<1> QED
  BY <1>2, Zenon DEF after

\* A memory is made full of zeros (Memory::new).
LEMMA NewMemoryIs ==
    ASSUME NEW lim, NEW ty, NEW alloc, Memory_new(lim, ty, None, alloc).error = "Ok"
    PROVE  Memory_new(lim, ty, None, alloc).contents = Repeat(0, ToBytes(ty.min))
<1> DEFINE denied == FirstError(<< <<ty.min > AbsoluteMax, "MinimumSizeOverflow">>,
                         <<Exceeds(ty.max, AbsoluteMax), "MaximumSizeOverflow">>,
                         <<memory_growing(lim, ToBytes(ty.min), ToBytes(ty.max)) # "true",
                           "ResourceLimiterDeniedAllocation">> >>)
           failed == BufferError(None, ToBytes(ty.min), alloc)
           after == Repeat(0, ToBytes(ty.min))
           r == Memory_new(lim, ty, None, alloc)
<1>1. r = Growth(lim, denied, failed, 0, <<>>, after)
  BY Zenon DEF Memory_new
<1> HIDE DEF denied, failed, after
<1>2. r.error = "Ok" => r.contents = after
  <2> HIDE DEF r
  <2> QED
    BY <1>1, GrowthIs
<1> QED
  BY <1>2, Zenon DEF after

\* An item that is pushed: where the instantiation is then.
LEMMA PushApplied ==
    ASSUME IInv, SegmentsInv, NEW stage \in {"tables", "memories", "elems", "datas"}, NEW index \in Nat,
           More(stage), Pushed(stage, index), ArenasKeep
    PROVE  /\ Building' = Building /\ InstancesDropped'
           /\ build'.next \in 1..(Len(Building[Stages[build.at]]) + 1)
           /\ Applied(build, Building, tables, memories, elems, datas)
           /\ build.at \in {1, 2, 3, 4} /\ build \in Builds
<1>1. instances' = instances
  BY Zenon DEF Pushed
<1>2. InstancesDropped'
  <2>1. InstancesLike
    BY <1>1, Zenon DEF InstancesLike
  <2> QED
    BY <2>1, InstancesStayDropped, Zenon DEF SegmentsInv
<1>3. build.at # 0
  BY Zenon DEF More, At
<1>4. build.at \in {1, 2, 3, 4} /\ build \in Builds
  <2>1. build.at \in 0..4 /\ build \in Builds
    BY Zenon DEF IInv, Typed, Builds
  <2> QED
    BY <1>3, <2>1
<1>5. Applied(build, Building, tables, memories, elems, datas)
  BY <1>3, Zenon DEF SegmentsInv
<1>6. build'.next \in 1..(Len(Building[Stages[build.at]]) + 1)
  <2>1. build'.next = build.next + 1 /\ build.next \in Nat
    BY <1>4, PushedIs, Zenon DEF Builds
  <2>2. Building[Stages[build.at]] = Building[stage] /\ build.next \in DOMAIN Building[stage]
    BY Zenon DEF More, At
  <2>3. /\ Building.tables \in Seq(Types) /\ Building.memories \in Seq(Types)
        /\ Building.elems \in Seq(ElementSegments) /\ Building.datas \in Seq(DataSegments)
    BY <1>3, BuildingParsed, Zenon DEF ParsedModules
  <2>4. \A T : \A s \in Seq(T) : Len(s) \in Nat /\ DOMAIN s = 1..Len(s)
    OBVIOUS
  <2>5. Len(Building[stage]) \in Nat /\ DOMAIN Building[stage] = 1..Len(Building[stage])
    BY <2>3, <2>4, Zenon
  <2>6. build.next \in 1..Len(Building[stage])
    BY <2>2, <2>5, Zenon
  <2>7. build.next + 1 \in 1..(Len(Building[stage]) + 1)
    BY <2>1, <2>5, <2>6, SMTT(60)
  <2> QED
    BY <2>1, <2>2, <2>7, Zenon
<1> QED
  BY <1>1, <1>2, <1>4, <1>5, <1>6, BuildingSame, Zenon

\* A new table is after those that were there, and empty of references.
LEMMA TableApplied ==
    ASSUME IInv, SegmentsInv, NEW alloc \in BOOLEAN, extract_tables(alloc)
    PROVE  SegmentsInv'
<1> DEFINE new == Table_new(limits, Item, DefaultRef(Item), alloc)
           table == [ty |-> Item, elements |-> new.contents]
<1>1. memories' = memories /\ elems' = elems /\ datas' = datas /\ More("tables")
  BY Zenon DEF extract_tables
<1>2. ArenasKeep
  BY <1>1, Zenon DEF ArenasKeep
<1>3. \/ new.error = "Ok" /\ tables' = Append(tables, table) /\ Pushed("tables", Len(tables) + 1)
      \/ Fails(new.error)
  BY Zenon DEF extract_tables
<1>4. CASE Fails(new.error)
  BY <1>2, <1>4, FailsApplied, Zenon
<1>5. CASE new.error = "Ok" /\ tables' = Append(tables, table) /\ Pushed("tables", Len(tables) + 1)
  <2>1. tables \in Seq(Tables) /\ Len(tables) \in Nat /\ Len(tables) + 1 \in Nat
    BY DEF IInv, Typed
  <2>2. /\ Building' = Building /\ InstancesDropped'
        /\ build'.next \in 1..(Len(Building[Stages[build.at]]) + 1)
        /\ Applied(build, Building, tables, memories, elems, datas)
        /\ build.at \in {1, 2, 3, 4} /\ build \in Builds
    BY <1>1, <1>2, <1>5, <2>1, PushApplied, Zenon
  <2>3. /\ build'.at = build.at /\ build'.tables = build.tables /\ build'.memories = build.memories
        /\ build'.entity.memories = build.entity.memories /\ build'.entity.elems = build.entity.elems
        /\ build'.entity.datas = build.entity.datas
    BY <1>5, <2>1, PushedIs, Zenon
  <2>4. build.at = 1
    BY <1>1, StagesAre, Zenon DEF More
  <2>5. \A n \in DOMAIN table.elements : table.elements[n] = NullRef
    <3>1. new.contents = Repeat(DefaultRef(Item).raw, Item.min)
      BY <1>5, NewTableIs, Zenon
    <3>2. DefaultRef(Item).raw = NullRef
      BY Zenon DEF DefaultRef
    <3>3. table.elements = Repeat(NullRef, Item.min)
      BY <3>1, <3>2, Zenon
    <3> HIDE DEF table
    <3> QED
      BY <3>3, Zenon DEF Repeat
  <2> HIDE DEF table, new
  <2>6. OneMore(tables, table, tables')
    BY <1>5, <2>1, Appended, SMTT(60)
  <2>7. /\ Len(build.entity.elems) = 0 /\ Len(build.entity.datas) = 0
        /\ Len(build.tables) <= Len(tables) /\ Len(build.memories) <= Len(memories)
    BY <2>2, <2>4, Zenon DEF Applied, Progress
  <2>8. build.tables \in Seq(Tables)
    BY <2>2, Zenon DEF Builds
  <2>9. TablesAfter(tables', Building, build'.entity, build'.tables, 0)
    <3>1. TablesAfter(tables, Building, build.entity, build.tables, 0)
      BY <2>2, <2>7, Zenon DEF Applied
    <3> QED
      BY <1>5, <2>1, <2>3, <2>5, <2>7, <2>8, <3>1, TableAdded, ZenonT(60)
  <2>10. MemoriesAfter(memories', Building, build'.entity, build'.memories, 0)
    <3>1. MemoriesAfter(memories, Building, build.entity, build.memories, 0)
      BY <2>2, <2>7, Zenon DEF Applied
    <3> QED
      BY <1>1, <2>3, <3>1, SameAfter, Zenon
  <2>11. Progress(build', Building)
    <3>1. 1 # 3 /\ 1 # 4
      OBVIOUS
    <3> QED
      BY <2>2, <2>3, <2>4, <2>7, <3>1, ZenonT(60) DEF Progress
  <2>12. Dropped(Building, build'.entity, elems', datas')
    BY <1>1, <2>2, <2>3, Zenon DEF Applied, Dropped
  <2>13. Len(build'.tables) <= Len(tables') /\ Len(build'.memories) <= Len(memories')
    <3>1. Len(build.tables) \in Nat /\ Len(tables') = Len(tables) + 1
      BY <2>6, <2>8, SMTT(60) DEF OneMore
    <3>2. Len(build.tables) <= Len(tables')
      BY <2>1, <2>7, <3>1, SMTT(60)
    <3> QED
      BY <1>1, <2>3, <2>7, <3>2, Zenon
  <2>14. Applied(build', Building', tables', memories', elems', datas')
    BY <2>2, <2>3, <2>7, <2>9, <2>10, <2>11, <2>12, <2>13, ZenonT(60) DEF Applied
  <2> QED
    BY <2>2, <2>14, Zenon DEF SegmentsInv
<1> QED
  BY <1>3, <1>4, <1>5, Zenon

\* A new memory is after those that were there, and zero.
LEMMA MemoryApplied ==
    ASSUME IInv, SegmentsInv, NEW alloc \in BOOLEAN, extract_memories(alloc)
    PROVE  SegmentsInv'
<1> DEFINE new == Memory_new(limits, Item, None, alloc)
           memory == [ty |-> Item, data |-> new.contents, capacity |-> None]
<1>1. tables' = tables /\ elems' = elems /\ datas' = datas /\ More("memories")
  BY Zenon DEF extract_memories
<1>2. ArenasKeep
  BY <1>1, Zenon DEF ArenasKeep
<1>3. \/ new.error = "Ok" /\ memories' = Append(memories, memory) /\ Pushed("memories", Len(memories) + 1)
      \/ Fails(new.error)
  BY Zenon DEF extract_memories
<1>4. CASE Fails(new.error)
  BY <1>2, <1>4, FailsApplied, Zenon
<1>5. CASE new.error = "Ok" /\ memories' = Append(memories, memory) /\ Pushed("memories", Len(memories) + 1)
  <2>1. memories \in Seq(Memories) /\ Len(memories) \in Nat /\ Len(memories) + 1 \in Nat
    BY DEF IInv, Typed
  <2>2. /\ Building' = Building /\ InstancesDropped'
        /\ build'.next \in 1..(Len(Building[Stages[build.at]]) + 1)
        /\ Applied(build, Building, tables, memories, elems, datas)
        /\ build.at \in {1, 2, 3, 4} /\ build \in Builds
    BY <1>1, <1>2, <1>5, <2>1, PushApplied, Zenon
  <2>3. /\ build'.at = build.at /\ build'.tables = build.tables /\ build'.memories = build.memories
        /\ build'.entity.tables = build.entity.tables /\ build'.entity.elems = build.entity.elems
        /\ build'.entity.funcs = build.entity.funcs /\ build'.entity.datas = build.entity.datas
    BY <1>5, <2>1, PushedIs, Zenon
  <2>4. build.at = 2
    BY <1>1, StagesAre, Zenon DEF More
  <2>5. \A n \in DOMAIN memory.data : memory.data[n] = 0
    <3>1. memory.data = Repeat(0, ToBytes(Item.min))
      BY <1>5, NewMemoryIs, Zenon
    <3> HIDE DEF memory
    <3> QED
      BY <3>1, Zenon DEF Repeat
  <2> HIDE DEF memory, new
  <2>6. OneMore(memories, memory, memories')
    BY <1>5, <2>1, Appended, SMTT(60)
  <2>7. /\ Len(build.entity.elems) = 0 /\ Len(build.entity.datas) = 0
        /\ Len(build.tables) <= Len(tables) /\ Len(build.memories) <= Len(memories)
    BY <2>2, <2>4, Zenon DEF Applied, Progress
  <2>8. build.memories \in Seq(Memories)
    BY <2>2, Zenon DEF Builds
  <2>9. MemoriesAfter(memories', Building, build'.entity, build'.memories, 0)
    <3>1. MemoriesAfter(memories, Building, build.entity, build.memories, 0)
      BY <2>2, <2>7, Zenon DEF Applied
    <3> QED
      BY <1>5, <2>1, <2>3, <2>5, <2>7, <2>8, <3>1, MemoryAdded, ZenonT(60)
  <2>10. TablesAfter(tables', Building, build'.entity, build'.tables, 0)
    <3>1. TablesAfter(tables, Building, build.entity, build.tables, 0)
      BY <2>2, <2>7, Zenon DEF Applied
    <3> QED
      BY <1>1, <2>3, <3>1, SameAfter, Zenon
  <2>11. Progress(build', Building)
    <3>1. 2 # 3 /\ 2 # 4
      OBVIOUS
    <3> QED
      BY <2>2, <2>3, <2>4, <2>7, <3>1, ZenonT(60) DEF Progress
  <2>12. Dropped(Building, build'.entity, elems', datas')
    BY <1>1, <2>2, <2>3, Zenon DEF Applied, Dropped
  <2>13. Len(build'.tables) <= Len(tables') /\ Len(build'.memories) <= Len(memories')
    <3>1. Len(build.memories) \in Nat /\ Len(memories') = Len(memories) + 1
      BY <2>6, <2>8, SMTT(60) DEF OneMore
    <3>2. Len(build.memories) <= Len(memories')
      BY <2>1, <2>7, <3>1, SMTT(60)
    <3> QED
      BY <1>1, <2>3, <2>7, <3>2, Zenon
  <2>14. Applied(build', Building', tables', memories', elems', datas')
    BY <2>2, <2>3, <2>7, <2>9, <2>10, <2>11, <2>12, <2>13, ZenonT(60) DEF Applied
  <2> QED
    BY <2>2, <2>14, Zenon DEF SegmentsInv
<1> QED
  BY <1>3, <1>4, <1>5, Zenon

\* Copying a segment makes no table more.
LEMMA TablesAsMany ==
    ASSUME NEW module, NEW entity, NEW s, NEW ts \in Seq(Tables), NEW us, ElemDone(ts, us, module, entity, s)
    PROVE  Len(us) = Len(ts)
<1> DEFINE t == entity.tables[module.elems[s].table]
           x == [ts[t] EXCEPT !.elements = copy_from_slice(@, module.elems[s].offset, ItemsIn(module.elems[s], entity.funcs))]
<1>1. us = ts \/ us = [ts EXCEPT ![t] = x]
  BY Zenon DEF ElemDone
<1> HIDE DEF t, x
<1> QED
  BY <1>1

\* Nor a memory.
LEMMA MemoriesAsMany ==
    ASSUME NEW module, NEW entity, NEW s, NEW ms \in Seq(Memories), NEW ws, DataDone(ms, ws, module, entity, s)
    PROVE  Len(ws) = Len(ms)
<1> DEFINE m == entity.memories[module.datas[s].memory]
           x == [ms[m] EXCEPT !.data = copy_from_slice(@, module.datas[s].offset, module.datas[s].bytes)]
<1>1. ws = ms \/ ws = [ms EXCEPT ![m] = x]
  BY Zenon DEF DataDone
<1> HIDE DEF m, x
<1> QED
  BY <1>1

\* A segment that is copied into its table, or is not to be, is dropped or kept, and
\* the first that does not fit ends the instantiation.
LEMMA ElemsApplied ==
    ASSUME IInv, SegmentsInv, initialize_table_elements
    PROVE  SegmentsInv'
<1> DEFINE k == Len(build.entity.elems)
           index == Len(elems) + 1
<1>1. memories' = memories /\ datas' = datas /\ More("elems")
  BY Zenon DEF initialize_table_elements
<1>2. build.at = 3 /\ build.at # 0
  BY <1>1, StagesAre, Zenon DEF More, At
<1>3. Items(Item) = ItemsIn(Item, build.entity.funcs)
  BY Zenon DEF Items, ItemsIn
<1>4. Applied(build, Building, tables, memories, elems, datas)
  BY <1>2, Zenon DEF SegmentsInv
<1>5. build \in Builds /\ build.entity \in Entities /\ build.next \in Nat /\ build.tables \in Seq(Tables)
  BY Zenon DEF IInv, Typed, Builds
<1>6. k \in Nat /\ k + 1 = build.next /\ Len(build.entity.datas) = 0
  <2>1. k = build.next - 1 /\ Len(build.entity.datas) = 0
    BY <1>2, <1>4, Zenon DEF Applied, Progress
  <2>2. build.next \in 1..(Len(Building[Stages[build.at]]) + 1)
    BY <1>4, Zenon DEF Applied, Progress
  <2>3. build.next >= 1
    BY <2>2
  <2> QED
    BY <1>5, <2>1, <2>3, SMTT(60)
<1>7. Item = Building.elems[k + 1]
  BY <1>1, <1>6, Zenon DEF Item, More, At
<1>8. tables \in Seq(Tables) /\ elems \in Seq(Seq(Nat)) /\ index \in Nat
  BY DEF IInv, Typed
<1>9. \/ /\ ElemDone(tables, tables', Building, build.entity, k + 1) /\ Pushed("elems", index)
         /\ \E items : elems' = Append(elems, items) /\ (Building.elems[k + 1].kind = "active" => items = <<>>)
      \/ /\ Fails("ElementSegmentDoesNotFit") /\ \E items : elems' = Append(elems, items)
  BY <1>3, <1>7, Zenon DEF initialize_table_elements, ElemDone
<1>10. ArenasKeep
  BY <1>1, <1>9, ArenasMore, Zenon
<1>11. CASE Fails("ElementSegmentDoesNotFit")
  BY <1>10, <1>11, FailsApplied, Zenon
<1>12. ASSUME ElemDone(tables, tables', Building, build.entity, k + 1), Pushed("elems", index),
              NEW items, elems' = Append(elems, items), Building.elems[k + 1].kind = "active" => items = <<>>
       PROVE  SegmentsInv'
  <2>1. /\ Building' = Building /\ InstancesDropped'
        /\ build'.next \in 1..(Len(Building[Stages[build.at]]) + 1)
    BY <1>1, <1>8, <1>10, <1>12, PushApplied, Zenon
  <2>2. /\ build'.at = 3 /\ build'.tables = build.tables /\ build'.memories = build.memories
        /\ build'.entity.tables = build.entity.tables /\ build'.entity.memories = build.entity.memories
        /\ build'.entity.funcs = build.entity.funcs /\ build'.entity.datas = build.entity.datas
        /\ build'.entity.elems = Append(build.entity.elems, index) /\ build'.next = build.next + 1
    BY <1>2, <1>8, <1>12, PushedIs, Zenon
  <2>3. Len(build'.entity.elems) = k + 1
    <3>1. build.entity.elems \in Seq(Nat)
      BY <1>5, Zenon DEF Entities
    <3>2. Len(Append(build.entity.elems, index)) = k + 1
      BY <1>8, <3>1
    <3> QED
      BY <2>2, <3>2, Zenon
  <2>4. TablesAfter(tables', Building, build'.entity, build'.tables, k + 1)
    <3>1. TablesAfter(tables, Building, build.entity, build.tables, k)
      BY <1>4, Zenon DEF Applied
    <3> QED
      BY <1>6, <1>8, <1>12, <2>2, <3>1, TablesCopied, Zenon
  <2>5. MemoriesAfter(memories', Building, build'.entity, build'.memories, Len(build'.entity.datas))
    <3>1. MemoriesAfter(memories, Building, build.entity, build.memories, Len(build.entity.datas))
      BY <1>4, Zenon DEF Applied
    <3> QED
      BY <1>1, <2>2, <3>1, SameAfter, Zenon
  <2>6. Dropped(Building, build'.entity, elems', datas')
    <3>1. \A n \in DOMAIN build.entity.elems : build.entity.elems[n] \in DOMAIN elems
      BY <1>2, Zenon DEF IInv, Underway, Resolves
    <3>2. Dropped(Building, build.entity, elems, datas)
      BY <1>4, Zenon DEF Applied
    <3> QED
      BY <1>1, <1>5, <1>8, <1>12, <2>2, <3>1, <3>2, ElemDropped, ZenonT(60)
  <2>7. Progress(build', Building)
    <3>1. 3 # 1 /\ 3 # 2 /\ 3 # 4 /\ k + 1 = (build.next + 1) - 1
      BY <1>5, <1>6
    <3> HIDE DEF k
    <3> QED
      BY <1>2, <1>6, <2>1, <2>2, <2>3, <3>1, ZenonT(60) DEF Progress
  <2>8. Len(build'.tables) <= Len(tables') /\ Len(build'.memories) <= Len(memories')
    <3>1. Len(build.tables) <= Len(tables) /\ Len(build.memories) <= Len(memories)
      BY <1>4, Zenon DEF Applied
    <3>2. Len(tables') = Len(tables)
      BY <1>8, <1>12, TablesAsMany, SMTT(60)
    <3> QED
      BY <1>1, <2>2, <3>1, <3>2, Zenon
  <2>9. Applied(build', Building', tables', memories', elems', datas')
    BY <2>1, <2>3, <2>4, <2>5, <2>6, <2>7, <2>8, ZenonT(60) DEF Applied
  <2> QED
    BY <2>1, <2>9, Zenon DEF SegmentsInv
<1> QED
  BY <1>9, <1>11, <1>12, Zenon

\* The same for a data segment and its memory.
LEMMA DatasApplied ==
    ASSUME IInv, SegmentsInv, initialize_memory_data
    PROVE  SegmentsInv'
<1> DEFINE k == Len(build.entity.datas)
           index == Len(datas) + 1
<1>1. tables' = tables /\ elems' = elems /\ More("datas")
  BY Zenon DEF initialize_memory_data
<1>2. build.at = 4 /\ build.at # 0
  BY <1>1, StagesAre, Zenon DEF More, At
<1>4. Applied(build, Building, tables, memories, elems, datas)
  BY <1>2, Zenon DEF SegmentsInv
<1>5. build \in Builds /\ build.entity \in Entities /\ build.next \in Nat /\ build.memories \in Seq(Memories)
  BY Zenon DEF IInv, Typed, Builds
<1>6. k \in Nat /\ k + 1 = build.next /\ Len(build.entity.elems) = Len(Building.elems)
  <2>1. k = build.next - 1 /\ Len(build.entity.elems) = Len(Building.elems)
    BY <1>2, <1>4, Zenon DEF Applied, Progress
  <2>2. build.next \in 1..(Len(Building[Stages[build.at]]) + 1)
    BY <1>4, Zenon DEF Applied, Progress
  <2>3. build.next >= 1
    BY <2>2
  <2> QED
    BY <1>5, <2>1, <2>3, SMTT(60)
<1>7. Item = Building.datas[k + 1]
  BY <1>1, <1>6, Zenon DEF Item, More, At
<1>8. memories \in Seq(Memories) /\ datas \in Seq(Seq(Nat)) /\ index \in Nat
  BY DEF IInv, Typed
<1>9. \/ /\ DataDone(memories, memories', Building, build.entity, k + 1) /\ Pushed("datas", index)
         /\ \E bytes : datas' = Append(datas, bytes) /\ (Building.datas[k + 1].active => bytes = <<>>)
      \/ /\ Fails("OutOfBoundsAccess") /\ datas' = datas
  BY <1>7, Zenon DEF initialize_memory_data, DataDone
<1>10. ArenasKeep
  BY <1>1, <1>9, ArenasMore, Zenon
<1>11. CASE Fails("OutOfBoundsAccess")
  BY <1>10, <1>11, FailsApplied, Zenon
<1>12. ASSUME DataDone(memories, memories', Building, build.entity, k + 1), Pushed("datas", index),
              NEW bytes, datas' = Append(datas, bytes), Building.datas[k + 1].active => bytes = <<>>
       PROVE  SegmentsInv'
  <2>1. /\ Building' = Building /\ InstancesDropped'
        /\ build'.next \in 1..(Len(Building[Stages[build.at]]) + 1)
    BY <1>1, <1>8, <1>10, <1>12, PushApplied, Zenon
  <2>2. /\ build'.at = 4 /\ build'.tables = build.tables /\ build'.memories = build.memories
        /\ build'.entity.tables = build.entity.tables /\ build'.entity.memories = build.entity.memories
        /\ build'.entity.funcs = build.entity.funcs /\ build'.entity.elems = build.entity.elems
        /\ build'.entity.datas = Append(build.entity.datas, index) /\ build'.next = build.next + 1
    BY <1>2, <1>8, <1>12, PushedIs, Zenon
  <2>3. Len(build'.entity.datas) = k + 1
    <3>1. build.entity.datas \in Seq(Nat)
      BY <1>5, Zenon DEF Entities
    <3>2. Len(Append(build.entity.datas, index)) = k + 1
      BY <1>8, <3>1
    <3> QED
      BY <2>2, <3>2, Zenon
  <2>4. MemoriesAfter(memories', Building, build'.entity, build'.memories, k + 1)
    <3>1. MemoriesAfter(memories, Building, build.entity, build.memories, k)
      BY <1>4, Zenon DEF Applied
    <3> QED
      BY <1>6, <1>8, <1>12, <2>2, <3>1, MemoriesCopied, Zenon
  <2>5. TablesAfter(tables', Building, build'.entity, build'.tables, Len(build'.entity.elems))
    <3>1. TablesAfter(tables, Building, build.entity, build.tables, Len(build.entity.elems))
      BY <1>4, Zenon DEF Applied
    <3> QED
      BY <1>1, <2>2, <3>1, SameAfter, Zenon
  <2>6. Dropped(Building, build'.entity, elems', datas')
    <3>1. \A n \in DOMAIN build.entity.datas : build.entity.datas[n] \in DOMAIN datas
      BY <1>2, Zenon DEF IInv, Underway, Resolves
    <3>2. Dropped(Building, build.entity, elems, datas)
      BY <1>4, Zenon DEF Applied
    <3> QED
      BY <1>1, <1>5, <1>8, <1>12, <2>2, <3>1, <3>2, DataDropped, ZenonT(60)
  <2>7. Progress(build', Building)
    <3>1. 4 # 1 /\ 4 # 2 /\ 4 # 3 /\ k + 1 = (build.next + 1) - 1
      BY <1>5, <1>6
    <3> HIDE DEF k
    <3> QED
      BY <1>2, <1>6, <2>1, <2>2, <2>3, <3>1, Zenon DEF Progress
  <2>8. Len(build'.tables) <= Len(tables') /\ Len(build'.memories) <= Len(memories')
    <3>1. Len(build.tables) <= Len(tables) /\ Len(build.memories) <= Len(memories)
      BY <1>4, Zenon DEF Applied
    <3>2. Len(memories') = Len(memories)
      BY <1>8, <1>12, MemoriesAsMany, SMTT(60)
    <3> QED
      BY <1>1, <2>2, <3>1, <3>2, Zenon
  <2>9. Applied(build', Building', tables', memories', elems', datas')
    BY <2>1, <2>3, <2>4, <2>5, <2>6, <2>7, <2>8, ZenonT(60) DEF Applied
  <2> QED
    BY <2>1, <2>9, Zenon DEF SegmentsInv
<1> QED
  BY <1>9, <1>11, <1>12, Zenon

\* At the beginning there is no instance.
LEMMA SegmentsBegin ==
    ASSUME Init
    PROVE  SegmentsInv
<1>1. build.at = 0
  BY Zenon DEF Init, NotBuilding
<1>2. instances = <<>>
  BY Zenon DEF Init, RuntimeInit
<1>3. DOMAIN instances = {}
  BY <1>2, SMTT(60)
<1> QED
  BY <1>1, <1>3, Zenon DEF SegmentsInv, InstancesDropped

\* Every step keeps the segments where they are to be.
LEMMA SegmentsKeep ==
    ASSUME IInv, SegmentsInv, [Next]_vars
    PROVE  SegmentsInv'
<1>1. CASE UNCHANGED vars
  <2>1. /\ tables' = tables /\ memories' = memories /\ elems' = elems /\ datas' = datas
        /\ instances' = instances /\ build' = build
    BY <1>1, Zenon DEF vars, runtime
  <2>2. Building' = Building
    BY <2>1, Zenon DEF Building, Handled
  <2>3. ArenasKeep /\ InstancesLike
    BY <2>1, Zenon DEF ArenasKeep, InstancesLike
  <2>4. InstancesDropped'
    BY <2>3, InstancesStayDropped, Zenon DEF SegmentsInv
  <2>5. build'.at # 0 => Applied(build', Building', tables', memories', elems', datas')
    BY <2>1, <2>2, Zenon DEF SegmentsInv
  <2> QED
    BY <2>4, <2>5, Zenon DEF SegmentsInv
<1>2. CASE build.at = 0 /\ UNCHANGED build /\ (HostNext \/ \E i \in DOMAIN instances : WasmNext(i))
  <2>1. ArenasKeep /\ InstancesLike
    BY <1>2, OperationsLeave, Zenon
  <2>2. InstancesDropped'
    BY <2>1, InstancesStayDropped, Zenon DEF SegmentsInv
  <2> QED
    BY <1>2, <2>2, Zenon DEF SegmentsInv
<1>3. CASE \E name \in DOMAIN Modules : \E externs \in ExternsFor(Modules[name].imports) : instantiate(name, externs)
  BY <1>3, BeginsApplied, Zenon
<1>4. CASE BuildNext
  BY <1>4, TooManyApplied, ElemsApplied, DatasApplied, StageApplied, TableApplied, MemoryApplied, ZenonT(60) DEF BuildNext
<1> QED
  BY <1>1, <1>2, <1>3, <1>4, ZenonT(60) DEF Next

\* What the model checker looks at follows: the tables and memories are those there
\* were with the segments so far, and the active segments of an instance are empty.
LEMMA SegmentsAre ==
    ASSUME IInv, SegmentsInv
    PROVE  SegmentsApplied
<1>1. ASSUME build.at # 0
      PROVE  build.entity.datas # <<>> => Len(build.entity.elems) = Len(Building.elems)
  <2>1. Progress(build, Building) /\ build.at \in 0..4
    BY <1>1, Zenon DEF SegmentsInv, Applied, IInv, Typed, Builds
  <2>2. build.at \in {1, 2, 3, 4}
    BY <1>1, <2>1
  <2>3. build.entity.datas \in Seq(Nat)
    BY Zenon DEF IInv, Typed, Builds, Entities
  <2>4. Len(build.entity.datas) = 0 => build.entity.datas = <<>>
    BY <2>3
  <2>5. build.at = 4 => Len(build.entity.elems) = Len(Building.elems)
    BY <2>1, Zenon DEF Progress
  <2>6. build.at \in {1, 2, 3} => Len(build.entity.datas) = 0
    BY <2>1, Zenon DEF Progress
  <2> QED
    BY <2>2, <2>4, <2>5, <2>6, Zenon
<1>2. ASSUME build.at # 0, NEW t \in DOMAIN tables, NEW n \in DOMAIN tables[t].elements
      PROVE  LET Covers(s) == s.kind = "active" /\ build.entity.tables[s.table] = t
             IN  tables[t].elements[n] =
                    AfterSegments(Building.elems, Len(build.entity.elems), n,
                                  IF t \in DOMAIN build.tables THEN build.tables[t].elements[n] ELSE NullRef,
                                  Covers, Items)
  <2> DEFINE count == Len(build.entity.elems)
             S == ElemsCovering(Building, build.entity, t, n, count)
  <2>1. tables[t].elements[n] = Element(Building, build.entity, build.tables, t, n, S)
    BY <1>2, Zenon DEF SegmentsInv, Applied, TablesAfter
  <2>2. \A segment : Items(segment) = ItemsIn(segment, build.entity.funcs)
    BY Zenon DEF Items, ItemsIn
  <2>3. {s \in 1..count : (Building.elems[s].kind = "active" /\ build.entity.tables[Building.elems[s].table] = t)
             /\ n \in (Building.elems[s].offset + 1)..(Building.elems[s].offset + Len(Items(Building.elems[s])))} = S
    BY <2>2, Zenon DEF ElemsCovering, ElemCovers
  <2> HIDE DEF count, S
  <2>4. tables[t].elements[n] =
          IF S = {} THEN IF t \in DOMAIN build.tables THEN build.tables[t].elements[n] ELSE NullRef
          ELSE Items(Building.elems[Latest(S)])[n - Building.elems[Latest(S)].offset]
    BY <2>1, <2>2, Zenon DEF Element
  <2> USE DEF count
  <2> QED
    BY <2>3, <2>4, Zenon DEF AfterSegments, Latest
<1>3. ASSUME build.at # 0, NEW m \in DOMAIN memories, NEW n \in DOMAIN memories[m].data
      PROVE  LET Covers(s) == s.active /\ build.entity.memories[s.memory] = m
                 Bytes(s) == s.bytes
             IN  memories[m].data[n] =
                    AfterSegments(Building.datas, Len(build.entity.datas), n,
                                  IF m \in DOMAIN build.memories THEN build.memories[m].data[n] ELSE 0,
                                  Covers, Bytes)
  <2> DEFINE count == Len(build.entity.datas)
             S == DatasCovering(Building, build.entity, m, n, count)
  <2>1. memories[m].data[n] = Byte(Building, build.memories, m, n, S)
    BY <1>3, Zenon DEF SegmentsInv, Applied, MemoriesAfter
  <2>2. {s \in 1..count : (Building.datas[s].active /\ build.entity.memories[Building.datas[s].memory] = m)
             /\ n \in (Building.datas[s].offset + 1)..(Building.datas[s].offset + Len(Building.datas[s].bytes))} = S
    BY Zenon DEF DatasCovering, DataCovers
  <2> HIDE DEF count, S
  <2>3. memories[m].data[n] =
          IF S = {} THEN IF m \in DOMAIN build.memories THEN build.memories[m].data[n] ELSE 0
          ELSE Building.datas[Latest(S)].bytes[n - Building.datas[Latest(S)].offset]
    BY <2>1, Zenon DEF Byte
  <2> USE DEF count
  <2> QED
    BY <2>2, <2>3, Zenon DEF AfterSegments, Latest
<1>4. ASSUME NEW i \in DOMAIN instances, instances[i].initialized
      PROVE  LET module == Modules[instances[i].module]
             IN  /\ \A e \in DOMAIN module.elems : module.elems[e].kind = "active" => elems[Entity(i).elems[e]] = <<>>
                 /\ \A d \in DOMAIN module.datas : module.datas[d].active => datas[Entity(i).datas[d]] = <<>>
  <2> DEFINE module == Modules[instances[i].module]
             entity == instances[i].entity
  <2>1. Whole(module, entity) /\ Dropped(module, entity, elems, datas)
    BY <1>4, Zenon DEF SegmentsInv, InstancesDropped
  <2>2. entity \in Entities /\ module \in ParsedModules
    BY InstanceAt, ModulesAssumption, Zenon
  <2> HIDE DEF module, entity
  <2>3. /\ entity.elems \in Seq(Nat) /\ entity.datas \in Seq(Nat)
        /\ module.elems \in Seq(ElementSegments) /\ module.datas \in Seq(DataSegments)
    BY <2>2, Zenon DEF Entities, ParsedModules
  <2>4. DOMAIN entity.elems = DOMAIN module.elems /\ DOMAIN entity.datas = DOMAIN module.datas
    <3>1. Len(entity.elems) = Len(module.elems) /\ Len(entity.datas) = Len(module.datas)
      BY <2>1, Zenon DEF Whole
    <3> QED
      BY <2>3, <3>1, SMTT(60)
  <2>5. /\ \A e \in DOMAIN module.elems : module.elems[e].kind = "active" => elems[entity.elems[e]] = <<>>
        /\ \A d \in DOMAIN module.datas : module.datas[d].active => datas[entity.datas[d]] = <<>>
    BY <2>1, <2>4, Zenon DEF Dropped
  <2> QED
    BY <2>5, Zenon DEF module, entity, Entity
<1> QED
  BY <1>1, <1>2, <1>3, <1>4, ZenonT(60) DEF SegmentsApplied

=============================================================================
