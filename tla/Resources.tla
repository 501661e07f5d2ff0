----------------------------- MODULE Resources -----------------------------
(***************************************************************************)
(* Linear memories, tables, segments, fuel and the resource limiter of a   *)
(* store, as operators: crates/core/src/{memory, table, fuel, limiter} and *)
(* StoreLimits of crates/wasmi/src/limits.rs.  An operation that can fail  *)
(* is a sequence of checks in the order of the code, of which the first    *)
(* that does not pass decides (FirstError); its result is a record with    *)
(* the error or "Ok", the new contents, the fuel spent, and whether the    *)
(* limiter approved the growth (asked) and was told that it failed (told). *)
(***************************************************************************)
EXTENDS Integers, Sequences

CONSTANTS
    PageSize,       \* bytes of a page
    RefSize,        \* size_of::<RawRef>()
    BytesPerFuel,   \* FuelCosts::bytes_per_fuel
    AbsoluteMax,    \* MemoryType::absolute_max: pages a memory's index type reaches
    TableMax        \* IndexType::max_size of a table's index type

ASSUME SizesAssumption ==
    /\ PageSize \in Nat \ {0} /\ RefSize \in Nat /\ BytesPerFuel \in Nat \ {0}
    /\ AbsoluteMax \in Nat /\ TableMax \in Nat

\* Option::None of a maximum, a limit or a static buffer's capacity.
None == -1

Option == Nat \cup {None}

\* A null reference.
NullRef == 0

\* The error of the first check that fails, in the order of the early returns.
FirstError(checks) ==
    LET failing == {n \in DOMAIN checks : checks[n][1]}
    IN  IF failing = {} THEN "Ok"
        ELSE checks[CHOOSE n \in failing : \A o \in failing : n <= o][2]

Exceeds(size, limit) == limit # None /\ size > limit

\* The sum of a sequence of sizes.
Total(sizes) ==
    LET sum[n \in 0..Len(sizes)] == IF n = 0 THEN 0 ELSE sum[n - 1] + sizes[n]
    IN  sum[Len(sizes)]

-----------------------------------------------------------------------------
(* Fuel. *)

Fuels == [enabled : BOOLEAN, remaining : Nat]

fuel_for_copying_values(len, size) == (len * size) \div BytesPerFuel

\* consume_fuel_if: nothing is checked or charged when metering is disabled.
OutOfFuel(fuel, cost) == fuel.enabled /\ cost > fuel.remaining

Spend(fuel, cost) ==
    IF fuel.enabled THEN [fuel EXCEPT !.remaining = @ - cost] ELSE fuel

\* A host function passes None for the fuel.
NoFuel == [enabled |-> FALSE, remaining |-> 0]

-----------------------------------------------------------------------------
(* StoreLimits as the store's limiter; limits.on is FALSE without one. *)

Limits == [on : BOOLEAN, trap : BOOLEAN, memory_size : Option, table_elements : Option,
           instances : Nat, tables : Nat, memories : Nat]

Growing(limits, limit, desired, maximum) ==
    CASE ~limits.on \/ ~(Exceeds(desired, limit) \/ Exceeds(desired, maximum)) -> "true"
      [] OTHER -> IF limits.trap THEN "err" ELSE "false"

memory_growing(limits, desired, maximum) == Growing(limits, limits.memory_size, desired, maximum)

table_growing(limits, desired, maximum) == Growing(limits, limits.table_elements, desired, maximum)

\* What memory_grow_failed and table_grow_failed make of an error.
grow_failed(limits, error) ==
    IF limits.on /\ limits.trap THEN "ResourceLimiterDeniedAllocation" ELSE error

\* Store::can_create_more_instances, _memories and _tables.
CanCreateMore(limits, len, additional, limit) == limits.on => len + additional <= limit

-----------------------------------------------------------------------------
(* Types. *)

\* MemoryType and TableType; the element of a memory is a byte.
Types == [element : STRING, min : Nat, max : Option]

ValidType(ty) == ty.max # None => ty.min <= ty.max

\* Mutant: a type without a maximum passes for one with any.
is_subtype_of_unbounded(ty, required) ==
    /\ ty.element = required.element
    /\ ty.min >= required.min
    /\ required.max # None /\ ty.max # None => ty.max <= required.max

is_subtype_of(ty, required) ==
    /\ ty.element = required.element
    /\ ty.min >= required.min
    /\ required.max # None => ty.max # None /\ ty.max <= required.max

\* size_in_bytes, max_size_in_bytes.  The code panics for a product of more than 64
\* bits, which only the greatest maximum of a 64-bit memory has; sizes here are those
\* for which it does not.
ToBytes(pages) == IF pages = None THEN None ELSE pages * PageSize

Pages(memory) == Len(memory.data) \div PageSize

\* dynamic_ty: the current size is the minimum.
memory_dynamic_ty(memory) == [memory.ty EXCEPT !.min = Pages(memory)]

table_dynamic_ty(table) == [table.ty EXCEPT !.min = Len(table.elements)]

-----------------------------------------------------------------------------
(* Creation and growth.  alloc says whether the allocator has the room.     *)

Repeat(value, len) == [n \in 1..len |-> value]

\* ByteBuffer::new, or new_static on a buffer of the given capacity.
BufferError(capacity, size, alloc) ==
    FirstError(<< <<capacity # None /\ size > capacity, "InvalidStaticBufferSize">>,
                  <<capacity = None /\ ~alloc, "OutOfSystemMemory">> >>)

\* A growth is denied, with the limiter told nothing, or approved and then it may
\* fail, of which notify_limiter tells the limiter.  Fuel is charged last before
\* the allocation, so an allocation that fails has been paid for.
Growth_quiet(limits, denied, failed, cost, before, after) ==
    [error |-> CASE denied # "Ok" -> denied
                 [] failed # "Ok" -> grow_failed(limits, failed)
                 [] OTHER -> "Ok",
     contents |-> IF denied = "Ok" /\ failed = "Ok" THEN after ELSE before,
     spent |-> IF denied = "Ok" /\ failed \notin {"OutOfFuel", "GrowOutOfBounds"} THEN cost ELSE 0,
     asked |-> denied = "Ok",
     told |-> denied = "Ok" /\ failed \notin {"Ok", "OutOfFuel"}]

Growth_charged(limits, denied, failed, cost, before, after) ==
    [error |-> CASE denied # "Ok" -> denied
                 [] failed # "Ok" -> grow_failed(limits, failed)
                 [] OTHER -> "Ok",
     contents |-> IF denied = "Ok" /\ failed = "Ok" THEN after ELSE before,
     spent |-> IF failed \notin {"OutOfFuel", "GrowOutOfBounds"} THEN cost ELSE 0,
     asked |-> denied = "Ok",
     told |-> denied = "Ok" /\ failed # "Ok"]

Growth(limits, denied, failed, cost, before, after) ==
    [error |-> CASE denied # "Ok" -> denied
                 [] failed # "Ok" -> grow_failed(limits, failed)
                 [] OTHER -> "Ok",
     contents |-> IF denied = "Ok" /\ failed = "Ok" THEN after ELSE before,
     spent |-> IF denied = "Ok" /\ failed \notin {"OutOfFuel", "GrowOutOfBounds"} THEN cost ELSE 0,
     asked |-> denied = "Ok",
     told |-> denied = "Ok" /\ failed # "Ok"]

\* Memory::new, and new_static with the capacity of the buffer.
Memory_new(limits, ty, capacity, alloc) ==
    Growth(limits,
           FirstError(<< <<ty.min > AbsoluteMax, "MinimumSizeOverflow">>,
                         <<Exceeds(ty.max, AbsoluteMax), "MaximumSizeOverflow">>,
                         <<memory_growing(limits, ToBytes(ty.min), ToBytes(ty.max)) # "true",
                           "ResourceLimiterDeniedAllocation">> >>),
           BufferError(capacity, ToBytes(ty.min), alloc),
           0, <<>>, Repeat(0, ToBytes(ty.min)))

MemoryGrowth_unbounded(limits, memory, desired, cost, fuel, alloc) ==
    LET verdict == memory_growing(limits, ToBytes(desired), ToBytes(memory.ty.max))
    IN  Growth(limits,
               FirstError(<< <<desired > AbsoluteMax, "OutOfBoundsGrowth">>,
                             <<verdict = "false", "OutOfBoundsGrowth">>,
                             <<verdict = "err", "ResourceLimiterDeniedAllocation">> >>),
               FirstError(<< <<OutOfFuel(fuel, cost), "OutOfFuel">>,
                             <<TRUE, BufferError(memory.capacity, ToBytes(desired), alloc)>> >>),
               cost, memory.data, memory.data \o Repeat(0, ToBytes(desired) - Len(memory.data)))

MemoryGrowth(limits, memory, desired, cost, fuel, alloc) ==
    LET verdict == memory_growing(limits, ToBytes(desired), ToBytes(memory.ty.max))
    IN  Growth(limits,
               FirstError(<< <<desired > AbsoluteMax, "OutOfBoundsGrowth">>,
                             <<Exceeds(desired, memory.ty.max), "OutOfBoundsGrowth">>,
                             <<verdict = "false", "OutOfBoundsGrowth">>,
                             <<verdict = "err", "ResourceLimiterDeniedAllocation">> >>),
               FirstError(<< <<OutOfFuel(fuel, cost), "OutOfFuel">>,
                             <<TRUE, BufferError(memory.capacity, ToBytes(desired), alloc)>> >>),
               cost, memory.data, memory.data \o Repeat(0, ToBytes(desired) - Len(memory.data)))

\* Growing by nothing succeeds before anything is looked at.
NoGrowth(contents) == [error |-> "Ok", contents |-> contents, spent |-> 0, asked |-> FALSE, told |-> FALSE]

MemoryCost_pages(additional) == fuel_for_copying_values(additional, 1)

MemoryCost(additional) == fuel_for_copying_values(additional, PageSize)

Memory_grow(limits, memory, additional, fuel, alloc) ==
    IF additional = 0 THEN NoGrowth(memory.data)
    ELSE MemoryGrowth(limits, memory, Pages(memory) + additional, MemoryCost(additional), fuel, alloc)

Table_new(limits, ty, init, alloc) ==
    Growth(limits,
           FirstError(<< <<ty.element # init.ty, "ElementTypeMismatch">>,
                         <<table_growing(limits, ty.min, ty.max) # "true", "ResourceLimiterDeniedAllocation">> >>),
           IF alloc THEN "Ok" ELSE "OutOfSystemMemory",
           0, <<>>, Repeat(init.raw, ty.min))

\* Table::grow_raw: the limiter is asked before the maximum is looked at.
TableGrowth(limits, table, desired, init, cost, fuel, alloc) ==
    LET verdict == table_growing(limits, desired, table.ty.max)
    IN  Growth(limits,
               FirstError(<< <<desired >= TableMax, "GrowOutOfBounds">>,
                             <<verdict = "false", "GrowOutOfBounds">>,
                             <<verdict = "err", "ResourceLimiterDeniedAllocation">> >>),
               FirstError(<< <<Exceeds(desired, table.ty.max), "GrowOutOfBounds">>,
                             <<OutOfFuel(fuel, cost), "OutOfFuel">>,
                             <<~alloc, "OutOfSystemMemory">> >>),
               cost, table.elements, table.elements \o Repeat(init, desired - Len(table.elements)))

Table_grow(limits, table, delta, init, fuel, alloc) ==
    IF delta = 0 THEN NoGrowth(table.elements)
    ELSE TableGrowth(limits, table, Len(table.elements) + delta, init,
                     fuel_for_copying_values(delta, RefSize), fuel, alloc)

-----------------------------------------------------------------------------
(* Bulk operations on the bytes of a memory or the elements of a table.     *)

\* slice.get(start..).and_then(|s| s.get(..len))
InBounds(slice, start, len) == start + len <= Len(slice)

Span(slice, start, len) == SubSeq(slice, start + 1, start + len)

copy_from_slice(slice, start, values) ==
    [n \in DOMAIN slice |->
        IF n \in (start + 1)..(start + Len(values)) THEN values[n - start] ELSE slice[n]]

\* Every bulk operation: bounds, then fuel, then all of the writing.
Bulk(outOfBounds, fuel, cost, before, after) ==
    LET error == FirstError(<< <<outOfBounds, "OutOfBounds">>, <<OutOfFuel(fuel, cost), "OutOfFuel">> >>)
    IN  [error |-> error,
         slice |-> IF error = "Ok" THEN after ELSE before,
         spent |-> IF error = "Ok" THEN cost ELSE 0]

\* memory.fill and Table::fill_raw
Fill(slice, dst, value, len, fuel, size) ==
    Bulk(~InBounds(slice, dst, len), fuel, fuel_for_copying_values(len, size),
         slice, copy_from_slice(slice, dst, Repeat(value, len)))

\* memory.init, Table::init, memory.copy and Table::copy between two, with the
\* items of a segment or of the other slice.
CopyFrom(slice, dst, items, src, len, fuel, size) ==
    Bulk(~InBounds(slice, dst, len) \/ ~InBounds(items, src, len), fuel, fuel_for_copying_values(len, size),
         slice, copy_from_slice(slice, dst, Span(items, src, len)))

\* memory.copy and Table::copy_within in one slice: the source is read as it was.
copy_within(slice, dst, src, len, fuel, size) ==
    LET max_offset == IF dst > src THEN dst ELSE src
    IN  Bulk(max_offset + len > Len(slice), fuel, fuel_for_copying_values(len, size),
             slice, copy_from_slice(slice, dst, Span(slice, src, len)))

=============================================================================
