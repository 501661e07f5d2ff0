-------------------------- MODULE MCInstantiation --------------------------
EXTENDS Instantiation

Ty(element, min, max) == [element |-> element, min |-> min, max |-> max]

\* Imports a table and a memory, has another memory of its own, puts its function into the table, then a byte
\* into the memory at a place that may not be there; keeps a passive segment of each.
Importer == [imports |-> << [kind |-> "table", ty |-> Ty("func", 0, 2)], [kind |-> "memory", ty |-> Ty("bytes", 0, 2)] >>,
             tables |-> <<>>, memories |-> << Ty("bytes", 1, None) >>, funcs |-> <<"f">>,
             elems |-> << [kind |-> "active", table |-> 1, offset |-> 0, items |-> <<1>>],
                          [kind |-> "passive", table |-> 1, offset |-> 0, items |-> <<1, 0>>] >>,
             datas |-> << [active |-> TRUE, memory |-> 1, offset |-> 1, bytes |-> <<1>>],
                          [active |-> TRUE, memory |-> 1, offset |-> 2, bytes |-> <<1>>] >>,
             start |-> FALSE]

\* Has a table and a memory of its own, a passive data segment, and a start function.
Owner == [imports |-> <<>>,
          tables |-> << Ty("func", 1, None) >>, memories |-> << Ty("bytes", 1, None) >>, funcs |-> <<"f">>,
          elems |-> << [kind |-> "declared", table |-> 1, offset |-> 0, items |-> <<1>>] >>,
          datas |-> << [active |-> FALSE, memory |-> 1, offset |-> 0, bytes |-> <<1>>] >>,
          start |-> TRUE]

\* Puts an imported function into an imported table, twice, the second time in part.
Relay == [imports |-> << [kind |-> "func", ty |-> "f"], [kind |-> "table", ty |-> Ty("func", 1, None)] >>,
          tables |-> <<>>, memories |-> <<>>, funcs |-> <<"g">>,
          elems |-> << [kind |-> "active", table |-> 1, offset |-> 0, items |-> <<1>>],
                       [kind |-> "active", table |-> 1, offset |-> 0, items |-> <<2, 1>>] >>,
          datas |-> <<>>,
          start |-> FALSE]

MCModules == [Importer |-> Importer, Owner |-> Owner, Relay |-> Relay]

NoLimits == [on |-> FALSE, trap |-> FALSE, memory_size |-> None, table_elements |-> None,
             instances |-> 0, tables |-> 0, memories |-> 0]
SomeLimits(trap) == [on |-> TRUE, trap |-> trap, memory_size |-> 3, table_elements |-> None,
                     instances |-> 1, tables |-> 1, memories |-> 1]
Fuel(remaining) == [enabled |-> TRUE, remaining |-> remaining]
MCStoreChoices == {[limits |-> NoLimits, fuel |-> Fuel(1)],
                   [limits |-> SomeLimits(FALSE), fuel |-> Fuel(1)],
                   [limits |-> [SomeLimits(TRUE) EXCEPT !.memory_size = 4, !.tables = 2, !.memories = 3], fuel |-> NoFuel],
                   [limits |-> [SomeLimits(FALSE) EXCEPT !.tables = 0, !.instances = 2], fuel |-> NoFuel]}
MCMemoryTypes == {Ty("bytes", 1, 2)}
MCTableTypes == {Ty("func", 1, 2)}
MCCapacities == {None, 3}
=============================================================================
