--------------------------- MODULE MCVMLifecycle ---------------------------
(* Registrations for TLC: guest memory of two pages, in pages 0..4. *)
EXTENDS VMLifecycle

CONSTANT MaxStray   \* bound: pins of a page that are out with no pointer to it

\* Acceptable; misaligned; log and CPU window the same page; in another order; at
\* address 0; no memory at all.
MCRequests ==
  { [aligned |-> TRUE,  phyMem |-> 1, pages |-> 2, log |-> 3, cpu |-> 4],
    [aligned |-> FALSE, phyMem |-> 1, pages |-> 2, log |-> 3, cpu |-> 4],
    [aligned |-> TRUE,  phyMem |-> 1, pages |-> 2, log |-> 3, cpu |-> 3],
    [aligned |-> TRUE,  phyMem |-> 3, pages |-> 2, log |-> 2, cpu |-> 1],
    [aligned |-> TRUE,  phyMem |-> 0, pages |-> 2, log |-> 3, cpu |-> 4],
    [aligned |-> TRUE,  phyMem |-> 1, pages |-> 0, log |-> 3, cpu |-> 4] }

\* State constraint: a process can repeat a registration at address 0 for ever.
FewStray == \A i \in PinnedItems : vm.held[i] <= MaxStray
============================================================================
