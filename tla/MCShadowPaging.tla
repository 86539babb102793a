-------------------------- MODULE MCShadowPaging --------------------------
(***************************************************************************)
(* A guest with a page directory (page 0), two page tables (pages 1, 2)    *)
(* and a data page (page 3), of which three can be pinned at once: enough  *)
(* for a walk, too few to keep everything.  The second page table is also  *)
(* mapped as data, as kernels do.  Slot 2 of the directory is the monitor. *)
(***************************************************************************)
EXTENDS ShadowPaging, PagePinOrder, TLC

RW(p) == [p |-> TRUE, base |-> p, us |-> TRUE, rw |-> TRUE]
RO(p) == [p |-> TRUE, base |-> p, us |-> TRUE, rw |-> FALSE]

MCInitMem ==
  [p \in 0 .. 3 |->
     [i \in 0 .. 2 |->
        CASE p = 0 /\ i \in {0, 1} -> RW(i + 1)
          [] p = 1 /\ i = 0 -> RW(3)
          [] p = 1 /\ i = 1 -> RO(2)
          [] p = 2 /\ i = 0 -> RW(3)
          [] OTHER -> NoEntry]]

\* The guest remaps the page at <<0, 0>> between pages 2 and 3.
MCGuestStores == {<<1, 0, RW(2)>>, <<1, 0, RO(3)>>}
MCLinPages == {<<0, 0>>, <<1, 0>>, <<2, 0>>}
MCCR0Values == {[pg |-> TRUE, wp |-> TRUE]}

\* For liveness: two pages, no stores, paging on or off.
LiveLinPages == {<<0, 1>>, <<1, 0>>}
LiveCR0Values == {[pg |-> TRUE, wp |-> TRUE], [pg |-> FALSE, wp |-> FALSE]}

FrameSymmetry == Permutations(Frames)
============================================================================
