--------------------------- MODULE PagePinOrder ---------------------------
(***************************************************************************)
(* guestPhyPagePinQueue read as a queue: the refinement of                 *)
(* LeastRecentlyPinned by PagePin.                                         *)
(***************************************************************************)
EXTENDS PagePin, Sequences

\* The slot of the i-th oldest entry: a full ring starts at its tail.
OldestSlot(i) ==
  IF QueueFull THEN (pinQueue.tail + i - 1) % MaxPhyPagesPinned ELSE i - 1

\* A pin that failed on a full queue has already given up the oldest entry,
\* though the ring still names it.
OldestGivenUp == vmState = "Panic" /\ QueueFull /\ ~pinned[Victim]

\* The pinned pages, oldest first.
PinOrder ==
  IF vmState = "Down" THEN <<>>
  ELSE IF OldestGivenUp
         THEN [i \in 1 .. pinQueue.nEntries - 1 |-> pinQueue.ppi[OldestSlot(i + 1)]]
         ELSE [i \in 1 .. pinQueue.nEntries |-> pinQueue.ppi[OldestSlot(i)]]

LRP == INSTANCE LeastRecentlyPinned
         WITH Pages <- Pages, Capacity <- MaxPhyPagesPinned,
              vm <- vmState, order <- PinOrder

\* The ring of hostHandlePagePinRequest, with its nEntries and tail indices,
\* implements the "least recently pinned" strategy of monitor.h:393-399.
LeastRecentlyPinnedSpec == LRP!Spec
============================================================================
