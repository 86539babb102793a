------------------------------ MODULE PagePin ------------------------------
(***************************************************************************)
(* The host side of guest-page pinning (host-space/monitor.c).             *)
(*                                                                         *)
(* Guest physical memory is ordinary memory of the user process, so the    *)
(* host OS may move a page at any time unless the kernel module holds a    *)
(* reference to it.  guestPageInfo[ppi] records whether the VM holds one   *)
(* (attr.pinned) and in which host frame the page then lies (hostPPI).     *)
(* At most MaxPhyPagesPinned pages are held at once: guestPhyPagePinQueue  *)
(* is a ring of the pinned pages, and a request that finds it full unpins  *)
(* the page at the tail first.                                             *)
(*                                                                         *)
(* hostRef is the host OS's own count of references on each frame          *)
(* (get_user_pages / put_page).  The module never reads it: it is what the *)
(* module's bookkeeping has to stay in step with.                          *)
(*                                                                         *)
(* Guest memory is taken to be registered at an address other than 0, as   *)
(* the user program does: at address 0 nothing is ever released (host      *)
(* monitor.c:1854; see HostBalance in VMLifecycle).                        *)
(***************************************************************************)
EXTENDS Integers, FiniteSets

CONSTANTS
  NPages,              \* guest_n_pages: the guest's physical pages are 0..NPages-1
  MaxPhyPagesPinned,   \* capacity of the pin queue (1024 in monitor.h)
  Frames,              \* host page frames that can hold a guest page
  NoFrame              \* contents of a zeroed guestPageInfo[].hostPPI

ASSUME PagePinAssumption ==
  /\ NPages \in Nat \ {0}
  /\ MaxPhyPagesPinned \in Nat \ {0}
  /\ NoFrame \notin Frames

VARIABLES
  vmState,     \* "Ready", "Panic" (VMStatePanic is set) or "Down" (no memory allocated)
  pinned,      \* guestPageInfo[ppi].attr.fields.pinned
  hostPPI,     \* guestPageInfo[ppi].hostPPI and the struct page the host adjunct keeps
  pinQueue,    \* guestPhyPagePinQueue
  hostRef      \* references the VM holds on each host frame

pinVars == <<vmState, pinned, hostPPI, pinQueue, hostRef>>

Pages == 0 .. NPages - 1
Slots == 0 .. MaxPhyPagesPinned - 1
ZeroSlots == [i \in Slots |-> 0]

PinTypeOK ==
  /\ vmState \in {"Ready", "Panic", "Down"}
  /\ pinned \in [Pages -> BOOLEAN]
  /\ hostPPI \in [Pages -> Frames \cup {NoFrame}]
  /\ pinQueue \in [nEntries : 0 .. MaxPhyPagesPinned, tail : Slots, ppi : [Slots -> Pages]]
  /\ hostRef \in [Frames -> Int]

----------------------------------------------------------------------------
(* hostHandlePagePinRequest, in the order of the code: make room, pin, book. *)

QueueFull == ~(pinQueue.nEntries < MaxPhyPagesPinned)

\* The page the full queue gives up: the entry at the tail.
Victim == pinQueue.ppi[pinQueue.tail]

\* The slot the new entry goes to.
QIndex == IF QueueFull THEN pinQueue.tail ELSE pinQueue.nEntries

\* attr.pinned once the victim, if any, is unpinned.
PinnedAfterEvict == IF QueueFull THEN [pinned EXCEPT ![Victim] = FALSE] ELSE pinned

\* The host's references after hostOSUnpinUserPage.  Fault: no put_page.
RefAfterEvict_NotReleased == hostRef
RefAfterEvict ==
  IF QueueFull THEN [hostRef EXCEPT ![hostPPI[Victim]] = @ - 1] ELSE hostRef

\* The queue with p entered at QIndex; nEntries stays at the limit once reached.
\* Faults: the count grows past the limit; the tail of a full ring stays put.
QueueAfterPin_CountGrows(p) ==
  [ nEntries |-> pinQueue.nEntries + 1,
    tail     |-> (pinQueue.nEntries + 1) % MaxPhyPagesPinned,
    ppi      |-> [pinQueue.ppi EXCEPT ![QIndex] = p] ]
QueueAfterPin_TailStuck(p) ==
  [ nEntries |-> IF QueueFull THEN pinQueue.nEntries ELSE pinQueue.nEntries + 1,
    tail     |-> IF QueueFull THEN pinQueue.tail
                   ELSE (pinQueue.nEntries + 1) % MaxPhyPagesPinned,
    ppi      |-> [pinQueue.ppi EXCEPT ![QIndex] = p] ]
QueueAfterPin(p) ==
  [ nEntries |-> IF QueueFull THEN pinQueue.nEntries ELSE pinQueue.nEntries + 1,
    tail     |-> IF QueueFull
                   THEN (pinQueue.tail + 1) % MaxPhyPagesPinned
                   ELSE (pinQueue.nEntries + 1) % MaxPhyPagesPinned,
    ppi      |-> [pinQueue.ppi EXCEPT ![QIndex] = p] ]

\* The request succeeds: the host faults the page in, in some frame f that is
\* not another page's, and takes a reference on it.
PinSucceeds(p, f) ==
  /\ vmState = "Ready"
  /\ RefAfterEvict[f] = 0
  /\ pinned' = [PinnedAfterEvict EXCEPT ![p] = TRUE]
  /\ hostPPI' = [hostPPI EXCEPT ![p] = f]
  /\ hostRef' = [RefAfterEvict EXCEPT ![f] = @ + 1]
  /\ pinQueue' = QueueAfterPin(p)
  /\ UNCHANGED vmState

\* hostOSGetAndPinUserPage fails, after the victim was given up; the execute
\* loop then leaves through handlePanic.
PinFails ==
  /\ vmState = "Ready"
  /\ pinned' = PinnedAfterEvict
  /\ hostRef' = RefAfterEvict
  /\ vmState' = "Panic"
  /\ UNCHANGED <<hostPPI, pinQueue>>

----------------------------------------------------------------------------
(* Teardown and set-up of the VM's memory. *)

\* Teardown or close: hostReleasePinnedUserPages puts every page still marked
\* pinned.
ReleasePinnedUserPages ==
  /\ vmState \in {"Ready", "Panic"}
  /\ hostRef' = [f \in Frames |->
                   hostRef[f] - Cardinality({p \in Pages : pinned[p] /\ hostPPI[p] = f})]
  /\ pinned' = [p \in Pages |-> FALSE]
  /\ vmState' = "Down"
  /\ UNCHANGED <<hostPPI, pinQueue>>

\* A new registration: guestPageInfo is zeroed memory and the queue is emptied.
\* Its slots keep what they held, or are zero if the device was reopened.
\* Fault: the old entry count is kept.
InitPinState_QueueKept(slots) ==
  /\ vmState = "Down"
  /\ vmState' = "Ready"
  /\ pinned' = [p \in Pages |-> FALSE]
  /\ hostPPI' = [p \in Pages |-> NoFrame]
  /\ pinQueue' = [pinQueue EXCEPT !.ppi = slots]
  /\ UNCHANGED hostRef
InitPinState(slots) ==
  /\ vmState = "Down"
  /\ vmState' = "Ready"
  /\ pinned' = [p \in Pages |-> FALSE]
  /\ hostPPI' = [p \in Pages |-> NoFrame]
  /\ pinQueue' = [nEntries |-> 0, tail |-> 0, ppi |-> slots]
  /\ UNCHANGED hostRef

----------------------------------------------------------------------------
(* The component on its own: the monitor asks for any page that is not     *)
(* pinned (getHostOSPinnedPage returns at once for one that is).           *)

PinInit ==
  /\ vmState = "Down"
  /\ pinned = [p \in Pages |-> FALSE]
  /\ hostPPI = [p \in Pages |-> NoFrame]
  /\ pinQueue = [nEntries |-> 0, tail |-> 0, ppi |-> ZeroSlots]
  /\ hostRef = [f \in Frames |-> 0]

PinRequest(p) ==
  /\ ~pinned[p]
  /\ \/ \E f \in Frames : PinSucceeds(p, f)
     \/ PinFails

PinNext ==
  \/ \E p \in Pages : PinRequest(p)
  \/ ReleasePinnedUserPages
  \/ \E slots \in {pinQueue.ppi, ZeroSlots} : InitPinState(slots)

PinSpec == PinInit /\ [][PinNext]_pinVars

----------------------------------------------------------------------------
(* Properties. *)

\* hostHandlePagePinRequest keeps three records of the same fact: the pinned
\* flag, hostPPI and the references taken from the host.  The host holds
\* exactly one reference, on the recorded frame, for each page flagged pinned
\* and none for any other, through evictions, failed pins, teardown and a new
\* registration; a second put_page would free a frame somebody else owns.
PinBalance ==
  \A f \in Frames :
    hostRef[f] = Cardinality({p \in Pages : pinned[p] /\ hostPPI[p] = f})

\* Two pinned pages never share a frame, and a pinned page has one.
PinnedFramesDistinct ==
  /\ \A p \in Pages : pinned[p] => hostPPI[p] \in Frames
  /\ \A p, q \in Pages : pinned[p] /\ pinned[q] /\ hostPPI[p] = hostPPI[q] => p = q

\* While the VM runs the ring holds exactly the pinned pages, each once, so
\* the page hostHandlePagePinRequest evicts is always one that is pinned and
\* the limit of monitor.h:400 is respected.
QueueHoldsPinned ==
  vmState = "Ready" =>
    /\ \A i, j \in 0 .. pinQueue.nEntries - 1 :
         pinQueue.ppi[i] = pinQueue.ppi[j] => i = j
    /\ \A p \in Pages :
         pinned[p] <=> \E i \in 0 .. pinQueue.nEntries - 1 : pinQueue.ppi[i] = p
    /\ ~QueueFull => pinQueue.tail = pinQueue.nEntries
============================================================================
