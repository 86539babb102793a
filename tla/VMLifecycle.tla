---------------------------- MODULE VMLifecycle ----------------------------
(***************************************************************************)
(* The life of one VM as the kernel module sees it: the ioctls of          *)
(* hostIoctlGeneric (host-space/monitor.c), opening and closing the device *)
(* (linux/linux2.4.c), and the execute loop of hostIoctlExecute with the   *)
(* requests the monitor comes back with.                                   *)
(*                                                                         *)
(* The process may issue the ioctls in any order; it has one thread, so no *)
(* ioctl runs while another is inside the monitor.  Addresses are counted  *)
(* in pages.  What hostAllocVmPages acquires is one item per allocation or *)
(* pinned page, in the order of the code; ptrs are the pointers the VM     *)
(* keeps to them and held is the host's own account of what it has given   *)
(* out and not got back.  An ioctl that is refused changes nothing and is  *)
(* a stuttering step.                                                      *)
(***************************************************************************)
EXTENDS Integers, Sequences

CONSTANTS
  Requests     \* registrations the process may ask for: [aligned, phyMem, pages, log, cpu]

ASSUME RequestsAssumption ==
  Requests \subseteq
    [aligned : BOOLEAN, phyMem : Nat, pages : Nat, log : Nat, cpu : Nat]

VARIABLES
  vm,          \* the vm_t of the open device, see VMType
  inMonitor,   \* control is between __host2mon and the return of a request
  setups       \* times the guest's CPU state was loaded since the last registration

vars == <<vm, inMonitor, setups>>

RegisteredAll == {"RegisteredPhyMem", "RegisteredPrintBuffer", "RegisteredGuestCPU"}
Ready == {"FDOpened", "MemAllocated", "GuestCPUID", "InitMonitor", "MapMonitor"}
           \cup RegisteredAll

MonReqs == {"None", "FlushPrintBuf", "Redirect", "PinUserPage", "Panic", "HalCall", "Bogus"}

\* hostAllocVmPages acquires these in this order: two pages of the process,
\* pinned, then memory of the kernel.
AllocOrder ==
  << "guest_cpu", "userLogBuffer", "monLogBuffer", "page_dir", "page_tbl",
     "page_tbl_laddr_map", "nexus_page_tbl", "transition_PT", "nexus", "idt", "gdt",
     "ldt", "tss", "idt_stubs", "guestPageInfo", "guestPageInfoList",
     "guestPageInfoHostAdjunct", "guestPageInfoHostAdjunctList" >>
NItems == 18
FirstItems(n) == {AllocOrder[i] : i \in 1 .. n}
Items == FirstItems(NItems)
PinnedItems == {"guest_cpu", "userLogBuffer"}

VMType ==
  [ fd         : {"closed", "open", "oops"},  \* "oops": the kernel faulted in a call
    vmState    : SUBSET (Ready \cup {"Panic"}),
    monReq     : MonReqs,
    megs       : BOOLEAN,                     \* pages.guest_n_megs # 0
    phyMemAddr : BOOLEAN,                     \* guestPhyMemAddr # 0
    ptrs       : SUBSET Items,                \* pointers that are not NULL
    held       : [Items -> Nat],              \* the host's account, see HostBalance
    zeroBased  : BOOLEAN ]                    \* history: memory was once registered at 0

LifecycleTypeOK ==
  /\ vm \in VMType
  /\ inMonitor \in BOOLEAN
  /\ setups \in 0 .. 2

----------------------------------------------------------------------------
(* Acquiring and giving back the VM's memory. *)

\* hostAllocVmPages as far as the n-th item.  It starts by clearing the
\* pointers and sets the Registered bits as it goes.  The caller's size and
\* address are taken as they are, zero too.
AllocVmPages(v, r, n) ==
  [ v EXCEPT
      !.megs = r.pages # 0, !.phyMemAddr = r.phyMem # 0,
      !.ptrs = FirstItems(n),
      !.held = [i \in Items |-> IF i \in FirstItems(n) THEN @[i] + 1 ELSE @[i]],
      !.zeroBased = @ \/ r.phyMem = 0,
      !.vmState = @ \cup {"RegisteredPhyMem"}
                    \cup (IF n >= 1 THEN {"RegisteredGuestCPU"} ELSE {})
                    \cup (IF n >= 2 THEN {"RegisteredPrintBuffer"} ELSE {}) ]

\* hostOSAllocZeroedMem of no bytes yields NULL (vmalloc(0), external): without
\* guest pages the allocation stops before guestPageInfo.
Obtainable(r) == IF r.pages = 0 THEN 14 ELSE NItems

\* hostReleasePinnedUserPages walks guestPageInfo, as far as there are guest pages,
\* and puts the two pinned pages without looking at the pointers.
ReleaseNeeds(v) == PinnedItems \cup (IF v.megs THEN {"guestPageInfo"} ELSE {})

\* hostUnallocVmPages calls it when guestPhyMemAddr is not 0; the kernel faults
\* when one of the pointers above is NULL then.
ReleaseFaults(v) == v.phyMemAddr /\ ~(ReleaseNeeds(v) \subseteq v.ptrs)

\* What hostUnallocVmPages gives back: nobody puts the pinned pages of guest
\* memory registered at address 0.
PutBack(v) == IF v.phyMemAddr THEN v.ptrs ELSE v.ptrs \ PinnedItems

\* hostUnallocVmPages.  Fault: the pointers are not cleared.
UnallocVmPages_PtrsKept(v) ==
  IF ReleaseFaults(v)
  THEN [v EXCEPT !.fd = "oops"]
  ELSE [ v EXCEPT
           !.megs = FALSE, !.phyMemAddr = FALSE,
           !.held = [i \in Items |-> IF i \in PutBack(v) THEN @[i] - 1 ELSE @[i]],
           !.vmState = @ \ {"RegisteredPhyMem"} ]
UnallocVmPages(v) ==
  IF ReleaseFaults(v)
  THEN [v EXCEPT !.fd = "oops"]
  ELSE [ v EXCEPT
           !.megs = FALSE, !.phyMemAddr = FALSE,
           !.ptrs = {},
           !.held = [i \in Items |-> IF i \in PutBack(v) THEN @[i] - 1 ELSE @[i]],
           !.vmState = @ \ {"RegisteredPhyMem"} ]

----------------------------------------------------------------------------
(* PLEX86_REGISTER_MEMORY. *)

\* userRegion[0..2]: guest memory, the log buffer page, the guest CPU page.
UserRegion(r) ==
  << [min |-> r.phyMem, max |-> r.phyMem + r.pages - 1],
     [min |-> r.log, max |-> r.log],
     [min |-> r.cpu, max |-> r.cpu] >>

\* An end of region b lies in region a.
EndInside(a, b) ==
  \/ b.min >= a.min /\ b.min <= a.max
  \/ b.max >= a.min /\ b.max <= a.max

\* "Check that none of the user areas overlap": the code's loops run over
\* userRegion[1] and userRegion[2] only, guest memory is compared with nothing.
AreasRefused(r) ==
  \E i, j \in 2 .. 3 : i # j /\ EndInside(UserRegion(r)[i], UserRegion(r)[j])

\* The early returns of hostIoctlRegisterMem.
RegisterAllowed(r) ==
  /\ vm.fd = "open" /\ ~inMonitor
  /\ vm.vmState \ {"GuestCPUID"} = {"FDOpened"}
  /\ ~vm.megs
  /\ r.aligned
  /\ ~AreasRefused(r)

\* Everything is acquired; hostInitMonitor and hostMapMonitor leave the VM
\* ready, the monitor's stack wound up for its first run and no request
\* outstanding.  Fault: mon_request keeps its value.
RegisterMem_RequestKept(r) ==
  /\ RegisterAllowed(r) /\ Obtainable(r) = NItems
  /\ vm' = [AllocVmPages(vm, r, NItems) EXCEPT
              !.vmState = @ \cup {"MemAllocated", "InitMonitor", "MapMonitor"}]
  /\ setups' = 0
  /\ UNCHANGED inMonitor
RegisterMem(r) ==
  /\ RegisterAllowed(r) /\ Obtainable(r) = NItems
  /\ vm' = [AllocVmPages(vm, r, NItems) EXCEPT
              !.vmState = @ \cup {"MemAllocated", "InitMonitor", "MapMonitor"},
              !.monReq = "None"]
  /\ setups' = 0
  /\ UNCHANGED inMonitor

\* An allocation fails after n items; what was acquired is given back.
AllocFails(r, n) ==
  /\ RegisterAllowed(r) /\ n <= Obtainable(r)
  /\ vm' = UnallocVmPages(AllocVmPages(vm, r, n))
  /\ UNCHANGED <<inMonitor, setups>>

\* hostInitMonitor fails once everything is acquired.
InitMonitorFails(r) ==
  /\ RegisterAllowed(r) /\ Obtainable(r) = NItems
  /\ vm' = UnallocVmPages([AllocVmPages(vm, r, NItems) EXCEPT
                             !.vmState = @ \cup {"MemAllocated"}])
  /\ UNCHANGED <<inMonitor, setups>>

----------------------------------------------------------------------------
(* The other ioctls, open and close. *)

Open ==
  /\ vm.fd = "closed"
  /\ vm' = [vm EXCEPT !.fd = "open", !.vmState = {"FDOpened"}, !.monReq = "None"]
  /\ UNCHANGED <<inMonitor, setups>>

SetCPUID ==
  /\ vm.fd = "open" /\ ~inMonitor
  /\ "GuestCPUID" \notin vm.vmState
  /\ vm' = [vm EXCEPT !.vmState = @ \cup {"GuestCPUID"}]
  /\ UNCHANGED <<inMonitor, setups>>

UnregisterMem ==
  /\ vm.fd = "open" /\ ~inMonitor
  /\ vm' = [vm EXCEPT !.vmState = @ \ RegisteredAll]
  /\ UNCHANGED <<inMonitor, setups>>

\* Fault: the state bits are reset but hostUnallocVmPages is not called.
Teardown_NotFreed ==
  /\ vm.fd = "open" /\ ~inMonitor
  /\ vm.vmState \cap RegisteredAll = {}
  /\ vm' = [vm EXCEPT !.vmState = {"FDOpened"}]
  /\ UNCHANGED <<inMonitor, setups>>
Teardown ==
  /\ vm.fd = "open" /\ ~inMonitor
  /\ vm.vmState \cap RegisteredAll = {}
  /\ vm' = [UnallocVmPages(vm) EXCEPT !.vmState = {"FDOpened"}]
  /\ UNCHANGED <<inMonitor, setups>>

\* plex86_release: the last close of the device, at any time, also by exit.
\* Fault: it trusts the process to have torn the VM down.
Release_NotFreed ==
  /\ vm.fd = "open" /\ ~inMonitor
  /\ vm' = [vm EXCEPT !.fd = "closed", !.vmState = {}, !.monReq = "None"]
  /\ UNCHANGED <<inMonitor, setups>>
Release ==
  /\ vm.fd = "open" /\ ~inMonitor
  /\ vm' = [UnallocVmPages(vm) EXCEPT !.fd = IF @ = "oops" THEN @ ELSE "closed",
                                      !.vmState = {}, !.monReq = "None"]
  /\ UNCHANGED <<inMonitor, setups>>

----------------------------------------------------------------------------
(* PLEX86_EXECUTE. *)

\* Requests after which the monitor is still in the middle of its work and is
\* simply resumed.
Resumable == {"HalCall", "FlushPrintBuf", "Bogus", "Redirect"}

\* handlePanic
Panicked(v) == [v EXCEPT !.vmState = @ \cup {"Panic"}, !.monReq = "Panic"]

ExecuteRefused ==
  /\ vm.fd = "open" /\ ~inMonitor
  /\ vm.vmState # Ready \/ vm.monReq \notin Resumable \cup {"None"}
  /\ vm' = Panicked(vm)
  /\ UNCHANGED <<inMonitor, setups>>

\* The first entry: the guest's registers, GDT slots and EFLAGS are loaded from
\* the CPU window and the shadow page tables are emptied.
ExecuteFirst ==
  /\ vm.fd = "open" /\ ~inMonitor
  /\ vm.vmState = Ready /\ vm.monReq = "None"
  /\ inMonitor' = TRUE
  /\ setups' = IF setups < 2 THEN setups + 1 ELSE setups
  /\ UNCHANGED vm

\* Back into a monitor that waits for the answer to its request.
\* Fault: the test of vmState comes after the resumption.
ExecuteResume_StateUnchecked ==
  /\ vm.fd = "open" /\ ~inMonitor
  /\ vm.monReq \in Resumable
  /\ vm' = [vm EXCEPT !.monReq = "None"]
  /\ inMonitor' = TRUE
  /\ UNCHANGED setups
ExecuteResume ==
  /\ vm.fd = "open" /\ ~inMonitor
  /\ vm.vmState = Ready /\ vm.monReq \in Resumable
  /\ vm' = [vm EXCEPT !.monReq = "None"]
  /\ inMonitor' = TRUE
  /\ UNCHANGED setups

\* A request that only the process can answer: the ioctl returns with it.  A
\* redirected interrupt returns this way when a signal is pending.
ReturnToUser(req) ==
  /\ inMonitor
  /\ req \in Resumable
  /\ vm' = [vm EXCEPT !.monReq = req]
  /\ inMonitor' = FALSE
  /\ UNCHANGED setups

\* A request the loop answers itself.
InterruptRedirected ==
  /\ inMonitor
  /\ vm' = [vm EXCEPT !.monReq = "None"]
  /\ UNCHANGED <<inMonitor, setups>>

PagePinned ==
  /\ inMonitor
  /\ vm' = [vm EXCEPT !.monReq = "PinUserPage"]
  /\ UNCHANGED <<inMonitor, setups>>

\* The monitor panicked, a page could not be pinned, or the request is none the
\* loop knows.
LeaveByPanic ==
  /\ inMonitor
  /\ vm' = Panicked(vm)
  /\ inMonitor' = FALSE
  /\ UNCHANGED setups

----------------------------------------------------------------------------
Init ==
  /\ vm = [ fd |-> "closed", vmState |-> {}, monReq |-> "None", megs |-> FALSE,
            phyMemAddr |-> FALSE, ptrs |-> {}, held |-> [i \in Items |-> 0],
            zeroBased |-> FALSE ]
  /\ inMonitor = FALSE
  /\ setups = 0

Next ==
  \/ Open \/ SetCPUID \/ UnregisterMem \/ Teardown \/ Release
  \/ \E r \in Requests :
       \/ RegisterMem(r)
       \/ InitMonitorFails(r)
       \/ \E n \in 0 .. NItems : AllocFails(r, n)
  \/ ExecuteRefused \/ ExecuteFirst \/ ExecuteResume
  \/ \E req \in Resumable : ReturnToUser(req)
  \/ InterruptRedirected \/ PagePinned \/ LeaveByPanic

Spec == Init /\ [][Next]_vars

----------------------------------------------------------------------------
(* Properties. *)

Named(v, i) == IF i \in v.ptrs THEN 1 ELSE 0
Balanced(v) ==
  \A i \in Items :
    /\ v.held[i] >= Named(v, i)
    /\ v.held[i] > Named(v, i) => i \in PinnedItems /\ v.zeroBased

\* hostAllocVmPages and hostUnallocVmPages: the host has given out exactly what
\* the VM holds a pointer to, once each, through failed registrations, repeated
\* teardowns, panics and closing at any point; a closed device holds nothing.
\* Only the two pinned pages of a VM that was once registered at address 0 may
\* be out with no pointer to them: hostUnallocVmPages takes that address for
\* "nothing registered" and never puts them.  Even then nothing is given back
\* twice.  (A kernel fault ends the VM's life and is excluded here.)
HostBalance ==
  vm.fd # "oops" => Balanced(vm) /\ (vm.fd = "closed" => vm.ptrs = {})

\* hostIoctlExecute trusts vmState alone.  The monitor is entered, for the first
\* time or to resume it, only while every structure it is mapped over exists,
\* the user pages are pinned and the VM has not panicked since it was registered.
MonitorEnteredReady ==
  inMonitor => vm.fd = "open" /\ vm.vmState = Ready /\ vm.ptrs = Items

\* hostIoctlExecute decides from mon_request whether to load the guest's CPU
\* state or to resume.  In the monitor it was loaded exactly once since the
\* registration: a monitor of an earlier registration is never resumed, and
\* fresh registers are never put under a monitor that waits for an answer.
GuestLoadedOnce == inMonitor => setups = 1

\* hostAllocVmPages starts by clearing all pointers, so the test at the head of
\* hostIoctlRegisterMem must let it run only for a VM that holds nothing; and
\* a VM whose state is Ready is backed by memory.
StateTellsMemory ==
  vm.fd = "open" =>
    /\ vm.vmState \ {"GuestCPUID"} = {"FDOpened"} => vm.ptrs = {} /\ ~vm.phyMemAddr
    /\ Ready \subseteq vm.vmState => vm.ptrs = Items

\* hostAllocVmPages ends in "error: hostUnallocVmPages( vm ); return( where );"
\* (monitor.c:1835): when an allocation fails, the caller gets the place of the
\* failure and answers -ENOMEM; the kernel does not fault.
AllocFailureReturns == vm.fd # "oops"
============================================================================
