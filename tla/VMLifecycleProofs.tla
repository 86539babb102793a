------------------------- MODULE VMLifecycleProofs -------------------------
(***************************************************************************)
(* Proofs about the VM's life, for any registrations the process asks for. *)
(***************************************************************************)
EXTENDS VMLifecycle, TLAPS

\* What the state bits, the pointers and mon_request say about each other.
\* MapMonitor is the bit that follows the memory exactly: UNREGISTER_MEMORY
\* clears the Registered bits while the memory stays, and a failed
\* registration leaves some of the others behind.  guestPhyMemAddr follows it
\* only in a VM that was never registered at address 0.
MemoryFollowsBit ==
  /\ vm.fd = "open" => vm.ptrs = IF "MapMonitor" \in vm.vmState THEN Items ELSE {}
  /\ vm.fd = "closed" => vm.ptrs = {}
  /\ vm.fd # "oops" => /\ vm.phyMemAddr => vm.ptrs = Items
                       /\ vm.phyMemAddr \/ vm.zeroBased \/ vm.ptrs = {}

\* Outside the monitor of a mapped VM, mon_request tells whether the guest's
\* CPU state was loaded.
RequestTellsSetup ==
  vm.fd = "open" /\ "MapMonitor" \in vm.vmState /\ ~inMonitor =>
    /\ vm.monReq = "None" => setups = 0
    /\ vm.monReq \in Resumable => setups = 1

LifecycleInv ==
  /\ LifecycleTypeOK
  /\ HostBalance
  /\ MonitorEnteredReady
  /\ GuestLoadedOnce
  /\ MemoryFollowsBit
  /\ RequestTellsSetup

----------------------------------------------------------------------------
LEMMA ItemFacts ==
  /\ PinnedItems \cup {"guestPageInfo"} \subseteq Items
  /\ \A n \in 0 .. NItems : FirstItems(n) \subseteq Items
  /\ FirstItems(NItems) = Items
  <1>1. PinnedItems \cup {"guestPageInfo"} \subseteq Items
    BY DEF PinnedItems, Items, FirstItems, NItems, AllocOrder
  <1>2. \A n \in 0 .. NItems : FirstItems(n) \subseteq Items
    BY DEF Items, FirstItems, NItems
  <1>3. QED BY <1>1, <1>2 DEF Items

\* The fields of a VM.
LEMMA VMFields ==
  ASSUME NEW v \in VMType
  PROVE  /\ v.fd \in {"closed", "open", "oops"}
         /\ v.vmState \subseteq Ready \cup {"Panic"}
         /\ v.monReq \in MonReqs
         /\ v.megs \in BOOLEAN /\ v.phyMemAddr \in BOOLEAN /\ v.zeroBased \in BOOLEAN
         /\ v.ptrs \subseteq Items
         /\ v.held \in [Items -> Nat]
  BY DEF VMType

\* hostAllocVmPages on a VM without pointers: the first n items are pointed to,
\* and held once more than before.
LEMMA AllocResult ==
  ASSUME NEW v \in VMType, NEW r \in Requests, NEW n \in 0 .. NItems,
         Balanced(v), v.ptrs = {}
  PROVE  LET a == AllocVmPages(v, r, n) IN
         /\ a \in VMType
         /\ a.fd = v.fd /\ a.monReq = v.monReq
         /\ a.phyMemAddr \/ a.zeroBased
         /\ a.ptrs = FirstItems(n)
         /\ Balanced(a)
         /\ v.vmState \subseteq a.vmState
         /\ a.vmState \subseteq v.vmState \cup RegisteredAll
         /\ n = NItems => RegisteredAll \subseteq a.vmState
  <1> DEFINE a == AllocVmPages(v, r, n)
             m == r.pages # 0
             p == r.phyMem # 0
             z == v.zeroBased \/ r.phyMem = 0
             h == [i \in Items |-> IF i \in FirstItems(n) THEN v.held[i] + 1 ELSE v.held[i]]
             b == v.vmState \cup {"RegisteredPhyMem"}
                    \cup (IF n >= 1 THEN {"RegisteredGuestCPU"} ELSE {})
                    \cup (IF n >= 2 THEN {"RegisteredPrintBuffer"} ELSE {})
  <1>1. a = [ fd |-> v.fd, vmState |-> b, monReq |-> v.monReq, megs |-> m,
              phyMemAddr |-> p, ptrs |-> FirstItems(n), held |-> h, zeroBased |-> z ]
    <2>1. a = [v EXCEPT !.megs = m, !.phyMemAddr = p, !.ptrs = FirstItems(n),
                        !.held = h, !.zeroBased = z, !.vmState = b]
      BY DEF AllocVmPages
    <2> HIDE DEF a, m, p, z, h, b
    <2>2. QED BY <2>1 DEF VMType
  <1>2. h \in [Items -> Nat]
    BY VMFields
  <1>3. \A i \in Items : h[i] = v.held[i] + (IF i \in FirstItems(n) THEN 1 ELSE 0)
    BY VMFields
  <1>4. /\ b \subseteq v.vmState \cup RegisteredAll /\ v.vmState \subseteq b
        /\ b \subseteq Ready \cup {"Panic"}
        /\ n = NItems => RegisteredAll \subseteq b
    BY VMFields DEF RegisteredAll, Ready, NItems
  <1>5. FirstItems(n) \subseteq Items
    BY ItemFacts
  <1>6. m \in BOOLEAN /\ p \in BOOLEAN /\ z \in BOOLEAN /\ (p \/ z) /\ (v.zeroBased => z)
    BY VMFields
  <1> HIDE DEF m, p, z, h, b
  <1>7. a \in VMType
    BY <1>1, <1>2, <1>4, <1>5, <1>6, VMFields DEF VMType
  <1>8. a.ptrs = FirstItems(n) /\ a.held = h /\ (v.zeroBased => a.zeroBased)
    BY <1>1, <1>6
  <1> HIDE DEF a
  <1>9. Balanced(a)
    <2> SUFFICES ASSUME NEW i \in Items
                 PROVE  /\ a.held[i] >= Named(a, i)
                        /\ a.held[i] > Named(a, i) => i \in PinnedItems /\ a.zeroBased
      BY DEF Balanced
    <2>1. v.held[i] \in Nat /\ (v.held[i] > 0 => i \in PinnedItems /\ v.zeroBased)
      BY VMFields DEF Balanced, Named
    <2>2. a.held[i] = v.held[i] + Named(a, i) /\ Named(a, i) \in Nat
      BY <1>3, <1>8 DEF Named
    <2>3. a.held[i] >= Named(a, i) /\ (a.held[i] > Named(a, i) => v.held[i] > 0)
      BY <2>1, <2>2
    <2>4. QED BY <1>8, <2>1, <2>3
  <1>10. a.phyMemAddr \/ a.zeroBased
    BY <1>1, <1>6
  <1>11. QED BY <1>1, <1>4, <1>7, <1>8, <1>9, <1>10 DEF a

\* hostUnallocVmPages either faults, or leaves a VM without pointers.
LEMMA UnallocResult ==
  ASSUME NEW v \in VMType, Balanced(v), v.phyMemAddr \/ v.zeroBased \/ v.ptrs = {}
  PROVE  LET u == UnallocVmPages(v) IN
         /\ u \in VMType
         /\ u.monReq = v.monReq
         /\ u.vmState \subseteq v.vmState
         /\ \/ u.fd = "oops" /\ ReleaseFaults(v)
            \/ /\ u.fd = v.fd
               /\ ~u.phyMemAddr /\ u.ptrs = {}
               /\ Balanced(u)
               /\ u.vmState = v.vmState \ {"RegisteredPhyMem"}
  <1> DEFINE u == UnallocVmPages(v)
             h == [i \in Items |-> IF i \in PutBack(v) THEN v.held[i] - 1 ELSE v.held[i]]
             b == v.vmState \ {"RegisteredPhyMem"}
  <1>1. CASE ReleaseFaults(v)
    <2>1. u = [v EXCEPT !.fd = "oops"]
      BY <1>1 DEF UnallocVmPages
    <2>2. u \in VMType
      BY <2>1 DEF VMType
    <2>3. u.fd = "oops" /\ u.monReq = v.monReq /\ u.vmState = v.vmState
      BY <2>1 DEF VMType
    <2>4. QED BY <1>1, <2>2, <2>3
  <1>2. CASE ~ReleaseFaults(v)
    <2>1. u = [ fd |-> v.fd, vmState |-> b, monReq |-> v.monReq, megs |-> FALSE,
                phyMemAddr |-> FALSE, ptrs |-> {}, held |-> h, zeroBased |-> v.zeroBased ]
      <3>1. u = [v EXCEPT !.megs = FALSE, !.phyMemAddr = FALSE, !.ptrs = {},
                          !.held = h, !.vmState = b]
        BY <1>2 DEF UnallocVmPages
      <3> HIDE DEF u, h, b
      <3>2. QED BY <3>1 DEF VMType
    <2>2. \A i \in Items : h[i] \in Nat /\ (h[i] > 0 => i \in PinnedItems /\ v.zeroBased)
      <3> SUFFICES ASSUME NEW i \in Items
                   PROVE  h[i] \in Nat /\ (h[i] > 0 => i \in PinnedItems /\ v.zeroBased)
        OBVIOUS
      <3>1. /\ v.held[i] \in Nat
            /\ i \in v.ptrs => v.held[i] >= 1
            /\ i \in v.ptrs => (v.held[i] > 1 => i \in PinnedItems /\ v.zeroBased)
            /\ i \notin v.ptrs => (v.held[i] > 0 => i \in PinnedItems /\ v.zeroBased)
        BY VMFields DEF Balanced, Named
      <3>2. CASE i \in PutBack(v)
        <4>1. i \in v.ptrs /\ h[i] = v.held[i] - 1
          BY <3>2 DEF PutBack
        <4>2. QED BY <3>1, <4>1
      <3>3. CASE i \notin PutBack(v)
        <4>1. h[i] = v.held[i]
          BY <3>3
        <4>2. i \in v.ptrs => i \in PinnedItems /\ v.zeroBased
          BY <3>3 DEF PutBack
        <4>3. QED BY <3>1, <4>1, <4>2
      <3>4. QED BY <3>2, <3>3
    <2>3. h \in [Items -> Nat]
      BY <2>2
    <2>4. b \subseteq Ready \cup {"Panic"} /\ b \subseteq v.vmState
      BY VMFields
    <2> HIDE DEF h, b
    <2>5. u \in VMType
      BY <2>1, <2>3, <2>4, VMFields DEF VMType
    <2>6. u.vmState = v.vmState \ {"RegisteredPhyMem"}
      BY <2>1 DEF b
    <2>7. Balanced(u)
      <3>1. u.held = h /\ u.zeroBased = v.zeroBased /\ \A i \in Items : Named(u, i) = 0
        BY <2>1 DEF Named
      <3> HIDE DEF u
      <3>2. QED BY <2>2, <3>1 DEF Balanced
    <2>8. QED BY <2>1, <2>4, <2>5, <2>6, <2>7
  <1>3. QED BY <1>1, <1>2

----------------------------------------------------------------------------
\* The VM that hostIoctlRegisterMem lets through has no pointer to anything.
LEMMA RegistrableHoldsNothing ==
  ASSUME LifecycleInv, NEW r \in Requests, RegisterAllowed(r)
  PROVE  /\ vm \in VMType /\ vm.fd = "open" /\ ~inMonitor
         /\ vm.vmState \subseteq {"FDOpened", "GuestCPUID"}
         /\ vm.ptrs = {}
         /\ Balanced(vm)
  <1>1. /\ vm \in VMType /\ vm.fd = "open" /\ ~inMonitor
        /\ vm.vmState \ {"GuestCPUID"} = {"FDOpened"}
    BY DEF LifecycleInv, LifecycleTypeOK, RegisterAllowed
  <1>2. vm.vmState \subseteq {"FDOpened", "GuestCPUID"}
    BY <1>1
  <1>3. vm.ptrs = {}
    BY <1>1, <1>2 DEF LifecycleInv, MemoryFollowsBit
  <1>4. Balanced(vm)
    BY <1>1 DEF LifecycleInv, HostBalance
  <1>5. QED BY <1>1, <1>2, <1>3, <1>4

\* A successful registration preserves the invariant.
LEMMA RegisterMemInv ==
  ASSUME LifecycleInv, NEW r \in Requests, RegisterMem(r)
  PROVE  LifecycleInv'
  <1> DEFINE a == AllocVmPages(vm, r, NItems)
  <1>1. vm \in VMType /\ vm.fd = "open" /\ ~inMonitor /\ vm.ptrs = {} /\ Balanced(vm)
    BY RegistrableHoldsNothing DEF RegisterMem
  <1>2. /\ vm' = [a EXCEPT !.vmState = @ \cup {"MemAllocated", "InitMonitor", "MapMonitor"},
                           !.monReq = "None"]
        /\ setups' = 0 /\ inMonitor' = inMonitor
    BY DEF RegisterMem
  <1>3. NItems \in 0 .. NItems
    BY DEF NItems
  <1>4. /\ a \in VMType /\ a.fd = vm.fd /\ (a.phyMemAddr \/ a.zeroBased)
        /\ a.ptrs = FirstItems(NItems) /\ Balanced(a)
    BY <1>1, <1>3, AllocResult
  <1> HIDE DEF a
  <1>5. /\ vm'.fd = "open" /\ vm'.ptrs = Items /\ vm'.held = a.held /\ a.ptrs = Items
        /\ vm'.zeroBased = a.zeroBased /\ (vm'.phyMemAddr \/ vm'.zeroBased)
        /\ "MapMonitor" \in vm'.vmState /\ vm'.monReq = "None"
    BY <1>1, <1>2, <1>4, ItemFacts DEF VMType
  <1>6. vm' \in VMType
    BY <1>2, <1>4 DEF VMType, Ready, MonReqs
  <1>7. LifecycleTypeOK'
    BY <1>1, <1>2, <1>6 DEF LifecycleInv, LifecycleTypeOK
  <1>8. HostBalance'
    BY <1>4, <1>5 DEF HostBalance, Balanced, Named
  <1>9. MonitorEnteredReady' /\ GuestLoadedOnce'
    BY <1>1, <1>2 DEF MonitorEnteredReady, GuestLoadedOnce
  <1>10. MemoryFollowsBit' /\ RequestTellsSetup'
    BY <1>2, <1>5 DEF MemoryFollowsBit, RequestTellsSetup, Resumable
  <1>11. QED BY <1>7, <1>8, <1>9, <1>10 DEF LifecycleInv

\* A VM that holds nothing and is not mapped satisfies the invariant, and so
\* does one in which the kernel faulted.
LEMMA EmptyVMInv ==
  ASSUME vm' \in VMType, inMonitor' = FALSE, setups' \in 0 .. 2,
         \/ vm'.fd = "oops"
         \/ /\ vm'.fd \in {"open", "closed"}
            /\ ~vm'.phyMemAddr /\ vm'.ptrs = {} /\ "MapMonitor" \notin vm'.vmState
            /\ Balanced(vm')
  PROVE  LifecycleInv'
  <1>1. LifecycleTypeOK'
    BY DEF LifecycleTypeOK
  <1>2. HostBalance'
    BY DEF HostBalance, Balanced, Named
  <1>3. MonitorEnteredReady' /\ GuestLoadedOnce'
    BY DEF MonitorEnteredReady, GuestLoadedOnce
  <1>4. MemoryFollowsBit' /\ RequestTellsSetup'
    BY DEF MemoryFollowsBit, RequestTellsSetup
  <1>5. QED BY <1>1, <1>2, <1>3, <1>4 DEF LifecycleInv

\* A registration that fails on the way preserves the invariant.
LEMMA AllocFailsInv ==
  ASSUME LifecycleInv, NEW r \in Requests, NEW n \in 0 .. NItems, AllocFails(r, n)
  PROVE  LifecycleInv'
  <1> DEFINE a == AllocVmPages(vm, r, n)
  <1>1. /\ vm \in VMType /\ vm.fd = "open" /\ ~inMonitor
        /\ vm.vmState \subseteq {"FDOpened", "GuestCPUID"}
        /\ vm.ptrs = {} /\ Balanced(vm)
    BY RegistrableHoldsNothing DEF AllocFails
  <1>2. vm' = UnallocVmPages(a) /\ inMonitor' = inMonitor /\ setups' = setups
    BY DEF AllocFails
  <1>3. /\ a \in VMType /\ a.fd = vm.fd
        /\ Balanced(a) /\ (a.phyMemAddr \/ a.zeroBased)
        /\ a.vmState \subseteq vm.vmState \cup RegisteredAll
    BY <1>1, AllocResult
  <1> HIDE DEF a
  <1>4. "MapMonitor" \notin a.vmState
    BY <1>1, <1>3 DEF RegisteredAll
  <1>5. /\ vm' \in VMType
        /\ \/ vm'.fd = "oops"
           \/ /\ vm'.fd = a.fd /\ ~vm'.phyMemAddr /\ vm'.ptrs = {}
              /\ Balanced(vm')
              /\ vm'.vmState = a.vmState \ {"RegisteredPhyMem"}
    BY <1>2, <1>3, UnallocResult
  <1>6. inMonitor' = FALSE /\ setups' \in 0 .. 2
    BY <1>1, <1>2 DEF LifecycleInv, LifecycleTypeOK
  <1>7. QED BY <1>1, <1>3, <1>4, <1>5, <1>6, EmptyVMInv

LEMMA InitMonitorFailsInv ==
  ASSUME LifecycleInv, NEW r \in Requests, InitMonitorFails(r)
  PROVE  LifecycleInv'
  <1> DEFINE a == AllocVmPages(vm, r, NItems)
             b == [a EXCEPT !.vmState = @ \cup {"MemAllocated"}]
  <1>1. /\ vm \in VMType /\ vm.fd = "open" /\ ~inMonitor
        /\ vm.vmState \subseteq {"FDOpened", "GuestCPUID"}
        /\ vm.ptrs = {} /\ Balanced(vm)
    BY RegistrableHoldsNothing DEF InitMonitorFails
  <1>2. vm' = UnallocVmPages(b) /\ inMonitor' = inMonitor /\ setups' = setups
    BY DEF InitMonitorFails
  <1>3. /\ a \in VMType /\ a.fd = vm.fd
        /\ Balanced(a) /\ (a.phyMemAddr \/ a.zeroBased)
        /\ a.vmState \subseteq vm.vmState \cup RegisteredAll
    <2>1. NItems \in 0 .. NItems
      BY DEF NItems
    <2>2. QED BY <1>1, <2>1, AllocResult
  <1> HIDE DEF a
  <1>4. /\ b \in VMType /\ b.fd = "open"
        /\ Balanced(b) /\ (b.phyMemAddr \/ b.zeroBased)
        /\ "MapMonitor" \notin b.vmState
    <2>1. /\ b \in VMType /\ b.fd = "open" /\ b.ptrs = a.ptrs /\ b.held = a.held
          /\ b.zeroBased = a.zeroBased /\ b.phyMemAddr = a.phyMemAddr
          /\ "MapMonitor" \notin b.vmState
      BY <1>1, <1>3 DEF VMType, Ready, RegisteredAll
    <2> HIDE DEF b
    <2>2. QED BY <1>3, <2>1 DEF Balanced, Named
  <1> HIDE DEF b
  <1>5. /\ vm' \in VMType
        /\ \/ vm'.fd = "oops"
           \/ /\ vm'.fd = b.fd /\ ~vm'.phyMemAddr /\ vm'.ptrs = {}
              /\ Balanced(vm')
              /\ vm'.vmState = b.vmState \ {"RegisteredPhyMem"}
    BY <1>2, <1>4, UnallocResult
  <1>6. inMonitor' = FALSE /\ setups' \in 0 .. 2
    BY <1>1, <1>2 DEF LifecycleInv, LifecycleTypeOK
  <1>7. QED BY <1>4, <1>5, <1>6, EmptyVMInv

\* Teardown and close give everything back.
LEMMA GiveBackInv ==
  ASSUME LifecycleInv, Teardown \/ Release
  PROVE  LifecycleInv'
  <1> DEFINE u == UnallocVmPages(vm)
  <1>1. /\ vm \in VMType /\ vm.fd = "open" /\ ~inMonitor
        /\ inMonitor' = inMonitor /\ setups' = setups
        /\ Balanced(vm) /\ (vm.phyMemAddr \/ vm.zeroBased \/ vm.ptrs = {})
    BY DEF LifecycleInv, LifecycleTypeOK, HostBalance, MemoryFollowsBit, Teardown, Release
  <1>2. \/ vm' = [u EXCEPT !.vmState = {"FDOpened"}]
        \/ vm' = [u EXCEPT !.fd = IF @ = "oops" THEN @ ELSE "closed",
                           !.vmState = {}, !.monReq = "None"]
    BY DEF Teardown, Release
  <1>3. /\ u \in VMType
        /\ \/ u.fd = "oops"
           \/ /\ u.fd = "open" /\ ~u.phyMemAddr /\ u.ptrs = {}
              /\ Balanced(u)
    BY <1>1, UnallocResult
  <1> HIDE DEF u
  <1>4. /\ vm' \in VMType
        /\ \/ vm'.fd = "oops"
           \/ /\ vm'.fd \in {"open", "closed"}
              /\ ~vm'.phyMemAddr /\ vm'.ptrs = {} /\ "MapMonitor" \notin vm'.vmState
              /\ Balanced(vm')
    <2>1. CASE vm' = [u EXCEPT !.vmState = {"FDOpened"}]
      <3>1. {"FDOpened"} \in SUBSET (Ready \cup {"Panic"})
        BY DEF Ready
      <3>2. vm' \in VMType
        BY <1>3, <2>1, <3>1 DEF VMType
      <3>3. /\ vm'.fd = u.fd /\ vm'.phyMemAddr = u.phyMemAddr /\ vm'.ptrs = u.ptrs
            /\ vm'.held = u.held /\ vm'.zeroBased = u.zeroBased /\ vm'.vmState = {"FDOpened"}
        BY <1>3, <2>1 DEF VMType
      <3>4. u.fd # "oops" => Balanced(vm')
        BY <1>3, <3>3 DEF Balanced, Named
      <3>5. QED BY <1>3, <3>2, <3>3, <3>4
    <2>2. CASE vm' = [u EXCEPT !.fd = IF @ = "oops" THEN @ ELSE "closed",
                               !.vmState = {}, !.monReq = "None"]
      <3>1. "None" \in MonReqs
        BY DEF MonReqs
      <3>2. vm' \in VMType
        BY <1>3, <2>2, <3>1 DEF VMType
      <3>3. /\ vm'.fd = IF u.fd = "oops" THEN "oops" ELSE "closed"
            /\ vm'.phyMemAddr = u.phyMemAddr /\ vm'.ptrs = u.ptrs
            /\ vm'.held = u.held /\ vm'.zeroBased = u.zeroBased /\ vm'.vmState = {}
        BY <1>3, <2>2 DEF VMType
      <3>4. u.fd # "oops" => Balanced(vm')
        BY <1>3, <3>3 DEF Balanced, Named
      <3>5. QED BY <1>3, <3>2, <3>3, <3>4
    <2>3. QED BY <1>2, <2>1, <2>2
  <1>5. inMonitor' = FALSE /\ setups' \in 0 .. 2
    BY <1>1 DEF LifecycleInv, LifecycleTypeOK
  <1>6. QED BY <1>4, <1>5, EmptyVMInv

----------------------------------------------------------------------------
\* Steps that leave the memory alone and change at most the bits other than
\* MapMonitor, the request, and where control is.
LEMMA MemoryUntouchedInv ==
  ASSUME LifecycleInv, vm.fd = "open",
         NEW b \in SUBSET (Ready \cup {"Panic"}), NEW q \in MonReqs,
         vm' = [vm EXCEPT !.vmState = b, !.monReq = q],
         "MapMonitor" \in b <=> "MapMonitor" \in vm.vmState,
         inMonitor' \in BOOLEAN, setups' \in 0 .. 2,
         inMonitor' => b = Ready /\ setups' = 1,
         "MapMonitor" \in b /\ ~inMonitor' =>
           /\ q = "None" => setups' = 0
           /\ q \in Resumable => setups' = 1
  PROVE  LifecycleInv'
  <1>1. vm \in VMType
    BY DEF LifecycleInv, LifecycleTypeOK
  <1>2. /\ vm' \in VMType
        /\ vm'.vmState = b /\ vm'.monReq = q /\ vm'.fd = "open"
        /\ vm'.phyMemAddr = vm.phyMemAddr /\ vm'.ptrs = vm.ptrs /\ vm'.held = vm.held
        /\ vm'.zeroBased = vm.zeroBased
    BY <1>1 DEF VMType
  <1>3. LifecycleTypeOK'
    BY <1>2 DEF LifecycleTypeOK
  <1>4. HostBalance'
    BY <1>2 DEF LifecycleInv, HostBalance, Balanced, Named
  <1>5. MemoryFollowsBit'
    BY <1>2 DEF LifecycleInv, MemoryFollowsBit
  <1>6. MonitorEnteredReady'
    <2>1. "MapMonitor" \in Ready
      BY DEF Ready
    <2>2. inMonitor' => vm.ptrs = Items
      BY <2>1 DEF LifecycleInv, MemoryFollowsBit
    <2>3. QED BY <1>2, <2>2 DEF MonitorEnteredReady
  <1>7. GuestLoadedOnce' /\ RequestTellsSetup'
    BY <1>2 DEF GuestLoadedOnce, RequestTellsSetup
  <1>8. QED BY <1>3, <1>4, <1>5, <1>6, <1>7 DEF LifecycleInv

\* Every step preserves the invariant.
LEMMA LifecycleNextInv == LifecycleInv /\ [Next]_vars => LifecycleInv'
  <1> SUFFICES ASSUME LifecycleInv, [Next]_vars PROVE LifecycleInv'
    OBVIOUS
  <1>1. /\ vm \in VMType /\ inMonitor \in BOOLEAN /\ setups \in 0 .. 2
        /\ inMonitor => vm.fd = "open" /\ vm.vmState = Ready /\ setups = 1
        /\ "MapMonitor" \in Ready /\ "Panic" \notin Ready /\ {"None", "Panic"} \subseteq MonReqs
    BY DEF LifecycleInv, LifecycleTypeOK, MonitorEnteredReady, GuestLoadedOnce, Ready,
           RegisteredAll, MonReqs
  <1>2. /\ vm.vmState \in SUBSET (Ready \cup {"Panic"}) /\ vm.monReq \in MonReqs
        /\ vm = [vm EXCEPT !.vmState = vm.vmState, !.monReq = vm.monReq]
    BY <1>1 DEF VMType
  <1>3. CASE Open
    <2>1. /\ vm.fd = "closed" /\ ~inMonitor
          /\ vm' = [vm EXCEPT !.fd = "open", !.vmState = {"FDOpened"}, !.monReq = "None"]
          /\ inMonitor' = inMonitor /\ setups' = setups
      BY <1>1, <1>3 DEF Open
    <2>2. ~vm.phyMemAddr /\ vm.ptrs = {} /\ Balanced(vm)
      BY <2>1, ItemFacts DEF LifecycleInv, HostBalance, MemoryFollowsBit
    <2>3. {"FDOpened"} \in SUBSET (Ready \cup {"Panic"})
      BY DEF Ready
    <2>4. /\ vm' \in VMType
          /\ vm'.fd = "open" /\ vm'.phyMemAddr = vm.phyMemAddr /\ vm'.ptrs = vm.ptrs
          /\ vm'.held = vm.held /\ vm'.zeroBased = vm.zeroBased /\ vm'.vmState = {"FDOpened"}
      BY <1>1, <2>1, <2>3 DEF VMType
    <2>5. Balanced(vm')
      BY <2>2, <2>4 DEF Balanced, Named
    <2>6. QED BY <1>1, <2>1, <2>2, <2>4, <2>5, EmptyVMInv
  <1>4. CASE SetCPUID
    <2> DEFINE b == vm.vmState \cup {"GuestCPUID"}
    <2>1. /\ b \in SUBSET (Ready \cup {"Panic"})
          /\ "MapMonitor" \in b <=> "MapMonitor" \in vm.vmState
      BY <1>2 DEF Ready
    <2>2. /\ vm.fd = "open" /\ ~inMonitor
          /\ vm' = [vm EXCEPT !.vmState = b, !.monReq = vm.monReq]
          /\ inMonitor' = inMonitor /\ setups' = setups
      BY <1>1, <1>4 DEF SetCPUID, VMType
    <2> HIDE DEF b
    <2>3. QED BY <1>1, <1>2, <2>1, <2>2, MemoryUntouchedInv DEF LifecycleInv, RequestTellsSetup
  <1>5. CASE UnregisterMem
    <2> DEFINE b == vm.vmState \ RegisteredAll
    <2>1. /\ b \in SUBSET (Ready \cup {"Panic"})
          /\ "MapMonitor" \in b <=> "MapMonitor" \in vm.vmState
      BY <1>2 DEF RegisteredAll
    <2>2. /\ vm.fd = "open" /\ ~inMonitor
          /\ vm' = [vm EXCEPT !.vmState = b, !.monReq = vm.monReq]
          /\ inMonitor' = inMonitor /\ setups' = setups
      BY <1>1, <1>5 DEF UnregisterMem, VMType
    <2> HIDE DEF b
    <2>3. QED BY <1>1, <1>2, <2>1, <2>2, MemoryUntouchedInv DEF LifecycleInv, RequestTellsSetup
  <1>6. CASE Teardown \/ Release
    BY <1>6, GiveBackInv
  <1>7. ASSUME NEW r \in Requests,
               \/ RegisterMem(r) \/ InitMonitorFails(r)
               \/ \E n \in 0 .. NItems : AllocFails(r, n)
        PROVE  LifecycleInv'
    BY <1>7, RegisterMemInv, InitMonitorFailsInv, AllocFailsInv
  <1>8. CASE ExecuteRefused \/ LeaveByPanic
    <2> DEFINE b == vm.vmState \cup {"Panic"}
    <2>1. /\ b \in SUBSET (Ready \cup {"Panic"})
          /\ "MapMonitor" \in b <=> "MapMonitor" \in vm.vmState
      BY <1>2
    <2>2. /\ vm.fd = "open"
          /\ vm' = [vm EXCEPT !.vmState = b, !.monReq = "Panic"]
          /\ inMonitor' = FALSE /\ setups' = setups
      BY <1>1, <1>8 DEF ExecuteRefused, LeaveByPanic, Panicked
    <2> HIDE DEF b
    <2>3. "Panic" \notin Resumable
      BY DEF Resumable
    <2>4. QED BY <1>1, <2>1, <2>2, <2>3, MemoryUntouchedInv
  <1>9. CASE ExecuteFirst
    <2>1. /\ vm.fd = "open" /\ ~inMonitor /\ vm.vmState = Ready /\ vm.monReq = "None"
          /\ inMonitor' = TRUE /\ vm' = vm
          /\ setups' = IF setups < 2 THEN setups + 1 ELSE setups
      BY <1>9 DEF ExecuteFirst
    <2>2. setups = 0
      BY <1>1, <2>1 DEF LifecycleInv, RequestTellsSetup
    <2>3. setups' = 1
      BY <2>1, <2>2
    <2>4. vm' = [vm EXCEPT !.vmState = vm.vmState, !.monReq = vm.monReq]
      BY <1>2, <2>1
    <2>5. inMonitor' \in BOOLEAN /\ setups' \in 0 .. 2
      BY <2>1, <2>3
    <2>6. QED BY <1>1, <1>2, <2>1, <2>3, <2>4, <2>5, MemoryUntouchedInv
  <1>10. CASE ExecuteResume
    <2>1. /\ vm.fd = "open" /\ ~inMonitor /\ vm.vmState = Ready /\ vm.monReq \in Resumable
          /\ inMonitor' = TRUE /\ setups' = setups
          /\ vm' = [vm EXCEPT !.vmState = vm.vmState, !.monReq = "None"]
      BY <1>1, <1>10 DEF ExecuteResume, VMType
    <2>2. setups = 1
      BY <1>1, <2>1 DEF LifecycleInv, RequestTellsSetup
    <2>3. QED BY <1>1, <1>2, <2>1, <2>2, MemoryUntouchedInv
  <1>11. ASSUME NEW req \in Resumable, ReturnToUser(req) PROVE LifecycleInv'
    <2>1. /\ inMonitor /\ inMonitor' = FALSE /\ setups' = setups
          /\ vm' = [vm EXCEPT !.vmState = vm.vmState, !.monReq = req]
      BY <1>1, <1>11 DEF ReturnToUser, VMType
    <2>2. req \in MonReqs /\ req # "None"
      BY DEF Resumable, MonReqs
    <2>3. vm.fd = "open" /\ setups' = 1
      BY <1>1, <2>1
    <2>4. QED BY <1>1, <1>2, <2>1, <2>2, <2>3, MemoryUntouchedInv
  <1>12. CASE InterruptRedirected \/ PagePinned
    <2>1. PICK q \in {"None", "PinUserPage"} :
            /\ inMonitor /\ inMonitor' = inMonitor /\ setups' = setups
            /\ vm' = [vm EXCEPT !.vmState = vm.vmState, !.monReq = q]
      BY <1>1, <1>12 DEF InterruptRedirected, PagePinned, VMType
    <2>2. q \in MonReqs
      BY DEF MonReqs
    <2>3. QED BY <1>1, <1>2, <2>1, <2>2, MemoryUntouchedInv
  <1>13. CASE UNCHANGED vars
    BY <1>13 DEF vars, LifecycleInv, LifecycleTypeOK, HostBalance, Balanced, Named,
                 MonitorEnteredReady, GuestLoadedOnce, MemoryFollowsBit, RequestTellsSetup
  <1>14. QED
    BY <1>3, <1>4, <1>5, <1>6, <1>7, <1>8, <1>9, <1>10, <1>11, <1>12, <1>13 DEF Next

LEMMA LifecycleInitInv == Init => LifecycleInv
  <1> SUFFICES ASSUME Init PROVE LifecycleInv
    OBVIOUS
  <1>1. LifecycleTypeOK
    <2>1. [i \in Items |-> 0] \in [Items -> Nat]
      OBVIOUS
    <2>2. "None" \in MonReqs
      BY DEF MonReqs
    <2>3. vm \in VMType
      BY <2>1, <2>2 DEF Init, VMType
    <2>4. inMonitor = FALSE /\ setups = 0
      BY DEF Init
    <2>5. setups \in 0 .. 2
      BY <2>4
    <2>6. inMonitor \in BOOLEAN
      BY <2>4, Zenon
    <2>7. QED BY <2>3, <2>5, <2>6, Zenon DEF LifecycleTypeOK
  <1>2. QED
    BY <1>1 DEF Init, LifecycleInv, HostBalance, Balanced, Named, MonitorEnteredReady,
                GuestLoadedOnce, MemoryFollowsBit, RequestTellsSetup

----------------------------------------------------------------------------
\* The ioctls of hostIoctlGeneric, in any order, keep LifecycleInv.
THEOREM LifecycleInvariant == Spec => []LifecycleInv
  <1>1. QED BY LifecycleInitInv, LifecycleNextInv, PTL DEF Spec

\* Every ioctl leaves vm_t a value of its type, the host's counts natural numbers.
THEOREM LifecycleTypes == Spec => []LifecycleTypeOK
  <1>1. LifecycleInv => LifecycleTypeOK
    BY DEF LifecycleInv
  <1>2. QED BY <1>1, LifecycleInvariant, PTL

\* hostUnallocVmPages gives back exactly what hostAllocVmPages took, the pinned
\* pages of a registration at address 0 excepted.
THEOREM NothingLeaks == Spec => []HostBalance
  <1>1. LifecycleInv => HostBalance
    BY DEF LifecycleInv
  <1>2. QED BY <1>1, LifecycleInvariant, PTL

\* hostIoctlExecute enters the monitor only over memory that exists.
THEOREM ExecutesOnlyWhenReady == Spec => []MonitorEnteredReady
  <1>1. LifecycleInv => MonitorEnteredReady
    BY DEF LifecycleInv
  <1>2. QED BY <1>1, LifecycleInvariant, PTL

\* hostIoctlExecute loads the guest's state once per registration.
THEOREM LoadsGuestOnce == Spec => []GuestLoadedOnce
  <1>1. LifecycleInv => GuestLoadedOnce
    BY DEF LifecycleInv
  <1>2. QED BY <1>1, LifecycleInvariant, PTL

\* The state bits hostIoctlRegisterMem and hostIoctlExecute look at tell
\* whether the VM's memory exists.
THEOREM StateIsHonest == Spec => []StateTellsMemory
  <1>1. LifecycleInv => StateTellsMemory
    <2> SUFFICES ASSUME LifecycleInv, vm.fd = "open"
                 PROVE  /\ vm.vmState \ {"GuestCPUID"} = {"FDOpened"} =>
                             vm.ptrs = {} /\ ~vm.phyMemAddr
                        /\ Ready \subseteq vm.vmState => vm.ptrs = Items
      BY DEF StateTellsMemory
    <2>1. vm.vmState \ {"GuestCPUID"} = {"FDOpened"} => "MapMonitor" \notin vm.vmState
      OBVIOUS
    <2>2. Ready \subseteq vm.vmState => "MapMonitor" \in vm.vmState
      BY DEF Ready
    <2>3. QED BY <2>1, <2>2, ItemFacts DEF LifecycleInv, MemoryFollowsBit
  <1>2. QED BY <1>1, LifecycleInvariant, PTL
============================================================================
