--------------------------- MODULE LinuxVMProofs ---------------------------
(***************************************************************************)
(* Proofs about the user program, for any registration it asks for and any *)
(* number of images it loads: it uses the kernel module as VMLifecycle     *)
(* allows, so what is proved of that holds here, and its own records of    *)
(* what it holds are right whatever SIGINT interrupts.                     *)
(***************************************************************************)
EXTENDS LinuxVM, VMLifecycleProofs

\* The program's steps are the kernel module's, or leave it alone.
LEMMA LinuxStepIsKernelStep == [LinuxNext]_linuxVars => [Next]_vars
  <1> USE DEF kernelVars, vars
  <1>1. ASSUME StartUp PROVE [Next]_vars
    <2>1. RegisterMemory => Next
      BY DEF RegisterMemory, Next
    <2>2. OpenFD \/ CpuInfo => [Next]_vars
      BY DEF OpenFD, CpuInfo, Next
    <2>3. QED
      BY <1>1, <2>1, <2>2 DEF StartUp, CheckArgs, AllocMemory, FDAssigned, LinuxVMMode,
            Registered, LoadImage, InitCPUMem, InitHal, ExecuteLinux
  <1>2. ASSUME TearDown PROVE [Next]_vars
    BY <1>2 DEF TearDown, TD_Unregister, TD_ClearReg, TD_Teardown, TD_Close, TD_ClearFD,
                TD_Free, TD_ClearMem, Next
  <1>3. ASSUME Execute \/ InIoctl PROVE [Next]_vars
    BY <1>3 DEF Execute, InIoctl, IoctlReturns, IoctlFails, Next
  <1>4. ASSUME Exit \/ SigKill PROVE [Next]_vars
    BY <1>4 DEF Exit, SigKill, ProcessEnds, Next
  <1>5. ASSUME NetCheck \/ Dispatch \/ HalCallEnds \/ ExecuteFailed \/ SigInt \/ CtrlCHandler
        PROVE  [Next]_vars
    BY <1>5 DEF NetCheck, Dispatch, HalCallEnds, HalCallDone, HalCallUnknown, HalDeviceError,
                HalDiskError, ExecuteFailed, SigInt, CtrlCHandler
  <1>6. ASSUME UNCHANGED linuxVars PROVE [Next]_vars
    BY <1>6 DEF linuxVars
  <1>7. QED BY <1>1, <1>2, <1>3, <1>4, <1>5, <1>6 DEF LinuxNext

\* linuxvm.c drives the module through ioctls in an order VMLifecycle allows,
\* with SIGINT and SIGKILL at any point.
THEOREM LinuxUsesKernel == LinuxSpec => Spec
  <1>1. LinuxInit => Init
    BY DEF LinuxInit
  <1>2. QED BY <1>1, LinuxStepIsKernelStep, PTL DEF LinuxSpec, Spec

----------------------------------------------------------------------------
LoopPCs == {"loop", "execute", "ioctl", "dispatch", "halcall"}

\* The VM has no hold on the memory of the process.
HoldsNothing == vm.ptrs = {} /\ ~vm.phyMemAddr /\ ~inMonitor

\* plex86State records the memory, except between free and its record; once
\* the handler has come in there it does not, and once the process is gone
\* nobody asks.
MemoryRecorded ==
  prog.pc # "exited" /\ ~prog.raced =>
    /\ prog.mem # "freedTwice"
    /\ "MemAllocated" \in prog.bits /\ prog.pc # "clearMem" => prog.mem = "live"

\* Where the handler, the loading of images, the execute loop and the freeing of
\* memory are.
ControlHonest ==
  /\ prog.raced => prog.sig = "taken"
  /\ prog.mem = "freedTwice" => prog.raced
  /\ prog.sig = "taken" => prog.pc \in TearDownPCs \cup {"exit", "exited"} /\ prog.k = "exit"
  /\ prog.k = "loop" => prog.diskError
  /\ prog.pc \in StartPCs \ {"args", "alloc"} => prog.mem = "live"
  /\ prog.pc \in {"args", "alloc"} => prog.mem = "none"
  /\ prog.pc \in LoopPCs => prog.mem = "live" \/ prog.diskError
  /\ prog.deadWrite => prog.diskError
  /\ prog.pc \in StartPCs \ {"load", "cpu", "hal", "ready"} => prog.loaded = 0
  /\ prog.pc = "load" => prog.loaded < NImages

\* plex86FD, the descriptor and the memory under it.
DescriptorHonest ==
  /\ ~prog.fd => HoldsNothing
  /\ prog.mem \in {"freed", "freedTwice"} => ~prog.fd
  /\ prog.pc \in {"args", "alloc", "open", "opened", "free", "clearMem"} => ~prog.fd
  /\ prog.pc \in {"register", "registered", "cpuid", "load", "cpu", "hal", "ready", "ioctl",
                  "dispatch", "halcall", "clearReg", "teardown", "close", "clearFD"} => prog.fd
  /\ prog.fd => \/ vm.fd = "open"
                \/ prog.pc = "exited"
                \/ prog.pc = "clearFD" /\ vm.fd = "closed"
                \/ prog.pc \in {"unregister", "exit"} /\ vm.fd = "closed" /\ prog.sig = "taken"
  /\ prog.pc = "clearFD" => vm.fd = "closed"
  /\ inMonitor => prog.pc = "ioctl"

\* What the ioctls made so far have left in vmState and mon_request.
StateKnown ==
  /\ prog.pc = "opened" \/ (prog.pc \in {"mode", "register"} /\ prog.fd) =>
       vm.fd = "open" /\ vm.vmState = {"FDOpened"}
  /\ prog.pc \in {"registered", "cpuid"} =>
       vm.vmState = Ready \ {"GuestCPUID"} /\ vm.monReq = "None"
  /\ prog.pc \in {"load", "cpu", "hal", "ready"} => vm.vmState = Ready /\ vm.monReq = "None"
  /\ prog.pc \in {"loop", "execute", "dispatch", "halcall"} /\ prog.fd =>
       vm.vmState = Ready /\ vm.monReq \in Resumable \cup {"None"}
  /\ prog.pc = "ioctl" => vm.vmState = Ready

LinuxInv ==
  /\ prog \in ProgType
  /\ MemoryRecorded
  /\ ControlHonest
  /\ DescriptorHonest
  /\ StateKnown

----------------------------------------------------------------------------
LEMMA ProgFields ==
  ASSUME prog \in ProgType
  PROVE  /\ prog.k \in {"loop", "again", "exit"}
         /\ prog.bits \subseteq {"MemAllocated", "MemRegistered"}
         /\ prog.mem \in {"none", "live", "freed", "freedTwice"}
         /\ prog.loaded \in 0 .. NImages
         /\ prog.sig \in {"none", "pending", "taken"}
  BY DEF ProgType

\* A call of plex86TearDown by main, the execute loop or the HAL.
LEMMA GivingUpInv ==
  ASSUME LinuxInv, UNCHANGED kernelVars,
         prog.pc \in (StartPCs \ {"args", "alloc", "open", "opened"}) \cup {"failed", "halcall"},
         NEW k \in {"loop", "again", "exit"}, NEW e \in BOOLEAN, k = "loop" => e,
         prog.diskError => e,
         prog' = [prog EXCEPT !.pc = "unregister", !.k = k, !.diskError = e]
  PROVE  LinuxInv'
  <1> USE DEF LinuxInv, TearDownPCs, StartPCs
  <1>1. prog' \in ProgType
    BY DEF ProgType
  <1>2. /\ prog'.pc = "unregister" /\ prog'.k = k /\ prog'.diskError = e
        /\ prog'.fd = prog.fd /\ prog'.bits = prog.bits /\ prog'.mem = prog.mem
        /\ prog'.sig = prog.sig /\ prog'.raced = prog.raced /\ prog'.deadWrite = prog.deadWrite
        /\ prog'.loaded = prog.loaded
    BY DEF ProgType
  <1>3. MemoryRecorded' /\ ControlHonest'
    BY <1>2 DEF MemoryRecorded, ControlHonest, LoopPCs
  <1>4. DescriptorHonest' /\ StateKnown'
    BY <1>2 DEF DescriptorHonest, StateKnown, HoldsNothing, kernelVars
  <1>5. QED BY <1>1, <1>3, <1>4

LEMMA TearDownThenInv ==
  ASSUME LinuxInv, UNCHANGED kernelVars,
         prog.pc \in (StartPCs \ {"args", "alloc", "open", "opened"}) \cup {"failed", "halcall"},
         NEW k \in {"again", "exit"}, TearDownThen(k)
  PROVE  LinuxInv'
  <1>1. prog.diskError \in BOOLEAN /\ prog \in ProgType
    BY DEF LinuxInv, ProgType
  <1>2. prog' = [prog EXCEPT !.pc = "unregister", !.k = k, !.diskError = prog.diskError]
    BY <1>1 DEF TearDownThen, ProgType
  <1>3. QED BY <1>1, <1>2, GivingUpInv

\* The program goes on to q, and changes nothing else.
LEMMA GoesOnInv ==
  ASSUME LinuxInv, UNCHANGED kernelVars, NEW q, Go(q),
         \/ prog.pc = "args" /\ q = "alloc"
         \/ prog.pc \in {"args", "alloc", "register"} /\ q = "exited"
         \/ prog.pc = "open" /\ q = "mode"
         \/ prog.pc = "mode" /\ q = "register" /\ prog.fd
         \/ prog.pc = "cpu" /\ q = "hal"
         \/ prog.pc = "hal" /\ q = "ready"
         \/ prog.pc = "ready" /\ q = "loop"
         \/ prog.pc = "loop" /\ q = "execute"
         \/ prog.pc = "execute" /\ q = "failed"
         \/ prog.pc = "dispatch" /\ q \in {"loop", "halcall"}
         \/ prog.pc = "halcall" /\ q = "failed"
         \/ prog.pc = "unregister" /\ q = "free" /\ ~prog.fd
  PROVE  LinuxInv'
  <1> USE DEF LinuxInv, TearDownPCs, StartPCs, Go
  <1>1. prog' \in ProgType
    BY DEF ProgType
  <1>2. /\ prog'.pc = q /\ prog'.k = prog.k /\ prog'.diskError = prog.diskError
        /\ prog'.fd = prog.fd /\ prog'.bits = prog.bits /\ prog'.mem = prog.mem
        /\ prog'.sig = prog.sig /\ prog'.raced = prog.raced /\ prog'.deadWrite = prog.deadWrite
        /\ prog'.loaded = prog.loaded
    BY DEF ProgType
  <1>3. MemoryRecorded' /\ ControlHonest'
    BY <1>2 DEF MemoryRecorded, ControlHonest, LoopPCs
  <1>4. DescriptorHonest' /\ StateKnown'
    BY <1>2 DEF DescriptorHonest, StateKnown, HoldsNothing, kernelVars
  <1>5. QED BY <1>1, <1>3, <1>4

\* hostUnallocVmPages closes nothing.
LEMMA UnallocDescriptor ==
  ASSUME NEW v \in VMType, v.fd = "open"
  PROVE  UnallocVmPages(v).fd \in {"open", "oops"}
  <1>1. CASE ReleaseFaults(v)
    BY <1>1 DEF UnallocVmPages, VMType
  <1>2. CASE ~ReleaseFaults(v)
    BY <1>2 DEF UnallocVmPages, VMType
  <1>3. QED BY <1>1, <1>2

\* main, up to the execute loop.
LEMMA StartUpInv ==
  ASSUME LinuxInv, LifecycleInv, LifecycleInv', StartUp
  PROVE  LinuxInv'
  <1> USE DEF StartPCs, At
  <1>1. CASE CheckArgs
    BY <1>1, GoesOnInv DEF CheckArgs
  <1>2. CASE AllocMemory
    <2>1. CASE Go("exited")
      BY <1>2, <2>1, GoesOnInv DEF AllocMemory
    <2>2. CASE prog' = [prog EXCEPT !.pc = "open", !.mem = "live",
                                    !.bits = @ \cup {"MemAllocated"}]
      <3> USE DEF LinuxInv, AllocMemory, TearDownPCs
      <3>1. prog' \in ProgType
        BY <1>2, <2>2 DEF ProgType
      <3>2. MemoryRecorded' /\ ControlHonest'
        BY <1>2, <2>2 DEF ProgType, MemoryRecorded, ControlHonest, LoopPCs
      <3>3. DescriptorHonest' /\ StateKnown'
        BY <1>2, <2>2 DEF ProgType, DescriptorHonest, StateKnown, HoldsNothing, kernelVars
      <3>4. QED BY <3>1, <3>2, <3>3
    <2>3. QED BY <1>2, <2>1, <2>2 DEF AllocMemory
  <1>3. CASE OpenFD
    <2>1. CASE Go("mode") /\ UNCHANGED kernelVars
      BY <1>3, <2>1, GoesOnInv DEF OpenFD
    <2>2. CASE Open /\ Go("opened")
      <3> USE DEF LinuxInv, OpenFD, TearDownPCs, Go
      <3>1. prog' \in ProgType
        BY <1>3, <2>2 DEF ProgType
      <3>2. MemoryRecorded' /\ ControlHonest'
        BY <1>3, <2>2 DEF ProgType, MemoryRecorded, ControlHonest, LoopPCs
      <3>3. /\ vm'.fd = "open" /\ vm'.vmState = {"FDOpened"} /\ inMonitor' = inMonitor
            /\ vm'.ptrs = vm.ptrs /\ vm'.phyMemAddr = vm.phyMemAddr
        BY <2>2 DEF Open, LifecycleInv, LifecycleTypeOK, VMType
      <3>4. DescriptorHonest' /\ StateKnown'
        BY <1>3, <2>2, <3>3 DEF ProgType, DescriptorHonest, StateKnown, HoldsNothing
      <3>5. QED BY <3>1, <3>2, <3>4
    <2>3. QED BY <1>3, <2>1, <2>2 DEF OpenFD
  <1>4. CASE FDAssigned
    <2> USE DEF LinuxInv, FDAssigned, TearDownPCs
    <2>1. prog' \in ProgType
      BY <1>4 DEF ProgType
    <2>2. MemoryRecorded' /\ ControlHonest'
      BY <1>4 DEF ProgType, MemoryRecorded, ControlHonest, LoopPCs
    <2>3. DescriptorHonest' /\ StateKnown'
      BY <1>4 DEF ProgType, DescriptorHonest, ControlHonest, StateKnown, HoldsNothing, kernelVars
    <2>4. QED BY <2>1, <2>2, <2>3
  <1>5. CASE LinuxVMMode
    BY <1>5, GoesOnInv, TearDownThenInv DEF LinuxVMMode
  <1>6. CASE RegisterMemory
    <2>1. ASSUME NEW r \in Requests, RegisterMem(r), Go("registered") PROVE LinuxInv'
      <3> USE DEF LinuxInv, TearDownPCs, Go
      <3>1. prog.pc = "register"
        BY <1>6 DEF RegisterMemory
      <3>2. prog' \in ProgType
        BY <2>1 DEF ProgType
      <3>3. MemoryRecorded' /\ ControlHonest'
        BY <2>1, <3>1 DEF ProgType, MemoryRecorded, ControlHonest, LoopPCs
      <3>4. vm.fd = "open" /\ vm.vmState = {"FDOpened"} /\ vm \in VMType /\ ~inMonitor
        BY <3>1, <2>1 DEF StateKnown, DescriptorHonest, LifecycleInv, LifecycleTypeOK,
                          RegisterMem, RegisterAllowed
      <3>5. /\ vm'.fd = "open" /\ vm'.vmState = Ready \ {"GuestCPUID"} /\ vm'.monReq = "None"
            /\ ~inMonitor'
        BY <2>1, <3>4 DEF RegisterMem, AllocVmPages, NItems, Ready, RegisteredAll, VMType
      <3>6. DescriptorHonest' /\ StateKnown'
        BY <2>1, <3>1, <3>5 DEF ProgType, DescriptorHonest, StateKnown, HoldsNothing
      <3>7. QED BY <3>2, <3>3, <3>6
    <2>2. ASSUME NEW r \in Requests,
                 InitMonitorFails(r) \/ \E n \in 0 .. NItems : AllocFails(r, n),
                 IF vm'.fd = "oops" THEN Go("exited") ELSE TearDownThen("exit")
          PROVE  LinuxInv'
      <3> USE DEF LinuxInv, TearDownPCs
      <3>1. prog.pc = "register" /\ prog.fd /\ prog.mem = "live" /\ prog \in ProgType
        BY <1>6 DEF RegisterMemory, DescriptorHonest, ControlHonest
      <3>2. vm.fd = "open" /\ vm \in VMType /\ ~inMonitor
        BY <2>2, <3>1 DEF LifecycleInv, LifecycleTypeOK, InitMonitorFails, AllocFails,
                          RegisterAllowed
      <3>3. vm'.fd \in {"open", "oops"} /\ ~inMonitor'
        <4>1. CASE InitMonitorFails(r)
          <5> DEFINE a == AllocVmPages(vm, r, NItems)
          <5>1. a \in VMType /\ a.fd = "open"
            <6>1. NItems \in 0 .. NItems
              BY DEF NItems
            <6>2. QED BY <4>1, <6>1, RegistrableHoldsNothing, AllocResult DEF InitMonitorFails
          <5> HIDE DEF a
          <5> DEFINE b == [a EXCEPT !.vmState = @ \cup {"MemAllocated"}]
          <5>2. b \in VMType /\ b.fd = "open"
            BY <5>1 DEF VMType, Ready
          <5>3. vm' = UnallocVmPages(b) /\ inMonitor' = inMonitor
            BY <4>1 DEF InitMonitorFails, a
          <5> HIDE DEF b
          <5>4. QED BY <3>2, <5>2, <5>3, UnallocDescriptor
        <4>2. ASSUME NEW n \in 0 .. NItems, AllocFails(r, n)
              PROVE  vm'.fd \in {"open", "oops"} /\ ~inMonitor'
          <5>1. AllocVmPages(vm, r, n) \in VMType /\ AllocVmPages(vm, r, n).fd = "open"
            BY <4>2, RegistrableHoldsNothing, AllocResult DEF AllocFails
          <5>2. QED BY <3>2, <4>2, <5>1, UnallocDescriptor DEF AllocFails
        <4>3. QED BY <2>2, <4>1, <4>2
      <3>4. CASE vm'.fd = "oops"
        <4>1. prog' = [prog EXCEPT !.pc = "exited"]
          BY <2>2, <3>4 DEF Go
        <4>2. prog' \in ProgType
          BY <3>1, <4>1 DEF ProgType
        <4>3. MemoryRecorded' /\ ControlHonest'
          BY <3>1, <4>1 DEF ProgType, MemoryRecorded, ControlHonest, LoopPCs
        <4>4. DescriptorHonest' /\ StateKnown'
          BY <3>1, <3>3, <4>1 DEF ProgType, DescriptorHonest, StateKnown, HoldsNothing
        <4>5. QED BY <4>2, <4>3, <4>4
      <3>5. CASE vm'.fd = "open"
        <4>1. prog' = [prog EXCEPT !.pc = "unregister", !.k = "exit"]
          BY <2>2, <3>5 DEF TearDownThen
        <4>2. prog' \in ProgType
          BY <3>1, <4>1 DEF ProgType
        <4>3. MemoryRecorded' /\ ControlHonest'
          BY <3>1, <4>1 DEF ProgType, MemoryRecorded, ControlHonest, LoopPCs
        <4>4. DescriptorHonest' /\ StateKnown'
          BY <3>1, <3>3, <3>5, <4>1 DEF ProgType, DescriptorHonest, StateKnown, HoldsNothing
        <4>5. QED BY <4>2, <4>3, <4>4
      <3>6. QED BY <3>3, <3>4, <3>5
    <2>3. QED BY <1>6, <2>1, <2>2 DEF RegisterMemory
  <1>7. CASE Registered
    <2> USE DEF LinuxInv, Registered, TearDownPCs
    <2>1. prog' \in ProgType
      BY <1>7 DEF ProgType
    <2>2. MemoryRecorded' /\ ControlHonest'
      BY <1>7 DEF ProgType, MemoryRecorded, ControlHonest, LoopPCs
    <2>3. DescriptorHonest' /\ StateKnown'
      BY <1>7 DEF ProgType, DescriptorHonest, StateKnown, HoldsNothing, kernelVars
    <2>4. QED BY <2>1, <2>2, <2>3
  <1>8. CASE CpuInfo
    <2>1. CASE TearDownThen("exit") /\ UNCHANGED kernelVars
      BY <1>8, <2>1, TearDownThenInv DEF CpuInfo
    <2>2. CASE SetCPUID /\ Go("load")
      <3> USE DEF LinuxInv, CpuInfo, TearDownPCs, Go
      <3>1. prog' \in ProgType
        BY <1>8, <2>2 DEF ProgType
      <3>2. MemoryRecorded' /\ ControlHonest'
        BY <1>8, <2>2, NImagesAssumption DEF ProgType, MemoryRecorded, ControlHonest, LoopPCs
      <3>3. vm.fd = "open" /\ vm.vmState = Ready \ {"GuestCPUID"} /\ vm.monReq = "None"
        BY <1>8, <2>2 DEF StateKnown, SetCPUID
      <3>4. vm'.fd = "open" /\ vm'.vmState = Ready /\ vm'.monReq = "None" /\ ~inMonitor'
        BY <2>2, <3>3 DEF SetCPUID, Ready, LifecycleInv, LifecycleTypeOK, VMType
      <3>5. DescriptorHonest' /\ StateKnown'
        BY <1>8, <2>2, <3>4 DEF ProgType, DescriptorHonest, StateKnown, HoldsNothing
      <3>6. QED BY <3>1, <3>2, <3>5
    <2>3. QED BY <1>8, <2>1, <2>2 DEF CpuInfo
  <1>9. CASE LoadImage
    <2>1. CASE TearDownThen("exit")
      BY <1>9, <2>1, TearDownThenInv DEF LoadImage
    <2>2. CASE prog' = [prog EXCEPT !.loaded = @ + 1,
                                    !.pc = IF prog.loaded + 1 = NImages THEN "cpu" ELSE "load"]
      <3> USE DEF LinuxInv, LoadImage, TearDownPCs
      <3>1. PICK q \in {"cpu", "load"} :
              /\ prog' = [prog EXCEPT !.loaded = prog.loaded + 1, !.pc = q]
              /\ q = "load" => prog.loaded + 1 # NImages
        BY <2>2
      <3>2. /\ prog.loaded + 1 \in 0 .. NImages
            /\ q = "load" => prog.loaded + 1 < NImages
        BY <1>9, <3>1, NImagesAssumption, ProgFields DEF ControlHonest
      <3>3. prog' \in ProgType
        BY <3>1, <3>2 DEF ProgType
      <3>4. MemoryRecorded' /\ ControlHonest'
        BY <1>9, <3>1, <3>2 DEF ProgType, MemoryRecorded, ControlHonest, LoopPCs
      <3>5. DescriptorHonest' /\ StateKnown'
        BY <1>9, <3>1 DEF ProgType, DescriptorHonest, StateKnown, HoldsNothing, kernelVars
      <3>6. QED BY <3>3, <3>4, <3>5
    <2>3. QED BY <1>9, <2>1, <2>2 DEF LoadImage
  <1>10. CASE InitCPUMem
    BY <1>10, GoesOnInv, TearDownThenInv DEF InitCPUMem
  <1>11. CASE InitHal
    BY <1>11, GoesOnInv, TearDownThenInv DEF InitHal
  <1>12. CASE ExecuteLinux
    BY <1>12, GoesOnInv, TearDownThenInv DEF ExecuteLinux
  <1>13. QED
    BY <1>1, <1>2, <1>3, <1>4, <1>5, <1>6, <1>7, <1>8, <1>9, <1>10, <1>11, <1>12 DEF StartUp

\* The execute loop and the HAL.
LEMMA LoopInv ==
  ASSUME LinuxInv, LifecycleInv,
         NetCheck \/ Execute \/ Dispatch \/ ExecuteFailed \/ HalCallEnds
  PROVE  LinuxInv'
  <1> USE DEF At
  <1>1. CASE NetCheck
    <2>1. CASE Go("execute")
      BY <1>1, <2>1, GoesOnInv DEF NetCheck
    <2>2. CASE prog' = [prog EXCEPT !.pc = "execute",
                                    !.deadWrite = @ \/ prog.mem # "live"]
      <3> DEFINE d == prog.deadWrite \/ prog.mem # "live"
      <3> USE DEF LinuxInv, NetCheck, TearDownPCs, StartPCs
      <3>1. prog' = [prog EXCEPT !.pc = "execute", !.deadWrite = d] /\ d \in BOOLEAN
        BY <2>2, Zenon
      <3>2. d => prog.diskError
        BY <1>1 DEF ControlHonest, LoopPCs
      <3> HIDE DEF d
      <3>3. prog' \in ProgType
        BY <3>1 DEF ProgType
      <3>4. MemoryRecorded' /\ ControlHonest'
        BY <1>1, <3>1, <3>2 DEF ProgType, MemoryRecorded, ControlHonest, LoopPCs
      <3>5. DescriptorHonest' /\ StateKnown'
        BY <1>1, <3>1 DEF ProgType, DescriptorHonest, StateKnown, HoldsNothing, kernelVars
      <3>6. QED BY <3>3, <3>4, <3>5
    <2>3. QED BY <1>1, <2>1, <2>2 DEF NetCheck
  <1>2. CASE Execute
    <2>1. CASE ~prog.fd /\ Go("failed") /\ UNCHANGED kernelVars
      BY <1>2, <2>1, GoesOnInv DEF Execute
    <2>2. CASE prog.fd /\ Go("ioctl") /\ (ExecuteFirst \/ ExecuteResume)
      <3> USE DEF LinuxInv, Execute, TearDownPCs, StartPCs, Go
      <3>1. prog' \in ProgType
        BY <2>2 DEF ProgType
      <3>2. MemoryRecorded' /\ ControlHonest'
        BY <1>2, <2>2 DEF ProgType, MemoryRecorded, ControlHonest, LoopPCs
      <3>3. vm'.fd = "open" /\ vm'.vmState = Ready
        BY <2>2 DEF ExecuteFirst, ExecuteResume, LifecycleInv, LifecycleTypeOK, VMType
      <3>4. DescriptorHonest' /\ StateKnown'
        BY <1>2, <2>2, <3>3 DEF ProgType, DescriptorHonest, ControlHonest, StateKnown, HoldsNothing
      <3>5. QED BY <3>1, <3>2, <3>4
    <2>3. QED BY <1>2, <2>1, <2>2 DEF Execute
  <1>3. CASE Dispatch
    <2>1. PICK q \in {"halcall", "loop"} : Go(q)
      BY <1>3 DEF Dispatch
    <2>2. QED BY <1>3, <2>1, GoesOnInv DEF Dispatch
  <1>4. CASE ExecuteFailed
    BY <1>4, TearDownThenInv DEF ExecuteFailed
  <1>5. ASSUME NEW registers \in BOOLEAN, HalCallDone(registers) PROVE LinuxInv'
    <2> DEFINE x == prog.rx \/ registers
    <2> USE DEF LinuxInv, HalCallDone, TearDownPCs, StartPCs
    <2>1. prog' = [prog EXCEPT !.pc = "loop", !.rx = x] /\ x \in BOOLEAN
      BY <1>5, Zenon
    <2> HIDE DEF x
    <2>2. prog' \in ProgType
      BY <2>1 DEF ProgType
    <2>3. MemoryRecorded' /\ ControlHonest'
      BY <1>5, <2>1 DEF ProgType, MemoryRecorded, ControlHonest, LoopPCs
    <2>4. DescriptorHonest' /\ StateKnown'
      BY <1>5, <2>1 DEF ProgType, DescriptorHonest, StateKnown, HoldsNothing, kernelVars
    <2>5. QED BY <2>2, <2>3, <2>4
  <1>6. CASE HalCallUnknown
    BY <1>6, GoesOnInv DEF HalCallUnknown
  <1>7. CASE HalDeviceError
    BY <1>7, TearDownThenInv DEF HalDeviceError
  <1>8. CASE HalDiskError
    <2>1. TRUE \in BOOLEAN
      OBVIOUS
    <2>2. QED BY <1>8, <2>1, GivingUpInv DEF HalDiskError
  <1>9. QED BY <1>1, <1>2, <1>3, <1>4, <1>5, <1>6, <1>7, <1>8 DEF HalCallEnds

\* hostIoctlExecute.
LEMMA InIoctlInv ==
  ASSUME LinuxInv, LifecycleInv, InIoctl
  PROVE  LinuxInv'
  <1> USE DEF LinuxInv, TearDownPCs, StartPCs, Go
  <1>1. vm \in VMType
    BY DEF LifecycleInv, LifecycleTypeOK
  <1>2. ASSUME NEW req \in Resumable, IoctlReturns(req) PROVE LinuxInv'
    <2> USE DEF IoctlReturns
    <2>1. prog' \in ProgType
      BY <1>2 DEF ProgType
    <2>2. MemoryRecorded' /\ ControlHonest'
      BY <1>2 DEF ProgType, MemoryRecorded, ControlHonest, LoopPCs
    <2>3. vm'.fd = vm.fd /\ vm'.vmState = vm.vmState /\ vm'.monReq = req /\ ~inMonitor'
      BY <1>1, <1>2 DEF ReturnToUser, VMType
    <2>4. DescriptorHonest' /\ StateKnown'
      BY <1>2, <2>3 DEF ProgType, DescriptorHonest, StateKnown
    <2>5. QED BY <2>1, <2>2, <2>4
  <1>3. CASE IoctlFails
    <2> USE DEF IoctlFails
    <2>1. prog' \in ProgType
      BY <1>3 DEF ProgType
    <2>2. MemoryRecorded' /\ ControlHonest'
      BY <1>3 DEF ProgType, MemoryRecorded, ControlHonest, LoopPCs
    <2>3. vm'.fd = vm.fd /\ ~inMonitor'
      BY <1>1, <1>3 DEF LeaveByPanic, Panicked, VMType
    <2>4. DescriptorHonest' /\ StateKnown'
      BY <1>3, <2>3 DEF ProgType, DescriptorHonest, StateKnown
    <2>5. QED BY <2>1, <2>2, <2>4
  <1>4. CASE InterruptRedirected /\ UNCHANGED prog
    <2>1. /\ inMonitor /\ inMonitor' = inMonitor /\ prog' = prog
          /\ vm'.fd = vm.fd /\ vm'.vmState = vm.vmState
      BY <1>1, <1>4 DEF InterruptRedirected, VMType
    <2>2. prog.pc = "ioctl" /\ prog.fd
      BY <2>1 DEF DescriptorHonest
    <2>3. MemoryRecorded' /\ ControlHonest'
      BY <2>1 DEF MemoryRecorded, ControlHonest
    <2>4. DescriptorHonest' /\ StateKnown'
      BY <2>1, <2>2 DEF DescriptorHonest, StateKnown
    <2>5. QED BY <2>1, <2>3, <2>4
  <1>5. QED BY <1>2, <1>3, <1>4 DEF InIoctl

\* hostUnallocVmPages does not fault in the VM of an open descriptor, and
\* leaves it nothing.
LEMMA GivenBack ==
  ASSUME LifecycleInv, vm.fd = "open"
  PROVE  LET v == UnallocVmPages(vm)
         IN  v \in VMType /\ v.fd = "open" /\ v.ptrs = {} /\ ~v.phyMemAddr
  <1>1. vm \in VMType /\ Balanced(vm) /\ (vm.phyMemAddr \/ vm.zeroBased \/ vm.ptrs = {})
    BY DEF LifecycleInv, LifecycleTypeOK, HostBalance, MemoryFollowsBit
  <1>2. ~ReleaseFaults(vm)
    BY ItemFacts DEF LifecycleInv, MemoryFollowsBit, ReleaseFaults, ReleaseNeeds
  <1>3. QED BY <1>1, <1>2, UnallocResult

\* A closed device holds nothing.
LEMMA ClosedHoldsNothing ==
  ASSUME LifecycleInv, vm.fd = "closed"
  PROVE  HoldsNothing
  BY ItemFacts DEF LifecycleInv, HostBalance, MemoryFollowsBit, MonitorEnteredReady,
                   HoldsNothing

\* plex86TearDown goes back to its caller, with guest memory freed (m, b) or
\* not.
LEMMA ReturnInv ==
  ASSUME LinuxInv, UNCHANGED kernelVars, prog.pc \in {"unregister", "free", "clearMem"},
         NEW b, prog' = [Return EXCEPT !.bits = b],
         \/ prog.pc \in {"unregister", "free"} /\ b = prog.bits
         \/ prog.pc = "clearMem" /\ b = {},
         prog.pc = "unregister" => prog.fd /\ vm.fd # "open"
  PROVE  LinuxInv'
  <1> USE DEF LinuxInv, TearDownPCs, StartPCs
  <1>1. PICK q \in {"unregister", "loop", "exit"}, k \in {"loop", "again", "exit"} :
          /\ prog' = [prog EXCEPT !.pc = q, !.k = k, !.bits = b]
          /\ q = "loop" => k = "loop" /\ prog.k = "loop"
          /\ k = "loop" => prog.k = "loop"
          /\ q # "loop" => k = "exit"
          /\ prog.k = "exit" => q = "exit"
    <2>1. CASE prog.k = "again"
      BY <2>1 DEF Return, ProgType
    <2>2. CASE prog.k # "again"
      <3>1. prog.k \in {"loop", "exit"}
        BY <2>2, ProgFields
      <3>2. prog' = [prog EXCEPT !.pc = prog.k, !.k = prog.k, !.bits = b]
        BY <2>2 DEF Return, ProgType
      <3>3. QED BY <3>1, <3>2
    <2>3. QED BY <2>1, <2>2
  <1>2. prog.pc = "unregister" => prog.k = "exit" /\ prog.sig = "taken" /\ vm.fd = "closed"
    BY DEF DescriptorHonest, ControlHonest
  <1>3. b \subseteq {"MemAllocated", "MemRegistered"}
    BY ProgFields
  <1>4. prog' \in ProgType
    BY <1>1, <1>3 DEF ProgType
  <1>5. /\ prog'.pc = q /\ prog'.k = k /\ prog'.diskError = prog.diskError
        /\ prog'.fd = prog.fd /\ prog'.bits = b /\ prog'.mem = prog.mem
        /\ prog'.sig = prog.sig /\ prog'.raced = prog.raced /\ prog'.deadWrite = prog.deadWrite
        /\ prog'.loaded = prog.loaded
    BY <1>1 DEF ProgType
  <1>6. prog.sig = "taken" => q = "exit"
    BY <1>1 DEF ControlHonest
  <1>7. MemoryRecorded' /\ ControlHonest'
    BY <1>1, <1>5, <1>6 DEF MemoryRecorded, ControlHonest, LoopPCs
  <1>8. DescriptorHonest' /\ StateKnown'
    BY <1>1, <1>2, <1>5, <1>6 DEF DescriptorHonest, ControlHonest, StateKnown, HoldsNothing, kernelVars
  <1>9. QED BY <1>4, <1>7, <1>8

LEMMA TearDownInv ==
  ASSUME LinuxInv, LifecycleInv, TearDown
  PROVE  LinuxInv'
  <1> USE DEF LinuxInv, TearDownPCs, StartPCs, At
  <1>1. vm \in VMType
    BY DEF LifecycleInv, LifecycleTypeOK
  <1>2. Return = [Return EXCEPT !.bits = prog.bits]
    BY DEF Return, ProgType
  <1>3. CASE TD_Unregister
    <2>1. CASE ~prog.fd
      BY <1>3, <2>1, GoesOnInv DEF TD_Unregister
    <2>2. CASE prog.fd /\ vm.fd # "open"
      BY <1>2, <1>3, <2>2, ReturnInv DEF TD_Unregister
    <2>3. CASE prog.fd /\ vm.fd = "open"
      <3> USE DEF TD_Unregister, Go
      <3>1. prog' \in ProgType
        BY <1>3, <2>3 DEF ProgType
      <3>2. MemoryRecorded' /\ ControlHonest'
        BY <1>3, <2>3 DEF ProgType, MemoryRecorded, ControlHonest, LoopPCs
      <3>3. vm'.fd = "open" /\ ~inMonitor'
        BY <1>1, <1>3, <2>3 DEF UnregisterMem, VMType
      <3>4. DescriptorHonest' /\ StateKnown'
        BY <1>3, <2>3, <3>3 DEF ProgType, DescriptorHonest, StateKnown
      <3>5. QED BY <3>1, <3>2, <3>4
    <2>4. QED BY <2>1, <2>2, <2>3
  <1>4. CASE TD_ClearReg
    <2> USE DEF TD_ClearReg
    <2>1. prog' \in ProgType
      BY <1>4 DEF ProgType
    <2>2. MemoryRecorded' /\ ControlHonest'
      BY <1>4 DEF ProgType, MemoryRecorded, ControlHonest, LoopPCs
    <2>3. DescriptorHonest' /\ StateKnown'
      BY <1>4 DEF ProgType, DescriptorHonest, StateKnown, HoldsNothing, kernelVars
    <2>4. QED BY <2>1, <2>2, <2>3
  <1>5. CASE TD_Teardown
    <2> USE DEF TD_Teardown, Go
    <2>1. prog' \in ProgType
      BY <1>5 DEF ProgType
    <2>2. MemoryRecorded' /\ ControlHonest'
      BY <1>5 DEF ProgType, MemoryRecorded, ControlHonest, LoopPCs
    <2>3. vm'.fd = "open" /\ ~inMonitor'
      BY <1>5, GivenBack DEF Teardown, VMType
    <2>4. DescriptorHonest' /\ StateKnown'
      BY <1>5, <2>3 DEF ProgType, DescriptorHonest, StateKnown
    <2>5. QED BY <2>1, <2>2, <2>4
  <1>6. CASE TD_Close
    <2> USE DEF TD_Close, Go
    <2>1. prog' \in ProgType
      BY <1>6 DEF ProgType
    <2>2. MemoryRecorded' /\ ControlHonest'
      BY <1>6 DEF ProgType, MemoryRecorded, ControlHonest, LoopPCs
    <2>3. vm'.fd = "closed" /\ ~inMonitor'
      BY <1>6, GivenBack DEF Release, VMType
    <2>4. DescriptorHonest' /\ StateKnown'
      BY <1>6, <2>3 DEF ProgType, DescriptorHonest, StateKnown
    <2>5. QED BY <2>1, <2>2, <2>4
  <1>7. CASE TD_ClearFD
    <2> USE DEF TD_ClearFD
    <2>1. prog' \in ProgType
      BY <1>7 DEF ProgType
    <2>2. MemoryRecorded' /\ ControlHonest'
      BY <1>7 DEF ProgType, MemoryRecorded, ControlHonest, LoopPCs
    <2>3. HoldsNothing
      BY <1>7, ClosedHoldsNothing DEF DescriptorHonest
    <2>4. DescriptorHonest' /\ StateKnown'
      BY <1>7, <2>3 DEF ProgType, DescriptorHonest, StateKnown, HoldsNothing, kernelVars
    <2>5. QED BY <2>1, <2>2, <2>4
  <1>8. CASE TD_Free
    <2>1. CASE "MemAllocated" \notin prog.bits
      BY <1>2, <1>8, <2>1, ReturnInv DEF TD_Free
    <2>2. CASE "MemAllocated" \in prog.bits
      <3> USE DEF TD_Free
      <3>1. PICK m \in {"freed", "freedTwice"} :
              /\ prog' = [prog EXCEPT !.pc = "clearMem", !.mem = m]
              /\ m = "freedTwice" => prog.mem = "freed"
        BY <1>8, <2>2
      <3>2. m = "freedTwice" => prog.raced
        BY <1>8, <2>2, <3>1 DEF MemoryRecorded
      <3>3. prog' \in ProgType
        BY <3>1 DEF ProgType
      <3>4. MemoryRecorded' /\ ControlHonest'
        BY <1>8, <3>1, <3>2 DEF ProgType, MemoryRecorded, ControlHonest, LoopPCs
      <3>5. DescriptorHonest' /\ StateKnown'
        BY <1>8, <3>1 DEF ProgType, DescriptorHonest, StateKnown, HoldsNothing, kernelVars
      <3>6. QED BY <3>3, <3>4, <3>5
    <2>3. QED BY <2>1, <2>2
  <1>9. CASE TD_ClearMem
    BY <1>9, ReturnInv DEF TD_ClearMem
  <1>10. QED BY <1>3, <1>4, <1>5, <1>6, <1>7, <1>8, <1>9 DEF TearDown

\* SIGINT, the start of its handler, and the end of the process.
LEMMA SignalInv ==
  ASSUME LinuxInv, LifecycleInv, SigInt \/ CtrlCHandler \/ Exit \/ SigKill
  PROVE  LinuxInv'
  <1> USE DEF LinuxInv, TearDownPCs, StartPCs
  <1>1. CASE SigInt
    <2> USE DEF SigInt
    <2>1. prog' \in ProgType
      BY <1>1 DEF ProgType
    <2>2. MemoryRecorded' /\ ControlHonest'
      BY <1>1 DEF ProgType, MemoryRecorded, ControlHonest, LoopPCs
    <2>3. DescriptorHonest' /\ StateKnown'
      BY <1>1 DEF ProgType, DescriptorHonest, StateKnown, HoldsNothing, kernelVars
    <2>4. QED BY <2>1, <2>2, <2>3
  <1>2. CASE CtrlCHandler
    <2> DEFINE x == prog.pc = "clearMem"
    <2> USE DEF CtrlCHandler
    <2>1. prog' = [prog EXCEPT !.sig = "taken", !.pc = "unregister", !.k = "exit", !.raced = x]
      BY <1>2
    <2>2. x \in BOOLEAN
      BY Zenon
    <2>3. ~prog.raced
      BY <1>2 DEF ControlHonest
    <2>4. x <=> prog.pc = "clearMem"
      OBVIOUS
    <2> HIDE DEF x
    <2>5. prog' \in ProgType
      BY <2>1, <2>2 DEF ProgType
    <2>6. MemoryRecorded' /\ ControlHonest'
      BY <1>2, <2>1, <2>3, <2>4 DEF ProgType, MemoryRecorded, ControlHonest, LoopPCs
    <2>7. DescriptorHonest' /\ StateKnown'
      BY <1>2, <2>1 DEF ProgType, DescriptorHonest, StateKnown, HoldsNothing, kernelVars
    <2>8. QED BY <2>5, <2>6, <2>7
  <1>3. CASE Exit \/ SigKill
    <2> USE DEF Exit, SigKill, ProcessEnds, Go
    <2>1. prog' = [prog EXCEPT !.pc = "exited"] /\ ~inMonitor
      BY <1>3 DEF DescriptorHonest
    <2>2. prog' \in ProgType
      BY <2>1 DEF ProgType
    <2>3. MemoryRecorded' /\ ControlHonest'
      BY <2>1 DEF ProgType, MemoryRecorded, ControlHonest, LoopPCs
    <2>4. ~inMonitor' /\ (HoldsNothing => HoldsNothing')
      <3>1. CASE vm.fd = "open"
        <4>1. vm'.ptrs = {} /\ ~vm'.phyMemAddr /\ inMonitor' = inMonitor
          BY <1>3, <3>1, GivenBack DEF Release, VMType
        <4>2. QED BY <2>1, <4>1 DEF HoldsNothing
      <3>2. CASE vm.fd # "open"
        BY <1>3, <2>1, <3>2 DEF HoldsNothing, kernelVars
      <3>3. QED BY <3>1, <3>2
    <2>5. DescriptorHonest' /\ StateKnown'
      BY <2>1, <2>4 DEF ProgType, DescriptorHonest, StateKnown
    <2>6. QED BY <2>2, <2>3, <2>5
  <1>4. QED BY <1>1, <1>2, <1>3

LEMMA LinuxNextInv ==
  LinuxInv /\ LifecycleInv /\ LifecycleInv' /\ [LinuxNext]_linuxVars => LinuxInv'
  <1>1. UNCHANGED linuxVars /\ LinuxInv => LinuxInv'
    BY DEF linuxVars, LinuxInv, MemoryRecorded, ControlHonest, DescriptorHonest, StateKnown,
           HoldsNothing
  <1>2. QED
    BY <1>1, StartUpInv, LoopInv, InIoctlInv, TearDownInv, SignalInv DEF LinuxNext

LEMMA LinuxInitInv == LinuxInit => LinuxInv
  <1> SUFFICES ASSUME LinuxInit PROVE LinuxInv
    OBVIOUS
  <1>1. prog \in ProgType
    BY NImagesAssumption DEF LinuxInit, ProgType, StartPCs
  <1>2. MemoryRecorded /\ ControlHonest
    BY DEF LinuxInit, MemoryRecorded, ControlHonest, TearDownPCs, StartPCs, LoopPCs
  <1>3. DescriptorHonest /\ StateKnown
    BY DEF LinuxInit, Init, DescriptorHonest, StateKnown, HoldsNothing
  <1>4. QED BY <1>1, <1>2, <1>3 DEF LinuxInv

----------------------------------------------------------------------------
\* The program keeps LinuxInv, on top of the kernel module's invariant.
THEOREM LinuxInvariant == LinuxSpec => []LinuxInv
  <1>1. LinuxSpec => []LifecycleInv
    BY LinuxUsesKernel, LifecycleInvariant, PTL
  <1>2. QED BY <1>1, LinuxInitInv, LinuxNextInv, PTL DEF LinuxSpec

\* plex86TearDown frees guest memory only when the kernel module has let go of
\* it, wherever SIGINT and SIGKILL come in.
THEOREM FreedIsNotHeld == LinuxSpec => []FreedMemoryNotHeld
  <1>1. LinuxInv => FreedMemoryNotHeld
    BY DEF LinuxInv, DescriptorHonest, HoldsNothing, FreedMemoryNotHeld
  <1>2. QED BY <1>1, LinuxInvariant, PTL

\* executeLinux calls the ioctl, with a descriptor, only for a VM the kernel
\* module will run.
THEOREM ExecuteIsAccepted == LinuxSpec => []ExecuteFindsReady
  <1>1. LinuxInv => ExecuteFindsReady
    BY DEF LinuxInv, DescriptorHonest, StateKnown, ExecuteFindsReady
  <1>2. QED BY <1>1, LinuxInvariant, PTL

\* plex86TearDown frees twice only when its handler came between free and the
\* record of it.
THEOREM FreesOnce == LinuxSpec => []FreedOnce
  <1>1. LinuxInv => FreedOnce
    BY DEF LinuxInv, ControlHonest, FreedOnce
  <1>2. QED BY <1>1, LinuxInvariant, PTL

\* The loop writes to freed memory only behind an error of halDiskCall.
THEOREM DeadWritesExplained == LinuxSpec => []DeadWriteOnlyAfterDiskError
  <1>1. LinuxInv => DeadWriteOnlyAfterDiskError
    BY DEF LinuxInv, ControlHonest, DeadWriteOnlyAfterDiskError
  <1>2. QED BY <1>1, LinuxInvariant, PTL

----------------------------------------------------------------------------
\* The program never registers memory at address 0, has the device open only
\* after its start and not when it is gone.
EndHonest ==
  /\ ~vm.zeroBased
  /\ prog.pc \in {"args", "alloc"} => vm.fd = "closed"
  /\ prog.pc = "exited" => vm.fd # "open"

\* hostAllocVmPages and hostUnallocVmPages on the history of address 0.
LEMMA AllocBase ==
  ASSUME NEW v \in VMType, NEW r, NEW n, r.phyMem # 0
  PROVE  AllocVmPages(v, r, n).zeroBased = v.zeroBased
  <1> DEFINE h == [i \in Items |-> IF i \in FirstItems(n) THEN v.held[i] + 1 ELSE v.held[i]]
             b == v.vmState \cup {"RegisteredPhyMem"}
                    \cup (IF n >= 1 THEN {"RegisteredGuestCPU"} ELSE {})
                    \cup (IF n >= 2 THEN {"RegisteredPrintBuffer"} ELSE {})
             z == v.zeroBased \/ r.phyMem = 0
  <1>1. AllocVmPages(v, r, n)
          = [v EXCEPT !.megs = r.pages # 0, !.phyMemAddr = r.phyMem # 0,
                      !.ptrs = FirstItems(n), !.held = h, !.zeroBased = z, !.vmState = b]
    BY DEF AllocVmPages
  <1>2. z = v.zeroBased
    BY VMFields
  <1> HIDE DEF h, b, z
  <1>3. AllocVmPages(v, r, n).zeroBased = z
    BY <1>1 DEF VMType
  <1>4. QED BY <1>2, <1>3

LEMMA UnallocBase ==
  ASSUME NEW v \in VMType
  PROVE  UnallocVmPages(v).zeroBased = v.zeroBased
  <1>1. CASE ReleaseFaults(v)
    BY <1>1 DEF UnallocVmPages, VMType
  <1>2. CASE ~ReleaseFaults(v)
    BY <1>2 DEF UnallocVmPages, VMType
  <1>3. QED BY <1>1, <1>2

\* A step that leaves the kernel module alone.
LEMMA EndQuiet ==
  ASSUME EndHonest, UNCHANGED vm, prog'.pc \in {"args", "alloc"} => prog.pc \in {"args", "alloc"},
         prog'.pc = "exited" => prog.pc \in {"args", "alloc", "exited"} \/ vm.fd # "open"
  PROVE  EndHonest'
  BY DEF EndHonest

LEMMA EndNextInv ==
  ASSUME EndHonest, LinuxInv, LinuxInv', LifecycleInv, LifecycleInv', [LinuxNext]_linuxVars
  PROVE  EndHonest'
  <1>1. /\ vm \in VMType /\ vm' \in VMType /\ prog \in ProgType /\ ~vm.zeroBased
        /\ prog.pc \in {"args", "alloc"} => vm.fd = "closed"
        /\ prog.pc = "exited" => vm.fd # "open"
    BY DEF LinuxInv, LifecycleInv, LifecycleTypeOK, EndHonest
  <1>2. CASE RegisterMemory
    <2>1. PICK r \in Requests :
            /\ r.phyMem # 0
            /\ \/ RegisterMem(r) /\ Go("registered")
               \/ /\ InitMonitorFails(r) \/ \E n \in 0 .. NItems : AllocFails(r, n)
                  /\ IF vm'.fd = "oops" THEN Go("exited") ELSE TearDownThen("exit")
      BY <1>2 DEF RegisterMemory
    <2>2. ~vm'.zeroBased
      <3>1. ASSUME NEW n \in 0 .. NItems PROVE ~AllocVmPages(vm, r, n).zeroBased
        BY <1>1, <2>1, AllocBase
      <3>2. NItems \in 0 .. NItems
        BY DEF NItems
      <3>3. ASSUME RegisterAllowed(r), NEW n \in 0 .. NItems
            PROVE  AllocVmPages(vm, r, n) \in VMType
        BY <3>3, RegistrableHoldsNothing, AllocResult
      <3>4. CASE RegisterMem(r)
        <4> DEFINE a == AllocVmPages(vm, r, NItems)
        <4>1. a \in VMType /\ ~a.zeroBased
          BY <3>1, <3>2, <3>3, <3>4 DEF RegisterMem
        <4>2. vm' = [a EXCEPT !.vmState = @ \cup {"MemAllocated", "InitMonitor", "MapMonitor"},
                              !.monReq = "None"]
          BY <3>4 DEF RegisterMem
        <4> HIDE DEF a
        <4>3. QED BY <4>1, <4>2 DEF VMType
      <3>5. CASE InitMonitorFails(r)
        <4> DEFINE a == AllocVmPages(vm, r, NItems)
                   b == [a EXCEPT !.vmState = @ \cup {"MemAllocated"}]
        <4>1. a \in VMType /\ ~a.zeroBased
          BY <3>1, <3>2, <3>3, <3>5 DEF InitMonitorFails
        <4>2. vm' = UnallocVmPages(b)
          BY <3>5 DEF InitMonitorFails
        <4> HIDE DEF a
        <4>3. b \in VMType /\ ~b.zeroBased
          BY <4>1 DEF VMType, Ready
        <4> HIDE DEF b
        <4>4. QED BY <4>2, <4>3, UnallocBase
      <3>6. ASSUME NEW n \in 0 .. NItems, AllocFails(r, n) PROVE ~vm'.zeroBased
        <4>1. AllocVmPages(vm, r, n) \in VMType /\ ~AllocVmPages(vm, r, n).zeroBased
          BY <3>1, <3>3, <3>6 DEF AllocFails
        <4>2. vm' = UnallocVmPages(AllocVmPages(vm, r, n))
          BY <3>6 DEF AllocFails
        <4>3. QED BY <4>1, <4>2, UnallocBase
      <3>7. QED BY <2>1, <3>4, <3>5, <3>6
    <2>3. prog'.pc \in {"registered", "exited", "unregister"}
          /\ (prog'.pc = "exited" => vm'.fd = "oops")
      BY <1>1, <2>1 DEF Go, TearDownThen, ProgType
    <2>4. QED BY <2>2, <2>3 DEF EndHonest
  <1>3. CASE TD_Teardown \/ TD_Close \/ Exit \/ SigKill
    <2> DEFINE u == UnallocVmPages(vm)
    <2>1. vm.fd # "oops" => u \in VMType /\ u.fd \in {vm.fd, "oops"} /\ ~u.zeroBased
      <3>1. vm.fd # "oops" => u \in VMType /\ u.fd \in {vm.fd, "oops"}
        BY <1>1, UnallocResult DEF LifecycleInv, HostBalance, MemoryFollowsBit
      <3>2. QED BY <1>1, <3>1, UnallocBase
    <2> HIDE DEF u
    <2>2. CASE UNCHANGED vm
      <3>1. \/ prog'.pc \in {"close", "clearFD"}
            \/ prog'.pc = "exited" /\ vm.fd # "open"
        <4>1. CASE TD_Teardown \/ TD_Close
          BY <1>1, <4>1 DEF TD_Teardown, TD_Close, Go, ProgType
        <4>2. CASE Exit \/ SigKill
          <5>1. prog'.pc = "exited"
            BY <1>1, <4>2 DEF Exit, SigKill, ProcessEnds, Go, ProgType
          <5>2. vm.fd = "open" => Release
            BY <4>2 DEF Exit, SigKill, ProcessEnds
          <5>3. vm.fd # "open"
            <6> SUFFICES ASSUME vm.fd = "open" PROVE FALSE
              OBVIOUS
            <6>1. vm' = [u EXCEPT !.fd = IF @ = "oops" THEN @ ELSE "closed",
                                  !.vmState = {}, !.monReq = "None"]
              BY <5>2 DEF Release, u
            <6>2. vm'.fd # "open"
              BY <2>1, <6>1 DEF VMType
            <6>3. QED BY <2>2, <6>2
          <5>4. QED BY <5>1, <5>3
        <4>3. QED BY <1>3, <4>1, <4>2
      <3>2. QED BY <2>2, <3>1, EndQuiet
    <2>3. CASE /\ vm.fd = "open"
               /\ vm' = [u EXCEPT !.vmState = {"FDOpened"}] /\ prog'.pc = "close"
      BY <2>1, <2>3 DEF VMType, EndHonest
    <2>4. CASE /\ vm.fd = "open"
               /\ vm' = [u EXCEPT !.fd = IF @ = "oops" THEN @ ELSE "closed",
                                  !.vmState = {}, !.monReq = "None"]
               /\ prog'.pc \in {"clearFD", "exited"}
      BY <2>1, <2>4 DEF VMType, EndHonest
    <2>5. QED
      <3>1. CASE TD_Teardown
        BY <1>1, <2>3, <3>1 DEF TD_Teardown, Teardown, Go, ProgType, u
      <3>2. CASE TD_Close
        BY <1>1, <2>4, <3>2 DEF TD_Close, Release, Go, ProgType, u
      <3>3. CASE Exit \/ SigKill
        BY <1>1, <2>2, <2>4, <3>3 DEF Exit, SigKill, ProcessEnds, Release, Go, ProgType,
              kernelVars, u
      <3>4. QED BY <1>3, <3>1, <3>2, <3>3
  <1>4. CASE OpenFD \/ CpuInfo \/ TD_Unregister \/ Execute \/ InIoctl
    <2>1. ~vm'.zeroBased
      BY <1>1, <1>4 DEF OpenFD, CpuInfo, TD_Unregister, Execute, InIoctl, IoctlReturns,
            IoctlFails, Open, SetCPUID, UnregisterMem, ExecuteRefused, ExecuteFirst,
            ExecuteResume, ReturnToUser, LeaveByPanic, InterruptRedirected, Panicked,
            kernelVars, VMType
    <2>2. prog'.pc \notin {"args", "alloc", "exited"}
      <3>1. CASE OpenFD
        BY <1>1, <3>1 DEF OpenFD, Go, TearDownThen, Return, At, ProgType
      <3>2. CASE CpuInfo
        BY <1>1, <3>2 DEF CpuInfo, Go, TearDownThen, Return, At, ProgType
      <3>3. CASE TD_Unregister
        BY <1>1, <3>3 DEF TD_Unregister, Go, TearDownThen, Return, At, ProgType
      <3>4. CASE Execute
        BY <1>1, <3>4 DEF Execute, Go, TearDownThen, Return, At, ProgType
      <3>5. CASE InIoctl
        <4>1. inMonitor
          BY <3>5 DEF InIoctl, IoctlReturns, IoctlFails, InterruptRedirected, ReturnToUser,
                LeaveByPanic
        <4>2. prog.pc = "ioctl" BY <4>1 DEF LinuxInv, DescriptorHonest
        <4>3. QED BY <1>1, <3>5, <4>2 DEF InIoctl, IoctlReturns, IoctlFails, Go, ProgType
      <3>6. QED BY <1>4, <3>1, <3>2, <3>3, <3>4, <3>5
    <2>3. QED BY <2>1, <2>2 DEF EndHonest
  <1>5. CASE \/ CheckArgs \/ AllocMemory \/ FDAssigned \/ LinuxVMMode \/ Registered
             \/ LoadImage \/ InitCPUMem \/ InitHal \/ ExecuteLinux
    BY <1>1, <1>5, EndQuiet DEF CheckArgs, AllocMemory, FDAssigned, LinuxVMMode, Registered,
          LoadImage, InitCPUMem, InitHal, ExecuteLinux, Go, TearDownThen, At, kernelVars, ProgType
  <1>6. CASE NetCheck \/ Dispatch \/ HalCallEnds \/ ExecuteFailed \/ SigInt \/ CtrlCHandler
             \/ TD_ClearReg \/ TD_ClearFD \/ TD_Free \/ TD_ClearMem
    BY <1>1, <1>6, EndQuiet, ProgFields DEF NetCheck, Dispatch, HalCallEnds, HalCallDone,
          HalCallUnknown, HalDeviceError, HalDiskError, ExecuteFailed, SigInt, CtrlCHandler,
          TD_ClearReg, TD_ClearFD, TD_Free, TD_ClearMem, Go, TearDownThen, Return, At,
          kernelVars, ProgType
  <1>7. CASE UNCHANGED linuxVars
    BY <1>1, <1>7, EndQuiet DEF linuxVars
  <1>8. QED
    BY <1>2, <1>3, <1>4, <1>5, <1>6, <1>7 DEF LinuxNext, StartUp, TearDown

\* Whatever ends the program, plex86TearDown, exit or a signal, the host has got
\* back all it had given to the VM.
THEOREM LinuxLeaksNothing == LinuxSpec => []EverythingGivenBack
  <1>1. LinuxSpec => []LifecycleInv
    BY LinuxUsesKernel, LifecycleInvariant, PTL
  <1>2. LinuxInit => EndHonest
    BY DEF LinuxInit, Init, EndHonest
  <1>3. EndHonest /\ LinuxInv /\ LinuxInv' /\ LifecycleInv /\ LifecycleInv'
          /\ [LinuxNext]_linuxVars => EndHonest'
    BY EndNextInv
  <1>4. LifecycleInv /\ EndHonest => EverythingGivenBack
    <2> SUFFICES ASSUME LifecycleInv, EndHonest, prog.pc = "exited", vm.fd # "oops"
                 PROVE  vm.fd = "closed" /\ \A i \in Items : vm.held[i] = 0
      BY DEF EverythingGivenBack
    <2>1. vm \in VMType /\ Balanced(vm) /\ ~vm.zeroBased /\ vm.fd # "open"
      BY DEF LifecycleInv, LifecycleTypeOK, HostBalance, EndHonest
    <2>2. vm.fd = "closed"
      BY <2>1, VMFields
    <2>3. vm.ptrs = {}
      BY <2>2 DEF LifecycleInv, HostBalance
    <2>4. ASSUME NEW i \in Items PROVE vm.held[i] = 0
      <3>1. vm.held[i] \in Nat /\ ~(vm.held[i] > 0)
        BY <2>1, <2>3, VMFields DEF Balanced, Named
      <3>2. QED BY <3>1
    <2>5. QED BY <2>2, <2>4
  <1>5. QED BY <1>1, <1>2, <1>3, <1>4, LinuxInvariant, PTL DEF LinuxSpec
============================================================================
