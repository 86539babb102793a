------------------------------ MODULE LinuxVM ------------------------------
(***************************************************************************)
(* The user program (host-user/linuxvm.c): start-up, the execute loop,     *)
(* plex86TearDown and the SIGINT handler, on top of the kernel module      *)
(* (VMLifecycle: Open, RegisterMem, ExecuteFirst, Teardown, Release ...    *)
(* are its actions; Requests holds the registration main asks for).  A     *)
(* step is a system call or an assignment that the handler could find done *)
(* or not done.                                                            *)
(*                                                                         *)
(* SIGINT may arrive at any time.  In user code the handler starts at      *)
(* once, inside an ioctl it waits for the return; it tears the VM down and *)
(* exits, so the interrupted code never goes on.  prog.k is where the      *)
(* running plex86TearDown returns to.                                      *)
(***************************************************************************)
EXTENDS VMLifecycle

CONSTANTS
  NImages      \* images main loads: kernel, perhaps initrd, boot loader

ASSUME NImagesAssumption == NImages \in Nat \ {0}

VARIABLE prog    \* the process, see ProgType

kernelVars == <<vm, inMonitor, setups>>
linuxVars == <<vm, inMonitor, setups, prog>>

TearDownPCs == {"unregister", "clearReg", "teardown", "close", "clearFD", "free", "clearMem"}
StartPCs == {"args", "alloc", "open", "opened", "mode", "register", "registered", "cpuid",
             "load", "cpu", "hal", "ready"}
ProgType ==
  [ pc    : StartPCs \cup TearDownPCs
              \cup {"loop", "execute", "ioctl", "dispatch", "failed", "halcall",
                    "exit", "exited"},
    k     : {"loop", "again", "exit"},     \* return of plex86TearDown
    fd    : BOOLEAN,                       \* plex86FD >= 0
    bits  : SUBSET {"MemAllocated", "MemRegistered"},         \* plex86State
    mem   : {"none", "live", "freed", "freedTwice"},   \* plex86MemPtr_actual
    loaded : 0 .. NImages,                 \* images loaded so far
    sig   : {"none", "pending", "taken"},  \* SIGINT
    raced : BOOLEAN,                       \* the handler came between free and its record
    rx    : BOOLEAN,                       \* halNetDev[0].registered: guestRxArea is set
    diskError : BOOLEAN,                   \* halDiskCall has torn the VM down
    deadWrite : BOOLEAN ]                  \* guest memory was written after its free

\* The program's own code runs: no signal waits to be delivered.
At(pc) == prog.pc = pc /\ prog.sig # "pending"
Go(pc) == prog' = [prog EXCEPT !.pc = pc]
\* A call of plex86TearDown.
TearDownThen(k) == prog' = [prog EXCEPT !.pc = "unregister", !.k = k]

----------------------------------------------------------------------------
(* main, up to the execute loop.  Every error tears down and returns 1. *)

\* Options missing or malformed: nothing has happened yet.
CheckArgs ==
  /\ At("args")
  /\ Go("alloc") \/ Go("exited")
  /\ UNCHANGED kernelVars

\* malloc, and signal(SIGINT).  A NULL is reported, and the memset that follows
\* ends the program.
AllocMemory ==
  /\ At("alloc")
  /\ \/ prog' = [prog EXCEPT !.pc = "open", !.mem = "live", !.bits = @ \cup {"MemAllocated"}]
     \/ Go("exited")
  /\ UNCHANGED kernelVars

\* openFD: open() and the assignment of its result.  Its failure returns -1,
\* which main takes for success.
OpenFD ==
  /\ At("open")
  /\ \/ Open /\ Go("opened")
     \/ Go("mode") /\ UNCHANGED kernelVars

FDAssigned ==
  /\ At("opened")
  /\ prog' = [prog EXCEPT !.pc = "mode", !.fd = TRUE]
  /\ UNCHANGED kernelVars

\* ioctl(PLEX86_LINUX_VM_MODE) fails only without a descriptor.
LinuxVMMode ==
  /\ At("mode")
  /\ IF prog.fd THEN Go("register") ELSE TearDownThen("exit")
  /\ UNCHANGED kernelVars

\* ioctl(PLEX86_REGISTER_MEMORY), for memory that malloc gave and a size that main
\* has checked.  A process whose ioctl faults in the kernel is killed.
RegisterMemory ==
  /\ At("register")
  /\ \E r \in {q \in Requests : q.phyMem # 0 /\ q.pages # 0} :
       \/ RegisterMem(r) /\ Go("registered")
       \/ /\ InitMonitorFails(r) \/ \E n \in 0 .. NItems : AllocFails(r, n)
          /\ IF vm'.fd = "oops" THEN Go("exited") ELSE TearDownThen("exit")

Registered ==
  /\ At("registered")
  /\ prog' = [prog EXCEPT !.pc = "cpuid", !.bits = @ \cup {"MemRegistered"}]
  /\ UNCHANGED kernelVars

\* plex86CpuInfo: the processor lacks TSC or VME, or ioctl(PLEX86_CPUID).
CpuInfo ==
  /\ At("cpuid")
  /\ \/ SetCPUID /\ Go("load")
     \/ TearDownThen("exit") /\ UNCHANGED kernelVars

\* Fault: one image more than there are.
LoadImage_OneMore ==
  /\ At("load")
  /\ \/ prog' = [prog EXCEPT !.loaded = @ + 1,
                             !.pc = IF prog.loaded = NImages THEN "cpu" ELSE "load"]
     \/ TearDownThen("exit")
  /\ UNCHANGED kernelVars
\* loadImage, once per image, into guest memory.
LoadImage ==
  /\ At("load")
  /\ \/ prog' = [prog EXCEPT !.loaded = @ + 1,
                             !.pc = IF prog.loaded + 1 = NImages
                                    THEN "cpu" ELSE "load"]
     \/ TearDownThen("exit")
  /\ UNCHANGED kernelVars

\* initLinuxIOenvironment and initLinuxCPUMemenvironment: the boot loader's
\* descriptors are not where they should be.
InitCPUMem ==
  /\ At("cpu")
  /\ Go("hal") \/ TearDownThen("exit")
  /\ UNCHANGED kernelVars

\* initHal: the TAP device fails, or the disk options are malformed, for which
\* halDiskInit itself tears down before main does.
InitHal ==
  /\ At("hal")
  /\ Go("ready") \/ TearDownThen("exit") \/ TearDownThen("again")
  /\ UNCHANGED kernelVars

\* executeLinux goes on only with plex86State ready.
ExecuteLinux ==
  /\ At("ready")
  /\ IF prog.bits = {"MemAllocated", "MemRegistered"} THEN Go("loop") ELSE TearDownThen("exit")
  /\ UNCHANGED kernelVars

----------------------------------------------------------------------------
(* executeLoop. *)

\* halNetReadPacketToGuest writes to the receive area when the counts differ.
NetCheck ==
  /\ At("loop")
  /\ \/ Go("execute")
     \/ /\ prog.rx
        /\ prog' = [prog EXCEPT !.pc = "execute", !.deadWrite = @ \/ prog.mem # "live"]
  /\ UNCHANGED kernelVars

\* ioctl(PLEX86_EXECUTE); without a descriptor it fails, and the loop is left.
Execute ==
  /\ At("execute")
  /\ \/ prog.fd /\ Go("ioctl") /\ (ExecuteFirst \/ ExecuteResume)
     \/ ~prog.fd /\ Go("failed") /\ UNCHANGED kernelVars

\* The ioctl returns, with a request or with an error.
IoctlReturns(req) == prog.pc = "ioctl" /\ ReturnToUser(req) /\ Go("dispatch")
IoctlFails == prog.pc = "ioctl" /\ LeaveByPanic /\ Go("failed")

\* Fault: a HAL call is taken for a Bogus.
Dispatch_CallIgnored ==
  /\ At("dispatch")
  /\ Go("loop")
  /\ UNCHANGED kernelVars
\* The switch on monitorState.request.
Dispatch ==
  /\ At("dispatch")
  /\ Go(IF vm.monReq = "HalCall" THEN "halcall" ELSE "loop")
  /\ UNCHANGED kernelVars

\* Out of the loop: executeLinux tears down, and so does main afterwards.
ExecuteFailed ==
  /\ At("failed")
  /\ TearDownThen("again")
  /\ UNCHANGED kernelVars

\* halCall: answered, with the network's receive area registered or not; a
\* number it does not know; an error of the network or the console (tear down
\* and exit) or of the disk (tear down and return as if answered).
HalCallDone(registers) ==
  /\ At("halcall")
  /\ prog' = [prog EXCEPT !.pc = "loop", !.rx = @ \/ registers]
  /\ UNCHANGED kernelVars

HalCallUnknown ==
  /\ At("halcall")
  /\ Go("failed")
  /\ UNCHANGED kernelVars

\* Fault: their errors return to the loop, too.
HalDeviceError_Returns ==
  /\ At("halcall")
  /\ TearDownThen("loop")
  /\ UNCHANGED kernelVars
HalDeviceError ==
  /\ At("halcall")
  /\ TearDownThen("exit")
  /\ UNCHANGED kernelVars

HalDiskError ==
  /\ At("halcall")
  /\ prog' = [prog EXCEPT !.pc = "unregister", !.k = "loop", !.diskError = TRUE]
  /\ UNCHANGED kernelVars

----------------------------------------------------------------------------
(* plex86TearDown. *)

\* Back in the caller; "again" is main's own call after executeLinux's.
Return ==
  IF prog.k = "again" THEN [prog EXCEPT !.pc = "unregister", !.k = "exit"]
                      ELSE [prog EXCEPT !.pc = prog.k]

\* Fault: the memory is freed before the kernel is told.
TD_Unregister_FreesFirst ==
  /\ At("unregister")
  /\ IF ~prog.fd THEN Go("free") /\ UNCHANGED kernelVars
     ELSE IF vm.fd # "open" THEN prog' = Return /\ UNCHANGED kernelVars
     ELSE UnregisterMem /\ prog' = [prog EXCEPT !.pc = "clearReg", !.mem = "freed"]
\* ioctl(PLEX86_UNREGISTER_MEMORY) fails on a descriptor already closed.
TD_Unregister ==
  /\ At("unregister")
  /\ IF ~prog.fd THEN Go("free") /\ UNCHANGED kernelVars
     ELSE IF vm.fd # "open" THEN prog' = Return /\ UNCHANGED kernelVars
     ELSE UnregisterMem /\ Go("clearReg")

TD_ClearReg ==
  /\ At("clearReg")
  /\ prog' = [prog EXCEPT !.pc = "teardown", !.bits = @ \ {"MemRegistered"}]
  /\ UNCHANGED kernelVars

TD_Teardown ==
  /\ At("teardown")
  /\ Teardown /\ Go("close")

\* close(), which is the last one, and the record of it.
TD_Close ==
  /\ At("close")
  /\ Release /\ Go("clearFD")

\* Fault: plex86FD keeps the number.
TD_ClearFD_Kept ==
  /\ At("clearFD")
  /\ Go("free")
  /\ UNCHANGED kernelVars
TD_ClearFD ==
  /\ At("clearFD")
  /\ prog' = [prog EXCEPT !.pc = "free", !.fd = FALSE]
  /\ UNCHANGED kernelVars

TD_Free ==
  /\ At("free")
  /\ IF "MemAllocated" \in prog.bits
     THEN prog' = [prog EXCEPT !.pc = "clearMem",
                               !.mem = IF @ = "freed" THEN "freedTwice" ELSE "freed"]
     ELSE prog' = Return
  /\ UNCHANGED kernelVars

\* Fault: plex86State keeps its bit.
TD_ClearMem_BitKept ==
  /\ At("clearMem")
  /\ prog' = Return
  /\ UNCHANGED kernelVars
TD_ClearMem ==
  /\ At("clearMem")
  /\ prog' = [Return EXCEPT !.bits = {}]
  /\ UNCHANGED kernelVars

TearDown ==
  \/ TD_Unregister \/ TD_ClearReg \/ TD_Teardown \/ TD_Close \/ TD_ClearFD
  \/ TD_Free \/ TD_ClearMem

----------------------------------------------------------------------------
(* Signals and the end of the process. *)

SigInt ==
  /\ prog.sig = "none" /\ prog.pc \notin {"args", "alloc", "exited"}
  /\ prog' = [prog EXCEPT !.sig = "pending"]
  /\ UNCHANGED kernelVars

\* myCtrlCHandler starts.
CtrlCHandler ==
  /\ prog.sig = "pending" /\ prog.pc \notin {"ioctl", "exited"}
  /\ prog' = [prog EXCEPT !.sig = "taken", !.pc = "unregister", !.k = "exit",
                          !.raced = prog.pc = "clearMem"]
  /\ UNCHANGED kernelVars

\* exit, or SIGKILL at any point of user code: the kernel closes the device.
ProcessEnds ==
  /\ Go("exited")
  /\ IF vm.fd = "open" THEN Release ELSE UNCHANGED kernelVars
Exit == prog.pc = "exit" /\ ProcessEnds
SigKill == prog.pc \notin {"exited", "ioctl"} /\ ProcessEnds

----------------------------------------------------------------------------
LinuxInit ==
  /\ Init
  /\ prog = [ pc |-> "args", k |-> "exit", fd |-> FALSE, bits |-> {}, mem |-> "none",
              loaded |-> 0, sig |-> "none", raced |-> FALSE, rx |-> FALSE,
              diskError |-> FALSE, deadWrite |-> FALSE ]

StartUp ==
  \/ CheckArgs \/ AllocMemory \/ OpenFD \/ FDAssigned \/ LinuxVMMode \/ RegisterMemory
  \/ Registered \/ CpuInfo \/ LoadImage \/ InitCPUMem \/ InitHal \/ ExecuteLinux

\* What the VM may do in the ioctl, and how a HAL call may end, seen from the program.
InIoctl ==
  \/ \E req \in Resumable : IoctlReturns(req)
  \/ IoctlFails
  \/ InterruptRedirected /\ UNCHANGED prog
HalCallEnds ==
  \/ \E registers \in BOOLEAN : HalCallDone(registers)
  \/ HalCallUnknown \/ HalDeviceError \/ HalDiskError

LinuxNext ==
  \/ StartUp \/ NetCheck \/ Execute \/ InIoctl \/ Dispatch \/ HalCallEnds \/ ExecuteFailed
  \/ TearDown \/ SigInt \/ CtrlCHandler \/ Exit \/ SigKill

LinuxSpec == LinuxInit /\ [][LinuxNext]_linuxVars

----------------------------------------------------------------------------
(* Properties. *)

\* plex86TearDown frees guest memory when the kernel module has let go of it:
\* whatever the program was interrupted in, no memory that was given back to
\* malloc is still mapped under a VM.
FreedMemoryNotHeld ==
  prog.mem \in {"freed", "freedTwice"} => vm.ptrs = {} /\ ~vm.phyMemAddr /\ ~inMonitor

\* However the program ends, by an error of its own, by SIGINT in the middle of
\* a teardown or by SIGKILL, the kernel has got back everything it had given to
\* the VM, once: every page and every pin.
EverythingGivenBack ==
  prog.pc = "exited" /\ vm.fd # "oops" =>
    vm.fd = "closed" /\ \A i \in Items : vm.held[i] = 0

\* executeLinux looks at its own plex86State, hostIoctlExecute at vmState.  When
\* the loop is about to execute with a descriptor, the VM is complete and not
\* panicked, and its request is one execute can go on from: the ioctl is
\* never refused.
ExecuteFindsReady ==
  prog.pc = "execute" /\ prog.fd =>
    /\ vm.fd = "open" /\ vm.vmState = Ready
    /\ vm.monReq \in Resumable \cup {"None"}

\* plex86TearDown is called up to three times (halDiskCall, executeLinux, main)
\* and once more by the handler, at any point of the others.  It frees twice
\* only if the handler comes between free and the assignment that records it.
FreedOnce == prog.mem = "freedTwice" => prog.raced

\* halnet.c:55, "a conviences pointer directly into the guest physical
\* memory": the loop writes through it after plex86TearDown only behind
\* halDiskCall, which tears down and lets the loop go on.
DeadWriteOnlyAfterDiskError == prog.deadWrite => prog.diskError
============================================================================
