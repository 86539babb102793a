-------------------------- MODULE PlexSystemProofs --------------------------
(***************************************************************************)
(* Proofs about the whole: what is proved of the program, of the kernel    *)
(* module and of the disk holds of the VM they form, and the protocol of   *)
(* exits, requests and prints between them keeps its promises.             *)
(***************************************************************************)
EXTENDS PlexSystem, LinuxVMProofs, HalDiskProofs

LEMMA SysStepIsLinuxStep == [SysNext]_sysVars => [LinuxNext]_linuxVars
  <1> USE DEF sysVars, linuxVars
  <1>1. ASSUME \/ GuestStep \/ GuestDiskCall \/ BogusPass \/ MonitorPrints \/ MonitorGoesOn
               \/ \E c \in OtherCalls \ {"none"} : GuestOtherCall(c)
               \/ UNCHANGED sysVars
        PROVE  UNCHANGED linuxVars
    BY <1>1 DEF GuestStep, GuestDiskCall, BogusPass, MonitorPrints, MonitorGoesOn, GuestOtherCall
  <1>2. ASSUME Interrupt \/ RequestServed \/ PinFails PROVE LinuxNext
    BY <1>2 DEF Interrupt, RequestServed, PinFails, LinuxNext, InIoctl, IoctlReturns, ReturnToUser,
                Resumable
  <1>3. ASSUME Program \/ Signal PROVE LinuxNext
    BY <1>3 DEF Program, Signal, ProgramStep, EnterMonitor, DispatchRequest, ServeDisk, ServeOther,
                ServeUnknown, ServeFails, LinuxNext, HalCallEnds
  <1>4. QED BY <1>1, <1>2, <1>3 DEF SysNext

LEMMA SysStepIsDiskStep == [SysNext]_sysVars => [DiskNext]_diskVars
  <1> USE DEF sysVars, diskVars
  <1>1. ASSUME GuestStep \/ GuestDiskCall PROVE DiskNext
    BY <1>1 DEF GuestStep, GuestDiskCall, DiskNext
  <1>2. ASSUME \/ BogusPass \/ MonitorPrints \/ MonitorGoesOn
               \/ \E c \in OtherCalls \ {"none"} : GuestOtherCall(c)
               \/ Interrupt \/ RequestServed \/ PinFails
               \/ UNCHANGED sysVars
        PROVE  UNCHANGED diskVars
    BY <1>2 DEF BogusPass, MonitorPrints, MonitorGoesOn, GuestOtherCall, Interrupt, RequestServed,
                PinFails
  <1>3. ASSUME Program \/ Signal PROVE [DiskNext]_diskVars
    BY <1>3 DEF Program, Signal, ProgramStep, EnterMonitor, DispatchRequest, ServeDisk, ServeOther,
                ServeUnknown, ServeFails, GuestKept, GuestGone, DiskNext
  <1>4. QED BY <1>1, <1>2, <1>3 DEF SysNext

\* The composition runs the program as LinuxVM says, whatever guest, monitor and
\* signals do; so all that is proved there holds in the whole.
THEOREM SystemRunsProgram == SysSpec => LinuxSpec
  <1>1. SysInit => LinuxInit
    BY DEF SysInit
  <1>2. QED BY <1>1, SysStepIsLinuxStep, PTL DEF SysSpec, LinuxSpec

\* And the disk as HalDisk says.
THEOREM SystemRunsDisk == SysSpec => DiskSpec
  <1>1. SysInit => DiskInit
    BY DEF SysInit
  <1>2. QED BY <1>1, SysStepIsDiskStep, PTL DEF SysSpec, DiskSpec

----------------------------------------------------------------------------
Flushing == {"printed", "retry", "panicFlushed"}

\* The processor is in the program's loop with a print to show.
ToShow == prog.pc = "dispatch" /\ vm.monReq = "FlushPrintBuf"

\* The interrupt flag: off from the CLI of a toHost call until its return.
ExitHonest ==
  /\ mon.pc = "switch" =>
       /\ inMonitor /\ ~mon.intr /\ mon.req = mon.want
       /\ mon.req = "FlushPrintBuf" <=> mon.after \in Flushing
  /\ inMonitor /\ mon.pc # "switch" => mon.intr
  /\ ToShow => ~mon.intr /\ mon.pc \in Flushing

\* What is known of the log where mon_vprint and monpanic are, or go on.
LogAt(p) ==
  /\ p = "guest" => ~mon.panicking /\ (log.locked => mon.msg = "long")
  /\ p = "printed" => mon.msg \in Fitting /\ (mon.panicking => mon.msg = "panic")
  /\ p = "retry" => ~mon.panicking /\ mon.msg = "long"
  /\ p = "panicFlushed" => mon.panicking /\ (log.locked => mon.msg = "long")
  /\ p \in {"panicEnd", "dead"} => shown = "panic" \/ mon.msg = "long"

LogHonest ==
  /\ LogAt(mon.pc)
  /\ mon.pc = "switch" => LogAt(mon.after)
  /\ mon.pc = "switch" /\ mon.after = "printed" => log.text = mon.msg
  /\ mon.pc = "printed" => IF ToShow THEN userLog = mon.msg ELSE shown = mon.msg

\* Where a HAL call is on its way.
CallHonest ==
  /\ call # NoCall \/ other # "none" =>
       \/ mon.pc = "switch" /\ mon.req = "HalCall"
       \/ prog.pc = "dispatch" /\ vm.monReq = "HalCall"
       \/ prog.pc \in {"halcall", "failed"}
  /\ other # "none" => call = NoCall

SysInv ==
  /\ LogTypeOK
  /\ other \in OtherCalls
  /\ ExitHonest
  /\ LogHonest
  /\ CallHonest

----------------------------------------------------------------------------
\* A guest step that is not a call makes none.
LEMMA GuestStepCalls ==
  ASSUME GuestStep
  PROVE  UNCHANGED <<linuxVars, logVars, other, call>>
  BY DEF GuestStep, DriverStep, DriverRuns, DiskUsers, StaleTimerExpires, StaleTimerFaults,
         StaleTimerRuns, HalDiskInterrupt,
         ModuleReady, ModuleGone, PartitionsRead, RunQueue, QueueEmpty, UnknownDevice,
         TransferRefused, TransferBegins, SectorDone, TransferEnds, EndNow, EndByTimer, TimerExpires,
         DiskOpen, DiskRelease, Revalidate, Submit

\* A toHost... call: CLI and the request, with the host still to be entered.
LEMMA RaisingFields ==
  ASSUME mon \in MonType,
         NEW req \in {"FlushPrintBuf", "HalCall", "Bogus", "Panic"},
         NEW after \in {"guest", "printed", "retry", "panicFlushed", "dead"}
  PROVE  LET m == Raising(req, after) IN
         /\ m \in MonType
         /\ m.pc = "switch" /\ m.after = after /\ m.req = req /\ m.want = req /\ ~m.intr
         /\ m.msg = mon.msg /\ m.panicking = mon.panicking
  BY DEF MonType, Raising

\* The monitor, inside the VM, raises a request.
LEMMA RaisesInv ==
  ASSUME SysInv, UNCHANGED linuxVars, inMonitor, prog.pc = "ioctl",
         NEW req \in {"FlushPrintBuf", "HalCall", "Bogus", "Panic"},
         NEW after \in {"guest", "printed", "retry", "panicFlushed", "dead"},
         req = "FlushPrintBuf" <=> after \in Flushing,
         mon' \in MonType,
         mon'.pc = "switch", mon'.after = after, mon'.req = req, mon'.want = req, ~mon'.intr,
         LogAt(after)',
         after = "printed" => log'.text = mon'.msg,
         log' \in [locked : BOOLEAN, text : Fitting \cup {Empty}],
         UNCHANGED <<userLog, shown>>,
         other' \in OtherCalls,
         call' # NoCall \/ other' # "none" => req = "HalCall",
         other' # "none" => call' = NoCall
  PROVE  SysInv'
  <1>1. LogTypeOK' /\ other' \in OtherCalls
    BY DEF SysInv, LogTypeOK
  <1>2. inMonitor' /\ prog'.pc = "ioctl"
    BY DEF linuxVars
  <1>3. ExitHonest'
    BY <1>2 DEF ExitHonest, ToShow
  <1>4. LogHonest'
    BY <1>2 DEF LogHonest, LogAt
  <1>5. CallHonest'
    BY DEF CallHonest
  <1>6. QED BY <1>1, <1>3, <1>4, <1>5 DEF SysInv

\* The guest calls, or the monitor passes control on its own.
LEMMA GuestCallsInv ==
  ASSUME SysInv, LinuxInv,
         GuestDiskCall \/ BogusPass \/ \E c \in OtherCalls \ {"none"} : GuestOtherCall(c)
  PROVE  SysInv'
  <1>1. /\ InGuest /\ UNCHANGED <<linuxVars, log, userLog, shown>>
        /\ mon \in MonType /\ log \in [locked : BOOLEAN, text : Fitting \cup {Empty}]
    BY DEF SysInv, LogTypeOK, GuestDiskCall, BogusPass, GuestOtherCall, Talks, ToHostCall
  <1>2. inMonitor /\ prog.pc = "ioctl" /\ call = NoCall /\ other = "none" /\ mon.pc = "guest"
    BY <1>1 DEF InGuest, LinuxInv, DescriptorHonest, SysInv, CallHonest
  <1>3. /\ ~mon.panicking /\ (log.locked => mon.msg = "long")
    BY <1>2 DEF SysInv, LogHonest, LogAt
  <1>4. PICK req \in {"HalCall", "Bogus"} :
          /\ mon' = Raising(req, "guest")
          /\ other' \in OtherCalls
          /\ call' # NoCall \/ other' # "none" => req = "HalCall"
          /\ other' # "none" => call' = NoCall
    <2>1. CASE GuestDiskCall
      BY <1>2, <2>1 DEF GuestDiskCall, ToHostCall, OtherCalls
    <2>2. CASE BogusPass
      BY <1>2, <2>2 DEF BogusPass, ToHostCall, diskVars, OtherCalls
    <2>3. CASE \E c \in OtherCalls \ {"none"} : GuestOtherCall(c)
      BY <1>2, <2>3 DEF GuestOtherCall, ToHostCall, diskVars
    <2>4. QED BY <2>1, <2>2, <2>3
  <1>5. /\ mon' \in MonType
        /\ mon'.pc = "switch" /\ mon'.after = "guest" /\ mon'.req = req /\ mon'.want = req
        /\ ~mon'.intr /\ mon'.msg = mon.msg /\ mon'.panicking = mon.panicking
    BY <1>1, <1>4, RaisingFields
  <1>6. LogAt("guest")'
    BY <1>1, <1>3, <1>5 DEF LogAt
  <1>7. ~(req = "FlushPrintBuf") /\ ~("guest" \in Flushing)
    BY DEF Flushing
  <1>8. QED BY <1>1, <1>2, <1>4, <1>5, <1>6, <1>7, RaisesInv

\* mon_vprint and monpanic, as far as the switch.
LEMMA PrintsInv ==
  ASSUME SysInv, LinuxInv, MonitorPrints
  PROVE  SysInv'
  <1>1. /\ InGuest /\ UNCHANGED <<linuxVars, userLog, shown, other, call>>
        /\ mon \in MonType /\ log \in [locked : BOOLEAN, text : Fitting \cup {Empty}]
        /\ other \in OtherCalls
    BY DEF SysInv, LogTypeOK, MonitorPrints, Talks, LogEvent, MonPrint, MonPanic, diskVars
  <1>2. inMonitor /\ prog.pc = "ioctl" /\ call = NoCall /\ other = "none" /\ mon.pc = "guest"
    BY <1>1 DEF InGuest, LinuxInv, DescriptorHonest, SysInv, CallHonest
  <1>3. ~mon.panicking /\ (log.locked => mon.msg = "long")
    BY <1>2 DEF SysInv, LogHonest, LogAt
  <1>4. ASSUME NEW m \in {"message", "long"}, MonPrint(m) PROVE SysInv'
    <2>1. PICK after \in {"printed", "retry"} :
            /\ after = "printed" <=> m \in Fitting
            /\ mon' = [Raising("FlushPrintBuf", after) EXCEPT !.msg = m]
      BY <1>4 DEF MonPrint, Fitting
    <2>2. /\ mon' \in MonType
          /\ mon'.pc = "switch" /\ mon'.after = after /\ mon'.req = "FlushPrintBuf"
          /\ mon'.want = "FlushPrintBuf" /\ ~mon'.intr /\ mon'.msg = m
          /\ mon'.panicking = mon.panicking
      BY <1>1, <2>1, RaisingFields DEF MonType, Messages, Fitting
    <2>3. /\ log' \in [locked : BOOLEAN, text : Fitting \cup {Empty}]
          /\ m \in Fitting => log'.text = m
      BY <1>4 DEF MonPrint, Formatted
    <2>4. LogAt(after)'
      BY <1>3, <2>1, <2>2 DEF LogAt, Fitting
    <2>5. after \in Flushing
      BY DEF Flushing
    <2>6. QED BY <1>1, <1>2, <2>1, <2>2, <2>3, <2>4, <2>5, RaisesInv
  <1>5. CASE MonPanic
    <2>1. /\ mon' = [Raising("FlushPrintBuf", "panicFlushed") EXCEPT !.panicking = TRUE]
          /\ log' = log
      BY <1>5 DEF MonPanic
    <2>2. /\ mon' \in MonType
          /\ mon'.pc = "switch" /\ mon'.after = "panicFlushed" /\ mon'.req = "FlushPrintBuf"
          /\ mon'.want = "FlushPrintBuf" /\ ~mon'.intr /\ mon'.msg = mon.msg
          /\ mon'.panicking
      BY <1>1, <2>1 DEF MonType, Raising
    <2>3. LogAt("panicFlushed")' /\ "panicFlushed" \in Flushing
      BY <1>3, <2>1, <2>2 DEF LogAt, Flushing
    <2>4. QED BY <1>1, <1>2, <2>1, <2>2, <2>3, RaisesInv
  <1>6. QED BY <1>4, <1>5 DEF MonitorPrints, LogEvent

\* The monitor goes on behind a flush, in the VM and without another exit.
LEMMA StaysInMonitorInv ==
  ASSUME SysInv, LinuxInv, UNCHANGED <<linuxVars, userLog, shown, other, call>>,
         inMonitor, mon.pc # "switch",
         mon' \in MonType, mon'.pc \notin {"switch", "printed"}, mon'.intr = mon.intr,
         log' \in [locked : BOOLEAN, text : Fitting \cup {Empty}],
         LogAt(mon.pc)'
  PROVE  SysInv'
  <1>1. prog.pc = "ioctl" /\ inMonitor' /\ prog'.pc = "ioctl"
    BY DEF LinuxInv, DescriptorHonest, linuxVars
  <1>2. LogTypeOK' /\ other' \in OtherCalls
    BY DEF SysInv, LogTypeOK
  <1>3. ExitHonest' /\ LogHonest'
    BY <1>1 DEF SysInv, ExitHonest, LogHonest, ToShow
  <1>4. CallHonest'
    BY <1>1 DEF SysInv, CallHonest
  <1>5. QED BY <1>2, <1>3, <1>4 DEF SysInv

LEMMA MonitorGoesOnInv ==
  ASSUME SysInv, LinuxInv, MonitorGoesOn
  PROVE  SysInv'
  <1>1. /\ inMonitor /\ UNCHANGED <<linuxVars, userLog, shown, other, call>>
        /\ mon \in MonType /\ log \in [locked : BOOLEAN, text : Fitting \cup {Empty}]
        /\ other \in OtherCalls
    BY DEF SysInv, LogTypeOK, MonitorGoesOn, LogStep, MonPrinted, MonPrintTooLong, MonPanicPrint,
           MonPanicEnd, diskVars
  <1>2. prog.pc = "ioctl" /\ ~ToShow
    BY <1>1 DEF LinuxInv, DescriptorHonest, ToShow
  <1>3. mon.pc # "switch" => call = NoCall /\ other = "none"
    BY <1>2 DEF SysInv, CallHonest
  <1>4. CASE MonPrinted
    <2>1. mon.pc = "printed" /\ shown = mon.msg /\ (mon.panicking => mon.msg = "panic")
      BY <1>2, <1>4 DEF MonPrinted, SysInv, LogHonest, LogAt
    <2>2. PICK q \in {"panicEnd", "guest"} :
            mon' = [mon EXCEPT !.pc = q] /\ (q = "panicEnd" <=> mon.panicking)
      BY <1>1, <1>4 DEF MonPrinted, MonType
    <2>3. log' \in [locked : BOOLEAN, text : Fitting \cup {Empty}] /\ ~log'.locked
      BY <1>4 DEF MonPrinted
    <2>4. /\ mon' \in MonType /\ mon'.pc = q /\ mon'.intr = mon.intr
          /\ mon'.msg = mon.msg /\ mon'.panicking = mon.panicking
      BY <1>1, <2>2 DEF MonType
    <2>5. LogAt(mon.pc)'
      BY <1>1, <2>1, <2>2, <2>3, <2>4 DEF LogAt
    <2>6. QED BY <1>1, <2>1, <2>3, <2>4, <2>5, StaysInMonitorInv
  <1>5. CASE MonPrintTooLong
    <2>1. mon.pc = "retry" /\ mon.msg = "long" /\ ~mon.panicking
      BY <1>5 DEF MonPrintTooLong, SysInv, LogHonest, LogAt
    <2>2. mon' = [mon EXCEPT !.pc = "guest"] /\ log' = [log EXCEPT !.text = Empty]
      BY <1>5 DEF MonPrintTooLong
    <2>3. /\ mon' \in MonType /\ mon'.pc = "guest" /\ mon'.intr = mon.intr
          /\ mon'.msg = mon.msg /\ mon'.panicking = mon.panicking
          /\ log' \in [locked : BOOLEAN, text : Fitting \cup {Empty}]
      BY <1>1, <2>2 DEF MonType
    <2>4. LogAt(mon.pc)'
      BY <2>1, <2>3 DEF LogAt
    <2>5. QED BY <1>1, <2>1, <2>3, <2>4, StaysInMonitorInv
  <1>6. CASE MonPanicPrint
    <2>1. mon.pc = "panicFlushed" /\ mon.panicking /\ (log.locked => mon.msg = "long")
      BY <1>6 DEF MonPanicPrint, SysInv, LogHonest, LogAt
    <2>2. CASE log.locked
      <3>1. mon' = [mon EXCEPT !.pc = "panicEnd"] /\ log' = log
        BY <1>6, <2>2 DEF MonPanicPrint
      <3>2. /\ mon' \in MonType /\ mon'.pc = "panicEnd" /\ mon'.intr = mon.intr
            /\ mon'.msg = mon.msg
        BY <1>1, <3>1 DEF MonType
      <3>3. LogAt(mon.pc)'
        BY <2>1, <2>2, <3>1, <3>2 DEF LogAt
      <3>4. QED BY <1>1, <2>1, <3>1, <3>2, <3>3, StaysInMonitorInv
    <2>3. CASE ~log.locked
      <3>1. /\ mon' = [Raising("FlushPrintBuf", "printed") EXCEPT !.msg = "panic"]
            /\ log' = Formatted("panic")
        BY <1>6, <2>3 DEF MonPanicPrint
      <3>2. /\ mon' \in MonType
            /\ mon'.pc = "switch" /\ mon'.after = "printed" /\ mon'.req = "FlushPrintBuf"
            /\ mon'.want = "FlushPrintBuf" /\ ~mon'.intr /\ mon'.msg = "panic"
        BY <1>1, <3>1 DEF MonType, Raising, Messages, Fitting
      <3>3. /\ log' \in [locked : BOOLEAN, text : Fitting \cup {Empty}]
            /\ log'.text = mon'.msg
        BY <3>1, <3>2 DEF Formatted, Fitting
      <3>4. LogAt("printed")' /\ "printed" \in Flushing
        BY <3>2 DEF LogAt, Fitting, Flushing
      <3>5. QED BY <1>1, <1>2, <1>3, <2>1, <3>2, <3>3, <3>4, RaisesInv
    <2>4. QED BY <2>2, <2>3
  <1>7. CASE MonPanicEnd
    <2>1. mon.pc = "panicEnd" /\ (shown = "panic" \/ mon.msg = "long")
      BY <1>7 DEF MonPanicEnd, SysInv, LogHonest, LogAt
    <2>2. mon' = Raising("Panic", "dead") /\ log' = log
      BY <1>7 DEF MonPanicEnd
    <2>3. /\ mon' \in MonType
          /\ mon'.pc = "switch" /\ mon'.after = "dead" /\ mon'.req = "Panic"
          /\ mon'.want = "Panic" /\ ~mon'.intr /\ mon'.msg = mon.msg
      BY <1>1, <2>2 DEF MonType, Raising
    <2>4. LogAt("dead")' /\ "dead" \notin Flushing
      BY <1>1, <2>1, <2>3 DEF LogAt, Flushing
    <2>5. QED BY <1>1, <1>2, <1>3, <2>1, <2>2, <2>3, <2>4, RaisesInv
  <1>8. QED BY <1>4, <1>5, <1>6, <1>7 DEF MonitorGoesOn, LogStep

----------------------------------------------------------------------------
\* hostIoctlExecute: interrupts, the monitor's requests, a page that is not pinned.
LEMMA ExitsInv ==
  ASSUME SysInv, LinuxInv, LifecycleTypeOK, Interrupt \/ RequestServed \/ PinFails
  PROVE  SysInv'
  <1>1. /\ mon \in MonType /\ log \in [locked : BOOLEAN, text : Fitting \cup {Empty}]
        /\ other' = other /\ call' = call /\ prog \in ProgType /\ vm \in VMType
        /\ log' = log /\ shown' = shown
    BY DEF SysInv, LogTypeOK, LinuxInv, LifecycleTypeOK, Interrupt, RequestServed, PinFails, diskVars,
           logVars, HandleInt, SwitchToHost
  <1>2. prog.pc = "ioctl" /\ ~ToShow
    BY DEF Interrupt, RequestServed, PinFails, IoctlReturns, IoctlFails, ToShow
  <1>3. CASE Interrupt
    <2>1. mon' = [mon EXCEPT !.req = "None"] /\ mon.intr /\ userLog' = userLog
      BY <1>3 DEF Interrupt, HandleInt
    <2>2. /\ mon' \in MonType /\ mon'.pc = mon.pc /\ mon'.after = mon.after /\ mon'.intr
          /\ mon'.msg = mon.msg /\ mon'.panicking = mon.panicking
      BY <1>1, <2>1 DEF MonType
    <2>3. mon.pc # "switch"
      BY <2>1 DEF SysInv, ExitHonest
    <2>4. ~ToShow'
      BY <1>1, <1>2, <1>3 DEF Interrupt, IoctlReturns, ReturnToUser, Go, VMType, ToShow
    <2>5. LogTypeOK' /\ other' \in OtherCalls
      BY <1>1, <2>1, <2>2 DEF SysInv, LogTypeOK
    <2>6. ExitHonest'
      BY <2>2, <2>3, <2>4 DEF ExitHonest
    <2>7. LogHonest'
      BY <1>1, <1>2, <2>2, <2>3, <2>4 DEF SysInv, LogHonest, LogAt
    <2>8. CallHonest'
      BY <1>1, <1>2, <2>3 DEF SysInv, CallHonest
    <2>9. QED BY <2>5, <2>6, <2>7, <2>8 DEF SysInv
  <1>4. CASE RequestServed
    <2>1. /\ mon.pc = "switch" /\ mon' = [mon EXCEPT !.pc = mon.after]
          /\ mon.req = "FlushPrintBuf" => userLog' = log.text
          /\ mon.req # "FlushPrintBuf" => userLog' = userLog
      BY <1>4 DEF RequestServed, SwitchToHost
    <2>2. /\ mon' \in MonType /\ mon'.pc = mon.after /\ mon'.intr = mon.intr
          /\ mon'.msg = mon.msg /\ mon'.panicking = mon.panicking
          /\ mon.after \in {"guest", "printed", "retry", "panicFlushed", "dead"}
      BY <1>1, <2>1 DEF MonType
    <2>3. /\ ~mon.intr /\ LogAt(mon.after)
          /\ mon.req = "FlushPrintBuf" <=> mon.after \in Flushing
          /\ mon.after = "printed" => log.text = mon.msg
      BY <2>1 DEF SysInv, ExitHonest, LogHonest
    <2>4. /\ inMonitor' = FALSE
          /\ mon.req = "Panic" => prog'.pc = "failed"
          /\ mon.req # "Panic" => prog'.pc = "dispatch" /\ vm'.monReq = mon.req
      <3>1. CASE mon.req = "Panic"
        <4>1. inMonitor' = FALSE /\ prog' = [prog EXCEPT !.pc = "failed"]
          BY <1>4, <3>1 DEF RequestServed, IoctlFails, LeaveByPanic, Go
        <4>2. QED BY <1>1, <3>1, <4>1 DEF ProgType
      <3>2. CASE mon.req # "Panic"
        <4>1. /\ inMonitor' = FALSE /\ prog' = [prog EXCEPT !.pc = "dispatch"]
              /\ vm' = [vm EXCEPT !.monReq = mon.req]
          BY <1>4, <3>2 DEF RequestServed, IoctlReturns, ReturnToUser, Go
        <4>2. QED BY <1>1, <3>2, <4>1 DEF ProgType, VMType
      <3>3. QED BY <3>1, <3>2
    <2>5. LogTypeOK' /\ other' \in OtherCalls
      BY <1>1, <2>1, <2>2 DEF SysInv, LogTypeOK
    <2>6. ToShow' <=> mon.req = "FlushPrintBuf"
      BY <2>4 DEF ToShow
    <2>7. ExitHonest'
      BY <2>2, <2>3, <2>4, <2>6 DEF ExitHonest
    <2>8. LogAt(mon.pc)'
      BY <1>1, <2>2, <2>3 DEF LogAt
    <2>9. mon'.pc = "printed" => ToShow' /\ userLog' = mon'.msg
      BY <2>1, <2>2, <2>3, <2>6 DEF Flushing
    <2>10. LogHonest'
      BY <2>2, <2>8, <2>9 DEF LogHonest
    <2>11. CallHonest'
      BY <1>1, <1>2, <2>4 DEF SysInv, CallHonest
    <2>12. QED BY <2>5, <2>7, <2>10, <2>11 DEF SysInv
  <1>5. CASE PinFails
    <2>1. mon.pc = "guest" /\ UNCHANGED <<mon, log, userLog, shown>>
      BY <1>5 DEF PinFails, InGuest, logVars
    <2>2. inMonitor' = FALSE /\ prog' = [prog EXCEPT !.pc = "failed"]
      BY <1>5 DEF PinFails, IoctlFails, LeaveByPanic, Go
    <2>3. prog'.pc = "failed" /\ ~ToShow'
      BY <1>1, <2>2 DEF ProgType, ToShow
    <2>4. LogTypeOK' /\ other' \in OtherCalls
      BY <1>1, <2>1 DEF SysInv, LogTypeOK
    <2>5. ExitHonest' /\ CallHonest'
      BY <1>1, <2>1, <2>2, <2>3 DEF SysInv, ExitHonest, CallHonest
    <2>6. LogHonest'
      BY <1>1, <2>1 DEF SysInv, LogHonest, LogAt
    <2>7. QED BY <2>4, <2>5, <2>6 DEF SysInv
  <1>6. QED BY <1>3, <1>4, <1>5

----------------------------------------------------------------------------
\* The program, out of the ioctl, leaves the monitor's log alone.
LEMMA ProgramKeepsLog ==
  ASSUME SysInv, UNCHANGED logVars, ~inMonitor, ~inMonitor', ~ToShow, ~ToShow',
         other' \in OtherCalls,
         call' # NoCall \/ other' # "none" => prog'.pc \in {"halcall", "failed"},
         other' # "none" => call' = NoCall
  PROVE  SysInv'
  <1>1. mon.pc # "switch" /\ UNCHANGED <<mon, log, userLog, shown>>
    BY DEF SysInv, ExitHonest, logVars
  <1>2. LogTypeOK'
    BY <1>1 DEF SysInv, LogTypeOK
  <1>3. ExitHonest' /\ CallHonest'
    BY <1>1 DEF ExitHonest, CallHonest
  <1>4. LogHonest'
    BY <1>1 DEF SysInv, LogHonest, LogAt
  <1>5. QED BY <1>2, <1>3, <1>4 DEF SysInv

\* The VM is given up.
LEMMA GoneInv ==
  ASSUME SysInv, GuestGone, prog'.pc # "dispatch"
  PROVE  SysInv'
  <1>1. /\ mon' = AtRest /\ log' = [locked |-> FALSE, text |-> Empty] /\ userLog' = Empty
        /\ shown' = shown /\ call' = NoCall /\ other' = "none" /\ ~ToShow'
    BY DEF GuestGone, GuestLost, MonitorLost, ToShow
  <1>2. AtRest \in MonType /\ AtRest.pc = "guest" /\ AtRest.intr /\ ~AtRest.panicking
    BY DEF AtRest, MonType, Messages, Fitting
  <1>3. LogTypeOK' /\ other' \in OtherCalls
    BY <1>1, <1>2 DEF SysInv, LogTypeOK, OtherCalls
  <1>4. ExitHonest' /\ LogHonest' /\ CallHonest'
    BY <1>1, <1>2 DEF ExitHonest, LogHonest, LogAt, CallHonest
  <1>5. QED BY <1>3, <1>4 DEF SysInv

\* The ioctl, the switch on its result, and the HAL calls.
LEMMA LoopStepInv ==
  ASSUME SysInv, LinuxInv, LinuxInv', LifecycleTypeOK,
         \/ EnterMonitor \/ DispatchRequest \/ ServeDisk \/ ServeOther \/ ServeUnknown \/ ServeFails
  PROVE  SysInv'
  <1>1. /\ mon \in MonType /\ log \in [locked : BOOLEAN, text : Fitting \cup {Empty}]
        /\ prog \in ProgType /\ other \in OtherCalls
        /\ prog.pc # "ioctl" => ~inMonitor /\ mon.pc # "switch"
        /\ prog'.pc # "ioctl" => ~inMonitor'
    BY DEF SysInv, LogTypeOK, LinuxInv, DescriptorHonest, ExitHonest
  <1>2. CASE EnterMonitor
    <2>1. prog.pc = "execute" /\ ~inMonitor /\ mon.pc # "switch" /\ ~ToShow
      BY <1>1, <1>2 DEF EnterMonitor, Execute, At, ToShow
    <2>2. call = NoCall /\ other = "none" /\ call' = call /\ other' = other
      BY <1>2, <2>1 DEF SysInv, CallHonest, EnterMonitor, diskVars
    <2>3. PICK q \in {"ioctl", "failed"} : prog' = [prog EXCEPT !.pc = q]
      BY <1>2 DEF EnterMonitor, Execute, Go
    <2>4. prog'.pc = q /\ ~ToShow'
      BY <1>1, <2>3 DEF ProgType, ToShow
    <2>5. CASE inMonitor'
      <3>1. /\ mon' = [mon EXCEPT !.req = "None", !.want = "None", !.intr = TRUE]
            /\ UNCHANGED <<log, userLog, shown>>
        BY <1>2, <2>5 DEF EnterMonitor, BackInMonitor
      <3>2. /\ mon' \in MonType /\ mon'.pc = mon.pc /\ mon'.intr
            /\ mon'.msg = mon.msg /\ mon'.panicking = mon.panicking
        BY <1>1, <3>1 DEF MonType
      <3>3. LogTypeOK' /\ other' \in OtherCalls
        BY <2>2, <3>1, <3>2 DEF SysInv, LogTypeOK
      <3>4. ExitHonest' /\ CallHonest'
        BY <2>1, <2>2, <2>4, <3>2 DEF ExitHonest, CallHonest
      <3>5. LogHonest'
        BY <2>1, <2>4, <3>1, <3>2 DEF SysInv, LogHonest, LogAt
      <3>6. QED BY <3>3, <3>4, <3>5 DEF SysInv
    <2>6. CASE ~inMonitor'
      BY <1>1, <1>2, <2>1, <2>2, <2>4, <2>6, ProgramKeepsLog DEF EnterMonitor
    <2>7. QED BY <2>5, <2>6
  <1>3. CASE DispatchRequest
    <2>1. prog.pc = "dispatch" /\ ~inMonitor /\ mon.pc # "switch" /\ call' = call /\ other' = other
      BY <1>1, <1>3 DEF DispatchRequest, Dispatch, At, diskVars
    <2>2. PICK q \in {"halcall", "loop"} :
            prog' = [prog EXCEPT !.pc = q] /\ (vm.monReq = "HalCall" => q = "halcall")
      BY <1>3 DEF DispatchRequest, Dispatch, Go
    <2>3. prog'.pc = q /\ ~ToShow' /\ ~inMonitor'
      BY <1>1, <2>2 DEF ProgType, ToShow
    <2>4. CallHonest'
      BY <2>1, <2>2, <2>3 DEF SysInv, CallHonest
    <2>5. CASE vm.monReq = "FlushPrintBuf"
      <3>1. shown' = userLog /\ UNCHANGED <<mon, log, userLog>> /\ mon.pc \in Flushing
        BY <1>3, <2>1, <2>5 DEF DispatchRequest, PrintUserLog, SysInv, ExitHonest, ToShow
      <3>2. LogTypeOK' /\ other' \in OtherCalls
        BY <2>1, <3>1 DEF SysInv, LogTypeOK
      <3>3. ExitHonest'
        BY <2>1, <2>3, <3>1 DEF ExitHonest
      <3>4. mon.pc = "printed" => shown' = mon.msg
        BY <2>1, <2>5, <3>1 DEF SysInv, LogHonest, ToShow
      <3>5. LogHonest'
        BY <2>1, <2>3, <3>1, <3>4 DEF SysInv, LogHonest, LogAt, Flushing
      <3>6. QED BY <2>4, <3>2, <3>3, <3>5 DEF SysInv
    <2>6. CASE vm.monReq # "FlushPrintBuf"
      <3>1. UNCHANGED logVars /\ ~ToShow
        BY <1>3, <2>6 DEF DispatchRequest, ToShow
      <3>2. call' # NoCall \/ other' # "none" => prog'.pc \in {"halcall", "failed"}
        BY <2>1, <2>2, <2>3 DEF SysInv, CallHonest
      <3>3. other' # "none" => call' = NoCall
        BY <2>1 DEF SysInv, CallHonest
      <3>4. QED BY <1>1, <2>1, <2>3, <3>1, <3>2, <3>3, ProgramKeepsLog
    <2>7. QED BY <2>5, <2>6
  <1>4. CASE ServeDisk \/ ServeOther \/ ServeUnknown
    <2>1. prog.pc = "halcall" /\ UNCHANGED logVars /\ ~ToShow
      BY <1>4 DEF ServeDisk, ServeOther, ServeUnknown, HalCallDone, HalCallUnknown, At, ToShow,
                  GuestKept
    <2>2. /\ prog'.pc \in {"loop", "failed"}
          /\ ServeUnknown => prog'.pc = "failed"
      <3>1. ASSUME NEW r \in BOOLEAN, HalCallDone(r) PROVE prog'.pc = "loop"
        BY <1>1, <3>1 DEF HalCallDone, ProgType
      <3>2. HalCallUnknown => prog'.pc = "failed"
        BY <1>1 DEF HalCallUnknown, Go, ProgType
      <3>3. ServeOther => prog'.pc = "loop"
        <4> DEFINE r == other = "netRegister"
        <4>1. r \in BOOLEAN
          BY Zenon
        <4>2. ServeOther => HalCallDone(r)
          BY DEF ServeOther
        <4> HIDE DEF r
        <4>3. QED BY <3>1, <4>1, <4>2
      <3>4. ServeDisk => prog'.pc = "loop"
        BY <3>1 DEF ServeDisk
      <3>5. ServeUnknown => prog'.pc = "failed"
        BY <3>2 DEF ServeUnknown
      <3>6. QED BY <1>4, <3>3, <3>4, <3>5
    <2>3. other # "none" => call = NoCall
      BY DEF SysInv, CallHonest
    <2>4. /\ other' \in OtherCalls
          /\ other' # "none" => call' = NoCall
          /\ call' # NoCall \/ other' # "none" => prog'.pc = "failed"
      <3>1. ServeDisk => other' = "none" /\ call' = NoCall
        BY DEF ServeDisk, DiskCall, HalCallDiskGetInfo, HalCallDiskWrite, HalCallDiskRead,
               HalCallDiskCleanup, Answered
      <3>2. ServeOther => other' = "none" /\ call' = NoCall
        BY <2>3 DEF ServeOther, DeviceCalls, diskVars
      <3>3. ServeUnknown => other' = other /\ call' = call
        BY DEF ServeUnknown, GuestKept, diskVars
      <3>4. "none" \in OtherCalls
        BY DEF OtherCalls
      <3>5. QED BY <1>1, <1>4, <2>2, <2>3, <3>1, <3>2, <3>3, <3>4
    <2>5. ~inMonitor /\ ~inMonitor' /\ ~ToShow'
      BY <1>1, <2>1, <2>2 DEF ToShow
    <2>6. QED BY <2>1, <2>4, <2>5, ProgramKeepsLog
  <1>5. CASE ServeFails
    <2>1. prog'.pc = "unregister"
      BY <1>1, <1>5 DEF ServeFails, HalDiskError, HalDeviceError, TearDownThen, ProgType
    <2>2. QED BY <1>5, <2>1, GoneInv DEF ServeFails
  <1>6. QED BY <1>2, <1>3, <1>4, <1>5

\* The other steps of the program start, end or give up; none comes from the ioctl or
\* goes to its result.
LEMMA ProgramMoves ==
  ASSUME prog \in ProgType,
         StartUp \/ NetCheck \/ ExecuteFailed \/ TearDown \/ CtrlCHandler \/ Exit
  PROVE  /\ prog'.pc \notin {"dispatch", "ioctl"}
         /\ GivesUp \/ prog.pc \notin {"dispatch", "halcall", "failed", "ioctl"}
  <1> USE DEF At, Go, TearDownThen, GivesUp
  <1>1. CASE StartUp
    <2>1. prog.pc \in StartPCs
      BY <1>1 DEF StartUp, StartPCs, CheckArgs, AllocMemory, OpenFD, FDAssigned, LinuxVMMode,
                  RegisterMemory, Registered, CpuInfo, LoadImage, InitCPUMem, InitHal, ExecuteLinux
    <2>2. prog'.pc \notin {"dispatch", "ioctl"}
      <3>1. CASE LoadImage
        <4>1. prog'.pc \in {"cpu", "load", "unregister"}
          BY <3>1 DEF LoadImage, ProgType
        <4>2. QED BY <4>1
      <3>2. CASE CheckArgs \/ AllocMemory \/ OpenFD \/ FDAssigned \/ LinuxVMMode
        BY <3>2 DEF CheckArgs, AllocMemory, OpenFD, FDAssigned, LinuxVMMode, ProgType
      <3>3. CASE RegisterMemory
        <4>1. PICK q \in {"registered", "exited", "unregister"}, k \in {"loop", "again", "exit"} :
                prog' = [prog EXCEPT !.pc = q, !.k = k] \/ prog' = [prog EXCEPT !.pc = q]
          BY <3>3 DEF RegisterMemory
        <4>2. QED BY <4>1 DEF ProgType
      <3>4. CASE Registered \/ CpuInfo \/ InitCPUMem \/ InitHal \/ ExecuteLinux
        BY <3>4 DEF Registered, CpuInfo, InitCPUMem, InitHal, ExecuteLinux, ProgType
      <3>5. QED BY <1>1, <3>1, <3>2, <3>3, <3>4 DEF StartUp
    <2>3. QED BY <2>1, <2>2 DEF StartPCs
  <1>2. CASE NetCheck
    BY <1>2 DEF NetCheck, ProgType
  <1>3. CASE ExecuteFailed \/ CtrlCHandler \/ Exit
    BY <1>3 DEF ExecuteFailed, CtrlCHandler, Exit, ProcessEnds, ProgType
  <1>4. CASE TearDown
    <2>1. prog.pc \in TearDownPCs
      BY <1>4 DEF TearDown, TearDownPCs, TD_Unregister, TD_ClearReg, TD_Teardown, TD_Close,
                  TD_ClearFD, TD_Free, TD_ClearMem
    <2>2. /\ Return.pc \in {"unregister", "loop", "exit"}
          /\ [Return EXCEPT !.bits = {}].pc \in {"unregister", "loop", "exit"}
      BY DEF Return, ProgType
    <2>3. CASE TD_ClearReg \/ TD_Teardown \/ TD_Close \/ TD_ClearFD
      BY <2>1, <2>3 DEF TD_ClearReg, TD_Teardown, TD_Close, TD_ClearFD, ProgType, TearDownPCs
    <2>4. CASE TD_Unregister
      <3>1. \/ prog' = [prog EXCEPT !.pc = "free"] \/ prog' = Return
            \/ prog' = [prog EXCEPT !.pc = "clearReg"]
        BY <2>4 DEF TD_Unregister
      <3>2. QED BY <2>1, <2>2, <3>1 DEF ProgType, TearDownPCs
    <2>5. CASE TD_Free
      <3>1. \/ prog' = Return
            \/ \E m \in {"freed", "freedTwice"} :
                 prog' = [prog EXCEPT !.pc = "clearMem", !.mem = m]
        BY <2>5 DEF TD_Free
      <3>2. QED BY <2>1, <2>2, <3>1 DEF ProgType, TearDownPCs
    <2>6. CASE TD_ClearMem
      BY <2>1, <2>2, <2>6 DEF TD_ClearMem, TearDownPCs
    <2>7. QED BY <1>4, <2>3, <2>4, <2>5, <2>6 DEF TearDown
  <1>5. QED BY <1>1, <1>2, <1>3, <1>4

LEMMA ProgramInv ==
  ASSUME SysInv, LinuxInv, LinuxInv', ProgramStep \/ Signal
  PROVE  SysInv'
  <1>1. /\ prog \in ProgType /\ other \in OtherCalls
        /\ prog.pc # "ioctl" => ~inMonitor
        /\ prog'.pc # "ioctl" => ~inMonitor'
    BY DEF SysInv, LinuxInv, DescriptorHonest
  <1>2. CASE GivesUp
    <2>1. GuestGone /\ prog'.pc # "dispatch"
      BY <1>2 DEF ProgramStep, Signal, GivesUp
    <2>2. QED BY <2>1, GoneInv
  <1>3. CASE ~GivesUp
    <2>1. UNCHANGED <<diskVars, logVars, other>>
      BY <1>3 DEF ProgramStep, Signal, GuestKept
    <2>2. CASE ProgramStep
      <3>1. /\ prog'.pc \notin {"dispatch", "ioctl"}
            /\ prog.pc \notin {"dispatch", "halcall", "failed", "ioctl"}
        BY <1>1, <1>3, <2>2, ProgramMoves DEF ProgramStep
      <3>2. ~inMonitor /\ ~inMonitor' /\ ~ToShow /\ ~ToShow' /\ mon.pc # "switch"
        BY <1>1, <3>1 DEF ToShow, SysInv, ExitHonest
      <3>3. call' = NoCall /\ other' = "none"
        BY <2>1, <3>1, <3>2 DEF SysInv, CallHonest, diskVars
      <3>4. QED BY <1>1, <2>1, <3>2, <3>3, ProgramKeepsLog
    <2>3. CASE SigInt
      <3>1. prog'.pc = prog.pc /\ inMonitor' = inMonitor /\ vm' = vm
        BY <1>1, <2>3 DEF SigInt, ProgType, kernelVars
      <3>2. UNCHANGED <<mon, log, userLog, shown, other, call>>
        BY <2>1 DEF logVars, diskVars
      <3>3. ToShow' <=> ToShow
        BY <3>1 DEF ToShow
      <3>4. LogTypeOK' /\ other' \in OtherCalls
        BY <3>2 DEF SysInv, LogTypeOK
      <3>5. ExitHonest' /\ CallHonest'
        BY <3>1, <3>2, <3>3 DEF SysInv, ExitHonest, CallHonest
      <3>6. LogHonest'
        BY <3>2, <3>3 DEF SysInv, LogHonest, LogAt
      <3>7. QED BY <3>4, <3>5, <3>6 DEF SysInv
    <2>4. CASE SigKill
      BY <1>1, <1>3, <2>4 DEF SigKill, ProcessEnds, Go, GivesUp, ProgType
    <2>5. QED BY <2>2, <2>3, <2>4 DEF Signal
  <1>4. QED BY <1>2, <1>3

----------------------------------------------------------------------------
LEMMA SysNextInv ==
  SysInv /\ LinuxInv /\ LinuxInv' /\ LifecycleTypeOK /\ [SysNext]_sysVars => SysInv'
  <1> SUFFICES ASSUME SysInv, LinuxInv, LinuxInv', LifecycleTypeOK, [SysNext]_sysVars
               PROVE  SysInv'
    OBVIOUS
  <1>1. CASE GuestStep \/ UNCHANGED sysVars
    <2>1. UNCHANGED <<vm, inMonitor, prog, mon, log, userLog, shown, other, call>>
      BY <1>1, GuestStepCalls DEF sysVars, linuxVars, logVars, diskVars
    <2>2. LogTypeOK' /\ other' \in OtherCalls
      BY <2>1 DEF SysInv, LogTypeOK
    <2>3. ToShow' <=> ToShow
      BY <2>1 DEF ToShow
    <2>4. ExitHonest' /\ CallHonest'
      BY <2>1, <2>3 DEF SysInv, ExitHonest, CallHonest
    <2>5. LogHonest'
      BY <2>1, <2>3 DEF SysInv, LogHonest, LogAt
    <2>6. QED BY <2>2, <2>4, <2>5 DEF SysInv
  <1>2. QED
    BY <1>1, GuestCallsInv, PrintsInv, MonitorGoesOnInv, ExitsInv, LoopStepInv, ProgramInv
       DEF SysNext, Program

LEMMA SysInitInv == SysInit => SysInv
  <1> SUFFICES ASSUME SysInit PROVE SysInv
    OBVIOUS
  <1>1. AtRest \in MonType /\ AtRest.pc = "guest" /\ ~AtRest.panicking
    BY DEF AtRest, MonType, Messages, Fitting
  <1>2. /\ mon = AtRest /\ log = [locked |-> FALSE, text |-> Empty] /\ userLog = Empty
        /\ shown = Empty /\ call = NoCall /\ other = "none" /\ inMonitor = FALSE
        /\ prog.pc = "args"
    BY DEF SysInit, LogInit, DiskInit, LinuxInit, Init
  <1>3. LogTypeOK /\ other \in OtherCalls
    BY <1>1, <1>2 DEF LogTypeOK, OtherCalls
  <1>4. ExitHonest /\ LogHonest /\ CallHonest
    BY <1>1, <1>2 DEF ExitHonest, ToShow, LogHonest, LogAt, CallHonest
  <1>5. QED BY <1>3, <1>4 DEF SysInv

\* The protocol of exits: requests, prints and HAL calls between guest, monitor, kernel
\* module and program keep SysInv.
THEOREM SystemInvariant == SysSpec => []SysInv
  <1>1. SysSpec => []LinuxInv
    BY SystemRunsProgram, LinuxInvariant, PTL
  <1>2. SysSpec => []LifecycleTypeOK
    BY SystemRunsProgram, LinuxUsesKernel, LifecycleTypes, PTL
  <1>3. QED BY <1>1, <1>2, SysInitInv, SysNextInv, PTL DEF SysSpec

\* Every variable of the composition keeps its type.
THEOREM SystemTypes == SysSpec => []SysTypeOK
  <1>1. SysInv /\ LinuxInv /\ DiskInv => SysTypeOK
    BY DEF SysInv, LinuxInv, DiskInv, SysTypeOK
  <1>2. QED BY <1>1, SystemInvariant, SystemRunsProgram, LinuxInvariant, SystemRunsDisk,
               DiskInvariant, PTL

\* No interrupt changes the request between a toHost... call's CLI and the host.
THEOREM RequestReachesHost == SysSpec => []RequestIsOwn
  <1>1. SysInv => RequestIsOwn
    BY DEF SysInv, ExitHonest, RequestIsOwn
  <1>2. QED BY <1>1, SystemInvariant, PTL

\* What mon_vprint flushed has been printed when it goes on; the log falls silent only
\* behind a message too long for it, and so does a panic.
THEOREM PrintsAreShown == SysSpec => []SilentOnlyAfterTooLong
  <1>1. SysInv => SilentOnlyAfterTooLong
    <2> SUFFICES ASSUME SysInv PROVE SilentOnlyAfterTooLong
      OBVIOUS
    <2>1. mon.pc = "printed" /\ mon.intr => shown = mon.msg
      BY DEF SysInv, LogHonest, ExitHonest
    <2>2. /\ mon.pc = "guest" /\ log.locked => mon.msg = "long"
          /\ mon.pc \in {"panicEnd", "dead"} => shown = "panic" \/ mon.msg = "long"
      BY DEF SysInv, LogHonest, LogAt
    <2>3. QED BY <2>1, <2>2 DEF SilentOnlyAfterTooLong
  <1>2. QED BY <1>1, SystemInvariant, PTL

\* A guest that goes on has had its HAL call answered.
THEOREM CallsAreAnswered == SysSpec => []CallsAnswered
  <1>1. SysInv /\ LinuxInv => CallsAnswered
    BY DEF SysInv, LinuxInv, DescriptorHonest, CallHonest, InGuest, CallsAnswered
  <1>2. QED BY <1>1, SystemInvariant, SystemRunsProgram, LinuxInvariant, PTL

\* What is proved of the program and of the disk holds in the whole VM, where both wait
\* for exits, interrupts and each other.
THEOREM SystemKeepsParts ==
  SysSpec => [](/\ FreedMemoryNotHeld /\ ExecuteFindsReady /\ FreedOnce
                /\ DeadWriteOnlyAfterDiskError /\ BusyMeansTimer /\ EverythingGivenBack)
  BY SystemRunsProgram, FreedIsNotHeld, ExecuteIsAccepted, FreesOnce, DeadWritesExplained,
     LinuxLeaksNothing, SystemRunsDisk, BusyIsTimer, PTL

\* The VM as a whole gives the guest a block device, on disks whose byte offsets fit in 32
\* bits, and end_request agrees with what has been moved: the answer to a sector's call
\* comes through the monitor's exit, the ioctl's return and the program's dispatch, any of
\* which may be cut short by the end of the VM.
THEOREM SystemIsBlockDevice == SmallDisk /\ SysSpec => DeviceSpec /\ WholeOrNothing
  <1> SUFFICES ASSUME SmallDisk PROVE SysSpec => DeviceSpec /\ WholeOrNothing
    OBVIOUS
  <1>1. (DiskSpec => DeviceSpec) /\ (DiskSpec => WholeOrNothing)
    BY DiskIsBlockDevice, EndedWhole
  <1>2. QED BY <1>1, SystemRunsDisk, PTL
============================================================================
