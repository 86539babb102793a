----------------------------- MODULE PlexSystem -----------------------------
(***************************************************************************)
(* A running VM as a whole: the user program (LinuxVM) with the kernel     *)
(* module under it, the monitor's exits to the host (MonitorLog), and a    *)
(* guest that uses the HAL disk (HalDisk) and makes other HAL calls.       *)
(*                                                                         *)
(* The guest and the monitor run only between __host2mon and __mon2host.   *)
(* An exit goes through the monitor's request, the return of the ioctl and *)
(* the program's switch on it; the disk is the program's answer to a HAL   *)
(* call, and the guest goes on when the next ioctl has entered the monitor *)
(* again.  SIGINT and SIGKILL come at any time.                            *)
(***************************************************************************)
EXTENDS LinuxVM, HalDisk, MonitorLog

CONSTANT QuietDisk   \* bound: see Talks and NotPrinted; FALSE is the whole system

ASSUME QuietAssumption == QuietDisk \in BOOLEAN

VARIABLE other   \* a HAL call of the guest that is not the disk's

sysVars == <<linuxVars, diskVars, logVars, other>>

DeviceCalls == {"netRegister", "netTx", "console"}
OtherCalls == DeviceCalls \cup {"none", "unknown"}

\* The processor is in the guest or in the monitor's code that serves it.
InGuest == inMonitor /\ mon.pc = "guest"

\* With QuietDisk the monitor prints, and the guest calls on other devices, only before
\* the disk driver is loaded for the first time; where the monitor has printed it is not.
Talks ==
  /\ InGuest
  /\ QuietDisk => drv.loaded = "no" /\ fileNo = "none"
NotPrinted == QuietDisk /\ drv.loaded = "no" => userLog = Empty /\ ~log.locked

----------------------------------------------------------------------------
(* The guest and the monitor. *)

GuestStep ==
  /\ InGuest
  /\ DriverStep \/ DiskUsers \/ StaleTimerExpires
  /\ UNCHANGED <<linuxVars, logVars, other>>

GuestDiskCall ==
  /\ InGuest
  /\ NotPrinted
  /\ DiskGuestCalls
  /\ ToHostCall("HalCall")
  /\ UNCHANGED <<linuxVars, other>>

\* Another device of the HAL, or a number that is none.  The disk driver runs with
\* interrupts off.
GuestOtherCall(c) ==
  /\ Talks /\ GuestRuns /\ drv.pc = "none"
  /\ other' = c
  /\ ToHostCall("HalCall")
  /\ UNCHANGED <<linuxVars, diskVars>>

\* The monitor gives the program an opportunity to see to the HAL.
BogusPass ==
  /\ Talks
  /\ ToHostCall("Bogus")
  /\ UNCHANGED <<linuxVars, diskVars, other>>

MonitorPrints ==
  /\ Talks
  /\ LogEvent
  /\ UNCHANGED <<linuxVars, diskVars, other>>

MonitorGoesOn ==
  /\ inMonitor
  /\ LogStep
  /\ UNCHANGED <<linuxVars, diskVars, other>>

----------------------------------------------------------------------------
(* hostIoctlExecute behind __host2mon. *)

\* Fault: hostOSIdle does not look at signals.
Interrupt_NoSignal ==
  /\ prog.pc = "ioctl"
  /\ HandleInt
  /\ InterruptRedirected /\ UNCHANGED prog
  /\ UNCHANGED <<diskVars, other>>
\* A hardware interrupt.  hostOSIdle lets the VM go on unless a signal waits:
\* SIGINT, or the SIGIO of a packet.
Interrupt ==
  /\ prog.pc = "ioctl"
  /\ HandleInt
  /\ \/ IoctlReturns("Redirect")
     \/ prog.sig # "pending" /\ InterruptRedirected /\ UNCHANGED prog
  /\ UNCHANGED <<diskVars, other>>

RequestServed ==
  /\ SwitchToHost
  /\ IF mon.req = "Panic" THEN IoctlFails ELSE IoctlReturns(mon.req)
  /\ UNCHANGED <<diskVars, other>>

\* A page the guest needs cannot be pinned.
PinFails ==
  /\ InGuest
  /\ IoctlFails
  /\ UNCHANGED <<diskVars, logVars, other>>

----------------------------------------------------------------------------
(* The program. *)

\* When the program begins to tear down or is gone, the guest and its monitor are
\* never entered again.
GivesUp == prog'.pc \in {"unregister", "exited"}
GuestKept == UNCHANGED <<diskVars, logVars, other>>
GuestGone == GuestLost /\ MonitorLost /\ other' = "none"

EnterMonitor ==
  /\ Execute
  /\ IF inMonitor' THEN BackInMonitor ELSE UNCHANGED logVars
  /\ UNCHANGED <<diskVars, other>>

DispatchRequest ==
  /\ Dispatch
  /\ IF vm.monReq = "FlushPrintBuf" THEN PrintUserLog ELSE UNCHANGED logVars
  /\ UNCHANGED <<diskVars, other>>

\* halCall.
ServeDisk ==
  /\ other = "none"
  /\ DiskCall
  /\ HalCallDone(FALSE)
  /\ UNCHANGED <<logVars, other>>

\* The receive area is registered once, and only then packets are taken.
ServeOther ==
  /\ other \in DeviceCalls
  /\ other = "netRegister" => ~prog.rx
  /\ other = "netTx" => prog.rx
  /\ HalCallDone(other = "netRegister")
  /\ other' = "none"
  /\ UNCHANGED <<diskVars, logVars>>

ServeUnknown ==
  /\ other = "unknown"
  /\ HalCallUnknown
  /\ GuestKept

ServeFails ==
  /\ \/ other = "none" /\ DiskCallFails /\ HalDiskError
     \/ other \in DeviceCalls /\ HalDeviceError
  /\ GuestGone

ProgramStep ==
  /\ StartUp \/ NetCheck \/ ExecuteFailed \/ TearDown \/ CtrlCHandler \/ Exit
  /\ IF GivesUp THEN GuestGone ELSE GuestKept

Signal ==
  /\ SigInt \/ SigKill
  /\ IF GivesUp THEN GuestGone ELSE GuestKept

Program ==
  \/ ProgramStep \/ EnterMonitor \/ DispatchRequest
  \/ ServeDisk \/ ServeOther \/ ServeUnknown \/ ServeFails

----------------------------------------------------------------------------
SysInit == LinuxInit /\ DiskInit /\ LogInit /\ other = "none"

SysNext ==
  \/ GuestStep \/ GuestDiskCall \/ BogusPass \/ MonitorPrints \/ MonitorGoesOn
  \/ \E c \in OtherCalls \ {"none"} : GuestOtherCall(c)
  \/ Interrupt \/ RequestServed \/ PinFails
  \/ Program \/ Signal

SysSpec == SysInit /\ [][SysNext]_sysVars

\* The program and the monitor run; an interrupt comes (the host has a timer); and
\* a guest that is entered again and again gets on with its request queue.
QueueAdvances ==
  \/ GuestDiskCall
  \/ /\ InGuest
     /\ DriverRuns \/ RunQueue \/ TimerExpires
     /\ UNCHANGED <<linuxVars, logVars, other>>
Fairness ==
  /\ WF_sysVars(Program)
  /\ WF_sysVars(RequestServed)
  /\ WF_sysVars(MonitorGoesOn)
  /\ WF_sysVars(prog.sig = "pending" /\ Interrupt)
  /\ SF_sysVars(QueueAdvances)

FairSpec == SysSpec /\ Fairness

----------------------------------------------------------------------------
(* Properties. *)

SysTypeOK ==
  /\ prog \in ProgType
  /\ DiskTypeOK
  /\ LogTypeOK
  /\ other \in OtherCalls

\* myCtrlCHandler is the only orderly way to stop a VM.  Wherever SIGINT finds
\* the program, in the guest, in a HAL call, in a plex86TearDown under way, it
\* ends, and the device is closed.
InterruptEnds == prog.sig = "pending" ~> prog.pc = "exited" /\ vm.fd # "open"

\* A process of the guest that waits for the disk is woken, unless the VM is
\* given up or a timer left by halDisk_cleanup crashes the guest: no order of HAL
\* calls, timer, queue and signals leaves the driver waiting for something nobody
\* will do.
AwaitedEnds ==
  \A b \in Bufs : ~Req[b].ahead =>
    (result[b] = "pending" ~> result[b] # "pending" \/ drv.pc = "oops")

\* A HAL call is an exit to the program and an entry: when the guest goes on,
\* the call it made has been answered.
CallsAnswered == InGuest => call = NoCall /\ other = "none"
============================================================================
