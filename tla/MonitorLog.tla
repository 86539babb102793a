----------------------------- MODULE MonitorLog -----------------------------
(***************************************************************************)
(* The monitor's way out to the host: the toHost... calls of               *)
(* monitor-space/monitor.c, the log buffer of print.c and the panics of    *)
(* panic.c.                                                                *)
(*                                                                         *)
(* A call sets mon_request and switches to the host; the monitor runs with *)
(* interrupts on, and handleInt makes a request of its own, so the two     *)
(* steps are bracketed by CLI.  mon.after is where the monitor goes on     *)
(* when the host comes back.  A message is one that fits the log buffer,   *)
(* one that does not, or the panic's.                                      *)
(***************************************************************************)
EXTENDS Integers

VARIABLES
  mon,       \* the monitor's control, see MonType
  log,       \* monLogBufferInfo and monLogBuffer
  userLog,   \* userLogBuffer, the page shared with the program
  shown      \* what the program printed last

logVars == <<mon, log, userLog, shown>>

Fitting == {"message", "panic"}
Messages == Fitting \cup {"long"}
Empty == "empty"

MonType ==
  [ pc    : {"guest", "switch", "printed", "retry", "panicFlushed", "panicEnd", "dead"},
    after : {"guest", "printed", "retry", "panicFlushed", "dead"},
    intr  : BOOLEAN,                           \* the processor's interrupt flag
    req   : {"None", "FlushPrintBuf", "HalCall", "Bogus", "Panic"},   \* mon_request
    want  : {"None", "FlushPrintBuf", "HalCall", "Bogus", "Panic"},   \* the request made
    msg   : Messages,                           \* the message being printed
    panicking : BOOLEAN ]

LogTypeOK ==
  /\ mon \in MonType
  /\ log \in [locked : BOOLEAN, text : Fitting \cup {Empty}]
  /\ userLog \in Fitting \cup {Empty}
  /\ shown \in Fitting \cup {Empty}

----------------------------------------------------------------------------
(* toHost...: save EFLAGS and CLI, set the request, switch. *)

\* Fault: interrupts stay as they are.
Raising_NoCLI(req, after) ==
  [mon EXCEPT !.pc = "switch", !.after = after, !.req = req, !.want = req]
Raising(req, after) ==
  [mon EXCEPT !.pc = "switch", !.after = after, !.req = req, !.want = req, !.intr = FALSE]

\* Where the guest's HAL call and the pass to the program after an IRET
\* enter the host.
ToHostCall(req) ==
  /\ mon.pc = "guest"
  /\ mon' = Raising(req, "guest")
  /\ UNCHANGED <<log, userLog, shown>>

\* handleInt: a hardware interrupt is handed to the host, whose loop sets
\* mon_request to None when it has been served.
HandleInt ==
  /\ mon.intr /\ mon.pc # "dead"
  /\ mon' = [mon EXCEPT !.req = "None"]
  /\ UNCHANGED <<log, userLog, shown>>

\* __mon2host, and the copy hostIoctlExecute makes for a flush.
SwitchToHost ==
  /\ mon.pc = "switch"
  /\ mon' = [mon EXCEPT !.pc = mon.after]
  /\ userLog' = IF mon.req = "FlushPrintBuf" THEN log.text ELSE userLog
  /\ UNCHANGED <<log, shown>>

\* __host2mon: the call returns and restores the interrupt flag.
BackInMonitor ==
  /\ mon' = [mon EXCEPT !.req = "None", !.want = "None", !.intr = TRUE]
  /\ UNCHANGED <<log, userLog, shown>>

\* The program prints the shared page for a FlushPrintBuf.
PrintUserLog ==
  /\ shown' = userLog
  /\ UNCHANGED <<mon, log, userLog>>

----------------------------------------------------------------------------
(* mon_vprint and monpanic. *)

\* mon_vprint with the buffer unlocked: the message is formatted and flushed,
\* or does not fit and the buffer is flushed empty.  (With the buffer locked
\* it returns at once.)  Every flush is followed by a reset, so the buffer is
\* empty on entry.
Formatted(m) == [locked |-> TRUE, text |-> IF m \in Fitting THEN m ELSE Empty]

MonPrint(m) ==
  /\ mon.pc = "guest" /\ ~log.locked
  /\ log' = Formatted(m)
  /\ mon' = [Raising("FlushPrintBuf", IF m \in Fitting THEN "printed" ELSE "retry")
               EXCEPT !.msg = m]
  /\ UNCHANGED <<userLog, shown>>

\* Back from the flush: reset and unlock.  Fault: it stays locked.
MonPrinted_StillLocked ==
  /\ mon.pc = "printed"
  /\ log' = [log EXCEPT !.text = Empty]
  /\ mon' = [mon EXCEPT !.pc = IF mon.panicking THEN "panicEnd" ELSE "guest"]
  /\ UNCHANGED <<userLog, shown>>
MonPrinted ==
  /\ mon.pc = "printed"
  /\ log' = [locked |-> FALSE, text |-> Empty]
  /\ mon' = [mon EXCEPT !.pc = IF mon.panicking THEN "panicEnd" ELSE "guest"]
  /\ UNCHANGED <<userLog, shown>>

\* "This print request will not even fit in the whole buffer": the return
\* leaves the buffer locked.
MonPrintTooLong ==
  /\ mon.pc = "retry"
  /\ log' = [log EXCEPT !.text = Empty]
  /\ mon' = [mon EXCEPT !.pc = "guest"]
  /\ UNCHANGED <<userLog, shown>>

\* monpanic: flush, print, and go to the host for good.
MonPanic ==
  /\ mon.pc = "guest"
  /\ mon' = [Raising("FlushPrintBuf", "panicFlushed") EXCEPT !.panicking = TRUE]
  /\ UNCHANGED <<log, userLog, shown>>

MonPanicPrint ==
  /\ mon.pc = "panicFlushed"
  /\ IF log.locked
     THEN mon' = [mon EXCEPT !.pc = "panicEnd"] /\ UNCHANGED log
     ELSE /\ log' = Formatted("panic")
          /\ mon' = [Raising("FlushPrintBuf", "printed") EXCEPT !.msg = "panic"]
  /\ UNCHANGED <<userLog, shown>>

MonPanicEnd ==
  /\ mon.pc = "panicEnd"
  /\ mon' = Raising("Panic", "dead")
  /\ UNCHANGED <<log, userLog, shown>>

AtRest ==
  [ pc |-> "guest", after |-> "guest", intr |-> TRUE, req |-> "None", want |-> "None",
    msg |-> "message", panicking |-> FALSE ]
LogInit ==
  /\ mon = AtRest
  /\ log = [locked |-> FALSE, text |-> Empty]
  /\ userLog = Empty
  /\ shown = Empty

\* The VM is given up, and the monitor with it.
MonitorLost ==
  /\ mon' = AtRest
  /\ log' = [locked |-> FALSE, text |-> Empty]
  /\ userLog' = Empty
  /\ UNCHANGED shown

LogStep == MonPrinted \/ MonPrintTooLong \/ MonPanicPrint \/ MonPanicEnd
LogEvent == (\E m \in {"message", "long"} : MonPrint(m)) \/ MonPanic

LogNext ==
  \/ \E req \in {"HalCall", "Bogus"} : ToHostCall(req)
  \/ HandleInt \/ SwitchToHost \/ BackInMonitor \/ PrintUserLog \/ MonitorLost
  \/ LogStep \/ LogEvent

----------------------------------------------------------------------------
(* Properties. *)

\* monitor.c:42-109: the host finds in mon_request what the call that
\* switched to it put there; an interrupt in between would leave its own
\* request, or none, and the call would return unserved.
RequestIsOwn == mon.pc = "switch" => mon.req = mon.want

\* print.c: when mon_vprint goes on behind its flush, the program has printed
\* that message and not an older one.  Only a message too long for the buffer
\* leaves it locked, and then silent for good; in particular a panic is
\* explained unless that happened before.
SilentOnlyAfterTooLong ==
  /\ mon.pc = "printed" /\ mon.intr => shown = mon.msg
  /\ mon.pc = "guest" /\ log.locked => mon.msg = "long"
  /\ mon.pc \in {"panicEnd", "dead"} => shown = "panic" \/ mon.msg = "long"
============================================================================
