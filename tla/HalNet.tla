------------------------------- MODULE HalNet -------------------------------
(***************************************************************************)
(* The HAL network device: the user program's side (host-user/halnet.c and *)
(* the execute loop of linuxvm.c) and the guest's driver                   *)
(* (guest-kernel/linux/halnet.c), which share one receive area in guest    *)
(* memory that holds one packet.                                           *)
(*                                                                         *)
(* Packets wait in the host's TAP device, which sends SIGIO for each.  The *)
(* handler only counts (halNetProducerCount); the execute loop compares    *)
(* the count with halNetConsumerCount before each EXECUTE ioctl and reads  *)
(* at most one packet if they differ.  The process comes back from the     *)
(* ioctl for a pending signal, for a HAL call, and after each IRET of the  *)
(* guest.  Packets are known by their order of arrival, so the TAP queue   *)
(* is the packets taken + 1 .. arrived.  halIrq and the PIC latch the      *)
(* device's interrupt until the guest takes it (see GuestInterrupts).      *)
(***************************************************************************)
EXTENDS Integers

CONSTANT MaxPackets    \* bound: packets that arrive; counters do not wrap (2^32)

ASSUME MaxPacketsAssumption == MaxPackets \in Nat

VARIABLES
  \* the user program
  proc,        \* where the process stands, see Proc
  sigio,       \* SIGIO is pending (signals do not queue)
  producer,    \* halNetProducerCount
  consumer,    \* halNetConsumerCount
  registered,  \* halNetDev[0].registered
  \* the TAP device
  arrived,     \* packets that arrived
  taken,       \* packets read
  quiet,       \* packets that arrived before O_ASYNC, without a signal
  \* shared with the guest
  area,        \* *guestRxArea: [full : rxBufferFull, pkt : the packet in rxBuffer]
  halIrq,      \* guestCpu->halIrq # -1
  irq,         \* irq 3 is requested in the PIC
  \* the guest's driver
  up,          \* the interface is open, irq 3 has a handler
  drv,         \* where snull_interrupt stands
  \* history
  handled      \* per packet, times it was passed up or dropped

procVars == <<proc, sigio, producer, consumer, registered>>
tapVars == <<arrived, taken, quiet>>
drvVars == <<up, drv>>
vars == <<procVars, tapVars, area, halIrq, irq, drvVars, handled>>

Packets == 1 .. MaxPackets

\* "open" and "async": initTunTap before and after F_SETFL; "check" the top of
\* executeLoop; "read", "eagain" in halNetReadPacketToGuest; "monitor" in the
\* EXECUTE ioctl; "reg", "tx" in halNetCall.
UserCode == {"check", "read", "eagain", "reg", "tx"}
Proc == UserCode \cup {"open", "async", "monitor", "exited"}

NetTypeOK ==
  /\ proc \in Proc
  /\ sigio \in BOOLEAN /\ registered \in BOOLEAN
  /\ producer \in Nat /\ consumer \in Nat
  /\ arrived \in 0 .. MaxPackets /\ taken \in 0 .. MaxPackets /\ quiet \in 0 .. MaxPackets
  /\ area \in [full : BOOLEAN, pkt : 0 .. MaxPackets]
  /\ halIrq \in BOOLEAN /\ irq \in BOOLEAN /\ up \in BOOLEAN
  /\ drv \in {"idle", "rx", "clear", "iret"}
  /\ handled \in [Packets -> Nat]

----------------------------------------------------------------------------
(* The TAP device and the signal. *)

\* A packet arrives.  Before O_ASYNC nothing tells the process; before
\* sigaction the signal has its default action and ends it.
Arrive ==
  /\ arrived < MaxPackets /\ proc # "exited"
  /\ arrived' = arrived + 1
  /\ CASE proc = "open"  -> quiet' = arrived + 1 /\ UNCHANGED <<sigio, proc>>
       [] proc = "async" -> proc' = "exited" /\ UNCHANGED <<sigio, quiet>>
       [] OTHER          -> sigio' = TRUE /\ UNCHANGED <<proc, quiet>>
  /\ UNCHANGED <<producer, consumer, registered, taken, area, halIrq, irq, drvVars, handled>>

\* fcntl(F_SETFL, O_NONBLOCK | O_ASYNC), then sigaction(SIGIO).
SetAsync ==
  /\ proc = "open" /\ proc' = "async"
  /\ UNCHANGED <<sigio, producer, consumer, registered, tapVars, area, halIrq, irq, drvVars, handled>>

SetHandler ==
  /\ proc = "async" /\ proc' = "check"
  /\ UNCHANGED <<sigio, producer, consumer, registered, tapVars, area, halIrq, irq, drvVars, handled>>

\* The handler runs if the signal is pending.
TakeSignal ==
  /\ producer' = IF sigio THEN producer + 1 ELSE producer
  /\ sigio' = FALSE

\* tuntapDev0SigIO, at any point of the user program's code.
SigIO ==
  /\ proc \in UserCode /\ sigio
  /\ TakeSignal
  /\ UNCHANGED <<proc, consumer, registered, tapVars, area, halIrq, irq, drvVars, handled>>

----------------------------------------------------------------------------
(* The execute loop and halNetReadPacketToGuest. *)

Compare ==
  /\ proc = "check"
  /\ proc' = IF consumer # producer THEN "read" ELSE "monitor"
  /\ UNCHANGED <<sigio, producer, consumer, registered, tapVars, area, halIrq, irq, drvVars, handled>>

\* read() returns a packet.  Fault: no interrupt while the driver is busy
\* with the one before.
ReadPacket_IrqSuppressed ==
  /\ proc = "read" /\ registered /\ ~area.full /\ taken < arrived
  /\ area' = [full |-> TRUE, pkt |-> taken + 1]
  /\ taken' = taken + 1
  /\ halIrq' = (halIrq \/ drv = "idle")
  /\ proc' = "monitor"
  /\ UNCHANGED <<sigio, producer, consumer, registered, arrived, quiet, irq, drvVars, handled>>
ReadPacket ==
  /\ proc = "read" /\ registered /\ ~area.full /\ taken < arrived
  /\ area' = [full |-> TRUE, pkt |-> taken + 1]
  /\ taken' = taken + 1
  /\ halIrq' = TRUE
  /\ proc' = "monitor"
  /\ UNCHANGED <<sigio, producer, consumer, registered, arrived, quiet, irq, drvVars, handled>>

\* read() returns 0 or EAGAIN.  The TAP device, not blocking and with a valid
\* buffer, fails in no other way.
ReadEmpty ==
  /\ proc = "read" /\ registered /\ ~area.full /\ taken = arrived
  /\ proc' = "eagain"
  /\ UNCHANGED <<sigio, producer, consumer, registered, tapVars, area, halIrq, irq, drvVars, handled>>

\* The guest has not taken the last packet: try again on a later pass.
BufferFull ==
  /\ proc = "read" /\ registered /\ area.full
  /\ proc' = "monitor"
  /\ UNCHANGED <<sigio, producer, consumer, registered, tapVars, area, halIrq, irq, drvVars, handled>>

\* No device: read and drop packets until there are none.  Fault: the read
\* that fails counts as a packet.
Drain_CountsLastRead ==
  /\ proc = "read" /\ ~registered
  /\ taken' = arrived + 1
  /\ handled' = [n \in Packets |-> IF n \in taken + 1 .. arrived THEN handled[n] + 1 ELSE handled[n]]
  /\ proc' = "eagain"
  /\ UNCHANGED <<sigio, producer, consumer, registered, arrived, quiet, area, halIrq, irq, drvVars>>
Drain ==
  /\ proc = "read" /\ ~registered
  /\ taken' = arrived
  /\ handled' = [n \in Packets |-> IF n \in taken + 1 .. arrived THEN handled[n] + 1 ELSE handled[n]]
  /\ proc' = "eagain"
  /\ UNCHANGED <<sigio, producer, consumer, registered, arrived, quiet, area, halIrq, irq, drvVars>>

\* allPacketsConsumed.  Fault: the consumer catches up with the producer, as
\* everything seems to be consumed.
Consumed_CatchesUp ==
  /\ proc = "eagain" /\ proc' = "monitor"
  /\ consumer' = producer
  /\ UNCHANGED <<sigio, producer, registered, tapVars, area, halIrq, irq, drvVars, handled>>
Consumed ==
  /\ proc = "eagain" /\ proc' = "monitor"
  /\ consumer' = consumer + 1
  /\ UNCHANGED <<sigio, producer, registered, tapVars, area, halIrq, irq, drvVars, handled>>

----------------------------------------------------------------------------
(* Leaving the ioctl.  A pending signal is handled before user code runs. *)

\* hostOSIdle sees a pending signal after a host interrupt: MonReqRedirect.
Redirect ==
  /\ proc = "monitor" /\ sigio
  /\ TakeSignal /\ proc' = "check"
  /\ UNCHANGED <<consumer, registered, tapVars, area, halIrq, irq, drvVars, handled>>

\* After each IRET it emulates, the monitor asks for MonReqBogus, which does
\* nothing but give the execute loop a pass.  Fault: it stays in the monitor.
ToHostBogus_Dropped == UNCHANGED <<proc, sigio, producer>>
ToHostBogus == TakeSignal /\ proc' = "check"

\* An IRET of the guest that does not end the driver's handler.
GuestIRET ==
  /\ proc = "monitor"
  /\ ToHostBogus
  /\ UNCHANGED <<consumer, registered, tapVars, area, halIrq, irq, drvVars, handled>>

\* snull_init_module registers the receive area, once.
GuestRegDev ==
  /\ proc = "monitor" /\ ~registered
  /\ TakeSignal /\ proc' = "reg"
  /\ UNCHANGED <<consumer, registered, tapVars, area, halIrq, irq, drvVars, handled>>

\* snull_tx hands a packet to the HAL.
GuestTx ==
  /\ proc = "monitor" /\ up
  /\ TakeSignal /\ proc' = "tx"
  /\ UNCHANGED <<consumer, registered, tapVars, area, halIrq, irq, drvVars, handled>>

HalRegDev ==
  /\ proc = "reg" /\ proc' = "check"
  /\ registered' = TRUE
  /\ area' = [full |-> FALSE, pkt |-> 0]
  /\ UNCHANGED <<sigio, producer, consumer, tapVars, halIrq, irq, drvVars, handled>>

\* The packet is written to the TAP device in full.
HalTx ==
  /\ proc = "tx" /\ registered /\ proc' = "check"
  /\ UNCHANGED <<sigio, producer, consumer, registered, tapVars, area, halIrq, irq, drvVars, handled>>

\* An argument of the call is refused, no device is registered, or the write
\* falls short: plex86TearDown and exit.
HalError ==
  /\ proc \in {"reg", "tx"} /\ proc' = "exited"
  /\ UNCHANGED <<sigio, producer, consumer, registered, tapVars, area, halIrq, irq, drvVars, handled>>

----------------------------------------------------------------------------
(* The guest's driver. *)

\* preGuest takes halIrq and requests irq 3.
IrqLatched ==
  /\ proc = "monitor" /\ halIrq
  /\ halIrq' = FALSE /\ irq' = TRUE
  /\ UNCHANGED <<procVars, tapVars, area, drvVars, handled>>

\* snull_open and snull_release: irq 3 is unmasked only while the device is up.
SnullOpen ==
  /\ proc = "monitor" /\ ~up /\ up' = TRUE
  /\ UNCHANGED <<procVars, tapVars, area, halIrq, irq, drv, handled>>

SnullRelease ==
  /\ proc = "monitor" /\ up /\ drv = "idle" /\ up' = FALSE
  /\ UNCHANGED <<procVars, tapVars, area, halIrq, irq, drv, handled>>

\* The interrupt is taken and the full flag tested.  Fault: the flag is
\* cleared before the packet is copied.
SnullInterrupt_ClearsFirst ==
  /\ proc = "monitor" /\ up /\ irq /\ drv = "idle"
  /\ irq' = FALSE
  /\ drv' = IF area.full THEN "rx" ELSE "iret"
  /\ area' = [area EXCEPT !.full = FALSE]
  /\ UNCHANGED <<procVars, tapVars, halIrq, up, handled>>
SnullInterrupt ==
  /\ proc = "monitor" /\ up /\ irq /\ drv = "idle"
  /\ irq' = FALSE
  /\ drv' = IF area.full THEN "rx" ELSE "iret"
  /\ UNCHANGED <<procVars, tapVars, area, halIrq, up, handled>>

\* snull_rx copies the packet and passes it up, or drops it for want of memory.
SnullRx ==
  /\ proc = "monitor" /\ drv = "rx" /\ drv' = "clear"
  /\ handled' = [handled EXCEPT ![area.pkt] = @ + 1]
  /\ UNCHANGED <<procVars, tapVars, area, halIrq, irq, up>>

SnullClear ==
  /\ proc = "monitor" /\ drv = "clear" /\ drv' = "iret"
  /\ area' = [area EXCEPT !.full = FALSE]
  /\ UNCHANGED <<procVars, tapVars, halIrq, irq, up, handled>>

\* The IRET that ends the handler.
SnullIRET ==
  /\ proc = "monitor" /\ drv = "iret" /\ drv' = "idle"
  /\ ToHostBogus
  /\ UNCHANGED <<consumer, registered, tapVars, area, halIrq, irq, up, handled>>

----------------------------------------------------------------------------
Init ==
  /\ proc = "open" /\ sigio = FALSE /\ producer = 0 /\ consumer = 0 /\ registered = FALSE
  /\ arrived = 0 /\ taken = 0 /\ quiet = 0
  /\ area = [full |-> FALSE, pkt |-> 0]
  /\ halIrq = FALSE /\ irq = FALSE /\ up = FALSE /\ drv = "idle"
  /\ handled = [n \in Packets |-> 0]

ReadStep == ReadPacket \/ ReadEmpty \/ BufferFull \/ Drain
HalCall == HalRegDev \/ HalTx \/ HalError
DriverStep == SnullInterrupt \/ SnullRx \/ SnullClear \/ SnullIRET

Next ==
  \/ Arrive \/ SetAsync \/ SetHandler \/ SigIO
  \/ Compare \/ ReadStep \/ Consumed
  \/ Redirect \/ GuestIRET \/ GuestRegDev \/ GuestTx \/ HalCall
  \/ IrqLatched \/ SnullOpen \/ SnullRelease \/ DriverStep

Spec == Init /\ [][Next]_vars

\* The process runs while it is in user code, and a host interrupt comes while
\* it is not.  The guest gets on whenever it is resumed, however often it is
\* interrupted: it takes unmasked interrupts, its handlers end, and its timer
\* makes it execute an IRET again and again.
Fairness ==
  /\ WF_vars(SetAsync \/ SetHandler)
  /\ WF_vars(Compare \/ ReadStep \/ Consumed \/ HalCall)
  /\ WF_vars(Redirect)
  /\ WF_vars(GuestIRET)
  /\ SF_vars(IrqLatched \/ DriverStep)

FairSpec == Spec /\ Fairness

----------------------------------------------------------------------------
(* Properties. *)

\* The packet in the receive area that the guest has still to copy.
InArea(n) == area.full /\ drv # "clear" /\ area.pkt = n

\* Every packet read from the TAP device is passed up or dropped exactly once,
\* or waits in the receive area; and the area always holds the last packet
\* read, so packets are handled in order.  The host writes the area only when
\* rxBufferFull is 0, and the driver clears it only after the copy.
ExactlyOnce ==
  /\ area.full => area.pkt = taken
  /\ \A n \in Packets : handled[n] = IF n <= taken /\ ~InArea(n) THEN 1 ELSE 0

\* A packet in the receive area always has an interrupt on its way to the
\* driver, though it may be put there while the handler for the packet before
\* is still on its way out: without one the area would stay full, and since no
\* packet is read into a full area none would ever raise another.
FullIsSignalled ==
  area.full => halIrq \/ irq \/ drv \in {"rx", "clear"}

\* A packet that came with a signal is never left in the TAP device with the
\* counts equal and no signal pending, when the loop would not look for it: a
\* packet that slips in between the read that found nothing and the increment
\* of halNetConsumerCount is counted by its own signal.
TapIsSignalled ==
  arrived > taken /\ arrived > quiet /\ proc # "exited" =>
    sigio \/ producer - consumer > (IF proc = "eagain" THEN 1 ELSE 0)

\* With the interface up for good, each packet that came with a signal is
\* passed up or dropped.  A pass of the loop reads one packet and the next
\* pass may find the area full, with no signal to come, so this needs the
\* pass that each IRET gives.
PacketsReachGuest ==
  <>[]up => \A n \in Packets : (arrived >= n /\ n > quiet) ~> (handled[n] = 1 \/ proc = "exited")
============================================================================
