-------------------------- MODULE GuestInterrupts --------------------------
(***************************************************************************)
(* How an interrupt reaches the guest: the master PIC and timer 0          *)
(* (monitor-space/io.c), the interrupt a HAL device of the user program    *)
(* asks for through guest_cpu->halIrq, the check before every return to    *)
(* the guest (preGuest, fault.c), and the guest's interrupt flag, which    *)
(* the monitor keeps in EFLAGS.VIF with CR4.PVI while guest kernel code    *)
(* runs pushed down to ring 3 (doGuestInterrupt and doIRET, x86-emu.c).    *)
(*                                                                         *)
(* The guest may execute any instruction at any time.  Its descriptor      *)
(* tables are well formed (the monitor panics on others).  Its kernel has  *)
(* any number of stacks: frames holds what the frames on them say of the   *)
(* flags, and an IRET returns through any one of them.  The slave PIC and  *)
(* timers 1 and 2 raise nothing and are left out.                          *)
(***************************************************************************)
EXTENDS Integers

CONSTANTS
  Counts,      \* counts the guest loads into timer 0
  MaxClocks    \* bound on the timer clocks that elapse between two exits

ASSUME CountsAssumption == Counts \subseteq Nat
ASSUME MaxClocksAssumption == MaxClocks \in Nat

VARIABLES
  pic,         \* the master PIC, and system.INTR, see PicType
  pit,         \* timer 0, see PitType
  cpu,         \* CPL, the EFLAGS and CR4 bits the guest runs with, see CpuType
  frames,      \* interrupt frames on the guest's stacks
  halIrq,      \* guest_cpu->halIrq: asked for, or -1
  where,       \* what runs: guest code, or which part of the monitor
  panic        \* what monpanic was called with, or "none"

vars == <<pic, pit, cpu, frames, halIrq, where, panic>>

PitIrq == 0
HalIrq == 3
IRQs == {PitIrq, HalIrq}

PicType ==
  [irr : SUBSET IRQs, isr : SUBSET IRQs, imr : SUBSET IRQs, INTR : BOOLEAN]

PitType ==
  [ mode    : {0, 2},
    set16   : BOOLEAN,    \* latch_mode = PIT_LATCH_MODE_16BIT
    low     : BOOLEAN,    \* input_latch_toggle: low byte written, high byte awaited
    max     : Counts \cup {0},
    counter : Nat,
    active  : BOOLEAN,
    out     : {"empty", "low", "high"} ]   \* output latch: byte to read next

CpuType == [cpl : {0, 3}, vif : BOOLEAN, vip : BOOLEAN, pvi : BOOLEAN]
Frames == [cpl : {0, 3}, if : BOOLEAN, vif : BOOLEAN]

Gates == {"interrupt", "trap"}

\* The frame a kernel builds to start a user program.
UserFrame == [cpl |-> 3, if |-> TRUE, vif |-> FALSE]

----------------------------------------------------------------------------
\* The PIC.

Unmasked(p) == p.irr \ p.imr
Highest(S) == CHOOSE i \in S : \A j \in S : i <= j

\* Fault form: the line is raised without looking at what is in service.
PicIrq_ServiceUnchecked(p, i) ==
  IF i \in p.irr THEN p
  ELSE [p EXCEPT !.irr = @ \cup {i}, !.INTR = @ \/ i \notin p.imr]

\* A device raises irq i.
PicIrq(p, i) ==
  IF i \in p.irr THEN p
  ELSE [p EXCEPT !.irr = @ \cup {i},
                 !.INTR = @ \/ (i \notin p.imr /\ p.isr = {})]

PicServiceMaster(p) ==
  [p EXCEPT !.INTR = @ \/ (p.isr = {} /\ Unmasked(p) # {})]

PicIACRefusal(p) ==
  CASE ~p.INTR \/ p.isr # {} -> "picIAC: INTR, isr"
    [] p.INTR /\ p.isr = {} /\ Unmasked(p) = {} -> "picIAC: no unmasked irqs"
    [] OTHER -> "none"

\* The CPU acknowledges: the highest priority request goes into service.
PicIAC(p) ==
  LET i == Highest(Unmasked(p))
  IN [p EXCEPT !.irr = @ \ {i}, !.isr = @ \cup {i}, !.INTR = FALSE]

----------------------------------------------------------------------------
\* Timer 0.

\* Fault form: the test for expiry is an equality.
PitExpires_ExactOnly(t, n) == t.active /\ t.counter = n

PitExpires(t, n) == t.active /\ t.counter <= n

PitExpired(t) ==
  IF t.mode = 0 THEN [t EXCEPT !.counter = 0, !.active = FALSE]
  ELSE [t EXCEPT !.counter = t.max]

PitCounted(t, n) ==
  IF PitExpires(t, n) THEN PitExpired(t)
  ELSE IF t.active THEN [t EXCEPT !.counter = @ - n]
  ELSE t

\* n clocks of the timer elapse.
PitExpireClocks(n) ==
  /\ pit' = PitCounted(pit, n)
  /\ pic' = IF PitExpires(pit, n) THEN PicIrq(pic, PitIrq) ELSE pic

----------------------------------------------------------------------------
\* The guest's interrupt flag.

\* Fault form: the real flags are pushed whatever the ring.
Pushed_RealFlags(c) == [cpl |-> c.cpl, if |-> TRUE, vif |-> c.vif]

\* The frame doGuestInterrupt pushes: in ring 0 the guest's IF is VIF, in
\* ring 3 it is the real one, which is always 1.
Pushed(c) == [cpl |-> c.cpl, if |-> c.cpl = 3 \/ c.vif, vif |-> c.vif]

\* The CPU state in the guest's handler, always in ring 0.
Entered(c, gate) ==
  [c EXCEPT !.cpl = 0, !.vif = Pushed(c).if /\ gate = "trap", !.pvi = TRUE]

DoGuestInterrupt(c, gate) ==
  /\ cpu' = Entered(c, gate)
  /\ frames' = frames \cup {Pushed(c)}

\* Why doIRET, always from ring 0, panics on frame f.
IRETRefusal(f) ==
  CASE f.cpl = 0 /\ f.if # f.vif -> "IRET: stack vif # if"
    [] ~cpu.pvi -> "IRET: mon CR4.PVI = 0"
    [] f.cpl = 3 /\ ~f.if -> "IRET: r0 to r3, stack if = 0"
    [] OTHER -> "none"

Returned(f) ==
  [cpl |-> f.cpl, vif |-> f.cpl = 0 /\ f.if, vip |-> FALSE, pvi |-> f.cpl = 0]

----------------------------------------------------------------------------
\* Guest code running; every exit clears VIP in the saved EFLAGS.

Running == where = "guest" /\ panic = "none"
Kernel == Running /\ cpu.cpl = 0
Exit(c) == [c EXCEPT !.vip = FALSE]

\* monpanic never returns to the caller.
Panic(why) ==
  /\ panic' = why
  /\ UNCHANGED <<pic, pit, cpu, frames, halIrq, where>>

\* The processor's own work under PVI: CLI and STI act on VIF.
CLI ==
  /\ Kernel
  /\ cpu' = [cpu EXCEPT !.vif = FALSE]
  /\ UNCHANGED <<pic, pit, frames, halIrq, where, panic>>

STI ==
  /\ Kernel /\ ~cpu.vip
  /\ cpu' = [cpu EXCEPT !.vif = TRUE]
  /\ UNCHANGED <<pic, pit, frames, halIrq, where, panic>>

STIRefusal == IF pic.INTR THEN PicIACRefusal(pic) ELSE "STI: INTR = 0"

\* STI with VIP set faults; emulateSysInstr delivers the pending interrupt.
STIEmulated(gate) ==
  /\ Kernel /\ cpu.vip
  /\ IF STIRefusal # "none" THEN Panic(STIRefusal)
     ELSE /\ pic' = PicIAC(pic)
          /\ DoGuestInterrupt([Exit(cpu) EXCEPT !.vif = TRUE], gate)
          /\ where' = "monitor"
          /\ UNCHANGED <<pit, halIrq, panic>>

\* An exception or INT that the guest's own handler gets.
GuestFault(gate) ==
  /\ Running
  /\ DoGuestInterrupt(Exit(cpu), gate)
  /\ where' = "monitor"
  /\ UNCHANGED <<pic, pit, halIrq, panic>>

\* A hardware interrupt of the host, a HAL call, a page fault or an
\* instruction the monitor deals with alone.
ExitOnly ==
  /\ Running
  /\ cpu' = Exit(cpu)
  /\ where' = "monitor"
  /\ UNCHANGED <<pic, pit, frames, halIrq, panic>>

DoIRET(f) ==
  /\ Kernel
  /\ IF IRETRefusal(f) # "none" THEN Panic(IRETRefusal(f))
     ELSE /\ cpu' = Returned(f)
          /\ where' = "monitor"
          /\ UNCHANGED <<pic, pit, frames, halIrq, panic>>

\* An instruction, port or command that the monitor does not support.
Unsupported ==
  /\ Running
  /\ Panic("unsupported")

\* HLT waits in the monitor, expiring one timer clock at a time.
HLT ==
  /\ Kernel
  /\ IF cpu.vif
     THEN /\ cpu' = Exit(cpu)
          /\ where' = "hlt"
          /\ UNCHANGED <<pic, pit, frames, halIrq, panic>>
     ELSE Panic("HLT with VIF = 0")

\* Fault form: the loop only looks at INTR.
HltLoop_ClockStopped ==
  /\ where = "hlt"
  /\ where' = IF pic.INTR THEN "monitor" ELSE "hlt"
  /\ UNCHANGED <<pic, pit, cpu, frames, halIrq, panic>>

HltLoop ==
  /\ where = "hlt"
  /\ IF pic.INTR THEN where' = "monitor" /\ UNCHANGED <<pic, pit>>
     ELSE where' = "hlt" /\ PitExpireClocks(1)
  /\ UNCHANGED <<cpu, frames, halIrq, panic>>

----------------------------------------------------------------------------
\* Guest kernel code drives the PIC and the timer with IN and OUT.

IOExit == cpu' = Exit(cpu) /\ where' = "monitor" /\ UNCHANGED <<frames, halIrq, panic>>

\* Port 0x20, ICW1.  The words that follow go to port 0x21 like masks.
PicInit ==
  /\ Kernel
  /\ pic' = [irr |-> {}, isr |-> {}, imr |-> {}, INTR |-> FALSE]
  /\ IOExit
  /\ UNCHANGED pit

\* Fault form: nothing that waited is serviced after the EOI.
PicEOI_NotServiced(i) ==
  /\ Kernel
  /\ IF i \notin pic.isr THEN Panic("picOutp: EOI")
     ELSE /\ pic' = [pic EXCEPT !.isr = @ \ {i}, !.INTR = FALSE]
          /\ IOExit
          /\ UNCHANGED pit

\* Port 0x20, specific EOI.
PicEOI(i) ==
  /\ Kernel
  /\ IF i \notin pic.isr THEN Panic("picOutp: EOI")
     ELSE /\ pic' = PicServiceMaster([pic EXCEPT !.isr = @ \ {i}, !.INTR = FALSE])
          /\ IOExit
          /\ UNCHANGED pit

\* Port 0x21.
PicMask(m) ==
  /\ Kernel
  /\ pic' = PicServiceMaster([pic EXCEPT !.imr = m])
  /\ IOExit
  /\ UNCHANGED pit

\* Port 0x43: a control word for timer 0, or the counter latch command.
PitControl(mode) ==
  /\ Kernel
  /\ pit' = [pit EXCEPT !.mode = mode, !.set16 = TRUE, !.low = FALSE]
  /\ IOExit
  /\ UNCHANGED pic

PitLatch ==
  /\ Kernel
  /\ IF pit.out # "empty" THEN Panic("pitOutp: latch full")
     ELSE pit' = [pit EXCEPT !.out = "low"] /\ IOExit /\ UNCHANGED pic

\* Port 0x40, read: low byte, then high byte of the latched count.
PitInp ==
  /\ Kernel
  /\ IF pit.out = "empty" THEN Panic("pitInp: latch empty")
     ELSE /\ pit' = [pit EXCEPT !.out = IF @ = "low" THEN "high" ELSE "empty"]
          /\ IOExit
          /\ UNCHANGED pic

\* Timer 0 with count c transferred from the input latch.
PitLoaded(c) ==
  LET t == [pit EXCEPT !.low = FALSE, !.max = c, !.out = "empty"]
  IN IF pit.mode = 0 \/ ~pit.active
     THEN [t EXCEPT !.counter = c, !.active = TRUE]
     ELSE t

\* Port 0x40, write: low byte, then high byte.
PitCount(c) ==
  /\ Kernel
  /\ CASE ~pit.set16 -> Panic("pitOutp: latch mode")
       [] pit.set16 /\ ~pit.low ->
            pit' = [pit EXCEPT !.low = TRUE] /\ IOExit /\ UNCHANGED pic
       [] pit.set16 /\ pit.low /\ pit.mode = 2 /\ c = 1 -> Panic("pitOutp: count of 1")
       [] OTHER -> pit' = PitLoaded(c) /\ IOExit /\ UNCHANGED pic

----------------------------------------------------------------------------
\* Back in the user program on a signal or a HAL call, a device of the HAL
\* asks for its interrupt.
HalRequest ==
  /\ where # "guest" /\ panic = "none"
  /\ halIrq' = HalIrq
  /\ UNCHANGED <<pic, pit, cpu, frames, where, panic>>

\* preGuest, first part: the timer catches up by n clocks (0: less than one
\* has elapsed), and halIrq is taken.
PreGuestSample(n) ==
  /\ where = "monitor" /\ panic = "none"
  /\ pit' = IF n = 0 THEN pit ELSE PitCounted(pit, n)
  /\ LET p == IF n > 0 /\ PitExpires(pit, n) THEN PicIrq(pic, PitIrq) ELSE pic
     IN pic' = IF halIrq = HalIrq THEN PicIrq(p, HalIrq) ELSE p
  /\ halIrq' = -1
  /\ where' = "sampled"
  /\ UNCHANGED <<cpu, frames, panic>>

\* Fault form: VIP is not brought up to date.
Shown_Stale(c, p) == c

\* The flags the guest resumes with: VIP shows the state of the INTR line.
Shown(c, p) == [c EXCEPT !.vip = p.INTR]

\* preGuest, second part: an interrupt is delivered if the guest accepts it.
PreGuestResume(gate) ==
  /\ where = "sampled" /\ panic = "none"
  /\ IF ~(pic.INTR /\ cpu.vif)
     THEN /\ cpu' = Shown(cpu, pic)
          /\ where' = "guest"
          /\ UNCHANGED <<pic, pit, frames, halIrq, panic>>
     ELSE IF PicIACRefusal(pic) # "none" THEN Panic(PicIACRefusal(pic))
     ELSE /\ pic' = PicIAC(pic)
          /\ cpu' = Shown(Entered(cpu, gate), PicIAC(pic))
          /\ frames' = frames \cup {Pushed(cpu)}
          /\ where' = "guest"
          /\ UNCHANGED <<pit, halIrq, panic>>

----------------------------------------------------------------------------
\* Linux starts with all interrupts masked, the timer off and IF clear.
Init ==
  /\ pic = [irr |-> {}, isr |-> {}, imr |-> IRQs, INTR |-> FALSE]
  /\ pit = [mode |-> 0, set16 |-> FALSE, low |-> FALSE, max |-> 0,
            counter |-> 0, active |-> FALSE, out |-> "empty"]
  /\ cpu = [cpl |-> 0, vif |-> FALSE, vip |-> FALSE, pvi |-> TRUE]
  /\ frames = {UserFrame}
  /\ halIrq = -1
  /\ where = "monitor"
  /\ panic = "none"

Next ==
  \/ CLI
  \/ STI
  \/ \E g \in Gates : STIEmulated(g)
  \/ \E g \in Gates : GuestFault(g)
  \/ ExitOnly
  \/ \E f \in frames : DoIRET(f)
  \/ Unsupported
  \/ HLT
  \/ HltLoop
  \/ PicInit
  \/ \E i \in IRQs : PicEOI(i)
  \/ \E m \in SUBSET IRQs : PicMask(m)
  \/ \E m \in {0, 2} : PitControl(m)
  \/ PitLatch
  \/ PitInp
  \/ \E c \in Counts : PitCount(c)
  \/ HalRequest
  \/ \E n \in 0 .. MaxClocks : PreGuestSample(n)
  \/ \E g \in Gates : PreGuestResume(g)

Spec == Init /\ [][Next]_vars

\* The monitor's own code runs on: nothing it does waits for anyone.
Fairness ==
  /\ WF_vars(HltLoop)
  /\ WF_vars(\E n \in 0 .. MaxClocks : PreGuestSample(n))
  /\ WF_vars(\E g \in Gates : PreGuestResume(g))

FairSpec == Spec /\ Fairness

----------------------------------------------------------------------------
\* Types of the interrupt state.
IntTypeOK ==
  /\ pic \in PicType
  /\ pit \in PitType
  /\ cpu \in CpuType
  /\ frames \subseteq Frames
  /\ halIrq \in {-1, HalIrq}
  /\ where \in {"guest", "monitor", "sampled", "hlt"}

\* No unmasked request waits with the INTR line down and nothing in service:
\* whether it was masked when it came, or came while another irq was in
\* service, the write of the mask or the EOI that frees the way must raise
\* INTR again (picIrq, picServiceMaster), since nothing else looks at irr.
NoIrqForgotten == pic.isr = {} /\ Unmasked(pic) # {} => pic.INTR

\* INTR is up only while some irq is requested and none is in service: what
\* picIAC relies on when it is called for INTR alone.
LineMeansRequest == pic.INTR => pic.irr # {} /\ pic.isr = {}

\* Guest kernel code never runs with an interrupt pending and its interrupt
\* flag set; with the flag clear, VIP is set, so that the STI that sets it
\* again faults into the monitor.  Otherwise the interrupt would wait for
\* some later, unrelated exit (preGuest, fault.c).
PendingTrapsSTI ==
  where = "guest" /\ cpu.cpl = 0 /\ pic.INTR => ~cpu.vif /\ cpu.vip

\* Panics that say what the guest did wrong or did that is not supported.
GuestErrors ==
  {"unsupported", "HLT with VIF = 0", "picOutp: EOI", "pitOutp: latch full",
   "pitInp: latch empty", "pitOutp: latch mode", "pitOutp: count of 1"}

\* None of the consistency checks of STI, doIRET and picIAC on state the
\* monitor keeps itself ever fails, whatever the guest executes; the mask
\* register is the exception, see MaskedIrqWithdrawn.
OnlyGuestPanics == panic \in GuestErrors \cup {"none", "picIAC: no unmasked irqs"}

\* A guest that halts with the timer running, irq 0 unmasked and nothing in
\* service is woken, and resumes in its interrupt handler: the loop of HLT
\* expires clocks until INTR rises, and preGuest then delivers.
HltIsInterrupted ==
  (where = "hlt" /\ pit.active /\ PitIrq \notin pic.imr /\ pic.isr = {})
    ~> (where = "guest" /\ pic.isr # {})

\* picIAC's assertion that it finds an unmasked irq ("picIAC: no unmasked
\* irqs.", io.c).  Writing a mask over a pending irq leaves INTR up.
MaskedIrqWithdrawn == panic # "picIAC: no unmasked irqs"

\* What doIRET says of a guest in ring 3: its IF is 1, otherwise "guest
\* interrupts will never be accepted!" (x86-emu.c); so none is pending when
\* it runs.  preGuest looks at VIF, which is 0 in ring 3.
UserModeInterruptible == where = "guest" /\ cpu.cpl = 3 => ~pic.INTR
============================================================================
