----------------------- MODULE GuestInterruptsProofs -----------------------
(***************************************************************************)
(* Proofs of the safety properties of GuestInterrupts, for every set of    *)
(* counts and every number of clocks.  The inductive invariant adds to the *)
(* properties of the PIC what the saved flags and the frames on the        *)
(* guest's stacks look like, which is what the checks of doIRET and of STI *)
(* test.                                                                   *)
(***************************************************************************)
EXTENDS GuestInterrupts, TLAPS

\* The two properties of the PIC, of one of its states.
PicOK(p) ==
  /\ p.isr = {} /\ Unmasked(p) # {} => p.INTR
  /\ p.INTR => p.irr # {} /\ p.isr = {}

\* The flags the monitor keeps for the guest, and the frames it pushes: PVI
\* in ring 0 only, VIF clear in ring 3, IF and VIF the same in a frame of
\* ring 0.  This is what doIRET checks and STI relies on.
HonestFrames == {UserFrame} \cup {[cpl |-> 0, if |-> b, vif |-> b] : b \in BOOLEAN}
FlagsHonest ==
  /\ frames \subseteq HonestFrames
  /\ cpu.pvi = (cpu.cpl = 0)
  /\ cpu.cpl = 3 => cpu.vif = FALSE

\* VIP is the INTR line while guest code runs, and clear in the monitor.
VipHonest == cpu.vip = (where = "guest" /\ pic.INTR)

IntInv ==
  /\ IntTypeOK
  /\ PicOK(pic)
  /\ FlagsHonest
  /\ VipHonest
  /\ PendingTrapsSTI
  /\ OnlyGuestPanics

----------------------------------------------------------------------------
\* The highest priority request is one of the requests.
LEMMA HighestIsMember ==
  ASSUME NEW S \in SUBSET IRQs, S # {}
  PROVE  Highest(S) \in S
<1>1. \E i \in S : \A j \in S : i <= j
  <2>1. CASE 0 \in S
    BY <2>1 DEF IRQs, PitIrq, HalIrq
  <2>2. CASE 0 \notin S
    <3>1. S = {3}
      BY <2>2 DEF IRQs, PitIrq, HalIrq
    <3> QED BY <3>1
  <2> QED BY <2>1, <2>2
<1> QED BY <1>1 DEF Highest

\* picIrq keeps the PIC's properties.
LEMMA PicIrqKeeps ==
  ASSUME NEW p \in PicType, NEW i \in IRQs, PicOK(p)
  PROVE  PicIrq(p, i) \in PicType /\ PicOK(PicIrq(p, i))
BY DEF PicType, PicOK, PicIrq, Unmasked

\* picServiceMaster establishes them, if INTR is only up for a request.
LEMMA PicServiceMasterKeeps ==
  ASSUME NEW p \in PicType, p.INTR => p.irr # {} /\ p.isr = {}
  PROVE  PicServiceMaster(p) \in PicType /\ PicOK(PicServiceMaster(p))
BY DEF PicType, PicOK, PicServiceMaster, Unmasked

\* picIAC, where it does not panic, lowers INTR and keeps them.
LEMMA PicIACKeeps ==
  ASSUME NEW p \in PicType, PicOK(p), PicIACRefusal(p) = "none"
  PROVE  PicIAC(p) \in PicType /\ PicOK(PicIAC(p)) /\ ~PicIAC(p).INTR
<1>1. Unmasked(p) # {} /\ Unmasked(p) \in SUBSET IRQs
  BY DEF PicIACRefusal, PicType, Unmasked
<1>2. Highest(Unmasked(p)) \in IRQs
  BY <1>1, HighestIsMember
<1> QED BY <1>2 DEF PicType, PicOK, PicIAC, Unmasked

\* With INTR up, picIAC can only panic over the mask.
LEMMA PicIACRefusals ==
  ASSUME NEW p \in PicType, PicOK(p), p.INTR
  PROVE  PicIACRefusal(p) \in {"none", "picIAC: no unmasked irqs"}
BY DEF PicType, PicOK, PicIACRefusal

\* Clocks that elapse leave a timer.
LEMMA PitCountedType ==
  ASSUME NEW t \in PitType, NEW n \in Nat
  PROVE  PitCounted(t, n) \in PitType
<1>1. t.max \in Nat /\ t.counter \in Nat
  <2>1. t.max \in Counts \cup {0} /\ t.counter \in Nat
    BY DEF PitType
  <2>2. \A x \in Counts \cup {0} : x \in Nat
    BY CountsAssumption
  <2> QED BY <2>1, <2>2
<1>2. PitExpired(t) \in PitType
  BY <1>1 DEF PitExpired, PitType
<1>3. CASE PitExpires(t, n)
  BY <1>2, <1>3 DEF PitCounted
<1>4. CASE ~PitExpires(t, n) /\ t.active
  <2>1. t.counter - n \in Nat
    BY <1>1, <1>4 DEF PitExpires
  <2>2. [t EXCEPT !.counter = @ - n] \in PitType
    BY <2>1 DEF PitType
  <2> QED BY <1>4, <2>2 DEF PitCounted
<1>5. CASE ~PitExpires(t, n) /\ ~t.active
  BY <1>5 DEF PitCounted
<1> QED BY <1>3, <1>4, <1>5

\* What doGuestInterrupt leaves in the flags and on the stack.
LEMMA EnteredKeeps ==
  ASSUME NEW c \in CpuType, NEW g \in Gates, c.cpl = 3 => c.vif = FALSE
  PROVE  /\ Entered(c, g) \in CpuType
         /\ Entered(c, g).pvi = TRUE /\ Entered(c, g).cpl = 0 /\ Entered(c, g).vip = c.vip
         /\ Pushed(c) \in HonestFrames
<1>1. (Pushed(c).if /\ g = "trap") \in BOOLEAN
  OBVIOUS
<1>2. Pushed(c) \in HonestFrames
  <2>1. CASE c.cpl = 0
    <3>1. (c.cpl = 3 \/ c.vif) = c.vif /\ c.vif \in BOOLEAN
      BY <2>1 DEF CpuType
    <3>2. Pushed(c) = [cpl |-> 0, if |-> c.vif, vif |-> c.vif]
      BY <2>1, <3>1 DEF Pushed
    <3> QED BY <3>1, <3>2 DEF HonestFrames
  <2>2. CASE c.cpl = 3
    <3>1. (c.cpl = 3 \/ c.vif) = TRUE
      BY <2>2
    <3>2. Pushed(c) = UserFrame
      BY <2>2, <3>1 DEF Pushed, UserFrame
    <3> QED BY <3>2 DEF HonestFrames
  <2> QED BY <2>1, <2>2 DEF CpuType
<1>3. Entered(c, g) \in CpuType
  BY <1>1 DEF CpuType, Entered
<1>4. Entered(c, g).pvi = TRUE /\ Entered(c, g).cpl = 0 /\ Entered(c, g).vip = c.vip
  BY DEF CpuType, Entered
<1> QED BY <1>2, <1>3, <1>4

----------------------------------------------------------------------------
THEOREM IntInit == Init => IntInv
<1> SUFFICES ASSUME Init PROVE IntInv
  OBVIOUS
<1>1. pic \in PicType /\ PicOK(pic)
  BY DEF Init, PicType, PicOK, Unmasked
<1>2. pit \in PitType
  BY DEF Init, PitType
<1>3. cpu \in CpuType
  BY DEF Init, CpuType
<1>4. frames \subseteq Frames
  BY DEF Init, Frames, UserFrame
<1>5. halIrq \in {-1, HalIrq} /\ where \in {"guest", "monitor", "sampled", "hlt"}
  BY DEF Init
<1>6. FlagsHonest
  BY DEF Init, FlagsHonest, HonestFrames
<1>7. VipHonest /\ PendingTrapsSTI /\ OnlyGuestPanics
  BY DEF Init, VipHonest, PendingTrapsSTI, OnlyGuestPanics
<1> QED BY <1>1, <1>2, <1>3, <1>4, <1>5, <1>6, <1>7 DEF IntInv, IntTypeOK

----------------------------------------------------------------------------
\* The frames doGuestInterrupt pushes are frames.
LEMMA HonestFramesType == HonestFrames \subseteq Frames
<1>1. UserFrame \in Frames
  BY DEF UserFrame, Frames
<1>2. \A b \in BOOLEAN : [cpl |-> 0, if |-> b, vif |-> b] \in Frames
  BY DEF Frames
<1> QED BY <1>1, <1>2 DEF HonestFrames

\* A step that ends in the monitor, with VIP clear, keeps the invariant if
\* the parts it changes are in order.
LEMMA InMonitor ==
  ASSUME IntInv,
         pic' \in PicType, PicOK(pic'), pit' \in PitType,
         cpu' \in CpuType, cpu'.vip = FALSE,
         cpu'.pvi = (cpu'.cpl = 0), cpu'.cpl = 3 => cpu'.vif = FALSE,
         frames' \subseteq HonestFrames,
         halIrq' \in {-1, HalIrq}, where' \in {"monitor", "sampled", "hlt"},
         panic' = panic
  PROVE  IntInv'
<1>1. frames' \subseteq Frames
  BY HonestFramesType
<1>2. IntTypeOK'
  BY <1>1 DEF IntTypeOK
<1>3. FlagsHonest'
  BY DEF FlagsHonest
<1>4. VipHonest' /\ PendingTrapsSTI'
  BY DEF VipHonest, PendingTrapsSTI
<1>5. OnlyGuestPanics'
  BY DEF IntInv, OnlyGuestPanics
<1>6. PicOK(pic)'
  BY DEF PicOK, Unmasked
<1> QED BY <1>2, <1>3, <1>4, <1>5, <1>6 DEF IntInv

\* A panic the invariant allows leaves the rest as it was.
LEMMA PanicKeeps ==
  ASSUME IntInv, NEW w \in GuestErrors \cup {"none", "picIAC: no unmasked irqs"}, Panic(w)
  PROVE  IntInv'
BY DEF IntInv, IntTypeOK, PicOK, Unmasked, FlagsHonest, VipHonest, PendingTrapsSTI,
       OnlyGuestPanics, Panic

\* Leaving the guest clears VIP and nothing else.
LEMMA ExitFlags ==
  ASSUME NEW c \in CpuType
  PROVE  /\ Exit(c) \in CpuType /\ Exit(c).vip = FALSE
         /\ Exit(c).cpl = c.cpl /\ Exit(c).vif = c.vif /\ Exit(c).pvi = c.pvi
BY DEF Exit, CpuType

\* IN and OUT: the guest leaves with the devices changed.
LEMMA IOKeeps ==
  ASSUME IntInv, IOExit, pic' \in PicType, PicOK(pic'), pit' \in PitType
  PROVE  IntInv'
<1>1. cpu \in CpuType
  BY DEF IntInv, IntTypeOK
<1>2. cpu' = Exit(cpu) /\ where' = "monitor" /\ UNCHANGED <<frames, halIrq, panic>>
  BY DEF IOExit
<1>3. halIrq \in {-1, HalIrq} /\ frames \subseteq HonestFrames
  BY DEF IntInv, IntTypeOK, FlagsHonest
<1>4. cpu'.pvi = (cpu'.cpl = 0) /\ (cpu'.cpl = 3 => cpu'.vif = FALSE)
  BY <1>1, <1>2, ExitFlags DEF IntInv, FlagsHonest
<1> QED BY <1>1, <1>2, <1>3, <1>4, ExitFlags, InMonitor

\* doGuestInterrupt from a state the monitor keeps, with VIP clear.
LEMMA InterruptKeeps ==
  ASSUME IntInv, NEW c \in CpuType, NEW g \in Gates,
         c.vip = FALSE, c.cpl = 3 => c.vif = FALSE,
         DoGuestInterrupt(c, g), pic' \in PicType, PicOK(pic'), pit' \in PitType,
         where' = "monitor", UNCHANGED <<halIrq, panic>>
  PROVE  IntInv'
<1>1. cpu' = Entered(c, g) /\ frames' = frames \cup {Pushed(c)}
  BY DEF DoGuestInterrupt
<1>2. frames' \subseteq HonestFrames
  BY <1>1, EnteredKeeps DEF IntInv, FlagsHonest
<1>3. /\ cpu' \in CpuType /\ cpu'.vip = FALSE
      /\ cpu'.pvi = (cpu'.cpl = 0) /\ (cpu'.cpl = 3 => cpu'.vif = FALSE)
  <2>1. /\ cpu' \in CpuType /\ cpu'.vip = FALSE
        /\ cpu'.pvi = TRUE /\ cpu'.cpl = 0
    BY <1>1, EnteredKeeps, Zenon
  <2>2. (cpu'.cpl = 0) = TRUE /\ cpu'.cpl # 3
    BY <2>1
  <2> QED BY <2>1, <2>2
<1>4. halIrq \in {-1, HalIrq}
  BY DEF IntInv, IntTypeOK
<1> QED BY <1>2, <1>3, <1>4, InMonitor

----------------------------------------------------------------------------
\* Every step of the guest, the processor, the user program and the monitor
\* keeps the invariant.
THEOREM IntStep == IntInv /\ [Next]_vars => IntInv'
<1> SUFFICES ASSUME IntInv, [Next]_vars PROVE IntInv'
  OBVIOUS
<1> DEFINE Allowed == GuestErrors \cup {"none", "picIAC: no unmasked irqs"}
<1>a. /\ pic \in PicType /\ pit \in PitType /\ cpu \in CpuType
      /\ halIrq \in {-1, HalIrq}
  BY DEF IntInv, IntTypeOK
<1>b. PicOK(pic) /\ frames \subseteq HonestFrames /\ (cpu.cpl = 3 => cpu.vif = FALSE)
  BY DEF IntInv, FlagsHonest
<1>1. CASE CLI
  BY <1>1 DEF CLI, Kernel, Running, IntInv, IntTypeOK, CpuType, PicOK, Unmasked, FlagsHonest,
              VipHonest, PendingTrapsSTI, OnlyGuestPanics
<1>2. CASE STI
  <2>1. /\ cpu.cpl = 0 /\ ~cpu.vip /\ where = "guest"
        /\ cpu' = [cpu EXCEPT !.vif = TRUE]
        /\ UNCHANGED <<pic, pit, frames, halIrq, where, panic>>
    BY <1>2 DEF STI, Kernel, Running
  <2>2. ~pic.INTR
    BY <2>1 DEF IntInv, VipHonest
  <2>3. /\ cpu' \in CpuType /\ cpu'.cpl = 0 /\ cpu'.vip = cpu.vip /\ cpu'.pvi = cpu.pvi
    BY <1>a, <2>1 DEF CpuType
  <2>4. IntTypeOK' /\ PicOK(pic)' /\ OnlyGuestPanics'
    BY <2>1, <2>3 DEF IntInv, IntTypeOK, PicOK, Unmasked, OnlyGuestPanics
  <2>5. FlagsHonest'
    BY <2>1, <2>3 DEF IntInv, FlagsHonest
  <2>6. VipHonest' /\ PendingTrapsSTI'
    BY <2>1, <2>2, <2>3 DEF IntInv, VipHonest, PendingTrapsSTI
  <2> QED BY <2>4, <2>5, <2>6 DEF IntInv
<1>3. ASSUME NEW g \in Gates, STIEmulated(g) PROVE IntInv'
  <2> DEFINE c == [Exit(cpu) EXCEPT !.vif = TRUE]
  <2>1. pic.INTR /\ cpu.cpl = 0
    BY <1>3, <1>a DEF STIEmulated, Kernel, Running, IntInv, VipHonest, CpuType
  <2>2. STIRefusal = PicIACRefusal(pic)
    BY <2>1 DEF STIRefusal
  <2>3. CASE STIRefusal # "none"
    <3>1. Panic(STIRefusal)
      BY <1>3, <2>3 DEF STIEmulated
    <3>2. STIRefusal \in Allowed
      BY <1>a, <1>b, <2>1, <2>2, PicIACRefusals
    <3> QED BY <3>1, <3>2, PanicKeeps
  <2>4. CASE STIRefusal = "none"
    <3>1. /\ pic' = PicIAC(pic) /\ DoGuestInterrupt(c, g)
          /\ where' = "monitor" /\ UNCHANGED <<pit, halIrq, panic>>
      BY <1>3, <2>4 DEF STIEmulated
    <3>2. c \in CpuType /\ c.vip = FALSE /\ (c.cpl = 3 => c.vif = FALSE)
      <4>1. Exit(cpu) \in CpuType /\ Exit(cpu).vip = FALSE /\ Exit(cpu).cpl = 0
        BY <1>a, <2>1, ExitFlags
      <4>2. c \in CpuType /\ c.vip = FALSE /\ c.cpl = 0
        BY <4>1 DEF CpuType
      <4> QED BY <4>2
    <3>3. pic' \in PicType /\ PicOK(pic')
      BY <1>a, <1>b, <2>2, <2>4, <3>1, PicIACKeeps
    <3> HIDE DEF c
    <3> QED BY <1>a, <3>1, <3>2, <3>3, InterruptKeeps
  <2> QED BY <2>3, <2>4
<1>4. ASSUME NEW g \in Gates, GuestFault(g) PROVE IntInv'
  <2>1. /\ DoGuestInterrupt(Exit(cpu), g) /\ where' = "monitor"
        /\ UNCHANGED <<pic, pit, halIrq, panic>>
    BY <1>4 DEF GuestFault
  <2>2. /\ Exit(cpu) \in CpuType /\ Exit(cpu).vip = FALSE
        /\ Exit(cpu).cpl = 3 => Exit(cpu).vif = FALSE
    BY <1>a, <1>b, ExitFlags
  <2> QED BY <1>a, <1>b, <2>1, <2>2, InterruptKeeps
<1>5. CASE ExitOnly
  <2>1. IOExit /\ UNCHANGED <<pic, pit>>
    BY <1>5 DEF ExitOnly, IOExit
  <2> QED BY <1>a, <1>b, <2>1, IOKeeps
<1>6. ASSUME NEW f \in frames, DoIRET(f) PROVE IntInv'
  <2>1. cpu.cpl = 0 /\ cpu.pvi = TRUE
    BY <1>6, <1>a DEF DoIRET, Kernel, IntInv, FlagsHonest
  <2>2. f \in HonestFrames
    BY <1>b
  <2>3. /\ f.cpl = 0 => f.if = f.vif
        /\ f.cpl = 3 => f.if = TRUE
        /\ f.cpl \in {0, 3} /\ f.if \in BOOLEAN
    <3>1. CASE f = UserFrame
      <4>1. f.cpl = 3 /\ f.if = TRUE
        BY <3>1 DEF UserFrame
      <4>2. f.cpl # 0 /\ TRUE \in BOOLEAN
        BY <4>1
      <4> QED BY <4>1, <4>2, Zenon
    <3>2. CASE \E b \in BOOLEAN : f = [cpl |-> 0, if |-> b, vif |-> b]
      <4>1. PICK b \in BOOLEAN : f = [cpl |-> 0, if |-> b, vif |-> b]
        BY <3>2
      <4>2. f.cpl = 0 /\ f.if = b /\ f.vif = b
        BY <4>1
      <4>3. f.cpl # 3
        BY <4>2
      <4> QED BY <4>2, <4>3, Zenon
    <3> QED BY <2>2, <3>1, <3>2 DEF HonestFrames
  <2>4. IRETRefusal(f) = "none"
    BY <2>1, <2>3 DEF IRETRefusal
  <2>5. cpu' = Returned(f) /\ where' = "monitor" /\ UNCHANGED <<pic, pit, frames, halIrq, panic>>
    BY <1>6, <2>4 DEF DoIRET
  <2>6. /\ cpu' \in CpuType /\ cpu'.vip = FALSE
        /\ cpu'.pvi = (cpu'.cpl = 0) /\ (cpu'.cpl = 3 => cpu'.vif = FALSE)
    <3>1. (f.cpl = 0 /\ f.if) \in BOOLEAN /\ (f.cpl = 0) \in BOOLEAN
      OBVIOUS
    <3>2. Returned(f) \in CpuType
      BY <2>3, <3>1 DEF Returned, CpuType
    <3>3. Returned(f).vip = FALSE /\ Returned(f).cpl = f.cpl /\ Returned(f).pvi = (f.cpl = 0)
      BY DEF Returned
    <3>4. f.cpl = 3 => Returned(f).vif = FALSE
      <4>1. f.cpl = 3 => (f.cpl = 0 /\ f.if) = FALSE
        OBVIOUS
      <4> QED BY <4>1 DEF Returned
    <3> QED BY <2>5, <3>2, <3>3, <3>4
  <2> QED BY <1>a, <1>b, <2>5, <2>6, InMonitor
<1>7. CASE HLT
  <2>1. CASE cpu.vif
    <3>1. cpu' = Exit(cpu) /\ where' = "hlt" /\ UNCHANGED <<pic, pit, frames, halIrq, panic>>
      BY <1>7, <2>1 DEF HLT
    <3>2. /\ cpu' \in CpuType /\ cpu'.vip = FALSE
          /\ cpu'.pvi = (cpu'.cpl = 0) /\ (cpu'.cpl = 3 => cpu'.vif = FALSE)
      BY <1>a, <3>1, ExitFlags DEF IntInv, FlagsHonest
    <3> QED BY <1>a, <1>b, <3>1, <3>2, InMonitor
  <2>2. CASE ~cpu.vif
    <3>1. Panic("HLT with VIF = 0")
      BY <1>7, <2>2 DEF HLT
    <3> QED BY <3>1, PanicKeeps DEF GuestErrors
  <2> QED BY <2>1, <2>2
<1>8. CASE HltLoop
  <2>1. where = "hlt" /\ UNCHANGED <<cpu, frames, halIrq, panic>>
    BY <1>8 DEF HltLoop
  <2>2. /\ where' \in {"monitor", "sampled", "hlt"}
        /\ pic' \in PicType /\ PicOK(pic') /\ pit' \in PitType
    <3>1. CASE pic.INTR
      BY <1>8, <1>a, <1>b, <3>1 DEF HltLoop
    <3>2. CASE ~pic.INTR
      <4>1. where' = "hlt" /\ PitExpireClocks(1)
        BY <1>8, <3>2 DEF HltLoop
      <4>2. pit' \in PitType
        BY <4>1, <1>a, PitCountedType DEF PitExpireClocks
      <4>3. pic' \in PicType /\ PicOK(pic')
        BY <4>1, <1>a, <1>b, PicIrqKeeps DEF PitExpireClocks, IRQs
      <4> QED BY <4>1, <4>2, <4>3
    <3> QED BY <3>1, <3>2
  <2>3. /\ cpu.vip = FALSE
        /\ cpu.pvi = (cpu.cpl = 0)
    BY <1>a, <2>1 DEF IntInv, VipHonest, FlagsHonest
  <2> QED BY <1>a, <1>b, <2>1, <2>2, <2>3, InMonitor
<1>9. CASE PicInit
  <2>1. pic' \in PicType /\ PicOK(pic')
    BY <1>9 DEF PicInit, PicType, PicOK, Unmasked
  <2>2. IOExit /\ pit' = pit
    BY <1>9 DEF PicInit
  <2> QED BY <1>a, <2>1, <2>2, IOKeeps
<1>10. ASSUME NEW i \in IRQs, PicEOI(i) PROVE IntInv'
  <2>1. CASE i \notin pic.isr
    <3>1. Panic("picOutp: EOI")
      BY <1>10, <2>1 DEF PicEOI
    <3> QED BY <3>1, PanicKeeps DEF GuestErrors
  <2>2. CASE i \in pic.isr
    <3> DEFINE p == [pic EXCEPT !.isr = @ \ {i}, !.INTR = FALSE]
    <3>1. pic' = PicServiceMaster(p) /\ IOExit /\ pit' = pit
      BY <1>10, <2>2 DEF PicEOI
    <3>2. p \in PicType /\ p.INTR = FALSE
      BY <1>a DEF PicType
    <3> HIDE DEF p
    <3>3. pic' \in PicType /\ PicOK(pic')
      BY <3>1, <3>2, PicServiceMasterKeeps
    <3> QED BY <1>a, <3>1, <3>3, IOKeeps
  <2> QED BY <2>1, <2>2
<1>11. ASSUME NEW m \in SUBSET IRQs, PicMask(m) PROVE IntInv'
  <2> DEFINE p == [pic EXCEPT !.imr = m]
  <2>1. pic' = PicServiceMaster(p) /\ IOExit /\ pit' = pit
    BY <1>11 DEF PicMask
  <2>2. p \in PicType /\ (p.INTR => p.irr # {} /\ p.isr = {})
    BY <1>a, <1>b DEF PicType, PicOK
  <2> HIDE DEF p
  <2>3. pic' \in PicType /\ PicOK(pic')
    BY <2>1, <2>2, PicServiceMasterKeeps
  <2> QED BY <1>a, <2>1, <2>3, IOKeeps
<1>12. ASSUME NEW m \in {0, 2}, PitControl(m) PROVE IntInv'
  <2>1. pit' \in PitType
    BY <1>12, <1>a DEF PitControl, PitType
  <2>2. IOExit /\ pic' = pic
    BY <1>12 DEF PitControl
  <2> QED BY <1>a, <1>b, <2>1, <2>2, IOKeeps
<1>13. CASE PitLatch
  <2>1. CASE pit.out # "empty"
    <3>1. Panic("pitOutp: latch full")
      BY <1>13, <2>1 DEF PitLatch
    <3> QED BY <3>1, PanicKeeps DEF GuestErrors
  <2>2. CASE pit.out = "empty"
    <3>1. pit' = [pit EXCEPT !.out = "low"] /\ IOExit /\ pic' = pic
      BY <1>13, <2>2 DEF PitLatch
    <3>2. pit' \in PitType
      BY <1>a, <3>1 DEF PitType
    <3> QED BY <1>a, <1>b, <3>1, <3>2, IOKeeps
  <2> QED BY <2>1, <2>2
<1>14. CASE PitInp
  <2>1. CASE pit.out = "empty"
    <3>1. Panic("pitInp: latch empty")
      BY <1>14, <2>1 DEF PitInp
    <3> QED BY <3>1, PanicKeeps DEF GuestErrors
  <2>2. CASE pit.out # "empty"
    <3>1. /\ pit' = [pit EXCEPT !.out = IF @ = "low" THEN "high" ELSE "empty"]
          /\ IOExit /\ pic' = pic
      BY <1>14, <2>2 DEF PitInp
    <3>2. pit' \in PitType
      BY <1>a, <3>1 DEF PitType
    <3> QED BY <1>a, <1>b, <3>1, <3>2, IOKeeps
  <2> QED BY <2>1, <2>2
<1>15. ASSUME NEW c \in Counts, PitCount(c) PROVE IntInv'
  <2>1. \/ \E w \in GuestErrors : Panic(w)
        \/ pit' = [pit EXCEPT !.low = TRUE] /\ IOExit /\ pic' = pic
        \/ pit' = PitLoaded(c) /\ IOExit /\ pic' = pic
    BY <1>15 DEF PitCount, GuestErrors
  <2>2. [pit EXCEPT !.low = TRUE] \in PitType
    BY <1>a DEF PitType
  <2>3. PitLoaded(c) \in PitType
    <3>1. c \in Nat
      BY CountsAssumption
    <3> QED BY <1>a, <3>1 DEF PitLoaded, PitType
  <2> QED BY <1>a, <1>b, <2>1, <2>2, <2>3, IOKeeps, PanicKeeps
<1>16. CASE HalRequest
  BY <1>16 DEF HalRequest, IntInv, IntTypeOK, PicOK, Unmasked, FlagsHonest,
               VipHonest, PendingTrapsSTI, OnlyGuestPanics
<1>17. ASSUME NEW n \in 0 .. MaxClocks, PreGuestSample(n) PROVE IntInv'
  <2> DEFINE p == IF n > 0 /\ PitExpires(pit, n) THEN PicIrq(pic, PitIrq) ELSE pic
  <2>0. n \in Nat
    BY MaxClocksAssumption
  <2>1. /\ where = "monitor" /\ where' = "sampled" /\ halIrq' = -1
        /\ UNCHANGED <<cpu, frames, panic>>
        /\ pit' = IF n = 0 THEN pit ELSE PitCounted(pit, n)
        /\ pic' = IF halIrq = HalIrq THEN PicIrq(p, HalIrq) ELSE p
    BY <1>17 DEF PreGuestSample
  <2>2. pit' \in PitType
    BY <1>a, <2>0, <2>1, PitCountedType
  <2>3. p \in PicType /\ PicOK(p)
    BY <1>a, <1>b, PicIrqKeeps DEF IRQs
  <2> HIDE DEF p
  <2>4. pic' \in PicType /\ PicOK(pic')
    BY <2>1, <2>3, PicIrqKeeps DEF IRQs
  <2>5. cpu.vip = FALSE /\ cpu.pvi = (cpu.cpl = 0)
    BY <1>a, <2>1 DEF IntInv, VipHonest, FlagsHonest
  <2> QED BY <1>a, <1>b, <2>1, <2>2, <2>4, <2>5, InMonitor
<1>18. ASSUME NEW g \in Gates, PreGuestResume(g) PROVE IntInv'
  <2>1. CASE ~(pic.INTR /\ cpu.vif)
    <3>1. /\ cpu' = [cpu EXCEPT !.vip = pic.INTR] /\ where' = "guest"
          /\ UNCHANGED <<pic, pit, frames, halIrq, panic>>
      BY <1>18, <2>1 DEF PreGuestResume, Shown
    <3> QED BY <1>a, <2>1, <3>1 DEF IntInv, IntTypeOK, PicType, CpuType, PicOK, Unmasked,
                FlagsHonest, VipHonest, PendingTrapsSTI, OnlyGuestPanics
  <2>2. CASE pic.INTR /\ cpu.vif /\ PicIACRefusal(pic) # "none"
    <3>1. Panic(PicIACRefusal(pic))
      BY <1>18, <2>2 DEF PreGuestResume
    <3>2. PicIACRefusal(pic) \in Allowed
      BY <1>a, <1>b, <2>2, PicIACRefusals
    <3> QED BY <3>1, <3>2, PanicKeeps
  <2>3. CASE pic.INTR /\ cpu.vif /\ PicIACRefusal(pic) = "none"
    <3>1. /\ pic' = PicIAC(pic) /\ cpu' = Shown(Entered(cpu, g), pic')
          /\ frames' = frames \cup {Pushed(cpu)} /\ where' = "guest"
          /\ UNCHANGED <<pit, halIrq, panic>>
      BY <1>18, <2>3 DEF PreGuestResume
    <3>2. pic' \in PicType /\ PicOK(pic') /\ ~pic'.INTR
      BY <1>a, <1>b, <2>3, <3>1, PicIACKeeps
    <3>3. pic'.INTR = FALSE
      BY <3>2 DEF PicType
    <3>4. /\ Entered(cpu, g) \in CpuType
          /\ Entered(cpu, g).pvi = TRUE /\ Entered(cpu, g).cpl = 0
          /\ Pushed(cpu) \in HonestFrames
      BY <1>a, <1>b, EnteredKeeps
    <3>5. /\ cpu' \in CpuType /\ cpu'.vip = FALSE
          /\ cpu'.pvi = TRUE /\ cpu'.cpl = 0
      BY <3>1, <3>3, <3>4 DEF Shown, CpuType
    <3>6. Pushed(cpu) \in Frames
      BY <3>4, HonestFramesType
    <3>7. IntTypeOK'
      BY <3>1, <3>2, <3>5, <3>6 DEF IntInv, IntTypeOK
    <3>8. FlagsHonest'
      <4>1. (cpu'.cpl = 0) = TRUE /\ cpu'.cpl # 3
        BY <3>5
      <4>2. frames' \subseteq HonestFrames
        BY <1>b, <3>1, <3>4
      <4> QED BY <3>5, <4>1, <4>2 DEF FlagsHonest
    <3>9. VipHonest' /\ PendingTrapsSTI'
      BY <3>1, <3>3, <3>5 DEF VipHonest, PendingTrapsSTI
    <3>10. OnlyGuestPanics'
      BY <3>1 DEF IntInv, OnlyGuestPanics
    <3>11. PicOK(pic)'
      BY <3>2 DEF PicOK, Unmasked
    <3> QED BY <3>7, <3>8, <3>9, <3>10, <3>11 DEF IntInv
  <2> QED BY <2>1, <2>2, <2>3
<1>19. CASE Unsupported
  <2>1. Panic("unsupported")
    BY <1>19 DEF Unsupported
  <2> QED BY <2>1, PanicKeeps DEF GuestErrors
<1>20. CASE UNCHANGED vars
  BY <1>20 DEF vars, IntInv, IntTypeOK, PicOK, Unmasked, FlagsHonest, VipHonest,
               PendingTrapsSTI, OnlyGuestPanics
<1> QED
  BY <1>1, <1>2, <1>3, <1>4, <1>5, <1>6, <1>7, <1>8, <1>9, <1>10, <1>11, <1>12, <1>13,
     <1>14, <1>15, <1>16, <1>17, <1>18, <1>19, <1>20 DEF Next

----------------------------------------------------------------------------
\* The inductive invariant holds in every state of the interrupt machinery.
THEOREM IntInvariant == Spec => []IntInv
BY IntInit, IntStep, PTL DEF Spec

\* The interrupt state keeps its types for every set of timer counts.
THEOREM IntTypes == Spec => []IntTypeOK
<1>1. IntInv => IntTypeOK
  BY DEF IntInv
<1> QED BY IntInvariant, <1>1, PTL

\* No unmasked irq waits with INTR down and nothing in service (picIrq and
\* picServiceMaster see every one again).
THEOREM IrqsAreSignalled == Spec => []NoIrqForgotten
<1>1. IntInv => NoIrqForgotten
  BY DEF IntInv, PicOK, NoIrqForgotten
<1> QED BY IntInvariant, <1>1, PTL

\* INTR is raised only for a request and only while none is in service.
THEOREM LineIsHonest == Spec => []LineMeansRequest
<1>1. IntInv => LineMeansRequest
  BY DEF IntInv, PicOK, LineMeansRequest
<1> QED BY IntInvariant, <1>1, PTL

\* preGuest never lets guest kernel code run over a pending interrupt
\* without the trap that its next STI needs.
THEOREM PendingIsDelivered == Spec => []PendingTrapsSTI
<1>1. IntInv => PendingTrapsSTI
  BY DEF IntInv
<1> QED BY IntInvariant, <1>1, PTL

\* The consistency checks of doIRET, STI and picIAC never fail on the
\* monitor's own state, whatever the guest executes.
THEOREM ChecksNeverFail == Spec => []OnlyGuestPanics
<1>1. IntInv => OnlyGuestPanics
  BY DEF IntInv
<1> QED BY IntInvariant, <1>1, PTL
============================================================================
