---------------------------- MODULE HalNetProofs ----------------------------
(***************************************************************************)
(* Safety of the HAL network device, for every number of packets.          *)
(***************************************************************************)
EXTENDS HalNet, TLAPS

\* What the loop and the driver rely on between their steps: the counts of
\* packets are in order, the loop reads only while the counts of signals
\* differ, and the driver works only on a full area, which needs a device.
ControlAgrees ==
  /\ taken <= arrived /\ quiet <= arrived
  /\ consumer <= producer
  /\ proc \in {"read", "eagain"} => consumer < producer
  /\ drv \in {"rx", "clear"} => area.full
  /\ area.full => registered /\ taken > 0
  /\ proc = "reg" => ~registered
  /\ proc = "open" => arrived = quiet
  /\ proc = "async" => arrived = quiet

\* The inductive invariant.  TapIsSignalled alone says nothing of the counts
\* while the TAP device is empty, where the packet that slips in between
\* ReadEmpty and Consumed starts from.
NetInv ==
  /\ NetTypeOK
  /\ ControlAgrees
  /\ ExactlyOnce
  /\ FullIsSignalled
  /\ TapIsSignalled

\* The steps that only move the process, or take a signal on the way.
Moves ==
  /\ UNCHANGED <<consumer, registered, tapVars, area, halIrq, irq, drvVars, handled>>
  /\ \/ UNCHANGED <<sigio, producer>>
     \/ TakeSignal

USE MaxPacketsAssumption

\* The device starts in the invariant.
LEMMA NetInitInv == Init => NetInv
<1> SUFFICES ASSUME Init PROVE NetInv
  OBVIOUS
<1>1. sigio \in BOOLEAN /\ registered \in BOOLEAN /\ halIrq \in BOOLEAN /\ irq \in BOOLEAN
      /\ up \in BOOLEAN
  BY Zenon DEF Init
<1>2. handled \in [Packets -> Nat] /\ area \in [full : BOOLEAN, pkt : 0 .. MaxPackets]
  BY DEF Init
<1>3. NetTypeOK
  BY <1>1, <1>2 DEF Init, NetTypeOK, Proc, UserCode
<1>4. ControlAgrees /\ ExactlyOnce /\ FullIsSignalled /\ TapIsSignalled
  BY DEF Init, ControlAgrees, ExactlyOnce, FullIsSignalled, TapIsSignalled, Packets, InArea
<1> QED BY <1>3, <1>4 DEF NetInv

\* A step that only moves the process keeps the invariant, if it moves it to a
\* place whose condition holds.
LEMMA MoveKeepsInv ==
  ASSUME NetInv, Moves, proc' \in Proc,
         proc' \in {"read", "eagain"} => consumer < producer,
         proc' = "eagain" => proc = "eagain" \/ arrived = taken,
         proc' \in {"open", "async"} => arrived = quiet,
         proc = "exited" => proc' = "exited",
         proc' = "reg" => ~registered
  PROVE  NetInv'
<1>0. sigio' \in BOOLEAN
  BY Zenon DEF NetInv, NetTypeOK, Moves, TakeSignal
<1>1. NetTypeOK'
  BY <1>0 DEF NetInv, NetTypeOK, Moves, TakeSignal, tapVars, drvVars
<1>2. ControlAgrees'
  BY DEF NetInv, NetTypeOK, ControlAgrees, Moves, TakeSignal, tapVars, drvVars
<1>3. ExactlyOnce'
  BY DEF NetInv, ExactlyOnce, InArea, Moves, tapVars, drvVars
<1>4. FullIsSignalled'
  BY DEF NetInv, FullIsSignalled, Moves, drvVars
<1>5. TapIsSignalled'
  BY DEF NetInv, NetTypeOK, ControlAgrees, TapIsSignalled, Moves, TakeSignal, tapVars
<1> QED BY <1>1, <1>2, <1>3, <1>4, <1>5 DEF NetInv

\* Every step keeps the invariant.
LEMMA NetNextInv == NetInv /\ [Next]_vars => NetInv'
<1> SUFFICES ASSUME NetInv, [Next]_vars PROVE NetInv'
  OBVIOUS
<1> USE DEF procVars, tapVars, drvVars
<1>1. CASE Arrive
  <2>0. sigio' \in BOOLEAN
    <3>1. CASE proc = "open"
      BY <1>1, <3>1 DEF Arrive, NetInv, NetTypeOK
    <3>2. CASE proc = "async"
      BY <1>1, <3>2 DEF Arrive, NetInv, NetTypeOK
    <3>3. CASE proc # "open" /\ proc # "async"
      <4>1. sigio' = TRUE
        BY <1>1, <3>3 DEF Arrive
      <4> QED BY <4>1, Zenon
    <3> QED BY <3>1, <3>2, <3>3
  <2>1. NetTypeOK'
    BY <1>1, <2>0 DEF Arrive, NetInv, NetTypeOK, Proc
  <2>2. ControlAgrees'
    BY <1>1 DEF Arrive, NetInv, NetTypeOK, ControlAgrees, Proc, UserCode
  <2>3. ExactlyOnce'
    BY <1>1 DEF Arrive, NetInv, ExactlyOnce, InArea
  <2>4. FullIsSignalled'
    BY <1>1 DEF Arrive, NetInv, FullIsSignalled
  <2>5. TapIsSignalled'
    BY <1>1 DEF Arrive, NetInv, NetTypeOK, TapIsSignalled
  <2> QED BY <2>1, <2>2, <2>3, <2>4, <2>5 DEF NetInv
<1>2. CASE SetAsync \/ SetHandler
  BY <1>2, MoveKeepsInv DEF SetAsync, SetHandler, Moves, Proc, UserCode, NetInv, ControlAgrees
<1>3. CASE SigIO
  <2>1. Moves /\ proc' = proc
    BY <1>3 DEF SigIO, Moves
  <2> QED BY <2>1, <1>3, MoveKeepsInv DEF SigIO, NetInv, NetTypeOK, ControlAgrees, Proc, UserCode
<1>4. CASE Compare
  <2>1. Moves /\ proc' \in {"read", "monitor"} /\ (proc' = "read" => consumer # producer)
        /\ proc = "check"
    BY <1>4 DEF Compare, Moves
  <2>2. consumer \in Nat /\ producer \in Nat /\ consumer <= producer
    BY DEF NetInv, NetTypeOK, ControlAgrees
  <2> QED BY <2>1, <2>2, MoveKeepsInv DEF Proc, UserCode
<1>5. CASE ReadPacket
  <2>1. NetTypeOK'
    BY <1>5 DEF ReadPacket, NetInv, NetTypeOK, Proc
  <2>2. ControlAgrees'
    BY <1>5 DEF ReadPacket, NetInv, NetTypeOK, ControlAgrees
  <2>3. ExactlyOnce'
    BY <1>5 DEF ReadPacket, NetInv, NetTypeOK, ControlAgrees, ExactlyOnce, InArea, Packets
  <2>4. FullIsSignalled'
    BY <1>5 DEF ReadPacket, FullIsSignalled
  <2>5. TapIsSignalled'
    BY <1>5 DEF ReadPacket, NetInv, NetTypeOK, TapIsSignalled
  <2> QED BY <2>1, <2>2, <2>3, <2>4, <2>5 DEF NetInv
<1>6. CASE ReadEmpty
  BY <1>6, MoveKeepsInv DEF ReadEmpty, Moves, Proc, UserCode, NetInv, ControlAgrees
<1>7. CASE BufferFull
  BY <1>7, MoveKeepsInv DEF BufferFull, Moves, Proc, UserCode, NetInv, ControlAgrees
<1>8. CASE Drain
  <2>1. NetTypeOK'
    BY <1>8 DEF Drain, NetInv, NetTypeOK, Proc, UserCode
  <2>2. ControlAgrees'
    BY <1>8 DEF Drain, NetInv, NetTypeOK, ControlAgrees
  <2>3. ExactlyOnce'
    BY <1>8 DEF Drain, NetInv, NetTypeOK, ControlAgrees, ExactlyOnce, InArea, Packets
  <2>4. FullIsSignalled'
    BY <1>8 DEF Drain, NetInv, FullIsSignalled
  <2>5. TapIsSignalled'
    BY <1>8 DEF Drain, NetInv, NetTypeOK, TapIsSignalled
  <2> QED BY <2>1, <2>2, <2>3, <2>4, <2>5 DEF NetInv
<1>9. CASE Consumed
  <2>1. NetTypeOK'
    BY <1>9 DEF Consumed, NetInv, NetTypeOK, Proc
  <2>2. ControlAgrees'
    BY <1>9 DEF Consumed, NetInv, NetTypeOK, ControlAgrees
  <2>3. ExactlyOnce'
    BY <1>9 DEF Consumed, NetInv, ExactlyOnce, InArea
  <2>4. FullIsSignalled'
    BY <1>9 DEF Consumed, NetInv, FullIsSignalled
  <2>5. TapIsSignalled'
    BY <1>9 DEF Consumed, NetInv, NetTypeOK, TapIsSignalled
  <2> QED BY <2>1, <2>2, <2>3, <2>4, <2>5 DEF NetInv
<1>10. CASE Redirect \/ GuestIRET \/ GuestRegDev \/ GuestTx
  <2>1. Moves /\ proc' \in {"check", "reg", "tx"} /\ proc = "monitor"
        /\ (proc' = "reg" => ~registered)
    BY <1>10 DEF Redirect, GuestIRET, GuestRegDev, GuestTx, ToHostBogus, Moves
  <2> QED BY <2>1, MoveKeepsInv DEF Proc, UserCode
<1>11. CASE HalRegDev
  <2>1. NetTypeOK'
    BY <1>11 DEF HalRegDev, NetInv, NetTypeOK, Proc, UserCode
  <2>2. ControlAgrees'
    BY <1>11 DEF HalRegDev, NetInv, NetTypeOK, ControlAgrees
  <2>3. ExactlyOnce'
    BY <1>11 DEF HalRegDev, NetInv, NetTypeOK, ControlAgrees, ExactlyOnce, InArea
  <2>4. FullIsSignalled'
    BY <1>11 DEF HalRegDev, NetInv, FullIsSignalled
  <2>5. TapIsSignalled'
    BY <1>11 DEF HalRegDev, NetInv, NetTypeOK, TapIsSignalled
  <2> QED BY <2>1, <2>2, <2>3, <2>4, <2>5 DEF NetInv
<1>12. CASE HalTx \/ HalError
  <2>1. Moves /\ proc' \in {"check", "exited"} /\ proc # "exited"
    BY <1>12 DEF HalTx, HalError, Moves
  <2> QED BY <2>1, MoveKeepsInv DEF Proc, UserCode
<1>13. CASE IrqLatched
  BY <1>13 DEF IrqLatched, NetInv, NetTypeOK, ControlAgrees, ExactlyOnce, InArea,
     FullIsSignalled, TapIsSignalled
<1>14. CASE SnullOpen \/ SnullRelease
  BY <1>14 DEF SnullOpen, SnullRelease, NetInv, NetTypeOK, ControlAgrees, ExactlyOnce, InArea,
     FullIsSignalled, TapIsSignalled
<1>15. CASE SnullInterrupt
  BY <1>15 DEF SnullInterrupt, NetInv, NetTypeOK, ControlAgrees, ExactlyOnce, InArea,
     FullIsSignalled, TapIsSignalled
<1>16. CASE SnullRx
  <2>1. area.pkt \in Packets
    BY <1>16 DEF SnullRx, NetInv, NetTypeOK, ControlAgrees, ExactlyOnce, Packets
  <2>2. NetTypeOK'
    BY <1>16, <2>1 DEF SnullRx, NetInv, NetTypeOK
  <2>3. ExactlyOnce'
    BY <1>16, <2>1 DEF SnullRx, NetInv, NetTypeOK, ControlAgrees, ExactlyOnce, InArea, Packets
  <2>4. ControlAgrees' /\ FullIsSignalled' /\ TapIsSignalled'
    BY <1>16 DEF SnullRx, NetInv, NetTypeOK, ControlAgrees, FullIsSignalled, TapIsSignalled
  <2> QED BY <2>2, <2>3, <2>4 DEF NetInv
<1>17. CASE SnullClear
  <2>1. area' = [full |-> FALSE, pkt |-> area.pkt] /\ area.full
    BY <1>17 DEF SnullClear, NetInv, NetTypeOK, ControlAgrees
  <2>2. NetTypeOK'
    BY <1>17, <2>1 DEF SnullClear, NetInv, NetTypeOK
  <2>3. ExactlyOnce'
    BY <1>17, <2>1 DEF SnullClear, NetInv, NetTypeOK, ControlAgrees, ExactlyOnce, InArea, Packets
  <2>4. ControlAgrees' /\ FullIsSignalled' /\ TapIsSignalled'
    BY <1>17, <2>1 DEF SnullClear, NetInv, NetTypeOK, ControlAgrees, FullIsSignalled, TapIsSignalled
  <2> QED BY <2>2, <2>3, <2>4 DEF NetInv
<1>18. CASE SnullIRET
  <2>0. sigio' \in BOOLEAN
    BY <1>18, Zenon DEF SnullIRET, ToHostBogus, TakeSignal
  <2>1. NetTypeOK'
    BY <1>18, <2>0 DEF SnullIRET, ToHostBogus, TakeSignal, NetInv, NetTypeOK, Proc, UserCode
  <2>2. ControlAgrees'
    BY <1>18 DEF SnullIRET, ToHostBogus, TakeSignal, NetInv, NetTypeOK, ControlAgrees
  <2>3. ExactlyOnce'
    BY <1>18 DEF SnullIRET, NetInv, ExactlyOnce, InArea
  <2>4. FullIsSignalled'
    BY <1>18 DEF SnullIRET, NetInv, FullIsSignalled
  <2>5. TapIsSignalled'
    BY <1>18 DEF SnullIRET, ToHostBogus, TakeSignal, NetInv, NetTypeOK, ControlAgrees, TapIsSignalled
  <2> QED BY <2>1, <2>2, <2>3, <2>4, <2>5 DEF NetInv
<1>19. CASE UNCHANGED vars
  BY <1>19 DEF vars, NetInv, NetTypeOK, ControlAgrees, ExactlyOnce, InArea,
     FullIsSignalled, TapIsSignalled
<1> QED
  BY <1>1, <1>2, <1>3, <1>4, <1>5, <1>6, <1>7, <1>8, <1>9, <1>10, <1>11, <1>12, <1>13,
     <1>14, <1>15, <1>16, <1>17, <1>18, <1>19 DEF Next, ReadStep, HalCall, DriverStep

\* The invariant of the HAL network device (halnet.c on both sides).
THEOREM NetInvariant == Spec => []NetInv
BY NetInitInv, NetNextInv, PTL DEF Spec

\* Types of the device's state; no more packets are read than arrived.
THEOREM NetTypes == Spec => []NetTypeOK
<1>1. NetInv => NetTypeOK
  BY DEF NetInv
<1> QED BY <1>1, NetInvariant, PTL

\* halNetReadPacketToGuest and snull_interrupt lose and repeat no packet.
THEOREM PacketsExactlyOnce == Spec => []ExactlyOnce
<1>1. NetInv => ExactlyOnce
  BY DEF NetInv
<1> QED BY <1>1, NetInvariant, PTL

\* A packet in the receive area always has its interrupt on the way.
THEOREM AreaIsSignalled == Spec => []FullIsSignalled
<1>1. NetInv => FullIsSignalled
  BY DEF NetInv
<1> QED BY <1>1, NetInvariant, PTL

\* The execute loop never overlooks a packet that came with a signal.
THEOREM NoPacketOverlooked == Spec => []TapIsSignalled
<1>1. NetInv => TapIsSignalled
  BY DEF NetInv
<1> QED BY <1>1, NetInvariant, PTL
============================================================================
