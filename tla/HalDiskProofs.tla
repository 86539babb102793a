--------------------------- MODULE HalDiskProofs ---------------------------
(***************************************************************************)
(* Proofs about the HAL disk, for any buffers, units, disk and partition   *)
(* sizes and queue lengths; what is said about where the data goes is for  *)
(* disks whose byte offsets fit in 32 bits (SmallDisk).                    *)
(***************************************************************************)
EXTENDS HalDisk, SequenceTheorems, TLAPS

InTransfer == {"run", "sector", "wait", "end"}

\* The module's life, the timer and the users of the device.
ModuleHonest ==
  /\ drv.loaded = "loading" => ~drv.busy /\ drv.timer = "off"
  /\ drv.timer = "armed" => drv.loaded = "yes"
  /\ drv.usage > 0 => drv.loaded = "yes"
  /\ drv.pc \in InTransfer => drv.loaded = "yes"
  /\ Awaited # {} => drv.usage > 0

\* What is queued is pending, and queued once.
QueueHonest ==
  /\ \A n \in 1 .. Len(queue) : result[queue[n]] = "pending"
  /\ \A m, n \in 1 .. Len(queue) : queue[m] = queue[n] => m = n

\* A transfer has its request, and stays on the disk.
TransferOnDisk ==
  /\ drv.pc \in {"sector", "wait", "end"} => queue # << >>
  /\ drv.pc \in {"sector", "wait"} =>
       LET r == Req[CURRENT] IN
       /\ r.unit \in EnabledUnits
       /\ StartSect(r) + r.sector + r.count <= NumSectors
       /\ drv.i <= r.count
  /\ drv.pc = "wait" => drv.i < Req[CURRENT].count
  /\ call.op \in {"Read", "Write"} => call.sector \in Sectors

DiskInv ==
  /\ DiskTypeOK
  /\ DOMAIN bufs = Bufs
  /\ BusyMeansTimer
  /\ ModuleHonest
  /\ QueueHonest
  /\ TransferOnDisk

----------------------------------------------------------------------------
LEMMA ReqFields ==
  ASSUME NEW b \in Bufs
  PROVE  /\ Req[b].cmd \in {"READ", "WRITE"} /\ Req[b].ahead \in BOOLEAN
         /\ Req[b].unit \in Nat /\ Req[b].part \in BOOLEAN
         /\ Req[b].sector \in Nat /\ Req[b].count \in Nat \ {0}
         /\ StartSect(Req[b]) \in Nat
  BY DiskAssumption DEF ReqType, StartSect

\* end_request gives back the head of the queue; what stays is still pending.
LEMMA EndRequestFacts ==
  ASSUME DiskInv, queue # << >>, NEW ok \in BOOLEAN, EndRequest(ok)
  PROVE  /\ queue' \in Seq(Bufs)
         /\ result' \in [Bufs -> {"none", "pending", "ok", "failed"}]
         /\ QueueHonest'
         /\ \A b \in Bufs : result'[b] = "pending" => result[b] = "pending"
         /\ Awaited' \subseteq Awaited
         /\ moved' = {}
  <1> USE DEF DiskInv, DiskTypeOK, EndRequest, CURRENT
  <1>1. /\ Head(queue) \in Bufs /\ Tail(queue) \in Seq(Bufs)
        /\ Len(Tail(queue)) = Len(queue) - 1 /\ Len(queue) \in Nat
        /\ \A n \in 1 .. Len(Tail(queue)) : Tail(queue)[n] = queue[n + 1]
    BY HeadTailProperties, LenProperties
  <1>2. Head(queue) = queue[1] /\ Len(queue) >= 1
    BY <1>1, EmptySeq
  <1>3. result' \in [Bufs -> {"none", "pending", "ok", "failed"}]
    BY <1>1
  <1>4. \A b \in Bufs : result'[b] = "pending" <=> result[b] = "pending" /\ b # Head(queue)
    BY <1>1
  <1>5. \A n \in 1 .. Len(Tail(queue)) : n + 1 \in 1 .. Len(queue) /\ n + 1 # 1
    BY <1>1
  <1>6. \A n \in 1 .. Len(Tail(queue)) : Tail(queue)[n] \in Bufs /\ Tail(queue)[n] # Head(queue)
    BY <1>1, <1>2, <1>5, ElementOfSeq DEF QueueHonest
  <1>7. QueueHonest'
    <2>1. \A n \in 1 .. Len(queue') : result'[queue'[n]] = "pending"
      BY <1>1, <1>4, <1>5, <1>6 DEF QueueHonest
    <2>2. \A m, n \in 1 .. Len(queue') : queue'[m] = queue'[n] => m = n
      BY <1>1, <1>5 DEF QueueHonest
    <2>3. QED BY <2>1, <2>2 DEF QueueHonest
  <1>8. QED BY <1>1, <1>3, <1>4, <1>7 DEF Awaited

\* Steps that move the driver and leave queue and data alone.
LEMMA ControlInv ==
  ASSUME DiskInv, UNCHANGED <<queue, result, bufs, rwArea, disk, fileNo, moved>>,
         drv' \in DrvType, parts' \in BOOLEAN, call' \in Calls,
         BusyMeansTimer', ModuleHonest', TransferOnDisk'
  PROVE  DiskInv'
  <1>1. DiskTypeOK'
    BY DEF DiskInv, DiskTypeOK
  <1>2. QueueHonest' /\ DOMAIN bufs' = Bufs
    BY DEF DiskInv, QueueHonest
  <1>3. QED BY <1>1, <1>2 DEF DiskInv

LEMMA CallFacts ==
  /\ NoCall \in Calls /\ NoCall.op = "none"
  /\ [op |-> "GetInfo"] \in Calls /\ [op |-> "Cleanup"] \in Calls
  BY DEF NoCall, Calls

\* The module is loaded and unloaded, the device opened, closed, re-read.
LEMMA ModuleInv ==
  ASSUME DiskInv,
         \/ \E irq \in BOOLEAN : ModuleInit(irq)
         \/ \E registered \in BOOLEAN : ModuleReady(registered)
         \/ ModuleGone \/ DiskOpen \/ DiskRelease \/ Revalidate \/ PartitionsRead
         \/ StaleTimerFaults
  PROVE  DiskInv'
  <1> USE DEF DiskInv, DiskTypeOK, GuestRuns, Idle
  <1>1. ASSUME NEW irq \in BOOLEAN, ModuleInit(irq) PROVE DiskInv'
    <2> USE DEF ModuleInit
    <2>1. drv' \in DrvType /\ parts' \in BOOLEAN /\ call' \in Calls
      BY <1>1, CallFacts DEF DrvType
    <2>2. BusyMeansTimer' /\ ModuleHonest' /\ TransferOnDisk'
      BY <1>1 DEF DrvType, BusyMeansTimer, ModuleHonest, TransferOnDisk, Awaited, InTransfer,
                  CURRENT, StartSect
    <2>3. QED BY <1>1, <2>1, <2>2, ControlInv
  <1>2. ASSUME NEW registered \in BOOLEAN, ModuleReady(registered) PROVE DiskInv'
    <2> USE DEF ModuleReady
    <2>1. PICK l \in {"yes", "no"} : drv' = [drv EXCEPT !.loaded = l]
      BY <1>2
    <2>2. drv' \in DrvType /\ parts' \in BOOLEAN /\ call' \in Calls
      BY <1>2, <2>1 DEF DrvType
    <2>3. BusyMeansTimer' /\ ModuleHonest' /\ TransferOnDisk'
      BY <1>2, <2>1 DEF DrvType, BusyMeansTimer, ModuleHonest, TransferOnDisk, Awaited, InTransfer,
                        CURRENT, StartSect
    <2>4. QED BY <1>2, <2>2, <2>3, ControlInv
  <1>3. CASE ModuleGone
    <2> USE DEF ModuleGone
    <2>1. drv' \in DrvType /\ parts' \in BOOLEAN /\ call' \in Calls
      BY <1>3 DEF DrvType
    <2>2. BusyMeansTimer' /\ ModuleHonest' /\ TransferOnDisk'
      BY <1>3 DEF DrvType, BusyMeansTimer, ModuleHonest, TransferOnDisk, Awaited, InTransfer,
                  CURRENT, StartSect
    <2>3. QED BY <1>3, <2>1, <2>2, ControlInv
  <1>4. CASE DiskOpen
    <2> USE DEF DiskOpen
    <2>1. drv' \in DrvType /\ parts' \in BOOLEAN /\ call' \in Calls
      <3>1. drv.usage \in 0 .. MaxOpens /\ MaxOpens \in Nat
        BY DiskAssumption DEF DrvType
      <3>2. drv.usage + 1 \in 0 .. MaxOpens
        BY <1>4, <3>1
      <3>3. drv' \in DrvType
        BY <1>4, <3>2 DEF DrvType
      <3>4. QED BY <1>4, <3>3
    <2>2. BusyMeansTimer' /\ ModuleHonest' /\ TransferOnDisk'
      BY <1>4, DiskAssumption DEF DrvType, BusyMeansTimer, ModuleHonest, TransferOnDisk, Awaited,
                  InTransfer, CURRENT, StartSect
    <2>3. QED BY <1>4, <2>1, <2>2, ControlInv
  <1>5. CASE DiskRelease
    <2> USE DEF DiskRelease
    <2>1. drv' \in DrvType /\ parts' \in BOOLEAN /\ call' \in Calls
      <3>1. drv.usage \in 0 .. MaxOpens /\ MaxOpens \in Nat
        BY DiskAssumption DEF DrvType
      <3>2. drv.usage - 1 \in 0 .. MaxOpens
        BY <1>5, <3>1
      <3>3. drv' \in DrvType
        BY <1>5, <3>2 DEF DrvType
      <3>4. QED BY <1>5, <3>3
    <2>2. BusyMeansTimer' /\ TransferOnDisk'
      BY <1>5 DEF DrvType, BusyMeansTimer, TransferOnDisk, CURRENT, StartSect
    <2>3. /\ drv'.usage = drv.usage - 1 /\ drv.usage \in Nat /\ Awaited' = Awaited
          /\ drv'.loaded = drv.loaded /\ drv'.timer = drv.timer /\ drv'.busy = drv.busy
          /\ drv'.pc = drv.pc /\ result' = result
      BY <1>5, DiskAssumption DEF DrvType, Awaited
    <2>4. ModuleHonest'
      BY <1>5, <2>3 DEF ModuleHonest
    <2>5. QED BY <1>5, <2>1, <2>2, <2>4, ControlInv
  <1>6. CASE Revalidate \/ PartitionsRead
    <2> USE DEF Revalidate, PartitionsRead
    <2>1. drv' \in DrvType /\ call' \in Calls
      BY <1>6
    <2>2. parts' \in BOOLEAN
      BY <1>6
    <2>3. BusyMeansTimer' /\ ModuleHonest' /\ TransferOnDisk'
      BY <1>6 DEF BusyMeansTimer, ModuleHonest, TransferOnDisk, Awaited, InTransfer, CURRENT,
                  StartSect
    <2>4. QED BY <1>6, <2>1, <2>2, <2>3, ControlInv
  <1>7. CASE StaleTimerFaults
    <2> USE DEF StaleTimerFaults
    <2>1. drv' \in DrvType /\ parts' \in BOOLEAN /\ call' \in Calls
      BY <1>7 DEF DrvType
    <2>2. BusyMeansTimer' /\ ModuleHonest' /\ TransferOnDisk'
      BY <1>7 DEF DrvType, BusyMeansTimer, ModuleHonest, TransferOnDisk, Awaited, InTransfer,
                  CURRENT, StartSect
    <2>3. QED BY <1>7, <2>1, <2>2, ControlInv
  <1>8. QED BY <1>1, <1>2, <1>3, <1>4, <1>5, <1>6, <1>7

\* The request function as far as it moves no data.
LEMMA DriverMovesInv ==
  ASSUME DiskInv,
         \/ RunQueue \/ QueueEmpty \/ TransferRefused \/ TransferBegins \/ TransferEnds
         \/ EndByTimer
  PROVE  DiskInv'
  <1> USE DEF DiskInv, DiskTypeOK, GuestRuns, Idle, InLoop
  <1>1. CASE RunQueue
    <2> USE DEF RunQueue
    <2>1. drv' \in DrvType /\ parts' \in BOOLEAN /\ call' \in Calls
      BY <1>1 DEF DrvType
    <2>2. BusyMeansTimer' /\ ModuleHonest' /\ TransferOnDisk'
      BY <1>1 DEF DrvType, BusyMeansTimer, ModuleHonest, TransferOnDisk, Awaited, InTransfer,
                  CURRENT, StartSect
    <2>3. QED BY <1>1, <2>1, <2>2, ControlInv
  <1>2. CASE QueueEmpty
    <2> USE DEF QueueEmpty
    <2>1. drv' \in DrvType /\ parts' \in BOOLEAN /\ call' \in Calls
      BY <1>2 DEF DrvType
    <2>2. BusyMeansTimer' /\ ModuleHonest' /\ TransferOnDisk'
      BY <1>2 DEF DrvType, BusyMeansTimer, ModuleHonest, TransferOnDisk, Awaited, InTransfer,
                  CURRENT, StartSect
    <2>3. QED BY <1>2, <2>1, <2>2, ControlInv
  <1>3. CASE TransferRefused
    <2> USE DEF TransferRefused
    <2>1. drv' \in DrvType /\ parts' \in BOOLEAN /\ call' \in Calls
      BY <1>3 DEF DrvType
    <2>2. BusyMeansTimer' /\ ModuleHonest' /\ TransferOnDisk'
      BY <1>3 DEF DrvType, BusyMeansTimer, ModuleHonest, TransferOnDisk, Awaited, InTransfer,
                  CURRENT, StartSect
    <2>3. QED BY <1>3, <2>1, <2>2, ControlInv
  <1>4. CASE TransferEnds
    <2> USE DEF TransferEnds
    <2>1. drv' \in DrvType /\ parts' \in BOOLEAN /\ call' \in Calls
      BY <1>4 DEF DrvType
    <2>2. BusyMeansTimer' /\ ModuleHonest' /\ TransferOnDisk'
      BY <1>4 DEF DrvType, BusyMeansTimer, ModuleHonest, TransferOnDisk, Awaited, InTransfer,
                  CURRENT, StartSect
    <2>3. QED BY <1>4, <2>1, <2>2, ControlInv
  <1>5. CASE EndByTimer
    <2> USE DEF EndByTimer
    <2>1. drv' \in DrvType /\ parts' \in BOOLEAN /\ call' \in Calls
      BY <1>5 DEF DrvType
    <2>2. BusyMeansTimer' /\ ModuleHonest' /\ TransferOnDisk'
      BY <1>5 DEF DrvType, BusyMeansTimer, ModuleHonest, TransferOnDisk, Awaited, InTransfer,
                  CURRENT, StartSect
    <2>3. QED BY <1>5, <2>1, <2>2, ControlInv
  <1>6. CASE TransferBegins
    <2> USE DEF TransferBegins
    <2>1. drv' \in DrvType /\ parts' \in BOOLEAN /\ call' \in Calls
      BY <1>6 DEF DrvType
    <2>2. /\ drv'.loaded = drv.loaded /\ drv'.timer = drv.timer /\ drv'.busy = drv.busy
          /\ drv'.usage = drv.usage /\ drv'.irq = drv.irq /\ drv'.pc = "sector" /\ drv'.i = 0
      BY <1>6 DEF DrvType
    <2>3. BusyMeansTimer' /\ ModuleHonest'
      BY <1>6, <2>2 DEF BusyMeansTimer, ModuleHonest, Awaited, InTransfer
    <2>4. CURRENT \in Bufs
      BY <1>6, HeadTailProperties DEF CURRENT
    <2>5. StartSect(Req[CURRENT]) + Req[CURRENT].sector + Req[CURRENT].count <= NumSectors
      BY <1>6, <2>4, ReqFields, DiskAssumption DEF Fits, NrSects, StartSect
    <2>6. TransferOnDisk'
      BY <1>6, <2>2, <2>4, <2>5, ReqFields DEF TransferOnDisk, CURRENT, StartSect
    <2>7. QED BY <1>6, <2>1, <2>3, <2>6, ControlInv
  <1>7. QED BY <1>1, <1>2, <1>3, <1>4, <1>5, <1>6

\* halDisk_interrupt, by its own timer or by one of a former instance.
LEMMA InterruptFacts ==
  ASSUME DiskInv, TimerExpires \/ StaleTimerRuns
  PROVE  /\ queue # << >> /\ EndRequest(TRUE) /\ drv.irq
         /\ drv.loaded = "yes" /\ drv.pc = "none" /\ call = NoCall
         /\ UNCHANGED <<bufs, parts, call, rwArea, disk, fileNo>>
         /\ \E q \in {"none", "run"}, st \in BOOLEAN :
              drv' = [drv EXCEPT !.timer = "off", !.stale = st, !.busy = FALSE,
                                 !.status = FALSE, !.pc = q]
  <1>1. drv.stale \in BOOLEAN
    BY DEF DiskInv, DiskTypeOK, DrvType
  <1>2. \E st \in BOOLEAN : HalDiskInterrupt(st)
    BY <1>1 DEF TimerExpires, StaleTimerRuns
  <1>3. PICK st \in BOOLEAN : HalDiskInterrupt(st)
    BY <1>2
  <1>4. /\ queue # << >> /\ drv.irq
        /\ drv.loaded = "yes" /\ drv.pc = "none" /\ call = NoCall
    BY DEF TimerExpires, StaleTimerRuns, Idle, GuestRuns, DiskInv, BusyMeansTimer
  <1>5. \E q \in {"none", "run"} :
          drv' = [drv EXCEPT !.timer = "off", !.stale = st, !.busy = FALSE,
                             !.status = FALSE, !.pc = q]
    BY <1>3 DEF HalDiskInterrupt
  <1>6. QED BY <1>3, <1>4, <1>5 DEF HalDiskInterrupt

\* Steps that end the request at the head of the queue.
LEMMA EndingInv ==
  ASSUME DiskInv, UnknownDevice \/ EndNow \/ TimerExpires \/ StaleTimerRuns
  PROVE  DiskInv'
  <1> USE DEF DiskInv, DiskTypeOK, GuestRuns, Idle, InLoop
  <1>1. /\ queue # << >>
        /\ \E ok \in BOOLEAN : EndRequest(ok)
    <2>1. queue # << >>
      BY InterruptFacts DEF UnknownDevice, EndNow, TransferOnDisk
    <2>2. UnknownDevice \/ TimerExpires \/ StaleTimerRuns => \E ok \in BOOLEAN : EndRequest(ok)
      BY InterruptFacts DEF UnknownDevice
    <2>3. EndNow => EndRequest(drv.status) /\ drv.status \in BOOLEAN
      BY DEF EndNow, DrvType
    <2>4. QED BY <2>1, <2>2, <2>3
  <1>2. /\ queue' \in Seq(Bufs)
        /\ result' \in [Bufs -> {"none", "pending", "ok", "failed"}]
        /\ QueueHonest'
        /\ Awaited' \subseteq Awaited /\ moved' = {}
    BY <1>1, EndRequestFacts
  <1>3. /\ UNCHANGED <<bufs, parts, call, rwArea, disk, fileNo>>
        /\ call = NoCall
    BY InterruptFacts DEF UnknownDevice, EndNow
  <1>4. PICK q \in {"none", "run"} :
          /\ drv'.pc = q /\ drv' \in DrvType
          /\ drv'.loaded = drv.loaded /\ drv'.usage = drv.usage /\ drv'.timer # "armed"
          /\ drv.loaded = "yes" /\ ~drv'.busy
    <2>1. CASE UnknownDevice
      BY <2>1 DEF UnknownDevice, ModuleHonest, BusyMeansTimer, DrvType, InTransfer
    <2>2. CASE EndNow
      <3>1. drv' = [drv EXCEPT !.pc = "run", !.status = FALSE]
        BY <2>2 DEF EndNow
      <3>2. drv.loaded = "yes" /\ ~drv.busy /\ drv.timer = "off"
        BY <2>2 DEF EndNow, ModuleHonest, BusyMeansTimer, DrvType, InTransfer
      <3>3. QED BY <3>1, <3>2 DEF DrvType
    <2>3. CASE TimerExpires \/ StaleTimerRuns
      <3>1. PICK q \in {"none", "run"}, st \in BOOLEAN :
              drv' = [drv EXCEPT !.timer = "off", !.stale = st, !.busy = FALSE,
                                 !.status = FALSE, !.pc = q]
        BY <2>3, InterruptFacts
      <3>2. drv.loaded = "yes"
        BY <2>3, InterruptFacts
      <3>3. QED BY <3>1, <3>2 DEF DrvType
    <2>4. QED BY <2>1, <2>2, <2>3
  <1>5. DiskTypeOK' /\ DOMAIN bufs' = Bufs
    BY <1>2, <1>3, <1>4
  <1>6. BusyMeansTimer'
    BY <1>4 DEF BusyMeansTimer
  <1>7. ModuleHonest'
    BY <1>2, <1>4 DEF ModuleHonest
  <1>8. TransferOnDisk'
    BY <1>3, <1>4, CallFacts DEF TransferOnDisk
  <1>9. QED BY <1>2, <1>5, <1>6, <1>7, <1>8

\* The block layer queues a buffer.
LEMMA SubmitInv ==
  ASSUME DiskInv, NEW b \in Bufs, NEW v \in Vals, Submit(b, v)
  PROVE  DiskInv'
  <1> USE DEF DiskInv, DiskTypeOK, GuestRuns, Idle, Submit
  <1>1. /\ Append(queue, b) \in Seq(Bufs) /\ Append(queue, b) # << >>
        /\ Len(Append(queue, b)) = Len(queue) + 1 /\ Len(queue) \in Nat
        /\ \A n \in 1 .. Len(queue) : Append(queue, b)[n] = queue[n]
        /\ Append(queue, b)[Len(queue) + 1] = b
    BY AppendProperties, LenProperties
  <1>2. \A n \in 1 .. Len(queue) : queue[n] \in Bufs /\ queue[n] # b
    BY ElementOfSeq DEF QueueHonest
  <1>3. QueueHonest'
    <2>1. \A n \in 1 .. Len(queue') : n \in 1 .. Len(queue) \/ n = Len(queue) + 1
      BY <1>1
    <2>2. \A n \in 1 .. Len(queue') : result'[queue'[n]] = "pending"
      BY <1>1, <1>2, <2>1 DEF QueueHonest
    <2>3. \A m, n \in 1 .. Len(queue') : queue'[m] = queue'[n] => m = n
      BY <1>1, <1>2, <2>1 DEF QueueHonest
    <2>4. QED BY <2>2, <2>3 DEF QueueHonest
  <1>4. DOMAIN bufs' = Bufs /\ \A c \in Bufs : bufs'[c] \in [1 .. Req[c].count -> Vals]
    <2>1. CASE Req[b].cmd = "WRITE"
      <3> DEFINE d == [i \in 1 .. Req[b].count |-> v]
      <3>1. d \in [1 .. Req[b].count -> Vals] /\ bufs' = [bufs EXCEPT ![b] = d]
        BY <2>1
      <3> HIDE DEF d
      <3>2. QED BY <3>1
    <2>2. CASE Req[b].cmd # "WRITE"
      BY <2>2
    <2>3. QED BY <2>1, <2>2
  <1>5. result' \in [Bufs -> {"none", "pending", "ok", "failed"}]
    OBVIOUS
  <1>6. DiskTypeOK'
    BY <1>1, <1>4, <1>5
  <1>7. ModuleHonest'
    BY DEF ModuleHonest, InTransfer
  <1>8. BusyMeansTimer' /\ TransferOnDisk'
    BY <1>1 DEF BusyMeansTimer, TransferOnDisk
  <1>9. QED BY <1>3, <1>4, <1>6, <1>7, <1>8

\* halDisk_cleanup: what is still queued was read ahead.
LEMMA CleanupInv ==
  ASSUME DiskInv, ModuleCleanup
  PROVE  DiskInv'
  <1> USE DEF DiskInv, DiskTypeOK, GuestRuns, Idle, ModuleCleanup
  <1>1. PICK st \in BOOLEAN :
          drv' = [drv EXCEPT !.loaded = "unloading", !.timer = "off", !.stale = st]
    <2>1. (drv.stale \/ drv.timer = "armed") \in BOOLEAN
      OBVIOUS
    <2>2. QED BY <2>1
  <1>2. queue' \in Seq(Bufs) /\ Len(queue') = 0
    BY EmptySeq
  <1>3. drv' \in DrvType /\ call' \in Calls /\ call'.op = "Cleanup"
    BY <1>1, CallFacts DEF DrvType
  <1>4. DiskTypeOK' /\ DOMAIN bufs' = Bufs /\ QueueHonest'
    BY <1>2, <1>3 DEF QueueHonest
  <1>5. Awaited = {} /\ Awaited' = {}
    BY DEF ModuleHonest, Awaited
  <1>6. BusyMeansTimer' /\ ModuleHonest'
    BY <1>1, <1>5 DEF DrvType, BusyMeansTimer, ModuleHonest, InTransfer
  <1>7. TransferOnDisk'
    BY <1>1, <1>3 DEF DrvType, TransferOnDisk
  <1>8. QED BY <1>4, <1>6, <1>7

\* A sector on its way: through rwBuffer to the host, and back.
LEMMA SectorInv ==
  ASSUME DiskInv, SectorCall \/ SectorDone
  PROVE  DiskInv'
  <1> USE DEF DiskInv, DiskTypeOK, GuestRuns
  <1>1. /\ queue # << >> /\ CURRENT \in Bufs
        /\ Req[CURRENT].unit \in EnabledUnits
        /\ StartSect(Req[CURRENT]) + Req[CURRENT].sector + Req[CURRENT].count <= NumSectors
        /\ drv.i < Req[CURRENT].count /\ drv.i \in Nat
    <2>1. queue # << >>
      BY DEF SectorCall, SectorDone, TransferOnDisk
    <2>2. CURRENT \in Bufs
      BY <2>1, HeadTailProperties DEF CURRENT
    <2>3. QED BY <2>1, <2>2 DEF SectorCall, SectorDone, TransferOnDisk, DrvType
  <1>2. CURRENT' = CURRENT /\ UNCHANGED <<queue, result, parts, disk, fileNo, moved>>
    BY DEF SectorCall, SectorDone, CURRENT
  <1>3. QueueHonest'
    BY <1>2 DEF QueueHonest
  <1>4. CASE SectorCall
    <2> DEFINE r == Req[CURRENT]
               s == StartSect(r) + r.sector + drv.i
    <2>1. s \in Sectors /\ s \in Nat
      <3>1. /\ StartSect(r) \in Nat /\ r.sector \in Nat /\ r.count \in Nat /\ NumSectors \in Nat
            /\ StartSect(r) + r.sector + r.count <= NumSectors
            /\ drv.i < r.count /\ drv.i \in Nat
        BY <1>1, ReqFields, DiskAssumption
      <3> HIDE DEF r
      <3>2. QED BY <3>1 DEF Sectors
    <2>2. \E o \in {"Read", "Write"} : call' = [op |-> o, unit |-> r.unit, sector |-> s]
      BY <1>4 DEF SectorCall
    <2>3. call' \in Calls /\ call'.op \in {"Read", "Write"} /\ call'.sector \in Sectors
      <3> HIDE DEF s
      <3>1. QED BY <1>1, <2>1, <2>2 DEF Calls
    <2>4. rwArea' \in [EnabledUnits -> Vals]
      <3>1. bufs[CURRENT][drv.i + 1] \in Vals
        <4>1. drv.i + 1 \in 1 .. Req[CURRENT].count
          BY <1>1, ReqFields
        <4>2. QED BY <1>1, <4>1
      <3>2. QED BY <1>1, <1>4, <3>1 DEF SectorCall
    <2>5. drv' = [drv EXCEPT !.pc = "wait"] /\ bufs' = bufs /\ drv.pc = "sector"
      BY <1>4 DEF SectorCall
    <2>6. drv' \in DrvType
      BY <2>5 DEF DrvType
    <2>7. BusyMeansTimer' /\ ModuleHonest'
      BY <1>2, <2>5 DEF DrvType, BusyMeansTimer, ModuleHonest, Awaited, InTransfer
    <2>8. TransferOnDisk'
      <3>1. drv'.pc = "wait" /\ drv'.i = drv.i /\ parts' = parts
        BY <1>2, <2>5 DEF DrvType
      <3>2. StartSect(Req[CURRENT])' = StartSect(Req[CURRENT])
        BY <1>2 DEF StartSect
      <3>3. drv.i <= Req[CURRENT].count
        BY <1>1, ReqFields
      <3> HIDE DEF r, s
      <3>4. QED BY <1>1, <1>2, <2>3, <3>1, <3>2, <3>3 DEF TransferOnDisk
    <2>9. QED BY <1>2, <1>3, <2>3, <2>4, <2>5, <2>6, <2>7, <2>8
  <1>5. CASE SectorDone
    <2>1. /\ drv' = [drv EXCEPT !.pc = "sector", !.i = drv.i + 1]
          /\ UNCHANGED <<call, rwArea>> /\ call = NoCall /\ drv.pc = "wait"
      BY <1>5 DEF SectorDone
    <2>2. /\ drv.i + 1 \in Nat /\ drv.i + 1 <= Req[CURRENT].count
          /\ drv.i + 1 \in 1 .. Req[CURRENT].count
      BY <1>1, ReqFields
    <2>3. drv' \in DrvType /\ drv'.pc = "sector" /\ drv'.i = drv.i + 1
      BY <2>1, <2>2 DEF DrvType
    <2>4. DOMAIN bufs' = Bufs /\ \A b \in Bufs : bufs'[b] \in [1 .. Req[b].count -> Vals]
      <3> DEFINE d == [bufs[CURRENT] EXCEPT ![drv.i + 1] = rwArea[Req[CURRENT].unit]]
      <3>1. d \in [1 .. Req[CURRENT].count -> Vals]
        BY <1>1, <2>2
      <3>2. bufs' = bufs \/ bufs' = [bufs EXCEPT ![CURRENT] = d]
        BY <1>5 DEF SectorDone
      <3> HIDE DEF d
      <3>3. QED BY <1>1, <3>1, <3>2
    <2>5. BusyMeansTimer' /\ ModuleHonest'
      BY <1>2, <2>1 DEF DrvType, BusyMeansTimer, ModuleHonest, Awaited, InTransfer
    <2>6. TransferOnDisk'
      <3>1. StartSect(Req[CURRENT])' = StartSect(Req[CURRENT])
        BY <1>2 DEF StartSect
      <3>2. QED BY <1>1, <1>2, <2>1, <2>2, <2>3, <3>1, CallFacts DEF TransferOnDisk
    <2>7. QED BY <1>2, <1>3, <2>1, <2>3, <2>4, <2>5, <2>6
  <1>6. QED BY <1>4, <1>5

\* The host's side of a call.
LEMMA SeekFacts ==
  ASSUME NEW n \in Sectors
  PROVE  SeekPos(n) \in Sectors /\ (SmallDisk => SeekPos(n) = n)
  BY DiskAssumption DEF Sectors, SeekPos, SeekWrap, SmallDisk

LEMMA DiskCallInv ==
  ASSUME DiskInv, DiskCall
  PROVE  DiskInv'
  <1> USE DEF DiskInv, DiskTypeOK, Answered
  <1>1. call' = NoCall /\ UNCHANGED <<queue, result, bufs, drv, parts>>
    BY DEF DiskCall, HalCallDiskGetInfo, HalCallDiskWrite, HalCallDiskRead, HalCallDiskCleanup
  <1>2. call.op \in {"Read", "Write"} => call.unit \in EnabledUnits /\ call.sector \in Sectors
    BY DEF Calls, NoCall, TransferOnDisk
  <1>3. /\ rwArea' \in [EnabledUnits -> Vals] /\ disk' \in [EnabledUnits -> [Sectors -> Vals]]
        /\ moved' \subseteq EnabledUnits \X Sectors
    <2>1. CASE HalCallDiskWrite
      <3>1. call.unit \in EnabledUnits /\ SeekPos(call.sector) \in Sectors
        BY <1>2, <2>1, SeekFacts DEF HalCallDiskWrite
      <3> DEFINE d == [disk[call.unit] EXCEPT ![SeekPos(call.sector)] = rwArea[call.unit]]
      <3>2. d \in [Sectors -> Vals]
        BY <3>1
      <3>3. disk' = [disk EXCEPT ![call.unit] = d] /\ rwArea' = rwArea
        BY <2>1 DEF HalCallDiskWrite
      <3>4. moved' \subseteq EnabledUnits \X Sectors
        BY <2>1, <3>1 DEF HalCallDiskWrite, SectorMoved
      <3> HIDE DEF d
      <3>5. QED BY <3>1, <3>2, <3>3, <3>4
    <2>2. CASE HalCallDiskRead
      <3>1. call.unit \in EnabledUnits /\ SeekPos(call.sector) \in Sectors
        BY <1>2, <2>2, SeekFacts DEF HalCallDiskRead
      <3>2. QED BY <2>2, <3>1 DEF HalCallDiskRead, SectorMoved
    <2>3. CASE HalCallDiskGetInfo \/ HalCallDiskCleanup
      BY <2>3 DEF HalCallDiskGetInfo, HalCallDiskCleanup
    <2>4. QED BY <2>1, <2>2, <2>3 DEF DiskCall
  <1>4. fileNo' \in {"none", "open", "closed"}
    BY DEF DiskCall, HalCallDiskGetInfo, HalCallDiskWrite, HalCallDiskRead, HalCallDiskCleanup
  <1>5. QueueHonest' /\ BusyMeansTimer' /\ ModuleHonest'
    BY <1>1 DEF QueueHonest, BusyMeansTimer, ModuleHonest, Awaited
  <1>6. TransferOnDisk'
    BY <1>1, CallFacts DEF TransferOnDisk, CURRENT, StartSect
  <1>7. QED BY <1>1, <1>3, <1>4, <1>5, <1>6, CallFacts

LEMMA FreshInv ==
  /\ NoDriver \in DrvType /\ Clean \in Vals
  /\ << >> \in Seq(Bufs) /\ Len(<< >>) = 0
  <1>1. NoDriver \in DrvType
    BY DiskAssumption DEF NoDriver, DrvType
  <1>2. Clean \in Vals
    BY DiskAssumption DEF Clean
  <1>3. QED BY <1>1, <1>2, EmptySeq

LEMMA DiskInitInv == DiskInit => DiskInv
  <1> SUFFICES ASSUME DiskInit PROVE DiskInv
    OBVIOUS
  <1>1. DiskTypeOK /\ DOMAIN bufs = Bufs
    BY FreshInv, CallFacts DEF DiskInit, DiskTypeOK
  <1>2. QueueHonest /\ Awaited = {}
    BY FreshInv DEF DiskInit, QueueHonest, Awaited
  <1>3. BusyMeansTimer /\ ModuleHonest /\ TransferOnDisk
    BY <1>2, CallFacts DEF DiskInit, NoDriver, BusyMeansTimer, ModuleHonest, InTransfer,
                           TransferOnDisk
  <1>4. QED BY <1>1, <1>2, <1>3 DEF DiskInv

LEMMA GuestLostInv ==
  ASSUME DiskInv, GuestLost
  PROVE  DiskInv'
  <1>1. DiskTypeOK' /\ DOMAIN bufs' = Bufs
    BY FreshInv, CallFacts DEF DiskInv, GuestLost, DiskTypeOK
  <1>2. QueueHonest' /\ Awaited' = {}
    BY FreshInv DEF GuestLost, QueueHonest, Awaited
  <1>3. BusyMeansTimer' /\ ModuleHonest' /\ TransferOnDisk'
    BY <1>2, CallFacts DEF GuestLost, NoDriver, BusyMeansTimer, ModuleHonest, InTransfer,
                           TransferOnDisk
  <1>4. QED BY <1>1, <1>2, <1>3 DEF DiskInv

LEMMA DiskNextInv == DiskInv /\ [DiskNext]_diskVars => DiskInv'
  <1>1. DiskInv /\ UNCHANGED diskVars => DiskInv'
    BY DEF diskVars, DiskInv, DiskTypeOK, BusyMeansTimer, ModuleHonest, Awaited, QueueHonest,
           TransferOnDisk, CURRENT, StartSect
  <1>2. ASSUME DiskInv, DiskNext PROVE DiskInv'
    BY <1>2, ModuleInv, DriverMovesInv, EndingInv, SubmitInv, CleanupInv, SectorInv, DiskCallInv,
       GuestLostInv
       DEF DiskNext, DiskGuestCalls, DriverStep, DriverRuns, DiskUsers, StaleTimerExpires
  <1>3. QED BY <1>1, <1>2

----------------------------------------------------------------------------
\* The driver, its queue and its timer keep DiskInv: in particular a transfer that
\* "fits within the device" reads and writes sectors of that device, partition offset
\* included, whatever re-reads of the partition table come before it.
THEOREM DiskInvariant == DiskSpec => []DiskInv
  BY DiskInitInv, DiskNextInv, PTL DEF DiskSpec

\* halDisk_busy and the timer agree, for the request at the head of the queue.
THEOREM BusyIsTimer == DiskSpec => []BusyMeansTimer
  <1>1. DiskInv => BusyMeansTimer
    BY DEF DiskInv
  <1>2. QED BY <1>1, DiskInvariant, PTL

----------------------------------------------------------------------------
(* The refinement of BlockDevice. *)

\* What a call of the guest has to do with the driver that made it: a call for a
\* sector is for the next one of the request at the head of the queue, and the data
\* of a write is in the unit's rwBuffer.
SectorCallHonest ==
  /\ call.op \in {"GetInfo", "Cleanup"} => drv.loaded \in {"loading", "unloading"}
  /\ call.op \in {"Read", "Write"} =>
       LET r == Req[CURRENT] IN
       /\ drv.pc = "wait"
       /\ call.unit = r.unit /\ call.sector = StartSect(r) + r.sector + drv.i
       /\ call.op = "Write" <=> r.cmd = "WRITE"
       /\ r.cmd = "WRITE" => rwArea[r.unit] = bufs[CURRENT][drv.i + 1]

\* Calls are made by three steps of the guest, which waits in them.
LEMMA CallersAre ==
  ASSUME DiskNext, call' # NoCall
  PROVE  (\E irq \in BOOLEAN : ModuleInit(irq)) \/ ModuleCleanup \/ SectorCall
  <1>1. DiskCall \/ GuestLost => call' = NoCall
    BY DEF DiskCall, HalCallDiskGetInfo, HalCallDiskWrite, HalCallDiskRead, HalCallDiskCleanup,
           Answered, GuestLost
  <1>2. \/ \E registered \in BOOLEAN : ModuleReady(registered)
        \/ ModuleGone \/ PartitionsRead \/ RunQueue \/ DriverRuns \/ TimerExpires
        \/ DiskOpen \/ DiskRelease \/ Revalidate \/ StaleTimerExpires
        \/ \E b \in Bufs, v \in Vals : Submit(b, v)
        => call' = NoCall
    BY DEF ModuleReady, ModuleGone, PartitionsRead, RunQueue, DriverRuns, QueueEmpty, UnknownDevice,
           TransferRefused, TransferBegins, SectorDone, TransferEnds, EndNow, EndByTimer,
           TimerExpires, HalDiskInterrupt, DiskOpen, DiskRelease, Revalidate, StaleTimerExpires,
           StaleTimerFaults, StaleTimerRuns, Submit, Idle, InLoop, GuestRuns
  <1>3. QED BY <1>1, <1>2 DEF DiskNext, DiskGuestCalls, DriverStep, DiskUsers

LEMMA SectorCallHonestNext == DiskInv /\ SectorCallHonest /\ [DiskNext]_diskVars => SectorCallHonest'
  <1> SUFFICES ASSUME DiskInv, SectorCallHonest, [DiskNext]_diskVars PROVE SectorCallHonest'
    OBVIOUS
  <1>1. CASE UNCHANGED diskVars
    BY <1>1 DEF diskVars, SectorCallHonest, CURRENT, StartSect
  <1>2. CASE DiskNext /\ call' = NoCall
    BY <1>2, CallFacts DEF SectorCallHonest
  <1>3. ASSUME NEW irq \in BOOLEAN, ModuleInit(irq) PROVE SectorCallHonest'
    BY <1>3 DEF ModuleInit, SectorCallHonest, DiskInv, DiskTypeOK, DrvType
  <1>4. CASE ModuleCleanup
    BY <1>4 DEF ModuleCleanup, SectorCallHonest, DiskInv, DiskTypeOK, DrvType
  <1>5. CASE SectorCall
    <2> DEFINE r == Req[CURRENT]
    <2>1. /\ drv.pc = "sector" /\ queue # << >> /\ CURRENT \in Bufs /\ r.unit \in EnabledUnits
          /\ CURRENT' = CURRENT /\ bufs' = bufs
      BY <1>5, HeadTailProperties
      DEF SectorCall, DiskInv, DiskTypeOK, TransferOnDisk, CURRENT
    <2>2. drv'.pc = "wait" /\ drv'.i = drv.i
      BY <1>5 DEF SectorCall, DiskInv, DiskTypeOK, DrvType
    <2>3. /\ call'.op = IF r.cmd = "WRITE" THEN "Write" ELSE "Read"
          /\ call'.unit = r.unit /\ call'.sector = StartSect(r) + r.sector + drv.i
      BY <1>5 DEF SectorCall
    <2>4. r.cmd = "WRITE" => rwArea'[r.unit] = bufs[CURRENT][drv.i + 1]
      BY <1>5, <2>1 DEF SectorCall, DiskInv, DiskTypeOK
    <2>5. StartSect(r)' = StartSect(r)
      BY <2>1 DEF StartSect
    <2>6. QED BY <2>1, <2>2, <2>3, <2>4, <2>5 DEF SectorCallHonest
  <1>6. QED BY <1>1, <1>2, <1>3, <1>4, <1>5, CallersAre

\* A call that is none is NoCall.
LEMMA CallCases ==
  ASSUME DiskInv
  PROVE  call = NoCall \/ call.op \in {"GetInfo", "Cleanup", "Read", "Write"}
  BY DEF DiskInv, DiskTypeOK, Calls

\* The request at the head of the queue, and the two stages of its transfer.
LEMMA HeadFacts ==
  ASSUME DiskInv
  PROVE  /\ ~(Transferring /\ Transferred)
         /\ queue # << >> => /\ CURRENT \in Bufs /\ CURRENT = queue[1]
                             /\ 1 \in DOMAIN queue /\ DOMAIN queue = 1 .. Len(queue)
                             /\ Len(queue) \in Nat \ {0}
  <1>1. ~(Transferring /\ Transferred)
    BY DEF DiskInv, BusyMeansTimer, Transferring, Transferred
  <1>2. ASSUME queue # << >>
        PROVE  /\ CURRENT \in Bufs /\ CURRENT = queue[1]
               /\ 1 \in DOMAIN queue /\ DOMAIN queue = 1 .. Len(queue)
               /\ Len(queue) \in Nat \ {0}
    <2>1. queue \in Seq(Bufs)
      BY DEF DiskInv, DiskTypeOK
    <2>2. Len(queue) \in Nat \ {0} /\ DOMAIN queue = 1 .. Len(queue)
      BY <1>2, <2>1, EmptySeq, LenProperties
    <2>3. QED BY <1>2, <2>1, <2>2, HeadTailProperties DEF CURRENT
  <1>3. QED BY <1>1, <1>2

\* The device's view when what it depends on stays.
LEMMA DeviceStutters ==
  ASSUME DiskInv, UNCHANGED <<queue, bufs, disk>>,
         Transferring' <=> Transferring, Transferred' <=> Transferred,
         SectorAnswered' <=> SectorAnswered,
         Transferring => drv'.i = drv.i,
         SectorAnswered => rwArea' = rwArea
  PROVE  UNCHANGED <<DeviceStore, DeviceData, DevicePhase, DevicePos>>
  <1>1. CURRENT' = CURRENT
    BY DEF CURRENT
  <1>2. DeviceStore' = DeviceStore
    BY DEF DeviceStore
  <1>3. DevicePhase' = DevicePhase
    BY <1>1 DEF DevicePhase
  <1>4. DevicePos' = DevicePos
    BY <1>1 DEF DevicePos
  <1>5. DeviceData' = DeviceData
    <2>1. SectorAnswered => drv'.i = drv.i
      BY DEF SectorAnswered
    <2>2. QED BY <1>1, <2>1 DEF DeviceData
  <1>6. QED BY <1>2, <1>3, <1>4, <1>5

\* A function that differs from another at one argument.
LEMMA FunctionExcept ==
  ASSUME NEW S, NEW f, NEW g, f = [x \in S |-> f[x]], g = [x \in S |-> g[x]],
         NEW a \in S, NEW e, g[a] = e, \A x \in S : x # a => g[x] = f[x]
  PROVE  g = [f EXCEPT ![a] = e]
  OBVIOUS

\* The mapped state as functions, and the buffers when no answer waits to be copied.
LEMMA DeviceFunctions ==
  /\ DevicePhase = [b \in Bufs |-> DevicePhase[b]]
  /\ DeviceData = [b \in Bufs |-> DeviceData[b]]
  /\ DeviceStore = [us \in EnabledUnits \X Sectors |-> DeviceStore[us]]
  /\ DiskInv /\ ~SectorAnswered => \A b \in Bufs : DeviceData[b] = bufs[b]
  <1>1. DevicePhase = [b \in Bufs |-> DevicePhase[b]]
    BY DEF DevicePhase
  <1>2. DeviceData = [b \in Bufs |-> DeviceData[b]]
    BY DEF DeviceData
  <1>3. DeviceStore = [us \in EnabledUnits \X Sectors |-> DeviceStore[us]]
    BY DEF DeviceStore
  <1>4. ASSUME DiskInv, ~SectorAnswered, NEW b \in Bufs PROVE DeviceData[b] = bufs[b]
    <2>1. bufs[b] \in [1 .. Req[b].count -> Vals]
      BY <1>4 DEF DiskInv, DiskTypeOK
    <2>2. DeviceData[b] = [i \in 1 .. Req[b].count |-> bufs[b][i]]
      BY <1>4 DEF DeviceData
    <2>3. QED BY <2>1, <2>2
  <1>5. QED BY <1>1, <1>2, <1>3, <1>4

LEMMA DeviceFunctionsNext ==
  /\ DevicePhase' = [b \in Bufs |-> DevicePhase'[b]]
  /\ DeviceData' = [b \in Bufs |-> DeviceData'[b]]
  /\ DeviceStore' = [us \in EnabledUnits \X Sectors |-> DeviceStore'[us]]
  /\ DiskInv' /\ ~SectorAnswered' => \A b \in Bufs : DeviceData'[b] = bufs'[b]
  <1>1. (/\ DevicePhase = [b \in Bufs |-> DevicePhase[b]]
         /\ DeviceData = [b \in Bufs |-> DeviceData[b]]
         /\ DeviceStore = [us \in EnabledUnits \X Sectors |-> DeviceStore[us]]
         /\ DiskInv /\ ~SectorAnswered => \A b \in Bufs : DeviceData[b] = bufs[b])'
    BY DeviceFunctions, PTL
  <1>2. QED BY <1>1

LEMMA DataExcept ==
  ASSUME NEW b \in Bufs, NEW d, DeviceData'[b] = d,
         \A c \in Bufs : c # b => DeviceData'[c] = DeviceData[c]
  PROVE  DeviceData' = [DeviceData EXCEPT ![b] = d]
  BY FunctionExcept, DeviceFunctions, DeviceFunctionsNext

\* The mapped extents are as long as the requests.
LEMMA ExtentFacts ==
  ASSUME NEW b \in Bufs
  PROVE  /\ Len(DeviceExtent[b]) = Req[b].count
         /\ \A i \in 1 .. Req[b].count :
              DeviceExtent[b][i] = <<Req[b].unit, StartSect(Req[b]) + Req[b].sector + i - 1>>
  <1> DEFINE P == {<<Req[b].unit, StartSect(Req[b]) + Req[b].sector + i - 1>> :
                     i \in 1 .. Req[b].count}
             f == [i \in 1 .. Req[b].count |->
                     <<Req[b].unit, StartSect(Req[b]) + Req[b].sector + i - 1>>]
  <1>1. Req[b].count \in Nat
    BY ReqFields
  <1>2. f \in [1 .. Req[b].count -> P]
    OBVIOUS
  <1>3. f \in Seq(P)
    <2> HIDE DEF f, P
    <2>1. QED BY <1>1, <1>2, SeqDef
  <1>4. Len(f) = Req[b].count
    <2>1. DOMAIN f = 1 .. Req[b].count
      OBVIOUS
    <2> HIDE DEF f, P
    <2>2. QED BY <1>1, <1>3, <2>1, LenProperties
  <1>5. DeviceExtent[b] = f
    BY DEF DeviceExtent
  <1>6. QED BY <1>4, <1>5

\* Steps of the module, its users and the driver that carry nothing out.
LEMMA DeviceQuiet ==
  ASSUME DiskInv, SectorCallHonest,
         \/ UNCHANGED diskVars
         \/ \E irq \in BOOLEAN : ModuleInit(irq)
         \/ \E registered \in BOOLEAN : ModuleReady(registered)
         \/ ModuleGone \/ DiskOpen \/ DiskRelease \/ Revalidate \/ PartitionsRead
         \/ RunQueue \/ QueueEmpty \/ TransferRefused \/ EndByTimer \/ StaleTimerFaults
         \/ SectorCall \/ HalCallDiskGetInfo \/ HalCallDiskCleanup
  PROVE  UNCHANGED <<DeviceStore, DeviceData, DevicePhase, DevicePos>>
  <1> USE DEF DiskInv, DiskTypeOK, GuestRuns, Idle, InLoop, Transferring, Transferred,
              SectorAnswered
  <1>1. CASE UNCHANGED diskVars
    BY <1>1, DeviceStutters DEF diskVars
  <1>2. ASSUME NEW irq \in BOOLEAN, ModuleInit(irq)
        PROVE  UNCHANGED <<DeviceStore, DeviceData, DevicePhase, DevicePos>>
    <2>1. /\ drv.pc \notin {"sector", "wait", "end"} /\ drv'.pc = drv.pc
          /\ drv.timer = "off" /\ drv'.timer = "off"
          /\ UNCHANGED <<queue, bufs, disk>>
      BY <1>2 DEF ModuleInit, ModuleHonest, InTransfer, DrvType
    <2>2. QED BY <2>1, DeviceStutters
  <1>3. ASSUME NEW registered \in BOOLEAN, ModuleReady(registered)
        PROVE  UNCHANGED <<DeviceStore, DeviceData, DevicePhase, DevicePos>>
    <2>1. PICK l \in {"yes", "no"} : drv' = [drv EXCEPT !.loaded = l]
      BY <1>3 DEF ModuleReady
    <2>2. UNCHANGED <<queue, bufs, disk, rwArea, call>>
      BY <1>3 DEF ModuleReady
    <2>3. drv'.pc = drv.pc /\ drv'.timer = drv.timer /\ drv'.status = drv.status /\ drv'.i = drv.i
      BY <2>1 DEF DrvType
    <2>4. QED BY <2>2, <2>3, DeviceStutters
  <1>4. CASE ModuleGone \/ DiskOpen \/ DiskRelease \/ Revalidate \/ PartitionsRead
    <2>1. UNCHANGED <<queue, bufs, disk, rwArea, call>>
      BY <1>4 DEF ModuleGone, DiskOpen, DiskRelease, Revalidate, PartitionsRead
    <2>2. drv'.pc = drv.pc /\ drv'.timer = drv.timer /\ drv'.status = drv.status /\ drv'.i = drv.i
      BY <1>4 DEF ModuleGone, DiskOpen, DiskRelease, Revalidate, PartitionsRead, DrvType
    <2>3. QED BY <2>1, <2>2, DeviceStutters
  <1>5. CASE RunQueue \/ QueueEmpty \/ TransferRefused
    <2>1. UNCHANGED <<queue, bufs, disk>>
      BY <1>5 DEF RunQueue, QueueEmpty, TransferRefused
    <2>2. drv.pc \in {"none", "run"} /\ drv.timer # "armed"
      BY <1>5 DEF RunQueue, QueueEmpty, TransferRefused, BusyMeansTimer
    <2>3. /\ drv'.pc \in {"none", "run", "end"} /\ drv'.timer = drv.timer
          /\ drv'.pc = "end" => ~drv'.status
      BY <1>5 DEF RunQueue, QueueEmpty, TransferRefused, DrvType
    <2>4. QED BY <2>1, <2>2, <2>3, DeviceStutters
  <1>6. CASE EndByTimer
    <2>1. UNCHANGED <<queue, bufs, disk>> /\ drv.pc = "end" /\ queue # << >>
      BY <1>6 DEF EndByTimer, TransferOnDisk
    <2>2. drv'.pc = "none" /\ drv'.timer = "armed" /\ drv'.status = drv.status
      BY <1>6 DEF EndByTimer, DrvType
    <2>3. QED BY <2>1, <2>2, DeviceStutters
  <1>7. CASE StaleTimerFaults
    <2>1. UNCHANGED <<queue, bufs, disk>> /\ drv.pc = "none"
      BY <1>7 DEF StaleTimerFaults
    <2>2. drv'.pc = "oops" /\ drv'.timer = drv.timer /\ drv'.status = drv.status
      BY <1>7 DEF StaleTimerFaults, DrvType
    <2>3. QED BY <2>1, <2>2, DeviceStutters
  <1>8. CASE SectorCall
    <2>1. UNCHANGED <<queue, bufs, disk>> /\ drv.pc = "sector" /\ call'.op \in {"Read", "Write"}
      BY <1>8 DEF SectorCall
    <2>2. call' # NoCall
      BY <2>1, CallFacts
    <2>3. drv'.pc = "wait" /\ drv'.timer = drv.timer /\ drv'.status = drv.status /\ drv'.i = drv.i
      BY <1>8 DEF SectorCall, DrvType
    <2>4. QED BY <2>1, <2>2, <2>3, DeviceStutters
  <1>9. CASE HalCallDiskGetInfo \/ HalCallDiskCleanup
    <2>1. UNCHANGED <<queue, bufs, disk, drv, rwArea>> /\ call.op \in {"GetInfo", "Cleanup"}
      BY <1>9 DEF HalCallDiskGetInfo, HalCallDiskCleanup
    <2>2. drv.pc # "wait"
      BY <2>1 DEF SectorCallHonest, ModuleHonest, InTransfer
    <2>3. QED BY <2>1, <2>2, DeviceStutters
  <1>10. QED BY <1>1, <1>2, <1>3, <1>4, <1>5, <1>6, <1>7, <1>8, <1>9

\* A read copies what the host answered, and the transfer of the last sector is over:
\* the device has seen both already.
LEMMA DeviceKnows ==
  ASSUME DiskInv, SectorDone \/ TransferEnds
  PROVE  UNCHANGED <<DeviceStore, DeviceData, DevicePhase, DevicePos>>
  <1> USE DEF DiskInv, DiskTypeOK, GuestRuns
  <1>1. /\ queue # << >> /\ CURRENT \in Bufs /\ UNCHANGED <<queue, disk, call, rwArea>>
        /\ call = NoCall /\ CURRENT' = CURRENT
    BY HeadFacts DEF SectorDone, TransferEnds, TransferOnDisk, CURRENT
  <1>2. drv.i \in Nat /\ drv.timer # "armed"
    BY DEF DrvType, BusyMeansTimer, SectorDone, TransferEnds
  <1>3. DeviceStore' = DeviceStore
    BY <1>1 DEF DeviceStore
  <1>4. CASE SectorDone
    <2>1. drv.pc = "wait" /\ drv'.pc = "sector" /\ drv'.timer = drv.timer /\ drv'.i = drv.i + 1
      BY <1>4 DEF SectorDone, DrvType
    <2>2. /\ Transferring /\ Transferring' /\ ~Transferred /\ ~Transferred'
          /\ SectorAnswered /\ ~SectorAnswered'
      BY <1>1, <1>2, <2>1 DEF Transferring, Transferred, SectorAnswered
    <2>3. DevicePhase' = DevicePhase
      BY <1>1, <2>2 DEF DevicePhase
    <2>4. DevicePos' = DevicePos
      BY <1>1, <1>2, <2>1, <2>2 DEF DevicePos
    <2>5. ASSUME NEW b \in Bufs, NEW i \in 1 .. Req[b].count
          PROVE  bufs'[b][i] = IF Req[b].cmd = "READ" /\ b = CURRENT /\ i = drv.i + 1
                               THEN rwArea[Req[b].unit] ELSE bufs[b][i]
      <3>1. CASE Req[CURRENT].cmd = "READ"
        <4> DEFINE d == [bufs[CURRENT] EXCEPT ![drv.i + 1] = rwArea[Req[CURRENT].unit]]
        <4>1. bufs' = [bufs EXCEPT ![CURRENT] = d]
          BY <1>4, <3>1 DEF SectorDone
        <4>2. b # CURRENT => bufs'[b] = bufs[b]
          BY <4>1
        <4>3. bufs'[CURRENT] = d
          BY <1>1, <4>1
        <4>4. b = CURRENT => d[i] = IF i = drv.i + 1 THEN rwArea[Req[b].unit] ELSE bufs[b][i]
          OBVIOUS
        <4>5. QED BY <3>1, <4>2, <4>3, <4>4
      <3>2. CASE Req[CURRENT].cmd # "READ"
        BY <1>4, <3>2 DEF SectorDone
      <3>3. QED BY <3>1, <3>2
    <2>6. DeviceData' = DeviceData
      BY <1>1, <2>2, <2>5 DEF DeviceData
    <2>7. QED BY <1>3, <2>3, <2>4, <2>6
  <1>5. CASE TransferEnds
    <2>1. /\ drv.pc = "sector" /\ drv.i = Req[CURRENT].count /\ bufs' = bufs
          /\ drv'.pc = "end" /\ drv'.status
      BY <1>5 DEF TransferEnds, DrvType
    <2>2. /\ Transferring /\ ~Transferring' /\ ~Transferred /\ Transferred'
          /\ ~SectorAnswered /\ ~SectorAnswered'
      BY <1>1, <1>2, <2>1 DEF Transferring, Transferred, SectorAnswered
    <2>3. DevicePhase' = DevicePhase
      BY <1>1, <2>2 DEF DevicePhase
    <2>4. DevicePos' = DevicePos
      BY <1>1, <1>2, <2>1, <2>2 DEF DevicePos
    <2>5. DeviceData' = DeviceData
      BY <1>1, <2>1, <2>2 DEF DeviceData
    <2>6. QED BY <1>3, <2>3, <2>4, <2>5
  <1>6. QED BY <1>4, <1>5

\* A buffer is queued, behind the others.
LEMMA DeviceSubmits ==
  ASSUME DiskInv, NEW b \in Bufs, NEW v \in Vals, Submit(b, v)
  PROVE  Device!Submit(b)
  <1> USE DEF DiskInv, DiskTypeOK, GuestRuns, Idle, Submit
  <1>1. /\ DOMAIN queue = 1 .. Len(queue) /\ Len(queue) \in Nat
        /\ DOMAIN queue' = 1 .. Len(queue) + 1 /\ queue' # << >>
        /\ \A n \in 1 .. Len(queue) : queue'[n] = queue[n]
        /\ queue'[Len(queue) + 1] = b
    <2>1. Append(queue, b) \in Seq(Bufs)
      BY AppendProperties
    <2>2. QED BY <2>1, AppendProperties, LenProperties
  <1>2. \A n \in 1 .. Len(queue) : queue[n] # b
    BY ElementOfSeq DEF QueueHonest
  <1>3. queue # << >> => CURRENT' = CURRENT /\ CURRENT \in Bufs /\ CURRENT # b
    <2>1. ASSUME queue # << >> PROVE CURRENT' = CURRENT /\ CURRENT \in Bufs /\ CURRENT # b
      <3>1. CURRENT = queue[1] /\ 1 \in 1 .. Len(queue) /\ CURRENT \in Bufs
        BY <2>1, HeadFacts
      <3>2. queue' \in Seq(Bufs)
        BY AppendProperties
      <3>3. CURRENT' = queue'[1]
        BY <1>1, <3>2, HeadTailProperties DEF CURRENT
      <3>4. QED BY <1>1, <1>2, <3>1, <3>3
    <2>2. QED BY <2>1
  <1>4. /\ ~Transferring /\ ~Transferring' /\ ~SectorAnswered /\ ~SectorAnswered'
        /\ Transferred' <=> Transferred
    BY <1>1 DEF Transferring, Transferred, SectorAnswered, BusyMeansTimer
  <1>5. DeviceStore' = DeviceStore
    BY DEF DeviceStore
  <1>6. DevicePos' = DevicePos
    BY <1>1, <1>3, <1>4 DEF DevicePos, Transferred
  <1>7. DevicePhase[b] = "idle" /\ DevicePhase' = [DevicePhase EXCEPT ![b] = "queued"]
    <2>1. DevicePhase[b] = "idle"
      BY <1>1, <1>2 DEF DevicePhase
    <2>2. DevicePhase'[b] = "queued"
      <3>1. \E n \in DOMAIN queue' : queue'[n] = b
        BY <1>1
      <3>2. ~(b = CURRENT' /\ (Transferring' \/ Transferred'))
        BY <1>3, <1>4 DEF Transferred
      <3>3. QED BY <3>1, <3>2 DEF DevicePhase
    <2>3. ASSUME NEW c \in Bufs, c # b PROVE DevicePhase'[c] = DevicePhase[c]
      <3>1. (\A n \in DOMAIN queue' : queue'[n] # c) <=> (\A n \in DOMAIN queue : queue[n] # c)
        BY <1>1, <2>3
      <3>2. CASE queue = << >>
        BY <1>1, <3>1, <3>2 DEF DevicePhase
      <3>3. CASE queue # << >>
        BY <1>3, <1>4, <3>1, <3>3 DEF DevicePhase
      <3>4. QED BY <3>2, <3>3
    <2>4. DevicePhase' = [DevicePhase EXCEPT ![b] = "queued"]
      BY <2>2, <2>3, FunctionExcept, DeviceFunctions, DeviceFunctionsNext, Zenon
    <2>5. QED BY <2>1, <2>4
  <1>8. \E d \in [1 .. Len(DeviceExtent[b]) -> Vals] : DeviceData' = [DeviceData EXCEPT ![b] = d]
    <2>1. DiskInv'
      BY SubmitInv
    <2>2. \A c \in Bufs : DeviceData[c] = bufs[c] /\ DeviceData'[c] = bufs'[c]
      BY <1>4, <2>1, DeviceFunctions, DeviceFunctionsNext
    <2>3. bufs'[b] \in [1 .. Len(DeviceExtent[b]) -> Vals]
      BY <2>1, ExtentFacts
    <2>4. \A c \in Bufs : c # b => bufs'[c] = bufs[c]
      OBVIOUS
    <2>5. \A c \in Bufs : c # b => DeviceData'[c] = DeviceData[c]
      BY <2>2, <2>4
    <2>6. PICK d \in [1 .. Len(DeviceExtent[b]) -> Vals] : DeviceData'[b] = d
      BY <2>2, <2>3
    <2>7. DeviceData' = [DeviceData EXCEPT ![b] = d]
      BY <2>5, <2>6, DataExcept
    <2>8. QED BY <2>7
  <1>9. QED BY <1>5, <1>6, <1>7, <1>8 DEF Device!Submit

\* halDisk_transfer accepts the request at the head of the queue.
LEMMA DeviceStarts ==
  ASSUME DiskInv, TransferBegins
  PROVE  CURRENT \in Bufs /\ Device!Start(CURRENT)
  <1> USE DEF DiskInv, DiskTypeOK, GuestRuns, InLoop, TransferBegins
  <1>1. /\ queue # << >> /\ CURRENT \in Bufs
        /\ UNCHANGED <<queue, bufs, disk>> /\ CURRENT' = CURRENT
        /\ \E n \in DOMAIN queue : queue[n] = CURRENT
    BY HeadFacts DEF CURRENT
  <1>2. /\ drv.pc = "run" /\ drv.timer # "armed"
        /\ drv'.pc = "sector" /\ drv'.timer = drv.timer /\ drv'.i = 0
    BY DEF DrvType, BusyMeansTimer
  <1>3. /\ ~Transferring /\ Transferring' /\ ~Transferred /\ ~Transferred'
        /\ ~SectorAnswered /\ ~SectorAnswered'
    BY <1>1, <1>2 DEF Transferring, Transferred, SectorAnswered
  <1>4. DeviceStore' = DeviceStore /\ DeviceData' = DeviceData
    BY <1>1, <1>3 DEF DeviceStore, DeviceData
  <1>5. DevicePos' = 0
    BY <1>1, <1>2, <1>3 DEF DevicePos
  <1>6. DevicePhase[CURRENT] = "queued" /\ Device!NoneActive
    BY <1>1, <1>3 DEF DevicePhase, Device!NoneActive
  <1>7. DevicePhase' = [DevicePhase EXCEPT ![CURRENT] = "active"]
    BY <1>1, <1>3 DEF DevicePhase
  <1>8. QED BY <1>1, <1>4, <1>5, <1>6, <1>7 DEF Device!Start

\* The host answers a read or a write: one more sector is carried out.
LEMMA DeviceMoves ==
  ASSUME SmallDisk, DiskInv, SectorCallHonest, HalCallDiskWrite \/ HalCallDiskRead
  PROVE  /\ CURRENT \in Bufs /\ Device!Move(CURRENT)
         /\ queue # << >> /\ CURRENT' = CURRENT /\ queue' = queue
         /\ DevicePos = drv.i /\ DevicePos' = drv.i + 1 /\ drv.i \in Nat
         /\ call.unit = Req[CURRENT].unit
         /\ SeekPos(call.sector) = StartSect(Req[CURRENT]) + Req[CURRENT].sector + drv.i
  <1> DEFINE b == CURRENT
             u == Req[b].unit
             s == StartSect(Req[b]) + Req[b].sector + drv.i
  <1> USE DEF DiskInv, DiskTypeOK, Answered
  <1>1. /\ call.op \in {"Read", "Write"} /\ call' = NoCall /\ call # NoCall
        /\ UNCHANGED <<queue, bufs, drv>> /\ CURRENT' = CURRENT
    BY CallFacts DEF HalCallDiskWrite, HalCallDiskRead, CURRENT
  <1>2. /\ drv.pc = "wait" /\ call.unit = u /\ call.sector = s
        /\ call.op = "Write" <=> Req[b].cmd = "WRITE"
        /\ Req[b].cmd = "WRITE" => rwArea[u] = bufs[b][drv.i + 1]
    BY <1>1 DEF SectorCallHonest
  <1>3. queue # << >> /\ b \in Bufs /\ drv.i \in Nat /\ drv.i < Req[b].count /\ u \in EnabledUnits
        /\ s \in Sectors /\ SeekPos(call.sector) = s /\ Req[b].count \in Nat
    <2>1. s \in Sectors
      BY <1>1, <1>2 DEF TransferOnDisk
    <2>2. SeekPos(call.sector) = s
      <3> HIDE DEF s
      <3>1. QED BY <1>2, <2>1, SeekFacts
    <2>3. QED BY <1>1, <1>2, <2>1, <2>2, HeadFacts, ReqFields DEF TransferOnDisk, DrvType
  <1>4. \E n \in DOMAIN queue : queue[n] = b
    BY <1>3, HeadFacts
  <1>5. /\ Transferring /\ Transferring' /\ ~Transferred /\ ~Transferred'
        /\ ~SectorAnswered /\ SectorAnswered'
    BY <1>1, <1>2, <1>3 DEF Transferring, Transferred, SectorAnswered, BusyMeansTimer
  <1>6. DevicePhase[b] = "active" /\ DevicePhase' = DevicePhase
    BY <1>1, <1>3, <1>4, <1>5 DEF DevicePhase
  <1>7. DevicePos = drv.i /\ DevicePos' = drv.i + 1
    BY <1>1, <1>3, <1>5 DEF DevicePos
  <1>8. drv.i + 1 \in 1 .. Req[b].count
    BY <1>3
  <1>9. Len(DeviceExtent[b]) = Req[b].count /\ DeviceExtent[b][drv.i + 1] = <<u, s>>
    <2>1. /\ Len(DeviceExtent[b]) = Req[b].count
          /\ DeviceExtent[b][drv.i + 1] = <<u, StartSect(Req[b]) + Req[b].sector + (drv.i + 1) - 1>>
      BY <1>3, <1>8, ExtentFacts
    <2>2. StartSect(Req[b]) + Req[b].sector + (drv.i + 1) - 1 = s
      BY <1>3, ReqFields
    <2>3. QED BY <2>1, <2>2
  <1>10. \A c \in Bufs : DeviceData[c] = bufs[c]
    BY <1>5, DeviceFunctions
  <1>11. CASE HalCallDiskWrite
    <2>1. Req[b].cmd = "WRITE" /\ UNCHANGED rwArea /\ disk' = [disk EXCEPT ![u][s] = rwArea[u]]
      BY <1>2, <1>3, <1>11 DEF HalCallDiskWrite
    <2>2. DeviceData' = DeviceData
      BY <1>1, <1>5, <2>1 DEF DeviceData
    <2>3. DeviceStore' = [DeviceStore EXCEPT ![<<u, s>>] = rwArea[u]]
      <3> HIDE DEF b, u, s
      <3>1. \A x \in EnabledUnits, y \in Sectors :
              disk'[x][y] = IF x = u /\ y = s THEN rwArea[u] ELSE disk[x][y]
        BY <1>3, <2>1
      <3>2. DeviceStore'[<<u, s>>] = rwArea[u]
        BY <1>3, <3>1 DEF DeviceStore
      <3>3. \A us \in EnabledUnits \X Sectors : us # <<u, s>> => DeviceStore'[us] = DeviceStore[us]
        BY <3>1 DEF DeviceStore
      <3>4. <<u, s>> \in EnabledUnits \X Sectors
        BY <1>3
      <3>5. QED BY <3>2, <3>3, <3>4, FunctionExcept, DeviceFunctions, DeviceFunctionsNext
    <2>4. rwArea[u] = DeviceData[b][drv.i + 1]
      BY <1>2, <1>3, <1>10, <2>1
    <2>5. Device!Move(CURRENT)
      BY <1>3, <1>6, <1>7, <1>9, <2>1, <2>2, <2>3, <2>4 DEF Device!Move
    <2>6. QED BY <1>1, <1>2, <1>3, <1>7, <2>5
  <1>12. CASE HalCallDiskRead
    <2>1. Req[b].cmd = "READ" /\ UNCHANGED disk /\ rwArea' = [rwArea EXCEPT ![u] = disk[u][s]]
      BY <1>2, <1>3, <1>12, ReqFields DEF HalCallDiskRead
    <2>2. DeviceStore' = DeviceStore /\ DeviceStore[<<u, s>>] = disk[u][s]
      BY <1>3, <2>1 DEF DeviceStore
    <2>3. rwArea'[u] = disk[u][s]
      BY <1>3, <2>1
    <2>4. DeviceData' = [DeviceData EXCEPT ![b][drv.i + 1] = disk[u][s]]
      <3> DEFINE d == [DeviceData[b] EXCEPT ![drv.i + 1] = disk[u][s]]
      <3>1. DeviceData'[b] = d
        BY <1>1, <1>3, <1>5, <2>1, <2>3 DEF DeviceData
      <3>2. \A c \in Bufs : c # b => DeviceData'[c] = DeviceData[c]
        <4>1. ASSUME NEW c \in Bufs, c # b PROVE DeviceData'[c] = DeviceData[c]
          BY <1>1, <4>1 DEF DeviceData
        <4>2. QED BY <4>1
      <3>3. DeviceData' = [DeviceData EXCEPT ![b] = d]
        <4> HIDE DEF d, b
        <4>1. QED BY <1>3, <3>1, <3>2, DataExcept
      <3>4. QED BY <3>3
    <2>5. b \notin {c \in Bufs : Req[c].cmd = "WRITE"}
      BY <2>1
    <2>6. Device!Move(CURRENT)
      BY <1>3, <1>6, <1>7, <1>9, <2>2, <2>4, <2>5 DEF Device!Move
    <2>7. QED BY <1>1, <1>2, <1>3, <1>7, <2>6
  <1>13. QED BY <1>1, <1>2, <1>3, <1>7, <1>11, <1>12

\* end_request gives back a buffer that is carried out, or that was not begun.
LEMMA DeviceEnds ==
  ASSUME DiskInv, UnknownDevice \/ EndNow \/ TimerExpires \/ StaleTimerRuns
  PROVE  CURRENT \in Bufs /\ Device!End(CURRENT)
  <1> USE DEF DiskInv, DiskTypeOK, GuestRuns, Idle, InLoop
  <1>1. queue # << >>
    BY InterruptFacts DEF UnknownDevice, EndNow, TransferOnDisk
  <1>2. /\ CURRENT \in Bufs /\ CURRENT = queue[1] /\ 1 \in DOMAIN queue
        /\ DOMAIN queue = 1 .. Len(queue) /\ Len(queue) \in Nat \ {0}
    BY <1>1, HeadFacts
  <1>3. queue' = Tail(queue) /\ UNCHANGED <<bufs, disk>>
    BY InterruptFacts DEF UnknownDevice, EndNow, EndRequest
  <1>4. /\ DOMAIN queue' = 1 .. Len(queue) - 1
        /\ \A n \in 1 .. Len(queue) - 1 : queue'[n] = queue[n + 1]
    BY <1>1, <1>3, HeadTailProperties, LenProperties
  <1>5. drv.pc \notin {"sector", "wait"} /\ drv'.pc \in {"none", "run"} /\ drv'.timer # "armed"
    <2>1. CASE UnknownDevice
      BY <2>1 DEF UnknownDevice, BusyMeansTimer
    <2>2. CASE EndNow
      BY <2>2 DEF EndNow, BusyMeansTimer, DrvType
    <2>3. CASE TimerExpires \/ StaleTimerRuns
      <3>1. PICK q \in {"none", "run"}, st \in BOOLEAN :
              drv' = [drv EXCEPT !.timer = "off", !.stale = st, !.busy = FALSE,
                                 !.status = FALSE, !.pc = q]
        BY <2>3, InterruptFacts
      <3>2. drv.pc = "none"
        BY <2>3, InterruptFacts
      <3>3. QED BY <3>1, <3>2 DEF DrvType
    <2>4. QED BY <2>1, <2>2, <2>3
  <1>6. /\ ~Transferring /\ ~Transferring' /\ ~Transferred' /\ ~SectorAnswered /\ ~SectorAnswered'
    BY <1>5 DEF Transferring, Transferred, SectorAnswered
  <1>7. DeviceStore' = DeviceStore /\ DeviceData' = DeviceData
    BY <1>3, <1>6 DEF DeviceStore, DeviceData
  <1>8. DevicePos' = 0
    BY <1>6 DEF DevicePos
  <1>9. \/ DevicePhase[CURRENT] = "queued"
        \/ DevicePhase[CURRENT] = "active" /\ DevicePos = Len(DeviceExtent[CURRENT])
    <2>1. ~ \A n \in DOMAIN queue : queue[n] # CURRENT
      BY <1>2
    <2>2. CASE Transferred
      BY <1>1, <1>2, <2>1, <2>2, ExtentFacts DEF DevicePhase, DevicePos
    <2>3. CASE ~Transferred
      BY <1>2, <1>6, <2>1, <2>3 DEF DevicePhase
    <2>4. QED BY <2>2, <2>3
  <1>10. DevicePhase' = [DevicePhase EXCEPT ![CURRENT] = "idle"]
    <2>1. \A n \in DOMAIN queue' : n + 1 \in 1 .. Len(queue) /\ n + 1 # 1
      BY <1>2, <1>4
    <2>2. \A n \in DOMAIN queue' : queue'[n] # CURRENT
      BY <1>2, <1>4, <2>1 DEF QueueHonest
    <2>3. DevicePhase'[CURRENT] = "idle"
      BY <1>2, <2>2 DEF DevicePhase
    <2>4. ASSUME NEW c \in Bufs, c # CURRENT PROVE DevicePhase'[c] = DevicePhase[c]
      <3>1. ASSUME NEW n \in DOMAIN queue, queue[n] = c PROVE \E m \in DOMAIN queue' : queue'[m] = c
        <4>1. n # 1 /\ n \in 1 .. Len(queue)
          BY <1>2, <2>4, <3>1
        <4>2. n - 1 \in 1 .. Len(queue) - 1 /\ (n - 1) + 1 = n
          BY <1>2, <4>1
        <4>3. queue'[n - 1] = c
          BY <1>4, <3>1, <4>2
        <4>4. QED BY <1>4, <4>2, <4>3
      <3>2. ASSUME NEW n \in DOMAIN queue', queue'[n] = c PROVE \E m \in DOMAIN queue : queue[m] = c
        BY <1>2, <1>4, <2>1, <3>2
      <3>3. QED BY <1>6, <2>4, <3>1, <3>2 DEF DevicePhase
    <2>5. QED BY <1>2, <2>3, <2>4, FunctionExcept, DeviceFunctions, DeviceFunctionsNext
  <1>11. QED BY <1>2, <1>7, <1>8, <1>9, <1>10 DEF Device!End

\* halDisk_cleanup drops what it has not begun; the guest takes its buffers with it.
LEMMA DeviceStops ==
  /\ DiskInv /\ ModuleCleanup => Device!Withdraw
  /\ GuestLost => Device!PowerOff
  <1>1. ASSUME queue' = << >>
        PROVE  DevicePhase' = [b \in Bufs |-> "idle"] /\ DevicePos' = 0 /\ ~SectorAnswered'
    BY <1>1 DEF DevicePhase, DevicePos, SectorAnswered, Transferring, Transferred
  <1>2. ASSUME DiskInv, ModuleCleanup PROVE Device!Withdraw
    <2>1. queue' = << >> /\ UNCHANGED <<bufs, disk>> /\ drv.pc = "none"
      BY <1>2 DEF ModuleCleanup, Idle
    <2>2. ~SectorAnswered /\ ~Transferring
      BY <2>1 DEF SectorAnswered, Transferring
    <2>3. DeviceStore' = DeviceStore /\ DeviceData' = DeviceData
      BY <1>1, <2>1, <2>2 DEF DeviceStore, DeviceData
    <2>4. ASSUME NEW b \in Bufs, DevicePhase[b] = "active" PROVE DevicePos = Len(DeviceExtent[b])
      <3>1. queue # << >> /\ b = CURRENT /\ Transferred
        BY <2>2, <2>4 DEF DevicePhase, Transferred
      <3>2. QED BY <3>1, ExtentFacts DEF DevicePos
    <2>5. QED BY <1>1, <2>1, <2>3, <2>4 DEF Device!Withdraw
  <1>3. ASSUME GuestLost PROVE Device!PowerOff
    <2>1. queue' = << >> /\ UNCHANGED disk
      BY <1>3 DEF GuestLost
    <2>2. DeviceStore' = DeviceStore
      BY <2>1 DEF DeviceStore
    <2>3. QED BY <1>1, <2>1, <2>2 DEF Device!PowerOff
  <1>4. QED BY <1>2, <1>3

LEMMA DeviceNext ==
  SmallDisk /\ DiskInv /\ SectorCallHonest /\ [DiskNext]_diskVars => [Device!Next]_(Device!vars)
  <1> SUFFICES ASSUME SmallDisk, DiskInv, SectorCallHonest, [DiskNext]_diskVars
               PROVE  Device!Next \/ UNCHANGED <<DeviceStore, DeviceData, DevicePhase, DevicePos>>
    BY DEF Device!vars
  <1>1. CASE \E b \in Bufs, v \in Vals : Submit(b, v)
    BY <1>1, DeviceSubmits DEF Device!Next
  <1>2. CASE TransferBegins
    BY <1>2, DeviceStarts DEF Device!Next
  <1>3. CASE HalCallDiskWrite \/ HalCallDiskRead
    BY <1>3, DeviceMoves DEF Device!Next
  <1>4. CASE UnknownDevice \/ EndNow \/ TimerExpires \/ StaleTimerRuns
    BY <1>4, DeviceEnds DEF Device!Next
  <1>5. CASE ModuleCleanup \/ GuestLost
    BY <1>5, DeviceStops DEF Device!Next
  <1>6. CASE SectorDone \/ TransferEnds
    BY <1>6, DeviceKnows
  <1>7. CASE \/ UNCHANGED diskVars
             \/ \E irq \in BOOLEAN : ModuleInit(irq)
             \/ \E registered \in BOOLEAN : ModuleReady(registered)
             \/ ModuleGone \/ DiskOpen \/ DiskRelease \/ Revalidate \/ PartitionsRead
             \/ RunQueue \/ QueueEmpty \/ TransferRefused \/ EndByTimer \/ StaleTimerFaults
             \/ SectorCall \/ HalCallDiskGetInfo \/ HalCallDiskCleanup
    BY <1>7, DeviceQuiet
  <1>8. QED
    BY <1>1, <1>2, <1>3, <1>4, <1>5, <1>6, <1>7
    DEF DiskNext, DiskGuestCalls, DriverStep, DriverRuns, DiskUsers, DiskCall, StaleTimerExpires

\* halDisk_transfer, end_request and halDiskCall together implement a block device, for
\* any buffers and any disks whose byte offsets fit in 32 bits: each sector of a buffer is
\* carried out once, in order, at its own place and with its own data, although all of them
\* go through one page per unit and the guest is stopped between filling the page and the
\* answer.  The step of the device is the host's answer; what the driver does before and
\* after it is invisible, and a timer left behind by a former instance, which may end a
\* request before its turn, cannot make the device do half of one.
THEOREM DiskIsBlockDevice == SmallDisk /\ DiskSpec => DeviceSpec
  <1> SUFFICES ASSUME SmallDisk PROVE DiskSpec => DeviceSpec
    OBVIOUS
  <1>1. DiskInit => SectorCallHonest
    BY CallFacts DEF DiskInit, SectorCallHonest
  <1>2. DiskInit => Device!Init
    BY DEF DiskInit, NoDriver, Device!Init, DevicePhase, DevicePos, Transferring, Transferred
  <1>3. DiskSpec => []SectorCallHonest
    BY <1>1, SectorCallHonestNext, DiskInvariant, PTL DEF DiskSpec
  <1>4. DiskInv /\ SectorCallHonest /\ [DiskNext]_diskVars => [Device!Next]_(Device!vars)
    BY DeviceNext
  <1>5. QED
    BY <1>2, <1>3, <1>4, DiskInvariant, PTL DEF DiskSpec, DeviceSpec, Device!Spec

----------------------------------------------------------------------------
(* What end_request says. *)

\* The host has moved, for the request at the head of the queue, what the device has
\* carried out of it.
MovedHonest == moved = IF queue = << >> THEN {} ELSE FirstSectors(CURRENT, DevicePos)

LEMMA FirstSectorsFacts ==
  ASSUME NEW b \in Bufs, NEW n \in Nat
  PROVE  /\ FirstSectors(b, 0) = {}
         /\ FirstSectors(b, n + 1) =
              FirstSectors(b, n) \cup {<<Req[b].unit, StartSect(Req[b]) + Req[b].sector + n>>}
  <1>1. 0 .. 0 - 1 = {}
    OBVIOUS
  <1>2. 0 .. (n + 1) - 1 = (0 .. n - 1) \cup {n}
    OBVIOUS
  <1>3. FirstSectors(b, 0) = {}
    BY <1>1 DEF FirstSectors
  <1>4. QED BY <1>2, <1>3, Zenon DEF FirstSectors

\* What end_request finds: the whole of the request moved, or nothing.
LEMMA EndFinds ==
  ASSUME DiskInv, MovedHonest, UnknownDevice \/ EndNow \/ TimerExpires \/ StaleTimerRuns
  PROVE  /\ queue # << >> /\ CURRENT \in Bufs
         /\ moved = IF Transferred THEN AllSectors(CURRENT) ELSE {}
         /\ UnknownDevice => ~Transferred
         /\ EndNow => (Transferred <=> drv.status)
  <1> USE DEF DiskInv, DiskTypeOK, GuestRuns, Idle, InLoop
  <1>1. queue # << >>
    BY InterruptFacts DEF UnknownDevice, EndNow, TransferOnDisk
  <1>2. CURRENT \in Bufs
    BY <1>1, HeadFacts
  <1>3. drv.pc \notin {"sector", "wait"}
    BY InterruptFacts DEF UnknownDevice, EndNow
  <1>4. DevicePos = IF Transferred THEN Req[CURRENT].count ELSE 0
    BY <1>3 DEF DevicePos, Transferring
  <1>5. moved = IF Transferred THEN AllSectors(CURRENT) ELSE {}
    BY <1>1, <1>2, <1>4, FirstSectorsFacts DEF MovedHonest, AllSectors
  <1>6. UnknownDevice => ~Transferred
    BY DEF UnknownDevice, Transferred, BusyMeansTimer
  <1>7. EndNow => (Transferred <=> drv.status)
    BY <1>1 DEF EndNow, Transferred
  <1>8. QED BY <1>1, <1>2, <1>5, <1>6, <1>7

LEMMA MovedHonestNext ==
  ASSUME SmallDisk, DiskInv, SectorCallHonest, MovedHonest, [DiskNext]_diskVars
  PROVE  MovedHonest'
  <1>1. ASSUME UNCHANGED <<queue, moved>>, DevicePos' = DevicePos PROVE MovedHonest'
    BY <1>1 DEF MovedHonest, CURRENT, FirstSectors, StartSect
  <1>2. CASE \/ UNCHANGED diskVars
             \/ \E irq \in BOOLEAN : ModuleInit(irq)
             \/ \E registered \in BOOLEAN : ModuleReady(registered)
             \/ ModuleGone \/ DiskOpen \/ DiskRelease \/ Revalidate \/ PartitionsRead
             \/ RunQueue \/ QueueEmpty \/ TransferRefused \/ EndByTimer \/ StaleTimerFaults
             \/ SectorCall \/ HalCallDiskGetInfo \/ HalCallDiskCleanup
    <2>1. DevicePos' = DevicePos
      BY <1>2, DeviceQuiet
    <2>2. UNCHANGED <<queue, moved>>
      BY <1>2 DEF diskVars, ModuleInit, ModuleReady, ModuleGone, DiskOpen, DiskRelease, Revalidate,
           PartitionsRead, RunQueue, QueueEmpty, TransferRefused, EndByTimer, StaleTimerFaults,
           SectorCall, HalCallDiskGetInfo, HalCallDiskCleanup
    <2>3. QED BY <1>1, <2>1, <2>2
  <1>3. CASE SectorDone \/ TransferEnds
    <2>1. UNCHANGED <<queue, moved>>
      BY <1>3 DEF SectorDone, TransferEnds
    <2>2. QED BY <1>1, <1>3, <2>1, DeviceKnows
  <1>4. CASE TransferBegins
    <2>1. UNCHANGED <<queue, moved>> /\ DevicePos' = 0
      BY <1>4, DeviceStarts DEF TransferBegins, Device!Start
    <2>2. DevicePos = 0
      BY <1>4 DEF TransferBegins, InLoop, DevicePos, Transferring, Transferred, DiskInv,
                  BusyMeansTimer
    <2>3. QED BY <1>1, <2>1, <2>2
  <1>5. CASE HalCallDiskWrite \/ HalCallDiskRead
    <2>1. moved' = moved \cup {<<call.unit, SeekPos(call.sector)>>}
      BY <1>5 DEF HalCallDiskWrite, HalCallDiskRead, SectorMoved
    <2>2. moved = FirstSectors(CURRENT, drv.i)
      BY <1>5, DeviceMoves DEF MovedHonest
    <2>3. moved' = FirstSectors(CURRENT, drv.i + 1)
      BY <1>5, <2>1, <2>2, DeviceMoves, FirstSectorsFacts
    <2>4. MovedHonest' <=> moved' = FirstSectors(CURRENT', DevicePos')
      BY <1>5, DeviceMoves DEF MovedHonest, FirstSectors, StartSect
    <2>5. QED BY <1>5, <2>3, <2>4, DeviceMoves
  <1>6. CASE UnknownDevice \/ EndNow \/ TimerExpires \/ StaleTimerRuns
    <2>1. moved' = {}
      BY <1>6, InterruptFacts DEF UnknownDevice, EndNow, EndRequest
    <2>2. DevicePos' = 0
      BY <1>6, DeviceEnds DEF Device!End
    <2>3. 0 .. 0 - 1 = {}
      OBVIOUS
    <2>4. QED BY <2>1, <2>2, <2>3 DEF MovedHonest, FirstSectors
  <1>7. CASE ModuleCleanup \/ GuestLost
    BY <1>7 DEF ModuleCleanup, GuestLost, MovedHonest
  <1>8. ASSUME NEW b \in Bufs, NEW v \in Vals, Submit(b, v) PROVE MovedHonest'
    <2>1. DevicePos' = DevicePos /\ moved' = moved
      BY <1>8, DeviceSubmits DEF Device!Submit, Submit
    <2>2. CASE queue = << >>
      <3>1. DevicePos = 0 /\ moved = {}
        BY <2>2 DEF MovedHonest, DevicePos, Transferring, Transferred
      <3>2. 0 .. 0 - 1 = {}
        OBVIOUS
      <3>3. QED BY <2>1, <3>1, <3>2 DEF MovedHonest, FirstSectors
    <2>3. CASE queue # << >>
      <3>1. /\ queue \in Seq(Bufs) /\ Append(queue, b) \in Seq(Bufs)
            /\ Append(queue, b)[1] = queue[1] /\ Append(queue, b) # << >>
        BY <2>3, AppendProperties, LenProperties, EmptySeq DEF DiskInv, DiskTypeOK
      <3>2. Head(Append(queue, b)) = Head(queue)
        BY <2>3, <3>1, HeadTailProperties
      <3>3. CURRENT' = CURRENT /\ queue' # << >>
        BY <1>8, <3>1, <3>2 DEF Submit, CURRENT
      <3>4. QED BY <2>1, <2>3, <3>3 DEF MovedHonest, FirstSectors, StartSect
    <2>4. QED BY <2>2, <2>3
  <1>9. QED
    BY <1>2, <1>3, <1>4, <1>5, <1>6, <1>7, <1>8
    DEF DiskNext, DiskGuestCalls, DriverStep, DriverRuns, DiskUsers, DiskCall, StaleTimerExpires

\* A buffer that is not being ended keeps its state or is queued or forgotten.
LEMMA OnlyEndsEnd ==
  ASSUME [DiskNext]_diskVars, NEW b \in Bufs, DiskInv,
         result[b] = "pending", result'[b] \in {"ok", "failed"}
  PROVE  UnknownDevice \/ EndNow \/ TimerExpires \/ StaleTimerRuns
  <1>1. CASE \E c \in Bufs, v \in Vals : Submit(c, v)
    BY <1>1 DEF Submit, DiskInv, DiskTypeOK
  <1>2. CASE GuestLost
    BY <1>2 DEF GuestLost
  <1>3. DiskCall \/ DiskGuestCalls \/ StaleTimerFaults \/ UNCHANGED diskVars => result' = result
    BY DEF DiskCall, HalCallDiskGetInfo, HalCallDiskWrite, HalCallDiskRead, HalCallDiskCleanup,
           DiskGuestCalls, ModuleInit, ModuleCleanup, SectorCall, StaleTimerFaults, diskVars
  <1>4. \/ \E registered \in BOOLEAN : ModuleReady(registered)
        \/ ModuleGone \/ PartitionsRead \/ RunQueue \/ QueueEmpty \/ TransferRefused
        \/ TransferBegins \/ SectorDone \/ TransferEnds \/ EndByTimer
        \/ DiskOpen \/ DiskRelease \/ Revalidate
        => result' = result
    BY DEF ModuleReady, ModuleGone, PartitionsRead, RunQueue, QueueEmpty, TransferRefused,
           TransferBegins, SectorDone, TransferEnds, EndByTimer, DiskOpen, DiskRelease, Revalidate
  <1>5. QED BY <1>1, <1>2, <1>3, <1>4 DEF DiskNext, DriverStep, DriverRuns, DiskUsers,
                                         StaleTimerExpires

\* One step as WholeOrNothing describes it.
EndsWhole(b) ==
  result[b] = "pending" /\ result'[b] \in {"ok", "failed"} =>
    /\ moved \in {{}, AllSectors(b)}
    /\ result'[b] = "failed" => moved = {}
    /\ result'[b] = "ok" /\ ~drv.irq => moved = AllSectors(b)

LEMMA StepEndsWhole ==
  ASSUME DiskInv, MovedHonest, [DiskNext]_diskVars, NEW b \in Bufs
  PROVE  EndsWhole(b)
  <1> SUFFICES ASSUME result[b] = "pending", result'[b] \in {"ok", "failed"}
               PROVE  /\ moved \in {{}, AllSectors(b)}
                      /\ result'[b] = "failed" => moved = {}
                      /\ result'[b] = "ok" /\ ~drv.irq => moved = AllSectors(b)
    BY DEF EndsWhole
  <1>1. UnknownDevice \/ EndNow \/ TimerExpires \/ StaleTimerRuns
    BY OnlyEndsEnd
  <1>2. /\ CURRENT \in Bufs
        /\ moved = IF Transferred THEN AllSectors(CURRENT) ELSE {}
        /\ UnknownDevice => ~Transferred
        /\ EndNow => (Transferred <=> drv.status)
    BY <1>1, EndFinds
  <1>3. CASE UnknownDevice
    <2>1. b = CURRENT /\ result'[b] = "failed"
      BY <1>2, <1>3 DEF UnknownDevice, EndRequest, DiskInv, DiskTypeOK
    <2>2. QED BY <1>2, <1>3, <2>1
  <1>4. CASE EndNow
    <2>1. b = CURRENT /\ (result'[b] = "ok" <=> drv.status)
      BY <1>2, <1>4 DEF EndNow, EndRequest, DiskInv, DiskTypeOK, DrvType
    <2>2. QED BY <1>2, <1>4, <2>1
  <1>5. CASE TimerExpires \/ StaleTimerRuns
    <2>1. EndRequest(TRUE) /\ drv.irq
      BY <1>5, InterruptFacts
    <2>2. b = CURRENT /\ result'[b] = "ok"
      BY <1>2, <2>1 DEF EndRequest, DiskInv, DiskTypeOK
    <2>3. QED BY <1>2, <2>1, <2>2
  <1>6. QED BY <1>1, <1>3, <1>4, <1>5

\* end_request and the image file agree, for any requests and any disks whose byte offsets
\* fit in 32 bits, whatever instance of the module the timer was armed by.
THEOREM EndedWhole == SmallDisk /\ DiskSpec => WholeOrNothing
  <1> SUFFICES ASSUME SmallDisk PROVE DiskSpec => WholeOrNothing
    OBVIOUS
  <1>1. DiskInit => SectorCallHonest /\ MovedHonest
    BY CallFacts DEF DiskInit, SectorCallHonest, MovedHonest
  <1>2. DiskInv /\ SectorCallHonest /\ MovedHonest /\ [DiskNext]_diskVars
          => SectorCallHonest' /\ MovedHonest'
    BY SectorCallHonestNext, MovedHonestNext
  <1>3. DiskInv /\ MovedHonest /\ [DiskNext]_diskVars => [\A b \in Bufs : EndsWhole(b)]_diskVars
    BY StepEndsWhole
  <1>4. DiskSpec => [][\A b \in Bufs : EndsWhole(b)]_diskVars
    BY <1>1, <1>2, <1>3, DiskInvariant, PTL DEF DiskSpec
  <1>5. QED BY <1>4 DEF WholeOrNothing, EndsWhole
============================================================================
