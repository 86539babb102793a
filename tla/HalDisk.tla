------------------------------ MODULE HalDisk ------------------------------
(***************************************************************************)
(* The HAL disk: the guest's block driver (guest-kernel/linux/haldisk.c)   *)
(* and the calls of the host program it is built on (host-user/haldisk.c). *)
(*                                                                         *)
(* The block layer of the guest keeps a queue of buffers; end_request      *)
(* takes the first off.  The driver runs with io_request_lock held and     *)
(* interrupts off, so nothing else of the guest happens while drv.pc is    *)
(* not "none", but each sector is a HAL call: the guest stops (call is not *)
(* NoCall) until the host has answered, which it need not ever do.  The    *)
(* module parameter irq chooses between completing a buffer at once and    *)
(* completing it when a timer expires.  Sector contents are members of     *)
(* Vals.  The units that are enabled have one partition each.              *)
(***************************************************************************)
EXTENDS Integers, Sequences

CONSTANTS
  Bufs,          \* the buffers of the block layer
  Req,           \* Req[b] = [cmd, ahead, unit, part, sector, count]
  EnabledUnits,  \* units configured on the host's command line
  NumSectors,    \* sectors of a disk
  PartStart,     \* the partition: its first sector
  PartSize,      \* and its length
  Vals,          \* contents of a sector
  MaxQueue,      \* bound: buffers queued at a time
  MaxOpens       \* bound: dev->usage

ReqType ==
  [ cmd : {"READ", "WRITE"},
    ahead : BOOLEAN,           \* a read-ahead: nobody waits for it
    unit : Nat,
    part : BOOLEAN,            \* addressed through the partition's minor number
    sector : Nat, count : Nat \ {0} ]

ASSUME DiskAssumption ==
  /\ Req \in [Bufs -> ReqType]
  /\ \A b \in Bufs : Req[b].ahead => Req[b].cmd = "READ"
  /\ NumSectors \in Nat /\ PartStart \in Nat /\ PartSize \in Nat
  /\ PartStart + PartSize <= NumSectors
  /\ MaxQueue \in Nat /\ MaxOpens \in Nat
  /\ Vals # {}

VARIABLES
  queue,     \* the request queue, a sequence of buffers; CURRENT is its head
  result,    \* per buffer: "none", "pending", "ok" or "failed", as end_request said
  bufs,      \* req->buffer, per buffer and sector
  drv,       \* the driver, see DrvType
  parts,     \* halDisk_partitions holds the partition (not cleared)
  call,      \* the HAL call the guest waits in
  rwArea,    \* halDiskRwArea[unit]->rwBuffer
  disk,      \* the disk image files
  fileNo,    \* halDisk[unit].fileNo on the host: "none", "open", or "closed" (stale)
  moved      \* history: <<unit, sector of the file>> the host moved for CURRENT

diskVars == <<queue, result, bufs, drv, parts, call, rwArea, disk, fileNo, moved>>

Sectors == 0 .. NumSectors - 1
NoCall == [op |-> "none"]
Calls == {NoCall} \cup [op : {"GetInfo", "Cleanup"}]
           \cup [op : {"Read", "Write"}, unit : EnabledUnits, sector : Nat]

DrvType ==
  [ loaded : {"no", "loading", "yes", "unloading"},
    irq    : BOOLEAN,                       \* halDisk_irq # 0
    usage  : 0 .. MaxOpens,                 \* dev->usage
    busy   : BOOLEAN,                       \* halDisk_busy
    timer  : {"off", "armed"},              \* halDisk_timer is in the kernel's list
    stale  : BOOLEAN,                       \* so is that of a module since unloaded
    pc     : {"none", "run", "sector", "wait", "end", "oops"},
    i      : Nat,                           \* sectors of CURRENT transferred
    status : BOOLEAN ]                      \* what halDisk_transfer returned for CURRENT

DiskTypeOK ==
  /\ queue \in Seq(Bufs)
  /\ result \in [Bufs -> {"none", "pending", "ok", "failed"}]
  /\ \A b \in Bufs : bufs[b] \in [1 .. Req[b].count -> Vals]
  /\ drv \in DrvType
  /\ parts \in BOOLEAN
  /\ call \in Calls
  /\ rwArea \in [EnabledUnits -> Vals]
  /\ disk \in [EnabledUnits -> [Sectors -> Vals]]
  /\ fileNo \in {"none", "open", "closed"}
  /\ moved \subseteq EnabledUnits \X Sectors

CURRENT == Head(queue)
GuestRuns == call = NoCall /\ drv.pc # "oops"
Idle == GuestRuns /\ drv.pc = "none" /\ drv.loaded = "yes"

----------------------------------------------------------------------------
(* The module: loading, unloading, open, release, re-reading partitions. *)

\* halDisk_init as far as its HAL call, in a fresh copy of the module's data.
ModuleInit(irq) ==
  /\ GuestRuns /\ drv.loaded = "no"
  /\ drv' = [drv EXCEPT !.loaded = "loading", !.irq = irq, !.busy = FALSE, !.timer = "off"]
  /\ call' = [op |-> "GetInfo"]
  /\ UNCHANGED <<queue, result, bufs, parts, rwArea, disk, fileNo, moved>>

\* The rest of it: the major number may be refused; register_disk reads the
\* partition table.  (The new rwArea is filled before each use.)
ModuleReady(registered) ==
  /\ GuestRuns /\ drv.loaded = "loading"
  /\ drv' = [drv EXCEPT !.loaded = IF registered THEN "yes" ELSE "no"]
  /\ parts' = TRUE
  /\ UNCHANGED <<queue, result, bufs, call, rwArea, disk, fileNo, moved>>

DiskOpen ==
  /\ Idle /\ drv.usage < MaxOpens
  /\ drv' = [drv EXCEPT !.usage = @ + 1]
  /\ UNCHANGED <<queue, result, bufs, parts, call, rwArea, disk, fileNo, moved>>

\* Buffers somebody still waits for: a reader for its data, fsync_dev for what
\* was written.
Awaited == {b \in Bufs : result[b] = "pending" /\ ~Req[b].ahead}

\* The process that closes has no read outstanding; the last close waits in
\* fsync_dev for the writes.
DiskRelease ==
  /\ Idle /\ drv.usage > 0
  /\ drv.usage = 1 => Awaited = {}
  /\ drv' = [drv EXCEPT !.usage = @ - 1]
  /\ UNCHANGED <<queue, result, bufs, parts, call, rwArea, disk, fileNo, moved>>

\* halDisk_revalidate clears the partitions and has grok_partitions read them
\* again, which sleeps: the queue runs in between.
Revalidate ==
  /\ Idle /\ drv.usage > 0 /\ parts
  /\ parts' = FALSE
  /\ UNCHANGED <<queue, result, bufs, drv, call, rwArea, disk, fileNo, moved>>

PartitionsRead ==
  /\ Idle /\ ~parts
  /\ parts' = TRUE
  /\ UNCHANGED <<queue, result, bufs, drv, call, rwArea, disk, fileNo, moved>>

\* halDisk_cleanup, run when the module is not in use.  Nothing deletes the
\* timer; blk_cleanup_queue drops what is queued.
ModuleCleanup ==
  /\ Idle /\ drv.usage = 0
  /\ drv' = [drv EXCEPT !.loaded = "unloading", !.timer = "off",
                        !.stale = @ \/ drv.timer = "armed"]
  /\ queue' = << >> /\ moved' = {}
  /\ call' = [op |-> "Cleanup"]
  /\ UNCHANGED <<result, bufs, parts, rwArea, disk, fileNo>>

ModuleGone ==
  /\ GuestRuns /\ drv.loaded = "unloading"
  /\ drv' = [drv EXCEPT !.loaded = "no"]
  /\ UNCHANGED <<queue, result, bufs, parts, call, rwArea, disk, fileNo, moved>>

----------------------------------------------------------------------------
(* The request queue. *)

\* A process of the guest reads, writes or reads ahead (external: the block
\* layer).  It has the device open.
Submit(b, v) ==
  /\ Idle /\ drv.usage > 0
  /\ Len(queue) < MaxQueue /\ result[b] # "pending"
  /\ queue' = Append(queue, b)
  /\ result' = [result EXCEPT ![b] = "pending"]
  /\ bufs' = IF Req[b].cmd = "WRITE"
             THEN [bufs EXCEPT ![b] = [i \in 1 .. Req[b].count |-> v]] ELSE bufs
  /\ UNCHANGED <<drv, parts, call, rwArea, disk, fileNo, moved>>

\* end_request(status): the buffer at the head of the queue is given back.
EndRequest(ok) ==
  /\ result' = [result EXCEPT ![CURRENT] = IF ok THEN "ok" ELSE "failed"]
  /\ queue' = Tail(queue)
  /\ moved' = {}

\* The block layer calls the request function.  halDisk_irqdriven_request
\* returns at once when it is busy.
RunQueue ==
  /\ Idle /\ queue # << >>
  /\ drv.irq => ~drv.busy
  /\ drv' = [drv EXCEPT !.pc = "run"]
  /\ UNCHANGED <<queue, result, bufs, parts, call, rwArea, disk, fileNo, moved>>

InLoop == GuestRuns /\ drv.pc = "run"

\* INIT_REQUEST returns when the queue is empty.
QueueEmpty ==
  /\ InLoop /\ queue = << >>
  /\ drv' = [drv EXCEPT !.pc = "none"]
  /\ UNCHANGED <<queue, result, bufs, parts, call, rwArea, disk, fileNo, moved>>

\* halDisk_locate_device finds no device.  Fault: the request is not ended.
UnknownDevice_NotEnded ==
  /\ InLoop /\ queue # << >> /\ Req[CURRENT].unit \notin EnabledUnits
  /\ UNCHANGED diskVars
UnknownDevice ==
  /\ InLoop /\ queue # << >> /\ Req[CURRENT].unit \notin EnabledUnits
  /\ EndRequest(FALSE)
  /\ UNCHANGED <<bufs, drv, parts, call, rwArea, disk, fileNo>>

\* "Make sure that the transfer fits within the device": nr_sects and
\* start_sect of the minor number the request came through.
NrSects(r) == IF ~r.part THEN NumSectors ELSE IF parts THEN PartSize ELSE 0
StartSect(r) == IF r.part THEN PartStart ELSE 0
Fits(r) == r.sector + r.count <= NrSects(r)

\* halDisk_transfer refuses, or begins.
TransferRefused ==
  /\ InLoop /\ queue # << >> /\ Req[CURRENT].unit \in EnabledUnits
  /\ ~Fits(Req[CURRENT])
  /\ drv' = [drv EXCEPT !.pc = "end", !.status = FALSE]
  /\ UNCHANGED <<queue, result, bufs, parts, call, rwArea, disk, fileNo, moved>>

TransferBegins ==
  /\ InLoop /\ queue # << >> /\ Req[CURRENT].unit \in EnabledUnits
  /\ Fits(Req[CURRENT])
  /\ drv' = [drv EXCEPT !.pc = "sector", !.i = 0]
  /\ UNCHANGED <<queue, result, bufs, parts, call, rwArea, disk, fileNo, moved>>

\* One turn of its loop as far as the HAL call, and the rest of the turn.
\* Fault: the sector number does not advance.
SectorCall_SameSector ==
  LET r == Req[CURRENT] IN
  /\ GuestRuns /\ drv.pc = "sector" /\ drv.i < r.count
  /\ rwArea' = IF r.cmd = "WRITE" THEN [rwArea EXCEPT ![r.unit] = bufs[CURRENT][drv.i + 1]]
                                  ELSE rwArea
  /\ call' = [op |-> IF r.cmd = "WRITE" THEN "Write" ELSE "Read", unit |-> r.unit,
              sector |-> StartSect(r) + r.sector]
  /\ drv' = [drv EXCEPT !.pc = "wait"]
  /\ UNCHANGED <<queue, result, bufs, parts, disk, fileNo, moved>>
SectorCall ==
  LET r == Req[CURRENT] IN
  /\ GuestRuns /\ drv.pc = "sector" /\ drv.i < r.count
  /\ rwArea' = IF r.cmd = "WRITE" THEN [rwArea EXCEPT ![r.unit] = bufs[CURRENT][drv.i + 1]]
                                  ELSE rwArea
  /\ call' = [op |-> IF r.cmd = "WRITE" THEN "Write" ELSE "Read", unit |-> r.unit,
              sector |-> StartSect(r) + r.sector + drv.i]
  /\ drv' = [drv EXCEPT !.pc = "wait"]
  /\ UNCHANGED <<queue, result, bufs, parts, disk, fileNo, moved>>

SectorDone ==
  LET r == Req[CURRENT] IN
  /\ GuestRuns /\ drv.pc = "wait"
  /\ bufs' = IF r.cmd = "READ" THEN [bufs EXCEPT ![CURRENT][drv.i + 1] = rwArea[r.unit]]
                               ELSE bufs
  /\ drv' = [drv EXCEPT !.pc = "sector", !.i = @ + 1]
  /\ UNCHANGED <<queue, result, parts, call, rwArea, disk, fileNo, moved>>

TransferEnds ==
  /\ GuestRuns /\ drv.pc = "sector" /\ drv.i = Req[CURRENT].count
  /\ drv' = [drv EXCEPT !.pc = "end", !.i = 0, !.status = TRUE]
  /\ UNCHANGED <<queue, result, bufs, parts, call, rwArea, disk, fileNo, moved>>

\* halDisk_request: the buffer is given back with the status of the transfer.
\* Fault: the status is not looked at.
EndNow_AlwaysOk ==
  /\ GuestRuns /\ drv.pc = "end" /\ ~drv.irq
  /\ EndRequest(TRUE)
  /\ drv' = [drv EXCEPT !.pc = "run", !.status = FALSE]
  /\ UNCHANGED <<bufs, parts, call, rwArea, disk, fileNo>>
EndNow ==
  /\ GuestRuns /\ drv.pc = "end" /\ ~drv.irq
  /\ EndRequest(drv.status)
  /\ drv' = [drv EXCEPT !.pc = "run", !.status = FALSE]
  /\ UNCHANGED <<bufs, parts, call, rwArea, disk, fileNo>>

\* halDisk_irqdriven_request: add_timer, then halDisk_busy = 1, then return.
EndByTimer ==
  /\ GuestRuns /\ drv.pc = "end" /\ drv.irq
  /\ drv' = [drv EXCEPT !.timer = "armed", !.busy = TRUE, !.pc = "none"]
  /\ UNCHANGED <<queue, result, bufs, parts, call, rwArea, disk, fileNo, moved>>

\* halDisk_interrupt: always success, then the next transfer.
HalDiskInterrupt(stale) ==
  /\ EndRequest(TRUE)
  /\ drv' = [drv EXCEPT !.timer = "off", !.stale = stale, !.busy = FALSE, !.status = FALSE,
                        !.pc = IF queue' = << >> THEN "none" ELSE "run"]
  /\ UNCHANGED <<bufs, parts, call, rwArea, disk, fileNo>>

\* Fault: halDisk_busy stays set.
TimerExpires_StillBusy ==
  /\ Idle /\ drv.timer = "armed"
  /\ EndRequest(TRUE)
  /\ drv' = [drv EXCEPT !.timer = "off", !.status = FALSE,
                        !.pc = IF queue' = << >> THEN "none" ELSE "run"]
  /\ UNCHANGED <<bufs, parts, call, rwArea, disk, fileNo>>
TimerExpires ==
  /\ Idle /\ drv.timer = "armed"
  /\ HalDiskInterrupt(drv.stale)

\* The kernel comes to the timer of a module that was unloaded: a list entry in
\* memory that is free, or in use again.  Interrupts are on, the driver does not
\* run.  The kernel faults on the entry; or the module is loaded again in the
\* same place with the same function, which then ends whatever request is first,
\* and the entry may still be in the list.
StaleTimerFaults ==
  /\ GuestRuns /\ drv.pc = "none" /\ drv.stale
  /\ drv' = [drv EXCEPT !.pc = "oops"]
  /\ UNCHANGED <<queue, result, bufs, parts, call, rwArea, disk, fileNo, moved>>

StaleTimerRuns ==
  /\ Idle /\ drv.stale /\ drv.irq /\ queue # << >>
  /\ \E stale \in BOOLEAN : HalDiskInterrupt(stale)

StaleTimerExpires == StaleTimerFaults \/ StaleTimerRuns

----------------------------------------------------------------------------
(* halDiskCall, in the host's program. *)

Answered == call' = NoCall

HalCallDiskGetInfo ==
  /\ call.op = "GetInfo" /\ Answered
  /\ fileNo' = "open"
  /\ UNCHANGED <<queue, result, bufs, drv, parts, rwArea, disk, moved>>

\* lseek(sector << 9) in 32 bits: the file offset wraps, and its upper half is
\* negative to lseek, which refuses it (then DiskCallFails).
SeekWrap == 8388608
SeekPos(sector) == sector % SeekWrap
Seeks(sector) == SeekPos(sector) < SeekWrap \div 2
SectorMoved == moved' = moved \cup {<<call.unit, SeekPos(call.sector)>>}

HalCallDiskWrite ==
  /\ call.op = "Write" /\ fileNo = "open" /\ Seeks(call.sector) /\ Answered
  /\ disk' = [disk EXCEPT ![call.unit][SeekPos(call.sector)] = rwArea[call.unit]]
  /\ SectorMoved
  /\ UNCHANGED <<queue, result, bufs, drv, parts, rwArea, fileNo>>

HalCallDiskRead ==
  /\ call.op = "Read" /\ fileNo = "open" /\ Seeks(call.sector) /\ Answered
  /\ rwArea' = [rwArea EXCEPT ![call.unit] = disk[call.unit][SeekPos(call.sector)]]
  /\ SectorMoved
  /\ UNCHANGED <<queue, result, bufs, drv, parts, disk, fileNo>>

HalCallDiskCleanup ==
  /\ call.op = "Cleanup" /\ Answered
  /\ fileNo' = IF fileNo = "open" THEN "closed" ELSE fileNo
  /\ UNCHANGED <<queue, result, bufs, drv, parts, rwArea, disk, moved>>

DiskCall ==
  HalCallDiskGetInfo \/ HalCallDiskWrite \/ HalCallDiskRead \/ HalCallDiskCleanup

\* The files cannot be opened, positioned, read or written; the guest is never
\* answered.
DiskCallFails == call.op \in {"GetInfo", "Read", "Write"}

----------------------------------------------------------------------------
\* A guest that has not been started; Clean is what its memory holds.
Clean == CHOOSE v \in Vals : TRUE
NoDriver ==
  [ loaded |-> "no", irq |-> FALSE, usage |-> 0, busy |-> FALSE, timer |-> "off",
    stale |-> FALSE, pc |-> "none", i |-> 0, status |-> FALSE ]
DiskInit ==
  /\ queue = << >>
  /\ result = [b \in Bufs |-> "none"]
  /\ bufs = [b \in Bufs |-> [i \in 1 .. Req[b].count |-> Clean]]
  /\ rwArea = [u \in EnabledUnits |-> Clean]
  /\ disk = [u \in EnabledUnits |-> [s \in Sectors |-> Clean]]
  /\ drv = NoDriver
  /\ parts = FALSE
  /\ call = NoCall
  /\ fileNo = "none"
  /\ moved = {}

\* The program gives the VM up, with the guest wherever it is: what was in its
\* memory is lost, the image files keep what was written to them.
GuestLost ==
  /\ queue' = << >>
  /\ result' = [b \in Bufs |-> "none"]
  /\ bufs' = [b \in Bufs |-> [i \in 1 .. Req[b].count |-> Clean]]
  /\ rwArea' = [u \in EnabledUnits |-> Clean]
  /\ drv' = NoDriver
  /\ parts' = FALSE
  /\ call' = NoCall
  /\ fileNo' = "none"
  /\ moved' = {}
  /\ UNCHANGED disk

\* The steps that are HAL calls, and the other steps of the guest.
DiskGuestCalls ==
  (\E irq \in BOOLEAN : ModuleInit(irq)) \/ ModuleCleanup \/ SectorCall

DriverRuns ==
  \/ QueueEmpty \/ UnknownDevice \/ TransferRefused \/ TransferBegins
  \/ SectorDone \/ TransferEnds \/ EndNow \/ EndByTimer

DriverStep ==
  \/ (\E registered \in BOOLEAN : ModuleReady(registered)) \/ ModuleGone \/ PartitionsRead
  \/ RunQueue \/ DriverRuns \/ TimerExpires

DiskUsers ==
  \/ DiskOpen \/ DiskRelease \/ Revalidate
  \/ \E b \in Bufs, v \in Vals : Submit(b, v)

DiskNext == DiskGuestCalls \/ DriverStep \/ DiskUsers \/ StaleTimerExpires \/ DiskCall
            \/ GuestLost

DiskSpec == DiskInit /\ [][DiskNext]_diskVars

----------------------------------------------------------------------------
(* Properties. *)

Transferring == queue # << >> /\ drv.pc \in {"sector", "wait"}
Transferred == queue # << >> /\ drv.status /\ (drv.pc = "end" \/ drv.timer = "armed")

\* What the driver and the host together implement.  A sector is carried out
\* when the host answers the call, a little before a read copies it on.
SectorAnswered == Transferring /\ drv.pc = "wait" /\ call = NoCall
DeviceExtent ==
  [b \in Bufs |-> [i \in 1 .. Req[b].count |->
                     <<Req[b].unit, StartSect(Req[b]) + Req[b].sector + i - 1>>]]
DeviceStore == [us \in EnabledUnits \X Sectors |-> disk[us[1]][us[2]]]
DeviceData ==
  [b \in Bufs |-> [i \in 1 .. Req[b].count |->
     IF Req[b].cmd = "READ" /\ SectorAnswered /\ b = CURRENT /\ i = drv.i + 1
     THEN rwArea[Req[b].unit] ELSE bufs[b][i]]]
DevicePhase ==
  [b \in Bufs |->
     IF \A n \in DOMAIN queue : queue[n] # b THEN "idle"
     ELSE IF b = CURRENT /\ (Transferring \/ Transferred) THEN "active" ELSE "queued"]
DevicePos ==
  IF Transferred THEN Req[CURRENT].count
  ELSE IF Transferring THEN drv.i + (IF SectorAnswered THEN 1 ELSE 0)
  ELSE 0

Device == INSTANCE BlockDevice WITH
  Extent <- DeviceExtent, Writes <- {b \in Bufs : Req[b].cmd = "WRITE"},
  store <- DeviceStore, data <- DeviceData, phase <- DevicePhase, pos <- DevicePos

\* halDisk_transfer and halDiskCall move sectors through one page per unit, one
\* HAL call each, with the guest stopped in between.  What reaches the image
\* file and the buffers is what a block device promises: buffer by buffer,
\* sector by sector, each with its own data at its own place.
\* This is so as long as a byte offset into the image fits in 32 bits (SmallDisk).
DeviceSpec == Device!Spec
SmallDisk == NumSectors <= SeekWrap

\* The first n sectors of a buffer on the medium, and all of them.
FirstSectors(b, n) ==
  {<<Req[b].unit, StartSect(Req[b]) + Req[b].sector + i>> : i \in 0 .. n - 1}
AllSectors(b) == FirstSectors(b, Req[b].count)

\* end_request and the image file agree, counted where the host moves the data: a
\* buffer is given back with all of its sectors moved or with none, none when it
\* is said to have failed, all when halDisk_request says it is done.  (For
\* halDisk_interrupt, see OkMeansMoved.)
WholeOrNothing ==
  [][ \A b \in Bufs :
        result[b] = "pending" /\ result'[b] \in {"ok", "failed"} =>
          /\ moved \in {{}, AllSectors(b)}
          /\ result'[b] = "failed" => moved = {}
          /\ result'[b] = "ok" /\ ~drv.irq => moved = AllSectors(b) ]_diskVars

\* halDisk_interrupt ends its request with "This request is done - we always
\* succeed": a buffer that is said to be done has been moved.  It is not so for a
\* request that halDisk_transfer refused because the partitions were being re-read.
OkMeansMoved ==
  [][ \A b \in Bufs :
        result[b] = "pending" /\ result'[b] = "ok" => moved = AllSectors(b) ]_diskVars

\* halDisk_busy and the timer are two records of one fact, written one after
\* the other: between two runs of the driver they agree, the request they are
\* about is still the first of the queue, and the driver does not start on
\* another one before it is ended.
BusyMeansTimer ==
  /\ drv.loaded = "yes" => (drv.busy <=> drv.timer = "armed")
  /\ drv.timer = "armed" => queue # << >> /\ drv.pc \in {"none", "oops"} /\ drv.irq

\* halDisk_cleanup: "Before anything else, get rid of the timer functions."  The
\* kernel has no timer of a module that is gone.  It may: nothing deletes the one
\* that stands for a read-ahead, which keeps no device open.
TimerGoneWithModule == drv.loaded = "no" => ~drv.stale
============================================================================
