# plex86: a TLA+ model of the virtual machine monitor

plex86 runs a Linux guest at ring 3 of the host processor. A kernel module
holds the VM's memory, a small *monitor* lives in an address space of its own
next to the guest, and a user program drives both with ioctls. This directory
models the parts of it that keep state and can go wrong in ways a test would
hardly reach, checks them with TLC and proves their safety properties with TLAPS.

Paths below are relative to `src/plex86/`. Host-space code is
`host-kernel/vmm/host-space/monitor.c` (called *host monitor.c*), monitor-space
code is `host-kernel/vmm/monitor-space/*.c`.

## 1. Inventory

| Component | State | Operations | Depends on | What makes it correct |
|---|---|---|---|---|
| VM life cycle (host monitor.c, `linux/linux2.4.c`) | `vmState` bits, `mon_request`, pointers to 18 allocations or pinned pages | open, release, the ioctls CPUID, register, unregister, teardown, execute | all memory of the VM | memory given back exactly once; monitor entered only in a complete VM |
| Execute loop (host monitor.c) | `mon_request` | dispatch on the request the monitor came back with | world switch, pinning, user program | the guest's registers are loaded once, a panicked VM never runs again |
| Guest page pinning (host monitor.c) | `guestPageInfo[].pinned`, host frames, `guestPhyPagePinQueue` | pin on request, evict, release all | host kernel's `get_user_pages` | references balance; the queue names the pinned pages |
| Shadow paging (`paging.c`) | `page_dir`, table heap, address map, TLB; the guest's own tables | page fault, walk, INVLPG, CR0/CR3 loads, accesses by the emulator | pinning, by round trips | the guest reaches only held frames its own tables allow |
| Guest interrupts (`io.c`, `fault.c`, `x86-emu.c`) | PIC, PIT, `halIrq`, VIF/VIP/PVI | irq, mask, EOI, acknowledge, timer, STI/CLI/IRET/HLT, `preGuest` | HAL, processor's PVI mode | no irq lost, delivered only when the guest allows it |
| Fault entry (`fault.c`, `nexus.S`) | saved guest context | dispatch of interrupts and faults | all monitor code | |
| Instruction emulation (`x86-emu.c`) | guest CPU registers, descriptor caches | system instructions | paging, interrupts | |
| World switch (`nexus.S`, monitor-space `monitor.c`) | both CPU contexts, `mon_request` | `__host2mon`, `__mon2host`, `toHost*` | | the host finds the request that was made |
| Print buffer, panic (`print.c`, `panic.c`) | log buffer, offset, lock | `mon_vprint`, flush, `monpanic` | world switch, user program | what was flushed is printed; no message is lost while the lock is free |
| CMOS and VGA ports (`io.c`) | register files | IN, OUT | | |
| User program (`host-user/linuxvm.c`) | descriptor, `plex86State`, guest memory | start-up, execute loop, `plex86TearDown`, Ctrl-C handler | ioctls, HAL | its records tell what it holds; memory is freed once, after the kernel let go of it; Ctrl-C ends it from any point |
| HAL network (`host-user/halnet.c`, `guest-kernel/linux/halnet.c`) | producer and consumer counts, one-packet receive area | SIGIO, transmit, receive, guest interrupt | `halIrq` | every packet read reaches the guest |
| HAL disk (`host-user/haldisk.c`, `guest-kernel/linux/haldisk.c`) | request queue, busy flag, timer, partitions, one page per unit shared with the host, the image files | load and unload, open, release, request, sector by sector transfer, timer | HAL call | a block device: each sector its own data at its own place; every request is ended, and truthfully |
| HAL console | none that is read elsewhere | write | HAL call | the call is answered |

The parts meet in few places. The user program blocks in the execute ioctl;
the execute loop switches to the monitor and back whenever the monitor sets
`mon_request` (a page to pin, the log to flush, a hardware interrupt to hand to
the host, a HAL call, a panic). The monitor is sequential, but it handles
faults with interrupts on: a hardware interrupt may take the processor to the
host, and on to the user program, between any two of its instructions outside
the short sections it brackets with CLI. The user program passes the
guest an interrupt by putting its number into `halIrq`, from outside.

**What is hard here.** A page walk of the monitor leaves for the host in its
middle, and the host may evict a page and throw away the shadow the walk is
filling. Guest code disables interrupts without any exit, so pending interrupts
must be caught at the STI that no monitor code sees. The process may call the
ioctls in any order, and each of eighteen acquisitions can fail. The PIC's INTR
line is cached state with many writers. SIGINT may interrupt the user program
between any two of its steps, its own teardown included, and starts the same
teardown. Every sector the guest moves is a trip through monitor, kernel module
and program, any of which may end the VM. These are listed line by line under
`hazards` in `PROJECT.json`.

## 2. Modules

| Module | Models | Used by |
|---|---|---|
| `PagePin` | the pin queue of host monitor.c | `ShadowPaging`, `PagePinOrder` |
| `LeastRecentlyPinned` | abstract: a sequence of pages, the oldest leaves | `PagePinOrder` |
| `PagePinOrder` | `PagePin` with its refinement mapping to the abstract queue | `MCShadowPaging` |
| `ShadowPaging` | `paging.c` composed with the pin queue (it EXTENDS `PagePin`) | `MCShadowPaging` |
| `VMLifecycle` | ioctls, open/release, execute loop | `MCVMLifecycle` |
| `GuestInterrupts` | PIC, PIT, HAL irq, `preGuest`, virtual interrupt flag | its runs |
| `HalNet` | the HAL network device on both sides, the execute loop of the user program | its run |
| `LinuxVM` | the user program on top of the kernel module (it EXTENDS `VMLifecycle`) | `PlexSystem` |
| `HalDisk` | the HAL disk: the guest's driver and the host's calls | `PlexSystem` |
| `BlockDevice` | abstract: what a disk driver promises the block layer | `HalDisk` (refinement) |
| `MonitorLog` | the monitor's exits to the host, log buffer, panic | `PlexSystem` |
| `PlexSystem` | composition of `LinuxVM`, `HalDisk` and `MonitorLog` into a running VM | `MCPlexSystem` |
| `PagePinProofs`, `ShadowPagingProofs`, `VMLifecycleProofs`, `GuestInterruptsProofs`, `HalNetProofs`, `LinuxVMProofs`, `HalDiskProofs`, `PlexSystemProofs` | theorems and proofs | |

A definition named `X_Something` directly above `X` is a deliberately faulty
form of `X`: the bug its comment names. Putting it in place of `X` must make TLC
report a violation, which is how each property is shown to depend on the code.
No specification uses them.

### PagePin
`pinned[p]`, `hostPPI[p]` are the flags and host frames of `guestPageInfo` and
its adjunct; `pinQueue` is the ring (`ppi`, `nEntries`, `tail`); `hostRef[f]`
counts the references the VM holds on host frame f. `PinSucceeds` and
`PinFails` are the two ends of `hostHandlePagePinRequest`: when the ring is full
both first evict the page at `tail`, so a failing pin leaves a queue that still
names a page no longer pinned, and marks the VM panicked (`vmState`).
`ReleasePinnedUserPages` and `InitPinState` are teardown and re-registration.
`get_user_pages` is external: it may fail, or return any frame not already held.
Guest memory is taken to be registered at an address other than 0 (see VMLifecycle).
In `LeastRecentlyPinned` the action `Panics` is what the abstract queue sees of a
monitor that gives up: the pages stay, and only a release may follow.

### ShadowPaging
State: the guest (`gmem` its page tables, `cr3`, `cr0`, `cpl`), the shadow
(`pd`, `tbl`, `lmap`, `nextTbl` for `page_dir`, `page_tbl`,
`page_tbl_laddr_map`, `ptbl_laddr_map_i`), the processor's `tlb`, and the
monitor's control (`pc`, `acc`, `walk`). A step is what the monitor does between
two pin requests; a hardware interrupt in between (`HostRoundTrip`) changes
nothing the monitor reads, and may end in a `Teardown` by the process:
`OpenPageDir`, `OpenPageTable`, `EnterTarget` are `mapGuestLinAddr` cut at its
calls of `getHostOSPinnedPage`; `EmuOpen...` are the accessors the emulator uses
(`translateLinToPhy`); `PinUserPage` is the round trip, with eviction and the
reset of the shadow; `EmuINVLPG`, `EmuSetCR` the instructions that invalidate;
`MonPanic` every `monpanic` of these paths. `legal` is a history variable: the
translations a linear page has had since the guest last invalidated it.

Abstracted: accessed and dirty bits (no decision depends on them), 4-MB pages
(the code panics on them), and the page contents other than page-table entries.
The window onto the page directory is kept as `dirFrame`; the second window is
opened and used within one step.

### VMLifecycle
`vm` is the `vm_t`: `vmState` as a set of bits, `monReq`, the pointers that are
not NULL (`ptrs`), and `held`, the host's independent account of what it has
given out. Each ioctl is an action with its whole body; `RegisterMem`,
`AllocFails` and `InitMonitorFails` are the three ends of a registration, with
the acquisitions in the order of the code. `inMonitor` is true between the
switch to the monitor and the request it comes back with; `ReturnToUser`,
`InterruptRedirected`, `PagePinned` and `LeaveByPanic` are the cases of the
dispatch. An ioctl that is refused changes nothing and is a stuttering step.
`fd = "oops"` is the fault of the kernel in a NULL dereference. The process has
one thread, as the user program has: no ioctl overlaps another.

A registration names any address and any size, zero too: `hostIoctlRegisterMem`
only asks for alignment and a multiple of 4 MB. Without memory (`pages` = 0) the
allocation of `guestPageInfo` gets no bytes and fails (`Obtainable`; `vmalloc(0)`
is NULL), which the cleanup survives. At address 0 the registration succeeds, but
`hostUnallocVmPages` (host monitor.c:1854) takes a `guestPhyMemAddr` of 0 for
"nothing registered" and skips `hostReleasePinnedUserPages`: the pins on the guest
CPU page and on the log page are never put (`PutBack`), and neither are those of
guest pages. `HostBalance` says so: what the host has given out is exactly what the
pointers name, except for those two pages of a VM that was once registered at 0
(`zeroBased`), which may be out with no pointer; nothing is ever given back twice.
The user program's memory comes from `malloc`, so it never meets the case, and
`EverythingGivenBack` in `LinuxVM` claims the balance without exception.

`AreasRefused` has the overlap check as it is: both loops start at 1 (host
monitor.c:1552), so guest memory is compared with nothing although the comment above
them says that none of the user areas overlap. No run asks about it.

### GuestInterrupts
`pic` is the master PIC with the INTR line, `pit` timer 0, `cpu` the guest's CPL
with the real VIF and VIP and whether the monitor runs it in PVI mode, `halIrq`
the slot the user program writes. `where` says whether guest code runs, the monitor is at work,
`preGuest` has sampled the clock and `halIrq` but not resumed yet, or HLT spins.
`CLI` and `STI` are steps of the guest without an exit; `STIEmulated` is the STI
that faults because VIP is set. `HalRequest`
may happen whenever guest code is not running, also between the two halves of
`preGuest` and while HLT spins.

The guest is any code: it executes any instruction at any time. `frames` is the
set of interrupt frames it may return through: those pushed on some stack so far
and the one it builds to start user code; it is a set, since a guest kernel
switches stacks and IRETs them in any order. Abstracted: irq numbers to the two
that are ever raised (0 for the timer, 3 for the network), the slave PIC and timers 1 and 2, which
raise nothing; the guest's IDT, whose gate types are chosen by the guest
(`Gates`) and whose entries are taken to be well formed.

### HalNet
`proc` is where the user program stands, `sigio` the pending signal, `producer`
and `consumer` its two counts; `arrived` and `taken` delimit the TAP device's
queue, packets being known by their order of arrival; `area` is the receive area
in guest memory, `drv` where the guest's interrupt handler stands. The host side
can come in between any two steps of the guest's handler. `TakeSignal` is the
kernel running a pending handler on the way back to user code; `Redirect`,
`GuestIRET`, `GuestTx`, `GuestRegDev` are the ways out of the execute ioctl.
The path from `halIrq` to the guest is kept as two latches (`halIrq`, `irq`),
which is what `GuestInterrupts` establishes of it. The TAP device, the guest
kernel around the driver and signal delivery are external. A packet that comes
before O_ASYNC raises no signal (`quiet`), and one before `sigaction` ends the
program; both are in the model. Registration refuses bad arguments with the
same exit as a failing transmit (`HalError`).

### LinuxVM
`prog` is the process: where it stands (`pc`), `plex86FD` (`fd`), `plex86State`
(`bits`), the guest's memory, the signal. Its steps are system calls, which are
the actions of `VMLifecycle` unchanged, and the assignments that record them: the
SIGINT handler may find either one done and the other not. In the ioctl a signal
waits for its return; in user code `CtrlCHandler` starts at once and never comes
back. `prog.k` is where the running `plex86TearDown` returns to: the loop (from
`halDiskCall`, which does not exit), main's own teardown after `executeLinux`'s,
or exit. `raced` remembers that the handler came between `free` and the record of
it, `deadWrite` that the loop wrote to guest memory that was freed.
Image contents, options and the CPU setup are abstracted to well formed or not.

### HalDisk and BlockDevice
`queue` is the request queue of the guest's block layer (external), `drv` the
driver: the module's life, `dev->usage`, `halDisk_busy`, the timer, and where the
request function stands. It runs with the queue's lock held and interrupts off, so
`drv.pc` is in the middle of a transfer only while the guest waits in a HAL call
(`SectorCall`, the host's `HalCallDisk...`, `SectorDone`). `parts` says whether
the partition table is known: a re-read clears it and sleeps. The `irq` module
parameter chooses completion at once (`EndNow`) or by timer (`EndByTimer`,
`TimerExpires`). `halDisk_cleanup` deletes no timer, and `halDisk_init` does not ask
for one: a timer of a module that was unloaded (`drv.stale`) stays in the kernel's
list, in memory that is free or used again. When the kernel comes to it, it faults
(`StaleTimerFaults`), or the module has been loaded again in the same place and
`halDisk_interrupt` ends whatever request is first (`StaleTimerRuns`).
The host's `sector<<9` is a 32-bit shift and its result a signed offset: `SeekPos`
and `Seeks` wrap and refuse as it does, so an image beyond 2^23 sectors gets its
data in the wrong place. `moved` is a history variable: the sectors of the file the
host has really moved for the request at the head of the queue, counted where the
host moves them. `dev->lock`, which `halDisk_release` holds over `fsync_dev` while the request
function takes it too, is left out: on the uniprocessor guest it is no lock.
`BlockDevice` is the promise: buffers carried
out one at a time, sector by sector, nothing else touching the medium; `Device` in
`HalDisk` is the mapping, component by component (`DeviceStore`, `DeviceData`,
`DevicePhase`, `DevicePos`; a sector is carried out when the host answers).

### MonitorLog
`mon.req` is `mon_request`, `mon.want` the request the current `toHost*` call
made, `mon.intr` the interrupt flag, `mon.after` where the monitor goes on when
the host comes back. `HandleInt` is the interrupt that would overwrite a request.
`log` is the buffer with its lock, `userLog` the page shared with the program,
`shown` what the program printed last. Messages are a short one, one too long for
the buffer, and the panic's. `MonPanicPrint` merges monpanic's two prints, its prefix
and the message, into one that fits.

### PlexSystem
Guest and monitor move only while the ioctl is inside the monitor. A HAL call
of the guest is `ToHostCall`, `RequestServed` (the ioctl returns with the
request), `DispatchRequest`, `ServeDisk` or `ServeOther`, and `EnterMonitor`. When the
program begins to tear down or is gone, guest and monitor are lost (`GuestGone`)
and the image files stay. Network and console calls are kept as answered or
failing; their contents are in `HalNet`, or nobody's state.

## 3. Runs

| Run | Instance | Shows |
|---|---|---|
| `shadow_paging` | 4 pages, 3 pinned, 2 tables, stores, INVLPG, CR3 | `ShadowMapsPinnedFrames`, `TlbCoherent`, `ShadowFollowsGuest`, `TablesNotShared`; of the pin queue under these walks, references equal pinned flags (`PinBalance`), the queue names exactly the pinned pages, each once (`QueueHoldsPinned`), and the ring implements the abstract least-recently-pinned queue (`LeastRecentlyPinnedSpec`), through wrap-around, failed pins, teardown and re-registration |
| `shadow_progress` | 1 table, a read-only page, paging on and off | `FaultSettles`: a guest fault is settled although evictions restart the walk |
| `lifecycle` | 6 registrations: valid, misaligned, overlapping, in another order, at address 0, without memory | `HostBalance`, `MonitorEnteredReady`, `GuestLoadedOnce`, `StateTellsMemory` |
| `guest_interrupts` | counts 0..2, at most 1 clock sampled per exit | `NoIrqForgotten`, `LineMeansRequest`, `PendingTrapsSTI`, `OnlyGuestPanics`, `HltIsInterrupted` |
| `hal_net` | 4 packets | `ExactlyOnce`, `FullIsSignalled`, `TapIsSignalled`, `PacketsReachGuest` |
| `system` | one disk of 2 sectors with a partition on the second, 3 buffers, 2 images | of the program `FreedMemoryNotHeld`, `EverythingGivenBack`, `ExecuteFindsReady`, `FreedOnce`, `DeadWriteOnlyAfterDiskError`; of the exits `RequestIsOwn`, `SilentOnlyAfterTooLong`, `CallsAnswered`; of the disk `DeviceSpec` (it implements `BlockDevice`), `WholeOrNothing` (a buffer ends with all of its sectors moved or none, and truthfully unless the timer ends it), `BusyMeansTimer`; and that SIGINT ends the VM from any point (`InterruptEnds`) and that no process of the guest waits for the disk for ever, unless a stale timer has crashed the guest's kernel (`AwaitedEnds`) |

Each of these also checks the type invariant of its module. Six more runs show
where the code and what is said of it part:

| Run | Said | Done |
|---|---|---|
| `open_window` | "We must not unpin open pages (for page walking) here" (host monitor.c:2126) | pinning the page table of a walk may evict the page directory the walk has open |
| `alloc_failure` | an allocation failure is reported and ENOMEM returned | the cleanup reads `guestPageInfo`, which may not be allocated yet |
| `mask_pending` | `picIAC` asserts that it finds an unmasked irq | masking a pending irq leaves INTR up; the next acknowledge panics the VM |
| `user_interrupts` | in ring 3 IF should be 1, "otherwise guest interrupts will never be accepted!" (x86-emu.c:1702) | `preGuest` looks at VIF, which is clear in ring 3; the interrupt waits for the program to enter the kernel |
| `timer_outlives` | "Before anything else, get rid of the timer functions." (guest haldisk.c:674) | nothing deletes the timer; one that stands for a read-ahead, which keeps no device open, survives the module |
| `timer_says_ok` | "This request is done - we always succeed" (guest haldisk.c:537) | `halDisk_transfer` refuses a write while the partitions are re-read; with `irq=` its status is dropped and the timer reports the write done, with no sector moved |

**Why the bounds are enough.** `MaxPhyPagesPinned` (1024 in the code) is 3
because a walk needs three pages (directory, table, target): with three, one
access can just be served and everything beyond it evicts; with four pages every
walk can evict any page. Three is also enough for the ring to wrap with its tail
at every position. `NTables` = 2 allows two directory slots to compete for
tables, 1 lets the heap run out. `Frames` are symmetric in the shadow runs: the specification
never distinguishes them and those runs that use the symmetry check no liveness.
`shadow_progress` uses no symmetry. `Counts` {0, 1, 2} contains the count the
code refuses in mode 2, the one that expires at once and one that does not;
`MaxClocks` = 1 bounds the clocks of one exit (more clocks at an exit only make
the timer expire, which one clock does too when the count is at its end).
`MaxPackets` = 4: one packet being handled by the driver, one refilling the area,
one slipping in between the last read and the count, one before O_ASYNC.
`system`: the buffers are a write through the partition, a read-ahead of the whole
disk and a read of a unit that is not there, so that a transfer has one sector or
two, fits or no longer fits after a re-read, and a stale timer is possible;
`MaxQueue` = 2 lets a request wait behind the one whose timer runs, `MaxOpens` = 1
lets the last close happen; `NImages` = 2 lets loading fail at the first image and
later. `QuietDisk` = TRUE is a bound: the guest calls on other devices, and the
monitor prints and panics, only before the disk driver is loaded for the first time
(`Talks`), and a VM whose monitor has printed does not load it (`NotPrinted`): prints
and disk share nothing but the request word, whose value is checked in both. With
`QuietDisk` = FALSE there is no such bound; the theorems hold for either value, and
that instance has 3.3 million states, too many for the temporal properties.
`lifecycle`: `MaxStray` = 2 bounds, as a state constraint, how often a process
repeats the leak at address 0. The guest's memory is cleared when the program gives
the VM up, since nothing enters it again.
The proofs remove the bounds on sizes for the modules they cover.

Deadlock is checked in the shadow runs. It is not in the others
because there the system really may stop: a panicked VM, a kernel fault, or a
process that makes no more calls.

In `system` the process ends.

**Fairness.** `shadow_progress` assumes weak fairness of three things: the guest
repeats an access that faulted (the processor restarts the instruction), the
monitor goes on with the walk it started (it is sequential and waits for no
one), and the host answers a pin request (the execute loop returns to the
monitor by itself). `guest_interrupts` assumes weak fairness of the HLT loop and
of the two halves of `preGuest`, all straight-line monitor code. Nothing is
assumed of the guest, of the process or of the HAL there. `hal_net` assumes that
the program runs while it is in user code, that a host interrupt comes while a
signal is pending (the host's own timer), and of the guest that it takes an
unmasked interrupt and finishes its handler however often it is interrupted
(strong fairness, since the host leaves and re-enters the monitor in between),
and that it executes IRETs again and again, which its timer interrupt makes it
do. `PacketsReachGuest` needs the last one: a packet that arrives between the
empty read and the increment is counted, but the loop only sees the difference
on its next pass. `system` assumes weak fairness of the program, of the switch to
the host and of the monitor's own straight-line code, that a host interrupt comes
while SIGINT waits (the host's timer), and strong fairness of the guest's request
queue: a guest that is entered again and again gets on with it, however often
interrupts and signals take it out of the monitor. The kernel of the guest runs the
queue from its own timer and scheduler.

## 4. Proofs

Each proof module shows that an inductive invariant holds initially and is
kept by every action, and derives the properties of the runs from it.

* `PagePinProofs`, from `PagePinAssumption` (positive sizes, `NoFrame` no
  frame), for every number of pages, ring size and set of frames.
  `PinInv` adds to the checked properties that pinned pages have distinct frames
  (`PinnedFramesDistinct`), that a frame is referenced exactly when a pinned
  page owns it (`RefIsOwner`) and that nothing is pinned without a registration
  (`NothingPinnedWhenDown`). The queue property is not inductive alone: that the
  slot overwritten at `tail` named a pinned page, and the only one with that
  frame, is what keeps an eviction from breaking the balance.
  Theorems: `PinTypes`, `PinsBalance`, `QueueIsPinnedSet`, and
  `RingIsLeastRecentlyPinned`: the ring implements `LeastRecentlyPinned`. The
  mapping reads the ring from its oldest slot; the lemmas show what that sequence
  becomes when a slot behind the last one is filled, or when the oldest is
  overwritten and the tail moves past it, with and without wrap-around.
* `ShadowPagingProofs`, from `PagePinAssumption` and `ShadowAssumption` (indices and
  sizes positive, the guest's registers and stores of the right type, at least one
  linear page), for any number of pages, frames, tables and linear pages and whatever
  the guest's tables hold. `ShadowInv` is `PinInv`, the four checked properties
  (`ShadowAgrees`) and three more parts. `WalkHonest` says what the locals of
  `mapGuestLinAddr` still mean after a round trip to the host: the directory entry it
  read is the guest's, the page it is about to enter is one the tables gave, and the
  page table it chose is the one in the directory, *or an eviction has emptied the
  directory*. That last alternative is why filling an entry of a table that is no longer
  attached does no harm: nothing reaches it, and `getFreePageTable` clears it before
  it is attached again. `LegalNow` (the present translation is
  among the legal ones) makes `ShadowFollowsGuest` survive the guest's stores, and
  `DownIsQuiet` a registration that does not flush the TLB.
  `ShadowFollowsGuest` needs `PinnedFramesDistinct` and `RefIsOwner` of `PinInv` too: a
  frame that a pin brings in must not be one the shadow maps already, for another page.
  Theorems: `ShadowTypes`, `GuestReachesPinnedFrames`, `TlbStaysCoherent`,
  `ShadowFollowsTables`, `HeapTablesNotShared`; from them `GuestReachesItsOwnPages`,
  that a hit in the TLB goes to a page the guest may see in the frame the host holds
  for it; `WalksKeepPinsBalanced`; and `SmallGuestKeepsOpenPages`, that the
  divergence of `open_window` needs a guest of more than `MaxPhyPagesPinned` pages
  (a full queue then holds every page, by the pigeonhole principle, and no pin is asked
  for): the smallest registration that succeeds, 4 MB, is just safe.
* `VMLifecycleProofs`, from `RequestsAssumption` (addresses and sizes are naturals,
  zero included), for every set of registrations.
  `LifecycleInv` adds `MemoryFollowsBit` (the MapMonitor bit and the pointers
  agree between ioctls; the other bits do not) and `RequestTellsSetup` (the left-over
  `mon_request` tells whether the guest was loaded), which connect what one
  ioctl leaves behind to what the next one decides on.
  Theorems: `LifecycleTypes`, `NothingLeaks`, `ExecutesOnlyWhenReady`,
  `LoadsGuestOnce`, `StateIsHonest`.
* `GuestInterruptsProofs`, from `CountsAssumption` and `MaxClocksAssumption`
  (naturals), for every timer count and number of clocks. `IntInv` adds `PicOK`
  (the two PIC properties, as a predicate of a PIC value so that lemmas about
  the PIC's operators can state it), `FlagsHonest`
  (PVI exactly in ring 0, VIF clear in ring 3, and every frame the guest may
  return through consistent) and `VipHonest` (VIP is INTR while guest code
  runs and clear in the monitor).
  Theorems: `IntTypes`, `IrqsAreSignalled`, `LineIsHonest`,
  `PendingIsDelivered`, `ChecksNeverFail`.
* `HalNetProofs`, from `MaxPacketsAssumption` (a natural), for every number of
  packets. `NetInv` adds `ControlAgrees`: the consumer count is strictly behind
  while the loop reads, the driver works on a full area only, a full area means a
  registered device. `TapIsSignalled` is not inductive alone because the packet
  that slips in arrives when the queue is empty and it says nothing.
  Theorems: `NetTypes`, `PacketsExactlyOnce`, `AreaIsSignalled`,
  `NoPacketOverlooked`.
* `LinuxVMProofs`, from `RequestsAssumption` and `NImagesAssumption`, for any
  registration and number of images. `LinuxUsesKernel` shows that the program's
  steps are the kernel module's or leave it alone, so the theorems of
  `VMLifecycleProofs` hold under it. `LinuxLeaksNothing` is `EverythingGivenBack`: its
  registrations are never at address 0. `LinuxInv` says how far
  the program's records can be from the truth at each place: `MemoryRecorded`
  (`plex86State` and the memory), `DescriptorHonest` (`plex86FD`, the descriptor and
  what the kernel holds), `StateKnown` (`vmState` after each ioctl) and
  `ControlHonest`. It is needed because the handler starts `plex86TearDown` from all
  of these states.
  Theorems: `FreedIsNotHeld`, `ExecuteIsAccepted`, `FreesOnce`, `DeadWritesExplained`.
* `HalDiskProofs`, from `DiskAssumption`, for any buffers, units, disk and
  partition sizes, queue lengths. `DiskInv` adds `ModuleHonest` (timer, module, users
  and those who wait), `QueueHonest` (queued means pending, and once) and
  `TransferOnDisk` (a transfer under way has its request, and its sectors are on
  the disk although the partitions may be re-read before it).
  Theorems: `BusyIsTimer`; and, for an image of at most 2^23 sectors (`SmallDisk`, a
  hypothesis of the theorem and not of the model), `DiskIsBlockDevice`: the disk
  implements `BlockDevice`, and `EndedWhole`, which is `WholeOrNothing`, with stale
  timers and reloads of the module. `EndedWhole` rests on `MovedHonest`: at every
  place of the transfer the sectors the host has moved are those the driver has counted, so that a
  stale timer, which comes only between runs of the driver, finds all of them or none. For
  the refinement `SectorCallHonest` is
  shown to hold as well: a call the guest waits in is for the next sector of the request
  at the head of the queue, and the page of the unit holds the data to be written. One
  lemma per action of `BlockDevice` says which steps of the driver and the host are
  that action (`DeviceSubmits`, `DeviceStarts`, `DeviceMoves`, `DeviceEnds`,
  `DeviceStops`), two say which steps it does not see (`DeviceQuiet`, `DeviceKnows`).
* `PlexSystemProofs`, from the same assumptions. `SystemRunsProgram` and
  `SystemRunsDisk` show that the composition implements `LinuxSpec` and `DiskSpec`, so
  all the above holds of the whole. `SysInv` then follows a request on its way:
  `ExitHonest` (interrupts are off from CLI to return, and only a flush shows the
  log), `LogHonest` (what is known of the buffer, the shared page and the screen
  wherever a print stands or will go on) and `CallHonest` (who has the HAL call).
  Theorems: `SystemTypes`, `RequestReachesHost`, `PrintsAreShown`, `CallsAreAnswered`,
  and the results of the parts carried over to the whole, `SystemKeepsParts` and
  `SystemIsBlockDevice`.

All invariants, action properties and refinements that the runs check on small
instances are theorems. Only model-checked are the liveness properties `FaultSettles`,
`HltIsInterrupted`, `PacketsReachGuest`, `InterruptEnds` and `AwaitedEnds`: liveness
under fairness is beyond the installed prover and stays with TLC, and so would
results by induction over data. No module declares a RECURSIVE operator.
The refinement of the ring and `SmallGuestKeepsOpenPages` needed no induction: both
rest on lemmas of the library about sequences and cardinalities.

## 5. Plan

Modelled: memory of the host (pin queue, shadow, life cycle), interrupts, the HAL
devices, the user program and the whole VM they form. In this order from here:

1. *Instruction emulation*: segment loads and descriptor caches, MSRs, and the
   relation of timer counts to time (a count of 0).
2. *Proofs*: that the interrupt latches of `HalNet` are what `GuestInterrupts`
   implements, as a refinement; what the checks of a registration do establish
   of the user areas.

## 6. Not modelled

* CMOS and VGA ports, guest boot code, the lines the HAL console puts together: no
  state that another part depends on, or straight-line code.
* Assembly stubs of the interrupt entry, the registers `nexus.S` saves and restores,
  instruction decoding and the register validation of the first execute, which is
  kept as its outcome.
* The monitor's own faults, which panic at once.
* Unloading the guest's network driver, and its second interface, which can get no
  interrupt.
* The disk's geometry, more than one partition of a unit, and the block layer's
  merging of buffers (external).
* Other host ports, which call another kernel's services from the same places or
  no longer fit this tree; module load and unload, which wrap host services.
* The wrap of `HalNet`'s two packet counts at 2^32 signals; model and proofs take them
  as unbounded.
* Build scripts and documentation.
* What the life cycle leaves out: `PLEX86_LINUX_VM_MODE` (a flag taken as set, except
  that the program's call of it fails without a descriptor) and `PLEX86_RESET` (the
  host's module count).
