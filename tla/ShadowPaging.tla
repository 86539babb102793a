--------------------------- MODULE ShadowPaging ---------------------------
(***************************************************************************)
(* Shadow paging of the guest (monitor-space/paging.c) on top of the       *)
(* host's page pinning.                                                    *)
(*                                                                         *)
(* The guest runs on the monitor's page directory page_dir, filled lazily  *)
(* from the guest's own page tables: a fault of the guest makes the        *)
(* monitor walk the guest's tables through two windows onto guest memory   *)
(* (tmp_phy_page0, tmp_phy_page1), take a page table from a small heap     *)
(* and enter the host frame of the target page.  Every guest page touched  *)
(* on the way is pinned first, by a round trip to the host, and a full pin *)
(* queue makes the host unpin another page and throw the whole shadow      *)
(* away, behind the back of the walk in progress.                          *)
(*                                                                         *)
(* The monitor is sequential; a step of this module is what it does        *)
(* between two round trips to the host.  A window counts only from its     *)
(* opening to its last use, so window 0 is a local of the walk (dirFrame)  *)
(* and window 1, opened and used in one step, is no state at all.          *)
(* Accessed and dirty bits are not kept; the step that writes them back    *)
(* through the windows is OpenPageTable.                                   *)
(***************************************************************************)
EXTENDS PagePin

CONSTANTS
  NIndex,       \* entries of a page directory or page table (1024)
  MonPdi,       \* the page-directory slot of the monitor itself
  NTables,      \* MON_PAGE_TABLES: page tables in the heap
  LinPages,     \* the linear pages <<pdi, pti>> the guest uses
  InitMem,      \* guest page tables at the start, [Pages -> [Index -> entry]]
  InitCR3,
  GuestStores,  \* stores the guest makes to its tables: <<ppi, index, entry>>
  CR3Values,    \* page-directory pages the guest loads into CR3
  CR0Values,    \* CR0 settings the guest loads, [pg : BOOLEAN, wp : BOOLEAN]
  ROPages,      \* guestPageInfo attr.RO (BIOS areas)
  MMIOPages     \* guestPageInfo attr.memMapIO

Index == 0 .. NIndex - 1
GuestPdis == Index \ {MonPdi}
Tables == 0 .. NTables - 1
GuestEntry == [p : BOOLEAN, base : Nat, us : BOOLEAN, rw : BOOLEAN]

ASSUME ShadowAssumption ==
  /\ NIndex \in Nat \ {0} /\ MonPdi \in Index /\ NTables \in Nat \ {0}
  /\ LinPages \subseteq Index \X Index /\ LinPages # {}
  /\ InitMem \in [Pages -> [Index -> GuestEntry]]
  /\ GuestStores \subseteq Pages \X Index \X GuestEntry
  /\ InitCR3 \in CR3Values /\ CR3Values \subseteq Nat
  /\ CR0Values \subseteq [pg : BOOLEAN, wp : BOOLEAN]
  /\ [pg |-> TRUE, wp |-> TRUE] \in CR0Values

VARIABLES
  \* the guest
  gmem,      \* guest physical memory, read as page tables
  cr3,       \* guest_cpu->cr3 >> 12
  cr0,       \* guest_cpu->cr0.{pg,wp}
  cpl,       \* vm->guestCPL
  \* the shadow
  pd,        \* page_dir: a present entry names a table of the heap
  tbl,       \* page_tbl[0..MON_PAGE_TABLES-1]
  lmap,      \* page_tbl_laddr_map; -1 where no table was given out
  nextTbl,   \* ptbl_laddr_map_i
  tlb,       \* the processor's TLB for the guest's linear pages
  \* the monitor's control
  pc,        \* where guest or monitor execution stands
  acc,       \* the access being made: linear page, write?, on whose behalf
  walk,      \* locals of mapGuestLinAddr / translateLinToPhy
  \* history
  legal      \* per linear page, what its translation was since it was last flushed

guestVars == <<gmem, cr3, cr0, cpl>>
shadowVars == <<pd, tbl, lmap, nextTbl>>
ctlVars == <<pc, acc, walk>>
vars == <<pinVars, guestVars, shadowVars, tlb, ctlVars, legal>>

NoPDE == [p |-> FALSE, ti |-> 0, us |-> FALSE, rw |-> FALSE]
NoPTE == [p |-> FALSE, frame |-> NoFrame, rw |-> FALSE]
NoEntry == [p |-> FALSE, base |-> 0, us |-> FALSE, rw |-> FALSE]
NoWalk == [pde |-> NoEntry, dirFrame |-> NoFrame, ppi |-> 0, ti |-> 0, rw |-> FALSE]
GuestLin == {l \in LinPages : l[1] # MonPdi}

\* pc: "guest" guest code; "exec" an access of the guest, at its first try or
\* re-executed; "pdir", "ptbl", "target" mapGuestLinAddr; "emu" the monitor
\* emulating an instruction or delivering a fault (acc.task says which), with
\* "epdir", "eptbl", "edata" one access of it to guest memory.
PC == {"guest", "exec", "pdir", "ptbl", "target", "emu", "epdir", "eptbl", "edata"}
NoAccess == [l |-> CHOOSE l \in LinPages : TRUE, rw |-> FALSE, task |-> "none"]

TypeOK ==
  /\ PinTypeOK
  /\ gmem \in [Pages -> [Index -> GuestEntry]]
  /\ cr3 \in CR3Values /\ cr0 \in CR0Values /\ cpl \in {0, 3}
  /\ pd \in [GuestPdis -> [p : BOOLEAN, ti : Tables, us : BOOLEAN, rw : BOOLEAN]]
  /\ tbl \in [Tables -> [Index -> [p : BOOLEAN, frame : Frames \cup {NoFrame}, rw : BOOLEAN]]]
  /\ lmap \in [GuestPdis -> Tables \cup {-1}]
  /\ nextTbl \in 0 .. NTables
  /\ tlb \in [GuestLin -> [p : BOOLEAN, frame : Frames \cup {NoFrame}, rw : BOOLEAN]]
  /\ pc \in PC
  /\ acc \in [l : LinPages, rw : BOOLEAN, task : {"none", "access", "instr", "fault"}]
  /\ walk \in [pde : GuestEntry, dirFrame : Frames \cup {NoFrame}, ppi : Nat, ti : Tables, rw : BOOLEAN]
  /\ legal \in [GuestLin -> SUBSET Int]

----------------------------------------------------------------------------
(* The guest's own view: what its page tables say. *)

\* The page linear page l translates to under tables m, -1 if none.
Translation(m, root, paging, l) ==
  IF ~paging THEN l[1] * NIndex + l[2]
  ELSE IF root \notin Pages \/ ~m[root][l[1]].p THEN -1
  ELSE LET t == m[root][l[1]].base
       IN  IF t \in Pages /\ m[t][l[2]].p THEN m[t][l[2]].base ELSE -1

\* The translations of every page under the current registers.
NowLegal == [l \in GuestLin |-> {Translation(gmem, cr3, cr0.pg, l)}]

----------------------------------------------------------------------------
(* The shadow, as the processor walks it. *)

ShadowPTE(l) == IF pd[l[1]].p THEN tbl[pd[l[1]].ti][l[2]] ELSE NoPTE

\* The guest runs at ring 3, whatever its CPL: both levels must allow it.
ShadowAllows(l, rw) ==
  /\ l \in GuestLin
  /\ ShadowPTE(l).p /\ pd[l[1]].us
  /\ rw => pd[l[1]].rw /\ ShadowPTE(l).rw

TlbAllows(l, rw) == l \in GuestLin /\ tlb[l].p /\ (rw => tlb[l].rw)

TlbEmpty == [l \in GuestLin |-> NoPTE]

\* hostInitShadowPaging and monInitShadowPaging: forget every table.  The
\* tables themselves keep their contents; only getFreePageTable clears them.
\* Fault: the heap index is reset but the directory stays.
ResetShadow_DirectoryKept ==
  /\ nextTbl' = 0
  /\ lmap' = [i \in GuestPdis |-> -1]
  /\ UNCHANGED <<pd, tbl>>
ResetShadow ==
  /\ nextTbl' = 0
  /\ pd' = [i \in GuestPdis |-> NoPDE]
  /\ lmap' = [i \in GuestPdis |-> -1]
  /\ UNCHANGED tbl

----------------------------------------------------------------------------
(* The guest. *)

GuestAccess(l, rw) ==
  /\ vmState = "Ready" /\ pc = "guest"
  /\ pc' = "exec" /\ acc' = [l |-> l, rw |-> rw, task |-> "access"]
  /\ UNCHANGED <<pinVars, guestVars, shadowVars, tlb, walk, legal>>

\* The access goes through, by the TLB or by a walk of the shadow that fills it.
AccessHits ==
  /\ vmState = "Ready" /\ pc = "exec"
  /\ \/ TlbAllows(acc.l, acc.rw) /\ UNCHANGED tlb
     \/ /\ ~TlbAllows(acc.l, acc.rw) /\ ShadowAllows(acc.l, acc.rw)
        /\ tlb' = [tlb EXCEPT ![acc.l] =
                     [p |-> TRUE, frame |-> ShadowPTE(acc.l).frame,
                      rw |-> pd[acc.l[1]].rw /\ ShadowPTE(acc.l).rw]]
  /\ pc' = "guest" /\ acc' = NoAccess
  /\ UNCHANGED <<pinVars, guestVars, shadowVars, walk, legal>>

\* The access faults into the monitor: guestPageFault, mapGuestLinAddr.
AccessFaults ==
  /\ vmState = "Ready" /\ pc = "exec"
  /\ ~TlbAllows(acc.l, acc.rw) /\ ~ShadowAllows(acc.l, acc.rw)
  /\ acc.l[1] # MonPdi
  /\ pc' = "pdir"
  /\ UNCHANGED <<pinVars, guestVars, shadowVars, tlb, acc, walk, legal>>

\* The guest changes an entry of one of its tables; it need not flush it yet.
GuestStore(p, i, e) ==
  /\ vmState = "Ready" /\ pc = "guest"
  /\ gmem' = [gmem EXCEPT ![p][i] = e]
  /\ legal' = [l \in GuestLin |-> legal[l] \cup {Translation(gmem', cr3, cr0.pg, l)}]
  /\ UNCHANGED <<pinVars, cr3, cr0, cpl, shadowVars, tlb, ctlVars>>

\* A host interrupt, in guest or in monitor code, takes the processor to the
\* host and back, and the page directory base is reloaded on the way.
HostRoundTrip ==
  /\ vmState = "Ready"
  /\ tlb' = TlbEmpty
  /\ UNCHANGED <<pinVars, guestVars, shadowVars, ctlVars, legal>>

----------------------------------------------------------------------------
(* mapGuestLinAddr. *)

\* A request beyond what a guest entry grants, by the guest's own rules.
Denied(e) ==
  \/ cpl = 3 /\ ~e.us
  \/ acc.rw /\ ~e.rw /\ (cr0.wp \/ cpl = 3)

\* Permissions a guest entry has in the shadow, where the guest runs at ring 3.
ShadowUS(e) == IF cpl = 3 THEN e.us ELSE TRUE
ShadowRW(e) == IF cpl = 3 \/ cr0.wp THEN e.rw ELSE TRUE

\* The guest's tables do not allow the access: doGuestFault delivers #PF.
RaiseGuestFault ==
  /\ pc' = "emu" /\ acc' = [acc EXCEPT !.task = "fault"] /\ walk' = NoWalk
  /\ UNCHANGED <<shadowVars>>

\* getFreePageTable: hand out the next table of the heap, cleared.
\* Fault: the table keeps the entries of its last use.
GetFreePageTable_NotCleared(i, us, rw) ==
  /\ nextTbl < NTables /\ lmap[i] = -1
  /\ lmap' = [lmap EXCEPT ![i] = nextTbl]
  /\ nextTbl' = nextTbl + 1
  /\ pd' = [pd EXCEPT ![i] = [p |-> TRUE, ti |-> nextTbl, us |-> us, rw |-> rw]]
  /\ UNCHANGED tbl
GetFreePageTable(i, us, rw) ==
  /\ nextTbl < NTables /\ lmap[i] = -1
  /\ tbl' = [tbl EXCEPT ![nextTbl] = [j \in Index |-> NoPTE]]
  /\ lmap' = [lmap EXCEPT ![i] = nextTbl]
  /\ nextTbl' = nextTbl + 1
  /\ pd' = [pd EXCEPT ![i] = [p |-> TRUE, ti |-> nextTbl, us |-> us, rw |-> rw]]

\* The page can be mapped for this access at all; otherwise MapLinPPageOOB
\* or MapLinEmulate, on which guestPageFault panics.
Mappable(ppi) ==
  /\ ppi \in Pages
  /\ IF ppi \in ROPages THEN ~acc.rw ELSE ppi \notin MMIOPages

\* mapIntoMonitor: with the guest's consent, find the shadow entry to fill.
\* pde is the guest's entry above it; rw what the page will be entered with.
MapIntoMonitor(ppi, pde, rw) ==
  LET i == acc.l[1]
      to(t) == walk' = [NoWalk EXCEPT !.ppi = ppi, !.ti = t, !.rw = rw /\ ppi \notin ROPages]
  IN
  /\ Mappable(ppi)
  /\ \/ /\ ~pd[i].p
        /\ cr0.pg => pde.base \notin ROPages \cup MMIOPages
        /\ GetFreePageTable(i, cr0.pg => ShadowUS(pde), cr0.pg => ShadowRW(pde))
        /\ to(nextTbl)
     \/ /\ pd[i].p
        /\ ~tbl[lmap[i]][acc.l[2]].p
        /\ to(lmap[i])
        /\ UNCHANGED shadowVars
  /\ pc' = "target" /\ UNCHANGED acc

\* Paging is off: a linear page is a physical page.
MapUnpaged ==
  /\ vmState = "Ready" /\ pc = "pdir" /\ ~cr0.pg
  /\ MapIntoMonitor(acc.l[1] * NIndex + acc.l[2], NoEntry, TRUE)
  /\ UNCHANGED <<pinVars, guestVars, tlb, legal>>

\* The guest page directory is open in window 0.
OpenPageDir ==
  /\ vmState = "Ready" /\ pc = "pdir" /\ cr0.pg
  /\ cr3 \in Pages /\ pinned[cr3]
  /\ LET pde == gmem[cr3][acc.l[1]]
     IN  \/ ~pde.p /\ RaiseGuestFault
         \/ /\ pde.p
            /\ pc' = "ptbl" /\ walk' = [NoWalk EXCEPT !.pde = pde, !.dirFrame = hostPPI[cr3]]
            /\ UNCHANGED <<acc, shadowVars>>
  /\ UNCHANGED <<pinVars, guestVars, tlb, legal>>

\* The guest page table is open in window 1 and its entry read; accessed and
\* dirty bits are written back through both windows.
OpenPageTable ==
  /\ vmState = "Ready" /\ pc = "ptbl"
  /\ walk.pde.base \in Pages /\ pinned[walk.pde.base]
  /\ LET pte == gmem[walk.pde.base][acc.l[2]]
         refused == ~pte.p \/ Denied(walk.pde) \/ Denied(pte)
     IN  \/ refused /\ RaiseGuestFault
         \/ ~refused /\ MapIntoMonitor(pte.base, walk.pde, ShadowRW(pte))
  /\ UNCHANGED <<pinVars, guestVars, tlb, legal>>

\* The target is pinned: fill the entry found before the pin, drop the stale
\* TLB entry and return to the guest, which repeats its access.
EnterTarget ==
  /\ vmState = "Ready" /\ pc = "target" /\ pinned[walk.ppi]
  /\ tbl' = [tbl EXCEPT ![walk.ti][acc.l[2]] =
               [p |-> TRUE, frame |-> hostPPI[walk.ppi], rw |-> walk.rw]]
  /\ tlb' = [tlb EXCEPT ![acc.l] = NoPTE]
  /\ pc' = "exec" /\ walk' = NoWalk
  /\ UNCHANGED <<pinVars, guestVars, pd, lmap, nextTbl, acc, legal>>

----------------------------------------------------------------------------
(* Emulation: translateLinToPhy and the accessors built on it, all of which *)
(* use window 0 only and use a page in the step that opens it.              *)

\* #GP or another fault of the guest that the monitor emulates.
GuestTraps ==
  /\ vmState = "Ready" /\ pc = "guest"
  /\ pc' = "emu" /\ acc' = [NoAccess EXCEPT !.task = "instr"]
  /\ UNCHANGED <<pinVars, guestVars, shadowVars, tlb, walk, legal>>

EmuAccess(l) ==
  /\ vmState = "Ready" /\ pc = "emu"
  /\ acc' = [acc EXCEPT !.l = l]
  /\ IF cr0.pg THEN pc' = "epdir" /\ UNCHANGED walk
               ELSE pc' = "edata" /\ walk' = [NoWalk EXCEPT !.ppi = l[1] * NIndex + l[2]]
  /\ UNCHANGED <<pinVars, guestVars, shadowVars, tlb, legal>>

EmuOpenPageDir ==
  /\ vmState = "Ready" /\ pc = "epdir"
  /\ cr3 \in Pages /\ pinned[cr3] /\ gmem[cr3][acc.l[1]].p
  /\ walk' = [NoWalk EXCEPT !.pde = gmem[cr3][acc.l[1]]]
  /\ pc' = "eptbl"
  /\ UNCHANGED <<pinVars, guestVars, shadowVars, tlb, acc, legal>>

EmuOpenPageTable ==
  /\ vmState = "Ready" /\ pc = "eptbl"
  /\ walk.pde.base \in Pages /\ pinned[walk.pde.base] /\ gmem[walk.pde.base][acc.l[2]].p
  /\ walk' = [NoWalk EXCEPT !.ppi = gmem[walk.pde.base][acc.l[2]].base]
  /\ pc' = "edata"
  /\ UNCHANGED <<pinVars, guestVars, shadowVars, tlb, acc, legal>>

EmuOpenData ==
  /\ vmState = "Ready" /\ pc = "edata"
  /\ walk.ppi \in Pages /\ pinned[walk.ppi]
  /\ walk' = NoWalk
  /\ pc' = "emu"
  /\ UNCHANGED <<pinVars, guestVars, shadowVars, tlb, acc, legal>>

\* The end of an emulation that leaves paging alone.  Interrupts and faults
\* go to ring 0, IRET may go to ring 3; the shadow is kept across both.
EmuReturns(c) ==
  /\ vmState = "Ready" /\ pc = "emu"
  /\ acc.task = "fault" => c = 0
  /\ cpl' = c
  /\ pc' = "guest" /\ acc' = NoAccess
  /\ UNCHANGED <<pinVars, gmem, cr3, cr0, shadowVars, tlb, walk, legal>>

\* INVLPG: invalidateGuestLinAddr clears the shadow entry, if there is one,
\* and the TLB entry.  Faults: the entry is cleared only in the TLB, or only
\* in the shadow.
EmuINVLPG_ShadowKept(l) ==
  /\ vmState = "Ready" /\ pc = "emu" /\ acc.task = "instr" /\ cpl = 0
  /\ cr0.pg /\ l \in GuestLin
  /\ tlb' = [tlb EXCEPT ![l] = NoPTE]
  /\ legal' = [legal EXCEPT ![l] = NowLegal[l]]
  /\ pc' = "guest" /\ acc' = NoAccess
  /\ UNCHANGED <<pinVars, guestVars, shadowVars, walk>>
EmuINVLPG_TlbKept(l) ==
  /\ vmState = "Ready" /\ pc = "emu" /\ acc.task = "instr" /\ cpl = 0
  /\ cr0.pg /\ l \in GuestLin
  /\ IF pd[l[1]].p THEN tbl' = [tbl EXCEPT ![lmap[l[1]]][l[2]] = NoPTE] ELSE UNCHANGED tbl
  /\ legal' = [legal EXCEPT ![l] = NowLegal[l]]
  /\ pc' = "guest" /\ acc' = NoAccess
  /\ UNCHANGED <<pinVars, guestVars, pd, lmap, nextTbl, tlb, walk>>
EmuINVLPG(l) ==
  /\ vmState = "Ready" /\ pc = "emu" /\ acc.task = "instr" /\ cpl = 0
  /\ cr0.pg /\ l \in GuestLin
  /\ IF pd[l[1]].p THEN tbl' = [tbl EXCEPT ![lmap[l[1]]][l[2]] = NoPTE] ELSE UNCHANGED tbl
  /\ tlb' = [tlb EXCEPT ![l] = NoPTE]
  /\ legal' = [legal EXCEPT ![l] = NowLegal[l]]
  /\ pc' = "guest" /\ acc' = NoAccess
  /\ UNCHANGED <<pinVars, guestVars, pd, lmap, nextTbl, walk>>

\* MOV to CR3 or CR0: setCRx resets the shadow and reloads the real CR3.
EmuSetCR(newCR3, newCR0) ==
  /\ vmState = "Ready" /\ pc = "emu" /\ acc.task = "instr" /\ cpl = 0
  /\ newCR3 = cr3 \/ newCR0 = cr0
  /\ ResetShadow
  /\ tlb' = TlbEmpty
  /\ cr3' = newCR3 /\ cr0' = newCR0
  /\ legal' = [l \in GuestLin |-> {Translation(gmem, newCR3, newCR0.pg, l)}]
  /\ pc' = "guest" /\ acc' = NoAccess
  /\ UNCHANGED <<pinVars, gmem, cpl, walk>>

----------------------------------------------------------------------------
(* Round trips to the host, panics, and the life of the VM's memory. *)

\* The page getHostOSPinnedPage is called for.
PageNeeded(p) ==
  \/ pc \in {"pdir", "epdir"} /\ cr0.pg /\ p = cr3
  \/ pc \in {"ptbl", "eptbl"} /\ p = walk.pde.base
  \/ pc \in {"target", "edata"} /\ p = walk.ppi

\* toHostPinUserPage: the host pins the page, and gives up the oldest pinned
\* page and the whole shadow for it when the queue is full.
\* Fault: the shadow survives the eviction.
PinUserPage_ShadowKept(p) ==
  /\ vmState = "Ready" /\ PageNeeded(p) /\ ~pinned[p]
  /\ \/ \E f \in Frames : PinSucceeds(p, f)
     \/ PinFails
  /\ tlb' = TlbEmpty
  /\ UNCHANGED <<guestVars, shadowVars, ctlVars, legal>>
PinUserPage(p) ==
  /\ vmState = "Ready" /\ PageNeeded(p) /\ ~pinned[p]
  /\ \/ \E f \in Frames : PinSucceeds(p, f)
     \/ PinFails
  /\ IF QueueFull THEN ResetShadow ELSE UNCHANGED shadowVars
  /\ tlb' = TlbEmpty
  /\ UNCHANGED <<guestVars, ctlVars, legal>>

\* The shadow cannot take the page: out of tables, already mapped, ...
MapBlocked(ppi, pde) ==
  LET i == acc.l[1]
  IN  \/ ~Mappable(ppi)
      \/ /\ ~pd[i].p
         /\ \/ cr0.pg /\ pde.base \in ROPages \cup MMIOPages
            \/ nextTbl >= NTables \/ lmap[i] # -1
      \/ pd[i].p /\ (lmap[i] = -1 \/ tbl[lmap[i]][acc.l[2]].p)

\* The monpanic calls of guestPageFault, mapGuestLinAddr and their callees.
WalkPanics ==
  \/ pc = "exec" /\ acc.l[1] = MonPdi
  \/ pc = "pdir" /\ ~cr0.pg /\ MapBlocked(acc.l[1] * NIndex + acc.l[2], NoEntry)
  \/ pc = "pdir" /\ cr0.pg /\ cr3 \notin Pages
  \/ pc = "ptbl" /\ walk.pde.base \notin Pages
  \/ /\ pc = "ptbl" /\ walk.pde.base \in Pages /\ pinned[walk.pde.base]
     /\ LET pte == gmem[walk.pde.base][acc.l[2]]
        IN  /\ pte.p /\ ~Denied(walk.pde) /\ ~Denied(pte)
            /\ MapBlocked(pte.base, walk.pde)

\* The monpanic calls of the emulation's accessors and of INVLPG (without paging, and
\* of an address in the monitor's own 4 megabytes, whose directory entry is present).
EmuPanics ==
  \/ pc = "epdir" /\ (cr3 \in Pages => pinned[cr3] /\ ~gmem[cr3][acc.l[1]].p)
  \/ /\ pc = "eptbl"
     /\ \/ walk.pde.base \notin Pages
        \/ pinned[walk.pde.base] /\ ~gmem[walk.pde.base][acc.l[2]].p
  \/ pc = "edata" /\ walk.ppi \notin Pages
  \/ /\ pc = "emu" /\ acc.task = "instr" /\ cpl = 0
     /\ ~cr0.pg \/ \E l \in LinPages : l[1] = MonPdi

MonPanic ==
  /\ vmState = "Ready" /\ (WalkPanics \/ EmuPanics)
  /\ vmState' = "Panic"
  /\ UNCHANGED <<pinned, hostPPI, pinQueue, hostRef, guestVars, shadowVars, tlb,
                 ctlVars, legal>>

\* TEARDOWN ioctl or close: every pinned page is put and the memory is freed.
\* A host interrupt can have brought the process here in the middle of a walk.
Teardown ==
  /\ ReleasePinnedUserPages
  /\ pd' = [i \in GuestPdis |-> NoPDE]
  /\ tbl' = [t \in Tables |-> [j \in Index |-> NoPTE]]
  /\ lmap' = [i \in GuestPdis |-> -1] /\ nextTbl' = 0
  /\ tlb' = TlbEmpty
  /\ pc' = "guest" /\ acc' = NoAccess /\ walk' = NoWalk
  /\ UNCHANGED <<guestVars, legal>>

\* A registration and the first EXECUTE of a freshly loaded guest.
Setup ==
  /\ InitPinState(ZeroSlots)
  /\ ResetShadow
  /\ gmem' = InitMem /\ cr3' = InitCR3 /\ cr0' = [pg |-> TRUE, wp |-> TRUE] /\ cpl' = 0
  /\ legal' = [l \in GuestLin |-> {Translation(InitMem, InitCR3, TRUE, l)}]
  /\ UNCHANGED <<tlb, ctlVars>>

Init ==
  /\ PinInit
  /\ gmem = InitMem /\ cr3 = InitCR3 /\ cr0 = [pg |-> TRUE, wp |-> TRUE] /\ cpl = 0
  /\ pd = [i \in GuestPdis |-> NoPDE]
  /\ tbl = [t \in Tables |-> [j \in Index |-> NoPTE]]
  /\ lmap = [i \in GuestPdis |-> -1] /\ nextTbl = 0
  /\ tlb = TlbEmpty
  /\ pc = "guest" /\ acc = NoAccess /\ walk = NoWalk
  /\ legal = NowLegal

MapStep == MapUnpaged \/ OpenPageDir \/ OpenPageTable \/ EnterTarget
EmuStep == EmuOpenPageDir \/ EmuOpenPageTable \/ EmuOpenData

Next ==
  \/ \E l \in LinPages, rw \in BOOLEAN : GuestAccess(l, rw)
  \/ AccessHits \/ AccessFaults
  \/ \E s \in GuestStores : GuestStore(s[1], s[2], s[3])
  \/ HostRoundTrip
  \/ MapStep
  \/ GuestTraps
  \/ \E l \in LinPages : EmuAccess(l)
  \/ EmuStep
  \/ \E c \in {0, 3} : EmuReturns(c)
  \/ \E l \in LinPages : EmuINVLPG(l)
  \/ \E v \in CR3Values, c \in CR0Values : EmuSetCR(v, c)
  \/ \E p \in Pages : PinUserPage(p)
  \/ MonPanic
  \/ Teardown \/ Setup

Spec == Init /\ [][Next]_vars

\* The guest repeats an access until it goes through or faults, and the
\* monitor and the host finish what a fault starts (the execute loop returns
\* to the monitor after every pin request).
Fairness ==
  /\ WF_vars(AccessHits \/ AccessFaults)
  /\ WF_vars(MapStep \/ MonPanic)
  /\ WF_vars(\E p \in Pages : PinUserPage(p))

FairSpec == Spec /\ Fairness

----------------------------------------------------------------------------
(* Properties. *)

\* Host memory safety.  Whatever the guest can reach through page_dir at this
\* moment is a frame the host holds for the VM, and the current frame of some
\* pinned guest page: an eviction by hostHandlePagePinRequest, even in the
\* middle of mapGuestLinAddr, never leaves a mapping to a frame given back.
ShadowMapsPinnedFrames ==
  \A l \in GuestLin : ShadowPTE(l).p =>
    \E p \in Pages : pinned[p] /\ hostPPI[p] = ShadowPTE(l).frame

\* The TLB never remembers what the shadow no longer says: each clearing of a
\* shadow entry comes with an INVLPG or a reload of CR3.
TlbCoherent ==
  \A l \in GuestLin : tlb[l].p =>
    ShadowPTE(l).p /\ tlb[l].frame = ShadowPTE(l).frame /\ (tlb[l].rw => ShadowPTE(l).rw)

\* Guest-visible paging.  A linear page reaches, in the shadow, only a guest
\* page its own tables gave for it at some moment since the guest last
\* invalidated it (INVLPG, MOV to CR3 or CR0), as for a processor's TLB.
ShadowFollowsGuest ==
  \A l \in GuestLin : ShadowPTE(l).p =>
    \A p \in Pages : pinned[p] /\ hostPPI[p] = ShadowPTE(l).frame => p \in legal[l]

\* The page-table heap: a present directory entry has a table of its own,
\* handed out since the last reset, and getMonPTi finds the same one.
TablesNotShared ==
  /\ \A i \in GuestPdis : pd[i].p => lmap[i] = pd[i].ti /\ pd[i].ti < nextTbl
  /\ \A i, j \in GuestPdis : pd[i].p /\ pd[j].p /\ pd[i].ti = pd[j].ti => i = j

\* "We must not unpin open pages (for page walking) here" (monitor.c:2126):
\* while the walk goes on to the page table, the page directory it has open
\* in window 0, to set the accessed bit later, stays pinned where it was.
OpenPagesStayPinned ==
  vmState = "Ready" /\ pc = "ptbl" => pinned[cr3] /\ walk.dirFrame = hostPPI[cr3]

\* A fault of the guest is settled: the access goes through, the guest gets
\* its own fault, or the VM stops.  Evictions restart the walk, but not for
\* ever, if a walk's three pages fit the pin queue.
FaultSettles ==
  pc = "pdir" ~> (pc \notin {"exec", "pdir", "ptbl", "target"} \/ vmState # "Ready")
============================================================================
