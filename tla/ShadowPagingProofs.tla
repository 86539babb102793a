------------------------ MODULE ShadowPagingProofs ------------------------
(***************************************************************************)
(* Proofs about shadow paging, for any number of guest pages, any pin      *)
(* queue, any heap of page tables, any guest tables and any stores of the  *)
(* guest to them.                                                          *)
(***************************************************************************)
EXTENDS ShadowPaging, PagePinProofs

Entry == [p : BOOLEAN, frame : Frames \cup {NoFrame}, rw : BOOLEAN]
PDE == [p : BOOLEAN, ti : Tables, us : BOOLEAN, rw : BOOLEAN]
Task == {"none", "access", "instr", "fault"}
Access == [l : LinPages, rw : BOOLEAN, task : Task]
Walk == [pde : GuestEntry, dirFrame : Frames \cup {NoFrame}, ppi : Nat, ti : Tables, rw : BOOLEAN]

\* A VM without memory runs no guest and has nothing in the TLB, which a new
\* registration does not flush.
DownIsQuiet == vmState = "Down" => tlb = TlbEmpty /\ pc = "guest"

\* What the guest's tables say now is among what they have said.
LegalNow == \A l \in GuestLin : Translation(gmem, cr3, cr0.pg, l) \in legal[l]

\* mapGuestLinAddr's locals stay true across its round trips to the host: the
\* directory entry it read is still the guest's, the target page is one the
\* tables gave, and the page table it found is the one in the directory,
\* unless an eviction has emptied the directory in between.
WalkHonest ==
  /\ pc \in {"pdir", "ptbl", "target"} => acc.l \in GuestLin
  /\ pc = "ptbl" =>
       /\ cr0.pg /\ cr3 \in Pages
       /\ walk.pde = gmem[cr3][acc.l[1]] /\ walk.pde.p
  /\ pc = "target" =>
       /\ walk.ppi \in Pages /\ walk.ppi \in legal[acc.l]
       /\ \/ pd[acc.l[1]].p /\ pd[acc.l[1]].ti = walk.ti
          \/ \A i \in GuestPdis : ~pd[i].p

\* What the shadow, the TLB and the guest's tables have to do with each other.
ShadowAgrees ==
  /\ TablesNotShared
  /\ TlbCoherent
  /\ ShadowMapsPinnedFrames
  /\ ShadowFollowsGuest

\* The inductive invariant.
ShadowInv ==
  /\ TypeOK /\ PinInv /\ ShadowAgrees
  /\ DownIsQuiet /\ LegalNow /\ WalkHonest

----------------------------------------------------------------------------
(* Linear pages, entries and tables. *)

LEMMA LinPageType ==
  /\ \A l \in LinPages : l[1] \in Index /\ l[2] \in Index
  /\ \A l \in GuestLin : l \in LinPages /\ l[1] \in GuestPdis
  BY ShadowAssumption DEF GuestLin, GuestPdis

LEMMA LinPageIsPair ==
  ASSUME NEW l \in LinPages, NEW m \in LinPages, l[1] = m[1], l[2] = m[2]
  PROVE  l = m
  <1>1. l \in Index \X Index /\ m \in Index \X Index
    BY ShadowAssumption
  <1>2. QED BY <1>1

LEMMA NothingTypes ==
  /\ NoPDE \in PDE /\ NoPTE \in Entry /\ NoEntry \in GuestEntry
  /\ NoWalk \in Walk /\ NoAccess \in Access
  /\ ~NoPDE.p /\ ~NoPTE.p
  /\ TlbEmpty \in [GuestLin -> Entry]
  <1>1. 0 \in Tables
    BY ShadowAssumption DEF Tables
  <1>2. NoPDE \in PDE /\ NoPTE \in Entry /\ NoEntry \in GuestEntry
    BY <1>1 DEF NoPDE, NoPTE, NoEntry, PDE, Entry, GuestEntry
  <1>3. NoWalk \in Walk
    BY <1>1, <1>2 DEF NoWalk, Walk
  <1>4. NoAccess \in Access
    <2>1. (CHOOSE l \in LinPages : TRUE) \in LinPages
      BY ShadowAssumption
    <2>2. QED BY <2>1 DEF NoAccess, Access, Task
  <1>5. QED BY <1>2, <1>3, <1>4 DEF NoPDE, NoPTE, TlbEmpty

\* The type invariant without the pin component's part.
LEMMA Types ==
  TypeOK <=>
    /\ PinTypeOK
    /\ gmem \in [Pages -> [Index -> GuestEntry]]
    /\ cr3 \in CR3Values /\ cr0 \in CR0Values /\ cpl \in {0, 3}
    /\ pd \in [GuestPdis -> PDE]
    /\ tbl \in [Tables -> [Index -> Entry]]
    /\ lmap \in [GuestPdis -> Tables \cup {-1}]
    /\ nextTbl \in 0 .. NTables
    /\ tlb \in [GuestLin -> Entry]
    /\ pc \in PC /\ acc \in Access /\ walk \in Walk
    /\ legal \in [GuestLin -> SUBSET Int]
  BY DEF TypeOK, PDE, Entry, Access, Task, Walk

\* A shadow entry is an entry.
LEMMA ShadowPTEType ==
  ASSUME TypeOK, NEW l \in GuestLin
  PROVE  ShadowPTE(l) \in Entry
  <1>1. l[1] \in GuestPdis /\ l[2] \in Index
    BY LinPageType
  <1>2. pd[l[1]].p => pd[l[1]].ti \in Tables
    BY <1>1, Types DEF PDE
  <1>3. QED BY <1>1, <1>2, Types, NothingTypes DEF ShadowPTE

\* The guest's translation of a page is a page number or -1.
LEMMA TranslationType ==
  ASSUME NEW m \in [Pages -> [Index -> GuestEntry]], NEW root \in Nat,
         NEW paging \in BOOLEAN, NEW l \in GuestLin
  PROVE  Translation(m, root, paging, l) \in Int
  <1>1. l[1] \in Index /\ l[2] \in Index /\ l[1] \in Nat /\ l[2] \in Nat
    BY LinPageType DEF Index
  <1>2. l[1] * NIndex + l[2] \in Int
    BY <1>1, ShadowAssumption
  <1>3. \A r \in Pages, i \in Index : m[r][i].base \in Nat
    BY DEF GuestEntry
  <1>4. QED BY <1>1, <1>2, <1>3, SMTT(20) DEF Translation

----------------------------------------------------------------------------
(* What a step does to the agreement, by what it does to the state. *)

\* The shadow, the pins and the guest's tables stay; the TLB stays or is empty.
LEMMA AgreesWhenQuiet ==
  ASSUME ShadowInv, UNCHANGED <<pinVars, pd, tbl, lmap, nextTbl, legal>>,
         tlb' = tlb \/ tlb' = TlbEmpty
  PROVE  ShadowAgrees'
  <1>1. \A l \in GuestLin : ShadowPTE(l)' = ShadowPTE(l)
    BY DEF ShadowPTE
  <1>2. TablesNotShared'
    BY DEF ShadowInv, ShadowAgrees, TablesNotShared
  <1>3. TlbCoherent'
    BY <1>1, NothingTypes DEF ShadowInv, ShadowAgrees, TlbCoherent, TlbEmpty
  <1>4. ShadowMapsPinnedFrames' /\ ShadowFollowsGuest'
    BY <1>1 DEF ShadowInv, ShadowAgrees, ShadowMapsPinnedFrames, ShadowFollowsGuest, pinVars, Pages
  <1>5. QED BY <1>2, <1>3, <1>4 DEF ShadowAgrees

\* An empty directory and an empty TLB agree with anything.
LEMMA AgreesWhenReset ==
  ASSUME pd' = [i \in GuestPdis |-> NoPDE], tlb' = TlbEmpty
  PROVE  ShadowAgrees'
  <1>1. \A i \in GuestPdis : ~pd'[i].p
    BY NothingTypes
  <1>2. \A l \in GuestLin : ~ShadowPTE(l)'.p
    BY <1>1, LinPageType, NothingTypes DEF ShadowPTE
  <1>3. \A l \in GuestLin : ~tlb'[l].p
    BY NothingTypes DEF TlbEmpty
  <1>4. QED
    BY <1>1, <1>2, <1>3
    DEF ShadowAgrees, TablesNotShared, TlbCoherent, ShadowMapsPinnedFrames, ShadowFollowsGuest

LEMMA PinUnchanged ==
  ASSUME PinInv, UNCHANGED pinVars
  PROVE  PinInv'
  BY PinNextInv

LEMMA LegalUnchanged ==
  ASSUME LegalNow, UNCHANGED <<gmem, cr3, cr0, legal>>
  PROVE  LegalNow'
  BY DEF LegalNow, Translation

\* A step that changes only the monitor's control, and perhaps flushes.
LEMMA QuietStep ==
  ASSUME ShadowInv, vmState = "Ready",
         UNCHANGED <<pinVars, gmem, cr3, cr0, shadowVars, legal>>,
         cpl' \in {0, 3}, tlb' = tlb \/ tlb' = TlbEmpty,
         pc' \in PC, acc' \in Access, walk' \in Walk, WalkHonest'
  PROVE  ShadowInv'
  <1>1. PinInv' /\ LegalNow'
    BY PinUnchanged, LegalUnchanged DEF ShadowInv
  <1>2. ShadowAgrees'
    BY AgreesWhenQuiet DEF shadowVars
  <1>3. tlb' \in [GuestLin -> Entry]
    BY Types, NothingTypes DEF ShadowInv
  <1>4. TypeOK'
    BY <1>1, <1>3, Types DEF ShadowInv, PinInv, shadowVars,
       TypeOK, PDE, Entry, Access, Task, Walk, Pages
  <1>5. DownIsQuiet'
    BY DEF DownIsQuiet, pinVars
  <1>6. QED BY <1>1, <1>2, <1>4, <1>5 DEF ShadowInv

----------------------------------------------------------------------------
(* The guest runs, accesses memory and traps. *)

LEMMA GuestAccessInv ==
  ASSUME ShadowInv, NEW l \in LinPages, NEW rw \in BOOLEAN, GuestAccess(l, rw)
  PROVE  ShadowInv'
  <1> USE DEF GuestAccess
  <1>1. pc' \in PC /\ acc' \in Access /\ walk' \in Walk
    BY Types DEF ShadowInv, PC, Access, Task
  <1>2. WalkHonest'
    BY DEF WalkHonest
  <1>3. QED BY <1>1, <1>2, QuietStep, Types DEF ShadowInv, guestVars

\* The TLB is filled from the shadow, with no more rights than it grants.
LEMMA AccessHitsInv ==
  ASSUME ShadowInv, AccessHits
  PROVE  ShadowInv'
  <1> USE DEF AccessHits
  <1>1. pc' \in PC /\ acc' \in Access /\ walk' \in Walk
    BY Types, NothingTypes DEF ShadowInv, PC
  <1>2. WalkHonest'
    BY DEF WalkHonest
  <1>3. CASE UNCHANGED tlb
    BY <1>1, <1>2, <1>3, QuietStep, Types DEF ShadowInv, guestVars
  <1>4. ASSUME ShadowAllows(acc.l, acc.rw),
               tlb' = [tlb EXCEPT ![acc.l] =
                     [p |-> TRUE, frame |-> ShadowPTE(acc.l).frame,
                      rw |-> pd[acc.l[1]].rw /\ ShadowPTE(acc.l).rw]]
        PROVE  ShadowInv'
    <2> DEFINE e == [p |-> TRUE, frame |-> ShadowPTE(acc.l).frame,
                     rw |-> pd[acc.l[1]].rw /\ ShadowPTE(acc.l).rw]
    <2>1. /\ acc.l \in GuestLin /\ ShadowPTE(acc.l) \in Entry /\ ShadowPTE(acc.l).p
          /\ tlb \in [GuestLin -> Entry]
      BY <1>4, ShadowPTEType, Types DEF ShadowInv, ShadowAllows
    <2>2. pd[acc.l[1]].rw \in BOOLEAN
      BY <2>1, LinPageType, Types DEF ShadowInv, PDE
    <2>3. e \in Entry
      BY <2>1, <2>2 DEF Entry
    <2>4. tlb' \in [GuestLin -> Entry]
      BY <1>4, <2>1, <2>3
    <2>5. TypeOK'
      BY <1>1, <2>4, Types DEF ShadowInv, guestVars, shadowVars, pinVars, PinTypeOK, Slots,
         TypeOK, PDE, Entry, Access, Task, Walk, Pages
    <2>6. /\ TablesNotShared' /\ ShadowMapsPinnedFrames' /\ ShadowFollowsGuest'
      <3>1. \A l \in GuestLin : ShadowPTE(l)' = ShadowPTE(l)
        BY DEF ShadowPTE, shadowVars
      <3>2. QED
        BY <3>1 DEF ShadowInv, ShadowAgrees, TablesNotShared, ShadowMapsPinnedFrames,
                    ShadowFollowsGuest, pinVars, shadowVars, Pages
    <2>7. TlbCoherent'
      <3>1. \A l \in GuestLin : ShadowPTE(l)' = ShadowPTE(l)
        BY DEF ShadowPTE, shadowVars
      <3>2. \A l \in GuestLin : tlb'[l] = IF l = acc.l THEN e ELSE tlb[l]
        BY <1>4, <2>1
      <3>3. e.frame = ShadowPTE(acc.l).frame /\ (e.rw => ShadowPTE(acc.l).rw)
        OBVIOUS
      <3> HIDE DEF e
      <3>4. QED BY <2>1, <3>1, <3>2, <3>3 DEF ShadowInv, ShadowAgrees, TlbCoherent
    <2>8. PinInv' /\ LegalNow'
      BY PinUnchanged, LegalUnchanged DEF ShadowInv, guestVars
    <2>9. DownIsQuiet'
      BY DEF DownIsQuiet, pinVars
    <2>10. QED BY <1>2, <2>5, <2>6, <2>7, <2>8, <2>9 DEF ShadowInv, ShadowAgrees
  <1>5. QED BY <1>3, <1>4

LEMMA AccessFaultsInv ==
  ASSUME ShadowInv, AccessFaults
  PROVE  ShadowInv'
  <1> USE DEF AccessFaults
  <1>1. pc' \in PC /\ acc' \in Access /\ walk' \in Walk
    BY Types DEF ShadowInv, PC
  <1>2. acc.l \in GuestLin
    BY Types DEF ShadowInv, Access, GuestLin
  <1>3. WalkHonest'
    BY <1>2 DEF WalkHonest
  <1>4. QED BY <1>1, <1>3, QuietStep, Types DEF ShadowInv, guestVars

LEMMA HostRoundTripInv ==
  ASSUME ShadowInv, HostRoundTrip
  PROVE  ShadowInv'
  <1> USE DEF HostRoundTrip
  <1>1. pc' \in PC /\ acc' \in Access /\ walk' \in Walk
    BY Types DEF ShadowInv, ctlVars
  <1>2. WalkHonest'
    BY DEF ShadowInv, WalkHonest, guestVars, shadowVars, ctlVars
  <1>3. QED BY <1>1, <1>2, QuietStep, Types DEF ShadowInv, guestVars

\* Every action of the emulation that leaves the paging registers alone.
LEMMA EmulationInv ==
  ASSUME ShadowInv,
         \/ GuestTraps
         \/ \E l \in LinPages : EmuAccess(l)
         \/ EmuStep
         \/ \E c \in {0, 3} : EmuReturns(c)
  PROVE  ShadowInv'
  <1>1. CASE GuestTraps
    <2> USE <1>1 DEF GuestTraps
    <2>1. pc' \in PC /\ acc' \in Access /\ walk' \in Walk
      BY Types, NothingTypes DEF ShadowInv, PC, Access, Task
    <2>2. WalkHonest'
      BY DEF WalkHonest
    <2>3. QED BY <2>1, <2>2, QuietStep, Types DEF ShadowInv, guestVars
  <1>2. ASSUME NEW l \in LinPages, EmuAccess(l) PROVE ShadowInv'
    <2> USE <1>2 DEF EmuAccess
    <2>1. l[1] * NIndex + l[2] \in Nat
      <3>1. l[1] \in Nat /\ l[2] \in Nat /\ NIndex \in Nat
        BY LinPageType, ShadowAssumption DEF Index
      <3>2. QED BY <3>1
    <2>2. pc' \in PC /\ acc' \in Access /\ walk' \in Walk
      BY <2>1, Types, NothingTypes DEF ShadowInv, PC, Access, Walk
    <2>3. WalkHonest'
      BY DEF WalkHonest
    <2>4. QED BY <2>2, <2>3, QuietStep, Types DEF ShadowInv, guestVars
  <1>3. CASE EmuOpenPageDir
    <2> USE <1>3 DEF EmuOpenPageDir
    <2>1. gmem[cr3][acc.l[1]] \in GuestEntry
      BY Types, LinPageType DEF ShadowInv, Access
    <2>2. pc' \in PC /\ acc' \in Access /\ walk' \in Walk
      BY <2>1, Types, NothingTypes DEF ShadowInv, PC, Walk
    <2>3. WalkHonest'
      BY DEF WalkHonest
    <2>4. QED BY <2>2, <2>3, QuietStep, Types DEF ShadowInv, guestVars
  <1>4. CASE EmuOpenPageTable
    <2> USE <1>4 DEF EmuOpenPageTable
    <2>1. gmem[walk.pde.base][acc.l[2]].base \in Nat
      BY Types, LinPageType DEF ShadowInv, Access, GuestEntry
    <2>2. pc' \in PC /\ acc' \in Access /\ walk' \in Walk
      BY <2>1, Types, NothingTypes DEF ShadowInv, PC, Walk
    <2>3. WalkHonest'
      BY DEF WalkHonest
    <2>4. QED BY <2>2, <2>3, QuietStep, Types DEF ShadowInv, guestVars
  <1>5. CASE EmuOpenData
    <2> USE <1>5 DEF EmuOpenData
    <2>1. pc' \in PC /\ acc' \in Access /\ walk' \in Walk
      BY Types, NothingTypes DEF ShadowInv, PC
    <2>2. WalkHonest'
      BY DEF WalkHonest
    <2>3. QED BY <2>1, <2>2, QuietStep, Types DEF ShadowInv, guestVars
  <1>6. ASSUME NEW c \in {0, 3}, EmuReturns(c) PROVE ShadowInv'
    <2> USE <1>6 DEF EmuReturns
    <2>1. pc' \in PC /\ acc' \in Access /\ walk' \in Walk
      BY Types, NothingTypes DEF ShadowInv, PC
    <2>2. WalkHonest'
      BY DEF WalkHonest
    <2>3. QED BY <2>1, <2>2, QuietStep
  <1>7. QED BY <1>1, <1>2, <1>3, <1>4, <1>5, <1>6 DEF EmuStep

----------------------------------------------------------------------------
(* mapGuestLinAddr. *)

\* The guest's tables do not allow the access.
LEMMA RaiseGuestFaultInv ==
  ASSUME ShadowInv, vmState = "Ready", RaiseGuestFault,
         UNCHANGED <<pinVars, guestVars, tlb, legal>>
  PROVE  ShadowInv'
  <1> USE DEF RaiseGuestFault
  <1>1. pc' \in PC /\ acc' \in Access /\ walk' \in Walk
    BY Types, NothingTypes DEF ShadowInv, PC, Access, Task
  <1>2. WalkHonest'
    BY DEF WalkHonest
  <1>3. QED BY <1>1, <1>2, QuietStep, Types DEF ShadowInv, guestVars

LEMMA OpenPageDirInv ==
  ASSUME ShadowInv, OpenPageDir
  PROVE  ShadowInv'
  <1> DEFINE pde == gmem[cr3][acc.l[1]]
  <1>1. CASE RaiseGuestFault
    BY <1>1, RaiseGuestFaultInv DEF OpenPageDir
  <1>2. ASSUME pde.p, pc' = "ptbl", walk' = [NoWalk EXCEPT !.pde = pde, !.dirFrame = hostPPI[cr3]],
               UNCHANGED <<acc, shadowVars>>
        PROVE  ShadowInv'
    <2> USE <1>2 DEF OpenPageDir
    <2>1. pde \in GuestEntry /\ hostPPI[cr3] \in Frames \cup {NoFrame}
      BY Types, LinPageType DEF ShadowInv, Access, PinTypeOK
    <2>2. pc' \in PC /\ acc' \in Access /\ walk' \in Walk
      BY <2>1, Types, NothingTypes DEF ShadowInv, PC, Walk
    <2>3. walk'.pde = pde
      BY NothingTypes DEF Walk
    <2>4. WalkHonest'
      BY <2>3 DEF ShadowInv, WalkHonest, guestVars, Pages
    <2>5. QED BY <2>2, <2>4, QuietStep, Types DEF ShadowInv, guestVars
  <1>3. QED BY <1>1, <1>2 DEF OpenPageDir

\* getFreePageTable hands out a table no present entry names, and clears it.
LEMMA GetFreePageTableAgrees ==
  ASSUME ShadowInv, NEW i \in GuestPdis, NEW us \in BOOLEAN, NEW rw \in BOOLEAN,
         ~pd[i].p, GetFreePageTable(i, us, rw), UNCHANGED <<pinVars, tlb, legal>>
  PROVE  /\ ShadowAgrees'
         /\ pd' \in [GuestPdis -> PDE] /\ tbl' \in [Tables -> [Index -> Entry]]
         /\ lmap' \in [GuestPdis -> Tables \cup {-1}] /\ nextTbl' \in 0 .. NTables
         /\ nextTbl \in Tables /\ pd'[i].p /\ pd'[i].ti = nextTbl
  <1> USE DEF GetFreePageTable
  <1> DEFINE e == [p |-> TRUE, ti |-> nextTbl, us |-> us, rw |-> rw]
             blank == [j \in Index |-> NoPTE]
  <1>1. /\ pd \in [GuestPdis -> PDE] /\ tbl \in [Tables -> [Index -> Entry]]
        /\ lmap \in [GuestPdis -> Tables \cup {-1}] /\ nextTbl \in 0 .. NTables
    BY Types DEF ShadowInv
  <1>2. nextTbl \in Tables /\ nextTbl + 1 \in 0 .. NTables
    BY <1>1, ShadowAssumption DEF Tables
  <1>3. e \in PDE /\ e.p /\ e.ti = nextTbl
    BY <1>2 DEF PDE
  <1>4. blank \in [Index -> Entry] /\ \A j \in Index : ~blank[j].p
    BY NothingTypes
  <1>5. /\ pd' = [pd EXCEPT ![i] = e] /\ tbl' = [tbl EXCEPT ![nextTbl] = blank]
        /\ lmap' = [lmap EXCEPT ![i] = nextTbl] /\ nextTbl' = nextTbl + 1
    OBVIOUS
  <1> HIDE DEF e, blank, GetFreePageTable
  <1>6. /\ pd' \in [GuestPdis -> PDE] /\ tbl' \in [Tables -> [Index -> Entry]]
        /\ lmap' \in [GuestPdis -> Tables \cup {-1}] /\ nextTbl' \in 0 .. NTables
    BY <1>1, <1>2, <1>3, <1>4, <1>5
  <1>7. /\ \A k \in GuestPdis : pd'[k] = IF k = i THEN e ELSE pd[k]
        /\ \A k \in GuestPdis : lmap'[k] = IF k = i THEN nextTbl ELSE lmap[k]
        /\ \A t \in Tables : tbl'[t] = IF t = nextTbl THEN blank ELSE tbl[t]
    BY <1>1, <1>2, <1>5
  <1>8. \A k \in GuestPdis : pd[k].p => /\ lmap[k] = pd[k].ti /\ pd[k].ti < nextTbl
                                        /\ pd[k].ti \in Tables
    BY <1>1 DEF ShadowInv, ShadowAgrees, TablesNotShared, PDE
  <1>9. TablesNotShared'
    <2>1. ASSUME NEW k \in GuestPdis, pd'[k].p
          PROVE  lmap'[k] = pd'[k].ti /\ pd'[k].ti < nextTbl'
      <3>1. CASE k = i
        BY <1>2, <1>3, <1>5, <1>7, <3>1 DEF Tables
      <3>2. CASE k # i
        BY <1>1, <1>2, <1>5, <1>7, <1>8, <2>1, <3>2 DEF Tables
      <3>3. QED BY <3>1, <3>2
    <2>2. ASSUME NEW k \in GuestPdis, NEW m \in GuestPdis, pd'[k].p, pd'[m].p,
                 pd'[k].ti = pd'[m].ti
          PROVE  k = m
      <3>1. \A n \in GuestPdis : pd[n].p => pd[n].ti # nextTbl
        BY <1>1, <1>8 DEF Tables
      <3>2. \A n1, n2 \in GuestPdis : pd[n1].p /\ pd[n2].p /\ pd[n1].ti = pd[n2].ti => n1 = n2
        BY DEF ShadowInv, ShadowAgrees, TablesNotShared
      <3>3. CASE k = i
        BY <1>3, <1>7, <2>2, <3>1, <3>3
      <3>4. CASE m = i
        BY <1>3, <1>7, <2>2, <3>1, <3>4
      <3>5. CASE k # i /\ m # i
        BY <1>7, <2>2, <3>2, <3>5
      <3>6. QED BY <3>3, <3>4, <3>5
    <2>3. QED BY <2>1, <2>2 DEF TablesNotShared
  <1>10. ASSUME NEW l \in GuestLin
         PROVE  IF l[1] = i THEN ~ShadowPTE(l)'.p /\ ~ShadowPTE(l).p
                            ELSE ShadowPTE(l)' = ShadowPTE(l)
    <2>1. l[1] \in GuestPdis /\ l[2] \in Index
      BY LinPageType
    <2>2. CASE l[1] = i
      BY <1>2, <1>3, <1>4, <1>7, <2>1, <2>2, NothingTypes DEF ShadowPTE
    <2>3. CASE l[1] # i
      <3>1. pd'[l[1]] = pd[l[1]]
        BY <1>7, <2>1, <2>3
      <3>2. pd[l[1]].p => tbl'[pd[l[1]].ti] = tbl[pd[l[1]].ti]
        BY <1>1, <1>7, <1>8, <2>1 DEF Tables
      <3>3. QED BY <2>3, <3>1, <3>2 DEF ShadowPTE
    <2>4. QED BY <2>2, <2>3
  <1>11. TlbCoherent' /\ ShadowMapsPinnedFrames' /\ ShadowFollowsGuest'
    <2>1. \A l \in GuestLin : tlb[l].p => ShadowPTE(l).p
      BY DEF ShadowInv, ShadowAgrees, TlbCoherent
    <2>2. TlbCoherent'
      BY <1>10, <2>1 DEF ShadowInv, ShadowAgrees, TlbCoherent
    <2>3. QED
      BY <1>10, <2>2
      DEF ShadowInv, ShadowAgrees, ShadowMapsPinnedFrames, ShadowFollowsGuest, pinVars, Pages
  <1>12. pd'[i].p /\ pd'[i].ti = nextTbl
    BY <1>3, <1>7
  <1>13. QED BY <1>2, <1>6, <1>9, <1>11, <1>12 DEF ShadowAgrees

\* mapIntoMonitor, for a page the guest's tables give for the linear page now.
LEMMA MapIntoMonitorInv ==
  ASSUME ShadowInv, vmState = "Ready", pc \in {"pdir", "ptbl"},
         NEW ppi \in Nat, NEW pde \in GuestEntry, NEW rw \in BOOLEAN,
         ppi = Translation(gmem, cr3, cr0.pg, acc.l),
         MapIntoMonitor(ppi, pde, rw), UNCHANGED <<pinVars, guestVars, tlb, legal>>
  PROVE  ShadowInv'
  <1> DEFINE i == acc.l[1]
             to(t) == [NoWalk EXCEPT !.ppi = ppi, !.ti = t, !.rw = rw /\ ppi \notin ROPages]
  <1>1. acc.l \in GuestLin /\ acc \in Access /\ i \in GuestPdis /\ acc.l[2] \in Index
    BY LinPageType, Types DEF ShadowInv, WalkHonest
  <1>2. ppi \in Pages /\ pc' = "target" /\ acc' = acc
    BY DEF MapIntoMonitor, Mappable
  <1>3. ppi \in legal[acc.l]
    BY <1>1 DEF ShadowInv, LegalNow
  <1>4. ASSUME NEW t \in Tables
        PROVE  to(t) \in Walk /\ to(t).ppi = ppi /\ to(t).ti = t
    <2> DEFINE w == rw /\ ppi \notin ROPages
    <2>1. w \in BOOLEAN
      OBVIOUS
    <2> HIDE DEF w
    <2>2. NoWalk \in Walk
      BY NothingTypes
    <2>3. /\ [NoWalk EXCEPT !.ppi = ppi, !.ti = t, !.rw = w] \in Walk
          /\ [NoWalk EXCEPT !.ppi = ppi, !.ti = t, !.rw = w].ppi = ppi
          /\ [NoWalk EXCEPT !.ppi = ppi, !.ti = t, !.rw = w].ti = t
      BY <2>1, <2>2 DEF Walk
    <2>4. QED BY <2>3 DEF w
  <1>5. PinInv' /\ LegalNow' /\ DownIsQuiet'
    BY PinUnchanged, LegalUnchanged DEF ShadowInv, guestVars, DownIsQuiet, pinVars
  <1>6. ASSUME ~pd[i].p,
               GetFreePageTable(i, cr0.pg => ShadowUS(pde), cr0.pg => ShadowRW(pde)),
               walk' = to(nextTbl)
        PROVE  ShadowInv'
    <2> DEFINE u == cr0.pg => ShadowUS(pde)
               r == cr0.pg => ShadowRW(pde)
    <2>1. u \in BOOLEAN /\ r \in BOOLEAN
      OBVIOUS
    <2>2. GetFreePageTable(i, u, r)
      BY <1>6
    <2> HIDE DEF u, r
    <2>3. /\ ShadowAgrees'
          /\ pd' \in [GuestPdis -> PDE] /\ tbl' \in [Tables -> [Index -> Entry]]
          /\ lmap' \in [GuestPdis -> Tables \cup {-1}] /\ nextTbl' \in 0 .. NTables
          /\ nextTbl \in Tables /\ pd'[i].p /\ pd'[i].ti = nextTbl
      BY <1>1, <1>6, <2>1, <2>2, GetFreePageTableAgrees
    <2>4. walk' \in Walk /\ walk'.ppi = ppi /\ walk'.ti = nextTbl
      BY <1>4, <1>6, <2>3
    <2> HIDE DEF to
    <2>5. TypeOK'
      BY <1>2, <1>5, <2>3, <2>4, Types DEF ShadowInv, PinInv, guestVars, PC,
         TypeOK, PDE, Entry, Access, Task, Walk, Pages
    <2>6. WalkHonest'
      BY <1>1, <1>2, <1>3, <2>3, <2>4 DEF WalkHonest, Pages
    <2>7. QED BY <1>5, <2>3, <2>5, <2>6 DEF ShadowInv
  <1>7. ASSUME pd[i].p, walk' = to(lmap[i]), UNCHANGED shadowVars
        PROVE  ShadowInv'
    <2>1. lmap[i] = pd[i].ti /\ lmap[i] \in Tables
      BY <1>1, <1>7, Types DEF ShadowInv, ShadowAgrees, TablesNotShared, PDE
    <2>2. walk' \in Walk /\ walk'.ppi = ppi /\ walk'.ti = lmap[i]
      BY <1>4, <1>7, <2>1
    <2> HIDE DEF to
    <2>3. WalkHonest'
      BY <1>1, <1>2, <1>3, <1>7, <2>1, <2>2 DEF WalkHonest, Pages, shadowVars
    <2>4. QED
      BY <1>1, <1>2, <1>7, <2>2, <2>3, QuietStep, Types DEF ShadowInv, guestVars, PC
  <1>8. QED BY <1>6, <1>7 DEF MapIntoMonitor

LEMMA MapUnpagedInv ==
  ASSUME ShadowInv, MapUnpaged
  PROVE  ShadowInv'
  <1> DEFINE ppi == acc.l[1] * NIndex + acc.l[2]
  <1>1. ppi \in Nat
    <2>1. acc.l \in LinPages
      BY Types DEF ShadowInv, Access
    <2>2. acc.l[1] \in Nat /\ acc.l[2] \in Nat /\ NIndex \in Nat
      BY <2>1, LinPageType, ShadowAssumption DEF Index
    <2>3. QED BY <2>2
  <1>2. ppi = Translation(gmem, cr3, cr0.pg, acc.l)
    BY DEF MapUnpaged, Translation
  <1>3. NoEntry \in GuestEntry /\ vmState = "Ready" /\ pc = "pdir"
        /\ MapIntoMonitor(ppi, NoEntry, TRUE) /\ UNCHANGED <<pinVars, guestVars, tlb, legal>>
    BY NothingTypes DEF MapUnpaged
  <1> HIDE DEF ppi
  <1>4. QED BY <1>1, <1>2, <1>3, MapIntoMonitorInv

\* The directory entry read before the page table was pinned still stands, so
\* the entry found is the guest's translation.
LEMMA OpenPageTableInv ==
  ASSUME ShadowInv, OpenPageTable
  PROVE  ShadowInv'
  <1> DEFINE pte == gmem[walk.pde.base][acc.l[2]]
  <1>1. CASE RaiseGuestFault
    BY <1>1, RaiseGuestFaultInv DEF OpenPageTable
  <1>2. ASSUME pte.p, MapIntoMonitor(pte.base, walk.pde, ShadowRW(pte))
        PROVE  ShadowInv'
    <2>1. /\ vmState = "Ready" /\ pc = "ptbl" /\ walk.pde.base \in Pages
          /\ UNCHANGED <<pinVars, guestVars, tlb, legal>>
      BY DEF OpenPageTable
    <2>2. /\ cr0.pg /\ cr3 \in Pages /\ walk.pde = gmem[cr3][acc.l[1]] /\ walk.pde.p
          /\ acc.l \in GuestLin
      BY <2>1 DEF ShadowInv, WalkHonest
    <2>3. pte \in GuestEntry /\ walk.pde \in GuestEntry
      BY <2>1, <2>2, LinPageType, Types DEF ShadowInv, Walk
    <2>4. pte.base \in Nat /\ pte.rw \in BOOLEAN
      BY <2>3 DEF GuestEntry
    <2>5. ShadowRW(pte) \in BOOLEAN
      BY <2>4 DEF ShadowRW
    <2>6. pte.base = Translation(gmem, cr3, cr0.pg, acc.l)
      BY <1>2, <2>1, <2>2 DEF Translation
    <2> DEFINE b == pte.base
               r == ShadowRW(pte)
    <2>7. MapIntoMonitor(b, walk.pde, r) /\ b \in Nat /\ r \in BOOLEAN
          /\ b = Translation(gmem, cr3, cr0.pg, acc.l)
      BY <1>2, <2>4, <2>5, <2>6
    <2> HIDE DEF b, r
    <2>8. QED BY <2>1, <2>3, <2>7, MapIntoMonitorInv
  <1>3. QED BY <1>1, <1>2 DEF OpenPageTable

\* One entry of one table changes: only the linear page that reaches it sees it.
LEMMA OneEntryChanges ==
  ASSUME ShadowInv, NEW m \in GuestLin, NEW t \in Tables, NEW e \in Entry,
         tbl' = [tbl EXCEPT ![t][m[2]] = e], UNCHANGED pd,
         pd[m[1]].p => pd[m[1]].ti = t,
         pd[m[1]].p \/ \A i \in GuestPdis : ~pd[i].p
  PROVE  /\ tbl' \in [Tables -> [Index -> Entry]]
         /\ \A l \in GuestLin : l # m => ShadowPTE(l)' = ShadowPTE(l)
         /\ ShadowPTE(m)' = IF pd[m[1]].p THEN e ELSE NoPTE
  <1>1. /\ pd \in [GuestPdis -> PDE] /\ tbl \in [Tables -> [Index -> Entry]]
        /\ m[1] \in GuestPdis /\ m[2] \in Index
    BY Types, LinPageType DEF ShadowInv
  <1> DEFINE row == [tbl[t] EXCEPT ![m[2]] = e]
  <1>2. row \in [Index -> Entry] /\ tbl' = [tbl EXCEPT ![t] = row]
    BY <1>1
  <1>3. \A j \in Index : row[j] = IF j = m[2] THEN e ELSE tbl[t][j]
    BY <1>1
  <1> HIDE DEF row
  <1>4. \A s \in Tables : tbl'[s] = IF s = t THEN row ELSE tbl[s]
    BY <1>1, <1>2
  <1>5. ASSUME NEW l \in GuestLin, l # m
        PROVE  ShadowPTE(l)' = ShadowPTE(l)
    <2>1. l[1] \in GuestPdis /\ l[2] \in Index /\ l \in LinPages /\ m \in LinPages
      BY LinPageType
    <2>2. CASE ~pd[l[1]].p
      BY <2>2 DEF ShadowPTE
    <2>3. CASE pd[l[1]].p /\ l[1] = m[1]
      <3>1. l[2] # m[2]
        BY <1>5, <2>1, <2>3, LinPageIsPair
      <3>2. QED BY <1>3, <1>4, <2>1, <2>3, <3>1 DEF ShadowPTE
    <2>4. CASE pd[l[1]].p /\ l[1] # m[1]
      <3>1. pd[m[1]].p /\ pd[l[1]].ti # t
        BY <1>1, <2>1, <2>4 DEF ShadowInv, ShadowAgrees, TablesNotShared
      <3>2. pd[l[1]].ti \in Tables
        BY <1>1, <2>1 DEF PDE
      <3>3. QED BY <1>4, <2>4, <3>1, <3>2 DEF ShadowPTE
    <2>5. QED BY <2>2, <2>3, <2>4
  <1>6. ShadowPTE(m)' = IF pd[m[1]].p THEN e ELSE NoPTE
    BY <1>1, <1>3, <1>4 DEF ShadowPTE
  <1>7. QED BY <1>1, <1>2, <1>5, <1>6

\* The target is entered where the walk found its place before the pin.  If
\* the pin threw the shadow away, the entry goes to a table nobody reaches.
LEMMA EnterTargetInv ==
  ASSUME ShadowInv, EnterTarget
  PROVE  ShadowInv'
  <1> DEFINE e == [p |-> TRUE, frame |-> hostPPI[walk.ppi], rw |-> walk.rw]
  <1>0. PICK m \in GuestLin : m = acc.l
    BY DEF ShadowInv, WalkHonest, EnterTarget
  <1>1. /\ vmState = "Ready" /\ pc = "target" /\ pinned[walk.ppi]
        /\ tbl' = [tbl EXCEPT ![walk.ti][m[2]] = e]
        /\ tlb' = [tlb EXCEPT ![m] = NoPTE]
        /\ pc' = "exec" /\ walk' = NoWalk
        /\ UNCHANGED <<pinVars, guestVars, pd, lmap, nextTbl, acc, legal>>
    BY <1>0 DEF EnterTarget
  <1>2. /\ walk.ppi \in Pages /\ walk.ppi \in legal[m]
        /\ \/ pd[m[1]].p /\ pd[m[1]].ti = walk.ti
           \/ \A i \in GuestPdis : ~pd[i].p
    BY <1>0, <1>1 DEF ShadowInv, WalkHonest
  <1>3. e \in Entry /\ e.frame = hostPPI[walk.ppi] /\ walk.ti \in Tables
    BY <1>2, Types DEF ShadowInv, PinTypeOK, Entry, Walk
  <1>4. m[1] \in GuestPdis
    BY LinPageType
  <1> HIDE DEF e
  <1>5. /\ tbl' \in [Tables -> [Index -> Entry]]
        /\ \A l \in GuestLin : l # m => ShadowPTE(l)' = ShadowPTE(l)
        /\ ShadowPTE(m)' = IF pd[m[1]].p THEN e ELSE NoPTE
    BY <1>1, <1>2, <1>3, <1>4, OneEntryChanges
  <1>6. \A l \in GuestLin : tlb'[l] = IF l = m THEN NoPTE ELSE tlb[l]
    BY <1>1, <1>2, Types DEF ShadowInv
  <1>7. tlb' \in [GuestLin -> Entry]
    BY <1>1, <1>2, Types, NothingTypes DEF ShadowInv
  <1>8. PinInv' /\ LegalNow' /\ DownIsQuiet'
    BY <1>1, PinUnchanged, LegalUnchanged DEF ShadowInv, guestVars, DownIsQuiet, pinVars
  <1>9. TypeOK'
    BY <1>1, <1>5, <1>7, <1>8, Types, NothingTypes DEF ShadowInv, PinInv, guestVars, PC,
       TypeOK, PDE, Entry, Access, Task, Walk, Pages
  <1>10. WalkHonest'
    BY <1>1 DEF WalkHonest
  <1>11. TablesNotShared'
    BY <1>1 DEF ShadowInv, ShadowAgrees, TablesNotShared
  <1>12. TlbCoherent'
    BY <1>5, <1>6, NothingTypes DEF ShadowInv, ShadowAgrees, TlbCoherent
  <1>13. ShadowMapsPinnedFrames'
    <2>1. ASSUME NEW l \in GuestLin, ShadowPTE(l)'.p
          PROVE  \E p \in Pages : pinned[p] /\ hostPPI[p] = ShadowPTE(l)'.frame
      <3>1. CASE l = m
        BY <1>1, <1>2, <1>3, <1>5, <2>1, <3>1, NothingTypes
      <3>2. CASE l # m
        BY <1>5, <2>1, <3>2 DEF ShadowInv, ShadowAgrees, ShadowMapsPinnedFrames
      <3>3. QED BY <3>1, <3>2
    <2>2. QED BY <1>1, <2>1 DEF ShadowMapsPinnedFrames, pinVars, Pages
  <1>14. ShadowFollowsGuest'
    <2>1. ASSUME NEW l \in GuestLin, ShadowPTE(l)'.p, NEW p \in Pages, pinned[p],
                 hostPPI[p] = ShadowPTE(l)'.frame
          PROVE  p \in legal[l]
      <3>1. CASE l = m
        <4>1. hostPPI[p] = hostPPI[walk.ppi]
          BY <1>3, <1>5, <2>1, <3>1, NothingTypes
        <4>2. p = walk.ppi
          BY <1>1, <1>2, <2>1, <4>1 DEF ShadowInv, PinInv, PinnedFramesDistinct
        <4>3. QED BY <1>2, <3>1, <4>2
      <3>2. CASE l # m
        BY <1>5, <2>1, <3>2 DEF ShadowInv, ShadowAgrees, ShadowFollowsGuest
      <3>3. QED BY <3>1, <3>2
    <2>2. QED BY <1>1, <2>1 DEF ShadowFollowsGuest, pinVars, Pages
  <1>15. QED
    BY <1>8, <1>9, <1>10, <1>11, <1>12, <1>13, <1>14 DEF ShadowInv, ShadowAgrees

----------------------------------------------------------------------------
(* The guest changes its tables and tells the processor. *)

\* A store adds to what the tables have said; the shadow need not know.
LEMMA GuestStoreInv ==
  ASSUME ShadowInv, NEW s \in GuestStores, GuestStore(s[1], s[2], s[3])
  PROVE  ShadowInv'
  <1> DEFINE T(l) == Translation(gmem', cr3, cr0.pg, l)
  <1>1. /\ vmState = "Ready" /\ pc = "guest"
        /\ gmem' = [gmem EXCEPT ![s[1]][s[2]] = s[3]]
        /\ legal' = [l \in GuestLin |-> legal[l] \cup {T(l)}]
        /\ UNCHANGED <<pinVars, cr3, cr0, cpl, shadowVars, tlb, ctlVars>>
    BY DEF GuestStore
  <1>2. s[1] \in Pages /\ s[2] \in Index /\ s[3] \in GuestEntry
    BY ShadowAssumption
  <1>3. gmem' \in [Pages -> [Index -> GuestEntry]]
    BY <1>1, <1>2, Types DEF ShadowInv
  <1>4. cr3 \in Nat /\ cr0.pg \in BOOLEAN
    BY ShadowAssumption, Types DEF ShadowInv
  <1>5. \A l \in GuestLin : T(l) \in Int
    BY <1>3, <1>4, TranslationType
  <1> HIDE DEF T
  <1>6. legal' \in [GuestLin -> SUBSET Int]
    BY <1>1, <1>5, Types DEF ShadowInv
  <1>7. PinInv' /\ DownIsQuiet'
    BY <1>1, PinUnchanged DEF ShadowInv, DownIsQuiet, pinVars
  <1>8. TypeOK'
    BY <1>1, <1>3, <1>6, <1>7, Types DEF ShadowInv, PinInv, shadowVars, ctlVars,
       TypeOK, PDE, Entry, Access, Task, Walk, Pages
  <1>9. LegalNow'
    <2>1. \A l \in GuestLin : T(l) \in legal'[l]
      BY <1>1
    <2>2. cr3' = cr3 /\ cr0' = cr0
      BY <1>1
    <2>3. \A l \in GuestLin : Translation(gmem, cr3, cr0.pg, l)' = T(l)
      BY <2>2 DEF T, Translation
    <2>4. QED BY <2>1, <2>3 DEF LegalNow
  <1>10. WalkHonest'
    BY <1>1 DEF WalkHonest, ctlVars
  <1>11. ShadowAgrees'
    <2>1. \A l \in GuestLin : ShadowPTE(l)' = ShadowPTE(l)
      BY <1>1 DEF ShadowPTE, shadowVars
    <2>2. \A l \in GuestLin : legal[l] \subseteq legal'[l]
      BY <1>1
    <2>3. TablesNotShared' /\ TlbCoherent' /\ ShadowMapsPinnedFrames'
      BY <1>1, <2>1 DEF ShadowInv, ShadowAgrees, TablesNotShared, TlbCoherent,
         ShadowMapsPinnedFrames, shadowVars, pinVars, Pages
    <2>4. ShadowFollowsGuest'
      BY <1>1, <2>1, <2>2 DEF ShadowInv, ShadowAgrees, ShadowFollowsGuest, pinVars, Pages
    <2>5. QED BY <2>3, <2>4 DEF ShadowAgrees
  <1>12. QED BY <1>7, <1>8, <1>9, <1>10, <1>11 DEF ShadowInv

\* INVLPG: the history of one page starts again, and nothing maps it.
LEMMA EmuINVLPGInv ==
  ASSUME ShadowInv, NEW m \in LinPages, EmuINVLPG(m)
  PROVE  ShadowInv'
  <1> DEFINE T(l) == Translation(gmem, cr3, cr0.pg, l)
  <1>1. /\ vmState = "Ready" /\ m \in GuestLin
        /\ IF pd[m[1]].p THEN tbl' = [tbl EXCEPT ![lmap[m[1]]][m[2]] = NoPTE] ELSE UNCHANGED tbl
        /\ tlb' = [tlb EXCEPT ![m] = NoPTE]
        /\ legal' = [legal EXCEPT ![m] = NowLegal[m]]
        /\ pc' = "guest" /\ acc' = NoAccess
        /\ UNCHANGED <<pinVars, guestVars, pd, lmap, nextTbl, walk>>
    BY DEF EmuINVLPG
  <1>2. NowLegal[m] = {T(m)} /\ T(m) \in Int
    <2>1. cr3 \in Nat /\ cr0.pg \in BOOLEAN /\ gmem \in [Pages -> [Index -> GuestEntry]]
      BY ShadowAssumption, Types DEF ShadowInv
    <2>2. QED BY <1>1, <2>1, TranslationType DEF NowLegal
  <1> HIDE DEF T
  <1>3. legal' \in [GuestLin -> SUBSET Int] /\ \A l \in GuestLin :
          legal'[l] = IF l = m THEN {T(m)} ELSE legal[l]
    BY <1>1, <1>2, Types DEF ShadowInv
  <1>4. /\ tbl' \in [Tables -> [Index -> Entry]]
        /\ \A l \in GuestLin : l # m => ShadowPTE(l)' = ShadowPTE(l)
        /\ ~ShadowPTE(m)'.p
    <2>1. CASE pd[m[1]].p
      <3>1. m[1] \in GuestPdis
        BY <1>1, LinPageType
      <3>2. lmap[m[1]] = pd[m[1]].ti /\ lmap[m[1]] \in Tables
        BY <2>1, <3>1, Types DEF ShadowInv, ShadowAgrees, TablesNotShared, PDE
      <3>3. QED BY <1>1, <2>1, <3>2, OneEntryChanges, NothingTypes
    <2>2. CASE ~pd[m[1]].p
      BY <1>1, <2>2, Types, NothingTypes DEF ShadowInv, ShadowPTE
    <2>3. QED BY <2>1, <2>2
  <1>5. /\ tlb' \in [GuestLin -> Entry]
        /\ \A l \in GuestLin : tlb'[l] = IF l = m THEN NoPTE ELSE tlb[l]
    BY <1>1, Types, NothingTypes DEF ShadowInv
  <1>6. PinInv' /\ DownIsQuiet'
    BY <1>1, PinUnchanged DEF ShadowInv, DownIsQuiet, pinVars
  <1>7. TypeOK'
    BY <1>1, <1>3, <1>4, <1>5, <1>6, Types, NothingTypes DEF ShadowInv, PinInv, guestVars, PC,
       TypeOK, PDE, Entry, Access, Task, Walk, Pages
  <1>8. LegalNow'
    <2>1. \A l \in GuestLin : Translation(gmem, cr3, cr0.pg, l)' = T(l)
      BY <1>1 DEF T, Translation, guestVars
    <2>2. \A l \in GuestLin : T(l) \in legal[l]
      BY DEF ShadowInv, LegalNow, T
    <2>3. QED BY <1>3, <2>1, <2>2 DEF LegalNow
  <1>9. WalkHonest'
    BY <1>1 DEF WalkHonest
  <1>10. TablesNotShared'
    BY <1>1 DEF ShadowInv, ShadowAgrees, TablesNotShared
  <1>11. TlbCoherent'
    BY <1>4, <1>5, NothingTypes DEF ShadowInv, ShadowAgrees, TlbCoherent
  <1>12. ShadowMapsPinnedFrames' /\ ShadowFollowsGuest'
    BY <1>1, <1>3, <1>4 DEF ShadowInv, ShadowAgrees, ShadowMapsPinnedFrames,
       ShadowFollowsGuest, pinVars, Pages
  <1>13. QED
    BY <1>6, <1>7, <1>8, <1>9, <1>10, <1>11, <1>12 DEF ShadowInv, ShadowAgrees

\* A shadow that is reset has the types it should.
LEMMA ResetTypes ==
  /\ [i \in GuestPdis |-> NoPDE] \in [GuestPdis -> PDE]
  /\ [i \in GuestPdis |-> -1] \in [GuestPdis -> Tables \cup {-1}]
  /\ [t \in Tables |-> [j \in Index |-> NoPTE]] \in [Tables -> [Index -> Entry]]
  /\ 0 \in 0 .. NTables
  BY NothingTypes, ShadowAssumption

\* A history that starts again at some registers' translations.
LEMMA NewHistory ==
  ASSUME NEW m \in [Pages -> [Index -> GuestEntry]], NEW root \in CR3Values, NEW pg \in BOOLEAN
  PROVE  [l \in GuestLin |-> {Translation(m, root, pg, l)}] \in [GuestLin -> SUBSET Int]
  <1>1. root \in Nat
    BY ShadowAssumption
  <1>2. \A l \in GuestLin : Translation(m, root, pg, l) \in Int
    BY <1>1, TranslationType
  <1>3. QED BY <1>2

\* MOV to CR3 or CR0: everything starts again.
LEMMA EmuSetCRInv ==
  ASSUME ShadowInv, NEW v \in CR3Values, NEW c \in CR0Values, EmuSetCR(v, c)
  PROVE  ShadowInv'
  <1> USE DEF EmuSetCR, ResetShadow
  <1>1. c.pg \in BOOLEAN
    BY ShadowAssumption
  <1>2. gmem \in [Pages -> [Index -> GuestEntry]]
    BY Types DEF ShadowInv
  <1>3. legal' \in [GuestLin -> SUBSET Int]
    BY <1>1, <1>2, NewHistory
  <1>4. PinInv' /\ DownIsQuiet'
    BY PinUnchanged DEF ShadowInv, DownIsQuiet, pinVars
  <1>5. TypeOK'
    BY <1>3, <1>4, Types, NothingTypes, ResetTypes DEF ShadowInv, PinInv, PC,
       TypeOK, PDE, Entry, Access, Task, Walk, Pages
  <1>6. LegalNow'
    <2>1. /\ gmem' = gmem /\ cr3' = v /\ cr0' = c
          /\ legal' = [l \in GuestLin |-> {Translation(gmem, v, c.pg, l)}]
      OBVIOUS
    <2>2. \A l \in GuestLin : Translation(gmem, cr3, cr0.pg, l)' = Translation(gmem, v, c.pg, l)
      BY <2>1 DEF Translation
    <2>3. QED BY <2>1, <2>2 DEF LegalNow
  <1>7. WalkHonest' /\ ShadowAgrees'
    BY AgreesWhenReset DEF WalkHonest
  <1>8. QED BY <1>4, <1>5, <1>6, <1>7 DEF ShadowInv

----------------------------------------------------------------------------
(* Round trips to the host, panics, and the life of the VM's memory. *)

\* While there is room in the queue a pin, or its failure, takes no frame from
\* a pinned page, and gives the new page a frame that is nobody's.
LEMMA PinWithRoom ==
  ASSUME ShadowInv, NEW p \in Pages, PinUserPage(p), ~QueueFull
  PROVE  /\ \A q \in Pages : pinned[q] => pinned'[q] /\ hostPPI'[q] = hostPPI[q]
         /\ \A q \in Pages : pinned'[q] /\ ~pinned[q] =>
              \A r \in Pages : pinned[r] => hostPPI[r] # hostPPI'[q]
  <1>1. pinned \in [Pages -> BOOLEAN] /\ hostPPI \in [Pages -> Frames \cup {NoFrame}] /\ ~pinned[p]
    BY Types DEF ShadowInv, PinTypeOK, PinUserPage
  <1>2. CASE PinFails
    BY <1>1, <1>2 DEF PinFails, PinnedAfterEvict
  <1>3. ASSUME NEW f \in Frames, PinSucceeds(p, f)
        PROVE  /\ \A q \in Pages : pinned[q] => pinned'[q] /\ hostPPI'[q] = hostPPI[q]
               /\ \A q \in Pages : pinned'[q] /\ ~pinned[q] =>
                    \A r \in Pages : pinned[r] => hostPPI[r] # hostPPI'[q]
    <2>1. /\ pinned' = [pinned EXCEPT ![p] = TRUE] /\ hostPPI' = [hostPPI EXCEPT ![p] = f]
          /\ hostRef[f] = 0
      BY <1>3 DEF PinSucceeds, PinnedAfterEvict, RefAfterEvict
    <2>2. \A r \in Pages : pinned[r] => hostPPI[r] # f
      BY <2>1 DEF ShadowInv, PinInv, RefIsOwner
    <2>3. QED BY <1>1, <2>1, <2>2
  <1>4. QED BY <1>2, <1>3 DEF PinUserPage

LEMMA PinUserPageInv ==
  ASSUME ShadowInv, NEW p \in Pages, PinUserPage(p)
  PROVE  ShadowInv'
  <1>1. /\ vmState = "Ready" /\ vmState' \in {"Ready", "Panic"} /\ ~pinned[p]
        /\ tlb' = TlbEmpty
        /\ UNCHANGED <<guestVars, ctlVars, legal>>
        /\ tbl' = tbl
    BY DEF PinUserPage, PinSucceeds, PinFails, ResetShadow, shadowVars
  <1>2. PinInv'
    BY <1>1, PinSucceedsInv, PinFailsInv DEF ShadowInv, PinUserPage
  <1>3. LegalNow' /\ DownIsQuiet'
    BY <1>1, LegalUnchanged DEF ShadowInv, guestVars, DownIsQuiet
  <1>4. TypeOK'
    <2>1. /\ pd' \in [GuestPdis -> PDE] /\ lmap' \in [GuestPdis -> Tables \cup {-1}]
          /\ nextTbl' \in 0 .. NTables
      BY Types, ResetTypes DEF ShadowInv, PinUserPage, ResetShadow, shadowVars
    <2>2. QED
      BY <1>1, <1>2, <2>1, Types, NothingTypes DEF ShadowInv, PinInv, guestVars, ctlVars,
         TypeOK, PDE, Entry, Access, Task, Walk, Pages
  <1>5. CASE QueueFull
    <2>1. pd' = [i \in GuestPdis |-> NoPDE]
      BY <1>5 DEF PinUserPage, ResetShadow
    <2>2. ShadowAgrees'
      BY <1>1, <2>1, AgreesWhenReset
    <2>3. \A i \in GuestPdis : ~pd'[i].p
      BY <2>1, NothingTypes
    <2>4. WalkHonest'
      BY <1>1, <2>3 DEF ShadowInv, WalkHonest, guestVars, ctlVars, Pages
    <2>5. QED BY <1>2, <1>3, <1>4, <2>2, <2>4 DEF ShadowInv
  <1>6. CASE ~QueueFull
    <2>1. UNCHANGED shadowVars
      BY <1>6 DEF PinUserPage
    <2>2. WalkHonest'
      BY <1>1, <2>1 DEF ShadowInv, WalkHonest, guestVars, ctlVars, shadowVars, Pages
    <2>3. \A l \in GuestLin : ShadowPTE(l)' = ShadowPTE(l)
      BY <2>1 DEF ShadowPTE, shadowVars
    <2>4. /\ \A q \in Pages : pinned[q] => pinned'[q] /\ hostPPI'[q] = hostPPI[q]
          /\ \A q \in Pages : pinned'[q] /\ ~pinned[q] =>
               \A r \in Pages : pinned[r] => hostPPI[r] # hostPPI'[q]
      BY <1>6, PinWithRoom
    <2>5. TablesNotShared' /\ TlbCoherent'
      BY <1>1, <2>1, NothingTypes DEF ShadowInv, ShadowAgrees, TablesNotShared, TlbCoherent,
         TlbEmpty, shadowVars
    <2>6. ShadowMapsPinnedFrames'
      <3>1. \A l \in GuestLin : ShadowPTE(l).p =>
              \E q \in Pages : pinned[q] /\ hostPPI[q] = ShadowPTE(l).frame
        BY DEF ShadowInv, ShadowAgrees, ShadowMapsPinnedFrames
      <3>2. QED BY <2>3, <2>4, <3>1 DEF ShadowMapsPinnedFrames, Pages
    <2>7. ShadowFollowsGuest'
      <3>1. ASSUME NEW l \in GuestLin, ShadowPTE(l).p, NEW q \in Pages, pinned'[q],
                   hostPPI'[q] = ShadowPTE(l).frame
            PROVE  q \in legal[l]
        <4>1. PICK r \in Pages : pinned[r] /\ hostPPI[r] = ShadowPTE(l).frame
          BY <3>1 DEF ShadowInv, ShadowAgrees, ShadowMapsPinnedFrames
        <4>2. pinned[q] /\ hostPPI[q] = ShadowPTE(l).frame
          BY <2>4, <3>1, <4>1
        <4>3. QED BY <3>1, <4>2 DEF ShadowInv, ShadowAgrees, ShadowFollowsGuest
      <3>2. QED BY <1>1, <2>3, <3>1 DEF ShadowFollowsGuest, Pages
    <2>8. QED BY <1>2, <1>3, <1>4, <2>2, <2>5, <2>6, <2>7 DEF ShadowInv, ShadowAgrees
  <1>7. QED BY <1>5, <1>6

LEMMA MonPanicInv ==
  ASSUME ShadowInv, MonPanic
  PROVE  ShadowInv'
  <1> USE DEF MonPanic
  <1>1. PinInv'
    BY DEF ShadowInv, PinInv, PinTypeOK, PinnedFramesDistinct, RefIsOwner,
           QueueHoldsPinned, NothingPinnedWhenDown, Pages, Slots
  <1>2. TypeOK'
    BY <1>1, Types DEF ShadowInv, PinInv, guestVars, shadowVars, ctlVars,
       TypeOK, PDE, Entry, Access, Task, Walk, Pages
  <1>3. DownIsQuiet' /\ LegalNow'
    BY LegalUnchanged DEF ShadowInv, DownIsQuiet, guestVars
  <1>4. WalkHonest'
    BY DEF ShadowInv, WalkHonest, guestVars, shadowVars, ctlVars, Pages
  <1>5. ShadowAgrees'
    <2>1. \A l \in GuestLin : ShadowPTE(l)' = ShadowPTE(l)
      BY DEF ShadowPTE, shadowVars
    <2>2. QED
      BY <2>1 DEF ShadowInv, ShadowAgrees, TablesNotShared, TlbCoherent,
         ShadowMapsPinnedFrames, ShadowFollowsGuest, shadowVars, Pages
  <1>6. QED BY <1>1, <1>2, <1>3, <1>4, <1>5 DEF ShadowInv

LEMMA TeardownInv ==
  ASSUME ShadowInv, Teardown
  PROVE  ShadowInv'
  <1> USE DEF Teardown
  <1>1. PinInv'
    BY ReleaseInv DEF ShadowInv
  <1>2. TypeOK'
    BY <1>1, Types, NothingTypes, ResetTypes DEF ShadowInv, PinInv, guestVars, PC,
       TypeOK, PDE, Entry, Access, Task, Walk, Pages
  <1>3. DownIsQuiet' /\ LegalNow' /\ WalkHonest'
    BY LegalUnchanged DEF ShadowInv, DownIsQuiet, WalkHonest, guestVars, TlbEmpty
  <1>4. ShadowAgrees'
    BY AgreesWhenReset
  <1>5. QED BY <1>1, <1>2, <1>3, <1>4 DEF ShadowInv

\* A new registration does not flush the TLB: it is already empty.
LEMMA SetupInv ==
  ASSUME ShadowInv, Setup
  PROVE  ShadowInv'
  <1> USE DEF Setup, ResetShadow
  <1>1. tlb' = TlbEmpty /\ pc' = "guest" /\ vmState' = "Ready"
    BY DEF ShadowInv, DownIsQuiet, InitPinState, ctlVars
  <1>2. PinInv'
    BY InitPinStateInv DEF ShadowInv
  <1>3. legal' \in [GuestLin -> SUBSET Int]
    BY NewHistory, ShadowAssumption
  <1>4. TypeOK'
    BY <1>1, <1>2, <1>3, Types, NothingTypes, ResetTypes, ShadowAssumption
    DEF ShadowInv, PinInv, ctlVars, PC, TypeOK, PDE, Entry, Access, Task, Walk, Pages
  <1>5. LegalNow'
    <2>1. /\ gmem' = InitMem /\ cr3' = InitCR3 /\ cr0'.pg = TRUE
          /\ legal' = [l \in GuestLin |-> {Translation(InitMem, InitCR3, TRUE, l)}]
      OBVIOUS
    <2>2. \A l \in GuestLin :
            Translation(gmem, cr3, cr0.pg, l)' = Translation(InitMem, InitCR3, TRUE, l)
      BY <2>1 DEF Translation
    <2>3. QED BY <2>1, <2>2 DEF LegalNow
  <1>6. DownIsQuiet' /\ WalkHonest' /\ ShadowAgrees'
    BY <1>1, AgreesWhenReset DEF DownIsQuiet, WalkHonest
  <1>7. QED BY <1>2, <1>4, <1>5, <1>6 DEF ShadowInv

----------------------------------------------------------------------------
LEMMA ShadowInitInv == Init => ShadowInv
  <1> SUFFICES ASSUME Init PROVE ShadowInv
    OBVIOUS
  <1> USE DEF Init
  <1>1. PinInv
    BY PinInitInv
  <1>2. legal \in [GuestLin -> SUBSET Int]
    <2>1. cr3 \in CR3Values /\ cr0.pg \in BOOLEAN /\ gmem \in [Pages -> [Index -> GuestEntry]]
      BY ShadowAssumption
    <2>2. legal = [l \in GuestLin |-> {Translation(gmem, cr3, cr0.pg, l)}]
      BY DEF NowLegal
    <2> HIDE DEF Init
    <2>3. QED BY <2>1, <2>2, NewHistory
  <1>3. TypeOK
    BY <1>1, <1>2, Types, NothingTypes, ResetTypes, ShadowAssumption DEF PinInv, PC
  <1>4. DownIsQuiet /\ LegalNow /\ WalkHonest
    BY DEF DownIsQuiet, LegalNow, NowLegal, WalkHonest
  <1>5. ShadowAgrees
    <2>1. \A i \in GuestPdis : ~pd[i].p
      BY NothingTypes
    <2>2. \A l \in GuestLin : ~ShadowPTE(l).p /\ ~tlb[l].p
      BY <2>1, LinPageType, NothingTypes DEF ShadowPTE, TlbEmpty
    <2>3. QED
      BY <2>1, <2>2
      DEF ShadowAgrees, TablesNotShared, TlbCoherent, ShadowMapsPinnedFrames, ShadowFollowsGuest
  <1>6. QED BY <1>1, <1>3, <1>4, <1>5 DEF ShadowInv

LEMMA ShadowNextInv == ShadowInv /\ [Next]_vars => ShadowInv'
  <1> SUFFICES ASSUME ShadowInv, [Next]_vars PROVE ShadowInv'
    OBVIOUS
  <1>1. ASSUME NEW l \in LinPages, NEW rw \in BOOLEAN, GuestAccess(l, rw) PROVE ShadowInv'
    BY <1>1, GuestAccessInv
  <1>2. CASE AccessHits \/ AccessFaults \/ HostRoundTrip
    BY <1>2, AccessHitsInv, AccessFaultsInv, HostRoundTripInv
  <1>3. ASSUME NEW s \in GuestStores, GuestStore(s[1], s[2], s[3]) PROVE ShadowInv'
    BY <1>3, GuestStoreInv
  <1>4. CASE MapStep
    BY <1>4, MapUnpagedInv, OpenPageDirInv, OpenPageTableInv, EnterTargetInv DEF MapStep
  <1>5. CASE \/ GuestTraps
             \/ \E l \in LinPages : EmuAccess(l)
             \/ EmuStep
             \/ \E c \in {0, 3} : EmuReturns(c)
    BY <1>5, EmulationInv
  <1>6. ASSUME NEW l \in LinPages, EmuINVLPG(l) PROVE ShadowInv'
    BY <1>6, EmuINVLPGInv
  <1>7. ASSUME NEW v \in CR3Values, NEW c \in CR0Values, EmuSetCR(v, c) PROVE ShadowInv'
    BY <1>7, EmuSetCRInv
  <1>8. ASSUME NEW p \in Pages, PinUserPage(p) PROVE ShadowInv'
    BY <1>8, PinUserPageInv
  <1>9. CASE MonPanic \/ Teardown \/ Setup
    BY <1>9, MonPanicInv, TeardownInv, SetupInv
  <1>10. CASE UNCHANGED vars
    <2> USE <1>10 DEF vars, guestVars, shadowVars, ctlVars
    <2>1. PinInv' /\ LegalNow'
      BY PinUnchanged, LegalUnchanged DEF ShadowInv
    <2>2. ShadowAgrees'
      BY AgreesWhenQuiet
    <2>3. TypeOK'
      BY <2>1, Types DEF ShadowInv, PinInv, TypeOK, PDE, Entry, Access, Task, Walk, Pages
    <2>4. DownIsQuiet' /\ WalkHonest'
      BY DEF ShadowInv, DownIsQuiet, WalkHonest, pinVars, Pages
    <2>5. QED BY <2>1, <2>2, <2>3, <2>4 DEF ShadowInv
  <1>11. QED
    BY <1>1, <1>2, <1>3, <1>4, <1>5, <1>6, <1>7, <1>8, <1>9, <1>10 DEF Next

----------------------------------------------------------------------------
\* mapGuestLinAddr, the emulation and the host's pinning keep ShadowInv,
\* whatever the guest's tables hold and however the host interrupts them.
THEOREM ShadowInvariant == Spec => []ShadowInv
  <1>1. QED BY ShadowInitInv, ShadowNextInv, PTL DEF Spec

\* The variables of the shadow keep their types: getFreePageTable never hands
\* out a table beyond the heap.
THEOREM ShadowTypes == Spec => []TypeOK
  <1>1. ShadowInv => TypeOK
    BY DEF ShadowInv
  <1>2. QED BY <1>1, ShadowInvariant, PTL

\* Host memory safety: the guest reaches no frame the host has not pinned for
\* it, with evictions at any point of a walk.
THEOREM GuestReachesPinnedFrames == Spec => []ShadowMapsPinnedFrames
  <1>1. ShadowInv => ShadowMapsPinnedFrames
    BY DEF ShadowInv, ShadowAgrees
  <1>2. QED BY <1>1, ShadowInvariant, PTL

\* The TLB holds nothing the shadow does not say.
THEOREM TlbStaysCoherent == Spec => []TlbCoherent
  <1>1. ShadowInv => TlbCoherent
    BY DEF ShadowInv, ShadowAgrees
  <1>2. QED BY <1>1, ShadowInvariant, PTL

\* Guest-visible paging: the shadow maps a linear page only to what the
\* guest's tables gave for it since it was last invalidated.
THEOREM ShadowFollowsTables == Spec => []ShadowFollowsGuest
  <1>1. ShadowInv => ShadowFollowsGuest
    BY DEF ShadowInv, ShadowAgrees
  <1>2. QED BY <1>1, ShadowInvariant, PTL

\* No table of the heap is in use for two slots of the directory.
THEOREM HeapTablesNotShared == Spec => []TablesNotShared
  <1>1. ShadowInv => TablesNotShared
    BY DEF ShadowInv, ShadowAgrees
  <1>2. QED BY <1>1, ShadowInvariant, PTL

\* What the guest reaches through the TLB: the current frame of a pinned page
\* that its tables gave for the linear page since it was last invalidated.
TlbReachesLegalPages ==
  \A l \in GuestLin : tlb[l].p =>
    \E p \in Pages : pinned[p] /\ hostPPI[p] = tlb[l].frame /\ p \in legal[l]

\* The three invariants together, seen from the processor: an access of the
\* guest that hits goes to a page the guest may see, where the host holds it.
THEOREM GuestReachesItsOwnPages == Spec => []TlbReachesLegalPages
  <1>1. ShadowInv => TlbReachesLegalPages
    <2> SUFFICES ASSUME ShadowInv, NEW l \in GuestLin, tlb[l].p
                 PROVE  \E p \in Pages : pinned[p] /\ hostPPI[p] = tlb[l].frame /\ p \in legal[l]
      BY DEF TlbReachesLegalPages
    <2>1. ShadowPTE(l).p /\ tlb[l].frame = ShadowPTE(l).frame
      BY DEF ShadowInv, ShadowAgrees, TlbCoherent
    <2>2. PICK p \in Pages : pinned[p] /\ hostPPI[p] = ShadowPTE(l).frame
      BY <2>1 DEF ShadowInv, ShadowAgrees, ShadowMapsPinnedFrames
    <2>3. p \in legal[l]
      BY <2>1, <2>2 DEF ShadowInv, ShadowAgrees, ShadowFollowsGuest
    <2>4. QED BY <2>1, <2>2, <2>3
  <1>2. QED BY <1>1, ShadowInvariant, PTL

\* The host's references stay in step with the pinned flags when the pins
\* come from page walks, with panics of the monitor between them.
THEOREM WalksKeepPinsBalanced == Spec => []PinBalance
  <1>1. ShadowInv => PinBalance
    BY OwnersCount DEF ShadowInv, PinBalance
  <1>2. QED BY <1>1, ShadowInvariant, PTL

----------------------------------------------------------------------------
(* Where the page directory of a walk cannot be evicted. *)

SmallGuest == NPages <= MaxPhyPagesPinned

\* A queue with a place for every page fills up only when all of them are in it.
LEMMA FullQueueHoldsAll ==
  ASSUME PinInv, SmallGuest, vmState = "Ready", QueueFull, NEW p \in Pages
  PROVE  pinned[p]
  <1> DEFINE q == pinQueue.ppi
             T == Pages \ {p}
  <1>1. NPages \in Nat \ {0} /\ MaxPhyPagesPinned \in Nat \ {0}
    BY PagePinAssumption
  <1>2. pinQueue.nEntries = MaxPhyPagesPinned /\ q \in [Slots -> Pages]
    BY <1>1 DEF PinInv, PinTypeOK, QueueFull
  <1>3. /\ \A i, j \in Slots : q[i] = q[j] => i = j
        /\ pinned[p] <=> \E i \in Slots : q[i] = p
    BY <1>2 DEF PinInv, QueueHoldsPinned, Slots
  <1>4. IsFiniteSet(Slots) /\ Cardinality(Slots) = MaxPhyPagesPinned
    BY <1>1, FS_Interval DEF Slots
  <1>5. IsFiniteSet(Pages) /\ Cardinality(Pages) = NPages
    BY <1>1, FS_Interval DEF Pages
  <1>6. IsFiniteSet(T) /\ Cardinality(T) = NPages - 1
    BY <1>5, FS_RemoveElement
  <1>7. Cardinality(T) < Cardinality(Slots)
    BY <1>1, <1>4, <1>6 DEF SmallGuest
  <1>8. ASSUME ~pinned[p] PROVE FALSE
    <2>1. q \in [Slots -> T]
      BY <1>2, <1>3, <1>8
    <2> HIDE DEF q, T
    <2>2. \E i, j \in Slots : i # j /\ q[i] = q[j]
      BY <1>4, <1>6, <1>7, <2>1, FS_PigeonHole
    <2>3. QED BY <1>3, <2>2
  <1>9. QED BY <1>8

LEMMA OpenPagesNext ==
  ASSUME ShadowInv, SmallGuest, OpenPagesStayPinned, [Next]_vars
  PROVE  OpenPagesStayPinned'
  <1> USE DEF OpenPagesStayPinned
  <1>1. CASE UNCHANGED <<vmState, pinned, hostPPI, cr3, pc, walk>>
    BY <1>1
  <1>2. CASE vmState' # "Ready" \/ pc' # "ptbl"
    BY <1>2
  <1>3. CASE OpenPageDir
    <2>1. UNCHANGED <<pinned, hostPPI, cr3>> /\ pinned[cr3]
      BY <1>3 DEF OpenPageDir, pinVars, guestVars
    <2>2. pc' = "ptbl" => walk'.dirFrame = hostPPI[cr3]
      BY <1>3 DEF OpenPageDir, RaiseGuestFault, NoWalk
    <2>3. QED BY <2>1, <2>2
  <1>4. ASSUME NEW p \in Pages, PinUserPage(p), vmState' = "Ready", pc' = "ptbl"
        PROVE  OpenPagesStayPinned'
    <2>1. vmState = "Ready" /\ ~pinned[p] /\ UNCHANGED <<cr3, pc, walk>>
      BY <1>4 DEF PinUserPage, guestVars, ctlVars
    <2>2. ~QueueFull
      BY <2>1, FullQueueHoldsAll DEF ShadowInv
    <2>3. PICK f \in Frames : PinSucceeds(p, f)
      BY <1>4 DEF PinUserPage, PinFails
    <2>4. pinned' = [pinned EXCEPT ![p] = TRUE] /\ hostPPI' = [hostPPI EXCEPT ![p] = f]
      BY <2>2, <2>3 DEF PinSucceeds, PinnedAfterEvict
    <2>5. pinned[cr3] /\ walk.dirFrame = hostPPI[cr3] /\ cr3 # p
      BY <1>4, <2>1
    <2>6. cr3 \in Pages
      BY <1>4, <2>1 DEF ShadowInv, WalkHonest
    <2>7. QED
      BY <2>1, <2>4, <2>5, <2>6 DEF ShadowInv, PinInv, PinTypeOK
  <1>5. \/ \E l \in LinPages, rw \in BOOLEAN : GuestAccess(l, rw)
        \/ AccessHits \/ AccessFaults \/ MapUnpaged \/ OpenPageTable \/ EnterTarget
        \/ GuestTraps \/ (\E l \in LinPages : EmuAccess(l)) \/ EmuStep
        \/ (\E c \in {0, 3} : EmuReturns(c)) \/ (\E l \in LinPages : EmuINVLPG(l))
        \/ (\E v \in CR3Values, c \in CR0Values : EmuSetCR(v, c))
        \/ MonPanic \/ Teardown
        => vmState' # "Ready" \/ pc' # "ptbl"
    BY DEF GuestAccess, AccessHits, AccessFaults, MapUnpaged, OpenPageTable, EnterTarget,
           MapIntoMonitor, RaiseGuestFault, GuestTraps, EmuAccess, EmuStep, EmuOpenPageDir,
           EmuOpenPageTable, EmuOpenData, EmuReturns, EmuINVLPG, EmuSetCR, MonPanic,
           Teardown
  <1>6. \/ UNCHANGED vars \/ HostRoundTrip
        \/ \E s \in GuestStores : GuestStore(s[1], s[2], s[3])
        => UNCHANGED <<vmState, pinned, hostPPI, cr3, pc, walk>>
    BY DEF vars, pinVars, guestVars, ctlVars, HostRoundTrip, GuestStore
  <1>7. CASE Setup
    <2>1. pc' = "guest"
      BY <1>7 DEF Setup, InitPinState, ShadowInv, DownIsQuiet, ctlVars
    <2>2. QED BY <2>1
  <1>8. QED BY <1>1, <1>2, <1>3, <1>4, <1>5, <1>6, <1>7 DEF Next, MapStep

\* "We must not unpin open pages" does not hold of hostHandlePagePinRequest in general,
\* as a run shows.  It does for a guest of no more pages than the queue has places, 4 MB
\* with the limit of monitor.h: there a walk keeps its page directory to the end.
THEOREM SmallGuestKeepsOpenPages == Spec => [](SmallGuest => OpenPagesStayPinned)
  <1>1. Init => OpenPagesStayPinned
    BY DEF Init, OpenPagesStayPinned
  <1>2. ShadowInv /\ (SmallGuest => OpenPagesStayPinned) /\ [Next]_vars
        => (SmallGuest => OpenPagesStayPinned)'
    BY OpenPagesNext DEF SmallGuest
  <1>3. QED BY <1>1, <1>2, ShadowInvariant, PTL DEF Spec
============================================================================
