--------------------------- MODULE PagePinProofs ---------------------------
(***************************************************************************)
(* Proofs about the pin queue, for any number of pages, any queue          *)
(* capacity and any set of frames.                                         *)
(***************************************************************************)
EXTENDS PagePinOrder, FiniteSetTheorems, SequenceTheorems, TLAPS

\* References on a frame, counted by cases instead of by cardinality.
RefIsOwner ==
  \A f \in Frames :
    hostRef[f] = IF \E p \in Pages : pinned[p] /\ hostPPI[p] = f THEN 1 ELSE 0

NothingPinnedWhenDown == vmState = "Down" => \A p \in Pages : ~pinned[p]

\* The inductive invariant.  PinBalance alone is not inductive: that a full
\* queue's tail names a page holding exactly one reference needs
\* QueueHoldsPinned and the distinctness of the frames.
PinInv ==
  /\ PinTypeOK
  /\ PinnedFramesDistinct
  /\ RefIsOwner
  /\ QueueHoldsPinned
  /\ NothingPinnedWhenDown

----------------------------------------------------------------------------
LEMMA ModRange ==
  ASSUME NEW n \in Nat \ {0}, NEW x \in Nat
  PROVE  x % n \in 0 .. n - 1
  OBVIOUS

\* Below the capacity the next tail is the next free slot; at it, slot 0.
LEMMA ModSmall ==
  ASSUME NEW n \in Nat \ {0}, NEW x \in 0 .. n - 1
  PROVE  x % n = x
  OBVIOUS

\* A full queue has as many entries as slots, and its tail is a pinned page.
LEMMA VictimPinned ==
  ASSUME PinInv, vmState = "Ready", QueueFull
  PROVE  /\ pinQueue.nEntries = MaxPhyPagesPinned
         /\ Victim \in Pages /\ pinned[Victim] /\ hostPPI[Victim] \in Frames
         /\ hostRef[hostPPI[Victim]] = 1
  <1>1. pinQueue.nEntries = MaxPhyPagesPinned
    BY PagePinAssumption DEF PinInv, PinTypeOK, QueueFull
  <1>2. pinQueue.tail \in 0 .. pinQueue.nEntries - 1 /\ Victim \in Pages
    BY <1>1, PagePinAssumption DEF PinInv, PinTypeOK, Slots, Victim
  <1>3. pinned[Victim]
    BY <1>2 DEF PinInv, QueueHoldsPinned, Victim
  <1>4. hostPPI[Victim] \in Frames
    BY <1>2, <1>3 DEF PinInv, PinnedFramesDistinct
  <1>5. hostRef[hostPPI[Victim]] = 1
    BY <1>2, <1>3, <1>4 DEF PinInv, RefIsOwner
  <1>6. QED BY <1>1, <1>2, <1>3, <1>4, <1>5

LEMMA PinInitInv == PinInit => PinInv
  <1> SUFFICES ASSUME PinInit PROVE PinInv
    OBVIOUS
  <1>1. PinTypeOK
    BY PagePinAssumption DEF PinInit, PinTypeOK, Pages, Slots, ZeroSlots
  <1>2. PinnedFramesDistinct /\ RefIsOwner /\ NothingPinnedWhenDown /\ QueueHoldsPinned
    BY DEF PinInit, PinnedFramesDistinct, RefIsOwner, NothingPinnedWhenDown, QueueHoldsPinned
  <1>3. QED BY <1>1, <1>2 DEF PinInv

----------------------------------------------------------------------------
\* After the eviction, if any: the victim holds nothing, everyone else what
\* they held.
LEMMA EvictBalance ==
  ASSUME PinInv, vmState = "Ready"
  PROVE  /\ PinnedAfterEvict \in [Pages -> BOOLEAN]
         /\ RefAfterEvict \in [Frames -> Int]
         /\ \A p \in Pages : PinnedAfterEvict[p] => pinned[p]
         /\ \A p \in Pages : PinnedAfterEvict[p] <=> pinned[p] /\ ~(QueueFull /\ p = Victim)
         /\ \A f \in Frames : RefAfterEvict[f] =
              IF \E p \in Pages : PinnedAfterEvict[p] /\ hostPPI[p] = f THEN 1 ELSE 0
  <1>1. CASE ~QueueFull
    BY <1>1 DEF PinInv, PinTypeOK, PinnedAfterEvict, RefAfterEvict, RefIsOwner
  <1>2. CASE QueueFull
    <2>1. /\ Victim \in Pages /\ pinned[Victim] /\ hostPPI[Victim] \in Frames
          /\ hostRef[hostPPI[Victim]] = 1
      BY <1>2, VictimPinned
    <2>2. PinnedAfterEvict = [pinned EXCEPT ![Victim] = FALSE]
      BY <1>2 DEF PinnedAfterEvict
    <2>3. RefAfterEvict = [hostRef EXCEPT ![hostPPI[Victim]] = @ - 1]
      BY <1>2 DEF RefAfterEvict
    <2>4. pinned \in [Pages -> BOOLEAN] /\ hostRef \in [Frames -> Int]
      BY DEF PinInv, PinTypeOK
    <2>5. PinnedAfterEvict \in [Pages -> BOOLEAN] /\ RefAfterEvict \in [Frames -> Int]
      BY <2>1, <2>2, <2>3, <2>4
    <2>6. \A p \in Pages : PinnedAfterEvict[p] <=> pinned[p] /\ p # Victim
      BY <2>2, <2>4
    <2>7. ASSUME NEW f \in Frames
          PROVE  RefAfterEvict[f] =
                   IF \E p \in Pages : PinnedAfterEvict[p] /\ hostPPI[p] = f THEN 1 ELSE 0
      <3>1. CASE f = hostPPI[Victim]
        <4>1. RefAfterEvict[f] = 0
          BY <2>1, <2>3, <2>4, <3>1
        <4>2. ~ \E p \in Pages : PinnedAfterEvict[p] /\ hostPPI[p] = f
          BY <2>1, <2>6, <3>1 DEF PinInv, PinnedFramesDistinct
        <4>3. QED BY <4>1, <4>2
      <3>2. CASE f # hostPPI[Victim]
        <4>1. RefAfterEvict[f] = hostRef[f]
          BY <2>1, <2>3, <2>4, <3>2
        <4>2. (\E p \in Pages : PinnedAfterEvict[p] /\ hostPPI[p] = f)
                <=> (\E p \in Pages : pinned[p] /\ hostPPI[p] = f)
          BY <2>6, <3>2
        <4>3. QED BY <4>1, <4>2 DEF PinInv, RefIsOwner
      <3>3. QED BY <3>1, <3>2
    <2>8. QED BY <1>2, <2>5, <2>6, <2>7
  <1>3. QED BY <1>1, <1>2

----------------------------------------------------------------------------
\* What a page's entry in the ring means to the slots below nEntries: the new
\* entry names p, the victim's is gone, the rest stand.
LEMMA QueueStep ==
  ASSUME PinInv, vmState = "Ready", NEW p \in Pages, ~pinned[p]
  PROVE  LET q == QueueAfterPin(p) IN
         /\ q \in [nEntries : 0 .. MaxPhyPagesPinned, tail : Slots, ppi : [Slots -> Pages]]
         /\ QIndex \in 0 .. q.nEntries - 1 /\ q.ppi[QIndex] = p
         /\ \A i \in 0 .. q.nEntries - 1 : i # QIndex =>
              i \in 0 .. pinQueue.nEntries - 1 /\ q.ppi[i] = pinQueue.ppi[i]
         /\ QueueFull => q.nEntries = pinQueue.nEntries /\ QIndex = pinQueue.tail
         /\ ~QueueFull => q.nEntries = pinQueue.nEntries + 1 /\ QIndex = pinQueue.nEntries
         /\ q.nEntries < MaxPhyPagesPinned => q.tail = q.nEntries
  <1> DEFINE q == QueueAfterPin(p)
  <1> USE PagePinAssumption
  <1>1. /\ pinQueue.nEntries \in 0 .. MaxPhyPagesPinned
        /\ pinQueue.tail \in Slots
        /\ pinQueue.ppi \in [Slots -> Pages]
    BY DEF PinInv, PinTypeOK
  <1>2. CASE QueueFull
    <2>1. pinQueue.nEntries = MaxPhyPagesPinned
      BY <1>1, <1>2 DEF QueueFull
    <2>2. /\ q = [nEntries |-> MaxPhyPagesPinned,
                  tail |-> (pinQueue.tail + 1) % MaxPhyPagesPinned,
                  ppi |-> [pinQueue.ppi EXCEPT ![pinQueue.tail] = p]]
          /\ QIndex = pinQueue.tail
      BY <1>2, <2>1 DEF QueueAfterPin, QIndex
    <2>3. (pinQueue.tail + 1) % MaxPhyPagesPinned \in Slots
      <3>1. pinQueue.tail + 1 \in Nat
        BY <1>1 DEF Slots
      <3>2. QED BY <3>1, ModRange DEF Slots
    <2>4. [pinQueue.ppi EXCEPT ![pinQueue.tail] = p] \in [Slots -> Pages]
      BY <1>1
    <2>5. QED BY <1>1, <1>2, <2>1, <2>2, <2>3, <2>4 DEF Slots
  <1>3. CASE ~QueueFull
    <2>1. pinQueue.nEntries \in Slots /\ pinQueue.nEntries + 1 \in 0 .. MaxPhyPagesPinned
      BY <1>1, <1>3 DEF QueueFull, Slots
    <2>2. /\ q = [nEntries |-> pinQueue.nEntries + 1,
                  tail |-> (pinQueue.nEntries + 1) % MaxPhyPagesPinned,
                  ppi |-> [pinQueue.ppi EXCEPT ![pinQueue.nEntries] = p]]
          /\ QIndex = pinQueue.nEntries
      BY <1>3 DEF QueueAfterPin, QIndex
    <2>3. (pinQueue.nEntries + 1) % MaxPhyPagesPinned \in Slots
      <3>1. pinQueue.nEntries + 1 \in Nat
        BY <2>1
      <3>2. QED BY <3>1, ModRange DEF Slots
    <2>4. [pinQueue.ppi EXCEPT ![pinQueue.nEntries] = p] \in [Slots -> Pages]
      BY <1>1, <2>1
    <2>5. pinQueue.nEntries + 1 < MaxPhyPagesPinned =>
            (pinQueue.nEntries + 1) % MaxPhyPagesPinned = pinQueue.nEntries + 1
      BY <2>1, ModSmall DEF Slots
    <2>6. q.ppi[pinQueue.nEntries] = p
      BY <1>1, <2>1, <2>2
    <2>7. \A i \in 0 .. q.nEntries - 1 : i # QIndex =>
              i \in 0 .. pinQueue.nEntries - 1 /\ q.ppi[i] = pinQueue.ppi[i]
      BY <1>1, <2>1, <2>2 DEF Slots
    <2>8. QED BY <1>1, <1>3, <2>1, <2>2, <2>3, <2>4, <2>5, <2>6, <2>7
  <1>4. QED BY <1>2, <1>3

----------------------------------------------------------------------------
\* A successful pin preserves the invariant.
LEMMA PinSucceedsInv ==
  ASSUME PinInv, NEW p \in Pages, NEW f \in Frames, ~pinned[p], PinSucceeds(p, f)
  PROVE  PinInv'
  <1> DEFINE pe == PinnedAfterEvict
             re == RefAfterEvict
  <1>1. /\ vmState = "Ready" /\ vmState' = "Ready"
        /\ re[f] = 0
        /\ pinned' = [pe EXCEPT ![p] = TRUE]
        /\ hostPPI' = [hostPPI EXCEPT ![p] = f]
        /\ hostRef' = [re EXCEPT ![f] = @ + 1]
        /\ pinQueue' = QueueAfterPin(p)
    BY DEF PinSucceeds
  <1>2. /\ pe \in [Pages -> BOOLEAN]
        /\ re \in [Frames -> Int]
        /\ \A r \in Pages : pe[r] <=> pinned[r] /\ ~(QueueFull /\ r = Victim)
        /\ \A g \in Frames : re[g] = IF \E r \in Pages : pe[r] /\ hostPPI[r] = g THEN 1 ELSE 0
    BY <1>1, EvictBalance
  <1>3. hostPPI \in [Pages -> Frames \cup {NoFrame}]
    BY DEF PinInv, PinTypeOK
  <1> HIDE DEF pe, re
  <1>4. /\ \A r \in Pages : pinned'[r] = IF r = p THEN TRUE ELSE pe[r]
        /\ \A r \in Pages : hostPPI'[r] = IF r = p THEN f ELSE hostPPI[r]
        /\ \A g \in Frames : hostRef'[g] = IF g = f THEN 1 ELSE re[g]
    BY <1>1, <1>2, <1>3
  <1>5. PinTypeOK'
    <2>1. pinQueue' \in [nEntries : 0 .. MaxPhyPagesPinned, tail : Slots, ppi : [Slots -> Pages]]
      BY <1>1, QueueStep
    <2>2. pinned' \in [Pages -> BOOLEAN] /\ hostRef' \in [Frames -> Int]
      BY <1>1, <1>2
    <2>3. hostPPI' \in [Pages -> Frames \cup {NoFrame}]
      BY <1>1, <1>3
    <2>4. QED BY <1>1, <2>1, <2>2, <2>3 DEF PinTypeOK, Slots, Pages
  <1>6. ~ \E r \in Pages : pe[r] /\ hostPPI[r] = f
    BY <1>1, <1>2
  <1>7. PinnedFramesDistinct'
    <2>1. \A r \in Pages : pe[r] => hostPPI[r] \in Frames
      BY <1>2 DEF PinInv, PinnedFramesDistinct
    <2>2. \A r, s \in Pages : pe[r] /\ pe[s] /\ hostPPI[r] = hostPPI[s] => r = s
      BY <1>2 DEF PinInv, PinnedFramesDistinct
    <2>3. QED BY <1>4, <1>6, <2>1, <2>2 DEF PinnedFramesDistinct, Pages
  <1>8. RefIsOwner'
    <2> SUFFICES ASSUME NEW g \in Frames
                 PROVE  hostRef'[g] =
                          IF \E r \in Pages : pinned'[r] /\ hostPPI'[r] = g THEN 1 ELSE 0
      BY DEF RefIsOwner, Pages
    <2>1. CASE g = f
      BY <1>4, <2>1
    <2>2. CASE g # f
      <3>1. hostRef'[g] = re[g]
        BY <1>4, <2>2
      <3>2. ~pe[p]
        BY <1>2
      <3>3. (\E r \in Pages : pinned'[r] /\ hostPPI'[r] = g)
              <=> (\E r \in Pages : pe[r] /\ hostPPI[r] = g)
        BY <1>4, <2>2, <3>2
      <3>4. QED BY <1>2, <3>1, <3>3
    <2>3. QED BY <2>1, <2>2
  <1>9. QueueHoldsPinned'
    <2> DEFINE q == QueueAfterPin(p)
    <2>1. /\ QIndex \in 0 .. q.nEntries - 1 /\ q.ppi[QIndex] = p
          /\ \A i \in 0 .. q.nEntries - 1 : i # QIndex =>
               i \in 0 .. pinQueue.nEntries - 1 /\ q.ppi[i] = pinQueue.ppi[i]
          /\ QueueFull => q.nEntries = pinQueue.nEntries /\ QIndex = pinQueue.tail
          /\ ~QueueFull => q.nEntries = pinQueue.nEntries + 1 /\ QIndex = pinQueue.nEntries
          /\ q.nEntries < MaxPhyPagesPinned => q.tail = q.nEntries
      BY <1>1, QueueStep
    <2>2. /\ \A i, j \in 0 .. pinQueue.nEntries - 1 :
               pinQueue.ppi[i] = pinQueue.ppi[j] => i = j
          /\ \A r \in Pages :
               pinned[r] <=> \E i \in 0 .. pinQueue.nEntries - 1 : pinQueue.ppi[i] = r
          /\ pinQueue.nEntries \in 0 .. MaxPhyPagesPinned
      BY <1>1 DEF PinInv, QueueHoldsPinned, PinTypeOK
    <2>3. QueueFull => pinQueue.tail \in 0 .. pinQueue.nEntries - 1
      <3>1. QueueFull => pinQueue.nEntries = MaxPhyPagesPinned
        BY <1>1, VictimPinned
      <3>2. QED BY <3>1 DEF PinInv, PinTypeOK, Slots
    <2>4. \A i \in 0 .. q.nEntries - 1 : q.ppi[i] = p => i = QIndex
      BY <2>1, <2>2
    <2>5. ASSUME NEW i \in 0 .. q.nEntries - 1, NEW j \in 0 .. q.nEntries - 1,
                 q.ppi[i] = q.ppi[j]
          PROVE  i = j
      <3>1. CASE i = QIndex
        BY <2>1, <2>4, <2>5, <3>1
      <3>2. CASE j = QIndex
        BY <2>1, <2>4, <2>5, <3>2
      <3>3. CASE i # QIndex /\ j # QIndex
        BY <2>1, <2>2, <2>5, <3>3
      <3>4. QED BY <3>1, <3>2, <3>3
    <2>6. ASSUME NEW r \in Pages
          PROVE  pinned'[r] <=> \E i \in 0 .. q.nEntries - 1 : q.ppi[i] = r
      <3>1. CASE r = p
        BY <1>4, <2>1, <3>1
      <3>2. CASE r # p /\ pe[r]
        <4>1. PICK i \in 0 .. pinQueue.nEntries - 1 : pinQueue.ppi[i] = r
          BY <1>2, <2>2, <3>2
        <4>2. i # QIndex
          <5>1. CASE QueueFull
            BY <1>2, <2>1, <3>2, <4>1, <5>1 DEF Victim
          <5>2. CASE ~QueueFull
            BY <2>1, <2>2, <4>1, <5>2
          <5>3. QED BY <5>1, <5>2
        <4>3. i \in 0 .. q.nEntries - 1 /\ q.ppi[i] = r
          <5>1. /\ pinQueue.nEntries \in 0 .. MaxPhyPagesPinned
                /\ pinQueue.tail \in Slots /\ pinQueue.ppi \in [Slots -> Pages]
            BY DEF PinInv, PinTypeOK
          <5>2. i \in 0 .. q.nEntries - 1
            BY <2>1, <2>2, <4>1
          <5>3. QED BY <2>1, <4>1, <4>2, <5>2
        <4>4. QED BY <1>4, <3>2, <4>3
      <3>3. CASE r # p /\ ~pe[r]
        <4>1. ASSUME NEW i \in 0 .. q.nEntries - 1, q.ppi[i] = r
              PROVE  FALSE
          <5>1. i # QIndex
            BY <2>1, <3>3, <4>1
          <5>2. i \in 0 .. pinQueue.nEntries - 1 /\ pinQueue.ppi[i] = r
            BY <2>1, <4>1, <5>1
          <5>3. pinned[r]
            BY <2>2, <5>2
          <5>4. QueueFull /\ r = Victim
            BY <1>2, <3>3, <5>3
          <5>5. i = pinQueue.tail
            BY <2>2, <2>3, <5>2, <5>4 DEF Victim
          <5>6. QED BY <2>1, <5>1, <5>4, <5>5
        <4>2. QED BY <1>4, <3>3, <4>1
      <3>4. QED BY <3>1, <3>2, <3>3
    <2>7. (~QueueFull)' => q.tail = q.nEntries
      BY <1>1, <2>1 DEF QueueFull
    <2>8. QED
      <3> HIDE DEF q
      <3>1. pinQueue' = q
        BY <1>1 DEF q
      <3>2. QED BY <2>5, <2>6, <2>7, <3>1 DEF QueueHoldsPinned, Pages
  <1>10. NothingPinnedWhenDown'
    BY <1>1 DEF NothingPinnedWhenDown
  <1>11. QED BY <1>5, <1>7, <1>8, <1>9, <1>10 DEF PinInv

----------------------------------------------------------------------------
\* A pin that fails has given up the victim; the VM is left in Panic, where
\* the ring's contents no longer matter.
LEMMA PinFailsInv ==
  ASSUME PinInv, PinFails
  PROVE  PinInv'
  <1> DEFINE pe == PinnedAfterEvict
             re == RefAfterEvict
  <1>1. /\ vmState = "Ready" /\ vmState' = "Panic"
        /\ pinned' = pe /\ hostRef' = re
        /\ hostPPI' = hostPPI /\ pinQueue' = pinQueue
    BY DEF PinFails
  <1>2. /\ pe \in [Pages -> BOOLEAN]
        /\ re \in [Frames -> Int]
        /\ \A r \in Pages : pe[r] => pinned[r]
        /\ \A g \in Frames : re[g] = IF \E r \in Pages : pe[r] /\ hostPPI[r] = g THEN 1 ELSE 0
    BY <1>1, EvictBalance
  <1> HIDE DEF pe, re
  <1>3. PinTypeOK'
    BY <1>1, <1>2 DEF PinInv, PinTypeOK, Pages, Slots
  <1>4. PinnedFramesDistinct'
    BY <1>1, <1>2 DEF PinInv, PinnedFramesDistinct, Pages
  <1>5. RefIsOwner'
    BY <1>1, <1>2 DEF RefIsOwner, Pages
  <1>6. QueueHoldsPinned' /\ NothingPinnedWhenDown'
    BY <1>1 DEF QueueHoldsPinned, NothingPinnedWhenDown
  <1>7. QED BY <1>3, <1>4, <1>5, <1>6 DEF PinInv

\* The pages that hold frame f are at most one, so counting them is deciding
\* whether there is one.
LEMMA OwnersCount ==
  ASSUME PinInv, NEW f \in Frames
  PROVE  hostRef[f] = Cardinality({p \in Pages : pinned[p] /\ hostPPI[p] = f})
  <1> DEFINE owners == {p \in Pages : pinned[p] /\ hostPPI[p] = f}
  <1>1. CASE \E p \in Pages : pinned[p] /\ hostPPI[p] = f
    <2>1. PICK p \in Pages : pinned[p] /\ hostPPI[p] = f
      BY <1>1
    <2>2. owners = {p}
      BY <2>1 DEF PinInv, PinnedFramesDistinct
    <2>3. Cardinality(owners) = 1
      BY <2>2, FS_Singleton
    <2>4. QED BY <1>1, <2>3 DEF PinInv, RefIsOwner
  <1>2. CASE ~ \E p \in Pages : pinned[p] /\ hostPPI[p] = f
    <2>1. owners = {}
      BY <1>2
    <2>2. Cardinality(owners) = 0
      BY <2>1, FS_EmptySet
    <2>3. QED BY <1>2, <2>2 DEF PinInv, RefIsOwner
  <1>3. QED BY <1>1, <1>2

\* Teardown puts exactly the references that are held.
LEMMA ReleaseInv ==
  ASSUME PinInv, ReleasePinnedUserPages
  PROVE  PinInv'
  <1>1. /\ vmState' = "Down"
        /\ pinned' = [p \in Pages |-> FALSE]
        /\ hostPPI' = hostPPI /\ pinQueue' = pinQueue
        /\ hostRef' = [f \in Frames |->
             hostRef[f] - Cardinality({p \in Pages : pinned[p] /\ hostPPI[p] = f})]
    BY DEF ReleasePinnedUserPages
  <1>2. \A f \in Frames : hostRef'[f] = 0
    <2> SUFFICES ASSUME NEW f \in Frames PROVE hostRef'[f] = 0
      OBVIOUS
    <2> DEFINE n == Cardinality({p \in Pages : pinned[p] /\ hostPPI[p] = f})
    <2>1. hostRef[f] \in Int
      BY DEF PinInv, PinTypeOK
    <2>2. hostRef[f] = n
      BY OwnersCount
    <2>3. hostRef'[f] = hostRef[f] - n
      BY <1>1
    <2> HIDE DEF n
    <2>4. QED BY <2>1, <2>2, <2>3
  <1>3. hostRef' \in [Frames -> Int]
    <2>1. hostRef' = [f \in Frames |-> hostRef'[f]]
      BY <1>1
    <2>2. QED BY <1>2, <2>1
  <1>4. PinTypeOK'
    BY <1>1, <1>3 DEF PinInv, PinTypeOK, Pages, Slots
  <1>5. /\ PinnedFramesDistinct' /\ RefIsOwner'
        /\ QueueHoldsPinned' /\ NothingPinnedWhenDown'
    BY <1>1, <1>2
    DEF PinnedFramesDistinct, RefIsOwner, QueueHoldsPinned, NothingPinnedWhenDown, Pages
  <1>6. QED BY <1>4, <1>5 DEF PinInv

\* A new registration starts from an empty ring and no references.
LEMMA InitPinStateInv ==
  ASSUME PinInv, NEW slots \in {pinQueue.ppi, ZeroSlots}, InitPinState(slots)
  PROVE  PinInv'
  <1>1. /\ vmState = "Down" /\ vmState' = "Ready"
        /\ pinned' = [p \in Pages |-> FALSE]
        /\ hostPPI' = [p \in Pages |-> NoFrame]
        /\ pinQueue' = [nEntries |-> 0, tail |-> 0, ppi |-> slots]
        /\ hostRef' = hostRef
    BY DEF InitPinState
  <1>2. slots \in [Slots -> Pages]
    BY PagePinAssumption DEF PinInv, PinTypeOK, ZeroSlots, Slots, Pages
  <1>3. PinTypeOK'
    BY <1>1, <1>2, PagePinAssumption DEF PinInv, PinTypeOK, Pages, Slots
  <1>4. RefIsOwner'
    BY <1>1 DEF PinInv, RefIsOwner, NothingPinnedWhenDown, Pages
  <1>5. PinnedFramesDistinct' /\ QueueHoldsPinned' /\ NothingPinnedWhenDown'
    BY <1>1, PagePinAssumption
    DEF PinnedFramesDistinct, QueueHoldsPinned, NothingPinnedWhenDown, Pages
  <1>6. QED BY <1>3, <1>4, <1>5 DEF PinInv

\* Every step of the pin component preserves the invariant.
LEMMA PinNextInv == PinInv /\ [PinNext]_pinVars => PinInv'
  <1> SUFFICES ASSUME PinInv, [PinNext]_pinVars PROVE PinInv'
    OBVIOUS
  <1>1. ASSUME NEW p \in Pages, PinRequest(p) PROVE PinInv'
    BY <1>1, PinSucceedsInv, PinFailsInv DEF PinRequest
  <1>2. CASE ReleasePinnedUserPages
    BY <1>2, ReleaseInv
  <1>3. ASSUME NEW slots \in {pinQueue.ppi, ZeroSlots}, InitPinState(slots) PROVE PinInv'
    BY <1>3, InitPinStateInv
  <1>4. CASE UNCHANGED pinVars
    BY <1>4 DEF pinVars, PinInv, PinTypeOK, PinnedFramesDistinct, RefIsOwner,
                QueueHoldsPinned, QueueFull, NothingPinnedWhenDown, Pages, Slots
  <1>5. QED BY <1>1, <1>2, <1>3, <1>4 DEF PinNext

----------------------------------------------------------------------------
\* hostHandlePagePinRequest and the teardown keep PinInv, whatever the guest's
\* memory size, the queue's capacity and the host's frames.
THEOREM PinInvariant == PinSpec => []PinInv
  <1>1. QED BY PinInitInv, PinNextInv, PTL DEF PinSpec

\* The pin component's variables keep their types: in particular nEntries and
\* tail never leave the array guestPhyPagePinQueue.ppi.
THEOREM PinTypes == PinSpec => []PinTypeOK
  <1>1. PinInv => PinTypeOK
    BY DEF PinInv
  <1>2. QED BY <1>1, PinInvariant, PTL

\* Every page flagged pinned accounts for exactly one reference the host holds
\* on the recorded frame, and there are no others.
THEOREM PinsBalance == PinSpec => []PinBalance
  <1>1. PinInv => PinBalance
    BY OwnersCount DEF PinBalance
  <1>2. QED BY <1>1, PinInvariant, PTL

\* The ring of a running VM holds exactly the pinned pages, each once.
THEOREM QueueIsPinnedSet == PinSpec => []QueueHoldsPinned
  <1>1. PinInv => QueueHoldsPinned
    BY DEF PinInv
  <1>2. QED BY <1>1, PinInvariant, PTL

----------------------------------------------------------------------------
(* The ring read as a queue: the refinement of LeastRecentlyPinned. *)

\* An index that runs past the end of the ring comes in again at its start.
LEMMA ModWrap ==
  ASSUME NEW n \in Nat \ {0}, NEW x \in n .. 2 * n - 1
  PROVE  x % n = x - n
  <1>1. x - n \in 0 .. n - 1 /\ x = (x - n) + n
    OBVIOUS
  <1>2. QED BY <1>1

\* The i-th slot after the tail t of a ring of n slots.
LEMMA RingSlot ==
  ASSUME NEW n \in Nat \ {0}, NEW t \in 0 .. n - 1, NEW i \in 0 .. n
  PROVE  (t + i) % n = IF t + i < n THEN t + i ELSE t + i - n
  <1>1. CASE t + i < n
    <2>1. t + i \in 0 .. n - 1
      BY <1>1
    <2>2. QED BY <1>1, <2>1, ModSmall
  <1>2. CASE ~(t + i < n)
    <2>1. t + i \in n .. 2 * n - 1
      BY <1>2
    <2>2. QED BY <1>2, <2>1, ModWrap
  <1>3. QED BY <1>1, <1>2

\* The slots of the entries, oldest first, lie below nEntries.
LEMMA OldestSlotInRing ==
  ASSUME PinTypeOK, NEW i \in 1 .. pinQueue.nEntries
  PROVE  /\ OldestSlot(i) \in 0 .. pinQueue.nEntries - 1
         /\ OldestSlot(i) \in Slots /\ pinQueue.ppi[OldestSlot(i)] \in Pages
  <1> USE PagePinAssumption
  <1>1. /\ pinQueue.nEntries \in 0 .. MaxPhyPagesPinned /\ pinQueue.tail \in 0 .. MaxPhyPagesPinned - 1
        /\ pinQueue.ppi \in [Slots -> Pages]
    BY DEF PinTypeOK, Slots
  <1>2. CASE QueueFull
    <2>1. pinQueue.nEntries = MaxPhyPagesPinned
      BY <1>1, <1>2 DEF QueueFull
    <2>2. pinQueue.tail + i - 1 \in Nat
      BY <1>1
    <2>3. (pinQueue.tail + i - 1) % MaxPhyPagesPinned \in 0 .. MaxPhyPagesPinned - 1
      BY <2>2, ModRange
    <2>4. QED BY <1>1, <1>2, <2>1, <2>3 DEF OldestSlot, Slots
  <1>3. CASE ~QueueFull
    <2>1. OldestSlot(i) = i - 1
      BY <1>3 DEF OldestSlot
    <2>2. i - 1 \in 0 .. pinQueue.nEntries - 1 /\ i - 1 \in Slots
      BY <1>1 DEF Slots
    <2>3. QED BY <1>1, <2>1, <2>2
  <1>4. QED BY <1>2, <1>3

\* A function on 1 .. n is a sequence of length n.
LEMMA FunctionIsSeq ==
  ASSUME NEW S, NEW n \in Nat, NEW s \in [1 .. n -> S]
  PROVE  s \in Seq(S) /\ Len(s) = n
  <1>1. s \in Seq(S)
    BY SeqDef
  <1>2. DOMAIN s = 1 .. n /\ DOMAIN s = 1 .. Len(s) /\ Len(s) \in Nat
    BY <1>1, LenProperties
  <1>3. QED BY <1>1, <1>2

\* What PinOrder is while the VM runs.
LEMMA OrderWhenReady ==
  ASSUME PinTypeOK, vmState = "Ready"
  PROVE  /\ PinOrder \in Seq(Pages) /\ Len(PinOrder) = pinQueue.nEntries
         /\ \A i \in 1 .. pinQueue.nEntries : PinOrder[i] = pinQueue.ppi[OldestSlot(i)]
  <1> DEFINE o == [i \in 1 .. pinQueue.nEntries |-> pinQueue.ppi[OldestSlot(i)]]
  <1>1. PinOrder = o
    BY DEF PinOrder, OldestGivenUp
  <1>2. pinQueue.nEntries \in Nat
    BY PagePinAssumption DEF PinTypeOK
  <1>3. o \in [1 .. pinQueue.nEntries -> Pages]
    BY OldestSlotInRing
  <1>4. o \in Seq(Pages) /\ Len(o) = pinQueue.nEntries
    BY <1>2, <1>3, FunctionIsSeq
  <1>5. QED BY <1>1, <1>4

\* A page that is not pinned is not in the queue.
LEMMA HeldArePinned ==
  ASSUME PinInv, vmState = "Ready", NEW p \in Pages, ~pinned[p]
  PROVE  p \notin LRP!Held
  <1>1. /\ Len(PinOrder) = pinQueue.nEntries
        /\ \A i \in 1 .. pinQueue.nEntries : PinOrder[i] = pinQueue.ppi[OldestSlot(i)]
    BY OrderWhenReady DEF PinInv
  <1>2. \A i \in 1 .. pinQueue.nEntries : OldestSlot(i) \in 0 .. pinQueue.nEntries - 1
    BY OldestSlotInRing DEF PinInv
  <1>3. \A k \in 0 .. pinQueue.nEntries - 1 : pinQueue.ppi[k] # p
    BY DEF PinInv, QueueHoldsPinned
  <1>4. QED BY <1>1, <1>2, <1>3 DEF LRP!Held

LEMMA OrderReady ==
  PinTypeOK /\ vmState = "Ready" =>
    /\ PinOrder \in Seq(Pages) /\ Len(PinOrder) = pinQueue.nEntries
    /\ \A i \in 1 .. pinQueue.nEntries : PinOrder[i] = pinQueue.ppi[OldestSlot(i)]
  BY OrderWhenReady

\* The same of the state after a step.
LEMMA OrderReadyNext ==
  (PinTypeOK /\ vmState = "Ready" =>
     /\ PinOrder \in Seq(Pages) /\ Len(PinOrder) = pinQueue.nEntries
     /\ \A i \in 1 .. pinQueue.nEntries : PinOrder[i] = pinQueue.ppi[OldestSlot(i)])'
  BY OrderReady, PTL

LEMMA OrderWhenReadyNext ==
  ASSUME PinTypeOK', vmState' = "Ready"
  PROVE  /\ PinOrder' \in Seq(Pages) /\ Len(PinOrder') = pinQueue'.nEntries
         /\ \A i \in 1 .. pinQueue'.nEntries : PinOrder'[i] = pinQueue'.ppi[OldestSlot(i)']
  BY OrderReadyNext DEF Pages

\* A pin enters the page as the youngest; a full ring drops its oldest first.
LEMMA PinSucceedsIsPin ==
  ASSUME PinInv, NEW p \in Pages, NEW f \in Frames, ~pinned[p], PinSucceeds(p, f)
  PROVE  LRP!Pin(p)
  <1> USE PagePinAssumption
  <1> DEFINE M == MaxPhyPagesPinned
             n == pinQueue.nEntries
             t == pinQueue.tail
  <1>1. /\ vmState = "Ready" /\ vmState' = "Ready" /\ pinQueue' = QueueAfterPin(p)
    BY DEF PinSucceeds
  <1>2. PinTypeOK /\ PinTypeOK'
    BY PinSucceedsInv DEF PinInv
  <1>3. /\ n \in 0 .. M /\ t \in 0 .. M - 1 /\ M \in Nat \ {0}
        /\ pinQueue.ppi \in [Slots -> Pages]
    BY <1>2 DEF PinTypeOK, Slots
  <1>4. /\ PinOrder \in Seq(Pages) /\ Len(PinOrder) = n
        /\ \A i \in 1 .. n : PinOrder[i] = pinQueue.ppi[OldestSlot(i)]
    BY <1>1, <1>2, OrderWhenReady
  <1>5. /\ PinOrder' \in Seq(Pages) /\ Len(PinOrder') = pinQueue'.nEntries
        /\ \A i \in 1 .. pinQueue'.nEntries : PinOrder'[i] = pinQueue'.ppi[OldestSlot(i)']
    BY <1>1, <1>2, OrderWhenReadyNext
  <1>6. PinOrder' = Append(LRP!MakeRoom, p)
    <2>1. CASE ~QueueFull
      <3>1. LRP!MakeRoom = PinOrder /\ n < M
        BY <1>4, <2>1 DEF LRP!MakeRoom, QueueFull
      <3>2. /\ pinQueue'.nEntries = n + 1 /\ pinQueue'.tail = (n + 1) % M
            /\ pinQueue'.ppi = [pinQueue.ppi EXCEPT ![n] = p]
        BY <1>1, <2>1 DEF QueueAfterPin, QIndex
      <3>3. ASSUME NEW i \in 1 .. n + 1
            PROVE  OldestSlot(i)' = i - 1
        <4>1. CASE n + 1 < M
          BY <3>2, <4>1 DEF OldestSlot, QueueFull
        <4>2. CASE n + 1 = M
          <5>1. (n + 1) % M = 0
            BY <1>3, <4>2
          <5>2. (i - 1) % M = i - 1
            <6>1. i - 1 \in 0 .. M - 1
              BY <1>3, <4>2
            <6>2. QED BY <1>3, <6>1, ModSmall
          <5>3. OldestSlot(i)' = (pinQueue'.tail + i - 1) % M
            BY <3>2, <4>2 DEF OldestSlot, QueueFull
          <5>4. QED BY <3>2, <5>1, <5>2, <5>3
        <4>3. QED BY <1>3, <3>1, <4>1, <4>2
      <3>4. /\ Append(PinOrder, p) \in Seq(Pages) /\ Len(Append(PinOrder, p)) = n + 1
            /\ \A i \in 1 .. n : Append(PinOrder, p)[i] = PinOrder[i]
            /\ Append(PinOrder, p)[n + 1] = p
        BY <1>4, AppendProperties
      <3>5. ASSUME NEW i \in 1 .. n + 1
            PROVE  PinOrder'[i] = Append(PinOrder, p)[i]
        <4>1. PinOrder'[i] = pinQueue'.ppi[i - 1]
          BY <1>5, <3>2, <3>3
        <4>2. n \in Slots /\ i - 1 \in Slots
          BY <1>3, <3>1 DEF Slots
        <4>3. CASE i = n + 1
          BY <1>3, <3>2, <3>4, <4>1, <4>2, <4>3
        <4>4. CASE i # n + 1
          <5>1. i \in 1 .. n /\ i - 1 # n
            BY <1>3, <4>4
          <5>2. PinOrder[i] = pinQueue.ppi[i - 1]
            BY <1>4, <2>1, <5>1 DEF OldestSlot
          <5>3. QED BY <1>3, <3>2, <3>4, <4>1, <4>2, <5>1, <5>2
        <4>5. QED BY <4>3, <4>4
      <3> DEFINE o == PinOrder'
                 a == Append(PinOrder, p)
      <3>6. /\ o \in Seq(Pages) /\ a \in Seq(Pages) /\ Len(o) = Len(a)
            /\ \A i \in 1 .. Len(o) : o[i] = a[i]
        BY <1>5, <3>2, <3>4, <3>5
      <3>7. LRP!MakeRoom = PinOrder
        BY <3>1
      <3> HIDE DEF o, a
      <3>8. o = a
        BY <3>6, SeqEqual
      <3>9. QED BY <3>7, <3>8 DEF o, a
    <2>2. CASE QueueFull
      <3>1. n = M /\ LRP!MakeRoom = Tail(PinOrder)
        BY <1>3, <1>4, <2>2 DEF LRP!MakeRoom, QueueFull
      <3>2. /\ pinQueue'.nEntries = M /\ pinQueue'.tail = (t + 1) % M
            /\ pinQueue'.ppi = [pinQueue.ppi EXCEPT ![t] = p]
        BY <1>1, <2>2, <3>1 DEF QueueAfterPin, QIndex
      <3>3. /\ Tail(PinOrder) \in Seq(Pages) /\ Len(Tail(PinOrder)) = M - 1
            /\ \A i \in 1 .. M - 1 : Tail(PinOrder)[i] = PinOrder[i + 1]
        <4>1. PinOrder # <<>>
          BY <1>3, <1>4, <3>1, EmptySeq
        <4>2. QED BY <1>4, <3>1, <4>1, HeadTailProperties
      <3>4. /\ Append(Tail(PinOrder), p) \in Seq(Pages) /\ Len(Append(Tail(PinOrder), p)) = M
            /\ \A i \in 1 .. M - 1 : Append(Tail(PinOrder), p)[i] = PinOrder[i + 1]
            /\ Append(Tail(PinOrder), p)[M] = p
        BY <1>3, <3>3, AppendProperties
      <3>5. ASSUME NEW i \in 1 .. M
            PROVE  OldestSlot(i)' = IF t + i < M THEN t + i ELSE t + i - M
        <4>1. pinQueue'.tail = IF t + 1 < M THEN t + 1 ELSE t + 1 - M
          <5>1. 1 \in 0 .. M
            BY <1>3
          <5>2. (t + 1) % M = IF t + 1 < M THEN t + 1 ELSE t + 1 - M
            BY <1>3, <5>1, RingSlot
          <5>3. QED BY <3>2, <5>2
        <4>2. OldestSlot(i)' = (pinQueue'.tail + i - 1) % M
          BY <3>2 DEF OldestSlot, QueueFull
        <4>3. pinQueue'.tail \in 0 .. M - 1 /\ i - 1 \in 0 .. M
          BY <1>3, <4>1
        <4>4. (pinQueue'.tail + (i - 1)) % M =
                IF pinQueue'.tail + (i - 1) < M THEN pinQueue'.tail + (i - 1)
                                                ELSE pinQueue'.tail + (i - 1) - M
          BY <1>3, <4>3, RingSlot
        <4>5. pinQueue'.tail + i - 1 = pinQueue'.tail + (i - 1)
          BY <4>3
        <4>6. CASE t + 1 < M
          BY <1>3, <4>1, <4>2, <4>4, <4>5, <4>6
        <4>7. CASE ~(t + 1 < M)
          BY <1>3, <4>1, <4>2, <4>4, <4>5, <4>7
        <4>8. QED BY <4>6, <4>7
      <3>6. ASSUME NEW i \in 1 .. M
            PROVE  PinOrder'[i] = Append(Tail(PinOrder), p)[i]
        <4>1. PinOrder'[i] = pinQueue'.ppi[OldestSlot(i)']
          BY <1>5, <3>2
        <4>2. t \in Slots
          BY <1>3 DEF Slots
        <4>3. CASE i = M
          <5>1. OldestSlot(i)' = t
            BY <1>3, <3>5, <4>3
          <5>2. QED BY <1>3, <3>2, <3>4, <4>1, <4>2, <4>3, <5>1
        <4>4. CASE i # M
          <5>1. i \in 1 .. M - 1 /\ i + 1 \in 1 .. n /\ i \in 0 .. M
            BY <1>3, <3>1, <4>4
          <5>2. OldestSlot(i + 1) = (t + (i + 1) - 1) % M /\ t + (i + 1) - 1 = t + i
            BY <1>3, <2>2 DEF OldestSlot
          <5>3. OldestSlot(i + 1) = OldestSlot(i)'
            BY <1>3, <3>5, <5>1, <5>2, RingSlot
          <5>4. OldestSlot(i)' # t /\ OldestSlot(i)' \in Slots
            <6>1. OldestSlot(i)' = IF t + i < M THEN t + i ELSE t + i - M
              BY <3>5
            <6>2. t + i # t /\ t + i - M # t /\ (IF t + i < M THEN t + i ELSE t + i - M) \in 0 .. M - 1
              BY <1>3, <5>1
            <6>3. QED BY <6>1, <6>2 DEF Slots
          <5>5. pinQueue'.ppi[OldestSlot(i)'] = pinQueue.ppi[OldestSlot(i + 1)]
            BY <1>3, <3>2, <4>2, <5>3, <5>4
          <5>6. QED BY <1>4, <3>4, <4>1, <5>1, <5>5
        <4>5. QED BY <4>3, <4>4
      <3> DEFINE o == PinOrder'
                 a == Append(Tail(PinOrder), p)
      <3>7. /\ o \in Seq(Pages) /\ a \in Seq(Pages) /\ Len(o) = Len(a)
            /\ \A i \in 1 .. Len(o) : o[i] = a[i]
        BY <1>5, <3>2, <3>4, <3>6
      <3> HIDE DEF o, a
      <3>8. o = a
        BY <3>7, SeqEqual
      <3>9. QED BY <3>1, <3>8 DEF o, a
    <2>3. QED BY <2>1, <2>2
  <1>7. QED BY <1>1, <1>6, HeldArePinned DEF LRP!Pin

\* A pin that fails has given up the oldest page of a full ring, and nothing else.
LEMMA PinFailsIsPinFails ==
  ASSUME PinInv, PinFails
  PROVE  LRP!PinFails
  <1> USE PagePinAssumption
  <1> DEFINE n == pinQueue.nEntries
  <1>1. /\ vmState = "Ready" /\ vmState' = "Panic" /\ pinQueue' = pinQueue
        /\ pinned' = PinnedAfterEvict
    BY DEF PinFails
  <1>2. n \in 0 .. MaxPhyPagesPinned /\ pinQueue.ppi \in [Slots -> Pages] /\ n \in Nat
    BY DEF PinInv, PinTypeOK
  <1>3. /\ PinOrder \in Seq(Pages) /\ Len(PinOrder) = n
        /\ \A i \in 1 .. n : PinOrder[i] = pinQueue.ppi[OldestSlot(i)]
    BY <1>1, OrderWhenReady DEF PinInv
  <1>4. \A i \in Nat : OldestSlot(i)' = OldestSlot(i)
    BY <1>1 DEF OldestSlot, QueueFull
  <1>5. PinOrder' = LRP!MakeRoom
    <2>1. CASE ~QueueFull
      <3>1. LRP!MakeRoom = PinOrder
        BY <1>3, <2>1 DEF LRP!MakeRoom, QueueFull
      <3>2. ~OldestGivenUp' /\ ~OldestGivenUp
        BY <1>1, <2>1 DEF OldestGivenUp, QueueFull
      <3>3. PinOrder = [i \in 1 .. n |-> pinQueue.ppi[OldestSlot(i)]]
        BY <1>1, <3>2 DEF PinOrder
      <3>4. PinOrder' = [i \in 1 .. n |-> pinQueue.ppi[OldestSlot(i)']]
        BY <1>1, <3>2 DEF PinOrder
      <3>5. \A i \in 1 .. n : OldestSlot(i)' = OldestSlot(i)
        BY <1>2, <1>4
      <3>6. QED BY <3>1, <3>3, <3>4, <3>5
    <2>2. CASE QueueFull
      <3>1. n = MaxPhyPagesPinned /\ Victim \in Pages /\ pinned[Victim]
        BY <1>1, <2>2, VictimPinned
      <3>2. LRP!MakeRoom = Tail(PinOrder)
        BY <1>2, <1>3, <3>1 DEF LRP!MakeRoom
      <3>3. pinned' = [pinned EXCEPT ![Victim] = FALSE] /\ Victim' = Victim /\ QueueFull'
        BY <1>1, <2>2 DEF PinnedAfterEvict, Victim, QueueFull
      <3>4. pinned \in [Pages -> BOOLEAN]
        BY DEF PinInv, PinTypeOK
      <3>5. OldestGivenUp'
        BY <1>1, <3>1, <3>3, <3>4 DEF OldestGivenUp
      <3> DEFINE o == [i \in 1 .. n - 1 |-> pinQueue.ppi[OldestSlot(i + 1)]]
      <3>6. PinOrder' = o
        <4>1. PinOrder' = [i \in 1 .. n - 1 |-> pinQueue.ppi[OldestSlot(i + 1)']]
          BY <1>1, <3>5 DEF PinOrder
        <4>2. \A i \in 1 .. n - 1 : OldestSlot(i + 1)' = OldestSlot(i + 1)
          BY <1>2, <1>4
        <4>3. QED BY <4>1, <4>2
      <3>7. o \in Seq(Pages) /\ Len(o) = n - 1
        <4>1. \A i \in 1 .. n - 1 : pinQueue.ppi[OldestSlot(i + 1)] \in Pages
          <5>1. \A i \in 1 .. n - 1 : i + 1 \in 1 .. n
            BY <1>2
          <5>2. QED BY <5>1, OldestSlotInRing DEF PinInv
        <4>2. o \in [1 .. n - 1 -> Pages] /\ n - 1 \in Nat
          BY <3>1, <4>1
        <4> HIDE DEF o
        <4>3. QED BY <4>2, FunctionIsSeq
      <3>8. /\ Tail(PinOrder) \in Seq(Pages) /\ Len(Tail(PinOrder)) = n - 1
            /\ \A i \in 1 .. n - 1 : Tail(PinOrder)[i] = PinOrder[i + 1]
        <4>1. PinOrder # <<>>
          BY <1>2, <1>3, <3>1, EmptySeq
        <4>2. QED BY <1>2, <1>3, <4>1, HeadTailProperties
      <3>9. \A i \in 1 .. n - 1 : o[i] = Tail(PinOrder)[i]
        BY <1>2, <1>3, <3>8
      <3> DEFINE a == Tail(PinOrder)
      <3>10. /\ o \in Seq(Pages) /\ a \in Seq(Pages) /\ Len(o) = Len(a)
             /\ \A i \in 1 .. Len(o) : o[i] = a[i]
        BY <3>7, <3>8, <3>9
      <3> HIDE DEF o, a
      <3>11. o = a
        BY <3>10, SeqEqual
      <3>12. QED BY <3>2, <3>6, <3>11 DEF a
    <2>3. QED BY <2>1, <2>2
  <1>6. QED BY <1>1, <1>5 DEF LRP!PinFails

LEMMA ReleaseIsRelease ==
  ASSUME ReleasePinnedUserPages
  PROVE  LRP!Release
  BY DEF ReleasePinnedUserPages, LRP!Release, PinOrder

LEMMA InitPinStateIsSetup ==
  ASSUME NEW slots, InitPinState(slots)
  PROVE  LRP!Setup
  <1>1. /\ vmState = "Down" /\ vmState' = "Ready"
        /\ pinQueue' = [nEntries |-> 0, tail |-> 0, ppi |-> slots]
    BY DEF InitPinState
  <1>2. PinOrder = <<>>
    BY <1>1 DEF PinOrder
  <1>3. PinOrder' = [i \in 1 .. 0 |-> pinQueue'.ppi[OldestSlot(i)']]
    BY <1>1 DEF PinOrder, OldestGivenUp
  <1>4. PinOrder' = <<>>
    <2> DEFINE o == [i \in 1 .. 0 |-> pinQueue'.ppi[OldestSlot(i)']]
    <2>1. o \in [1 .. 0 -> {}]
      OBVIOUS
    <2> HIDE DEF o
    <2>2. o \in Seq({}) /\ Len(o) = 0
      BY <2>1, FunctionIsSeq
    <2>3. o = <<>>
      BY <2>2, EmptySeq
    <2>4. QED BY <1>3, <2>3 DEF o
  <1>5. QED BY <1>1, <1>2, <1>4 DEF LRP!Setup

\* hostHandlePagePinRequest implements the promise of monitor.h:393-399: at
\* most MaxPhyPagesPinned pages are pinned, and the page that makes room for
\* another is the one pinned longest ago.
THEOREM RingIsLeastRecentlyPinned == PinSpec => LeastRecentlyPinnedSpec
  <1>1. PinInit => LRP!Init
    BY DEF PinInit, LRP!Init, PinOrder
  <1>2. PinInv /\ [PinNext]_pinVars => [LRP!Next]_<<vmState, PinOrder>>
    <2> SUFFICES ASSUME PinInv, [PinNext]_pinVars
                 PROVE  [LRP!Next]_<<vmState, PinOrder>>
      OBVIOUS
    <2>1. ASSUME NEW p \in Pages, PinRequest(p) PROVE LRP!Next
      BY <2>1, PinSucceedsIsPin, PinFailsIsPinFails DEF PinRequest, LRP!Next
    <2>2. CASE ReleasePinnedUserPages
      BY <2>2, ReleaseIsRelease DEF LRP!Next
    <2>3. ASSUME NEW slots \in {pinQueue.ppi, ZeroSlots}, InitPinState(slots) PROVE LRP!Next
      BY <2>3, InitPinStateIsSetup DEF LRP!Next
    <2>4. CASE UNCHANGED pinVars
      BY <2>4 DEF pinVars, PinOrder, OldestGivenUp, OldestSlot, QueueFull, Victim
    <2>5. QED BY <2>1, <2>2, <2>3, <2>4 DEF PinNext
  <1>3. QED BY <1>1, <1>2, PinInvariant, PTL DEF PinSpec, LeastRecentlyPinnedSpec, LRP!Spec
============================================================================
