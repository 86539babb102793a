---------------------------- MODULE BlockDevice ----------------------------
(***************************************************************************)
(* What a disk driver promises the block layer: buffers are queued, one at *)
(* a time is carried out, sector by sector from its first to its last, and *)
(* no sector of the store changes in any other way.  A buffer may be given *)
(* back without being carried out (an unknown device, a transfer past the  *)
(* end); it has then touched nothing.                                      *)
(***************************************************************************)
EXTENDS Integers, Sequences

CONSTANTS
  Bufs,        \* the buffers of the block layer
  Extent,      \* Extent[b]: the sectors of b on the medium, a sequence
  Writes,      \* the buffers that are written; the others are read
  Vals         \* contents of a sector

VARIABLES
  store,       \* contents of the medium, per sector
  data,        \* contents of the buffers, data[b][i] for the i-th sector
  phase,       \* "idle", "queued" or "active", per buffer
  pos          \* sectors of the active buffer carried out so far

vars == <<store, data, phase, pos>>

NoneActive == \A b \in Bufs : phase[b] # "active"

Submit(b) ==
  /\ phase[b] = "idle"
  /\ phase' = [phase EXCEPT ![b] = "queued"]
  /\ \E d \in [1 .. Len(Extent[b]) -> Vals] : data' = [data EXCEPT ![b] = d]
  /\ UNCHANGED <<store, pos>>

Start(b) ==
  /\ phase[b] = "queued" /\ NoneActive
  /\ phase' = [phase EXCEPT ![b] = "active"]
  /\ pos' = 0
  /\ UNCHANGED <<store, data>>

Move(b) ==
  /\ phase[b] = "active" /\ pos < Len(Extent[b])
  /\ pos' = pos + 1
  /\ IF b \in Writes
     THEN store' = [store EXCEPT ![Extent[b][pos + 1]] = data[b][pos + 1]] /\ UNCHANGED data
     ELSE data' = [data EXCEPT ![b][pos + 1] = store[Extent[b][pos + 1]]] /\ UNCHANGED store
  /\ UNCHANGED phase

End(b) ==
  /\ \/ phase[b] = "queued"
     \/ phase[b] = "active" /\ pos = Len(Extent[b])
  /\ phase' = [phase EXCEPT ![b] = "idle"]
  /\ pos' = 0
  /\ UNCHANGED <<store, data>>

\* The driver is withdrawn; what it has not started on is dropped.
Withdraw ==
  /\ \A b \in Bufs : phase[b] = "active" => pos = Len(Extent[b])
  /\ phase' = [b \in Bufs |-> "idle"]
  /\ pos' = 0
  /\ UNCHANGED <<store, data>>

\* The power fails: the buffers are lost, the medium keeps what has reached it.
PowerOff ==
  /\ phase' = [b \in Bufs |-> "idle"]
  /\ pos' = 0
  /\ UNCHANGED store

Next ==
  \/ \E b \in Bufs : Submit(b) \/ Start(b) \/ Move(b) \/ End(b)
  \/ Withdraw \/ PowerOff

\* Any medium, any contents of the buffers, nothing queued.
Init ==
  /\ phase = [b \in Bufs |-> "idle"]
  /\ pos = 0

Spec == Init /\ [][Next]_vars
============================================================================
