------------------------ MODULE LeastRecentlyPinned ------------------------
(***************************************************************************)
(* What the pin queue promises (comment at monitor.h:393-399): at most     *)
(* Capacity pages are pinned, and when one more is needed "the page which  *)
(* was pinned the longest time ago is unpinned to make room".              *)
(***************************************************************************)
EXTENDS Naturals, Sequences

CONSTANTS Pages, Capacity

VARIABLES vm, order   \* order: the pinned pages, longest pinned first

Held == {order[i] : i \in 1 .. Len(order)}

\* The pages kept while one more is pinned.
MakeRoom == IF Len(order) < Capacity THEN order ELSE Tail(order)

Init == vm = "Down" /\ order = <<>>

Pin(p) ==
  /\ vm = "Ready" /\ p \notin Held
  /\ order' = Append(MakeRoom, p)
  /\ UNCHANGED vm

PinFails == vm = "Ready" /\ vm' = "Panic" /\ order' = MakeRoom

\* The VM panics over something else.
Panics == vm = "Ready" /\ vm' = "Panic" /\ UNCHANGED order

Release == vm \in {"Ready", "Panic"} /\ vm' = "Down" /\ order' = <<>>

Setup == vm = "Down" /\ vm' = "Ready" /\ UNCHANGED order

Next == (\E p \in Pages : Pin(p)) \/ PinFails \/ Panics \/ Release \/ Setup

Spec == Init /\ [][Next]_<<vm, order>>
============================================================================
