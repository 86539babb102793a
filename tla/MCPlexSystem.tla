---------------------------- MODULE MCPlexSystem ----------------------------
(* A small machine for TLC: one disk of two sectors, the second one a partition. *)
EXTENDS PlexSystem

CONSTANTS bWrite, bAhead, bMissing    \* the guest's buffers

\* A write of the partition, a read-ahead of the whole disk, and a read of a unit
\* that is not there.
MCReq ==
  [ b \in {bWrite, bAhead, bMissing} |->
      [ cmd    |-> IF b = bWrite THEN "WRITE" ELSE "READ",
        ahead  |-> b = bAhead,
        unit   |-> IF b = bMissing THEN 1 ELSE 0,
        part   |-> b = bWrite,
        sector |-> 0,
        count  |-> IF b = bAhead THEN 2 ELSE 1 ] ]

MCRequests == { [aligned |-> TRUE, phyMem |-> 1, pages |-> 2, log |-> 3, cpu |-> 4] }
============================================================================
