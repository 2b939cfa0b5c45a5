---------------------------- MODULE RecentEvents ----------------------------
(***************************************************************************)
(* What the event list of the terminal interface promises: the events of   *)
(* the session, oldest first, of which the last Capacity are kept.         *)
(***************************************************************************)
EXTENDS Integers, Sequences

CONSTANTS Capacity, Events

VARIABLE recent

\* The last Capacity elements of s
Keep(s) == IF Len(s) > Capacity THEN SubSeq(s, Len(s) - Capacity + 1, Len(s)) ELSE s

RecentInit == recent = <<>>

Clear == recent' = <<>>

Log(e) == recent' = Keep(Append(recent, e))

RecentNext == Clear \/ \E e \in Events : Log(e)

RecentSpec == RecentInit /\ [][RecentNext]_recent
=============================================================================
