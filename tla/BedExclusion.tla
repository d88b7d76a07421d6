---------------------------- MODULE BedExclusion ----------------------------
(* What the session of a check bed promises: runs that would collide on the  *)
(* host (the same bed, a shared VM domain, a shared resource token) are      *)
(* never in their bodies at the same time, in whatever process each one is.  *)
CONSTANTS Runs, Conflict

VARIABLE running

Init == running = {}

Enter(r) ==
    /\ r \notin running
    /\ \A q \in running : <<q, r>> \notin Conflict
    /\ running' = running \cup {r}

\* A run ends, or a process dies with all of its runs.
Leave == \E gone \in SUBSET running : running' = running \ gone

Next == Leave \/ \E r \in Runs : Enter(r)

Spec == Init /\ [][Next]_running
=============================================================================
