------------------------------ MODULE CheckStop ------------------------------
(* `charly check stop <bed>` (candy/plugin-check/stop_cmd.go) beside the     *)
(* sessions: it finds the runner by the bed's lock file, asks with SIGTERM,  *)
(* polls, and kills whoever holds the lock at the deadline.                  *)
EXTENDS BedSession

CONSTANT StopBed   \* the bed the command names

ASSUME StopAssumption == StopBed \in Beds

VARIABLE stop   \* the command: where it is, the runs it found

allVars == <<vars, stop>>

StopInit ==
    /\ Init
    /\ stop = [at |-> "idle", seen |-> {}]

\* The runs of the bed that have its lock file open.
HoldersOf(b) == {r \in bedHeld : LockFile(r) = b}

HolderProcs(b) == {ProcOf[r] : r \in HoldersOf(b)}

\* No holder: nothing is in flight, the desired end state.
StopFindsNone ==
    /\ stop.at = "idle"
    /\ HoldersOf(StopBed) = {}
    /\ stop' = [stop EXCEPT !.at = "done"]
    /\ UNCHANGED vars

\* Mutation: reported as stopped once the signal is sent.
StopSignalsAndReturns ==
    /\ stop.at = "idle"
    /\ HoldersOf(StopBed) # {}
    /\ stop' = [stop EXCEPT !.at = "done", !.seen = HoldersOf(StopBed)]
    /\ UNCHANGED vars

StopSignals ==
    /\ stop.at = "idle"
    /\ HoldersOf(StopBed) # {}
    /\ stop' = [stop EXCEPT !.at = "polling", !.seen = HoldersOf(StopBed)]
    /\ UNCHANGED vars

\* The kill fails, on a holder that is gone by now or another user's, and so does the
\* command; the lock has one holder at a time, so nobody was signalled.
StopSignalFails ==
    /\ stop.at = "idle"
    /\ HoldersOf(StopBed) # {}
    /\ stop' = [stop EXCEPT !.at = "failed"]
    /\ UNCHANGED vars

\* The signalled process runs its shutdown hooks and re-raises, in its own time.
TermExits(p) ==
    /\ p \in {ProcOf[r] : r \in stop.seen}
    /\ Crash(p)
    /\ UNCHANGED stop

StopSeesExit ==
    /\ stop.at = "polling"
    /\ HoldersOf(StopBed) = {}
    /\ stop' = [stop EXCEPT !.at = "done"]
    /\ UNCHANGED vars

\* The grace period is over: SIGKILL to the holders of this moment, derived again.
StopEscalates ==
    /\ stop.at = "polling"
    /\ IF HolderProcs(StopBed) = {} THEN UNCHANGED vars
       ELSE \E p \in HolderProcs(StopBed) : Crash(p)
    /\ stop' = [stop EXCEPT !.at = "done"]

StopEscalationFails ==
    /\ stop.at = "polling"
    /\ HoldersOf(StopBed) # {}
    /\ stop' = [stop EXCEPT !.at = "failed"]
    /\ UNCHANGED vars

Stop ==
    \/ StopFindsNone \/ StopSignals \/ StopSignalFails
    \/ StopSeesExit \/ StopEscalates \/ StopEscalationFails
    \/ \E p \in Procs : TermExits(p)

StopNext == Stop \/ (Next /\ UNCHANGED stop)

StopSpec == StopInit /\ [][StopNext]_allVars

StopFairSpec == StopSpec /\ \A r \in Runs : WF_vars(Advance(r))

\* When the command reports success, the run it found no longer holds the bed, whether it obeyed,
\* ended by itself or had to be killed.
StopEndsTheRun == stop.at = "done" => stop.seen \cap bedHeld = {}

=============================================================================
