------------------------------ MODULE Captures ------------------------------
(***************************************************************************)
(* The capture sessions of a bed, over its consecutive runs                *)
(* (candy/plugin-check/session_service.go, session_seam.go, instrument.go).*)
(* A recorder is a detached process that outlives the call which started   *)
(* it; handle.json in the run's directory is the only record of it, and it *)
(* is written by the spawner, by the goroutine that reaps a setsid child   *)
(* and by whoever stops the session - through different handle structs, so *)
(* under different mutexes.  A write of the file truncates it first.       *)
(*                                                                         *)
(* A recorder is named by the run and the dispatch that spawned it.  The   *)
(* runs of one bed are serial (BedSession); the goroutines of a finished   *)
(* run may still be there, since its process may have other beds.          *)
(***************************************************************************)
EXTENDS Naturals, Sequences, FiniteSets

CONSTANTS
    Setups,      \* what the bed's document resolves to, and the host it runs on
    MaxRuns,     \* bound: the runs of the bed
    MaxCrashes   \* bound: how often the process is killed in a run

ASSUME CapturesAssumption == MaxRuns \in Nat /\ MaxCrashes \in Nat

\* The brackets of a session (Instruments!Dispatches) follow each other: its starts and its
\* stops take turns.
Alternates(plan) ==
    \A i, j \in DOMAIN plan :
        i < j /\ plan[i].session = plan[j].session /\ plan[i].op = plan[j].op =>
            \E k \in (i + 1)..(j - 1) :
                plan[k].session = plan[i].session /\ plan[k].op # plan[i].op

ASSUME SetupsAssumption ==
    \A s \in Setups :
        /\ Len(s.dispatches) \in Nat
        /\ DOMAIN s.dispatches = 1..Len(s.dispatches)
        /\ \A k \in DOMAIN s.dispatches : s.dispatches[k].op \in {"start", "stop"}
        /\ Alternates(s.dispatches)

VARIABLES
    setup,      \* the chosen member of Setups
    run,        \* the current run, 0 before the first
    pc,         \* where it is: "off", "sweep", "brackets", "final" or "ended"
    pos,        \* the next dispatch
    todo,       \* the handles a sweep or a finalizer has still to visit
    job,        \* the spawn or stop in progress
    disk,       \* the handle.json of each run and session
    up,         \* the recorders that are running
    units,      \* the recorders that are systemd units
    wedged,     \* the recorders that ignore every signal
    waiting,    \* the setsid recorders whose reaper waits for them
    marking,    \* the recorders whose reaper has truncated the handle
    segments,   \* the run's collected segments: dispatch and recorder of the handle read
    shadowed,   \* history: recorders spawned while an earlier one of the session had a reaper
    unrecorded, \* history: recorders that were up without a handle at a crash
    crashes     \* bound

goroutines == <<waiting, marking>>
history == <<shadowed, unrecorded, crashes>>
vars == <<setup, run, pc, pos, todo, job, disk, up, units, wedged, goroutines, segments, history>>

Plan == setup.dispatches
SessionsOf(s) == {s.dispatches[k].session : k \in DOMAIN s.dispatches}
Recorders == (1..MaxRuns) \X DOMAIN Plan
Keys == (1..MaxRuns) \X SessionsOf(setup)

\* sessionStateDir: one directory for each run and session.
KeyOf(r) == <<r[1], Plan[r[2]].session>>

NoRecorder == <<0, 0>>
Idle == [stage |-> "idle", rec |-> NoRecorder]
JobStages == {"idle", "spawned", "persisting", "undo", "stop", "mark", "marking", "collect"}
Handle(status, r) == [status |-> status, rec |-> r]
Blank == {Handle(s, NoRecorder) : s \in {"none", "torn"}}

TypeOK ==
    /\ setup \in Setups
    /\ run \in 0..MaxRuns
    /\ pc \in {"off", "sweep", "brackets", "final", "ended"}
    /\ pos \in 1..(Len(Plan) + 1)
    /\ todo \subseteq Keys
    /\ job \in [stage : JobStages, rec : Recorders \cup {NoRecorder}]
    /\ disk \in [Keys -> Blank \cup {Handle(s, r) : s \in {"active", "stopped"}, r \in Recorders}]
    /\ up \subseteq Recorders /\ units \subseteq Recorders /\ wedged \subseteq Recorders
    /\ waiting \subseteq Recorders \ units /\ marking \subseteq Recorders \ up
    /\ segments \subseteq Recorders \X (Recorders \cup {NoRecorder})
    /\ shadowed \subseteq Recorders /\ unrecorded \subseteq Recorders
    /\ crashes \in 0..MaxCrashes

Init ==
    /\ setup \in Setups
    /\ run = 0 /\ pc = "off" /\ pos = 1 /\ todo = {} /\ job = Idle
    /\ disk = [k \in Keys |-> Handle("none", NoRecorder)]
    /\ up = {} /\ units = {} /\ wedged = {} /\ waiting = {} /\ marking = {}
    /\ segments = {} /\ shadowed = {} /\ unrecorded = {} /\ crashes = 0

-----------------------------------------------------------------------------
(* The file                                                                *)

\* r's writer opens the file, which empties it.
Truncate(r) == disk' = [disk EXCEPT ![KeyOf(r)] = Handle("torn", NoRecorder)]

\* The handle of r is what the file says from now on.
Write(status, r) == disk' = [disk EXCEPT ![KeyOf(r)] = Handle(status, r)]

-----------------------------------------------------------------------------
(* The run: bedSetup has given it the bed, runCheckBed sweeps first        *)

\* Mutation: the sweep looks at the handles of the run that begins.
SweepOwnRun ==
    /\ pc \in {"off", "ended"}
    /\ run < MaxRuns
    /\ run' = run + 1 /\ pc' = "sweep" /\ pos' = 1
    /\ todo' = {k \in Keys : k[1] = run + 1}
    /\ segments' = {}
    /\ UNCHANGED <<setup, job, disk, up, units, wedged, goroutines, history>>

StartRun ==
    /\ pc \in {"off", "ended"}
    /\ run < MaxRuns
    /\ run' = run + 1 /\ pc' = "sweep" /\ pos' = 1
    /\ todo' = {k \in Keys : k[1] <= run}
    /\ segments' = {}
    /\ UNCHANGED <<setup, job, disk, up, units, wedged, goroutines, history>>

\* A handle that cannot be read or is not active is passed over.
Visit(k) ==
    /\ job = Idle
    /\ k \in todo
    /\ todo' = todo \ {k}
    /\ job' = IF disk[k].status = "active" THEN [stage |-> "stop", rec |-> disk[k].rec] ELSE Idle

Visited == <<setup, run, pc, pos, disk, up, units, wedged, goroutines, segments, history>>

SweepStaleSessions ==
    /\ pc = "sweep"
    /\ \E k \in todo : Visit(k)
    /\ UNCHANGED Visited

\* newInstrumentRuntime may refuse the document: no bracket, no finalizer.
SweepDone ==
    /\ pc = "sweep" /\ job = Idle /\ todo = {}
    /\ pc' = IF setup.refused THEN "ended" ELSE "brackets"
    /\ UNCHANGED <<setup, run, pos, todo, job, disk, up, units, wedged, goroutines, segments, history>>

\* Mutation: the finalizer visits what this run's passed brackets have left.
FinalizeSweepsOlder ==
    /\ pc' = "final"
    /\ job' = Idle
    /\ todo' = {k \in Keys : k[1] < run}

\* Every terminal path of the run leads here.
Finalize ==
    /\ pc' = "final"
    /\ job' = Idle
    /\ todo' = {k \in Keys : k[1] = run}

\* The plan is through, or something else in the run has failed.
BracketsOver ==
    /\ pc = "brackets" /\ job = Idle
    /\ Finalize
    /\ UNCHANGED <<setup, run, pos, disk, up, units, wedged, goroutines, segments, history>>

FinalizeSessionDir ==
    /\ pc = "final"
    /\ \E k \in todo : Visit(k)
    /\ UNCHANGED Visited

EndRun ==
    /\ pc = "final" /\ job = Idle /\ todo = {}
    /\ pc' = "ended"
    /\ UNCHANGED <<setup, run, pos, todo, job, disk, up, units, wedged, goroutines, segments, history>>

\* The process is killed: its goroutines are gone, the recorders are not.
Crash ==
    /\ pc \notin {"off", "ended"}
    /\ crashes < MaxCrashes
    /\ crashes' = crashes + 1
    /\ pc' = "off" /\ todo' = {} /\ job' = Idle
    /\ waiting' = {r \in waiting : r[1] # run}
    /\ marking' = {r \in marking : r[1] # run}
    /\ unrecorded' = unrecorded \cup
            (IF job.stage \in {"spawned", "persisting", "undo"} THEN {job.rec} ELSE {})
    /\ UNCHANGED <<setup, run, pos, disk, up, units, wedged, segments, shadowed>>

-----------------------------------------------------------------------------
(* spawnSession                                                            *)

Here == <<run, pos>>
Dispatching(op) ==
    /\ pc = "brackets" /\ job = Idle
    /\ pos <= Len(Plan) /\ Plan[pos].op = op

\* The state dir, the start or the pidfile fails: nothing is left running.
SpawnFails ==
    /\ Dispatching("start")
    /\ Finalize
    /\ UNCHANGED <<setup, run, pos, disk, up, units, wedged, goroutines, segments, history>>

\* A unit's name is the session's; a setsid child gets a reaper.
SpawnSystemdUnit ==
    /\ \A r \in units \cap up : KeyOf(r)[2] # Plan[pos].session
    /\ units' = units \cup {Here}
    /\ UNCHANGED waiting

SpawnSetsidProcess ==
    /\ waiting' = waiting \cup {Here}
    /\ UNCHANGED units

SpawnSession ==
    /\ Dispatching("start")
    /\ \/ "systemd" \in setup.transports /\ SpawnSystemdUnit
       \/ "setsid" \in setup.transports /\ SpawnSetsidProcess
    /\ up' = up \cup {Here}
    /\ job' = [stage |-> "spawned", rec |-> Here]
    /\ shadowed' = shadowed \cup
            {r \in {Here} : \E q \in waiting \cup marking : KeyOf(q) = KeyOf(r)}
    /\ UNCHANGED <<setup, run, pc, pos, todo, disk, wedged, marking, segments, unrecorded, crashes>>

\* writeSessionHandle, under the mutex of the handle its reaper shares.
WriteSessionHandle ==
    /\ job.stage = "spawned"
    /\ job.rec \notin marking
    /\ Truncate(job.rec)
    /\ job' = [job EXCEPT !.stage = "persisting"]
    /\ UNCHANGED <<setup, run, pc, pos, todo, up, units, wedged, goroutines, segments, history>>

\* A recorder that its reaper has seen exit is recorded as stopped.
HandleWritten ==
    /\ job.stage = "persisting"
    /\ Write(IF job.rec \in units \cup waiting THEN "active" ELSE "stopped", job.rec)
    /\ job' = Idle
    /\ pos' = pos + 1
    /\ UNCHANGED <<setup, run, pc, todo, up, units, wedged, goroutines, segments, history>>

\* A handle that cannot be persisted is stopped again.
PersistFails ==
    /\ job.stage = "spawned"
    /\ job' = [job EXCEPT !.stage = "undo"]
    /\ UNCHANGED <<setup, run, pc, pos, todo, disk, up, units, wedged, goroutines, segments, history>>

\* The disk that refused the handle refuses its mark.
UndoSpawn ==
    /\ job.stage = "undo"
    /\ up' = IF job.rec \in wedged THEN up ELSE up \ {job.rec}
    /\ Finalize
    /\ unrecorded' = unrecorded \cup {job.rec}
    /\ UNCHANGED <<setup, run, pos, disk, units, wedged, goroutines, segments, shadowed, crashes>>

-----------------------------------------------------------------------------
(* dispatchSessionSeam's stop and stopSession                              *)

SeamStop ==
    /\ Dispatching("stop")
    /\ LET h == disk[<<run, Plan[pos].session>>]
       IN  CASE h.status = "active"  -> job' = [stage |-> "stop", rec |-> h.rec] /\ UNCHANGED <<pc, todo>>
             [] h.status = "stopped" -> job' = [stage |-> "collect", rec |-> h.rec] /\ UNCHANGED <<pc, todo>>
             [] OTHER                -> Finalize
    /\ UNCHANGED <<setup, run, pos, disk, up, units, wedged, goroutines, segments, history>>

\* systemctl stop, or TERM and KILL to the process group: the recorder is down.
StopAnswered ==
    /\ job.stage = "stop"
    /\ job.rec \notin up \cap wedged
    /\ up' = up \ {job.rec}
    /\ job' = [job EXCEPT !.stage = "mark"]
    /\ UNCHANGED <<setup, run, pc, pos, todo, disk, units, wedged, goroutines, segments, history>>

\* Mutation: only a stop that was answered comes back.
NeverGivesUp ==
    /\ job.stage = "stop"
    /\ job.rec \notin up
    /\ job' = [job EXCEPT !.stage = "mark"]
    /\ UNCHANGED <<setup, run, pc, pos, todo, disk, up, units, wedged, goroutines, segments, history>>

\* sessionStopTimeout or the two shutdown graces are over; the handle is marked all the same.
StopGivesUp ==
    /\ job.stage = "stop"
    /\ job.rec \in up \cap wedged
    /\ job' = [job EXCEPT !.stage = "mark"]
    /\ UNCHANGED <<setup, run, pc, pos, todo, disk, up, units, wedged, goroutines, segments, history>>

MarkStopped ==
    /\ job.stage = "mark"
    /\ Truncate(job.rec)
    /\ job' = [job EXCEPT !.stage = "marking"]
    /\ UNCHANGED <<setup, run, pc, pos, todo, up, units, wedged, goroutines, segments, history>>

\* Mutation: the mark of a stop is not persisted.
MarkKeptInMemory ==
    /\ job.stage = "marking"
    /\ Write("active", job.rec)
    /\ job' = IF pc = "brackets" THEN [job EXCEPT !.stage = "collect"] ELSE Idle
    /\ UNCHANGED <<setup, run, pc, pos, todo, up, units, wedged, goroutines, segments, history>>

MarkedStopped ==
    /\ job.stage = "marking"
    /\ Write("stopped", job.rec)
    /\ job' = IF pc = "brackets" THEN [job EXCEPT !.stage = "collect"] ELSE Idle
    /\ UNCHANGED <<setup, run, pc, pos, todo, up, units, wedged, goroutines, segments, history>>

\* Mutation: the segment is taken from whatever run wrote the session's handle last.
CollectLatest ==
    /\ job.stage = "collect"
    /\ \E k \in Keys : /\ k[2] = Plan[pos].session
                       /\ segments' = segments \cup {<<Here, disk[k].rec>>}
    /\ pos' = pos + 1
    /\ job' = Idle
    /\ UNCHANGED <<setup, run, pc, todo, disk, up, units, wedged, goroutines, history>>

\* collectSegment reads the handle again; without one the segment has no span.
CollectSegment ==
    /\ job.stage = "collect"
    /\ segments' = segments \cup {<<Here, disk[<<run, Plan[pos].session>>].rec>>}
    /\ pos' = pos + 1
    /\ job' = Idle
    /\ UNCHANGED <<setup, run, pc, todo, disk, up, units, wedged, goroutines, history>>

-----------------------------------------------------------------------------
(* The recorders and their reapers                                         *)

RecorderExits ==
    /\ \E r \in up : up' = up \ {r}
    /\ UNCHANGED <<setup, run, pc, pos, todo, job, disk, units, wedged, goroutines, segments, history>>

RecorderWedges ==
    /\ setup.mayWedge
    /\ \E r \in up : wedged' = wedged \cup {r}
    /\ UNCHANGED <<setup, run, pc, pos, todo, job, disk, up, units, goroutines, segments, history>>

\* cmd.Wait has returned; markStopped waits for a spawner that holds the handle's mutex.
ReaperMarks ==
    /\ \E r \in waiting \ up :
        /\ ~(job.stage = "persisting" /\ job.rec = r)
        /\ Truncate(r)
        /\ waiting' = waiting \ {r}
        /\ marking' = marking \cup {r}
    /\ UNCHANGED <<setup, run, pc, pos, todo, job, up, units, wedged, segments, history>>

ReaperMarked ==
    /\ \E r \in marking :
        /\ Write("stopped", r)
        /\ marking' = marking \ {r}
    /\ UNCHANGED <<setup, run, pc, pos, todo, job, up, units, wedged, waiting, segments, history>>

-----------------------------------------------------------------------------

\* What the runner does by itself.
Runner ==
    \/ SweepStaleSessions \/ SweepDone \/ BracketsOver \/ FinalizeSessionDir \/ EndRun
    \/ SpawnFails \/ SpawnSession \/ WriteSessionHandle \/ HandleWritten \/ PersistFails \/ UndoSpawn
    \/ SeamStop \/ StopAnswered \/ StopGivesUp \/ MarkStopped \/ MarkedStopped \/ CollectSegment

Next == StartRun \/ Runner \/ Crash \/ RecorderExits \/ RecorderWedges \/ ReaperMarks \/ ReaperMarked

Spec == Init /\ [][Next]_vars

\* A run goes on as long as it can; no goroutine and no recorder owes it anything but a
\* reaper that has begun to write, whose mutex a spawner may wait for.
FairSpec == Spec /\ WF_vars(Runner) /\ WF_vars(ReaperMarked)

-----------------------------------------------------------------------------

\* What explains that a recorder is still up: it ignored its stop, it never had a handle,
\* or the late reaper of its session's earlier recorder could write over it.
Excused(r) == r \in wedged \cup unrecorded \cup shadowed

\* The finalizer leaves no recorder of its run behind, on any terminal path, whatever the
\* reapers write meanwhile (session_service.go:490).
FinalizerLeavesNothing ==
    pc = "ended" => \A r \in up : r[1] = run => Excused(r)

\* A run begins its brackets with every recorder of a crashed run reaped, by the handles on
\* disk alone (session_service.go:21).
SweepRecovers ==
    pc = "brackets" => \A r \in up : r[1] < run => Excused(r)

\* A run that ended by itself leaves no handle that a later sweep would signal: by then the
\* pid may be someone else's (session_service.go:424).
EndedRunsStayClosed ==
    pc = "ended" => \A k \in Keys : k[1] = run => disk[k].status # "active"

\* r was spawned by the start that the stop s ends.
StartOf(r, s) ==
    /\ r[1] = s[1] /\ r[2] < s[2]
    /\ Plan[r[2]].session = Plan[s[2]].session
    /\ \A k \in (r[2] + 1)..(s[2] - 1) : Plan[k].session # Plan[s[2]].session

\* The segment of a stop carries the span of the recorder its bracket started; one of a
\* setsid recorder may carry none, and another recorder's only when that one's reaper was
\* still to write (evidence.go:52, "start/stop are the session handle span").
SegmentsHonest ==
    \A seg \in segments :
        \/ StartOf(seg[2], seg[1])
        \/ seg[2] = NoRecorder /\ "setsid" \in setup.transports
        \/ \E r \in shadowed : StartOf(r, seg[1])

\* Captures never hold a run up: a stop is bounded also for a recorder that ignores it.
RunsEnd == pc # "off" ~> pc \in {"off", "ended"}

=============================================================================
