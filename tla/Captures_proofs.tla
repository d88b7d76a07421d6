--------------------------- MODULE Captures_proofs ---------------------------
(***************************************************************************)
(* The recorders of a bed for any document, any number of runs and of      *)
(* crashes: what the finalizer and the sweep leave behind, by the handles  *)
(* on disk alone.  IInv is inductive; its parts are proved one after the   *)
(* other, each from those before it.                                       *)
(***************************************************************************)
EXTENDS Captures, TLAPS

\* The stages of a spawn and of a stop.
Spawning == {"spawned", "persisting", "undo"}
Stopping == {"stop", "mark", "marking", "collect"}

Statuses == {"none", "torn", "active", "stopped"}

\* A recorder was spawned by an earlier dispatch, or by the one in progress.
Past(r) ==
    \/ r[1] < run
    \/ r[1] = run /\ r[2] < pos
    \/ r[1] = run /\ r[2] = pos /\ (pc \in {"final", "ended", "off"} \/ job.stage \in Spawning)

\* Where the run is.
PlaceTypes ==
    /\ setup \in Setups
    /\ run \in 0..MaxRuns
    /\ pc \in {"off", "sweep", "brackets", "final", "ended"}
    /\ pos \in 1..(Len(Plan) + 1)
    /\ pc \notin {"off", "ended"} => run \in 1..MaxRuns
    /\ pc = "sweep" => pos = 1
    /\ todo \subseteq Keys

\* The recorders and their goroutines.
RecorderTypes ==
    /\ up \subseteq Recorders /\ units \subseteq Recorders
    /\ waiting \subseteq Recorders /\ marking \subseteq Recorders
    /\ marking \cap up = {}
    /\ \A r \in up \cup units \cup waiting \cup marking : Past(r)

\* A handle is about the recorder it was written for.
HandleTypes ==
    /\ disk \in [Keys -> [status : Statuses, rec : Recorders \cup {NoRecorder}]]
    /\ \A k \in Keys :
          \/ disk[k].status \in {"none", "torn"}
          \/ disk[k].rec \in Recorders /\ KeyOf(disk[k].rec) = k /\ Past(disk[k].rec)

\* The spawn or stop in progress belongs to the dispatch, or to the visit of a handle.
JobTypes ==
    /\ job \in [stage : JobStages, rec : Recorders \cup {NoRecorder}]
    /\ job.stage = "idle" => job = Idle
    /\ job.stage # "idle" =>
          job.rec \in Recorders /\ Past(job.rec) /\ pc \in {"sweep", "brackets", "final"}
    /\ job.stage \in Spawning =>
          /\ pc = "brackets" /\ pos <= Len(Plan)
          /\ job.rec = Here /\ Plan[pos].op = "start"
          /\ job.rec \in up => job.rec \in units \cup waiting
    /\ job.stage \in Stopping /\ pc = "brackets" =>
          /\ pos <= Len(Plan) /\ Plan[pos].op = "stop"
          /\ KeyOf(job.rec) = <<run, Plan[pos].session>>
    /\ job.stage = "collect" => pc = "brackets"

Types == PlaceTypes /\ RecorderTypes /\ HandleTypes /\ JobTypes

\* A recorder that is up was spawned by a start; in the brackets of its run no stop of its
\* session has passed since, unless that is excused.
StopBehind(r) ==
    \E k \in DOMAIN Plan :
        /\ r[2] < k /\ k < pos
        /\ Plan[k].op = "stop" /\ Plan[k].session = Plan[r[2]].session

StartedInv ==
    \A r \in up :
        /\ Plan[r[2]].op = "start"
        /\ pc = "brackets" /\ r[1] = run /\ StopBehind(r) => Excused(r)

\* No other reaper writes the handle of a recorder that is up.
ReaperInv ==
    \A r \in up : \A q \in waiting \cup marking :
        q # r /\ KeyOf(q) = KeyOf(r) => Excused(r)

\* The handle on disk names the recorder that is up, once its spawn is over.
RecordedInv ==
    \A r \in up :
        \/ Excused(r)
        \/ job.stage \in Spawning /\ job.rec = r
        \/ disk[KeyOf(r)].status = "active" /\ disk[KeyOf(r)].rec = r

\* A stop in progress is the stop of every recorder of its session that is still up.
StopInv ==
    job.stage \in Stopping =>
        \A r \in up :
            KeyOf(r) = KeyOf(job.rec) =>
                Excused(r) \/ (job.stage = "stop" /\ job.rec = r)

\* Who may write the handle of q: the job in progress, or the reaper of q once q is down.
Writer(q) ==
    \/ q = job.rec /\ job.stage \in {"spawned", "persisting", "mark", "marking"}
    \/ q \in waiting \cup marking /\ q \notin up

\* The sweep and the finalizer still have to visit what is up.
ToVisit(r) == KeyOf(r) \in todo \/ (job.stage = "stop" /\ job.rec = r)

VisitInv ==
    \A r \in up :
        \/ Excused(r)
        \/ /\ pc = "sweep" => ToVisit(r)
           /\ pc = "brackets" => r[1] = run
           /\ pc = "final" => r[1] = run /\ ToVisit(r)
           /\ pc # "ended"

ClosedInv ==
    \A k \in Keys :
        k[1] = run /\ disk[k].status = "active" =>
            /\ pc = "final" =>
                  k \in todo \/ (job.stage \in {"stop", "mark"} /\ KeyOf(job.rec) = k)
            /\ pc # "ended"

\* c has opened the bracket of its session that is open where the run stands.
Opens(c) ==
    /\ c < pos /\ Plan[c].op = "start"
    /\ \A k \in (c + 1)..(pos - 1) : Plan[k].session # Plan[c].session

\* The handle of the bracket names its recorder, or is torn; so does the stop in progress.
Named(c) ==
    /\ \/ disk[KeyOf(<<run, c>>)].rec = <<run, c>>
       \/ /\ disk[KeyOf(<<run, c>>)].rec = NoRecorder
          /\ \/ job.stage = "marking" /\ job.rec = <<run, c>>
             \/ "setsid" \in setup.transports
    /\ job.stage \in {"stop", "mark", "marking"} /\ KeyOf(job.rec) = KeyOf(<<run, c>>)
          => job.rec = <<run, c>>

\* Where it may not, a late reaper was there when that recorder was spawned.
OpenInv ==
    pc = "brackets" =>
        \A c \in DOMAIN Plan : Opens(c) => <<run, c>> \in shadowed \/ Named(c)

\* A reaper that is still there when its session starts again shadows the new recorder.
LateInv ==
    pc = "brackets" =>
        \A q \in waiting \cup marking : \A c \in DOMAIN Plan :
            /\ KeyOf(q) = KeyOf(<<run, c>>) /\ q[2] < c /\ Plan[c].op = "start"
            /\ c < pos \/ (c = pos /\ job.stage \in Spawning)
            => <<run, c>> \in shadowed

\* The bracket of a session that the run has passed last.
LatestInv ==
    pc = "brackets" =>
        \A k \in DOMAIN Plan :
            k < pos =>
                \E c \in DOMAIN Plan :
                    /\ c < pos /\ Plan[c].session = Plan[k].session
                    /\ \A j \in (c + 1)..(pos - 1) : Plan[j].session # Plan[k].session

\* Only setsid recorders have a reaper.
SetsidInv == waiting \cup marking # {} => "setsid" \in setup.transports

SegmentInv == LatestInv /\ SetsidInv /\ LateInv /\ OpenInv /\ SegmentsHonest

IInv ==
    /\ Types /\ StartedInv /\ ReaperInv /\ RecordedInv /\ StopInv /\ VisitInv /\ ClosedInv
    /\ SegmentInv

-----------------------------------------------------------------------------
(* Recorders and keys *)

\* What a handle, a key and a pair are made of.
LEMMA Shapes ==
    ASSUME PlaceTypes
    PROVE  /\ DOMAIN Plan = 1..Len(Plan) /\ Len(Plan) \in Nat
           /\ \A r \in Recorders :
                 /\ r[1] \in 1..MaxRuns /\ r[2] \in 1..Len(Plan) /\ r = <<r[1], r[2]>>
                 /\ r # NoRecorder
                 /\ KeyOf(r) \in Keys /\ KeyOf(r)[1] = r[1]
           /\ \A k \in 1..Len(Plan) :
                 <<run, Plan[k].session>> \in Keys \/ run = 0
           /\ run \in 1..MaxRuns /\ pos <= Len(Plan) => Here \in Recorders
PROOF
<1>1. setup \in Setups /\ run \in 0..MaxRuns /\ pos \in 1..(Len(Plan) + 1)
  BY DEF PlaceTypes
<1>2. DOMAIN Plan = 1..Len(Plan) /\ Len(Plan) \in Nat /\ MaxRuns \in Nat
  BY <1>1, SetupsAssumption, CapturesAssumption DEF Plan
<1>3. ASSUME NEW r \in Recorders
      PROVE  /\ r[1] \in 1..MaxRuns /\ r[2] \in 1..Len(Plan) /\ r = <<r[1], r[2]>>
             /\ r # NoRecorder
             /\ KeyOf(r) \in Keys /\ KeyOf(r)[1] = r[1]
  <2>1. r[1] \in 1..MaxRuns /\ r[2] \in DOMAIN Plan /\ r = <<r[1], r[2]>>
    BY DEF Recorders
  <2>2. r # NoRecorder
    BY <2>1, <1>2 DEF NoRecorder
  <2>3. Plan[r[2]].session \in SessionsOf(setup)
    BY <2>1 DEF SessionsOf, Plan
  <2>4. QED BY <2>1, <2>2, <2>3, <1>2 DEF KeyOf, Keys
<1>4. ASSUME NEW k \in 1..Len(Plan), run # 0
      PROVE  <<run, Plan[k].session>> \in Keys
  <2>1. Plan[k].session \in SessionsOf(setup)
    BY <1>2 DEF SessionsOf, Plan
  <2>2. QED BY <2>1, <1>1, <1>2, <1>4 DEF Keys
<1>5. run \in 1..MaxRuns /\ pos <= Len(Plan) => Here \in Recorders
  BY <1>1, <1>2 DEF Here, Recorders
<1>6. QED BY <1>2, <1>3, <1>4, <1>5

-----------------------------------------------------------------------------
(* Types *)

\* The document of the project is not written to.
LEMMA SetupStays ==
    ASSUME Next
    PROVE  setup' = setup
PROOF
<1>1. CASE StartRun
  BY <1>1 DEF goroutines, history, StartRun
<1>2. CASE SweepStaleSessions
  BY <1>2 DEF goroutines, history, SweepStaleSessions, Visit, Visited
<1>3. CASE SweepDone
  BY <1>3 DEF goroutines, history, SweepDone
<1>4. CASE BracketsOver
  BY <1>4 DEF goroutines, history, BracketsOver, Finalize
<1>5. CASE FinalizeSessionDir
  BY <1>5 DEF goroutines, history, FinalizeSessionDir, Visit, Visited
<1>6. CASE EndRun
  BY <1>6 DEF goroutines, history, EndRun
<1>7. CASE SpawnFails
  BY <1>7 DEF goroutines, history, SpawnFails, Finalize, Dispatching
<1>8. CASE SpawnSession
  BY <1>8
     DEF goroutines, history, SpawnSession, Dispatching, SpawnSystemdUnit, SpawnSetsidProcess
<1>9. CASE WriteSessionHandle
  BY <1>9 DEF goroutines, history, WriteSessionHandle, Truncate
<1>10. CASE HandleWritten
  BY <1>10 DEF goroutines, history, HandleWritten, Write
<1>11. CASE PersistFails
  BY <1>11 DEF goroutines, history, PersistFails
<1>12. CASE UndoSpawn
  BY <1>12 DEF goroutines, history, UndoSpawn, Finalize
<1>13. CASE SeamStop
  BY <1>13 DEF goroutines, history, SeamStop, Dispatching, Finalize
<1>14. CASE StopAnswered
  BY <1>14 DEF goroutines, history, StopAnswered
<1>15. CASE StopGivesUp
  BY <1>15 DEF goroutines, history, StopGivesUp
<1>16. CASE MarkStopped
  BY <1>16 DEF goroutines, history, MarkStopped, Truncate
<1>17. CASE MarkedStopped
  BY <1>17 DEF goroutines, history, MarkedStopped, Write
<1>18. CASE CollectSegment
  BY <1>18 DEF goroutines, history, CollectSegment
<1>19. CASE Crash
  BY <1>19 DEF goroutines, history, Crash
<1>20. CASE RecorderExits
  BY <1>20 DEF goroutines, history, RecorderExits
<1>21. CASE RecorderWedges
  BY <1>21 DEF goroutines, history, RecorderWedges
<1>22. CASE ReaperMarks
  BY <1>22 DEF goroutines, history, ReaperMarks, Truncate
<1>23. CASE ReaperMarked
  BY <1>23 DEF goroutines, history, ReaperMarked, Write
<1>24. QED
  BY <1>1, <1>2, <1>3, <1>4, <1>5, <1>6, <1>7, <1>8, <1>9, <1>10, <1>11, <1>12, <1>13, <1>14,
     <1>15, <1>16, <1>17, <1>18, <1>19, <1>20, <1>21, <1>22, <1>23
     DEF Next, Runner

\* So the plan, the keys and the recorders keep their names in every step.
LEMMA NamesStay ==
    ASSUME Next
    PROVE  /\ Plan' = Plan /\ Keys' = Keys /\ Recorders' = Recorders
           /\ \A r : KeyOf(r)' = KeyOf(r)
  BY SetupStays DEF Plan, Keys, Recorders, KeyOf

\* The place of the run keeps its types.
LEMMA PlaceStep ==
    ASSUME Types, Next
    PROVE  PlaceTypes'
PROOF
<1>1. CASE StartRun
  BY <1>1, NamesStay, SetupStays, CapturesAssumption
     DEF PlaceTypes, Types, goroutines, history, Here, StartRun
<1>2. CASE SweepStaleSessions
  BY <1>2, NamesStay, SetupStays, CapturesAssumption
     DEF PlaceTypes, Types, goroutines, history, Here, SweepStaleSessions, Visit, Visited
<1>3. CASE SweepDone
  BY <1>3, NamesStay, SetupStays, CapturesAssumption
     DEF PlaceTypes, Types, goroutines, history, Here, SweepDone
<1>4. CASE BracketsOver
  BY <1>4, NamesStay, SetupStays, CapturesAssumption
     DEF PlaceTypes, Types, goroutines, history, Here, BracketsOver, Finalize
<1>5. CASE FinalizeSessionDir
  BY <1>5, NamesStay, SetupStays, CapturesAssumption
     DEF PlaceTypes, Types, goroutines, history, Here, FinalizeSessionDir, Visit, Visited
<1>6. CASE EndRun
  BY <1>6, NamesStay, SetupStays, CapturesAssumption
     DEF PlaceTypes, Types, goroutines, history, Here, EndRun
<1>7. CASE SpawnFails
  BY <1>7, NamesStay, SetupStays, CapturesAssumption
     DEF PlaceTypes, Types, goroutines, history, Here, SpawnFails, Finalize, Dispatching
<1>8. CASE SpawnSession
  BY <1>8, NamesStay, SetupStays, CapturesAssumption
     DEF PlaceTypes, Types, goroutines, history, Here, SpawnSession, Dispatching,
         SpawnSystemdUnit, SpawnSetsidProcess
<1>9. CASE WriteSessionHandle
  BY <1>9, NamesStay, SetupStays, CapturesAssumption
     DEF PlaceTypes, Types, goroutines, history, Here, WriteSessionHandle, Truncate
<1>10. CASE HandleWritten
  BY <1>10, NamesStay, SetupStays, CapturesAssumption, Shapes
     DEF PlaceTypes, Types, goroutines, history, Here, HandleWritten, Write, JobTypes, Spawning
<1>11. CASE PersistFails
  BY <1>11, NamesStay, SetupStays, CapturesAssumption
     DEF PlaceTypes, Types, goroutines, history, Here, PersistFails
<1>12. CASE UndoSpawn
  BY <1>12, NamesStay, SetupStays, CapturesAssumption
     DEF PlaceTypes, Types, goroutines, history, Here, UndoSpawn, Finalize, JobTypes, Spawning
<1>13. CASE SeamStop
  BY <1>13, NamesStay, SetupStays, CapturesAssumption
     DEF PlaceTypes, Types, goroutines, history, Here, SeamStop, Dispatching, Finalize
<1>14. CASE StopAnswered
  BY <1>14, NamesStay, SetupStays, CapturesAssumption
     DEF PlaceTypes, Types, goroutines, history, Here, StopAnswered
<1>15. CASE StopGivesUp
  BY <1>15, NamesStay, SetupStays, CapturesAssumption
     DEF PlaceTypes, Types, goroutines, history, Here, StopGivesUp
<1>16. CASE MarkStopped
  BY <1>16, NamesStay, SetupStays, CapturesAssumption
     DEF PlaceTypes, Types, goroutines, history, Here, MarkStopped, Truncate
<1>17. CASE MarkedStopped
  BY <1>17, NamesStay, SetupStays, CapturesAssumption
     DEF PlaceTypes, Types, goroutines, history, Here, MarkedStopped, Write
<1>18. CASE CollectSegment
  BY <1>18, NamesStay, SetupStays, CapturesAssumption, Shapes
     DEF PlaceTypes, Types, goroutines, history, Here, CollectSegment, JobTypes, Stopping
<1>19. CASE Crash
  BY <1>19, NamesStay, SetupStays, CapturesAssumption
     DEF PlaceTypes, Types, goroutines, history, Here, Crash
<1>20. CASE RecorderExits
  BY <1>20, NamesStay, SetupStays, CapturesAssumption
     DEF PlaceTypes, Types, goroutines, history, Here, RecorderExits
<1>21. CASE RecorderWedges
  BY <1>21, NamesStay, SetupStays, CapturesAssumption
     DEF PlaceTypes, Types, goroutines, history, Here, RecorderWedges
<1>22. CASE ReaperMarks
  BY <1>22, NamesStay, SetupStays, CapturesAssumption
     DEF PlaceTypes, Types, goroutines, history, Here, ReaperMarks, Truncate
<1>23. CASE ReaperMarked
  BY <1>23, NamesStay, SetupStays, CapturesAssumption
     DEF PlaceTypes, Types, goroutines, history, Here, ReaperMarked, Write
<1>24. QED
  BY <1>1, <1>2, <1>3, <1>4, <1>5, <1>6, <1>7, <1>8, <1>9, <1>10, <1>11, <1>12, <1>13, <1>14,
     <1>15, <1>16, <1>17, <1>18, <1>19, <1>20, <1>21, <1>22, <1>23
     DEF Next, Runner

\* A recorder of the past stays one: runs and positions only go forward.
LEMMA PastStays ==
    ASSUME Types, Next, NEW r \in Recorders, Past(r)
    PROVE  Past(r)'
PROOF
<1>1. CASE StartRun
  BY <1>1, Shapes
     DEF Types, PlaceTypes, JobTypes, JobStages, Past, Spawning, Stopping, Idle, Here,
         goroutines, history, StartRun
<1>2. CASE SweepStaleSessions
  BY <1>2
     DEF Types, PlaceTypes, JobTypes, JobStages, Past, Spawning, Stopping, Idle, Here,
         goroutines, history, SweepStaleSessions, Visit, Visited
<1>3. CASE SweepDone
  BY <1>3
     DEF Types, PlaceTypes, JobTypes, JobStages, Past, Spawning, Stopping, Idle, Here,
         goroutines, history, SweepDone
<1>4. CASE BracketsOver
  BY <1>4
     DEF Types, PlaceTypes, JobTypes, JobStages, Past, Spawning, Stopping, Idle, Here,
         goroutines, history, BracketsOver, Finalize
<1>5. CASE FinalizeSessionDir
  BY <1>5
     DEF Types, PlaceTypes, JobTypes, JobStages, Past, Spawning, Stopping, Idle, Here,
         goroutines, history, FinalizeSessionDir, Visit, Visited
<1>6. CASE EndRun
  BY <1>6
     DEF Types, PlaceTypes, JobTypes, JobStages, Past, Spawning, Stopping, Idle, Here,
         goroutines, history, EndRun
<1>7. CASE SpawnFails
  BY <1>7
     DEF Types, PlaceTypes, JobTypes, JobStages, Past, Spawning, Stopping, Idle, Here,
         goroutines, history, SpawnFails, Finalize, Dispatching
<1>8. CASE SpawnSession
  BY <1>8
     DEF Types, PlaceTypes, JobTypes, JobStages, Past, Spawning, Stopping, Idle, Here,
         goroutines, history, SpawnSession, Dispatching, SpawnSystemdUnit, SpawnSetsidProcess
<1>9. CASE WriteSessionHandle
  BY <1>9
     DEF Types, PlaceTypes, JobTypes, JobStages, Past, Spawning, Stopping, Idle, Here,
         goroutines, history, WriteSessionHandle, Truncate
<1>10. CASE HandleWritten
  BY <1>10, Shapes
     DEF Types, PlaceTypes, JobTypes, JobStages, Past, Spawning, Stopping, Idle, Here,
         goroutines, history, HandleWritten, Write
<1>11. CASE PersistFails
  BY <1>11
     DEF Types, PlaceTypes, JobTypes, JobStages, Past, Spawning, Stopping, Idle, Here,
         goroutines, history, PersistFails
<1>12. CASE UndoSpawn
  BY <1>12
     DEF Types, PlaceTypes, JobTypes, JobStages, Past, Spawning, Stopping, Idle, Here,
         goroutines, history, UndoSpawn, Finalize
<1>13. CASE SeamStop
  BY <1>13
     DEF Types, PlaceTypes, JobTypes, JobStages, Past, Spawning, Stopping, Idle, Here,
         goroutines, history, SeamStop, Dispatching, Finalize
<1>14. CASE StopAnswered
  BY <1>14
     DEF Types, PlaceTypes, JobTypes, JobStages, Past, Spawning, Stopping, Idle, Here,
         goroutines, history, StopAnswered
<1>15. CASE StopGivesUp
  BY <1>15
     DEF Types, PlaceTypes, JobTypes, JobStages, Past, Spawning, Stopping, Idle, Here,
         goroutines, history, StopGivesUp
<1>16. CASE MarkStopped
  BY <1>16
     DEF Types, PlaceTypes, JobTypes, JobStages, Past, Spawning, Stopping, Idle, Here,
         goroutines, history, MarkStopped, Truncate
<1>17. CASE MarkedStopped
  BY <1>17
     DEF Types, PlaceTypes, JobTypes, JobStages, Past, Spawning, Stopping, Idle, Here,
         goroutines, history, MarkedStopped, Write
<1>18. CASE CollectSegment
  BY <1>18, Shapes
     DEF Types, PlaceTypes, JobTypes, JobStages, Past, Spawning, Stopping, Idle, Here,
         goroutines, history, CollectSegment
<1>19. CASE Crash
  BY <1>19
     DEF Types, PlaceTypes, JobTypes, JobStages, Past, Spawning, Stopping, Idle, Here,
         goroutines, history, Crash
<1>20. CASE RecorderExits
  BY <1>20
     DEF Types, PlaceTypes, JobTypes, JobStages, Past, Spawning, Stopping, Idle, Here,
         goroutines, history, RecorderExits
<1>21. CASE RecorderWedges
  BY <1>21
     DEF Types, PlaceTypes, JobTypes, JobStages, Past, Spawning, Stopping, Idle, Here,
         goroutines, history, RecorderWedges
<1>22. CASE ReaperMarks
  BY <1>22
     DEF Types, PlaceTypes, JobTypes, JobStages, Past, Spawning, Stopping, Idle, Here,
         goroutines, history, ReaperMarks, Truncate
<1>23. CASE ReaperMarked
  BY <1>23
     DEF Types, PlaceTypes, JobTypes, JobStages, Past, Spawning, Stopping, Idle, Here,
         goroutines, history, ReaperMarked, Write
<1>24. QED
  BY <1>1, <1>2, <1>3, <1>4, <1>5, <1>6, <1>7, <1>8, <1>9, <1>10, <1>11, <1>12, <1>13, <1>14,
     <1>15, <1>16, <1>17, <1>18, <1>19, <1>20, <1>21, <1>22, <1>23
     DEF Next, Runner

\* What is up, waiting or marking was spawned, and marks only what is down.
LEMMA RecorderStep ==
    ASSUME Types, Next
    PROVE  RecorderTypes'
PROOF
<1>1. CASE StartRun
  BY <1>1, NamesStay, PastStays DEF Types, RecorderTypes, goroutines, history, StartRun
<1>2. CASE SweepStaleSessions
  BY <1>2, NamesStay, PastStays
     DEF Types, RecorderTypes, goroutines, history, SweepStaleSessions, Visit, Visited
<1>3. CASE SweepDone
  BY <1>3, NamesStay, PastStays DEF Types, RecorderTypes, goroutines, history, SweepDone
<1>4. CASE BracketsOver
  BY <1>4, NamesStay, PastStays
     DEF Types, RecorderTypes, goroutines, history, BracketsOver, Finalize
<1>5. CASE FinalizeSessionDir
  BY <1>5, NamesStay, PastStays
     DEF Types, RecorderTypes, goroutines, history, FinalizeSessionDir, Visit, Visited
<1>6. CASE EndRun
  BY <1>6, NamesStay, PastStays DEF Types, RecorderTypes, goroutines, history, EndRun
<1>7. CASE SpawnFails
  BY <1>7, NamesStay, PastStays
     DEF Types, RecorderTypes, goroutines, history, SpawnFails, Finalize, Dispatching
<1>8. CASE SpawnSession
  <2>1. Here \in Recorders
    BY <1>8, Shapes DEF SpawnSession, Dispatching, Types, PlaceTypes
  <2>2. run \in Nat /\ pos \in Nat
    BY Shapes, CapturesAssumption DEF Types, PlaceTypes
  <2>3. ~Past(Here)
    BY <1>8, <2>2 DEF SpawnSession, Dispatching, Past, Here, Idle, Spawning
  <2>4. Past(Here)' /\ Here' = Here
    BY <1>8, <2>2 DEF SpawnSession, Past, Here, Spawning
  <2>5. up' = up \cup {Here} /\ marking' = marking
    BY <1>8 DEF SpawnSession
  <2>6. units' \subseteq units \cup {Here} /\ waiting' \subseteq waiting \cup {Here}
    BY <1>8 DEF SpawnSession, SpawnSystemdUnit, SpawnSetsidProcess
  <2>7. \A r \in (up \cup units \cup waiting \cup marking)' : r \in Recorders /\ Past(r)'
    <3>1. TAKE r \in (up \cup units \cup waiting \cup marking)'
    <3>2. CASE r = Here
      BY <3>2, <2>1, <2>4
    <3>3. CASE r # Here
      BY <3>1, <3>3, <2>5, <2>6, PastStays DEF Types, RecorderTypes
    <3>4. QED BY <3>2, <3>3
  <2>8. QED
    BY <2>1, <2>3, <2>5, <2>7, NamesStay DEF Types, RecorderTypes
<1>9. CASE WriteSessionHandle
  BY <1>9, NamesStay, PastStays
     DEF Types, RecorderTypes, goroutines, history, WriteSessionHandle, Truncate
<1>10. CASE HandleWritten
  BY <1>10, NamesStay, PastStays
     DEF Types, RecorderTypes, goroutines, history, HandleWritten, Write
<1>11. CASE PersistFails
  BY <1>11, NamesStay, PastStays DEF Types, RecorderTypes, goroutines, history, PersistFails
<1>12. CASE UndoSpawn
  BY <1>12, NamesStay, PastStays
     DEF Types, RecorderTypes, goroutines, history, UndoSpawn, Finalize
<1>13. CASE SeamStop
  BY <1>13, NamesStay, PastStays
     DEF Types, RecorderTypes, goroutines, history, SeamStop, Dispatching, Finalize
<1>14. CASE StopAnswered
  BY <1>14, NamesStay, PastStays DEF Types, RecorderTypes, goroutines, history, StopAnswered
<1>15. CASE StopGivesUp
  BY <1>15, NamesStay, PastStays DEF Types, RecorderTypes, goroutines, history, StopGivesUp
<1>16. CASE MarkStopped
  BY <1>16, NamesStay, PastStays
     DEF Types, RecorderTypes, goroutines, history, MarkStopped, Truncate
<1>17. CASE MarkedStopped
  BY <1>17, NamesStay, PastStays
     DEF Types, RecorderTypes, goroutines, history, MarkedStopped, Write
<1>18. CASE CollectSegment
  BY <1>18, NamesStay, PastStays DEF Types, RecorderTypes, goroutines, history, CollectSegment
<1>19. CASE Crash
  BY <1>19, NamesStay, PastStays DEF Types, RecorderTypes, goroutines, history, Crash
<1>20. CASE RecorderExits
  BY <1>20, NamesStay, PastStays DEF Types, RecorderTypes, goroutines, history, RecorderExits
<1>21. CASE RecorderWedges
  BY <1>21, NamesStay, PastStays DEF Types, RecorderTypes, goroutines, history, RecorderWedges
<1>22. CASE ReaperMarks
  BY <1>22, NamesStay, PastStays
     DEF Types, RecorderTypes, goroutines, history, ReaperMarks, Truncate
<1>23. CASE ReaperMarked
  BY <1>23, NamesStay, PastStays
     DEF Types, RecorderTypes, goroutines, history, ReaperMarked, Write
<1>24. QED
  BY <1>1, <1>2, <1>3, <1>4, <1>5, <1>6, <1>7, <1>8, <1>9, <1>10, <1>11, <1>12, <1>13, <1>14,
     <1>15, <1>16, <1>17, <1>18, <1>19, <1>20, <1>21, <1>22, <1>23
     DEF Next, Runner

\* Opening a handle for writing leaves a torn one (writeSessionHandle).
LEMMA TruncateStep ==
    ASSUME Types, Next, NEW r \in Recorders, Truncate(r)
    PROVE  HandleTypes'
<1>1. [status |-> "torn", rec |-> NoRecorder]
         \in [status : Statuses, rec : Recorders \cup {NoRecorder}]
  BY DEF Statuses
<1>2. disk' = [disk EXCEPT ![KeyOf(r)] = [status |-> "torn", rec |-> NoRecorder]]
  BY DEF Truncate, Handle
<1>3. QED
  BY <1>1, <1>2, Shapes, NamesStay, PastStays DEF Types, HandleTypes

\* A handle written for a recorder is under the key of that recorder.
LEMMA WriteStep ==
    ASSUME Types, Next, NEW r \in Recorders, Past(r),
           NEW status \in {"active", "stopped"}, Write(status, r)
    PROVE  HandleTypes'
<1>1. [status |-> status, rec |-> r] \in [status : Statuses, rec : Recorders \cup {NoRecorder}]
  BY DEF Statuses
<1>2. disk' = [disk EXCEPT ![KeyOf(r)] = [status |-> status, rec |-> r]]
  BY DEF Write, Handle
<1>3. QED
  BY <1>1, <1>2, Shapes, NamesStay, PastStays DEF Types, HandleTypes

\* The handles keep their types.
LEMMA HandleStep ==
    ASSUME Types, Next
    PROVE  HandleTypes'
PROOF
<1>1. CASE StartRun
  BY <1>1, NamesStay, PastStays DEF Types, HandleTypes, goroutines, history, StartRun
<1>2. CASE SweepStaleSessions
  BY <1>2, NamesStay, PastStays
     DEF Types, HandleTypes, goroutines, history, SweepStaleSessions, Visit, Visited
<1>3. CASE SweepDone
  BY <1>3, NamesStay, PastStays DEF Types, HandleTypes, goroutines, history, SweepDone
<1>4. CASE BracketsOver
  BY <1>4, NamesStay, PastStays
     DEF Types, HandleTypes, goroutines, history, BracketsOver, Finalize
<1>5. CASE FinalizeSessionDir
  BY <1>5, NamesStay, PastStays
     DEF Types, HandleTypes, goroutines, history, FinalizeSessionDir, Visit, Visited
<1>6. CASE EndRun
  BY <1>6, NamesStay, PastStays DEF Types, HandleTypes, goroutines, history, EndRun
<1>7. CASE SpawnFails
  BY <1>7, NamesStay, PastStays
     DEF Types, HandleTypes, goroutines, history, SpawnFails, Finalize, Dispatching
<1>8. CASE SpawnSession
  BY <1>8, NamesStay, PastStays
     DEF Types, HandleTypes, goroutines, history, SpawnSession, Dispatching, SpawnSystemdUnit,
         SpawnSetsidProcess
<1>9. CASE WriteSessionHandle
  BY <1>9, TruncateStep DEF WriteSessionHandle, Types, JobTypes
<1>10. CASE HandleWritten
  BY <1>10, WriteStep DEF HandleWritten, Types, JobTypes
<1>11. CASE PersistFails
  BY <1>11, NamesStay, PastStays DEF Types, HandleTypes, goroutines, history, PersistFails
<1>12. CASE UndoSpawn
  BY <1>12, NamesStay, PastStays
     DEF Types, HandleTypes, goroutines, history, UndoSpawn, Finalize
<1>13. CASE SeamStop
  BY <1>13, NamesStay, PastStays
     DEF Types, HandleTypes, goroutines, history, SeamStop, Dispatching, Finalize
<1>14. CASE StopAnswered
  BY <1>14, NamesStay, PastStays DEF Types, HandleTypes, goroutines, history, StopAnswered
<1>15. CASE StopGivesUp
  BY <1>15, NamesStay, PastStays DEF Types, HandleTypes, goroutines, history, StopGivesUp
<1>16. CASE MarkStopped
  BY <1>16, TruncateStep DEF MarkStopped, Types, JobTypes
<1>17. CASE MarkedStopped
  BY <1>17, WriteStep DEF MarkedStopped, Types, JobTypes
<1>18. CASE CollectSegment
  BY <1>18, NamesStay, PastStays DEF Types, HandleTypes, goroutines, history, CollectSegment
<1>19. CASE Crash
  BY <1>19, NamesStay, PastStays DEF Types, HandleTypes, goroutines, history, Crash
<1>20. CASE RecorderExits
  BY <1>20, NamesStay, PastStays DEF Types, HandleTypes, goroutines, history, RecorderExits
<1>21. CASE RecorderWedges
  BY <1>21, NamesStay, PastStays DEF Types, HandleTypes, goroutines, history, RecorderWedges
<1>22. CASE ReaperMarks
  BY <1>22, TruncateStep DEF ReaperMarks, Types, RecorderTypes
<1>23. CASE ReaperMarked
  BY <1>23, WriteStep DEF ReaperMarked, Types, RecorderTypes
<1>24. QED
  BY <1>1, <1>2, <1>3, <1>4, <1>5, <1>6, <1>7, <1>8, <1>9, <1>10, <1>11, <1>12, <1>13, <1>14,
     <1>15, <1>16, <1>17, <1>18, <1>19, <1>20, <1>21, <1>22, <1>23
     DEF Next, Runner

\* A visit leaves either nothing to do or the stop of the recorder a handle names.
LEMMA VisitJob ==
    ASSUME Types, NEW k \in todo, Visit(k)
    PROVE  \/ disk[k].status # "active" /\ job' = Idle
           \/ /\ disk[k].status = "active" /\ job' = [stage |-> "stop", rec |-> disk[k].rec]
              /\ disk[k].rec \in Recorders /\ KeyOf(disk[k].rec) = k /\ Past(disk[k].rec)
  BY DEF Visit, Types, PlaceTypes, HandleTypes

\* The job in progress keeps its types: whose it is and where it may stand.
LEMMA JobStep ==
    ASSUME Types, Next
    PROVE  JobTypes'
PROOF
<1>1. CASE StartRun
  BY <1>1, NamesStay, PastStays
     DEF Types, JobTypes, Here, Idle, Spawning, Stopping, JobStages, goroutines, history,
         StartRun
<1>2. CASE SweepStaleSessions
  <2>1. PICK k \in todo : Visit(k)
    BY <1>2 DEF SweepStaleSessions
  <2>2. QED
    BY <1>2, <2>1, VisitJob, NamesStay, PastStays
       DEF SweepStaleSessions, Visited, Types, JobTypes, Idle, Spawning, Stopping, JobStages
<1>3. CASE SweepDone
  BY <1>3, NamesStay, PastStays
     DEF Types, JobTypes, Here, Idle, Spawning, Stopping, JobStages, goroutines, history,
         SweepDone
<1>4. CASE BracketsOver
  BY <1>4, NamesStay, PastStays
     DEF Types, JobTypes, Here, Idle, Spawning, Stopping, JobStages, goroutines, history,
         BracketsOver, Finalize
<1>5. CASE FinalizeSessionDir
  <2>1. PICK k \in todo : Visit(k)
    BY <1>5 DEF FinalizeSessionDir
  <2>2. QED
    BY <1>5, <2>1, VisitJob, NamesStay, PastStays
       DEF FinalizeSessionDir, Visited, Types, JobTypes, Idle, Spawning, Stopping, JobStages
<1>6. CASE EndRun
  BY <1>6, NamesStay, PastStays
     DEF Types, JobTypes, Here, Idle, Spawning, Stopping, JobStages, goroutines, history, EndRun
<1>7. CASE SpawnFails
  BY <1>7, NamesStay, PastStays
     DEF Types, JobTypes, Here, Idle, Spawning, Stopping, JobStages, goroutines, history,
         SpawnFails, Finalize, Dispatching
<1>8. CASE SpawnSession
  <2>1. Here \in Recorders
    BY <1>8, Shapes DEF SpawnSession, Dispatching, Types, PlaceTypes
  <2>2. Past(Here)' /\ Here' = Here
    BY <1>8 DEF SpawnSession, Dispatching, Past, Here, Idle, Spawning
  <2>3. Here \in units' \cup waiting'
    BY <1>8 DEF SpawnSession, SpawnSystemdUnit, SpawnSetsidProcess
  <2>4. job' = [stage |-> "spawned", rec |-> Here] /\ UNCHANGED <<pc, pos, run>>
    BY <1>8 DEF SpawnSession
  <2>5. pc = "brackets" /\ pos <= Len(Plan) /\ Plan[pos].op = "start"
    BY <1>8 DEF SpawnSession, Dispatching
  <2>6. QED
    BY <2>1, <2>2, <2>3, <2>4, <2>5, NamesStay DEF JobTypes, Spawning, Stopping, JobStages
<1>9. CASE WriteSessionHandle
  BY <1>9, NamesStay, PastStays
     DEF Types, JobTypes, Here, Idle, Spawning, Stopping, JobStages, goroutines, history,
         WriteSessionHandle, Truncate
<1>10. CASE HandleWritten
  BY <1>10, NamesStay, PastStays
     DEF Types, JobTypes, Here, Idle, Spawning, Stopping, JobStages, goroutines, history,
         HandleWritten, Write
<1>11. CASE PersistFails
  BY <1>11, NamesStay, PastStays
     DEF Types, JobTypes, Here, Idle, Spawning, Stopping, JobStages, goroutines, history,
         PersistFails
<1>12. CASE UndoSpawn
  BY <1>12, NamesStay, PastStays
     DEF Types, JobTypes, Here, Idle, Spawning, Stopping, JobStages, goroutines, history,
         UndoSpawn, Finalize
<1>13. CASE SeamStop
  <2> DEFINE h == disk[<<run, Plan[pos].session>>]
  <2>1. pc = "brackets" /\ job = Idle /\ pos <= Len(Plan) /\ Plan[pos].op = "stop"
    BY <1>13 DEF SeamStop, Dispatching
  <2>2. <<run, Plan[pos].session>> \in Keys
    BY <2>1, Shapes DEF Types, PlaceTypes
  <2>3. h.status \in {"active", "stopped"} =>
           /\ h.rec \in Recorders /\ Past(h.rec)
           /\ KeyOf(h.rec) = <<run, Plan[pos].session>>
    BY <2>2 DEF Types, HandleTypes
  <2>4. \/ job' = Idle
        \/ /\ job' \in {[stage |-> "stop", rec |-> h.rec], [stage |-> "collect", rec |-> h.rec]}
           /\ h.status \in {"active", "stopped"} /\ pc' = pc
    BY <1>13 DEF SeamStop, Finalize
  <2>5. UNCHANGED <<run, pos>>
    BY <1>13 DEF SeamStop
  <2> HIDE DEF h
  <2>6. QED
    BY <2>1, <2>3, <2>4, <2>5, NamesStay, PastStays
       DEF JobTypes, Idle, Spawning, Stopping, JobStages
<1>14. CASE StopAnswered
  BY <1>14, NamesStay, PastStays
     DEF Types, JobTypes, Here, Idle, Spawning, Stopping, JobStages, goroutines, history,
         StopAnswered
<1>15. CASE StopGivesUp
  BY <1>15, NamesStay, PastStays
     DEF Types, JobTypes, Here, Idle, Spawning, Stopping, JobStages, goroutines, history,
         StopGivesUp
<1>16. CASE MarkStopped
  BY <1>16, NamesStay, PastStays
     DEF Types, JobTypes, Here, Idle, Spawning, Stopping, JobStages, goroutines, history,
         MarkStopped, Truncate
<1>17. CASE MarkedStopped
  BY <1>17, NamesStay, PastStays
     DEF Types, JobTypes, Here, Idle, Spawning, Stopping, JobStages, goroutines, history,
         MarkedStopped, Write
<1>18. CASE CollectSegment
  BY <1>18, NamesStay, PastStays
     DEF Types, JobTypes, Here, Idle, Spawning, Stopping, JobStages, goroutines, history,
         CollectSegment
<1>19. CASE Crash
  BY <1>19, NamesStay, PastStays
     DEF Types, JobTypes, Here, Idle, Spawning, Stopping, JobStages, goroutines, history, Crash
<1>20. CASE RecorderExits
  BY <1>20, NamesStay, PastStays
     DEF Types, JobTypes, Here, Idle, Spawning, Stopping, JobStages, goroutines, history,
         RecorderExits
<1>21. CASE RecorderWedges
  BY <1>21, NamesStay, PastStays
     DEF Types, JobTypes, Here, Idle, Spawning, Stopping, JobStages, goroutines, history,
         RecorderWedges
<1>22. CASE ReaperMarks
  BY <1>22, NamesStay, PastStays
     DEF Types, JobTypes, Here, Idle, Spawning, Stopping, JobStages, goroutines, history,
         ReaperMarks, Truncate
<1>23. CASE ReaperMarked
  BY <1>23, NamesStay, PastStays
     DEF Types, JobTypes, Here, Idle, Spawning, Stopping, JobStages, goroutines, history,
         ReaperMarked, Write
<1>24. QED
  BY <1>1, <1>2, <1>3, <1>4, <1>5, <1>6, <1>7, <1>8, <1>9, <1>10, <1>11, <1>12, <1>13, <1>14,
     <1>15, <1>16, <1>17, <1>18, <1>19, <1>20, <1>21, <1>22, <1>23
     DEF Next, Runner

\* The types are kept by every step.
LEMMA TypesStep ==
    ASSUME Types, Next
    PROVE  Types'
  BY PlaceStep, RecorderStep, HandleStep, JobStep DEF Types

-----------------------------------------------------------------------------
(* Recorders that are up *)

\* What excuses a recorder is never taken back.
LEMMA ExcusedStays ==
    ASSUME Next, NEW r, Excused(r)
    PROVE  Excused(r)'
PROOF
<1>1. CASE StartRun
  BY <1>1 DEF Excused, history, StartRun
<1>2. CASE SweepStaleSessions
  BY <1>2 DEF Excused, history, SweepStaleSessions, Visit, Visited
<1>3. CASE SweepDone
  BY <1>3 DEF Excused, history, SweepDone
<1>4. CASE BracketsOver
  BY <1>4 DEF Excused, history, BracketsOver, Finalize
<1>5. CASE FinalizeSessionDir
  BY <1>5 DEF Excused, history, FinalizeSessionDir, Visit, Visited
<1>6. CASE EndRun
  BY <1>6 DEF Excused, history, EndRun
<1>7. CASE SpawnFails
  BY <1>7 DEF Excused, history, SpawnFails, Finalize, Dispatching
<1>8. CASE SpawnSession
  BY <1>8 DEF Excused, history, SpawnSession, Dispatching, SpawnSystemdUnit, SpawnSetsidProcess
<1>9. CASE WriteSessionHandle
  BY <1>9 DEF Excused, history, WriteSessionHandle, Truncate
<1>10. CASE HandleWritten
  BY <1>10 DEF Excused, history, HandleWritten, Write
<1>11. CASE PersistFails
  BY <1>11 DEF Excused, history, PersistFails
<1>12. CASE UndoSpawn
  BY <1>12 DEF Excused, history, UndoSpawn, Finalize
<1>13. CASE SeamStop
  BY <1>13 DEF Excused, history, SeamStop, Dispatching, Finalize
<1>14. CASE StopAnswered
  BY <1>14 DEF Excused, history, StopAnswered
<1>15. CASE StopGivesUp
  BY <1>15 DEF Excused, history, StopGivesUp
<1>16. CASE MarkStopped
  BY <1>16 DEF Excused, history, MarkStopped, Truncate
<1>17. CASE MarkedStopped
  BY <1>17 DEF Excused, history, MarkedStopped, Write
<1>18. CASE CollectSegment
  BY <1>18 DEF Excused, history, CollectSegment
<1>19. CASE Crash
  BY <1>19 DEF Excused, history, Crash
<1>20. CASE RecorderExits
  BY <1>20 DEF Excused, history, RecorderExits
<1>21. CASE RecorderWedges
  BY <1>21 DEF Excused, history, RecorderWedges
<1>22. CASE ReaperMarks
  BY <1>22 DEF Excused, history, ReaperMarks, Truncate
<1>23. CASE ReaperMarked
  BY <1>23 DEF Excused, history, ReaperMarked, Write
<1>24. QED
  BY <1>1, <1>2, <1>3, <1>4, <1>5, <1>6, <1>7, <1>8, <1>9, <1>10, <1>11, <1>12, <1>13, <1>14,
     <1>15, <1>16, <1>17, <1>18, <1>19, <1>20, <1>21, <1>22, <1>23
     DEF Next, Runner

\* Only a spawn brings a recorder or a reaper.
LEMMA OnlySpawns ==
    ASSUME Next
    PROVE  \/ SpawnSession
           \/ up' \subseteq up /\ waiting' \cup marking' \subseteq waiting \cup marking
PROOF
<1>1. CASE StartRun
  BY <1>1 DEF goroutines, history, StartRun
<1>2. CASE SweepStaleSessions
  BY <1>2 DEF goroutines, history, SweepStaleSessions, Visit, Visited
<1>3. CASE SweepDone
  BY <1>3 DEF goroutines, history, SweepDone
<1>4. CASE BracketsOver
  BY <1>4 DEF goroutines, history, BracketsOver, Finalize
<1>5. CASE FinalizeSessionDir
  BY <1>5 DEF goroutines, history, FinalizeSessionDir, Visit, Visited
<1>6. CASE EndRun
  BY <1>6 DEF goroutines, history, EndRun
<1>7. CASE SpawnFails
  BY <1>7 DEF goroutines, history, SpawnFails, Finalize, Dispatching
<1>8. CASE SpawnSession
  BY <1>8
     DEF goroutines, history, SpawnSession, Dispatching, SpawnSystemdUnit, SpawnSetsidProcess
<1>9. CASE WriteSessionHandle
  BY <1>9 DEF goroutines, history, WriteSessionHandle, Truncate
<1>10. CASE HandleWritten
  BY <1>10 DEF goroutines, history, HandleWritten, Write
<1>11. CASE PersistFails
  BY <1>11 DEF goroutines, history, PersistFails
<1>12. CASE UndoSpawn
  BY <1>12 DEF goroutines, history, UndoSpawn, Finalize
<1>13. CASE SeamStop
  BY <1>13 DEF goroutines, history, SeamStop, Dispatching, Finalize
<1>14. CASE StopAnswered
  BY <1>14 DEF goroutines, history, StopAnswered
<1>15. CASE StopGivesUp
  BY <1>15 DEF goroutines, history, StopGivesUp
<1>16. CASE MarkStopped
  BY <1>16 DEF goroutines, history, MarkStopped, Truncate
<1>17. CASE MarkedStopped
  BY <1>17 DEF goroutines, history, MarkedStopped, Write
<1>18. CASE CollectSegment
  BY <1>18 DEF goroutines, history, CollectSegment
<1>19. CASE Crash
  BY <1>19 DEF goroutines, history, Crash
<1>20. CASE RecorderExits
  BY <1>20 DEF goroutines, history, RecorderExits
<1>21. CASE RecorderWedges
  BY <1>21 DEF goroutines, history, RecorderWedges
<1>22. CASE ReaperMarks
  BY <1>22 DEF goroutines, history, ReaperMarks, Truncate
<1>23. CASE ReaperMarked
  BY <1>23 DEF goroutines, history, ReaperMarked, Write
<1>24. QED
  BY <1>1, <1>2, <1>3, <1>4, <1>5, <1>6, <1>7, <1>8, <1>9, <1>10, <1>11, <1>12, <1>13, <1>14,
     <1>15, <1>16, <1>17, <1>18, <1>19, <1>20, <1>21, <1>22, <1>23
     DEF Next, Runner

\* What moves the run within its plan.
LEMMA OnlyPasses ==
    ASSUME Next
    PROVE  \/ StartRun \/ SweepDone \/ HandleWritten \/ CollectSegment
           \/ /\ UNCHANGED <<run, pos>>
              /\ pc' = "brackets" => pc = "brackets"
PROOF
<1>1. CASE StartRun
  BY <1>1 DEF Visited, goroutines, history, StartRun
<1>2. CASE SweepStaleSessions
  BY <1>2 DEF Visited, goroutines, history, SweepStaleSessions, Visit, Visited
<1>3. CASE SweepDone
  BY <1>3 DEF Visited, goroutines, history, SweepDone
<1>4. CASE BracketsOver
  BY <1>4 DEF Visited, goroutines, history, BracketsOver, Finalize
<1>5. CASE FinalizeSessionDir
  BY <1>5 DEF Visited, goroutines, history, FinalizeSessionDir, Visit, Visited
<1>6. CASE EndRun
  BY <1>6 DEF Visited, goroutines, history, EndRun
<1>7. CASE SpawnFails
  BY <1>7 DEF Visited, goroutines, history, SpawnFails, Finalize, Dispatching
<1>8. CASE SpawnSession
  BY <1>8
     DEF Visited, goroutines, history, SpawnSession, Dispatching, SpawnSystemdUnit,
         SpawnSetsidProcess
<1>9. CASE WriteSessionHandle
  BY <1>9 DEF Visited, goroutines, history, WriteSessionHandle, Truncate
<1>10. CASE HandleWritten
  BY <1>10 DEF Visited, goroutines, history, HandleWritten, Write
<1>11. CASE PersistFails
  BY <1>11 DEF Visited, goroutines, history, PersistFails
<1>12. CASE UndoSpawn
  BY <1>12 DEF Visited, goroutines, history, UndoSpawn, Finalize
<1>13. CASE SeamStop
  BY <1>13 DEF Visited, goroutines, history, SeamStop, Dispatching, Finalize
<1>14. CASE StopAnswered
  BY <1>14 DEF Visited, goroutines, history, StopAnswered
<1>15. CASE StopGivesUp
  BY <1>15 DEF Visited, goroutines, history, StopGivesUp
<1>16. CASE MarkStopped
  BY <1>16 DEF Visited, goroutines, history, MarkStopped, Truncate
<1>17. CASE MarkedStopped
  BY <1>17 DEF Visited, goroutines, history, MarkedStopped, Write
<1>18. CASE CollectSegment
  BY <1>18 DEF Visited, goroutines, history, CollectSegment
<1>19. CASE Crash
  BY <1>19 DEF Visited, goroutines, history, Crash
<1>20. CASE RecorderExits
  BY <1>20 DEF Visited, goroutines, history, RecorderExits
<1>21. CASE RecorderWedges
  BY <1>21 DEF Visited, goroutines, history, RecorderWedges
<1>22. CASE ReaperMarks
  BY <1>22 DEF Visited, goroutines, history, ReaperMarks, Truncate
<1>23. CASE ReaperMarked
  BY <1>23 DEF Visited, goroutines, history, ReaperMarked, Write
<1>24. QED
  BY <1>1, <1>2, <1>3, <1>4, <1>5, <1>6, <1>7, <1>8, <1>9, <1>10, <1>11, <1>12, <1>13, <1>14,
     <1>15, <1>16, <1>17, <1>18, <1>19, <1>20, <1>21, <1>22, <1>23
     DEF Next, Runner

\* An earlier recorder of a session whose next start is due.
LEMMA EarlierExcused ==
    ASSUME Types, StartedInv, NEW r \in up,
           pc = "brackets", pos <= Len(Plan), Plan[pos].op = "start",
           r # Here, KeyOf(r) = KeyOf(Here)
    PROVE  Excused(r)
<1>1. r \in Recorders /\ Past(r) /\ Plan[r[2]].op = "start" /\ setup \in Setups
  BY DEF Types, RecorderTypes, PlaceTypes, StartedInv
<1>2. /\ r[2] \in DOMAIN Plan /\ pos \in DOMAIN Plan /\ r = <<r[1], r[2]>>
      /\ r[2] \in Nat /\ pos \in Nat /\ DOMAIN Plan = 1..Len(Plan) /\ Len(Plan) \in Nat
  BY <1>1, Shapes DEF Types, PlaceTypes
<1>3. r[1] = run /\ Plan[r[2]].session = Plan[pos].session
  BY DEF KeyOf, Here
<1>4. r[2] < pos
  BY <1>1, <1>2, <1>3, CapturesAssumption DEF Past, Here, Types, PlaceTypes
<1>5. PICK k \in (r[2] + 1)..(pos - 1) :
          Plan[k].op = "stop" /\ Plan[k].session = Plan[r[2]].session
  BY <1>1, <1>2, <1>3, <1>4, SetupsAssumption DEF Alternates, Plan
<1>6. StopBehind(r)
  BY <1>2, <1>5 DEF StopBehind
<1>7. QED
  BY <1>3, <1>6 DEF StartedInv

\* A stop that passes leaves no recorder of its session up unexcused.
LEMMA StartedStep ==
    ASSUME Types, StartedInv, StopInv, Next
    PROVE  StartedInv'
<1>1. CASE SpawnSession
  <2>1. /\ up' = up \cup {Here} /\ UNCHANGED <<run, pos, pc>>
        /\ Plan[pos].op = "start"
    BY <1>1 DEF SpawnSession, Dispatching
  <2>2. Here' = Here /\ Here[2] = pos
    BY <2>1 DEF Here
  <2>3. ASSUME NEW r
        PROVE  StopBehind(r)' <=> StopBehind(r)
    BY <2>1, NamesStay DEF StopBehind
  <2>4. ~StopBehind(Here)
    <3>1. pos \in Nat /\ \A k \in DOMAIN Plan : k \in Nat
      BY Shapes DEF Types, PlaceTypes
    <3>2. QED BY <2>2, <3>1 DEF StopBehind
  <2>5. SUFFICES ASSUME NEW r \in up'
                 PROVE  /\ Plan[r[2]].op = "start"
                        /\ pc = "brackets" /\ r[1] = run /\ StopBehind(r) => Excused(r)'
    BY <2>1, <2>3, NamesStay DEF StartedInv
  <2>6. CASE r = Here
    BY <2>1, <2>2, <2>4, <2>6
  <2>7. CASE r # Here
    BY <2>1, <2>5, <2>7, ExcusedStays DEF StartedInv
  <2>8. QED BY <2>6, <2>7
<1>2. CASE StartRun
  BY <1>2, NamesStay DEF StartRun, StartedInv
<1>3. CASE SweepDone
  <2>1. \A r \in up : ~(r[1] = run /\ r[2] >= pos)
    BY <1>3, Shapes DEF SweepDone, Types, PlaceTypes, RecorderTypes, Past, Idle, Spawning
  <2>2. up' = up /\ pc' # pc /\ pc = "sweep" /\ pos' = 1 /\ run' = run
    BY <1>3 DEF SweepDone, Types, PlaceTypes
  <2>3. QED
    BY <2>1, <2>2, NamesStay, Shapes DEF StartedInv, Types, PlaceTypes, RecorderTypes
<1>4. ASSUME HandleWritten \/ CollectSegment
      PROVE  StartedInv'
  <2>1. /\ up' = up /\ run' = run /\ pos' = pos + 1 /\ pc = "brackets" /\ pos \in Nat
        /\ job.stage \in {"persisting", "collect"}
    BY <1>4, Shapes DEF HandleWritten, CollectSegment, Types, PlaceTypes, JobTypes, Spawning
  <2>2. SUFFICES ASSUME NEW r \in up, r[1] = run, StopBehind(r)'
                 PROVE  Excused(r)'
    BY <2>1, NamesStay DEF StartedInv
  <2>3. CASE StopBehind(r)
    BY <2>1, <2>2, <2>3, ExcusedStays DEF StartedInv
  <2>4. CASE ~StopBehind(r)
    <3>1. Plan[pos].op = "stop" /\ Plan[pos].session = Plan[r[2]].session
      <4>1. \A k \in DOMAIN Plan : k \in Nat
        BY Shapes DEF Types
      <4>2. PICK k \in DOMAIN Plan :
                /\ r[2] < k /\ k < pos + 1
                /\ Plan[k].op = "stop" /\ Plan[k].session = Plan[r[2]].session
        BY <2>1, <2>2, NamesStay DEF StopBehind
      <4>3. k = pos
        BY <2>1, <2>4, <4>1, <4>2 DEF StopBehind
      <4>4. QED BY <4>2, <4>3
    <3>2. job.stage = "collect" /\ KeyOf(job.rec) = <<run, Plan[pos].session>>
      BY <2>1, <3>1 DEF Types, JobTypes, Spawning, Stopping
    <3>3. KeyOf(r) = KeyOf(job.rec)
      BY <2>2, <3>1, <3>2 DEF KeyOf
    <3>4. Excused(r)
      BY <3>2, <3>3 DEF StopInv, Stopping
    <3>5. QED BY <3>4, ExcusedStays
  <2>5. QED BY <2>3, <2>4
<1>5. CASE /\ UNCHANGED <<run, pos>>
           /\ pc' = "brackets" => pc = "brackets"
           /\ up' \subseteq up
  <2>1. ASSUME NEW r
        PROVE  StopBehind(r)' <=> StopBehind(r)
    BY <1>5, NamesStay DEF StopBehind
  <2>2. QED BY <1>5, <2>1, NamesStay, ExcusedStays DEF StartedInv
<1>6. QED
  BY <1>1, <1>2, <1>3, <1>4, <1>5, OnlySpawns, OnlyPasses

\* A new spawn meets no reaper of an earlier recorder under its key, unless excused.
LEMMA ReaperStep ==
    ASSUME Types, StartedInv, ReaperInv, Next
    PROVE  ReaperInv'
<1>1. CASE ~SpawnSession
  BY <1>1, OnlySpawns, NamesStay, ExcusedStays DEF ReaperInv
<1>2. CASE SpawnSession
  <2>1. /\ pc = "brackets" /\ pos <= Len(Plan) /\ Plan[pos].op = "start"
        /\ up' = up \cup {Here} /\ waiting' \subseteq waiting \cup {Here} /\ marking' = marking
    BY <1>2 DEF SpawnSession, Dispatching, SpawnSystemdUnit, SpawnSetsidProcess
  <2>2. SUFFICES ASSUME NEW r \in up', NEW q \in (waiting \cup marking)', q # r, KeyOf(q) = KeyOf(r)
                 PROVE  Excused(r)'
    BY NamesStay DEF ReaperInv
  <2>3. CASE r = Here
    <3>1. q \in waiting \cup marking
      BY <2>1, <2>2, <2>3
    <3>2. Here \in shadowed'
      BY <1>2, <2>2, <2>3, <3>1 DEF SpawnSession
    <3>3. QED BY <2>3, <3>2 DEF Excused
  <2>4. CASE r # Here /\ q = Here
    BY <2>1, <2>2, <2>4, EarlierExcused, ExcusedStays
  <2>5. CASE r # Here /\ q # Here
    BY <2>1, <2>2, <2>5, ExcusedStays DEF ReaperInv
  <2>6. QED BY <2>3, <2>4, <2>5
<1>3. QED BY <1>1, <1>2

\* A step that changes the disk changes one handle, that of a writer.
LEMMA OnlyWriters ==
    ASSUME Types, Next
    PROVE  \/ disk' = disk
           \/ \E q \in Recorders : Writer(q) /\ \E h : disk' = [disk EXCEPT ![KeyOf(q)] = h]
PROOF
<1>1. CASE StartRun
  BY <1>1 DEF Types, JobTypes, RecorderTypes, Writer, Visited, goroutines, history, StartRun
<1>2. CASE SweepStaleSessions
  BY <1>2
     DEF Types, JobTypes, RecorderTypes, Writer, Visited, goroutines, history,
         SweepStaleSessions, Visit, Visited
<1>3. CASE SweepDone
  BY <1>3 DEF Types, JobTypes, RecorderTypes, Writer, Visited, goroutines, history, SweepDone
<1>4. CASE BracketsOver
  BY <1>4
     DEF Types, JobTypes, RecorderTypes, Writer, Visited, goroutines, history, BracketsOver,
         Finalize
<1>5. CASE FinalizeSessionDir
  BY <1>5
     DEF Types, JobTypes, RecorderTypes, Writer, Visited, goroutines, history,
         FinalizeSessionDir, Visit, Visited
<1>6. CASE EndRun
  BY <1>6 DEF Types, JobTypes, RecorderTypes, Writer, Visited, goroutines, history, EndRun
<1>7. CASE SpawnFails
  BY <1>7
     DEF Types, JobTypes, RecorderTypes, Writer, Visited, goroutines, history, SpawnFails,
         Finalize, Dispatching
<1>8. CASE SpawnSession
  BY <1>8
     DEF Types, JobTypes, RecorderTypes, Writer, Visited, goroutines, history, SpawnSession,
         Dispatching, SpawnSystemdUnit, SpawnSetsidProcess
<1>9. CASE WriteSessionHandle
  BY <1>9
     DEF Types, JobTypes, RecorderTypes, Writer, Visited, goroutines, history,
         WriteSessionHandle, Truncate
<1>10. CASE HandleWritten
  BY <1>10
     DEF Types, JobTypes, RecorderTypes, Writer, Visited, goroutines, history, HandleWritten,
         Write
<1>11. CASE PersistFails
  BY <1>11
     DEF Types, JobTypes, RecorderTypes, Writer, Visited, goroutines, history, PersistFails
<1>12. CASE UndoSpawn
  BY <1>12
     DEF Types, JobTypes, RecorderTypes, Writer, Visited, goroutines, history, UndoSpawn,
         Finalize
<1>13. CASE SeamStop
  BY <1>13
     DEF Types, JobTypes, RecorderTypes, Writer, Visited, goroutines, history, SeamStop,
         Dispatching, Finalize
<1>14. CASE StopAnswered
  BY <1>14
     DEF Types, JobTypes, RecorderTypes, Writer, Visited, goroutines, history, StopAnswered
<1>15. CASE StopGivesUp
  BY <1>15 DEF Types, JobTypes, RecorderTypes, Writer, Visited, goroutines, history, StopGivesUp
<1>16. CASE MarkStopped
  BY <1>16
     DEF Types, JobTypes, RecorderTypes, Writer, Visited, goroutines, history, MarkStopped,
         Truncate
<1>17. CASE MarkedStopped
  BY <1>17
     DEF Types, JobTypes, RecorderTypes, Writer, Visited, goroutines, history, MarkedStopped,
         Write
<1>18. CASE CollectSegment
  BY <1>18
     DEF Types, JobTypes, RecorderTypes, Writer, Visited, goroutines, history, CollectSegment
<1>19. CASE Crash
  BY <1>19 DEF Types, JobTypes, RecorderTypes, Writer, Visited, goroutines, history, Crash
<1>20. CASE RecorderExits
  BY <1>20
     DEF Types, JobTypes, RecorderTypes, Writer, Visited, goroutines, history, RecorderExits
<1>21. CASE RecorderWedges
  BY <1>21
     DEF Types, JobTypes, RecorderTypes, Writer, Visited, goroutines, history, RecorderWedges
<1>22. CASE ReaperMarks
  BY <1>22
     DEF Types, JobTypes, RecorderTypes, Writer, Visited, goroutines, history, ReaperMarks,
         Truncate
<1>23. CASE ReaperMarked
  BY <1>23
     DEF Types, JobTypes, RecorderTypes, Writer, Visited, goroutines, history, ReaperMarked,
         Write
<1>24. QED
  BY <1>1, <1>2, <1>3, <1>4, <1>5, <1>6, <1>7, <1>8, <1>9, <1>10, <1>11, <1>12, <1>13, <1>14,
     <1>15, <1>16, <1>17, <1>18, <1>19, <1>20, <1>21, <1>22, <1>23
     DEF Next, Runner

\* A handle is not overwritten while its recorder is up, unless that is excused or the
\* recorder's own spawn.
LEMMA HandleKept ==
    ASSUME Types, StartedInv, ReaperInv, StopInv, Next, NEW r \in up, ~Excused(r),
           ~(job.stage \in Spawning /\ job.rec = r)
    PROVE  disk'[KeyOf(r)] = disk[KeyOf(r)]
<1>1. SUFFICES ASSUME NEW q \in Recorders, Writer(q), KeyOf(q) = KeyOf(r)
               PROVE  FALSE
  BY OnlyWriters, Shapes DEF Types, RecorderTypes, HandleTypes, Writer
<1>2. CASE q \in waiting \cup marking /\ q \notin up
  BY <1>1, <1>2 DEF ReaperInv
<1>3. CASE q = job.rec /\ job.stage \in {"mark", "marking"}
  BY <1>1, <1>3 DEF StopInv, Stopping
<1>4. CASE q = job.rec /\ job.stage \in {"spawned", "persisting"}
  <2>1. /\ pc = "brackets" /\ pos <= Len(Plan) /\ Plan[pos].op = "start" /\ q = Here
    BY <1>4 DEF Types, JobTypes, Spawning
  <2>2. r # Here
    BY <1>4, <2>1 DEF Spawning
  <2>3. QED BY <1>1, <2>1, <2>2, EarlierExcused
<1>5. QED BY <1>1, <1>2, <1>3, <1>4 DEF Writer

\* A spawn in progress goes on, is written, is undone or is cut short by a crash.
LEMMA WhileSpawning ==
    ASSUME Types, Next, job.stage \in Spawning
    PROVE  \/ job' = job
           \/ job' = [job EXCEPT !.stage = "persisting"]
           \/ job' = [job EXCEPT !.stage = "undo"]
           \/ HandleWritten \/ UndoSpawn \/ Crash
PROOF
<1>1. CASE StartRun
  BY <1>1 DEF Types, JobTypes, Idle, Spawning, goroutines, history, StartRun
<1>2. CASE SweepStaleSessions
  BY <1>2
     DEF Types, JobTypes, Spawning, Visit, Visited, Dispatching, Idle, goroutines, history,
         SweepStaleSessions
<1>3. CASE SweepDone
  BY <1>3 DEF Types, JobTypes, Idle, Spawning, goroutines, history, SweepDone
<1>4. CASE BracketsOver
  BY <1>4 DEF Types, JobTypes, Idle, Spawning, goroutines, history, BracketsOver, Finalize
<1>5. CASE FinalizeSessionDir
  BY <1>5
     DEF Types, JobTypes, Spawning, Visit, Visited, Dispatching, Idle, goroutines, history,
         FinalizeSessionDir
<1>6. CASE EndRun
  BY <1>6 DEF Types, JobTypes, Idle, Spawning, goroutines, history, EndRun
<1>7. CASE SpawnFails
  BY <1>7
     DEF Types, JobTypes, Spawning, Visit, Visited, Dispatching, Idle, goroutines, history,
         SpawnFails
<1>8. CASE SpawnSession
  BY <1>8
     DEF Types, JobTypes, Spawning, Visit, Visited, Dispatching, Idle, goroutines, history,
         SpawnSession
<1>9. CASE WriteSessionHandle
  BY <1>9 DEF Types, JobTypes, Idle, Spawning, goroutines, history, WriteSessionHandle, Truncate
<1>10. CASE HandleWritten
  BY <1>10 DEF Types, JobTypes, Idle, Spawning, goroutines, history, HandleWritten, Write
<1>11. CASE PersistFails
  BY <1>11 DEF Types, JobTypes, Idle, Spawning, goroutines, history, PersistFails
<1>12. CASE UndoSpawn
  BY <1>12 DEF Types, JobTypes, Idle, Spawning, goroutines, history, UndoSpawn, Finalize
<1>13. CASE SeamStop
  BY <1>13
     DEF Types, JobTypes, Spawning, Visit, Visited, Dispatching, Idle, goroutines, history,
         SeamStop
<1>14. CASE StopAnswered
  BY <1>14 DEF Types, JobTypes, Idle, Spawning, goroutines, history, StopAnswered
<1>15. CASE StopGivesUp
  BY <1>15 DEF Types, JobTypes, Idle, Spawning, goroutines, history, StopGivesUp
<1>16. CASE MarkStopped
  BY <1>16 DEF Types, JobTypes, Idle, Spawning, goroutines, history, MarkStopped, Truncate
<1>17. CASE MarkedStopped
  BY <1>17 DEF Types, JobTypes, Idle, Spawning, goroutines, history, MarkedStopped, Write
<1>18. CASE CollectSegment
  BY <1>18 DEF Types, JobTypes, Idle, Spawning, goroutines, history, CollectSegment
<1>19. CASE Crash
  BY <1>19 DEF Types, JobTypes, Idle, Spawning, goroutines, history, Crash
<1>20. CASE RecorderExits
  BY <1>20 DEF Types, JobTypes, Idle, Spawning, goroutines, history, RecorderExits
<1>21. CASE RecorderWedges
  BY <1>21 DEF Types, JobTypes, Idle, Spawning, goroutines, history, RecorderWedges
<1>22. CASE ReaperMarks
  BY <1>22 DEF Types, JobTypes, Idle, Spawning, goroutines, history, ReaperMarks, Truncate
<1>23. CASE ReaperMarked
  BY <1>23 DEF Types, JobTypes, Idle, Spawning, goroutines, history, ReaperMarked, Write
<1>24. QED
  BY <1>1, <1>2, <1>3, <1>4, <1>5, <1>6, <1>7, <1>8, <1>9, <1>10, <1>11, <1>12, <1>13, <1>14,
     <1>15, <1>16, <1>17, <1>18, <1>19, <1>20, <1>21, <1>22, <1>23
     DEF Next, Runner

\* The handle goes on naming the recorder that is up.
LEMMA RecordedStep ==
    ASSUME Types, StartedInv, ReaperInv, RecordedInv, StopInv, Next
    PROVE  RecordedInv'
<1>1. SUFFICES ASSUME NEW r \in up', ~Excused(r)'
               PROVE  \/ (job.stage \in Spawning /\ job.rec = r)'
                      \/ disk'[KeyOf(r)].status = "active" /\ disk'[KeyOf(r)].rec = r
  BY NamesStay DEF RecordedInv
<1>2. ~Excused(r)
  BY <1>1, ExcusedStays
<1>3. CASE r \notin up
  <2>1. SpawnSession /\ r = Here
    BY <1>1, <1>3, OnlySpawns DEF SpawnSession
  <2>2. QED BY <2>1 DEF SpawnSession, Spawning
<1>4. CASE r \in up /\ ~(job.stage \in Spawning /\ job.rec = r)
  BY <1>2, <1>4, HandleKept DEF RecordedInv
<1>5. CASE r \in up /\ job.stage \in Spawning /\ job.rec = r
  <2>1. CASE \/ job' = job
             \/ job' = [job EXCEPT !.stage = "persisting"]
             \/ job' = [job EXCEPT !.stage = "undo"]
    BY <1>5, <2>1 DEF Types, JobTypes, Spawning
  <2>2. CASE HandleWritten
    <3>1. r \in units \cup waiting /\ r \in Recorders /\ KeyOf(r) \in Keys
      BY <1>5, Shapes DEF Types, JobTypes, RecorderTypes
    <3>2. disk' = [disk EXCEPT ![KeyOf(r)] = [status |-> "active", rec |-> r]]
      BY <1>5, <2>2, <3>1 DEF HandleWritten, Write, Handle
    <3>3. QED BY <3>1, <3>2 DEF Types, HandleTypes
  <2>3. CASE UndoSpawn \/ Crash
    BY <1>1, <1>5, <2>3 DEF UndoSpawn, Crash, Excused, Spawning
  <2>4. QED BY <1>5, <2>1, <2>2, <2>3, WhileSpawning
<1>6. QED BY <1>3, <1>4, <1>5

\* A stop goes on covering every recorder of its session.
LEMMA StopStep ==
    ASSUME Types, RecordedInv, StopInv, Next
    PROVE  StopInv'
PROOF
<1>1. CASE StartRun
  BY <1>1, NamesStay, ExcusedStays DEF StopInv, Idle, Stopping, goroutines, history, StartRun
<1>2. CASE SweepStaleSessions
  <2>1. PICK k \in todo : Visit(k)
    BY <1>2 DEF SweepStaleSessions
  <2>2. up' = up
    BY <1>2 DEF SweepStaleSessions, Visited
  <2>3. CASE job' = Idle
    BY <2>3 DEF StopInv, Idle, Stopping
  <2>4. CASE job' # Idle
    <3>1. /\ disk[k].status = "active" /\ job' = [stage |-> "stop", rec |-> disk[k].rec]
          /\ KeyOf(disk[k].rec) = k /\ job = Idle
      BY <2>1, <2>4, VisitJob DEF Visit
    <3>2. \A r \in up : KeyOf(r) = k => Excused(r) \/ disk[k].rec = r
      BY <3>1 DEF RecordedInv, Idle, Spawning
    <3>3. QED BY <2>2, <3>1, <3>2, NamesStay, ExcusedStays DEF StopInv
  <2>5. QED BY <2>3, <2>4
<1>3. CASE SweepDone
  BY <1>3, NamesStay, ExcusedStays DEF StopInv, Idle, Stopping, goroutines, history, SweepDone
<1>4. CASE BracketsOver
  BY <1>4, NamesStay, ExcusedStays
     DEF StopInv, Idle, Stopping, goroutines, history, BracketsOver, Finalize
<1>5. CASE FinalizeSessionDir
  <2>1. PICK k \in todo : Visit(k)
    BY <1>5 DEF FinalizeSessionDir
  <2>2. up' = up
    BY <1>5 DEF FinalizeSessionDir, Visited
  <2>3. CASE job' = Idle
    BY <2>3 DEF StopInv, Idle, Stopping
  <2>4. CASE job' # Idle
    <3>1. /\ disk[k].status = "active" /\ job' = [stage |-> "stop", rec |-> disk[k].rec]
          /\ KeyOf(disk[k].rec) = k /\ job = Idle
      BY <2>1, <2>4, VisitJob DEF Visit
    <3>2. \A r \in up : KeyOf(r) = k => Excused(r) \/ disk[k].rec = r
      BY <3>1 DEF RecordedInv, Idle, Spawning
    <3>3. QED BY <2>2, <3>1, <3>2, NamesStay, ExcusedStays DEF StopInv
  <2>5. QED BY <2>3, <2>4
<1>6. CASE EndRun
  BY <1>6, NamesStay, ExcusedStays DEF StopInv, Idle, Stopping, goroutines, history, EndRun
<1>7. CASE SpawnFails
  BY <1>7, NamesStay, ExcusedStays
     DEF StopInv, Idle, Stopping, goroutines, history, SpawnFails, Finalize, Dispatching
<1>8. CASE SpawnSession
  BY <1>8, NamesStay, ExcusedStays
     DEF StopInv, Idle, Stopping, goroutines, history, SpawnSession, Dispatching,
         SpawnSystemdUnit, SpawnSetsidProcess
<1>9. CASE WriteSessionHandle
  BY <1>9, NamesStay, ExcusedStays
     DEF StopInv, Idle, Stopping, goroutines, history, WriteSessionHandle, Truncate
<1>10. CASE HandleWritten
  BY <1>10, NamesStay, ExcusedStays
     DEF StopInv, Idle, Stopping, goroutines, history, HandleWritten, Write
<1>11. CASE PersistFails
  BY <1>11, NamesStay, ExcusedStays
     DEF StopInv, Idle, Stopping, goroutines, history, PersistFails
<1>12. CASE UndoSpawn
  BY <1>12, NamesStay, ExcusedStays
     DEF StopInv, Idle, Stopping, goroutines, history, UndoSpawn, Finalize
<1>13. CASE SeamStop
  <2> DEFINE k == <<run, Plan[pos].session>>
  <2>1. up' = up /\ job = Idle /\ pos <= Len(Plan) /\ pc = "brackets"
    BY <1>13 DEF SeamStop, Dispatching
  <2>2. CASE job' = Idle
    BY <2>2 DEF StopInv, Idle, Stopping
  <2>3. CASE job' # Idle
    <3>1. \/ disk[k].status = "active" /\ job' = [stage |-> "stop", rec |-> disk[k].rec]
          \/ disk[k].status = "stopped" /\ job' = [stage |-> "collect", rec |-> disk[k].rec]
      BY <1>13, <2>3 DEF SeamStop, Finalize
    <3>2. k \in Keys
      BY <2>1, Shapes DEF Types, PlaceTypes
    <3>3. KeyOf(disk[k].rec) = k
      BY <3>1, <3>2 DEF Types, HandleTypes
    <3> HIDE DEF k
    <3>4. \A r \in up : KeyOf(r) = k => Excused(r) \/ (disk[k].status = "active" /\ disk[k].rec = r)
      BY <2>1 DEF RecordedInv, Idle, Spawning
    <3>5. QED BY <2>1, <3>1, <3>3, <3>4, NamesStay, ExcusedStays DEF StopInv
  <2>4. QED BY <2>2, <2>3
<1>14. CASE StopAnswered
  BY <1>14, NamesStay, ExcusedStays
     DEF StopInv, Idle, Stopping, goroutines, history, StopAnswered
<1>15. CASE StopGivesUp
  BY <1>15, NamesStay, ExcusedStays
     DEF StopInv, Idle, Stopping, goroutines, history, StopGivesUp, Types, JobTypes, Excused
<1>16. CASE MarkStopped
  BY <1>16, NamesStay, ExcusedStays
     DEF StopInv, Idle, Stopping, goroutines, history, MarkStopped, Truncate
<1>17. CASE MarkedStopped
  BY <1>17, NamesStay, ExcusedStays
     DEF StopInv, Idle, Stopping, goroutines, history, MarkedStopped, Write
<1>18. CASE CollectSegment
  BY <1>18, NamesStay, ExcusedStays
     DEF StopInv, Idle, Stopping, goroutines, history, CollectSegment
<1>19. CASE Crash
  BY <1>19, NamesStay, ExcusedStays DEF StopInv, Idle, Stopping, goroutines, history, Crash
<1>20. CASE RecorderExits
  BY <1>20, NamesStay, ExcusedStays
     DEF StopInv, Idle, Stopping, goroutines, history, RecorderExits
<1>21. CASE RecorderWedges
  BY <1>21, NamesStay, ExcusedStays
     DEF StopInv, Idle, Stopping, goroutines, history, RecorderWedges
<1>22. CASE ReaperMarks
  BY <1>22, NamesStay, ExcusedStays
     DEF StopInv, Idle, Stopping, goroutines, history, ReaperMarks, Truncate
<1>23. CASE ReaperMarked
  BY <1>23, NamesStay, ExcusedStays
     DEF StopInv, Idle, Stopping, goroutines, history, ReaperMarked, Write
<1>24. QED
  BY <1>1, <1>2, <1>3, <1>4, <1>5, <1>6, <1>7, <1>8, <1>9, <1>10, <1>11, <1>12, <1>13, <1>14,
     <1>15, <1>16, <1>17, <1>18, <1>19, <1>20, <1>21, <1>22, <1>23
     DEF Next, Runner

\* What is up is visited by the sweep or by the finalizer.
LEMMA VisitStep ==
    ASSUME Types, RecordedInv, StopInv, VisitInv, Next
    PROVE  VisitInv'
PROOF
<1>1. CASE StartRun
  <2>1. ASSUME NEW r \in up
        PROVE  KeyOf(r) \in Keys /\ KeyOf(r)[1] <= run
    BY Shapes, CapturesAssumption DEF Types, RecorderTypes, PlaceTypes, Past
  <2>2. QED
    BY <1>1, <2>1, NamesStay DEF StartRun, VisitInv, ToVisit
<1>2. CASE SweepStaleSessions
  <2>1. PICK k \in todo : Visit(k)
    BY <1>2 DEF SweepStaleSessions
  <2>2. UNCHANGED <<up, pc, run>> /\ todo' = todo \ {k}
    BY <1>2, <2>1 DEF SweepStaleSessions, Visited, Visit
  <2>3. SUFFICES ASSUME NEW r \in up, ~Excused(r), KeyOf(r) = k, job = Idle
                 PROVE  job' = [stage |-> "stop", rec |-> r]
    BY <2>1, <2>2, NamesStay, ExcusedStays DEF VisitInv, ToVisit, Visit, Idle
  <2>4. disk[k].status = "active" /\ disk[k].rec = r
    BY <2>3 DEF RecordedInv, Idle, Spawning
  <2>5. QED
    BY <2>1, <2>4 DEF Visit
<1>3. CASE SweepDone
  <2>1. ASSUME NEW r \in up
        PROVE  Excused(r)
    BY <1>3, <2>1 DEF SweepDone, VisitInv, ToVisit, Idle
  <2>2. QED
    BY <1>3, <2>1, ExcusedStays DEF SweepDone, VisitInv
<1>4. CASE BracketsOver
  BY <1>4, NamesStay, ExcusedStays, Shapes
     DEF VisitInv, ToVisit, Idle, goroutines, history, BracketsOver, Finalize, Types,
         RecorderTypes, JobTypes, Spawning
<1>5. CASE FinalizeSessionDir
  <2>1. PICK k \in todo : Visit(k)
    BY <1>5 DEF FinalizeSessionDir
  <2>2. UNCHANGED <<up, pc, run>> /\ todo' = todo \ {k}
    BY <1>5, <2>1 DEF FinalizeSessionDir, Visited, Visit
  <2>3. SUFFICES ASSUME NEW r \in up, ~Excused(r), KeyOf(r) = k, job = Idle
                 PROVE  job' = [stage |-> "stop", rec |-> r]
    BY <2>1, <2>2, NamesStay, ExcusedStays DEF VisitInv, ToVisit, Visit, Idle
  <2>4. disk[k].status = "active" /\ disk[k].rec = r
    BY <2>3 DEF RecordedInv, Idle, Spawning
  <2>5. QED
    BY <2>1, <2>4 DEF Visit
<1>6. CASE EndRun
  BY <1>6, NamesStay, ExcusedStays DEF VisitInv, ToVisit, Idle, goroutines, history, EndRun
<1>7. CASE SpawnFails
  BY <1>7, NamesStay, ExcusedStays, Shapes
     DEF VisitInv, ToVisit, Idle, goroutines, history, SpawnFails, Finalize, Dispatching, Types,
         RecorderTypes, JobTypes, Spawning
<1>8. CASE SpawnSession
  BY <1>8, NamesStay, ExcusedStays
     DEF VisitInv, ToVisit, Idle, goroutines, history, SpawnSession, Dispatching,
         SpawnSystemdUnit, SpawnSetsidProcess, Here
<1>9. CASE WriteSessionHandle
  BY <1>9, NamesStay, ExcusedStays
     DEF VisitInv, ToVisit, Idle, goroutines, history, WriteSessionHandle, Truncate
<1>10. CASE HandleWritten
  BY <1>10, NamesStay, ExcusedStays
     DEF VisitInv, ToVisit, Idle, goroutines, history, HandleWritten, Write
<1>11. CASE PersistFails
  BY <1>11, NamesStay, ExcusedStays
     DEF VisitInv, ToVisit, Idle, goroutines, history, PersistFails
<1>12. CASE UndoSpawn
  BY <1>12, NamesStay, ExcusedStays, Shapes
     DEF VisitInv, ToVisit, Idle, goroutines, history, UndoSpawn, Finalize, Types,
         RecorderTypes, JobTypes, Spawning
<1>13. CASE SeamStop
  BY <1>13, NamesStay, ExcusedStays, Shapes
     DEF VisitInv, ToVisit, Idle, goroutines, history, SeamStop, Dispatching, Finalize, Types,
         RecorderTypes, JobTypes, Spawning
<1>14. CASE StopAnswered
  BY <1>14, NamesStay, ExcusedStays
     DEF VisitInv, ToVisit, Idle, goroutines, history, StopAnswered
<1>15. CASE StopGivesUp
  BY <1>15, NamesStay, ExcusedStays
     DEF VisitInv, ToVisit, Idle, goroutines, history, StopGivesUp, Excused, Types, JobTypes
<1>16. CASE MarkStopped
  BY <1>16, NamesStay, ExcusedStays
     DEF VisitInv, ToVisit, Idle, goroutines, history, MarkStopped, Truncate
<1>17. CASE MarkedStopped
  BY <1>17, NamesStay, ExcusedStays
     DEF VisitInv, ToVisit, Idle, goroutines, history, MarkedStopped, Write
<1>18. CASE CollectSegment
  BY <1>18, NamesStay, ExcusedStays
     DEF VisitInv, ToVisit, Idle, goroutines, history, CollectSegment
<1>19. CASE Crash
  BY <1>19, NamesStay, ExcusedStays DEF VisitInv, ToVisit, Idle, goroutines, history, Crash
<1>20. CASE RecorderExits
  BY <1>20, NamesStay, ExcusedStays
     DEF VisitInv, ToVisit, Idle, goroutines, history, RecorderExits
<1>21. CASE RecorderWedges
  BY <1>21, NamesStay, ExcusedStays
     DEF VisitInv, ToVisit, Idle, goroutines, history, RecorderWedges
<1>22. CASE ReaperMarks
  BY <1>22, NamesStay, ExcusedStays
     DEF VisitInv, ToVisit, Idle, goroutines, history, ReaperMarks, Truncate
<1>23. CASE ReaperMarked
  BY <1>23, NamesStay, ExcusedStays
     DEF VisitInv, ToVisit, Idle, goroutines, history, ReaperMarked, Write
<1>24. QED
  BY <1>1, <1>2, <1>3, <1>4, <1>5, <1>6, <1>7, <1>8, <1>9, <1>10, <1>11, <1>12, <1>13, <1>14,
     <1>15, <1>16, <1>17, <1>18, <1>19, <1>20, <1>21, <1>22, <1>23
     DEF Next, Runner

\* The handles of a run are closed by its finalizer.
LEMMA ClosedStep ==
    ASSUME Types, ClosedInv, Next
    PROVE  ClosedInv'
PROOF
<1>1. CASE StartRun
  BY <1>1, NamesStay DEF Types, JobTypes, ClosedInv, Idle, goroutines, history, StartRun
<1>2. CASE SweepStaleSessions
  BY <1>2, NamesStay
     DEF Types, JobTypes, ClosedInv, Idle, goroutines, history, SweepStaleSessions, Visit,
         Visited
<1>3. CASE SweepDone
  <2>1. ASSUME NEW k \in Keys, disk[k].status = "active"
        PROVE  k[1] # run
    <3>1. disk[k].rec \in Recorders /\ KeyOf(disk[k].rec) = k /\ Past(disk[k].rec)
      BY <2>1 DEF Types, HandleTypes
    <3>2. pc = "sweep" /\ pos = 1 /\ job = Idle /\ run \in Nat
      BY <1>3, CapturesAssumption DEF SweepDone, Types, PlaceTypes
    <3>3. disk[k].rec[1] \in Nat /\ disk[k].rec[2] \in Nat \ {0} /\ k[1] = disk[k].rec[1]
      BY <3>1, Shapes, CapturesAssumption DEF Types
    <3>4. QED BY <3>1, <3>2, <3>3 DEF Past, Idle, Spawning
  <2>2. QED
    BY <1>3, <2>1, NamesStay DEF SweepDone, ClosedInv
<1>4. CASE BracketsOver
  BY <1>4, NamesStay
     DEF Types, JobTypes, ClosedInv, Idle, goroutines, history, BracketsOver, Finalize
<1>5. CASE FinalizeSessionDir
  <2>1. PICK k \in todo : Visit(k)
    BY <1>5 DEF FinalizeSessionDir
  <2>2. QED
    BY <1>5, <2>1, VisitJob, NamesStay DEF FinalizeSessionDir, Visited, Visit, ClosedInv, Idle
<1>6. CASE EndRun
  BY <1>6, NamesStay DEF Types, JobTypes, ClosedInv, Idle, goroutines, history, EndRun
<1>7. CASE SpawnFails
  BY <1>7, NamesStay
     DEF Types, JobTypes, ClosedInv, Idle, goroutines, history, SpawnFails, Finalize,
         Dispatching
<1>8. CASE SpawnSession
  BY <1>8, NamesStay
     DEF Types, JobTypes, ClosedInv, Idle, goroutines, history, SpawnSession, Dispatching,
         SpawnSystemdUnit, SpawnSetsidProcess
<1>9. CASE WriteSessionHandle
  BY <1>9, NamesStay
     DEF Types, JobTypes, ClosedInv, Idle, goroutines, history, WriteSessionHandle, Truncate,
         Spawning
<1>10. CASE HandleWritten
  BY <1>10, NamesStay
     DEF Types, JobTypes, ClosedInv, Idle, goroutines, history, HandleWritten, Write, Spawning
<1>11. CASE PersistFails
  BY <1>11, NamesStay DEF Types, JobTypes, ClosedInv, Idle, goroutines, history, PersistFails
<1>12. CASE UndoSpawn
  BY <1>12, NamesStay
     DEF Types, JobTypes, ClosedInv, Idle, goroutines, history, UndoSpawn, Finalize
<1>13. CASE SeamStop
  BY <1>13, NamesStay
     DEF Types, JobTypes, ClosedInv, Idle, goroutines, history, SeamStop, Dispatching, Finalize
<1>14. CASE StopAnswered
  BY <1>14, NamesStay DEF Types, JobTypes, ClosedInv, Idle, goroutines, history, StopAnswered
<1>15. CASE StopGivesUp
  BY <1>15, NamesStay DEF Types, JobTypes, ClosedInv, Idle, goroutines, history, StopGivesUp
<1>16. CASE MarkStopped
  BY <1>16, NamesStay
     DEF Types, JobTypes, ClosedInv, Idle, goroutines, history, MarkStopped, Truncate, JobTypes,
         HandleTypes, Handle
<1>17. CASE MarkedStopped
  BY <1>17, NamesStay
     DEF Types, JobTypes, ClosedInv, Idle, goroutines, history, MarkedStopped, Write, JobTypes,
         HandleTypes, Handle
<1>18. CASE CollectSegment
  BY <1>18, NamesStay DEF Types, JobTypes, ClosedInv, Idle, goroutines, history, CollectSegment
<1>19. CASE Crash
  BY <1>19, NamesStay DEF Types, JobTypes, ClosedInv, Idle, goroutines, history, Crash
<1>20. CASE RecorderExits
  BY <1>20, NamesStay DEF Types, JobTypes, ClosedInv, Idle, goroutines, history, RecorderExits
<1>21. CASE RecorderWedges
  BY <1>21, NamesStay DEF Types, JobTypes, ClosedInv, Idle, goroutines, history, RecorderWedges
<1>22. CASE ReaperMarks
  <2>1. PICK r \in waiting \ up : Truncate(r)
    BY <1>22 DEF ReaperMarks
  <2>2. \A k \in Keys : disk'[k].status = "active" => disk'[k] = disk[k]
    BY <2>1 DEF Truncate, Handle, Types, HandleTypes
  <2>3. QED
    BY <1>22, <2>2, NamesStay DEF ReaperMarks, ClosedInv, history
<1>23. CASE ReaperMarked
  <2>1. PICK r \in marking : Write("stopped", r)
    BY <1>23 DEF ReaperMarked
  <2>2. \A k \in Keys : disk'[k].status = "active" => disk'[k] = disk[k]
    BY <2>1 DEF Write, Handle, Types, HandleTypes
  <2>3. QED
    BY <1>23, <2>2, NamesStay DEF ReaperMarked, ClosedInv, history
<1>24. QED
  BY <1>1, <1>2, <1>3, <1>4, <1>5, <1>6, <1>7, <1>8, <1>9, <1>10, <1>11, <1>12, <1>13, <1>14,
     <1>15, <1>16, <1>17, <1>18, <1>19, <1>20, <1>21, <1>22, <1>23
     DEF Next, Runner

-----------------------------------------------------------------------------
(* Segments *)

\* Of two dispatches of a session with the same end one lies between that has the other.
LEMMA TakeTurns ==
    ASSUME PlaceTypes, NEW i \in DOMAIN Plan, NEW j \in DOMAIN Plan, i < j,
           Plan[i].session = Plan[j].session, Plan[i].op = Plan[j].op
    PROVE  \E k \in (i + 1)..(j - 1) : Plan[k].session = Plan[i].session
  BY SetupsAssumption DEF Alternates, Plan, PlaceTypes

\* Every dispatch is a start or a stop.
LEMMA StartOrStop ==
    ASSUME PlaceTypes, NEW k \in DOMAIN Plan
    PROVE  Plan[k].op \in {"start", "stop"}
  BY SetupsAssumption DEF Plan, PlaceTypes

\* What a step does to the reapers: a spawn adds one of a setsid recorder.
LEMMA SetsidStep ==
    ASSUME SetsidInv, Next
    PROVE  SetsidInv'
<1>1. CASE SpawnSession
  BY <1>1, SetupStays DEF SetsidInv, SpawnSession, SpawnSystemdUnit, SpawnSetsidProcess
<1>2. CASE ~SpawnSession
  BY <1>2, OnlySpawns, SetupStays DEF SetsidInv
<1>3. QED BY <1>1, <1>2

\* The run passes a dispatch: it is now the latest of its session.
LEMMA LatestStep ==
    ASSUME Types, LatestInv, Next
    PROVE  LatestInv'
<1>1. /\ DOMAIN Plan = 1..Len(Plan) /\ Len(Plan) \in Nat /\ Plan' = Plan
      /\ pos \in Nat /\ pos \in 1..(Len(Plan) + 1)
  BY Shapes, NamesStay DEF Types, PlaceTypes
<1>2. CASE StartRun \/ SweepDone
  BY <1>1, <1>2 DEF LatestInv, StartRun, SweepDone, Types, PlaceTypes
<1>3. CASE HandleWritten \/ CollectSegment
  <2>1. pc = "brackets" /\ pos \in DOMAIN Plan /\ pos' = pos + 1
    BY <1>1, <1>3
       DEF HandleWritten, CollectSegment, Types, PlaceTypes, JobTypes, Spawning, Stopping
  <2>2. SUFFICES ASSUME NEW k \in DOMAIN Plan, k < pos + 1
                 PROVE  \E c \in DOMAIN Plan :
                            /\ c < pos + 1 /\ Plan[c].session = Plan[k].session
                            /\ \A j \in (c + 1)..pos : Plan[j].session # Plan[k].session
    BY <1>1, <2>1 DEF LatestInv
  <2>3. CASE Plan[k].session = Plan[pos].session
    BY <1>1, <2>1, <2>3
  <2>4. CASE Plan[k].session # Plan[pos].session
    <3>1. k < pos
      BY <1>1, <2>1, <2>2, <2>4
    <3>2. PICK c \in DOMAIN Plan :
              /\ c < pos /\ Plan[c].session = Plan[k].session
              /\ \A j \in (c + 1)..(pos - 1) : Plan[j].session # Plan[k].session
      BY <2>1, <3>1 DEF LatestInv
    <3>3. QED BY <1>1, <2>1, <2>4, <3>2
  <2>5. QED BY <2>3, <2>4
<1>4. CASE UNCHANGED <<run, pos>> /\ (pc' = "brackets" => pc = "brackets")
  BY <1>1, <1>4 DEF LatestInv
<1>5. QED BY <1>2, <1>3, <1>4, OnlyPasses

\* A start that a reaper of its session outlives is on record.
LEMMA LateStep ==
    ASSUME Types, LateInv, Next
    PROVE  LateInv'
PROOF
<1> USE DEF LateInv
<1>1. CASE StartRun
  BY <1>1, NamesStay
     DEF Types, PlaceTypes, JobTypes, Idle, Spawning, goroutines, history, StartRun
<1>2. CASE SweepStaleSessions
  BY <1>2, NamesStay
     DEF Types, PlaceTypes, JobTypes, Idle, Spawning, goroutines, history, SweepStaleSessions,
         Visit, Visited
<1>3. CASE SweepDone
  <2>1. /\ pc = "sweep" /\ pos' = pos /\ job' = Idle /\ Plan' = Plan
    BY <1>3, NamesStay DEF SweepDone
  <2>2. pos = 1
    BY <2>1 DEF Types, PlaceTypes
  <2>3. DOMAIN Plan = 1..Len(Plan) /\ Len(Plan) \in Nat
    BY Shapes DEF Types, PlaceTypes
  <2>4. job'.stage \notin Spawning'
    BY <2>1 DEF Idle, Spawning
  <2>5. \A c \in DOMAIN Plan' : ~(c < pos' \/ (c = pos' /\ job'.stage \in Spawning'))
    BY <2>1, <2>2, <2>3, <2>4
  <2>6. QED
    BY <2>5
<1>4. CASE BracketsOver
  BY <1>4, NamesStay
     DEF Types, PlaceTypes, JobTypes, Idle, Spawning, goroutines, history, BracketsOver,
         Finalize
<1>5. CASE FinalizeSessionDir
  BY <1>5, NamesStay
     DEF Types, PlaceTypes, JobTypes, Idle, Spawning, goroutines, history, FinalizeSessionDir,
         Visit, Visited
<1>6. CASE EndRun
  BY <1>6, NamesStay
     DEF Types, PlaceTypes, JobTypes, Idle, Spawning, goroutines, history, EndRun
<1>7. CASE SpawnFails
  BY <1>7, NamesStay
     DEF Types, PlaceTypes, JobTypes, Idle, Spawning, goroutines, history, SpawnFails, Finalize,
         Dispatching
<1>8. CASE SpawnSession
  <2>1. /\ pc = "brackets" /\ job = Idle /\ run' = run /\ pos' = pos /\ pos \in Nat
        /\ waiting' \subseteq waiting \cup {Here} /\ marking' = marking
        /\ shadowed' = shadowed \cup
              {r \in {Here} : \E q \in waiting \cup marking : KeyOf(q) = KeyOf(r)}
        /\ DOMAIN Plan = 1..Len(Plan) /\ Len(Plan) \in Nat
    BY <1>8, Shapes
       DEF Types, PlaceTypes, SpawnSession, Dispatching, SpawnSystemdUnit, SpawnSetsidProcess
  <2>2. SUFFICES ASSUME NEW q \in waiting \cup marking \cup {Here}, NEW c \in DOMAIN Plan,
                        KeyOf(q) = KeyOf(<<run, c>>), q[2] < c, Plan[c].op = "start",
                        c < pos \/ c = pos
                 PROVE  <<run, c>> \in shadowed'
    BY <2>1, NamesStay
  <2>3. q # Here
    BY <2>1, <2>2 DEF Here
  <2>4. CASE c = pos
    BY <2>1, <2>2, <2>3, <2>4 DEF Here
  <2>5. CASE c < pos
    BY <2>1, <2>2, <2>3, <2>5
  <2>6. QED BY <2>2, <2>4, <2>5
<1>9. CASE WriteSessionHandle
  BY <1>9, NamesStay
     DEF Types, PlaceTypes, JobTypes, Idle, Spawning, goroutines, history, WriteSessionHandle,
         Truncate
<1>10. CASE HandleWritten
  BY <1>10, NamesStay
     DEF Types, PlaceTypes, JobTypes, Idle, Spawning, goroutines, history, HandleWritten, Write
<1>11. CASE PersistFails
  BY <1>11, NamesStay
     DEF Types, PlaceTypes, JobTypes, Idle, Spawning, goroutines, history, PersistFails
<1>12. CASE UndoSpawn
  BY <1>12, NamesStay
     DEF Types, PlaceTypes, JobTypes, Idle, Spawning, goroutines, history, UndoSpawn, Finalize
<1>13. CASE SeamStop
  BY <1>13, NamesStay
     DEF Types, PlaceTypes, JobTypes, Idle, Spawning, goroutines, history, SeamStop,
         Dispatching, Finalize
<1>14. CASE StopAnswered
  BY <1>14, NamesStay
     DEF Types, PlaceTypes, JobTypes, Idle, Spawning, goroutines, history, StopAnswered
<1>15. CASE StopGivesUp
  BY <1>15, NamesStay
     DEF Types, PlaceTypes, JobTypes, Idle, Spawning, goroutines, history, StopGivesUp
<1>16. CASE MarkStopped
  BY <1>16, NamesStay
     DEF Types, PlaceTypes, JobTypes, Idle, Spawning, goroutines, history, MarkStopped, Truncate
<1>17. CASE MarkedStopped
  BY <1>17, NamesStay
     DEF Types, PlaceTypes, JobTypes, Idle, Spawning, goroutines, history, MarkedStopped, Write
<1>18. CASE CollectSegment
  <2>1. /\ pc = "brackets" /\ Plan[pos].op = "stop" /\ pos \in Nat
        /\ DOMAIN Plan = 1..Len(Plan) /\ Len(Plan) \in Nat
        /\ pos' = pos + 1 /\ UNCHANGED <<run, pc, waiting, marking, shadowed>>
        /\ job'.stage = "idle"
    BY <1>18, Shapes
       DEF Types, PlaceTypes, JobTypes, Stopping, Idle, goroutines, history, CollectSegment
  <2>2. SUFFICES ASSUME NEW q \in waiting \cup marking, NEW c \in DOMAIN Plan,
                        KeyOf(q) = KeyOf(<<run, c>>), q[2] < c, Plan[c].op = "start",
                        c < pos + 1
                 PROVE  <<run, c>> \in shadowed
    BY <2>1, NamesStay DEF Spawning
  <2>3. c < pos
    BY <2>1, <2>2
  <2>4. QED BY <2>1, <2>2, <2>3
<1>19. CASE Crash
  BY <1>19, NamesStay
     DEF Types, PlaceTypes, JobTypes, Idle, Spawning, goroutines, history, Crash
<1>20. CASE RecorderExits
  BY <1>20, NamesStay
     DEF Types, PlaceTypes, JobTypes, Idle, Spawning, goroutines, history, RecorderExits
<1>21. CASE RecorderWedges
  BY <1>21, NamesStay
     DEF Types, PlaceTypes, JobTypes, Idle, Spawning, goroutines, history, RecorderWedges
<1>22. CASE ReaperMarks
  BY <1>22, NamesStay
     DEF Types, PlaceTypes, JobTypes, Idle, Spawning, goroutines, history, ReaperMarks, Truncate
<1>23. CASE ReaperMarked
  BY <1>23, NamesStay
     DEF Types, PlaceTypes, JobTypes, Idle, Spawning, goroutines, history, ReaperMarked, Write
<1>24. QED
  BY <1>1, <1>2, <1>3, <1>4, <1>5, <1>6, <1>7, <1>8, <1>9, <1>10, <1>11, <1>12, <1>13, <1>14,
     <1>15, <1>16, <1>17, <1>18, <1>19, <1>20, <1>21, <1>22, <1>23
     DEF Next, Runner

\* The bracket that is open after a step was open before it, unless the step opened it.
LEMMA OpensBefore ==
    ASSUME Types, Next, pc' = "brackets", NEW c \in DOMAIN Plan, Opens(c)'
    PROVE  \/ HandleWritten /\ c = pos
           \/ /\ pc = "brackets" /\ run' = run /\ Opens(c)
              /\ HandleWritten \/ CollectSegment => Plan[pos].session # Plan[c].session
<1>1. /\ DOMAIN Plan = 1..Len(Plan) /\ Len(Plan) \in Nat /\ Plan' = Plan
      /\ pos \in Nat
  BY Shapes, NamesStay DEF Types, PlaceTypes
<1>2. CASE StartRun \/ SweepDone
  BY <1>1, <1>2 DEF Opens, StartRun, SweepDone, Types, PlaceTypes
<1>3. CASE HandleWritten \/ CollectSegment
  <2>1. pc = "brackets" /\ run' = run /\ pos' = pos + 1 /\ pos \in DOMAIN Plan
    BY <1>1, <1>3
       DEF HandleWritten, CollectSegment, Types, PlaceTypes, JobTypes, Spawning, Stopping
  <2>2. CollectSegment => Plan[pos].op = "stop"
    BY <2>1 DEF CollectSegment, Types, JobTypes, Stopping
  <2>3. QED BY <1>1, <1>3, <2>1, <2>2 DEF Opens
<1>4. CASE UNCHANGED <<run, pos>> /\ (pc' = "brackets" => pc = "brackets")
  BY <1>1, <1>4 DEF Opens, HandleWritten, CollectSegment
<1>5. QED BY <1>2, <1>3, <1>4, OnlyPasses

\* What is noted of a late reaper stays noted; only a stop that was answered adds a segment.
LEMMA OnlyCollects ==
    ASSUME Next
    PROVE  /\ shadowed \subseteq shadowed'
           /\ CollectSegment \/ segments' \subseteq segments
PROOF
<1>1. CASE StartRun
  BY <1>1 DEF goroutines, history, StartRun
<1>2. CASE SweepStaleSessions
  BY <1>2 DEF goroutines, history, SweepStaleSessions, Visit, Visited
<1>3. CASE SweepDone
  BY <1>3 DEF goroutines, history, SweepDone
<1>4. CASE BracketsOver
  BY <1>4 DEF goroutines, history, BracketsOver, Finalize
<1>5. CASE FinalizeSessionDir
  BY <1>5 DEF goroutines, history, FinalizeSessionDir, Visit, Visited
<1>6. CASE EndRun
  BY <1>6 DEF goroutines, history, EndRun
<1>7. CASE SpawnFails
  BY <1>7 DEF goroutines, history, SpawnFails, Finalize, Dispatching
<1>8. CASE SpawnSession
  BY <1>8
     DEF goroutines, history, SpawnSession, Dispatching, SpawnSystemdUnit, SpawnSetsidProcess
<1>9. CASE WriteSessionHandle
  BY <1>9 DEF goroutines, history, WriteSessionHandle, Truncate
<1>10. CASE HandleWritten
  BY <1>10 DEF goroutines, history, HandleWritten, Write
<1>11. CASE PersistFails
  BY <1>11 DEF goroutines, history, PersistFails
<1>12. CASE UndoSpawn
  BY <1>12 DEF goroutines, history, UndoSpawn, Finalize
<1>13. CASE SeamStop
  BY <1>13 DEF goroutines, history, SeamStop, Dispatching, Finalize
<1>14. CASE StopAnswered
  BY <1>14 DEF goroutines, history, StopAnswered
<1>15. CASE StopGivesUp
  BY <1>15 DEF goroutines, history, StopGivesUp
<1>16. CASE MarkStopped
  BY <1>16 DEF goroutines, history, MarkStopped, Truncate
<1>17. CASE MarkedStopped
  BY <1>17 DEF goroutines, history, MarkedStopped, Write
<1>18. CASE CollectSegment
  BY <1>18 DEF goroutines, history, CollectSegment
<1>19. CASE Crash
  BY <1>19 DEF goroutines, history, Crash
<1>20. CASE RecorderExits
  BY <1>20 DEF goroutines, history, RecorderExits
<1>21. CASE RecorderWedges
  BY <1>21 DEF goroutines, history, RecorderWedges
<1>22. CASE ReaperMarks
  BY <1>22 DEF goroutines, history, ReaperMarks, Truncate
<1>23. CASE ReaperMarked
  BY <1>23 DEF goroutines, history, ReaperMarked, Write
<1>24. QED
  BY <1>1, <1>2, <1>3, <1>4, <1>5, <1>6, <1>7, <1>8, <1>9, <1>10, <1>11, <1>12, <1>13, <1>14,
     <1>15, <1>16, <1>17, <1>18, <1>19, <1>20, <1>21, <1>22, <1>23
     DEF Next, Runner

\* The recorder of the open bracket c has no rival that writes or is written about.
LEMMA NoRival ==
    ASSUME Types, LateInv, pc = "brackets", NEW c \in DOMAIN Plan, Opens(c),
           <<run, c>> \notin shadowed
    PROVE  /\ \A q \in waiting \cup marking : KeyOf(q) = KeyOf(<<run, c>>) => q = <<run, c>>
           /\ job.stage \in Spawning => KeyOf(job.rec) # KeyOf(<<run, c>>)
<1>1. /\ DOMAIN Plan = 1..Len(Plan) /\ Len(Plan) \in Nat /\ pos \in Nat /\ run \in Nat
      /\ KeyOf(<<run, c>>) = <<run, Plan[c].session>>
  BY Shapes, CapturesAssumption DEF Types, PlaceTypes, KeyOf
<1>2. job.stage \in Spawning => KeyOf(job.rec) # KeyOf(<<run, c>>)
  <2>1. SUFFICES ASSUME job.stage \in Spawning, Plan[pos].session = Plan[c].session
                 PROVE  FALSE
    BY <1>1 DEF Types, JobTypes, KeyOf, Here
  <2>2. pos \in DOMAIN Plan /\ Plan[pos].op = "start"
    BY <1>1, <2>1 DEF Types, PlaceTypes, JobTypes
  <2>3. QED BY <1>1, <2>1, <2>2, TakeTurns DEF Opens, Types
<1>3. ASSUME NEW q \in waiting \cup marking, KeyOf(q) = KeyOf(<<run, c>>)
      PROVE  q = <<run, c>>
  <2>1. /\ q \in Recorders /\ Past(q) /\ q = <<q[1], q[2]>> /\ q[1] = run
        /\ q[2] \in DOMAIN Plan /\ Plan[q[2]].session = Plan[c].session
    BY <1>1, <1>3, Shapes DEF Types, RecorderTypes, KeyOf
  <2>2. q[2] < pos
    BY <1>1, <1>2, <1>3, <2>1 DEF Past, Types, JobTypes, Here
  <2>3. ~(q[2] < c)
    BY <1>1, <1>3, <2>1 DEF LateInv, Opens
  <2>4. ~(c < q[2])
    BY <1>1, <2>1, <2>2 DEF Opens
  <2>5. QED BY <1>1, <2>1, <2>3, <2>4
<1>4. QED BY <1>2, <1>3

\* Each step keeps the names in the directory of a bracket that stays open.
LEMMA NamedStep ==
    ASSUME Types, SetsidInv, LateInv, OpenInv, Next,
           pc = "brackets", pc' = "brackets", run' = run,
           NEW c \in DOMAIN Plan, Opens(c), <<run, c>> \notin shadowed',
           HandleWritten \/ CollectSegment => Plan[pos].session # Plan[c].session
    PROVE  Named(c)'
PROOF
<1> DEFINE k == KeyOf(<<run, c>>)
<1>a. <<run, c>> \notin shadowed
  BY OnlyCollects
<1>b. /\ \/ disk[k].rec = <<run, c>>
         \/ /\ disk[k].rec = NoRecorder
            /\ \/ job.stage = "marking" /\ job.rec = <<run, c>>
               \/ "setsid" \in setup.transports
      /\ job.stage \in {"stop", "mark", "marking"} /\ KeyOf(job.rec) = k => job.rec = <<run, c>>
  BY <1>a DEF OpenInv, Named
<1>c. /\ \A q \in waiting \cup marking : KeyOf(q) = k => q = <<run, c>>
      /\ job.stage \in Spawning => KeyOf(job.rec) # k
  BY <1>a, NoRival
<1>d. /\ KeyOf(<<run, c>>)' = k /\ setup' = setup /\ (\A r : KeyOf(r)' = KeyOf(r))
      /\ k \in Keys /\ k = <<run, Plan[c].session>>
  BY NamesStay, SetupStays, Shapes DEF KeyOf, Types, PlaceTypes, Recorders
<1>e. SUFFICES /\ \/ disk'[k].rec = <<run, c>>
                  \/ /\ disk'[k].rec = NoRecorder
                     /\ \/ job'.stage = "marking" /\ job'.rec = <<run, c>>
                        \/ "setsid" \in setup.transports
               /\ job'.stage \in {"stop", "mark", "marking"} /\ KeyOf(job'.rec) = k
                     => job'.rec = <<run, c>>
  BY <1>d DEF Named
<1> HIDE DEF k
<1>1. CASE StartRun
  BY <1>1, <1>b, <1>c, <1>d
     DEF Types, HandleTypes, JobTypes, RecorderTypes, SetsidInv, Spawning, Stopping, Idle,
         Handle, goroutines, history, StartRun
<1>2. CASE SweepStaleSessions
  BY <1>2, <1>b, <1>c, <1>d
     DEF Types, HandleTypes, JobTypes, RecorderTypes, SetsidInv, Spawning, Stopping, Idle,
         Handle, goroutines, history, SweepStaleSessions, Visit, Visited
<1>3. CASE SweepDone
  BY <1>3, <1>b, <1>c, <1>d
     DEF Types, HandleTypes, JobTypes, RecorderTypes, SetsidInv, Spawning, Stopping, Idle,
         Handle, goroutines, history, SweepDone
<1>4. CASE BracketsOver
  BY <1>4, <1>b, <1>c, <1>d
     DEF Types, HandleTypes, JobTypes, RecorderTypes, SetsidInv, Spawning, Stopping, Idle,
         Handle, goroutines, history, BracketsOver, Finalize
<1>5. CASE FinalizeSessionDir
  BY <1>5, <1>b, <1>c, <1>d
     DEF Types, HandleTypes, JobTypes, RecorderTypes, SetsidInv, Spawning, Stopping, Idle,
         Handle, goroutines, history, FinalizeSessionDir, Visit, Visited
<1>6. CASE EndRun
  BY <1>6, <1>b, <1>c, <1>d
     DEF Types, HandleTypes, JobTypes, RecorderTypes, SetsidInv, Spawning, Stopping, Idle,
         Handle, goroutines, history, EndRun
<1>7. CASE SpawnFails
  BY <1>7, <1>b, <1>c, <1>d
     DEF Types, HandleTypes, JobTypes, RecorderTypes, SetsidInv, Spawning, Stopping, Idle,
         Handle, goroutines, history, SpawnFails, Finalize, Dispatching
<1>8. CASE SpawnSession
  BY <1>8, <1>b, <1>c, <1>d
     DEF Types, HandleTypes, JobTypes, RecorderTypes, SetsidInv, Spawning, Stopping, Idle,
         Handle, goroutines, history, SpawnSession, Dispatching, SpawnSystemdUnit,
         SpawnSetsidProcess
<1>9. CASE WriteSessionHandle
  BY <1>9, <1>b, <1>c, <1>d
     DEF Types, HandleTypes, JobTypes, RecorderTypes, SetsidInv, Spawning, Stopping, Idle,
         Handle, goroutines, history, WriteSessionHandle, Truncate
<1>10. CASE HandleWritten
  BY <1>10, <1>b, <1>c, <1>d
     DEF Types, HandleTypes, JobTypes, RecorderTypes, SetsidInv, Spawning, Stopping, Idle,
         Handle, goroutines, history, HandleWritten, Write
<1>11. CASE PersistFails
  BY <1>11, <1>b, <1>c, <1>d
     DEF Types, HandleTypes, JobTypes, RecorderTypes, SetsidInv, Spawning, Stopping, Idle,
         Handle, goroutines, history, PersistFails
<1>12. CASE UndoSpawn
  BY <1>12, <1>b, <1>c, <1>d
     DEF Types, HandleTypes, JobTypes, RecorderTypes, SetsidInv, Spawning, Stopping, Idle,
         Handle, goroutines, history, UndoSpawn, Finalize
<1>13. CASE SeamStop
  <2> DEFINE h == <<run, Plan[pos].session>>
  <2>1. /\ disk' = disk /\ job = Idle /\ pos \in 1..Len(Plan)
        /\ \/ job' = [stage |-> "stop", rec |-> disk[h].rec] /\ disk[h].status = "active"
           \/ job'.stage = "collect" \/ job' = Idle
    BY <1>13, <1>d DEF SeamStop, Dispatching, Finalize, Types, PlaceTypes, Idle
  <2>2. job' = [stage |-> "stop", rec |-> disk[h].rec] /\ disk[h].status = "active"
          => disk[h].rec \in Recorders /\ KeyOf(disk[h].rec) = h /\ disk[h].rec # NoRecorder
    <3>1. h \in Keys
      BY <2>1, Shapes DEF Types, PlaceTypes
    <3>2. QED BY <3>1, Shapes DEF Types, HandleTypes
  <2>3. QED BY <1>b, <1>d, <2>1, <2>2 DEF Idle
<1>14. CASE StopAnswered
  BY <1>14, <1>b, <1>c, <1>d
     DEF Types, HandleTypes, JobTypes, RecorderTypes, SetsidInv, Spawning, Stopping, Idle,
         Handle, goroutines, history, StopAnswered
<1>15. CASE StopGivesUp
  BY <1>15, <1>b, <1>c, <1>d
     DEF Types, HandleTypes, JobTypes, RecorderTypes, SetsidInv, Spawning, Stopping, Idle,
         Handle, goroutines, history, StopGivesUp
<1>16. CASE MarkStopped
  BY <1>16, <1>b, <1>c, <1>d
     DEF Types, HandleTypes, JobTypes, RecorderTypes, SetsidInv, Spawning, Stopping, Idle,
         Handle, goroutines, history, MarkStopped, Truncate
<1>17. CASE MarkedStopped
  BY <1>17, <1>b, <1>c, <1>d
     DEF Types, HandleTypes, JobTypes, RecorderTypes, SetsidInv, Spawning, Stopping, Idle,
         Handle, goroutines, history, MarkedStopped, Write
<1>18. CASE CollectSegment
  BY <1>18, <1>b, <1>c, <1>d
     DEF Types, HandleTypes, JobTypes, RecorderTypes, SetsidInv, Spawning, Stopping, Idle,
         Handle, goroutines, history, CollectSegment
<1>19. CASE Crash
  BY <1>19, <1>b, <1>c, <1>d
     DEF Types, HandleTypes, JobTypes, RecorderTypes, SetsidInv, Spawning, Stopping, Idle,
         Handle, goroutines, history, Crash
<1>20. CASE RecorderExits
  BY <1>20, <1>b, <1>c, <1>d
     DEF Types, HandleTypes, JobTypes, RecorderTypes, SetsidInv, Spawning, Stopping, Idle,
         Handle, goroutines, history, RecorderExits
<1>21. CASE RecorderWedges
  BY <1>21, <1>b, <1>c, <1>d
     DEF Types, HandleTypes, JobTypes, RecorderTypes, SetsidInv, Spawning, Stopping, Idle,
         Handle, goroutines, history, RecorderWedges
<1>22. CASE ReaperMarks
  BY <1>22, <1>b, <1>c, <1>d
     DEF Types, HandleTypes, JobTypes, RecorderTypes, SetsidInv, Spawning, Stopping, Idle,
         Handle, goroutines, history, ReaperMarks, Truncate
<1>23. CASE ReaperMarked
  BY <1>23, <1>b, <1>c, <1>d
     DEF Types, HandleTypes, JobTypes, RecorderTypes, SetsidInv, Spawning, Stopping, Idle,
         Handle, goroutines, history, ReaperMarked, Write
<1>24. QED
  BY <1>1, <1>2, <1>3, <1>4, <1>5, <1>6, <1>7, <1>8, <1>9, <1>10, <1>11, <1>12, <1>13, <1>14,
     <1>15, <1>16, <1>17, <1>18, <1>19, <1>20, <1>21, <1>22, <1>23
     DEF Next, Runner

\* The handle of an open bracket goes on naming its recorder.
LEMMA OpenStep ==
    ASSUME Types, SetsidInv, LateInv, OpenInv, Next
    PROVE  OpenInv'
PROOF
<1>1. SUFFICES ASSUME pc' = "brackets", NEW c \in DOMAIN Plan, Opens(c)',
                      <<run', c>> \notin shadowed'
               PROVE  Named(c)'
  <2>1. DOMAIN Plan' = DOMAIN Plan
    BY NamesStay
  <2>2. QED BY <2>1 DEF OpenInv
<1>2. CASE HandleWritten /\ c = pos
  <2>1. /\ job.rec = <<run, c>> /\ job.rec \in Recorders /\ KeyOf(job.rec) \in Keys
        /\ run' = run /\ job' = Idle
    BY <1>2, Shapes, NamesStay DEF HandleWritten, Types, JobTypes, Spawning, Here
  <2>2. disk'[KeyOf(job.rec)].rec = job.rec
    BY <1>2, <2>1 DEF HandleWritten, Write, Handle, Types, HandleTypes
  <2>3. QED BY <2>1, <2>2, NamesStay DEF Named, Idle
<1>3. CASE /\ pc = "brackets" /\ run' = run /\ Opens(c)
           /\ HandleWritten \/ CollectSegment => Plan[pos].session # Plan[c].session
  BY <1>1, <1>3, NamedStep
<1>4. QED BY <1>1, <1>2, <1>3, OpensBefore

\* The segment that a stop collects is that of its bracket.
LEMMA SegmentsStep ==
    ASSUME Types, LatestInv, OpenInv, SegmentsHonest, Next
    PROVE  SegmentsHonest'
PROOF
<1>1. /\ DOMAIN Plan = 1..Len(Plan) /\ Len(Plan) \in Nat /\ pos \in Nat
      /\ Plan' = Plan /\ setup' = setup /\ shadowed \subseteq shadowed'
  BY Shapes, NamesStay, SetupStays, OnlyCollects DEF Types, PlaceTypes
<1>2. \A r, s : StartOf(r, s)' = StartOf(r, s)
  BY <1>1 DEF StartOf
<1>3. CASE segments' \subseteq segments
  BY <1>1, <1>2, <1>3 DEF SegmentsHonest
<1>4. CASE CollectSegment
  <2> DEFINE k == <<run, Plan[pos].session>>
             seg == <<Here, disk[k].rec>>
  <2>1. /\ segments' = segments \cup {seg}
        /\ job.stage = "collect" /\ pc = "brackets"
        /\ pos \in DOMAIN Plan /\ Plan[pos].op = "stop"
        /\ KeyOf(job.rec) = k /\ job.rec \in Recorders /\ Past(job.rec)
    BY <1>1, <1>4 DEF CollectSegment, Types, PlaceTypes, JobTypes, Stopping
  <2>2. /\ job.rec[1] = run /\ job.rec[2] \in DOMAIN Plan /\ job.rec[2] < pos
        /\ Plan[job.rec[2]].session = Plan[pos].session
    BY <1>1, <2>1, Shapes DEF Past, KeyOf, Types, PlaceTypes, Spawning
  <2>3. PICK c \in DOMAIN Plan :
            /\ c < pos /\ Plan[c].session = Plan[pos].session
            /\ \A j \in (c + 1)..(pos - 1) : Plan[j].session # Plan[pos].session
    BY <2>1, <2>2 DEF LatestInv
  <2>4. Plan[c].op = "start"
    BY <1>1, <2>1, <2>3, StartOrStop, TakeTurns DEF Types
  <2>5. Opens(c) /\ StartOf(<<run, c>>, Here) /\ KeyOf(<<run, c>>) = k
    BY <1>1, <2>1, <2>3, <2>4 DEF Opens, StartOf, Here, KeyOf
  <2>6. CASE <<run, c>> \in shadowed
    BY <1>1, <1>2, <2>1, <2>5, <2>6 DEF SegmentsHonest
  <2>7. CASE Named(c)
    <3>1. \/ disk[k].rec = <<run, c>>
          \/ disk[k].rec = NoRecorder /\ "setsid" \in setup.transports
      BY <2>1, <2>5, <2>7 DEF Named
    <3>2. StartOf(seg[2], seg[1]) \/ (seg[2] = NoRecorder /\ "setsid" \in setup.transports)
      BY <2>5, <3>1
    <3>3. QED BY <1>1, <1>2, <2>1, <3>2 DEF SegmentsHonest
  <2>8. QED BY <2>1, <2>5, <2>6, <2>7 DEF OpenInv
<1>5. QED BY <1>3, <1>4, OnlyCollects

-----------------------------------------------------------------------------
(* Theorems *)

\* Nothing is up and nothing is on disk to begin with.
LEMMA InitIInv == Init => IInv
<1> SUFFICES ASSUME Init
             PROVE  IInv
  OBVIOUS
<1>1. up = {} /\ units = {} /\ waiting = {} /\ marking = {} /\ todo = {} /\ pc = "off" /\ job = Idle
  BY DEF Init
<1>2. disk = [k \in Keys |-> [status |-> "none", rec |-> NoRecorder]]
  BY DEF Init, Handle
<1>3. PlaceTypes
  BY SetupsAssumption, CapturesAssumption DEF PlaceTypes, Init, Plan
<1>4. RecorderTypes
  BY <1>1 DEF RecorderTypes
<1>5. HandleTypes
  BY <1>2 DEF HandleTypes, Statuses
<1>6. JobTypes
  BY <1>1 DEF JobTypes, Idle, JobStages, Spawning, Stopping
<1>7. StartedInv /\ ReaperInv /\ RecordedInv /\ StopInv /\ VisitInv
  BY <1>1 DEF StartedInv, ReaperInv, RecordedInv, StopInv, VisitInv
<1>8. ClosedInv
  BY <1>1, <1>2 DEF ClosedInv
<1>9. SegmentInv
  BY <1>1 DEF SegmentInv, LatestInv, SetsidInv, LateInv, OpenInv, SegmentsHonest, Init
<1>10. QED
  BY <1>3, <1>4, <1>5, <1>6, <1>7, <1>8, <1>9 DEF IInv, Types

\* A stuttering step changes nothing the invariant reads.
LEMMA StutterIInv ==
    ASSUME IInv, UNCHANGED vars
    PROVE  IInv'
<1> USE DEF vars, goroutines, history
<1>1. /\ Plan' = Plan /\ Keys' = Keys /\ Recorders' = Recorders
      /\ \A r : KeyOf(r)' = KeyOf(r) /\ Past(r)' = Past(r) /\ Excused(r)' = Excused(r)
  BY DEF Plan, Keys, Recorders, KeyOf, Past, Excused
<1>2. Types'
  BY <1>1 DEF IInv, Types, PlaceTypes, RecorderTypes, HandleTypes, JobTypes, Here
<1>3. StartedInv' /\ ReaperInv' /\ RecordedInv' /\ StopInv'
  BY <1>1 DEF IInv, StartedInv, StopBehind, ReaperInv, RecordedInv, StopInv
<1>4. VisitInv' /\ ClosedInv'
  BY <1>1 DEF IInv, VisitInv, ToVisit, ClosedInv
<1>5. /\ \A c : Opens(c)' = Opens(c) /\ Named(c)' = Named(c)
      /\ \A r, s : StartOf(r, s)' = StartOf(r, s)
  BY <1>1 DEF Opens, Named, StartOf
<1>6. LatestInv' /\ SetsidInv'
  BY <1>1 DEF IInv, SegmentInv, LatestInv, SetsidInv
<1>7. LateInv' /\ OpenInv' /\ SegmentsHonest'
  BY <1>1, <1>5 DEF IInv, SegmentInv, LateInv, OpenInv, SegmentsHonest
<1>8. QED
  BY <1>2, <1>3, <1>4, <1>6, <1>7 DEF IInv, SegmentInv

\* The inductive invariant of the recorders (session_service.go, session_seam.go): which
\* handle names which recorder, and who may still write it.
THEOREM Invariance == Spec => []IInv
<1>1. IInv /\ [Next]_vars => IInv'
  <2>1. ASSUME IInv, Next
        PROVE  IInv'
    BY <2>1, TypesStep, StartedStep, ReaperStep, RecordedStep, StopStep, VisitStep, ClosedStep,
       SetsidStep, LatestStep, LateStep, OpenStep, SegmentsStep
       DEF IInv, SegmentInv
  <2>2. QED BY <2>1, StutterIInv
<1>2. QED BY InitIInv, <1>1, PTL DEF Spec

\* A run that has ended by itself has left no recorder of its own behind, on any of its
\* paths, except one with an excuse (finalizeSessionDir).
THEOREM NothingIsLeft == Spec => []FinalizerLeavesNothing
<1>1. IInv => FinalizerLeavesNothing
  BY DEF IInv, VisitInv, FinalizerLeavesNothing
<1>2. QED BY Invariance, <1>1, PTL

\* The sweep of a run finds every recorder a killed run has left (sweepStaleSessions).
THEOREM SweepFindsAll == Spec => []SweepRecovers
<1>1. IInv => SweepRecovers
  <2>1. SUFFICES ASSUME IInv, pc = "brackets", NEW r \in up, r[1] < run
                 PROVE  Excused(r)
    BY DEF SweepRecovers
  <2>2. run \in Nat
    BY <2>1, CapturesAssumption DEF IInv, Types, PlaceTypes
  <2>3. QED BY <2>1, <2>2 DEF IInv, VisitInv
<1>2. QED BY Invariance, <1>1, PTL

\* A run that has ended by itself has left no handle that still says active: no later
\* sweep signals the process group it names.
THEOREM HandlesAreClosed == Spec => []EndedRunsStayClosed
<1>1. IInv => EndedRunsStayClosed
  BY DEF IInv, ClosedInv, EndedRunsStayClosed
<1>2. QED BY Invariance, <1>1, PTL

\* The segment of a stop is that of the recorder its bracket has started, or it has no span,
\* or a late reaper of the session was there when that recorder was spawned (evidence.go).
THEOREM SegmentsAreHonest == Spec => []SegmentsHonest
<1>1. IInv => SegmentsHonest
  BY DEF IInv, SegmentInv
<1>2. QED BY Invariance, <1>1, PTL

=============================================================================
