-------------------------- MODULE HarnessLoop_proofs --------------------------
(***************************************************************************)
(* The harness loop for every set of steps and every configuration: types, *)
(* the watchdog against the scoring, the bound of the plateau, and the     *)
(* report as the history of the iterations.  IInv is inductive; its parts  *)
(* are proved one after the other, each from those before it.              *)
(***************************************************************************)
EXTENDS HarnessLoop, FiniteSetTheorems, TLAPS

\* The places of a run before, within and behind an iteration.
Before == {"lock", "clone", "top", "scope"}
Inside == {"dispatch", "running", "join", "score", "commit", "count"}
Reported == {"push", "report", "cleanup", "done"}

Iteration ==
    [score : 0..Cardinality(Steps), step : {NoSteps} \cup [Steps -> Verdicts],
     failed : BOOLEAN, delta : Int, counter : Nat]

\* What the loop keeps of its iterations.
LoopTypes ==
    /\ iters \in Seq(Iteration)
    /\ current \in Iteration
    /\ best \in 0..Cardinality(Steps) /\ prev \in 0..Cardinality(Steps)
    /\ bestIter \in 0..Len(iters) /\ counter \in Nat

\* What is true or false, and the exit reason.
Flags ==
    /\ exit \in {"", "solved-all", "dry-run", "plateau"}
    /\ orphan \in BOOLEAN /\ cancelled \in BOOLEAN /\ wdFired \in BOOLEAN

\* Everything else.
RunTypes ==
    /\ setup \in Setups
    /\ pc \in PCs
    /\ live \subseteq Steps
    /\ agent \in {"none", "alive", "gone"}
    /\ wd \in {"off", "waiting", "probing", "gone"}
    /\ wdBest \in -1..Cardinality(Steps) /\ wdIdle \in 0..NoImprovement
    /\ errors \in 0..ProbeErrors
    /\ clone \in {"none", "present", "gone"}
    /\ commits \subseteq Nat /\ pushed \subseteq commits

\* The watchdog lives within one iteration, from its start to the join.
WatchInv == wd \in {"waiting", "probing"} => pc \in {"dispatch", "running", "join"}

\* A --dry-run run has no iteration but the one that ends it.
DryInv ==
    setup.dryRun =>
        /\ Len(iters) <= 1
        /\ pc \in Before => iters = <<>>
        /\ pc \notin Inside

\* In any other the iterations since the last improvement are counted, and the count ends
\* the loop.
PlateauInv ==
    ~setup.dryRun /\ setup.plateau > 0 =>
        /\ Len(iters) <= setup.plateau * best + counter
        /\ counter <= setup.plateau
        /\ pc \in Before \cup Inside => counter < setup.plateau

\* An iteration's score counts the steps it solved.
Counted(it) == it.score = Cardinality(Solved(it.step))

\* The score the next delta is taken from.
PrevInv == prev = Prior.score

\* The iteration in progress, between its scoring and its count.
CurrentInv ==
    pc \in {"commit", "count"} =>
        /\ Counted(current)
        /\ current.failed => current.score = Prior.score

ItersInv ==
    \A k \in DOMAIN iters :
        /\ Counted(iters[k])
        /\ iters[k].delta = iters[k].score - ScoreBefore(k)
        /\ iters[k].failed => iters[k].delta = 0

BestInv ==
    /\ \A k \in DOMAIN iters : iters[k].score <= best
    /\ bestIter = 0 => best = 0
    /\ bestIter # 0 => /\ iters[bestIter].score = best
                       /\ \A k \in 1..(bestIter - 1) : iters[k].score < best

ReportInv ==
    pc \in Reported =>
        report = [best |-> best, bestIter |-> bestIter, run |-> Len(iters), final |-> Prior.step]

\* The agent of a live plan is not caught tampering, and once there are verdicts there are
\* verdicts for good: an iteration that cannot be scored inherits them.
Judged == {NoSteps} \cup [Steps -> Verdicts \ {"tampered"}]

JudgedInv ==
    /\ \A k \in DOMAIN iters :
          /\ iters[k].step \in Judged
          /\ Steps # {} /\ DOMAIN iters[k].step = {} =>
                \A j \in 1..(k - 1) : DOMAIN iters[j].step = {}
    /\ pc \in {"commit", "count"} =>
          /\ current.step \in Judged
          /\ Steps # {} /\ DOMAIN current.step = {} => DOMAIN Prior.step = {}

\* The counter counts from the best iteration on.
CounterInv == ~setup.dryRun => counter = Len(iters) - bestIter

\* No iteration is made any more once one has solved everything.
ProgressInv ==
    Steps # {} /\ ~setup.dryRun /\ pc \in Before \cup Inside =>
        best < Cardinality(Steps) \/ (pc = "top" /\ Prior.score = Cardinality(Steps))

ExitInv ==
    /\ exit = "solved-all" => pc \notin Before \cup Inside /\ Solved(Prior.step) = Steps
    /\ exit = "plateau" =>
          /\ pc \notin Before \cup Inside
          /\ ~setup.dryRun
          /\ setup.plateau > 0 /\ counter >= setup.plateau
          /\ Steps # {} => best < Cardinality(Steps)

IInv == LoopTypes /\ Flags /\ RunTypes /\ WatchInv /\ DryInv /\ PlateauInv
        /\ PrevInv /\ CurrentInv /\ ItersInv /\ BestInv /\ ReportInv
        /\ JudgedInv /\ CounterInv /\ ProgressInv /\ ExitInv

-----------------------------------------------------------------------------
(* Scores *)

\* What the constants are.
LEMMA Bounds ==
    /\ IsFiniteSet(Steps) /\ Cardinality(Steps) \in Nat
    /\ NoImprovement \in Nat /\ ProbeErrors \in Nat
<1>1. IsFiniteSet(Steps) /\ NoImprovement \in Nat /\ ProbeErrors \in Nat
      BY HarnessAssumption, Zenon
<1> QED BY <1>1, FS_CardinalityType

LEMMA PlateauType ==
    ASSUME setup \in Setups
    PROVE  setup.plateau \in Nat
BY HarnessAssumption

\* A step's verdict is one of the classes.
LEMMA ClassifyType ==
    ASSUME NEW pre, NEW post
    PROVE  Classify(pre, post) \in Verdicts
BY DEF Classify, Verdicts

\* However many steps were solved, it is no more than there are.
LEMMA ScoreType ==
    ASSUME NEW step \in {NoSteps} \cup [Steps -> Verdicts]
    PROVE  Cardinality(Solved(step)) \in 0..Cardinality(Steps)
<1>1. Solved(step) \in SUBSET Steps BY DEF Solved, NoSteps
<1> QED BY <1>1, Bounds, FS_Subset, FS_CardinalityType

\* Nothing is solved where nothing was judged.
LEMMA BlankCounts == Counted(Blank) /\ Blank \in Iteration
<1>1. Solved(NoSteps) = {} BY DEF Solved, NoSteps
<1>2. Cardinality(Steps) \in Nat BY Bounds
<1> QED BY <1>1, <1>2, FS_EmptySet DEF Counted, Blank, Iteration

\* The verdicts of a scoring are verdicts of the steps.
LEMMA VerdictsType ==
    ASSUME NEW status
    PROVE  VerdictsOf(status) \in [Steps -> Verdicts]
BY ClassifyType DEF VerdictsOf

\* An iteration that is counted stays one.
LEMMA CountedIteration ==
    ASSUME NEW it \in Iteration, NEW d \in Int, NEW c \in Nat
    PROVE  [it EXCEPT !.delta = d, !.counter = c] \in Iteration
BY DEF Iteration

\* The last iteration, or the blank one.
LEMMA PriorType ==
    ASSUME iters \in Seq(Iteration)
    PROVE  Prior \in Iteration
BY BlankCounts DEF Prior

-----------------------------------------------------------------------------
(* The parts of IInv, step by step *)

LEMMA InitIInv == Init => IInv
<1> SUFFICES ASSUME Init PROVE IInv OBVIOUS
<1>0. Cardinality(Steps) \in Nat BY Bounds
<1>1. LoopTypes
  <2>1. iters = <<>> /\ current = Blank /\ best = 0 /\ prev = 0 /\ bestIter = 0 /\ counter = 0
        BY DEF Init
  <2> QED BY <1>0, <2>1, BlankCounts DEF LoopTypes
<1>2. Flags BY DEF Flags, Init
<1>6. RunTypes
  <2>1. setup \in Setups /\ pc = "lock" /\ live \in SUBSET Steps /\ agent = "none"
        BY DEF Init
  <2>2. wd = "off" /\ wdBest = -1 /\ wdIdle = 0 /\ errors = 0 BY DEF Init
  <2>3. clone = "none" /\ commits = {} /\ pushed = {} BY DEF Init
  <2> QED BY <2>1, <2>2, <2>3, Bounds DEF RunTypes, PCs
<1>3. WatchInv BY DEF WatchInv, Init
<1>4. DryInv
  <2>1. iters = <<>> /\ pc = "lock" BY DEF Init
  <2> QED BY <2>1 DEF DryInv, Inside
<1>7. PlateauInv
  <2>1. iters = <<>> /\ pc = "lock" /\ best = 0 /\ counter = 0 BY DEF Init
  <2>2. setup.plateau \in Nat BY PlateauType DEF Init
  <2> QED BY <2>1, <2>2 DEF PlateauInv
<1>5. PrevInv /\ CurrentInv /\ ItersInv /\ BestInv /\ ReportInv
  <2>1. iters = <<>> /\ pc = "lock" /\ best = 0 /\ bestIter = 0 /\ prev = 0 BY DEF Init
  <2>2. PrevInv BY <2>1 DEF PrevInv, Prior, Blank
  <2>3. CurrentInv /\ ReportInv BY <2>1 DEF CurrentInv, ReportInv, Reported
  <2>4. DOMAIN iters = {} BY <2>1
  <2>5. ItersInv BY <2>4 DEF ItersInv
  <2>6. BestInv BY <2>1, <2>4 DEF BestInv
  <2> QED BY <2>2, <2>3, <2>5, <2>6
<1>8. JudgedInv /\ CounterInv /\ ProgressInv /\ ExitInv
  <2>1. iters = <<>> /\ pc = "lock" /\ best = 0 /\ bestIter = 0 /\ counter = 0 BY DEF Init
  <2>2. DOMAIN iters = {} /\ Len(iters) = 0 BY <2>1
  <2>3. JudgedInv BY <2>1, <2>2 DEF JudgedInv
  <2>4. CounterInv BY <2>1, <2>2 DEF CounterInv
  <2>5. ProgressInv BY <1>0, <2>1, Bounds, FS_EmptySet DEF ProgressInv
  <2>6. exit = "" BY DEF Init
  <2>7. ExitInv BY <2>6, Zenon DEF ExitInv
  <2> QED BY <2>3, <2>4, <2>5, <2>7
<1> QED BY <1>1, <1>2, <1>3, <1>4, <1>5, <1>6, <1>7, <1>8 DEF IInv

LEMMA LoopTypesStep ==
    ASSUME LoopTypes, [Next]_vars
    PROVE  LoopTypes'
<1> USE DEF LoopTypes
<1>0. Cardinality(Steps) \in Nat BY Bounds
<1>1. CASE UNCHANGED <<iters, current, best, prev, bestIter, counter>> BY <1>1
<1>2. CASE DryRun
  <2>1. iters' = Append(iters, Blank) /\ UNCHANGED <<current, best, prev, bestIter, counter>>
        BY <1>2 DEF DryRun
  <2> QED BY <2>1, BlankCounts
<1>3. CASE ScoreFails
  <2>1. Prior \in Iteration BY PriorType
  <2>2. current' = [Blank EXCEPT !.failed = TRUE, !.score = Prior.score, !.step = Prior.step]
        BY <1>3 DEF ScoreFails
  <2>3. current' \in Iteration BY <2>1, <2>2, BlankCounts DEF Iteration
  <2> QED BY <1>3, <2>3 DEF ScoreFails, loop
<1>4. CASE ScoreAnswers
  <2>1. PICK status \in Scorings :
            current' = [Blank EXCEPT !.score = Cardinality(Solved(VerdictsOf(status))),
                                     !.step = VerdictsOf(status)]
        BY <1>4 DEF ScoreAnswers
  <2>2. VerdictsOf(status) \in [Steps -> Verdicts] BY VerdictsType
  <2>3. Cardinality(Solved(VerdictsOf(status))) \in 0..Cardinality(Steps) BY <2>2, ScoreType
  <2>4. current' \in Iteration BY <2>1, <2>2, <2>3, BlankCounts DEF Iteration
  <2> QED BY <1>4, <2>4 DEF ScoreAnswers, loop
<1>5. CASE CountIteration
  <2>1. current.score \in 0..Cardinality(Steps) BY DEF Iteration
  <2>2. best' \in 0..Cardinality(Steps) /\ bestIter' \in {bestIter, Len(iters) + 1} /\ counter' \in Nat
        BY <1>5, <2>1 DEF CountIteration
  <2>6. current \in Iteration /\ current.score - prev \in Int /\ counter' \in Nat
        BY <1>0, <2>1, <2>2
  <2>3. [current EXCEPT !.delta = current.score - prev, !.counter = counter'] \in Iteration
        BY <2>6, CountedIteration, Zenon
  <2>4. iters' \in Seq(Iteration) /\ Len(iters') = Len(iters) + 1
        BY <1>5, <2>3 DEF CountIteration
  <2>5. prev' = current.score /\ current' = current BY <1>5 DEF CountIteration
  <2> QED BY <2>1, <2>2, <2>4, <2>5
<1>6. CASE Next /\ ~DryRun /\ ~ScoreFails /\ ~ScoreAnswers /\ ~CountIteration
  <2>1. UNCHANGED <<iters, current, best, prev, bestIter, counter>>
        BY <1>6
           DEF Next, Harness, Agent, Watchdog, loop, AcquireLock, CreateClone, SolvedAll,
               StartIteration, StartWatchdog, EndHarness, StartAgent, RunnerReturns, JoinWatchdog,
               CommitIteration, PushBranch, RewriteReport, RemoveClone, AgentWorks, AgentForks,
               OrphanExits, AgentExits, KillAgent, Deadline, Tick, ProbeFails, ProbeAnswers,
               WatchdogLeaves
  <2> QED BY <2>1
<1>7. CASE UNCHANGED vars BY <1>1, <1>7 DEF vars, loop
<1> QED BY <1>2, <1>3, <1>4, <1>5, <1>6, <1>7

LEMMA FlagsStep ==
    ASSUME Flags, [Next]_vars
    PROVE  Flags'
<1> USE DEF Flags, loop, runner, watchdog, repo
<1>1. CASE AcquireLock BY <1>1, Zenon DEF AcquireLock
<1>2. CASE CreateClone BY <1>2, Zenon DEF CreateClone
<1>3. CASE SolvedAll BY <1>3, Zenon DEF SolvedAll
<1>4. CASE StartIteration BY <1>4, Zenon DEF StartIteration
<1>5. CASE DryRun BY <1>5, Zenon DEF DryRun
<1>6. CASE StartWatchdog BY <1>6, Zenon DEF StartWatchdog
<1>7. CASE CountIteration BY <1>7, Zenon DEF CountIteration
<1>8. CASE EndHarness BY <1>8, Zenon DEF EndHarness
<1>9. CASE StartAgent BY <1>9, Zenon DEF StartAgent
<1>10. CASE RunnerReturns BY <1>10, Zenon DEF RunnerReturns
<1>11. CASE JoinWatchdog BY <1>11, Zenon DEF JoinWatchdog
<1>12. CASE ScoreFails BY <1>12, Zenon DEF ScoreFails
<1>13. CASE ScoreAnswers BY <1>13, Zenon DEF ScoreAnswers
<1>14. CASE CommitIteration BY <1>14, Zenon DEF CommitIteration
<1>15. CASE PushBranch BY <1>15, Zenon DEF PushBranch
<1>16. CASE RewriteReport BY <1>16, Zenon DEF RewriteReport
<1>17. CASE RemoveClone BY <1>17, Zenon DEF RemoveClone
<1>18. CASE AgentWorks BY <1>18, Zenon DEF AgentWorks
<1>19. CASE AgentForks BY <1>19, Zenon DEF AgentForks
<1>20. CASE OrphanExits BY <1>20, Zenon DEF OrphanExits
<1>21. CASE AgentExits BY <1>21, Zenon DEF AgentExits
<1>22. CASE KillAgent BY <1>22, Zenon DEF KillAgent
<1>23. CASE Deadline BY <1>23, Zenon DEF Deadline
<1>24. CASE Tick BY <1>24, Zenon DEF Tick
<1>25. CASE ProbeFails BY <1>25, Zenon DEF ProbeFails
<1>26. CASE ProbeAnswers BY <1>26, Zenon DEF ProbeAnswers
<1>27. CASE WatchdogLeaves BY <1>27, Zenon DEF WatchdogLeaves
<1>28. CASE UNCHANGED vars BY <1>28, Zenon DEF vars
<1> QED
  BY <1>1, <1>2, <1>3, <1>4, <1>5, <1>6, <1>7, <1>8, <1>9, <1>10, <1>11, <1>12, <1>13, <1>14, <1>15,
     <1>16, <1>17, <1>18, <1>19, <1>20, <1>21, <1>22, <1>23, <1>24, <1>25, <1>26, <1>27, <1>28
     DEF Next, Harness, Agent, Watchdog

LEMMA RunTypesStep ==
    ASSUME LoopTypes, RunTypes, [Next]_vars
    PROVE  RunTypes'
<1> USE DEF RunTypes, Goto, loop, runner, watchdog, repo, PCs
<1>0. Cardinality(Steps) \in Nat BY Bounds
<1>1. CASE AcquireLock BY <1>0, <1>1 DEF AcquireLock
<1>2. CASE CreateClone BY <1>0, <1>2 DEF CreateClone
<1>3. CASE SolvedAll BY <1>0, <1>3 DEF SolvedAll
<1>4. CASE StartIteration BY <1>0, <1>4 DEF StartIteration
<1>5. CASE DryRun BY <1>0, <1>5 DEF DryRun
<1>6. CASE StartWatchdog
  <2>1. /\ pc' = "dispatch" /\ wd' \in {"off", "waiting"} /\ wdBest' = -1 /\ wdIdle' = 0 /\ errors' = 0
        /\ agent' = "none" /\ UNCHANGED <<setup, live, clone, commits, pushed>>
        BY <1>6 DEF StartWatchdog
  <2> QED BY <2>1, Bounds
<1>7. CASE CountIteration BY <1>0, <1>7 DEF CountIteration
<1>8. CASE EndHarness BY <1>0, <1>8 DEF EndHarness
<1>9. CASE StartAgent BY <1>0, <1>9 DEF StartAgent
<1>10. CASE RunnerReturns BY <1>0, <1>10 DEF RunnerReturns
<1>11. CASE JoinWatchdog
  <2>1. /\ pc' = "score" /\ wdBest' = -1 /\ wdIdle' = 0 /\ errors' = 0
        /\ UNCHANGED <<setup, live, agent, wd, clone, commits, pushed>>
        BY <1>11 DEF JoinWatchdog
  <2> QED BY <2>1, Bounds
<1>12. CASE ScoreFails BY <1>0, <1>12 DEF ScoreFails
<1>13. CASE ScoreAnswers BY <1>0, <1>13 DEF ScoreAnswers
<1>14. CASE CommitIteration
  <2>1. /\ pc' \in {"count", "failed"} /\ commits' \in {commits, commits \cup {Len(iters) + 1}}
        /\ UNCHANGED <<setup, live, agent, wd, wdBest, wdIdle, errors, clone, pushed>>
        BY <1>14, Zenon DEF CommitIteration
  <2>2. Len(iters) + 1 \in Nat BY <1>0 DEF LoopTypes
  <2> QED BY <2>1, <2>2, Bounds
<1>15. CASE PushBranch BY <1>0, <1>15 DEF PushBranch
<1>16. CASE RewriteReport BY <1>0, <1>16 DEF RewriteReport
<1>17. CASE RemoveClone BY <1>0, <1>17 DEF RemoveClone
<1>18. CASE AgentWorks BY <1>0, <1>18 DEF AgentWorks
<1>19. CASE AgentForks BY <1>0, <1>19 DEF AgentForks
<1>20. CASE OrphanExits BY <1>0, <1>20 DEF OrphanExits
<1>21. CASE AgentExits BY <1>0, <1>21 DEF AgentExits
<1>22. CASE KillAgent BY <1>0, <1>22 DEF KillAgent
<1>23. CASE Deadline BY <1>0, <1>23 DEF Deadline
<1>24. CASE Tick
  <2>1. /\ wd' = "probing" /\ wdIdle' = IF wdIdle < NoImprovement THEN wdIdle + 1 ELSE wdIdle
        /\ UNCHANGED <<pc, setup, live, agent, wdBest, errors, clone, commits, pushed>>
        BY <1>24 DEF Tick
  <2> QED BY <2>1, Bounds
<1>25. CASE ProbeFails
  <2>1. wd' = "waiting" /\ UNCHANGED <<pc, setup, live, agent, wdBest, wdIdle, clone, commits, pushed>>
        BY <1>25 DEF ProbeFails
  <2>2. errors' = errors \/ (errors < ProbeErrors /\ errors' = errors + 1)
        BY <1>25, Zenon DEF ProbeFails
  <2> QED BY <2>1, <2>2, Bounds
<1>26. CASE ProbeAnswers
  <2>1. wd' = "waiting" /\ UNCHANGED <<pc, setup, live, agent, errors, clone, commits, pushed>>
        BY <1>26 DEF ProbeAnswers
  <2>2. PICK status \in Scorings :
            LET score == Cardinality({t \in Steps : status[t] = "pass"})
            IN /\ wdBest' = IF score > wdBest THEN score ELSE wdBest
               /\ wdIdle' = IF wdBest >= 0 /\ score > wdBest THEN 0 ELSE wdIdle
        BY <1>26 DEF ProbeAnswers
  <2>3. Cardinality({t \in Steps : status[t] = "pass"}) \in 0..Cardinality(Steps)
        BY Bounds, FS_Subset, FS_CardinalityType
  <2>4. wdBest' \in -1..Cardinality(Steps) /\ wdIdle' \in 0..NoImprovement
        BY <2>2, <2>3, Bounds
  <2> QED BY <2>1, <2>4
<1>27. CASE WatchdogLeaves BY <1>0, <1>27 DEF WatchdogLeaves
<1>28. CASE UNCHANGED vars BY <1>0, <1>28 DEF vars
<1> QED
  BY <1>1, <1>2, <1>3, <1>4, <1>5, <1>6, <1>7, <1>8, <1>9, <1>10, <1>11, <1>12, <1>13, <1>14, <1>15,
     <1>16, <1>17, <1>18, <1>19, <1>20, <1>21, <1>22, <1>23, <1>24, <1>25, <1>26, <1>27, <1>28
     DEF Next, Harness, Agent, Watchdog

LEMMA WatchStep ==
    ASSUME WatchInv, [Next]_vars
    PROVE  WatchInv'
<1> USE DEF WatchInv, Goto, watchdog
<1>1. CASE AcquireLock BY <1>1, Zenon DEF AcquireLock
<1>2. CASE CreateClone BY <1>2, Zenon DEF CreateClone
<1>3. CASE SolvedAll BY <1>3, Zenon DEF SolvedAll
<1>4. CASE StartIteration BY <1>4, Zenon DEF StartIteration
<1>5. CASE DryRun BY <1>5, Zenon DEF DryRun
<1>6. CASE StartWatchdog BY <1>6, Zenon DEF StartWatchdog
<1>7. CASE CountIteration BY <1>7, Zenon DEF CountIteration
<1>8. CASE EndHarness BY <1>8, Zenon DEF EndHarness
<1>9. CASE StartAgent BY <1>9, Zenon DEF StartAgent
<1>10. CASE RunnerReturns BY <1>10, Zenon DEF RunnerReturns
<1>11. CASE JoinWatchdog BY <1>11, Zenon DEF JoinWatchdog
<1>12. CASE ScoreFails BY <1>12, Zenon DEF ScoreFails
<1>13. CASE ScoreAnswers BY <1>13, Zenon DEF ScoreAnswers
<1>14. CASE CommitIteration BY <1>14, Zenon DEF CommitIteration
<1>15. CASE PushBranch BY <1>15, Zenon DEF PushBranch
<1>16. CASE RewriteReport BY <1>16, Zenon DEF RewriteReport
<1>17. CASE RemoveClone BY <1>17, Zenon DEF RemoveClone
<1>18. CASE AgentWorks BY <1>18, Zenon DEF AgentWorks
<1>19. CASE AgentForks BY <1>19, Zenon DEF AgentForks
<1>20. CASE OrphanExits BY <1>20, Zenon DEF OrphanExits
<1>21. CASE AgentExits BY <1>21, Zenon DEF AgentExits
<1>22. CASE KillAgent BY <1>22, Zenon DEF KillAgent
<1>23. CASE Deadline BY <1>23, Zenon DEF Deadline
<1>24. CASE Tick BY <1>24, Zenon DEF Tick
<1>25. CASE ProbeFails BY <1>25, Zenon DEF ProbeFails
<1>26. CASE ProbeAnswers BY <1>26, Zenon DEF ProbeAnswers
<1>27. CASE WatchdogLeaves BY <1>27, Zenon DEF WatchdogLeaves
<1>28. CASE UNCHANGED vars BY <1>28, Zenon DEF vars
<1> QED
  BY <1>1, <1>2, <1>3, <1>4, <1>5, <1>6, <1>7, <1>8, <1>9, <1>10, <1>11, <1>12, <1>13, <1>14, <1>15,
     <1>16, <1>17, <1>18, <1>19, <1>20, <1>21, <1>22, <1>23, <1>24, <1>25, <1>26, <1>27, <1>28
     DEF Next, Harness, Agent, Watchdog

\* What the steps that add no iteration have in common.
LEMMA OtherStep ==
    ASSUME Next, ~DryRun, ~CountIteration
    PROVE  /\ UNCHANGED <<setup, iters, best, bestIter, counter, prev>>
           /\ pc' \in Before => pc \in Before
           /\ pc' \in Inside => pc \in Inside \/ (pc = "scope" /\ ~setup.dryRun)
           /\ exit' = exit \/ SolvedAll
<1> USE DEF Goto, loop, Before, Inside
<1>1. CASE AcquireLock BY <1>1, Zenon DEF AcquireLock
<1>2. CASE CreateClone BY <1>2, Zenon DEF CreateClone
<1>3. CASE SolvedAll BY <1>3, Zenon DEF SolvedAll
<1>4. CASE StartIteration BY <1>4, Zenon DEF StartIteration
<1>5. CASE StartWatchdog BY <1>5, Zenon DEF StartWatchdog
<1>6. CASE EndHarness BY <1>6, Zenon DEF EndHarness
<1>7. CASE StartAgent BY <1>7, Zenon DEF StartAgent
<1>8. CASE RunnerReturns BY <1>8, Zenon DEF RunnerReturns
<1>9. CASE JoinWatchdog BY <1>9, Zenon DEF JoinWatchdog
<1>10. CASE ScoreFails BY <1>10, Zenon DEF ScoreFails
<1>11. CASE ScoreAnswers BY <1>11, Zenon DEF ScoreAnswers
<1>12. CASE CommitIteration BY <1>12, Zenon DEF CommitIteration
<1>13. CASE PushBranch BY <1>13, Zenon DEF PushBranch
<1>14. CASE RewriteReport BY <1>14, Zenon DEF RewriteReport
<1>15. CASE RemoveClone BY <1>15, Zenon DEF RemoveClone
<1>16. CASE AgentWorks BY <1>16, Zenon DEF AgentWorks
<1>17. CASE AgentForks BY <1>17, Zenon DEF AgentForks
<1>18. CASE OrphanExits BY <1>18, Zenon DEF OrphanExits
<1>19. CASE AgentExits BY <1>19, Zenon DEF AgentExits
<1>20. CASE KillAgent BY <1>20, Zenon DEF KillAgent
<1>21. CASE Deadline BY <1>21, Zenon DEF Deadline
<1>22. CASE Tick BY <1>22, Zenon DEF Tick
<1>23. CASE ProbeFails BY <1>23, Zenon DEF ProbeFails
<1>24. CASE ProbeAnswers BY <1>24, Zenon DEF ProbeAnswers
<1>25. CASE WatchdogLeaves BY <1>25, Zenon DEF WatchdogLeaves
<1> QED
  BY <1>1, <1>2, <1>3, <1>4, <1>5, <1>6, <1>7, <1>8, <1>9, <1>10, <1>11, <1>12, <1>13, <1>14, <1>15,
     <1>16, <1>17, <1>18, <1>19, <1>20, <1>21, <1>22, <1>23, <1>24, <1>25
     DEF Next, Harness, Agent, Watchdog

LEMMA DryStep ==
    ASSUME LoopTypes, DryInv, [Next]_vars
    PROVE  DryInv'
<1>1. CASE DryRun
  <2>1. pc = "scope" /\ setup.dryRun /\ setup' = setup BY <1>1 DEF DryRun, Goto
  <2>2. iters = <<>> BY <2>1 DEF DryInv, Before
  <2>3. iters' = Append(iters, Blank) /\ pc' = "end" BY <1>1 DEF DryRun, Goto
  <2>4. Len(iters') = 1 BY <2>2, <2>3
  <2> QED BY <2>3, <2>4 DEF DryInv, Before, Inside
<1>2. CASE CountIteration
  <2>1. pc = "count" /\ setup' = setup BY <1>2 DEF CountIteration
  <2> QED BY <2>1 DEF DryInv, Inside
<1>3. CASE Next /\ ~DryRun /\ ~CountIteration
      BY <1>3, OtherStep, Zenon DEF DryInv, Before, Inside
<1>4. CASE UNCHANGED vars BY <1>4, Zenon DEF DryInv, vars, loop
<1> QED BY <1>1, <1>2, <1>3, <1>4

\* An improvement pays for as many iterations as the plateau allows.
LEMMA Improvement ==
    ASSUME NEW p \in Nat, NEW old \in Nat, NEW new \in Nat, new > old
    PROVE  p * old + p <= p * new
<1>1. PICK d \in Nat : new = old + 1 + d
  <2>1. new - old - 1 \in Nat /\ new = old + 1 + (new - old - 1) OBVIOUS
  <2> QED BY <2>1
<1>2. p * new = p * old + p + p * d BY <1>1
<1>3. p * d \in Nat /\ p * old \in Nat OBVIOUS
<1> QED BY <1>2, <1>3

LEMMA PointsPaid ==
    ASSUME NEW p \in Nat, NEW points \in Nat
    PROVE  p * (points + 1) = p * points + p /\ p * points \in Nat
OBVIOUS

LEMMA PlateauStep ==
    ASSUME LoopTypes, setup \in Setups, PlateauInv, [Next]_vars
    PROVE  PlateauInv'
<1>0. Cardinality(Steps) \in Nat /\ setup.plateau \in Nat BY Bounds, PlateauType
<1>1. CASE DryRun
  <2>1. setup.dryRun /\ setup' = setup BY <1>1 DEF DryRun
  <2> QED BY <2>1 DEF PlateauInv
<1>2. CASE CountIteration
  <2> DEFINE p == setup.plateau
  <2> SUFFICES ASSUME ~setup.dryRun, p > 0
               PROVE  /\ Len(iters') <= p * best' + counter'
                      /\ counter' <= p
                      /\ pc' \in Before \cup Inside => counter' < p
      BY <1>2 DEF PlateauInv, CountIteration
  <2>1. Len(iters) <= p * best + counter /\ counter < p
        BY <1>2 DEF PlateauInv, CountIteration, Inside
  <2>2. Len(iters') = Len(iters) + 1 BY <1>2 DEF CountIteration, LoopTypes
  <2>3. best \in Nat /\ best' \in Nat /\ counter \in Nat /\ Len(iters) \in Nat
        BY <1>0, LoopTypesStep DEF LoopTypes
  <2>4. \/ best' > best /\ counter' = 0
        \/ best' = best /\ counter' = counter + 1
        BY <1>0, <1>2 DEF CountIteration, LoopTypes, Iteration
  <2>5. Len(iters') <= p * best' + counter'
    <3>1. p * best \in Nat /\ p * best' \in Nat BY <1>0, <2>3
    <3>2. CASE best' > best /\ counter' = 0
      <4>1. p * best + p <= p * best' BY <1>0, <2>3, <3>2, Improvement
      <4> QED BY <1>0, <2>1, <2>2, <2>3, <3>1, <3>2, <4>1
    <3>3. CASE best' = best /\ counter' = counter + 1
      <4>1. p * best' = p * best BY <3>3
      <4> QED BY <2>1, <2>2, <2>3, <3>1, <3>3, <4>1
    <3> QED BY <2>4, <3>2, <3>3
  <2>6. counter' <= p BY <1>0, <2>1, <2>3, <2>4
  <2>7. pc' \in {"end"} \/ counter' < p
    <3>1. pc' = IF p > 0 /\ counter' >= p THEN "end" ELSE "top"
          BY <1>2 DEF CountIteration
    <3>2. counter' \in Nat BY <2>3, <2>4
    <3> QED BY <1>0, <3>1, <3>2
  <2> QED BY <2>5, <2>6, <2>7 DEF Before, Inside
<1>3. CASE Next /\ ~DryRun /\ ~CountIteration
  <2>1. UNCHANGED <<setup, iters, best, counter>> /\ (pc' \in Before \cup Inside => pc \in Before \cup Inside)
        BY <1>3, OtherStep, Zenon DEF Before
  <2> QED BY <2>1, Zenon DEF PlateauInv
<1>4. CASE UNCHANGED vars BY <1>4, Zenon DEF PlateauInv, vars, loop
<1> QED BY <1>1, <1>2, <1>3, <1>4

\* What stays and what comes when an iteration is added.
LEMMA Appended ==
    ASSUME NEW S, NEW seq \in Seq(S), NEW it \in S
    PROVE  /\ Len(Append(seq, it)) = Len(seq) + 1
           /\ DOMAIN Append(seq, it) = 1..(Len(seq) + 1)
           /\ DOMAIN seq = 1..Len(seq)
           /\ Len(seq) \in Nat
           /\ \A k \in 1..Len(seq) : Append(seq, it)[k] = seq[k]
           /\ Append(seq, it)[Len(seq) + 1] = it
OBVIOUS

\* The iteration CountIteration adds.
LEMMA CountedFields ==
    ASSUME NEW it \in Iteration, NEW d \in Int, NEW c \in Nat
    PROVE  LET new == [it EXCEPT !.delta = d, !.counter = c]
           IN /\ new.score = it.score /\ new.step = it.step
              /\ new.failed = it.failed /\ new.delta = d
BY DEF Iteration

LEMMA PrevStep ==
    ASSUME LoopTypes, DryInv, PrevInv, [Next]_vars
    PROVE  PrevInv'
<1>1. CASE DryRun
  <2>1. iters = <<>> BY <1>1 DEF DryRun, Goto, DryInv, Before
  <2>2. prev' = prev /\ iters' = Append(iters, Blank) BY <1>1 DEF DryRun
  <2>3. prev = Blank.score BY <2>1 DEF PrevInv, Prior
  <2>4. iters' # <<>> /\ iters'[Len(iters')] = Blank BY <2>1, <2>2, BlankCounts, Appended
  <2> QED BY <2>2, <2>3, <2>4 DEF PrevInv, Prior
<1>2. CASE CountIteration
  <2> DEFINE it == [current EXCEPT !.delta = current.score - prev, !.counter = counter']
  <2>1. iters' = Append(iters, it) /\ prev' = current.score BY <1>2 DEF CountIteration
  <2>2. current \in Iteration /\ current.score - prev \in Int /\ counter' \in Nat
        BY LoopTypesStep, Bounds DEF LoopTypes, Iteration
  <2>3. it \in Iteration /\ it.score = current.score
        BY <2>2, CountedIteration, CountedFields, Zenon
  <2> HIDE DEF it
  <2>4. iters' # <<>> /\ iters'[Len(iters')] = it BY <2>1, <2>3, Appended DEF LoopTypes
  <2> QED BY <2>1, <2>3, <2>4 DEF PrevInv, Prior
<1>3. CASE Next /\ ~DryRun /\ ~CountIteration
      BY <1>3, OtherStep, Zenon DEF PrevInv, Prior
<1>4. CASE UNCHANGED vars BY <1>4, Zenon DEF PrevInv, Prior, vars, loop
<1> QED BY <1>1, <1>2, <1>3, <1>4

\* The score of the last iteration counts what it solved.
LEMMA PriorCounted ==
    ASSUME LoopTypes, ItersInv
    PROVE  Counted(Prior)
<1>1. CASE iters = <<>> BY <1>1, BlankCounts DEF Prior
<1>2. CASE iters # <<>>
  <2>1. Len(iters) \in DOMAIN iters BY <1>2 DEF LoopTypes
  <2> QED BY <1>2, <2>1 DEF Prior, ItersInv
<1> QED BY <1>1, <1>2

\* Only a scoring leads to the places where the current iteration is looked at.
LEMMA ScoredFirst ==
    ASSUME Next, ~ScoreFails, ~ScoreAnswers, pc' \in {"commit", "count"}
    PROVE  pc \in {"commit", "count"} /\ UNCHANGED <<current, iters>>
<1> USE DEF Goto, loop
<1>1. CASE AcquireLock BY <1>1, Zenon DEF AcquireLock
<1>2. CASE CreateClone BY <1>2, Zenon DEF CreateClone
<1>3. CASE SolvedAll BY <1>3, Zenon DEF SolvedAll
<1>4. CASE StartIteration BY <1>4, Zenon DEF StartIteration
<1>5. CASE DryRun BY <1>5, Zenon DEF DryRun
<1>6. CASE StartWatchdog BY <1>6, Zenon DEF StartWatchdog
<1>7. CASE CountIteration BY <1>7, Zenon DEF CountIteration
<1>8. CASE EndHarness BY <1>8, Zenon DEF EndHarness
<1>9. CASE StartAgent BY <1>9, Zenon DEF StartAgent
<1>10. CASE RunnerReturns BY <1>10, Zenon DEF RunnerReturns
<1>11. CASE JoinWatchdog BY <1>11, Zenon DEF JoinWatchdog
<1>12. CASE CommitIteration BY <1>12, Zenon DEF CommitIteration
<1>13. CASE PushBranch BY <1>13, Zenon DEF PushBranch
<1>14. CASE RewriteReport BY <1>14, Zenon DEF RewriteReport
<1>15. CASE RemoveClone BY <1>15, Zenon DEF RemoveClone
<1>16. CASE AgentWorks BY <1>16, Zenon DEF AgentWorks
<1>17. CASE AgentForks BY <1>17, Zenon DEF AgentForks
<1>18. CASE OrphanExits BY <1>18, Zenon DEF OrphanExits
<1>19. CASE AgentExits BY <1>19, Zenon DEF AgentExits
<1>20. CASE KillAgent BY <1>20, Zenon DEF KillAgent
<1>21. CASE Deadline BY <1>21, Zenon DEF Deadline
<1>22. CASE Tick BY <1>22, Zenon DEF Tick
<1>23. CASE ProbeFails BY <1>23, Zenon DEF ProbeFails
<1>24. CASE ProbeAnswers BY <1>24, Zenon DEF ProbeAnswers
<1>25. CASE WatchdogLeaves BY <1>25, Zenon DEF WatchdogLeaves
<1> QED
  BY <1>1, <1>2, <1>3, <1>4, <1>5, <1>6, <1>7, <1>8, <1>9, <1>10, <1>11, <1>12, <1>13, <1>14, <1>15,
     <1>16, <1>17, <1>18, <1>19, <1>20, <1>21, <1>22, <1>23, <1>24, <1>25
     DEF Next, Harness, Agent, Watchdog

LEMMA CurrentStep ==
    ASSUME LoopTypes, ItersInv, CurrentInv, [Next]_vars
    PROVE  CurrentInv'
<1>1. CASE ScoreFails
  <2>1. iters' = iters BY <1>1 DEF ScoreFails, loop
  <2>2. current' = [Blank EXCEPT !.failed = TRUE, !.score = Prior.score, !.step = Prior.step]
        BY <1>1 DEF ScoreFails
  <2>3. current'.score = Prior.score /\ current'.step = Prior.step BY <2>2 DEF Blank
  <2>4. Counted(current') BY <2>3, PriorCounted DEF Counted
  <2> QED BY <2>1, <2>3, <2>4, Zenon DEF CurrentInv, Prior
<1>2. CASE ScoreAnswers
  <2>1. PICK status \in Scorings :
            current' = [Blank EXCEPT !.score = Cardinality(Solved(VerdictsOf(status))),
                                     !.step = VerdictsOf(status)]
        BY <1>2 DEF ScoreAnswers
  <2>2. Counted(current') BY <2>1 DEF Blank, Counted
  <2>3. current'.failed = FALSE BY <2>1 DEF Blank
  <2> QED BY <2>2, <2>3, Zenon DEF CurrentInv
<1>3. CASE Next /\ ~ScoreFails /\ ~ScoreAnswers
      BY <1>3, ScoredFirst, Zenon DEF CurrentInv, Prior
<1>4. CASE UNCHANGED vars BY <1>4, Zenon DEF CurrentInv, Prior, vars, loop
<1> QED BY <1>1, <1>2, <1>3, <1>4

\* An iteration that fits the ones before it can be added to them.
LEMMA ItersGrow ==
    ASSUME LoopTypes, ItersInv, NEW it \in Iteration, iters' = Append(iters, it), Counted(it),
           it.delta = it.score - Prior.score, it.failed => it.delta = 0
    PROVE  ItersInv'
<1> USE DEF LoopTypes
<1> SUFFICES ASSUME NEW k \in DOMAIN iters'
             PROVE  /\ Counted(iters'[k])
                    /\ iters'[k].delta = iters'[k].score - ScoreBefore(k)'
                    /\ iters'[k].failed => iters'[k].delta = 0
    BY DEF ItersInv, Counted
<1>1. k \in 1..(Len(iters) + 1) /\ DOMAIN iters = 1..Len(iters) /\ Len(iters) \in Nat
      BY Appended
<1>2. CASE k \in 1..Len(iters)
  <2>1. iters'[k] = iters[k] BY <1>2, Appended
  <2>2. ScoreBefore(k)' = ScoreBefore(k)
    <3>1. CASE k = 1 BY <3>1 DEF ScoreBefore
    <3>2. CASE k # 1
      <4>1. k - 1 \in 1..Len(iters) BY <1>1, <1>2, <3>2
      <4> QED BY <3>2, <4>1, Appended DEF ScoreBefore
    <3> QED BY <3>1, <3>2
  <2> QED BY <1>1, <1>2, <2>1, <2>2, Zenon DEF ItersInv
<1>3. CASE k = Len(iters) + 1
  <2>1. iters'[k] = it BY <1>3, Appended
  <2>2. ScoreBefore(k)' = Prior.score
    <3>1. CASE iters = <<>>
      <4>1. k = 1 BY <1>3, <3>1
      <4> QED BY <3>1, <4>1 DEF ScoreBefore, Prior, Blank
    <3>2. CASE iters # <<>>
      <4>1. Len(iters) \in 1..Len(iters) /\ k # 1 /\ k - 1 = Len(iters) BY <1>3, <3>2
      <4> QED BY <3>2, <4>1, Appended DEF ScoreBefore, Prior
    <3> QED BY <3>1, <3>2
  <2> QED BY <2>1, <2>2
<1> QED BY <1>1, <1>2, <1>3

LEMMA ItersStep ==
    ASSUME LoopTypes, DryInv, PrevInv, CurrentInv, ItersInv, [Next]_vars
    PROVE  ItersInv'
<1>1. CASE DryRun
  <2>1. iters = <<>> BY <1>1 DEF DryRun, Goto, DryInv, Before
  <2>2. iters' = Append(iters, Blank) BY <1>1 DEF DryRun
  <2>3. Prior = Blank /\ Blank.delta = Blank.score - Blank.score /\ ~Blank.failed
        BY <2>1 DEF Prior, Blank
  <2> QED BY <2>2, <2>3, BlankCounts, ItersGrow
<1>2. CASE CountIteration
  <2> DEFINE it == [current EXCEPT !.delta = current.score - prev, !.counter = counter']
  <2>1. iters' = Append(iters, it) BY <1>2 DEF CountIteration
  <2>2. current \in Iteration /\ current.score - prev \in Int /\ counter' \in Nat
        BY LoopTypesStep, Bounds DEF LoopTypes, Iteration
  <2>9. it \in Iteration BY <2>2, CountedIteration, Zenon
  <2>3. /\ it.score = current.score /\ it.step = current.step
        /\ it.failed = current.failed /\ it.delta = current.score - prev
        BY <2>2, CountedFields, Zenon
  <2> HIDE DEF it
  <2>4. pc = "count" BY <1>2 DEF CountIteration
  <2>5. Counted(it) BY <2>3, <2>4, Zenon DEF CurrentInv, Counted
  <2>6. it.delta = it.score - Prior.score BY <2>3 DEF PrevInv
  <2>7. current.score \in Int BY <2>2, Bounds DEF Iteration
  <2>8. ASSUME it.failed PROVE it.delta = 0
    <3>1. current.score = Prior.score BY <2>3, <2>4, <2>8, Zenon DEF CurrentInv
    <3> QED BY <2>3, <2>7, <3>1 DEF PrevInv
  <2> QED BY <2>1, <2>5, <2>6, <2>8, <2>9, ItersGrow
<1>3. CASE Next /\ ~DryRun /\ ~CountIteration
      BY <1>3, OtherStep, Zenon DEF ItersInv, ScoreBefore
<1>4. CASE UNCHANGED vars BY <1>4, Zenon DEF ItersInv, ScoreBefore, vars, loop
<1> QED BY <1>1, <1>2, <1>3, <1>4

LEMMA BestStep ==
    ASSUME LoopTypes, DryInv, BestInv, [Next]_vars
    PROVE  BestInv'
<1>0. Cardinality(Steps) \in Nat BY Bounds
<1>1. CASE DryRun
  <2>1. iters = <<>> BY <1>1 DEF DryRun, Goto, DryInv, Before
  <2>2. iters' = Append(iters, Blank) /\ best' = best /\ bestIter' = bestIter BY <1>1 DEF DryRun
  <2>3. bestIter = 0 BY <2>1 DEF LoopTypes
  <2>4. DOMAIN iters' = {1} /\ iters'[1] = Blank BY <2>1, <2>2
  <2>5. Blank.score = 0 /\ best \in Nat BY <1>0 DEF Blank, LoopTypes
  <2> QED BY <2>2, <2>3, <2>4, <2>5 DEF BestInv
<1>2. CASE CountIteration
  <2> DEFINE it == [current EXCEPT !.delta = current.score - prev, !.counter = counter']
             better == current.score > best
  <2>1. iters' = Append(iters, it) BY <1>2 DEF CountIteration
  <2>2. current \in Iteration /\ current.score - prev \in Int /\ counter' \in Nat
        BY LoopTypesStep, Bounds DEF LoopTypes, Iteration
  <2>3. it \in Iteration BY <2>2, CountedIteration, Zenon
  <2>4. it.score = current.score BY <2>2, CountedFields, Zenon
  <2> HIDE DEF it
  <2>5. /\ DOMAIN iters' = 1..(Len(iters) + 1) /\ DOMAIN iters = 1..Len(iters)
        /\ Len(iters) \in Nat /\ iters'[Len(iters) + 1] = it
        /\ \A k \in 1..Len(iters) : iters'[k] = iters[k]
        BY <2>1, <2>3, Appended DEF LoopTypes
  <2>6. /\ best' = IF better THEN current.score ELSE best
        /\ bestIter' = IF better THEN Len(iters) + 1 ELSE bestIter
        BY <1>2 DEF CountIteration
  <2>7. current.score \in Nat /\ best \in Nat /\ bestIter \in 0..Len(iters)
        BY <1>0, <2>2 DEF LoopTypes, Iteration
  <2>8. \A k \in 1..Len(iters) : iters[k].score \in Nat
    <3> SUFFICES ASSUME NEW k \in 1..Len(iters) PROVE iters[k].score \in Nat OBVIOUS
    <3>1. iters[k] \in Iteration BY <2>5 DEF LoopTypes
    <3> QED BY <1>0, <3>1 DEF Iteration
  <2>9. \A k \in 1..Len(iters) : iters[k].score <= best BY <2>5 DEF BestInv
  <2>10. CASE better
    <3>1. best' = current.score /\ bestIter' = Len(iters) + 1 BY <2>6, <2>10
    <3>2. \A k \in 1..Len(iters) : iters'[k].score < best'
          BY <2>5, <2>7, <2>8, <2>9, <2>10, <3>1
    <3>3. iters'[Len(iters) + 1].score = best' BY <2>4, <2>5, <3>1
    <3>4. \A k \in DOMAIN iters' : iters'[k].score <= best'
      <4> SUFFICES ASSUME NEW k \in DOMAIN iters' PROVE iters'[k].score <= best' OBVIOUS
      <4>1. k \in 1..Len(iters) \/ k = Len(iters) + 1 BY <2>5
      <4>2. best' \in Nat BY <2>7, <3>1
      <4>3. CASE k \in 1..Len(iters) BY <2>5, <2>8, <3>2, <4>2, <4>3
      <4>4. CASE k = Len(iters) + 1 BY <3>3, <4>2, <4>4
      <4> QED BY <4>1, <4>3, <4>4
    <3> QED BY <2>5, <3>1, <3>2, <3>3, <3>4 DEF BestInv
  <2>11. CASE ~better
    <3>1. best' = best /\ bestIter' = bestIter BY <2>6, <2>11
    <3>2. \A k \in DOMAIN iters' : iters'[k].score <= best'
      <4> SUFFICES ASSUME NEW k \in DOMAIN iters' PROVE iters'[k].score <= best' OBVIOUS
      <4>1. k \in 1..Len(iters) \/ k = Len(iters) + 1 BY <2>5
      <4>2. CASE k \in 1..Len(iters) BY <2>5, <2>9, <3>1, <4>2
      <4>3. CASE k = Len(iters) + 1 BY <2>4, <2>5, <2>7, <2>11, <3>1, <4>3
      <4> QED BY <4>1, <4>2, <4>3
    <3>3. ASSUME bestIter # 0
          PROVE  /\ iters'[bestIter].score = best
                 /\ \A k \in 1..(bestIter - 1) : iters'[k].score < best
      <4>1. bestIter \in 1..Len(iters) /\ 1..(bestIter - 1) \subseteq 1..Len(iters) BY <2>7, <3>3
      <4> QED BY <2>5, <3>3, <4>1 DEF BestInv
    <3> QED BY <3>1, <3>2, <3>3 DEF BestInv
  <2> QED BY <2>10, <2>11
<1>3. CASE Next /\ ~DryRun /\ ~CountIteration
      BY <1>3, OtherStep, Zenon DEF BestInv
<1>4. CASE UNCHANGED vars BY <1>4, Zenon DEF BestInv, vars, loop
<1> QED BY <1>1, <1>2, <1>3, <1>4

\* Once the report is written neither it nor what it tells of changes any more.
LEMMA ReportStays ==
    ASSUME Next, ~EndHarness, pc' \in Reported
    PROVE  pc \in Reported /\ UNCHANGED <<report, best, bestIter, iters>>
<1> USE DEF Goto, loop, Reported
<1>1. CASE AcquireLock BY <1>1, Zenon DEF AcquireLock
<1>2. CASE CreateClone BY <1>2, Zenon DEF CreateClone
<1>3. CASE SolvedAll BY <1>3, Zenon DEF SolvedAll
<1>4. CASE StartIteration BY <1>4, Zenon DEF StartIteration
<1>5. CASE DryRun BY <1>5, Zenon DEF DryRun
<1>6. CASE StartWatchdog BY <1>6, Zenon DEF StartWatchdog
<1>7. CASE CountIteration BY <1>7, Zenon DEF CountIteration
<1>8. CASE StartAgent BY <1>8, Zenon DEF StartAgent
<1>9. CASE RunnerReturns BY <1>9, Zenon DEF RunnerReturns
<1>10. CASE JoinWatchdog BY <1>10, Zenon DEF JoinWatchdog
<1>11. CASE ScoreFails BY <1>11, Zenon DEF ScoreFails
<1>12. CASE ScoreAnswers BY <1>12, Zenon DEF ScoreAnswers
<1>13. CASE CommitIteration BY <1>13, Zenon DEF CommitIteration
<1>14. CASE PushBranch BY <1>14, Zenon DEF PushBranch
<1>15. CASE RewriteReport BY <1>15, Zenon DEF RewriteReport
<1>16. CASE RemoveClone BY <1>16, Zenon DEF RemoveClone
<1>17. CASE AgentWorks BY <1>17, Zenon DEF AgentWorks
<1>18. CASE AgentForks BY <1>18, Zenon DEF AgentForks
<1>19. CASE OrphanExits BY <1>19, Zenon DEF OrphanExits
<1>20. CASE AgentExits BY <1>20, Zenon DEF AgentExits
<1>21. CASE KillAgent BY <1>21, Zenon DEF KillAgent
<1>22. CASE Deadline BY <1>22, Zenon DEF Deadline
<1>23. CASE Tick BY <1>23, Zenon DEF Tick
<1>24. CASE ProbeFails BY <1>24, Zenon DEF ProbeFails
<1>25. CASE ProbeAnswers BY <1>25, Zenon DEF ProbeAnswers
<1>26. CASE WatchdogLeaves BY <1>26, Zenon DEF WatchdogLeaves
<1> QED
  BY <1>1, <1>2, <1>3, <1>4, <1>5, <1>6, <1>7, <1>8, <1>9, <1>10, <1>11, <1>12, <1>13, <1>14, <1>15,
     <1>16, <1>17, <1>18, <1>19, <1>20, <1>21, <1>22, <1>23, <1>24, <1>25, <1>26
     DEF Next, Harness, Agent, Watchdog

LEMMA ReportStep ==
    ASSUME ReportInv, [Next]_vars
    PROVE  ReportInv'
<1>1. CASE EndHarness
  <2>1. UNCHANGED <<best, bestIter, iters>> BY <1>1 DEF EndHarness
  <2>2. \/ report' = [best |-> best, bestIter |-> bestIter, run |-> Len(iters), final |-> Prior.step]
        \/ pc' = "failed"
        BY <1>1 DEF EndHarness, Goto
  <2> QED BY <2>1, <2>2, Zenon DEF ReportInv, Reported, Prior
<1>2. CASE Next /\ ~EndHarness
      BY <1>2, ReportStays, Zenon DEF ReportInv, Prior
<1>3. CASE UNCHANGED vars BY <1>3, Zenon DEF ReportInv, Prior, vars, loop
<1> QED BY <1>1, <1>2, <1>3

\* A scoring of a live plan finds every step either solved, or where it was, or skipped.
LEMMA NothingTampered ==
    ASSUME NEW status \in Scorings
    PROVE  VerdictsOf(status) \in [Steps -> Verdicts \ {"tampered"}]
<1> SUFFICES ASSUME NEW t \in Steps
             PROVE  Classify(StepState("fail"), StepState(status[t])) \in Verdicts \ {"tampered"}
    BY DEF VerdictsOf
<1>1. status[t] \in {"pass", "fail", "skipped"} BY DEF Scorings
<1>2. StepState("fail") = [present |-> TRUE, body |-> 1, tags |-> 1, status |-> "fail"]
      BY DEF StepState
<1>3. StepState(status[t]) = [present |-> TRUE, body |-> 1, tags |-> 1, status |-> status[t]]
      BY DEF StepState
<1> QED BY <1>1, <1>2, <1>3 DEF Classify, Verdicts

LEMMA JudgedStep ==
    ASSUME LoopTypes, DryInv, JudgedInv, [Next]_vars
    PROVE  JudgedInv'
<1>1. CASE ScoreFails
  <2>1. iters' = iters BY <1>1 DEF ScoreFails, loop
  <2>2. current' = [Blank EXCEPT !.failed = TRUE, !.score = Prior.score, !.step = Prior.step]
        BY <1>1 DEF ScoreFails
  <2>3. current'.step = Prior.step BY <2>2 DEF Blank
  <2>4. Prior.step \in Judged
    <3>1. CASE iters = <<>> BY <3>1 DEF Prior, Blank, Judged
    <3>2. CASE iters # <<>>
      <4>1. Len(iters) \in DOMAIN iters BY <3>2 DEF LoopTypes
      <4> QED BY <3>2, <4>1 DEF JudgedInv, Prior
    <3> QED BY <3>1, <3>2
  <2> QED BY <2>1, <2>3, <2>4, Zenon DEF JudgedInv, Prior, Judged
<1>2. CASE ScoreAnswers
  <2>1. PICK status \in Scorings :
            current' = [Blank EXCEPT !.score = Cardinality(Solved(VerdictsOf(status))),
                                     !.step = VerdictsOf(status)]
        BY <1>2 DEF ScoreAnswers
  <2>2. iters' = iters BY <1>2 DEF ScoreAnswers, loop
  <2>3. current'.step = VerdictsOf(status) BY <2>1 DEF Blank
  <2>4. current'.step \in Judged BY <2>3, NothingTampered DEF Judged
  <2>5. DOMAIN current'.step = Steps BY <2>3 DEF VerdictsOf
  <2> QED BY <2>2, <2>4, <2>5, Zenon DEF JudgedInv, Judged
<1>3. CASE DryRun
  <2>1. iters = <<>> BY <1>3 DEF DryRun, Goto, DryInv, Before
  <2>2. iters' = Append(iters, Blank) /\ pc' = "end" BY <1>3 DEF DryRun, Goto
  <2>3. DOMAIN iters' = {1} /\ iters'[1] = Blank BY <2>1, <2>2
  <2>4. Blank.step \in Judged BY DEF Blank, Judged
  <2> QED BY <2>2, <2>3, <2>4 DEF JudgedInv, Judged
<1>4. CASE CountIteration
  <2> DEFINE it == [current EXCEPT !.delta = current.score - prev, !.counter = counter']
  <2>1. iters' = Append(iters, it) /\ pc = "count" /\ pc' \in {"end", "top"}
        BY <1>4 DEF CountIteration
  <2>2. current \in Iteration /\ current.score - prev \in Int /\ counter' \in Nat
        BY LoopTypesStep, Bounds DEF LoopTypes, Iteration
  <2>3. it \in Iteration BY <2>2, CountedIteration, Zenon
  <2>4. /\ it.score = current.score /\ it.step = current.step
        /\ it.failed = current.failed /\ it.delta = current.score - prev
        BY <2>2, CountedFields, Zenon
  <2> HIDE DEF it
  <2>5. /\ DOMAIN iters' = 1..(Len(iters) + 1) /\ DOMAIN iters = 1..Len(iters)
        /\ Len(iters) \in Nat /\ iters'[Len(iters) + 1] = it
        /\ \A k \in 1..Len(iters) : iters'[k] = iters[k]
        BY <2>1, <2>3, Appended DEF LoopTypes
  <2>6. /\ current.step \in Judged
        /\ Steps # {} /\ DOMAIN current.step = {} => DOMAIN Prior.step = {}
        BY <2>1, Zenon DEF JudgedInv
  <2> SUFFICES ASSUME NEW k \in DOMAIN iters'
               PROVE  /\ iters'[k].step \in Judged
                      /\ Steps # {} /\ DOMAIN iters'[k].step = {} =>
                            \A j \in 1..(k - 1) : DOMAIN iters'[j].step = {}
      BY <2>1 DEF JudgedInv, Judged
  <2>7. CASE k \in 1..Len(iters)
    <3>1. 1..(k - 1) \subseteq 1..Len(iters) BY <2>5, <2>7
    <3> QED BY <2>5, <2>7, <3>1 DEF JudgedInv
  <2>8. CASE k = Len(iters) + 1
    <3>1. iters'[k].step \in Judged BY <2>4, <2>5, <2>6, <2>8
    <3>2. ASSUME Steps # {}, DOMAIN iters'[k].step = {}, NEW j \in 1..(k - 1)
          PROVE  DOMAIN iters'[j].step = {}
      <4>1. DOMAIN Prior.step = {} BY <2>4, <2>5, <2>6, <2>8, <3>2
      <4>2. j \in 1..Len(iters) /\ iters # <<>> /\ Len(iters) \in 1..Len(iters) BY <2>5, <2>8
      <4>3. DOMAIN iters[Len(iters)].step = {} BY <4>1, <4>2 DEF Prior
      <4>6. k - 1 = Len(iters) /\ Len(iters) \in Nat BY <2>5, <2>8
      <4>7. j \in 1..Len(iters) BY <3>2, <4>6
      <4>4. j = Len(iters) \/ j \in 1..(Len(iters) - 1) BY <4>6, <4>7
      <4>5. DOMAIN iters[j].step = {} BY <2>5, <3>2, <4>2, <4>3, <4>4 DEF JudgedInv
      <4> QED BY <2>5, <4>2, <4>5
    <3> QED BY <3>1, <3>2
  <2> QED BY <2>5, <2>7, <2>8
<1>5. CASE Next /\ ~ScoreFails /\ ~ScoreAnswers /\ ~DryRun /\ ~CountIteration
      BY <1>5, OtherStep, ScoredFirst, Zenon DEF JudgedInv, Judged, Prior
<1>6. CASE UNCHANGED vars BY <1>6, Zenon DEF JudgedInv, Judged, Prior, vars, loop
<1> QED BY <1>1, <1>2, <1>3, <1>4, <1>5, <1>6

LEMMA CounterStep ==
    ASSUME LoopTypes, CounterInv, [Next]_vars
    PROVE  CounterInv'
<1>1. CASE DryRun BY <1>1, Zenon DEF DryRun, CounterInv
<1>2. CASE CountIteration
  <2>1. setup' = setup /\ Len(iters') = Len(iters) + 1 BY <1>2 DEF CountIteration, LoopTypes
  <2>2. \/ counter' = 0 /\ bestIter' = Len(iters) + 1
        \/ counter' = counter + 1 /\ bestIter' = bestIter
        BY <1>2 DEF CountIteration
  <2>3. Len(iters) \in Nat /\ bestIter \in Nat /\ counter \in Nat BY DEF LoopTypes
  <2> QED BY <2>1, <2>2, <2>3 DEF CounterInv
<1>3. CASE Next /\ ~DryRun /\ ~CountIteration BY <1>3, OtherStep, Zenon DEF CounterInv
<1>4. CASE UNCHANGED vars BY <1>4, Zenon DEF CounterInv, vars, loop
<1> QED BY <1>1, <1>2, <1>3, <1>4

\* A step's latest verdict is the one of the last iteration, if that one has verdicts.
LEMMA LatestVerdict ==
    ASSUME LoopTypes, iters # <<>>, NEW t \in Steps, t \in DOMAIN Prior.step
    PROVE  t \in Unsolved <=> Prior.step[t] \notin {"solved", "tampered"}
<1> DEFINE n == Len(iters)
           seen == {k \in DOMAIN iters : t \in DOMAIN iters[k].step}
           latest == CHOOSE k \in seen : \A j \in seen : j <= k
<1>1. n \in Nat /\ DOMAIN iters = 1..n /\ n \in 1..n BY DEF LoopTypes
<1>2. Prior = iters[n] BY DEF Prior
<1>3. n \in seen /\ \A j \in seen : j \in 1..n BY <1>1, <1>2
<1>4. \A j \in seen : j <= n BY <1>1, <1>3
<1>5. latest \in seen /\ \A j \in seen : j <= latest
  <2>1. \E k \in seen : \A j \in seen : j <= k BY <1>3, <1>4
  <2> HIDE DEF seen
  <2> QED BY <2>1
<1>6. latest = n
  <2> HIDE DEF seen, latest
  <2> QED BY <1>1, <1>3, <1>4, <1>5
<1>7. t \in Unsolved <=> (seen # {} => iters[latest].step[t] \notin {"solved", "tampered"})
      BY DEF Unsolved
<1> HIDE DEF seen, latest
<1> QED BY <1>2, <1>3, <1>6, <1>7

\* All the verdicts the last iteration has.
LEMMA PriorJudged ==
    ASSUME LoopTypes, JudgedInv
    PROVE  Prior.step \in Judged
<1>1. CASE iters = <<>> BY <1>1 DEF Prior, Blank, Judged
<1>2. CASE iters # <<>>
  <2>1. Len(iters) \in DOMAIN iters BY <1>2 DEF LoopTypes
  <2> QED BY <1>2, <2>1 DEF JudgedInv, Prior
<1> QED BY <1>1, <1>2

\* Without a verdict in the last iteration there has never been one.
LEMMA NeverJudged ==
    ASSUME LoopTypes, JudgedInv, Steps # {}, DOMAIN Prior.step = {}
    PROVE  Unsolved = Steps
<1> SUFFICES ASSUME NEW k \in DOMAIN iters PROVE DOMAIN iters[k].step = {}
    BY DEF Unsolved
<1>1. DOMAIN iters = 1..Len(iters) /\ Len(iters) \in Nat BY DEF LoopTypes
<1>2. iters # <<>> /\ Len(iters) \in 1..Len(iters) BY <1>1
<1>3. DOMAIN iters[Len(iters)].step = {} BY <1>2 DEF Prior
<1>4. k = Len(iters) \/ k \in 1..(Len(iters) - 1) BY <1>1
<1> QED BY <1>1, <1>2, <1>3, <1>4 DEF JudgedInv

\* The loop sees no unsolved step exactly when the last iteration has solved all of them.
LEMMA AllSolved ==
    ASSUME LoopTypes, JudgedInv, iters # <<>>, Steps # {}
    PROVE  Unsolved = {} <=> Solved(Prior.step) = Steps
<1>1. Prior.step \in Judged BY PriorJudged
<1>2. CASE DOMAIN Prior.step = {}
  <2>1. Unsolved = Steps BY <1>2, NeverJudged
  <2>2. Solved(Prior.step) = {} BY <1>2 DEF Solved
  <2> QED BY <2>1, <2>2
<1>3. CASE DOMAIN Prior.step # {}
  <2>1. Prior.step \in [Steps -> Verdicts \ {"tampered"}]
        BY <1>1, <1>3 DEF Judged, NoSteps
  <2>2. DOMAIN Prior.step = Steps /\ \A t \in Steps : Prior.step[t] # "tampered"
        BY <2>1
  <2>3. \A t \in Steps : t \in Unsolved <=> t \notin Solved(Prior.step)
        BY <2>2, LatestVerdict DEF Solved
  <2>4. Unsolved \subseteq Steps /\ Solved(Prior.step) \subseteq Steps
        BY <2>2 DEF Unsolved, Solved
  <2> QED BY <2>3, <2>4
<1> QED BY <1>2, <1>3

\* That is when its score is the number of steps.
LEMMA FullScore ==
    ASSUME LoopTypes, JudgedInv, ItersInv
    PROVE  Solved(Prior.step) = Steps <=> Prior.score = Cardinality(Steps)
<1>1. Prior \in Iteration BY PriorType DEF LoopTypes
<1>2. Prior.step \in {NoSteps} \cup [Steps -> Verdicts] BY <1>1 DEF Iteration
<1>3. Solved(Prior.step) \in SUBSET Steps BY <1>2 DEF Solved, NoSteps
<1>4. Prior.score = Cardinality(Solved(Prior.step)) BY PriorCounted DEF Counted
<1>5. Cardinality(Solved(Prior.step)) = Cardinality(Steps) => Solved(Prior.step) = Steps
      BY <1>3, Bounds, FS_Subset
<1> QED BY <1>4, <1>5

\* Only the two decisions lead away from the top of the loop.
LEMMA TopDecides ==
    ASSUME Next, ~SolvedAll, ~StartIteration, pc = "top"
    PROVE  pc' = "top"
<1> USE DEF Goto
<1>1. CASE AcquireLock BY <1>1, Zenon DEF AcquireLock
<1>2. CASE CreateClone BY <1>2, Zenon DEF CreateClone
<1>3. CASE DryRun BY <1>3, Zenon DEF DryRun
<1>4. CASE StartWatchdog BY <1>4, Zenon DEF StartWatchdog
<1>5. CASE CountIteration BY <1>5, Zenon DEF CountIteration
<1>6. CASE EndHarness BY <1>6, Zenon DEF EndHarness
<1>7. CASE StartAgent BY <1>7, Zenon DEF StartAgent
<1>8. CASE RunnerReturns BY <1>8, Zenon DEF RunnerReturns
<1>9. CASE JoinWatchdog BY <1>9, Zenon DEF JoinWatchdog
<1>10. CASE ScoreFails BY <1>10, Zenon DEF ScoreFails
<1>11. CASE ScoreAnswers BY <1>11, Zenon DEF ScoreAnswers
<1>12. CASE CommitIteration BY <1>12, Zenon DEF CommitIteration
<1>13. CASE PushBranch BY <1>13, Zenon DEF PushBranch
<1>14. CASE RewriteReport BY <1>14, Zenon DEF RewriteReport
<1>15. CASE RemoveClone BY <1>15, Zenon DEF RemoveClone
<1>16. CASE AgentWorks BY <1>16, Zenon DEF AgentWorks
<1>17. CASE AgentForks BY <1>17, Zenon DEF AgentForks
<1>18. CASE OrphanExits BY <1>18, Zenon DEF OrphanExits
<1>19. CASE AgentExits BY <1>19, Zenon DEF AgentExits
<1>20. CASE KillAgent BY <1>20, Zenon DEF KillAgent
<1>21. CASE Deadline BY <1>21, Zenon DEF Deadline
<1>22. CASE Tick BY <1>22, Zenon DEF Tick
<1>23. CASE ProbeFails BY <1>23, Zenon DEF ProbeFails
<1>24. CASE ProbeAnswers BY <1>24, Zenon DEF ProbeAnswers
<1>25. CASE WatchdogLeaves BY <1>25, Zenon DEF WatchdogLeaves
<1> QED
  BY <1>1, <1>2, <1>3, <1>4, <1>5, <1>6, <1>7, <1>8, <1>9, <1>10, <1>11, <1>12, <1>13, <1>14, <1>15,
     <1>16, <1>17, <1>18, <1>19, <1>20, <1>21, <1>22, <1>23, <1>24, <1>25
     DEF Next, Harness, Agent, Watchdog

LEMMA ProgressStep ==
    ASSUME LoopTypes, DryInv, PrevInv, ItersInv, JudgedInv, ProgressInv, [Next]_vars
    PROVE  ProgressInv'
<1>0. Cardinality(Steps) \in Nat BY Bounds
<1>1. CASE DryRun BY <1>1, Zenon DEF DryRun, ProgressInv
<1>2. CASE CountIteration
  <2> SUFFICES ASSUME Steps # {}, ~setup.dryRun, pc' = "top"
               PROVE  best' < Cardinality(Steps) \/ Prior'.score = Cardinality(Steps)
    <3>1. setup' = setup /\ pc' \in {"top", "end"} BY <1>2 DEF CountIteration
    <3> QED BY <3>1, Zenon DEF ProgressInv, Before, Inside
  <2>1. best < Cardinality(Steps)
    <3>1. pc = "count" BY <1>2 DEF CountIteration
    <3> QED BY <3>1, Zenon DEF ProgressInv, Before, Inside
  <2>2. Prior'.score = current.score
    <3>1. PrevInv' BY PrevStep
    <3>2. prev' = current.score BY <1>2 DEF CountIteration
    <3> QED BY <3>1, <3>2 DEF PrevInv
  <2>3. best' \in {best, current.score} BY <1>2 DEF CountIteration
  <2>4. current.score \in 0..Cardinality(Steps) BY <1>0 DEF LoopTypes, Iteration
  <2> QED BY <1>0, <2>1, <2>2, <2>3, <2>4
<1>3. CASE StartIteration
  <2> SUFFICES ASSUME Steps # {}, ~setup.dryRun PROVE best' < Cardinality(Steps)
    <3>1. setup' = setup BY <1>3 DEF StartIteration
    <3> QED BY <3>1, Zenon DEF ProgressInv
  <2>1. pc = "top" /\ best' = best /\ (iters = <<>> \/ Unsolved # {})
        BY <1>3 DEF StartIteration, Goto, loop
  <2>2. best < Cardinality(Steps) \/ Prior.score = Cardinality(Steps)
        BY <2>1, Zenon DEF ProgressInv, Before
  <2>3. CASE iters = <<>>
    <3>1. Prior.score = 0 BY <2>3 DEF Prior, Blank
    <3>2. Cardinality(Steps) # 0 BY Bounds, FS_EmptySet
    <3> QED BY <2>1, <2>2, <3>1, <3>2
  <2>4. CASE iters # <<>>
    <3>1. Prior.score # Cardinality(Steps) BY <2>1, <2>4, AllSolved, FullScore
    <3> QED BY <2>1, <2>2, <3>1
  <2> QED BY <2>3, <2>4
<1>4. CASE SolvedAll BY <1>4, Zenon DEF SolvedAll, Goto, ProgressInv, Before, Inside
<1>5. CASE Next /\ ~DryRun /\ ~CountIteration /\ ~StartIteration /\ ~SolvedAll
  <2>1. /\ UNCHANGED <<setup, iters, best>>
        /\ pc' \in Before \cup Inside => pc \in Before \cup Inside
        BY <1>5, OtherStep, Zenon DEF Before
  <2>2. pc = "top" => pc' = "top" BY <1>5, TopDecides, Zenon
  <2> QED BY <2>1, <2>2, Zenon DEF ProgressInv, Prior
<1>6. CASE UNCHANGED vars BY <1>6, Zenon DEF ProgressInv, Prior, vars, loop
<1> QED BY <1>1, <1>2, <1>3, <1>4, <1>5, <1>6

LEMMA ExitStep ==
    ASSUME LoopTypes, setup \in Setups, DryInv, JudgedInv, ProgressInv, ExitInv, [Next]_vars
    PROVE  ExitInv'
<1>1. CASE DryRun
  <2>1. exit' = "dry-run" BY <1>1 DEF DryRun
  <2> QED BY <2>1 DEF ExitInv
<1>2. CASE SolvedAll
  <2>1. exit' = "solved-all" /\ pc' = "end" /\ iters' = iters /\ Unsolved = {} /\ iters # <<>>
        BY <1>2 DEF SolvedAll, Goto
  <2>2. Solved(Prior.step) = Steps
    <3>1. CASE Steps = {}
      <4>1. Prior.step \in {NoSteps} \cup [Steps -> Verdicts]
            BY PriorType DEF LoopTypes, Iteration
      <4> QED BY <3>1, <4>1 DEF Solved, NoSteps
    <3>2. CASE Steps # {} BY <2>1, <3>2, AllSolved
    <3> QED BY <3>1, <3>2
  <2> QED BY <2>1, <2>2 DEF ExitInv, Before, Inside, Prior
<1>3. CASE CountIteration
  <2>1. pc = "count" /\ setup' = setup BY <1>3 DEF CountIteration
  <2>2. exit # "solved-all" /\ exit # "plateau" BY <2>1 DEF ExitInv, Inside
  <2>3. CASE setup.plateau > 0 /\ counter' >= setup.plateau
    <3>1. exit' = "plateau" /\ pc' = "end" BY <1>3, <2>3 DEF CountIteration
    <3>2. ~setup.dryRun BY <2>1, Zenon DEF DryInv, Inside
    <3>3. best' = best
      <4>1. counter' # 0 BY <2>3, PlateauType
      <4> QED BY <1>3, <4>1 DEF CountIteration
    <3>4. Steps # {} => best < Cardinality(Steps)
          BY <2>1, <3>2, Zenon DEF ProgressInv, Before, Inside
    <3> QED BY <2>1, <2>3, <3>1, <3>2, <3>3, <3>4, Zenon DEF ExitInv, Before, Inside
  <2>4. CASE ~(setup.plateau > 0 /\ counter' >= setup.plateau)
    <3>1. exit' = exit BY <1>3, <2>4, Zenon DEF CountIteration
    <3> QED BY <2>2, <3>1, Zenon DEF ExitInv
  <2> QED BY <2>3, <2>4
<1>4. CASE Next /\ ~DryRun /\ ~CountIteration /\ ~SolvedAll
  <2>1. UNCHANGED <<setup, iters, best, counter, exit>> BY <1>4, OtherStep, Zenon
  <2>2. pc \notin Before \cup Inside => pc' \notin Before \cup Inside
        BY <1>4, OtherStep, Zenon DEF Before
  <2> QED BY <2>1, <2>2, Zenon DEF ExitInv, Prior
<1>5. CASE UNCHANGED vars BY <1>5, Zenon DEF ExitInv, Prior, vars, loop
<1> QED BY <1>1, <1>2, <1>3, <1>4, <1>5

-----------------------------------------------------------------------------
(* The theorems *)

\* IInv is inductive, for every set of steps, every configuration and every timeout.
THEOREM Invariance == Spec => []IInv
<1>1. Init => IInv BY InitIInv
<1>2. IInv /\ [Next]_vars => IInv'
  <2> SUFFICES ASSUME IInv, [Next]_vars PROVE IInv' OBVIOUS
  <2>1. LoopTypes /\ Flags /\ RunTypes /\ WatchInv /\ DryInv /\ PlateauInv BY DEF IInv
  <2>2. PrevInv /\ CurrentInv /\ ItersInv /\ BestInv /\ ReportInv BY DEF IInv
  <2>3. setup \in Setups BY <2>1 DEF RunTypes
  <2>4. LoopTypes' /\ Flags' /\ RunTypes' /\ WatchInv'
        BY <2>1, LoopTypesStep, FlagsStep, RunTypesStep, WatchStep
  <2>5. DryInv' /\ PlateauInv' /\ PrevInv' BY <2>1, <2>2, <2>3, DryStep, PlateauStep, PrevStep
  <2>6. CurrentInv' /\ ItersInv' /\ BestInv' /\ ReportInv'
        BY <2>1, <2>2, CurrentStep, ItersStep, BestStep, ReportStep
  <2>7. JudgedInv /\ CounterInv /\ ProgressInv /\ ExitInv BY DEF IInv
  <2>8. JudgedInv' /\ CounterInv' BY <2>1, <2>7, JudgedStep, CounterStep
  <2>9. ProgressInv' BY <2>1, <2>2, <2>7, ProgressStep
  <2>10. ExitInv' BY <2>1, <2>3, <2>7, ExitStep
  <2> QED BY <2>4, <2>5, <2>6, <2>8, <2>9, <2>10 DEF IInv
<1> QED BY <1>1, <1>2, PTL DEF Spec

\* Type correctness of the harness.
THEOREM TypesKept == Spec => []TypeOK
<1>1. IInv => TypeOK
  <2> SUFFICES ASSUME IInv PROVE TypeOK OBVIOUS
  <2>1. LoopTypes /\ Flags /\ RunTypes BY DEF IInv
  <2>2. \A k \in DOMAIN iters :
            /\ iters[k].score \in 0..Cardinality(Steps)
            /\ iters[k].step = NoSteps \/ iters[k].step \in [Steps -> Verdicts]
    <3> SUFFICES ASSUME NEW k \in DOMAIN iters
                 PROVE  /\ iters[k].score \in 0..Cardinality(Steps)
                        /\ iters[k].step = NoSteps \/ iters[k].step \in [Steps -> Verdicts]
        OBVIOUS
    <3>1. iters[k] \in Iteration BY <2>1 DEF LoopTypes
    <3>2. iters[k].score \in 0..Cardinality(Steps) /\ iters[k].step \in {NoSteps} \cup [Steps -> Verdicts]
          BY <3>1 DEF Iteration
    <3> QED BY <3>2
  <2> QED BY <2>1, <2>2, Zenon DEF TypeOK, LoopTypes, Flags, RunTypes
<1> QED BY <1>1, Invariance, PTL

\* The scoring of an iteration never overlaps a probe of the watchdog.
THEOREM ScoringsExclude == Spec => []OneScoringAtATime
<1>1. IInv => OneScoringAtATime BY DEF IInv, WatchInv, OneScoringAtATime
<1> QED BY <1>1, Invariance, PTL

\* A run with a plateau of p makes at most p iterations per point it gained, and p more.
THEOREM IterationsAreBounded == Spec => []IterationsBounded
<1>1. IInv => IterationsBounded
  <2> SUFFICES ASSUME IInv, setup.plateau > 0 PROVE Len(iters) <= setup.plateau * (best + 1)
      BY DEF IterationsBounded
  <2> DEFINE p == setup.plateau
  <2>1. p \in Nat /\ best \in Nat /\ counter \in Nat /\ Len(iters) \in Nat
        BY Bounds, PlateauType DEF IInv, RunTypes, LoopTypes
  <2>2. p * (best + 1) = p * best + p /\ p * best \in Nat BY <2>1, PointsPaid, Zenon
  <2>3. CASE setup.dryRun
    <3>1. Len(iters) <= 1 BY <2>3 DEF IInv, DryInv
    <3> QED BY <2>1, <2>2, <3>1
  <2>4. CASE ~setup.dryRun
    <3>1. Len(iters) <= p * best + counter /\ counter <= p BY <2>4 DEF IInv, PlateauInv
    <3> QED BY <2>1, <2>2, <3>1
  <2> QED BY <2>3, <2>4
<1> QED BY <1>1, Invariance, PTL

\* The report and the iterations' scores and deltas are the history of the run.
THEOREM ReportIsTheHistory == Spec => []ReportTruthful
<1>1. IInv => ReportTruthful
  <2> SUFFICES ASSUME IInv PROVE ReportTruthful OBVIOUS
  <2>1. ItersInv /\ BestInv /\ ReportInv BY DEF IInv
  <2>2. pc \in Reported => /\ report.best = best /\ report.bestIter = bestIter
                           /\ report.run = Len(iters) /\ report.final = Prior.step
        BY <2>1 DEF ReportInv
  <2> QED BY <2>1, <2>2, Zenon DEF ReportTruthful, ItersInv, BestInv, Counted, Reported
<1> QED BY <1>1, Invariance, PTL

\* The reason a run gives for its end is the true one.
THEOREM ExitIsHonest == Spec => []ExitHonest
<1>1. IInv => ExitHonest
  <2> SUFFICES ASSUME IInv PROVE ExitHonest OBVIOUS
  <2>1. LoopTypes /\ ItersInv /\ BestInv /\ JudgedInv /\ CounterInv /\ ExitInv BY DEF IInv
  <2>2. exit = "solved-all" => Solved(Prior.step) = Steps BY <2>1 DEF ExitInv
  <2>3. ASSUME exit = "plateau"
        PROVE  /\ Steps # {} => Unsolved # {}
               /\ setup.plateau \in 1..Len(iters)
               /\ \A k \in (Len(iters) - setup.plateau + 1)..Len(iters) :
                     \/ iters[k].score = 0
                     \/ \E j \in DOMAIN iters \ ((Len(iters) - setup.plateau + 1)..Len(iters)) :
                           iters[j].score >= iters[k].score
    <3> DEFINE p == setup.plateau
               n == Len(iters)
    <3>1. /\ ~setup.dryRun /\ p > 0 /\ counter >= p
          /\ Steps # {} => best < Cardinality(Steps)
          BY <2>1, <2>3, Zenon DEF ExitInv
    <3>2. counter <= p /\ counter = n - bestIter BY <2>1, <3>1, Zenon DEF IInv, PlateauInv, CounterInv
    <3>3. p \in Nat /\ n \in Nat /\ bestIter \in 0..n /\ counter \in Nat /\ best \in Nat
          BY <2>1, Bounds, PlateauType DEF IInv, RunTypes, LoopTypes
    <3>4. p = n - bestIter /\ p \in 1..n BY <3>1, <3>2, <3>3
    <3>5. DOMAIN iters = 1..n /\ iters # <<>> /\ n \in 1..n BY <2>1, <3>3, <3>4 DEF LoopTypes
    <3>6. \A k \in 1..n : iters[k].score \in Nat /\ iters[k].score <= best
      <4> SUFFICES ASSUME NEW k \in 1..n PROVE iters[k].score \in Nat /\ iters[k].score <= best
          OBVIOUS
      <4>1. iters[k] \in Iteration BY <2>1, <3>5 DEF LoopTypes
      <4> QED BY <2>1, <3>5, <4>1, Bounds DEF BestInv, Iteration
    <3>7. Steps # {} => Unsolved # {}
      <4> SUFFICES ASSUME Steps # {} PROVE Unsolved # {} OBVIOUS
      <4>1. Prior.score < Cardinality(Steps) BY <3>1, <3>3, <3>5, <3>6, Bounds DEF Prior
      <4>2. Prior.score # Cardinality(Steps) BY <4>1, Bounds, <3>5, <3>6 DEF Prior
      <4> QED BY <2>1, <3>5, <4>2, AllSolved, FullScore
    <3>8. ASSUME NEW k \in (n - p + 1)..n
          PROVE  \/ iters[k].score = 0
                 \/ \E j \in DOMAIN iters \ ((n - p + 1)..n) : iters[j].score >= iters[k].score
      <4>1. k \in 1..n BY <3>3, <3>4, <3>8
      <4>2. CASE bestIter = 0
        <5>1. best = 0 BY <2>1, <4>2 DEF BestInv
        <5> QED BY <3>6, <4>1, <5>1
      <4>3. CASE bestIter # 0
        <5>1. iters[bestIter].score = best BY <2>1, <4>3 DEF BestInv
        <5>2. bestIter \in DOMAIN iters \ ((n - p + 1)..n) BY <3>3, <3>4, <3>5, <4>3
        <5> QED BY <3>3, <3>6, <4>1, <5>1, <5>2
      <4> QED BY <4>2, <4>3
    <3> QED BY <3>4, <3>7, <3>8
  <2> QED BY <2>2, <2>3, Zenon DEF ExitHonest
<1> QED BY <1>1, Invariance, PTL

=============================================================================
