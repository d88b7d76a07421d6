---------------------------- MODULE HarnessLoop -----------------------------
(***************************************************************************)
(* A run of the AI harness inside its sandbox (candy/plugin-check:         *)
(* runlocal.go, harness_loop.go, watchdog.go, stream.go, score.go): the    *)
(* iterations of the loop, the agent process each one runs, the watchdog   *)
(* that probes the score meanwhile, and what becomes of the run's clone.   *)
(*                                                                         *)
(* The scored steps of the live deployments are all the agent is judged by:*)
(* "live" is the set that works at the moment.  What one scoring makes of  *)
(* it is the subject of Scoring.                                           *)
(***************************************************************************)
EXTENDS Integers, Sequences, FiniteSets

CONSTANTS
    Steps,         \* the scored steps of the plan
    Setups,        \* the configurations of a run, and what each step depends on
    NoImprovement, \* NoImprovementTimeout, in ticks of the watchdog
    ProbeErrors    \* bound: the transient probe failures of an iteration

ASSUME HarnessAssumption ==
    /\ IsFiniteSet(Steps)
    /\ Setups \subseteq [plateau : Nat, dryRun : BOOLEAN, keepRepo : BOOLEAN,
                         stream : BOOLEAN, deadline : BOOLEAN, forks : BOOLEAN,
                         planned : BOOLEAN, deps : [Steps -> SUBSET Steps]]
    /\ Steps # {} => \A c \in Setups : c.planned
    /\ NoImprovement \in Nat /\ ProbeErrors \in Nat

VARIABLES
    setup,     \* the configuration: plateau (0: none), --dry-run, --keep-repo, output format,
               \* whether the agent has a timeout, whether it leaves orphans, whether
               \* ScoringPlan has entries (it may, and none of them be scored), the dependencies
    pc,        \* where the run is
    iters,     \* report.Iterations
    best,      \* bestScore
    bestIter,  \* bestIteration
    counter,   \* plateauCounter
    prev,      \* prevScore
    exit,      \* report.ExitReason
    report,    \* what writeReport put on disk
    current,   \* the iteration in progress, once it is scored
    live,      \* the scored steps that work
    agent,     \* the agent process: "none", "alive" or "gone"
    orphan,    \* a child of the agent is alive that holds its stdout
    cancelled, \* runnerCtx is done
    wd,        \* the watchdog: "off", "waiting", "probing" or "gone"
    wdBest,    \* its bestScore, -1 before the first probe
    wdIdle,    \* ticks since its start or the last improvement it saw
    wdFired,   \* its timedOut
    errors,    \* bound: probe failures so far
    clone,     \* the run's clone: "none", "present" or "gone"
    commits,   \* the iterations committed in the clone
    pushed     \* the iterations on the host's branch

loop == <<iters, best, bestIter, counter, prev, exit, report>>
runner == <<agent, orphan, cancelled>>
watchdog == <<wd, wdBest, wdIdle, wdFired, errors>>
repo == <<clone, commits, pushed>>
vars == <<setup, pc, loop, current, live, runner, watchdog, repo>>

Verdicts == {"solved", "unchanged", "regressed", "tampered", "retagged", "added", "skipped"}
NoSteps == <<>>
NoReport == [best |-> 0, bestIter |-> 0, run |-> 0, final |-> NoSteps]
Blank == [score |-> 0, step |-> NoSteps, failed |-> FALSE, delta |-> 0, counter |-> 0]

-----------------------------------------------------------------------------
(* Verdicts *)

\* A step's state: whether it was there, its fingerprints (0: unknown) and its status.
StepState(status) == [present |-> TRUE, body |-> 1, tags |-> 1, status |-> status]

Classify(pre, post) ==
    LET changed(field) == pre[field] # 0 /\ post[field] # 0 /\ pre[field] # post[field]
    IN CASE post.status = "skipped" -> "skipped"
         [] post.status # "skipped" /\ ~pre.present /\ post.present -> "added"
         [] post.status # "skipped" /\ pre.present /\ ~post.present -> "tampered"
         [] OTHER ->
              IF changed("body") /\ post.status = "pass" THEN "tampered"
              ELSE IF ~changed("body") /\ changed("tags") THEN "retagged"
              ELSE IF pre.status = "pass" /\ post.status = "fail" THEN "regressed"
              ELSE IF pre.status \in {"fail", "skip", ""} /\ post.status = "pass" THEN "solved"
              ELSE "unchanged"

\* The statuses a scoring can report: the cascade of Scoring over the steps that work.
Scorings ==
    {s \in [Steps -> {"pass", "fail", "skipped"}] :
        \A t \in Steps :
            /\ s[t] = "skipped" <=> \E d \in setup.deps[t] : s[d] # "pass"
            /\ s[t] = "pass" => t \in live
            /\ s[t] = "fail" => t \notin live}

\* synthesizeScoreBaseline: every scored step failed before the agent came; the live path
\* compares fingerprints with themselves.
VerdictsOf(status) == [t \in Steps |-> Classify(StepState("fail"), StepState(status[t]))]
Solved(step) == {t \in DOMAIN step : step[t] = "solved"}

\* Mutation: a step that was solved once has left the game.
UnsolvedEver ==
    {t \in Steps :
        \A k \in DOMAIN iters :
            t \in DOMAIN iters[k].step => iters[k].step[t] \notin {"solved", "tampered"}}

\* stillUnsolved: a step leaves the game with its latest verdict, solved or tampered.
Unsolved ==
    {t \in Steps :
        LET seen == {k \in DOMAIN iters : t \in DOMAIN iters[k].step}
        IN seen # {} =>
              LET latest == CHOOSE k \in seen : \A j \in seen : j <= k
              IN iters[latest].step[t] \notin {"solved", "tampered"}}

\* priorScore, priorStepVerdicts
Prior == IF iters = <<>> THEN Blank ELSE iters[Len(iters)]

-----------------------------------------------------------------------------
PCs == {"lock", "clone", "top", "scope", "dispatch", "running", "join", "score", "commit",
        "count", "end", "push", "report", "cleanup", "done", "failed", "refused"}

TypeOK ==
    /\ setup \in Setups
    /\ pc \in PCs
    /\ \A k \in DOMAIN iters :
          /\ iters[k].score \in 0..Cardinality(Steps)
          /\ iters[k].step = NoSteps \/ iters[k].step \in [Steps -> Verdicts]
    /\ best \in 0..Cardinality(Steps) /\ counter \in Nat
    /\ bestIter \in 0..Len(iters) /\ prev \in 0..Cardinality(Steps)
    /\ exit \in {"", "solved-all", "dry-run", "plateau"}
    /\ live \subseteq Steps
    /\ agent \in {"none", "alive", "gone"} /\ orphan \in BOOLEAN /\ cancelled \in BOOLEAN
    /\ wd \in {"off", "waiting", "probing", "gone"} /\ wdFired \in BOOLEAN
    /\ wdBest \in -1..Cardinality(Steps) /\ wdIdle \in 0..NoImprovement
    /\ errors \in 0..ProbeErrors
    /\ clone \in {"none", "present", "gone"}
    /\ commits \subseteq Nat /\ pushed \subseteq commits

Init ==
    /\ setup \in Setups
    /\ pc = "lock"
    /\ iters = <<>> /\ best = 0 /\ bestIter = 0 /\ counter = 0 /\ prev = 0
    /\ exit = "" /\ report = NoReport /\ current = Blank
    /\ live \in SUBSET Steps
    /\ agent = "none" /\ orphan = FALSE /\ cancelled = FALSE
    /\ wd = "off" /\ wdBest = -1 /\ wdIdle = 0 /\ wdFired = FALSE /\ errors = 0
    /\ clone = "none" /\ commits = {} /\ pushed = {}

Goto(here, there) == pc = here /\ pc' = there

-----------------------------------------------------------------------------
(* CheckRunLocalCmd.Run, up to the loop *)

\* acquireHarnessLock: fail-fast, before anything is created.
AcquireLock ==
    /\ \/ Goto("lock", "clone")
       \/ Goto("lock", "refused")
    /\ UNCHANGED <<setup, loop, current, live, runner, watchdog, repo>>

\* CreateRunClone: what it had made when it failed stays behind.
CreateClone ==
    /\ \/ Goto("clone", "top") /\ clone' = "present"
       \/ Goto("clone", "failed") /\ clone' \in {"none", "present"}
    /\ UNCHANGED <<setup, loop, current, live, runner, watchdog, commits, pushed>>

-----------------------------------------------------------------------------
(* RunHarness *)

SolvedAll ==
    /\ Unsolved = {}
    /\ iters # <<>>
    /\ Goto("top", "end")
    /\ exit' = "solved-all"
    /\ UNCHANGED <<setup, iters, best, bestIter, counter, prev, report, current, live,
                   runner, watchdog, repo>>

\* runOneIteration: the scope and the prompt are written, which may fail.
StartIteration ==
    /\ iters = <<>> \/ Unsolved # {}
    /\ \/ Goto("top", "scope")
       \/ Goto("top", "failed")
    /\ UNCHANGED <<setup, loop, current, live, runner, watchdog, repo>>

DryRun ==
    /\ setup.dryRun
    /\ Goto("scope", "end")
    /\ iters' = Append(iters, Blank)
    /\ exit' = "dry-run"
    /\ UNCHANGED <<setup, best, bestIter, counter, prev, report, current, live, runner,
                   watchdog, repo>>

\* The watchdog exists where the scoring plan has entries, scored ones or not.
StartWatchdog ==
    /\ ~setup.dryRun
    /\ Goto("scope", "dispatch")
    /\ wd' = IF setup.planned THEN "waiting" ELSE "off"
    /\ wdBest' = -1 /\ wdIdle' = 0 /\ wdFired' = FALSE /\ errors' = 0
    /\ cancelled' = FALSE
    /\ agent' = "none" /\ orphan' = FALSE
    /\ UNCHANGED <<setup, loop, current, live, repo>>

CountIteration ==
    /\ pc = "count"
    /\ LET better == current.score > best
       IN /\ best' = IF better THEN current.score ELSE best
          /\ bestIter' = IF better THEN Len(iters) + 1 ELSE bestIter
          /\ counter' = IF better THEN 0 ELSE counter + 1
    /\ iters' = Append(iters, [current EXCEPT !.delta = current.score - prev, !.counter = counter'])
    /\ prev' = current.score
    /\ LET plateau == setup.plateau > 0 /\ counter' >= setup.plateau
       IN /\ pc' = IF plateau THEN "end" ELSE "top"
          /\ exit' = IF plateau THEN "plateau" ELSE exit
    /\ UNCHANGED <<setup, report, current, live, runner, watchdog, repo>>

\* Behind the loop: the report is completed and written, or the run fails.
EndHarness ==
    /\ \/ /\ Goto("end", "push")
          /\ report' = [best |-> best, bestIter |-> bestIter, run |-> Len(iters),
                        final |-> Prior.step]
       \/ /\ Goto("end", "failed")
          /\ UNCHANGED report
    /\ UNCHANGED <<setup, iters, best, bestIter, counter, prev, exit, current, live, runner,
                   watchdog, repo>>

-----------------------------------------------------------------------------
(* dispatchRunnerAndScore and runRunnerFn *)

\* The agent starts, or cannot: that is no failure of the iteration.
StartAgent ==
    /\ \/ Goto("dispatch", "running") /\ agent' = "alive" /\ UNCHANGED cancelled
       \/ Goto("dispatch", "join") /\ cancelled' = TRUE /\ UNCHANGED agent
    /\ UNCHANGED <<setup, loop, current, live, orphan, watchdog, repo>>

\* The agent, or a child it left behind, changes what works.
AgentWorks ==
    /\ agent = "alive" \/ orphan
    /\ pc \in {"running", "join", "score"}
    /\ live' \in SUBSET Steps \ {live}
    /\ UNCHANGED <<setup, pc, loop, current, runner, watchdog, repo>>

AgentForks ==
    /\ setup.forks
    /\ agent = "alive"
    /\ ~orphan
    /\ orphan' = TRUE
    /\ UNCHANGED <<setup, pc, loop, current, live, agent, cancelled, watchdog, repo>>

OrphanExits ==
    /\ orphan
    /\ orphan' = FALSE
    /\ UNCHANGED <<setup, pc, loop, current, live, agent, cancelled, watchdog, repo>>

AgentExits ==
    /\ agent = "alive"
    /\ agent' = "gone"
    /\ UNCHANGED <<setup, pc, loop, current, live, orphan, cancelled, watchdog, repo>>

\* exec.CommandContext kills the process it started, and no other.
KillAgent ==
    /\ cancelled
    /\ agent = "alive"
    /\ agent' = "gone"
    /\ UNCHANGED <<setup, pc, loop, current, live, orphan, cancelled, watchdog, repo>>

Deadline ==
    /\ setup.deadline
    /\ pc = "running"
    /\ ~cancelled
    /\ cancelled' = TRUE
    /\ UNCHANGED <<setup, pc, loop, current, live, agent, orphan, watchdog, repo>>

\* Mutation: the scoring does not wait for the watchdog.
RunnerReturnsEarly ==
    /\ agent = "gone"
    /\ setup.stream => ~orphan
    /\ Goto("running", "score")
    /\ cancelled' = TRUE
    /\ UNCHANGED <<setup, loop, current, live, agent, orphan, watchdog, repo>>

\* cmd.Run returns: with an io.Writer as stdout (stream-json) it also waits for the copy of
\* that pipe, which ends when nobody holds the write end.  Then the context is cancelled.
RunnerReturns ==
    /\ agent = "gone"
    /\ setup.stream => ~orphan
    /\ Goto("running", "join")
    /\ cancelled' = TRUE
    /\ UNCHANGED <<setup, loop, current, live, agent, orphan, watchdog, repo>>

\* <-watchdogDone.  What the watchdog knew goes with it, but for timedOut.
JoinWatchdog ==
    /\ wd \in {"off", "gone"}
    /\ Goto("join", "score")
    /\ wdBest' = -1 /\ wdIdle' = 0 /\ errors' = 0
    /\ UNCHANGED <<setup, loop, current, live, runner, wd, wdFired, repo>>

\* Mutation: an iteration that could not be scored has solved nothing.
ScoreFailsBlank ==
    /\ Goto("score", "commit")
    /\ current' = [Blank EXCEPT !.failed = TRUE]
    /\ UNCHANGED <<setup, loop, live, runner, watchdog, repo>>

\* The scoring failed: the iteration inherits the score and the verdicts of the last one.
ScoreFails ==
    /\ Goto("score", "commit")
    /\ current' = [Blank EXCEPT !.failed = TRUE, !.score = Prior.score, !.step = Prior.step]
    /\ UNCHANGED <<setup, loop, live, runner, watchdog, repo>>

ScoreAnswers ==
    /\ Goto("score", "commit")
    /\ \E status \in Scorings :
          LET step == VerdictsOf(status)
          IN current' = [Blank EXCEPT !.score = Cardinality(Solved(step)), !.step = step]
    /\ UNCHANGED <<setup, loop, live, runner, watchdog, repo>>

\* commitIterationBestEffort and writeIterScore: a failed commit is a warning; a score file
\* that cannot be written ends the run, where the scoring had succeeded.
CommitIteration ==
    /\ \/ Goto("commit", "count")
       \/ ~current.failed /\ Goto("commit", "failed")
    /\ commits' \in {commits, commits \cup {Len(iters) + 1}}
    /\ UNCHANGED <<setup, loop, current, live, runner, watchdog, clone, pushed>>

-----------------------------------------------------------------------------
(* ProgressWatchdog.Run *)

\* The ticker; a select with both channels ready picks either.
Tick ==
    /\ wd = "waiting"
    /\ wd' = "probing"
    /\ wdIdle' = IF wdIdle < NoImprovement THEN wdIdle + 1 ELSE wdIdle
    /\ UNCHANGED <<setup, pc, loop, current, live, runner, wdBest, wdFired, errors, repo>>

\* A failed probe skips the tick; the probe shares the context of the runner.
ProbeFails ==
    /\ wd = "probing"
    /\ wd' = "waiting"
    /\ \/ cancelled /\ UNCHANGED errors
       \/ errors < ProbeErrors /\ errors' = errors + 1
    /\ UNCHANGED <<setup, pc, loop, current, live, runner, wdBest, wdIdle, wdFired, repo>>

\* Mutation: a probe that sees no improvement starts the count again.
ProbeForgives ==
    /\ wd = "probing"
    /\ wd' = "waiting"
    /\ wdIdle' = 0
    /\ UNCHANGED <<setup, pc, loop, current, live, runner, wdBest, wdFired, errors, repo>>

\* The first answer is the baseline, not an improvement.
ProbeAnswers ==
    /\ wd = "probing"
    /\ wd' = "waiting"
    /\ \E status \in Scorings :
          LET score == Cardinality({t \in Steps : status[t] = "pass"})
          IN /\ wdBest' = IF score > wdBest THEN score ELSE wdBest
             /\ wdIdle' = IF wdBest >= 0 /\ score > wdBest THEN 0 ELSE wdIdle
    /\ LET timeout == ~wdFired /\ NoImprovement > 0 /\ wdIdle' >= NoImprovement
       IN /\ wdFired' = (wdFired \/ timeout)
          /\ cancelled' = (cancelled \/ timeout)
    /\ UNCHANGED <<setup, pc, loop, current, live, agent, orphan, errors, repo>>

WatchdogLeaves ==
    /\ wd = "waiting"
    /\ cancelled
    /\ wd' = "gone"
    /\ UNCHANGED <<setup, pc, loop, current, live, runner, wdBest, wdIdle, wdFired, errors, repo>>

-----------------------------------------------------------------------------
(* CheckRunLocalCmd.Run, behind the loop *)

PushBranch ==
    /\ Goto("push", "report")
    /\ pushed' \in {pushed, commits}
    /\ UNCHANGED <<setup, loop, current, live, runner, watchdog, clone, commits>>

\* The report is written again, with the agent's version; an error is ignored.
RewriteReport ==
    /\ Goto("report", "cleanup")
    /\ UNCHANGED <<setup, loop, current, live, runner, watchdog, repo>>

RemoveClone ==
    /\ Goto("cleanup", "done")
    /\ clone' \in IF setup.keepRepo THEN {"present"} ELSE {"present", "gone"}
    /\ UNCHANGED <<setup, loop, current, live, runner, watchdog, commits, pushed>>

-----------------------------------------------------------------------------
Harness ==
    \/ AcquireLock \/ CreateClone \/ SolvedAll \/ StartIteration \/ DryRun \/ StartWatchdog
    \/ CountIteration \/ EndHarness \/ StartAgent \/ RunnerReturns \/ JoinWatchdog
    \/ ScoreFails \/ ScoreAnswers \/ CommitIteration \/ PushBranch \/ RewriteReport
    \/ RemoveClone

Agent == AgentWorks \/ AgentForks \/ OrphanExits \/ AgentExits

Watchdog == Tick \/ ProbeFails \/ ProbeAnswers \/ WatchdogLeaves

Next == Harness \/ Agent \/ KillAgent \/ Deadline \/ Watchdog

Spec == Init /\ [][Next]_vars

\* The harness and the kernel go on, a timeout is reached, the ticker ticks, a probe ends.
\* The select of the watchdog does not overlook a cancelled context for ever.  Nothing is
\* promised of the agent or of what it leaves behind.
Fairness ==
    /\ WF_vars(Harness)
    /\ WF_vars(KillAgent)
    /\ WF_vars(Deadline)
    /\ WF_vars(Tick)
    /\ WF_vars(ProbeFails \/ ProbeAnswers)
    /\ SF_vars(WatchdogLeaves)

FairSpec == Spec /\ Fairness

-----------------------------------------------------------------------------
(* Properties *)

ScoreBefore(k) == IF k = 1 THEN 0 ELSE iters[k - 1].score

\* The reason a run gives for its end is the true one.  "solved-all": the last iteration
\* that could be scored saw every step solved.  "plateau": the last PlateauIteration
\* iterations brought nothing above what was there before them, and steps are still
\* unsolved - solving the last step in the last permitted iteration is no plateau.
ExitHonest ==
    /\ exit = "solved-all" => Solved(Prior.step) = Steps
    /\ exit = "plateau" =>
          /\ Steps # {} => Unsolved # {}
          /\ setup.plateau \in 1..Len(iters)
          /\ LET window == (Len(iters) - setup.plateau + 1)..Len(iters)
             IN \A k \in window :
                   \/ iters[k].score = 0
                   \/ \E j \in DOMAIN iters \ window : iters[j].score >= iters[k].score

\* A run with a plateau makes at most PlateauIteration iterations per improvement and
\* there are no more improvements than points: an agent that loses steps and solves them
\* again, or a venue that cannot be scored, does not keep it going.
IterationsBounded ==
    setup.plateau > 0 => Len(iters) <= setup.plateau * (best + 1)

\* The report is the history of its iterations: the best score and the first iteration that
\* reached it, the verdicts of the last one, scores that count the solved steps and deltas
\* that add up - an iteration that could not be scored moved nothing.
ReportTruthful ==
    /\ pc \in {"push", "report", "cleanup", "done"} =>
          /\ report.run = Len(iters)
          /\ report.final = Prior.step
          /\ \A k \in DOMAIN iters : iters[k].score <= report.best
          /\ IF report.bestIter = 0 THEN report.best = 0
             ELSE /\ iters[report.bestIter].score = report.best
                  /\ \A k \in 1..(report.bestIter - 1) : iters[k].score < report.best
    /\ \A k \in DOMAIN iters :
          /\ iters[k].score = Cardinality(Solved(iters[k].step))
          /\ iters[k].delta = iters[k].score - ScoreBefore(k)
          /\ iters[k].failed => iters[k].delta = 0

\* No two scorings at once: each of them deploys and deletes the ephemeral venues, so the
\* scoring of an iteration waits for the watchdog to be through with its probe.
OneScoringAtATime == pc = "score" => wd # "probing"

\* A run ends, whatever its agent does - also an agent that hangs without a timeout, which
\* the watchdog sees by the score alone.  Not claimed, and not true of the code: without a
\* plateau, of an agent that never solves everything; where every probe of the watchdog
\* fails (ProbeErrors bounds them); where a child of the agent keeps the pipe of a
\* structured output open.
RunEnds == <>(pc \in {"done", "failed", "refused"})

=============================================================================
