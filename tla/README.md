# Formal models of plugin-check

`candy/plugin-check` is the check runner of *charly*: it deploys disposable test
beds (pods, VMs, clusters, in-place targets), checks them, rebuilds them, checks
them again and tears them down; it gathers the plan a deployment is judged by,
reads verdicts out of what child commands print, scores plans, and runs an AI
agent against such a score. This directory holds TLA+ models of it, TLC
configurations that check them on small instances, and TLAPS proofs of the most
important results for every instance. File names below are relative to
`src/candy/plugin-check/`.

## The system

| component | source | state it keeps | operations | hard part | what makes it correct |
|---|---|---|---|---|---|
| bed run sequence | `bed_run.go`, `anchored.go`, `bed_persist.go`, `bed_autoprovision.go` | named results, defer stack, venue flags, the step list | build, bring-up, live, update gate, golden capture, teardown | every step can fail, be retried, panic or be signalled; seven deferred functions run in reverse | nothing stays up, locked or leased that should not; the verdict says what happened |
| verdict and hook | `bed_verdict.go` | `bedRunState`, `bedVerdictCur`, `summary.yml` | begin, record, shutdown hook, end | deferred writer against signal hook; one current run per process | exactly one verdict, first writer wins |
| bed session | `bed_session.go`, `bed_lock.go`, `bed_ephemeral_timers.go` | bed flock, domain flocks, lease, `RunEnv`, temp overlay, timers | `bedSetup`, rollback, `release` | several runs per process, several processes, crashes | mutual exclusion, no deadlock, no leak |
| `check stop` | `stop_cmd.go` | none (asks the kernel) | find, TERM, poll, KILL | the holder is a process | the found run is over |
| roster | `roster.go`, `roster_helpers.go` | outcomes, lanes semaphore, token chains | select, chain, run, aggregate | goroutines that share process-global state | beds of one token never together; the exit code follows from all outcomes |
| stderr mirror | `bed_stderr.go` | file descriptor 2, a pipe and a drain per run | start, drain, bounded close | process-global fd, several beds, children that inherit it | what is written is never lost |
| instruments, evidence | `instrument.go`, `evidence.go` | open captures, rows, `pipelinesDone` | phase brackets, evidence phase, finalizer | failed brackets, captures that outlive a phase | every capture is closed, pipelines see their venue |
| capture sessions | `session_service.go`, `session_seam.go` | `handle.json` files, systemd units or process groups | spawn, stop, mark, reap, finalize, sweep | three writers of one file; a crash between spawn and handle | every capture stopped once, by the handles alone |
| diagnostics, status | `bed_diagnostics.go`, `bed_status.go`, `no_plan_skip.go` | none | scan a log, read a report, map an exit code | one log holds tools, quotations and reports | a skip is not a pass, a quotation is not a report |
| AI harness loop | `runlocal.go`, `harness_loop.go`, `watchdog.go`, `clone.go`, `notes.go` ... | iterations, best score, plateau, clone, report | iterate, dispatch, probe, score, push | watchdog against a finishing runner; an agent that hangs | the loop ends with the right reason and a true report |
| scoring | `score_live.go`, `live_scoring.go`, `score.go` | verdicts per step, ephemeral venues | order, bucket, score, classify | cycles, dependencies across venues, venues that do not answer | a step is scored after what it depends on, once |
| live and feature gathering | `live_gather.go`, `live_gather_kubevirt.go`, `feature_run_gather.go`, `venue.go`, `checkproject.go`, `cmd_helpers.go` | none | resolve an address, pick the arm, gather the plan, gate on the venue | several trees and key spellings; a venue that goes down meanwhile | what is named is judged, by what was authored for it |
| commands, box gathering, DNS repair, schema, harness helpers | the rest | none | parse, print, copy, invoke | - | - |

A run calls `bedSetup`, defers `bedTeardown`, and drives `charly` subcommands
through the cli seam; the venue's own teardown is deferred last and so runs first.
Each subcommand is a child whose merged log and exit code the run reads back
(diagnostics and status); the checking children resolve an address and judge its
plan (gathering). The brackets of a run start and stop capture sessions, which
outlive the calls that started them. A roster calls the same `runCheckBed` from a
goroutine per token chain in one process, so everything held by the process (fd 2,
`bedVerdictCur`, the shutdown hook) is shared, while the locks and the lease are
kept per run. `check stop` meets a run only through its lock file. The harness
asks for a scoring after each iteration and, through its watchdog, during it.

## Modules

| module | what it is |
|---|---|
| `BedRun` | one `runCheckBed`, from the return of `bedSetup` to the last deferred function, several runs in a row |
| `BedSession` | `bedSetup`, `release` and crashes of any number of runs in any number of processes |
| `BedExclusion` | abstract specification: colliding runs are never in their bodies together |
| `CheckStop` | `check stop` composed with the sessions |
| `StderrMirror` | the captures of fd 2, their pipes and drains |
| `Roster` | `runCheckRoster` composed with `StderrMirror` and the process's one current run |
| `RosterPromise` | abstract specification: what a roster promises, whatever its chains and lanes |
| `Instruments` | the authored `instrument:` lists up to the dispatches of the brackets, as operators |
| `Captures` | the recorders of a bed over its runs: spawn, handles, reapers, stops, finalizer, sweep, crashes |
| `Scoring` | one scoring of a plan: order, buckets, cascade, ephemeral venues |
| `HarnessLoop` | a run of the AI harness: loop, agent, watchdog, clone, report |
| `StepReport` | what a run reads out of its children's logs and exit codes |
| `LiveTarget` | from an address to the plan that is judged and where |
| `*_proofs` | invariants and theorems of `BedRun`, `BedSession` and `CheckStop`, `Roster`, `Captures`, `Scoring`, `HarnessLoop`, `StepReport` |
| `SequenceFacts` | lemmas about sequences those proofs share: induction by sets, `FlattenSeq`, a sequence's landmark, what is kept of a sequence |
| `MC*` | the instances TLC checks |

**BedRun.** `runCheckBed`'s body is straight-line code with guards on the bed's
configuration. The operators `BuildPart` ... `TailPart` compute from a
configuration the sequence of steps the code issues, with the code's own
predicates (`CapturesGolden`, `ReclaimsVmStateDir`, `UpdateGateFor`, ...), and
`todo` holds the rest. A step has a kind: `cli` (`stepEnv`), `phase` (an
in-process phase), `bracket`, `evidence`, `teardown` (`bedVenueTeardown` on the
success tail), `mark` (`venue.deployed = true`). Each kind has an action for
passing and for failing, and `cli` steps one for each failure the body survives.
`FailTail` is the closure `fail`, `StartCleanup` is `bedVenueTeardown`'s gate
passed, and `CleanupProgram` is the closure `cleanup`. `defers` counts how many
functions of `DeferOrder` are registered; in state `unwind` they pop one by one.
`world` is the host as the subcommands change it: live targets, the VM's disk and
its golden, whether the root runs, which overlay entries are seeded, which
targets have been checked since the root last changed. `hist` is read by
properties only. `Panic`, `HookFires`, `Signal` and `Kill` can strike at every
point the code leaves open. A signal's hook runs on the handler's goroutine
(`HookFires`): it writes the `stopped` verdict while the runner's own steps go on,
until the re-raised signal ends the process (`Signal`). A kill leaves everything.
Properties that tie the verdict to the result except a `stopped` verdict, which
says nothing of the steps.

**BedSession.** A run walks `idle, loading, domains, running, rel-lease,
rel-timers, rel-config, rel-locks, ended`; `dead` is a run whose process died.
`TakeBedLock` also stands for the creation of the session and of the run
directory: between them nothing is shared. The bed flock is tried, the domain
flocks block; both go with the process. The lease marker is in the run's own
`RunEnv` (`marker`), the arbiter's ledger is keyed by the bed. `rolled` records
that a release is `bedSetup`'s rollback, which runs under another context than
the teardown and therefore loads another overlay (`LoadedOverlay`).

**CheckStop.** The command reads the lock's holders twice, before SIGTERM and at
the deadline. The signalled process ends in its own time (`TermExits`), may end
by itself first, or is killed. A signal that cannot be sent ends the command with an
error, at either place (`StopSignalFails`, `StopEscalationFails`); the run goes on.

**StderrMirror, Roster.** A pipe is named by the bed whose capture made it, a
chunk by its writer; `HasWriter` collects who holds a pipe's write end, for a
drain ends only when nobody does. dup and redirect are two steps, as are restoring
fd 2, closing the write end, and the join with its grace. In `Roster` a bed is in
one of the stages of `runOne`/`runRosterBed`/`runCheckBed` that touch something
shared; `BodyReturns` takes the outcome from the configuration's `kinds`.
`UnionChains` and `ChainBed` are one iteration of `buildRosterChains`'s loop,
fold by fold; `ClampRosterLanes` is the clamp by processors, beds and memory;
`RunRosterBed` and `AggregateRoster` are the verdict mapping. A panic in a bed's
goroutine ends the process after that goroutine's own defers; the shutdown hook
runs beside the beds until the signal is re-raised.

**Instruments, Captures.** `ResolveInstruments` and `Dispatches` compute which
starts and stops a run issues, and refuse what the code refuses; `MCCaptures`
feeds their results to `Captures` as `dispatches`. A recorder is named by run and
dispatch. `disk` is the `handle.json` of each run and session; a write truncates
first, so a reader may meet a torn file. `job` is the runner's spawn or stop in
progress (`spawned`, `persisting`, `undo`; `stop`, `mark`, `marking`, `collect`),
`waiting` and `marking` are the goroutines that reap setsid children, which write
through their own handle struct. `Crash` kills the process and its goroutines and
leaves the recorders.

**Scoring.** `TopoOrder` is `topoSortScored` (a recursive function, one placed step
after the other), the steps it never places fail one by one (`ReportCyclic`),
`BucketLength` is `groupScoredByPod`, an open bucket is `pluginScoreOneVenueBucket`
with its ephemeral deployment (`OpenBucket`), the probe (`reachable`), the cascade
(`SkipStep`) and the deferred deletion (`CloseBucket`). `kit.FirstUnmetDepStep` is not
in this repository: whether a dependency without a verdict blocks is left open
(`lax`).

**HarnessLoop.** `pc` follows `CheckRunLocalCmd.Run`, `RunHarness`,
`runOneIteration`, `dispatchRunnerAndScore`. `live` is the set of scored steps
that work at the moment, changed by the agent (`AgentWorks`) while it or a child
of it lives; a scoring answers some member of `Scorings`, the cascade over `live`.
The watchdog is started where there is a scoring plan (`planned`; a plan without
scored steps is one too), counts ticks since the last improvement it saw and shares
the runner's context (`cancelled`).

**StepReport.** A log is a sequence of classified lines: errors and warnings, proofs
of recovery, the banner and the refusal of a hook, report lines, others. `truth` keeps
what a child's plan really found and `fate` how the child came to exit; everything the
run believes comes from `log`, `exit` and `cerr`. `AllowanceRecovered` is the
conditional exemption of a diagnostic, `ParseCheckReport` the report's block between
the last two rollups, `RecordStep` and `RecordSkip` are `stepEnv`, `RunExit` the exit
code.

**LiveTarget.** A tree maps a deployment's address (a sequence of labels) to a node
with venue, template, plan, candies and members. `Classify` picks the arm as
`pluginCheckLive` and the feature command do; each arm is one action, the pod arm
four, since the container is looked up, gated, inspected and read one after the
other and may go down in between (`VenueGoesDown`). A container has the name that
the deploy of its bed or member gave it (`Created`, `BedAddChild`), a lookup asks for
the name it makes of the address (`ContainerName`); what the SDK puts between the
names of a path is left open (`joint`). A VM without an overlay entry of its name is
searched by its base (`FindVmNode`), which may find another one's, or several.

## Runs

| run | shows | distinct states |
|---|---|---|
| `bed_run` | one run of every bed under every option: exit paths, retention, verdict, captures; two runs in a row of a golden-capturing VM bed, fresh or anchored, after success, failure or kill; a run ends | 1.6 million |
| `bed_session` | four sessions, two processes, crashes, failing host calls and a stop whose signals may fail | 1.0 million |
| `roster` | up to four beds under lanes and tokens, every ending, nested captures, a panic, a signal | 250 000 |
| `captures` | the recorders of two runs, both backends, wedged recorders, late reapers, a kill between any two steps | 310 000 |
| `scoring` | every dependency graph over three steps in two venues | 89 000 |
| `harness` | iterations of the AI harness with its watchdog and an agent that may solve, regress, hang or fork, with and without scored steps | 290 000 |
| `step_report` | two children with any order of tool lines, quotations and a report: which errors pass, the record, the pass and the exit code | 2.7 million |
| `live_target` | every address of several small projects, both modes, members of every root, a venue that goes down | 110 000 |

Four more runs (`bed_run_exit`, `bed_run_survived`, `bed_session_timers`,
`step_report_recovery`) each look for the counterexample to one statement of the
code's comments; see below.

What each property says is in the comment above it. The ones a reader should
start with:

- `SessionReleased`, `VenueDisposed`, `RetentionHonoured`: what the eight exits of
  a run leave behind;
- `VerdictOnRecord`, `VerdictTruthful`, `LeaseMatchesVerdict`: the verdict against
  the result, the hook and the lease;
- `VerdictCoversRebuild`, `ChecksSeeLiveTargets`: what a pass is allowed to mean.
  The second says that a passing `check live` finds its target, the root and every
  member up; it excepts the nested children of an in-place root, which run mode asks
  after and does not deploy;
- `ImplementsExclusion`, `NothingLeaks`, `SessionsEnd`: the promises of a session;
- `ImplementsPromise`: the exit code of a roster is a function of how all of its
  beds ended, its lanes and chains exclude and lose none; `NoChunkLost`: what
  is written to fd 2 is shown or in a pipe whose drain still runs. When the process
  has concluded, only a close that gave up after its grace may have left any; when it
  was killed by a panic of another lane or by a signal, so may the runs
  it interrupted;
- `FinalizerLeavesNothing`, `SweepRecovers`: no recorder survives its run, or
  the next run's start after a crash, except for the named excuses;
- `NoFalsePass`, `ExitTellsTheClass`: a pass proved something, and the exit code and
  the outcome determine each other. The only outcome with a code of another class is
  the guest that had nothing to check (`GuestHadNothing`);
- `ErrorsAnswered`: an error in the log of a step that passed is recovered, or one
  hook was refused for it and for no other error. Of a recovery it asks no order and,
  where an entry's proof names nobody, no subject: what the comments ask beyond that is
  `RecoveryIsItsOwn`, which `step_report_recovery` refutes;
- `CascadeHonest`, `ExitHonest`, `ReportTruthful`: a score is earned, and a
  harness's end is the one it names;
- `NamedIsJudged`, `PlanIsWhatWasAuthored`: the right plan in the right venue. `Gap`
  names what is known not to be judged and `Disputed` the steps that the code and
  the repository's words do not agree about, each beside the words in question.

### Bounds

- `bed_run`: a VM bed with an in-guest and a host-rooted child, a pod
  bed with a child, a VM member and an image member, and childless, memberless and
  in-place beds. No code looks at more than one child or member at a time, and two
  in one bed distinguish order and partial failure. One instrument: `inPhase` and
  the brackets treat entries independently. `MaxRuns` is 1, and 2 for a
  VM bed with a golden, where something must survive a run.
- `bed_session`: two VM beds share two domains, the least that can deadlock; one
  shares a token with the pod bed, which is started from two processes and from
  one of them with the operator's overlay. `Flaky` bounds which runs meet failing
  host calls.
- `roster`: four beds and three tokens let a bed join three chains at once and
  another one meet a folded chain afterwards (`UnionRosters`). The other
  configurations vary one thing each: endings with a negative control, selection,
  memory for no lane and for two, mirrored beds beside and behind each other.
  `Forkers` is one bed. The full product would add no interaction: selection and
  lanes are fixed before the first bed runs, and an outcome reads one bed only.
- `captures`: `MaxRuns` 2 (a crashed run and the one that sweeps), `MaxCrashes` 1.
  Two brackets of one session on each backend, two venues, a recorder that may
  wedge, and three refused documents.
- `scoring`: three steps are the least with a cycle and a step behind it, or a
  bucket that returns to its first venue.
- `harness`: two steps that may depend on each other, a plateau of none, one or
  two, two ticks without improvement, one failing probe. Without a plateau the
  iterations are bounded by the dry run only; such setups are dry runs.
- `step_report`: two steps (a failing exit code must survive a later step), three
  outputs beside the report: an error, its proof and a line between them. An output
  that has begun is printed to its end, so that a banner, a refusal, its next line and
  two wrapper errors come in one log, the least in which one chain could answer for
  two. Two packages, four hooks, the shapes of allowance entry the code has.
- `live_target`: a root of every venue, a namespaced one, pod members of a pod, a
  local root, a VM and a namespaced root, members that are also names of roots,
  includes that nest and circle, pins that match and conflict, overlays of no, one
  and two other VMs of a base.

Deadlock is checked in the runs of beds, sessions and rosters, whose ended states
stutter explicitly or start over. `captures`, `scoring`, `harness`, `step_report`
and `live_target` model a command that ends: their configurations switch it off,
and where it matters that they do end, a liveness property says so.

### What the runs refute

Four statements of the code's own comments do not hold of the code. Each has a run
that is expected to find its counterexample.

1. `bed_run_exit`: "teardown runs on EVERY exit path after a successful setup"
   (`bed_run.go:750`). A rejected `--anchor` or a failing `newInstrumentRuntime`
   returns a nil result and the deferred teardown dereferences it; a failing
   `MkdirAll` of the evidence directory returns before that defer.
2. `bed_run_survived`: "A failed keeper stop must not fail a bed whose every
   change-consuming step already passed" (`bed_run.go:1568`), "Warn, never fail"
   (`bed_run.go:1067`). `stepEnv` has set `res.OK = false` before the caller decides,
   and nothing sets it back. A golden that exists already and a VM build that is
   retried fail the bed in the same way; the two comments do not speak of them.
3. `bed_session_timers`: "this sees exactly this bed's registrations"
   (`bed_ephemeral_timers.go:60`). The rollback's context has no `RunEnv`, so the
   operator's overlay is loaded and its timers are stopped.
4. `step_report_recovery`: "the line is exempt only if the same log later PROVES the
   operation recovered" (`bed_diagnostics.go:146`). The proof is searched in the whole
   log, before the error too, and the mkinitcpio entry takes the proof of one hook for
   the wrapper error of any (`bed_diagnostics.go:513`), although its siblings' comments
   say that every other hook's "stays fatal" (`bed_diagnostics.go:595`).

## Fairness

- `BedRun!FairSpec`: weak fairness of the runner's own steps. Every subcommand and
  readiness wait is bounded by a readiness window or the idle guard of the cli
  seam, so a step ends one way or the other.
- `BedSession!FairSpec`: weak fairness of `Advance(r)`, per run. A session's calls
  return, its body ends (by the former) and a domain flock that stays free is
  granted to the run that waits for it.
- `Roster!FairSpec`: weak fairness of the chaining, of the conclusion and of each
  bed's `Progress`. A run ends (by the first), a close is bounded by its grace, and
  a lane that stays free is granted to a goroutine that waits for it. Nothing is
  promised of drains and children: the grace is what bounds a close without them.
- `Captures!FairSpec`: weak fairness of the runner and of a reaper that has begun
  to write. Nothing is promised of a recorder: a stop gives up by itself.
- `HarnessLoop!Fairness`: weak fairness of the harness, of the kernel's kill, of a
  configured deadline, of the ticker, and of a probe's end; strong fairness of the
  watchdog's exit, because its `select` picks at random among ready channels.
  Nothing is promised of the agent.

The start of a run, a panic, a signal, a crash, the arbiter, the timers and every
external failure have none.

## Proofs

TLAPS proves, for every value of the constants that satisfies the named
assumptions:

- `BedRun_proofs`, the control of a run: with only `MaxRuns` a number for each of
  the configurations, of which there may be any, the invariant `IInv` and from it `SessionReleased`,
  `VerdictOnRecord`, `LeaseMatchesVerdict`, `FirstFailureWins`, `VerdictStable`
  and `TargetsMoveUnderLock`. `IInv` ties the program counter to how many
  functions are deferred (`StackInv`), the number of deferred functions to the
  handles still held (`HandlesInv`), the hook's state to the verdict
  (`VerdictInv`), the result to the return, the panic and the recorded failures
  (`ResultInv`) and the lease to the result (`LeaseInv`). None of the properties
  is inductive by itself: that a session is released at the end only follows
  because the defer that releases it is on the stack from the moment the body can
  start, and `res` is not nil there.
- `BedRun_proofs`, the sequence of steps: under `CfgsAssumption` (the keys of a bed
  are lists, a child is not a member, neither is the root), for in-place roots with
  and without nested children and any numbers of children, members and instruments:
  `VenueDisposed`, `RetentionHonoured`, `VerdictTruthful`, `VerdictCoversRebuild`,
  `PipelinesSeeVenue`, and the action properties `GoldenSurvives`, `ArbitrationSeeded`
  and `ChecksSeeLiveTargets`. What makes them inductive is a statement about `todo`,
  the steps still to be issued, of the form `Split(todo, A, Q, B)`: there is a step of
  `Q` ahead, with only steps of `A` before and of `B` behind it. `TodoInv`: the
  venue's teardown is ahead in a body that has not torn it down, and nothing but
  brackets is behind it. `LeftInv`: in a teardown, each target that is up has the step
  that removes it ahead. `CheckedInv`: on the way to a pass, a target's last check is
  ahead with nothing behind it that changes the root, or is done with nothing of the
  kind ahead. `PipesInv`: the pipelines are ahead, behind the stop of every phase and
  the step that brings the root up. `ReadyInv` is the one about every step still to
  come and not about a last one: whatever a `check-live` ahead will look for (its
  target, each member, the root running) has, before that check, a step that brings it
  up with none that takes it away in between (`Fed`), or is up now with none that
  takes it away before the check (`Primed`). A failed step needs no case of its own
  beyond a tolerated or retried one: a body that fails any other step issues no
  further check. Of the nested children of an in-place root nothing is claimed. That
  each program begins so is shown part by part, along the concatenations in `Program`
  and `CleanupProgram`; that each step keeps it, for every step at once. `VenueInv`,
  `ReturnInv` and `TruthInv` relate the owner of the teardown, the place of return and
  the verdict; `SeededInv` is the overlay's.
- `BedSession_proofs`: under `BedSessionAssumption`, for any runs, processes,
  beds, domains, tokens, overlays and failures: `TypeOK`, `HoldsItsClaims`,
  `TimersKeepOverlay`, `NothingLeaks`, and the refinement of `BedExclusion`.
  `IInv` adds that each flock has one holder, that the handles match the program
  counter, that a marker goes with a claim of its bed, and that a live run's
  overlay exists. From the same invariant, and the fact that the runs a
  `check stop` found each held, and can never retake, their lock: `StopEndsTheRun`.
- `Roster_proofs`: for any beds, tokens, lanes and configurations, `NoChunkLost`,
  `SerialRunsSayWhy` and the refinement of `RosterPromise`. `MirrorInv` says that a
  pipe whose drain has ended has no writer left and stays so, which is why a chunk can
  still be carried up, and `SettledInv` that a bed's capture is closed or given up
  before the bed counts as ended, which is what is left when the process has
  concluded; `ChainsInv` says that the chains place each selected bed once and that a
  token's beds are all in the chain `tokenChain` names, fold by fold; `StageInv` adds
  that a bed that has begun stands behind ended ones in its chain (so two beds in
  flight share no token) and that `outcomes` are those of the beds that have ended, so
  the aggregate over records is the abstract exit code over endings. `SerialInv` is
  the single lane: a bed takes it only when it is empty, so nobody overwrites the
  hook's current run between a bed's `beginBedVerdict` and its record.
- `Captures_proofs`: for any number of runs and crashes and any set of documents and
  backends whose plans alternate starts and stops of a session (`SetupsAssumption`,
  which TLC evaluates for the instance of the run `captures`; it is the order
  `Instruments!Dispatches` produces): `FinalizerLeavesNothing`, `SweepRecovers`,
  `EndedRunsStayClosed` and `SegmentsHonest`. The finalizer and the sweep act on the
  handles alone, so the argument is which recorder a handle names: `StartedInv` (no
  recorder stays up behind a stop of its session), `ReaperInv` (no reaper of another
  recorder can still write the handle of one that is up), hence `RecordedInv` (the
  handle names the recorder that is up, once its spawn is over); `StopInv` (a stop in
  progress covers every recorder of its session); then `VisitInv` and `ClosedInv`:
  what is up, and what still says active, is still to be visited. Each part but
  `ClosedInv` is up to the excuses of `Excused`, which are never taken back. For a
  stop's segment, `OpenInv`: the handle of a bracket that is open names its recorder
  or is torn, and where it may not, a late reaper was there when the recorder was
  spawned (`LateInv`).
- `Scoring_proofs`: for any number of steps, any dependencies between them (cycles
  included), venues, answers of the venues and kept venues (`StepsAssumption`,
  `PlansAssumption`): `CascadeHonest`, `EveryStepScoredOnce`, `EphemeralDisposed`.
  `OrderInv` carries the first: whatever a queued step depends on has its verdict,
  or stands before it. It starts from the order: by induction over the steps placed,
  every prefix `TopoOrder` builds holds a step once and behind its dependencies.
  `CoverInv` says that a scored step without a verdict is queued or was not
  placed, `SkipInv` that what a skipped step is behind never passes any more,
  `KeptInv` that a venue which is up is the one in use or is kept.
- `StepReport_proofs`: for any tools, quoted lines, plans, allowances and number
  of steps (`StepReportAssumption`: a tool prints no report, a plan has a result):
  `NoFalsePass`, `RecordIsTheReport`, `ExitTellsTheClass`, and `ErrorsAnswered`, for
  which `AllowlistAssumption` says only that the entries of the error tier are
  conditional; TLC evaluates it for the entries of the instance. What `ErrorsAnswered`
  needs is that a pattern has one match in a log: two errors that end a chain end it in
  the same place (`OneEnd`), so that each entry answers for one error and the hooks are
  handed out one to one (`ClaimsAreAnswered`). `ExitTellsTheClass` runs both ways and so
  needs what an exit code hides: `ClassInv` keeps how a child came to exit (`ChildInv`)
  and that the last recorded step is a pass or carries exactly that child's code
  (`JudgedInv`). The core is about the
  parser (`PlanIsRead`): whatever the tools print before a plan's report, whatever
  line is quoted before it and whatever line a message carries, the block between
  the last two rollups holds the plan's lines with only step lines added, so it
  either counts wrong and is not read, or is the plan's lines exactly. `GoneInv` is
  then what a child leaves (exit code, log and plan agree), `RunInv` what the run
  has recorded of it.
- `HarnessLoop_proofs`: for any steps, configurations and number of iterations,
  `TypeOK`, `OneScoringAtATime`, `ReportTruthful`, `ExitHonest` and
  `IterationsBounded`. The invariant relates the plateau counter to the window of
  iterations since `bestIter`, the report to the history, and the watchdog's state
  to where the loop stands between dispatch and join.

No theorem library here gives induction (its theorems take an operator, which the
provers cannot instantiate). `SequenceFacts` proves it for sets of naturals from
well-foundedness, which is enough for recursive *functions*: `FlattenSeq`, the order
of a scoring, and what a parser keeps of a log. It also holds what the statements
about `todo` rest on: how `Split` and `Fed` pass to a concatenation, to a tail and to
a regrouped program.

Only model-checked:

- `NamedIsJudged`, `PlanIsWhatWasAuthored` and the rest of `LiveTarget`: the include
  expansion is a RECURSIVE operator;
- `BedRun!TypeOK`, which no run needs;
- liveness under fairness (`RunTerminates`, `SessionsEnd`, `RosterEnds`, `RunsEnd`,
  `RunEnds`).

Proved but not part of a run: `FirstFailureWins`, `VerdictStable`,
`TargetsMoveUnderLock`, `IterationsBounded` and the type invariants.

## Abstractions

- The `charly` subcommands are external. Their effects (`Effect`,
  `PartialEffects`) are what `runCheckBed` and its comments rely on; a failing one
  may have done nothing or everything, a member operation any part of it.
- The root is disposable, as `bedSetup` requires, so the last arm of
  `keepVenueOnFailure` is false. Every instrument has a pipeline. A child
  that exits 3 is a plan child. `snapshot.force_stop` and the libvirt session
  start are left out.
- A snapshot capture fails when the golden exists and may fail otherwise; a
  revert passes only on a live root with a golden.
- An overlay is named by its run: `MkdirTemp` gives every run a new one.
- The arbiter grants a token that is free or already its claimant's, refuses it
  otherwise, and drops leases whose claimant is gone. Shared tokens and the
  holders it stops are its own affair.
- In `BedRun` and `Roster` step logs, diagnostics and reports are the outcome of a
  step or a run; `StepReport` is where they are read.
- A chunk is written once, and a pipe has room for it. A panicking bed's message
  is not a chunk.
- A recorder is never mistaken for another process: PID reuse is not modelled. A
  regular mark of a stop never fails to be written; the mark after a failed first
  write does.
- `Scorings` in `HarnessLoop` is the abstract result of `Scoring`. Only the
  live-plan mode of the harness is modelled.
- A log line is classified already: the regular expressions of
  `bed_diagnostics.go` and their individual entries are data. A step's message may
  contain a line that looks like a step, and no rollup line.
- A signal of `check stop` may fail to be sent whatever the reason, the holder being
  gone included; the command then reports an error and promises nothing.
- In `LiveTarget` how `kit.NestedContainerName` joins the names of a path is left open
  (`Joints`), and `deploykit.FindVmDeployNode` is modelled from its callers and their
  test: by name first, then the one VM of the base, an error if there are several.
  Both are outside of this repository. Ports, environments and executors are external
  and may fail (`Fault`).

## Observations

Behaviour met while modelling that no run refutes a statement about, kept here
for a reader of the code.

- **Runs.** `check-live` asks after the nested children of an in-place root
  (`bed_run.go:1334`), which run mode never deploys (`bed_run.go:1300`). A creating
  step that fails after it created the root comes before `venue.deployed = true`, so
  the root stays (`bed_run.go:389`, `bed_run.go:1227`). A teardown-only pipeline never
  dispatches on a passing run, whose tail has set `pipelinesDone` (`evidence.go:306`).
- **Rosters.** `check stop` of one bed of a roster ends the process of all of them
  (`stop_cmd.go:38`). With several lanes the shutdown hook writes the verdict of
  the run that began last only, and a capture puts back what fd 2 was when it started
  (`bed_stderr.go:183`), which may be the closed pipe of another run; `SerialRunsSayWhy`
  and `NoChunkLost` are what is left of both.
- **Captures.** The reaper of a session's first recorder may write `stopped` over
  the handle of its second one, which then survives the finalizer (`shadowed`).
- **Harness.** The clone is removed even where the push failed. When the loop
  fails, the report of its iterations is not written and nothing is pushed. An orphan of
  the agent that holds a structured stdout keeps `cmd.Run` waiting
  (`harness_loop.go:307`). Probes that always fail never time out
  (`watchdog.go:86`). `PlateauIteration` 0 is no bound. The best score of the
  scope and the prompt is always 0 (`harness_loop.go:552`). `ListRuns` looks for
  files named `result.` (`clone.go:282`) while `writeReport` names them
  `result-`. Nothing emits the line that would trigger a credential resync.
- **Scoring.** A kept failed venue is deleted by a later bucket of the same venue
  that passes; the deletion's own failure is not reported.
- **Reports.** An empty plan exits 3 in "any check mode" so that "the caller can tell"
  (`check_cmd.go:43`), but the guest passthrough turns the guest's 3 into an error that
  exits 1 (`live_cmd.go:123`). The chain that answers for a refused hook runs across the
  banners of other hooks, so that one hook's banner and another's refusal make a chain
  (`bed_diagnostics.go:590`), although the refusal of a different hook is to leave the
  error fatal (`bed_diagnostics.go:583`). The errors in the log of a child that exits 3
  do not gate.
- **Gathering, what is not judged** (`Gap`). A member of a kubevirt root is an error
  in live mode and a skip in feature mode (`live_gather_kubevirt.go:21`, against :28).
  No walk starts at a key with a dot, so the members of a bed of a namespace are not
  found. The stopped holder of a namespace is looked up by its raw address
  (`live_gather.go:262`, against `venue.go:90`). A running pod member of a root
  without a namespace is looked up under a key that no deploy was handed
  (`venue.go:96`, against `bed_run.go:256`); whether the two name one container is up
  to `kit.NestedContainerName`. Feature mode does not see imported beds
  (`feature_run_gather.go:63`) and has no arm for local deployments.
- **Gathering, the plan** (`Disputed`). `templateBody` knows only pods and VMs
  (`checkproject.go:312`), so the template of a local deployment is never judged
  (`live_gather.go:592`, against :586). The kubevirt arm reads neither candies
  (against `live_gather_kubevirt.go:27`) nor the overlay. A VM without an overlay
  entry of its name gets that of the one VM of its base, a nested one too, and an
  error if there are two (`live_gather.go:393`, against `live_gather_test.go:53`).
- **Gathering, the rest.** `--filter` and `--section` are honoured only by the guest
  passthrough, and `--steps-file` is not forwarded to it (`live_gather.go:484`). A
  holder that crashed cannot be told from one that was preempted.

## Not modelled

- AI harness helpers: the parser of the agent's stream, prompt templates, notes
  and the copying of credentials; text processing and file copies around the loop.
- Box gathering and plan running beyond their exit classes: assembling endpoints
  and environments and calling other plugins' verbs.
- Commands beyond exit classes: argument parsing, dispatch, printing.
- Individual diagnostics and allowances, markdown and report rendering.
- The roster entity's schema and the plugin's manifest: declarations.
- Container DNS repair: a best-effort host command before readiness, whose result
  the runner does not read.

## Known gaps and plan

Hazards that no property covers are listed in `PROJECT.json` with a note. What
would add most next:

1. PID reuse in `Captures`: which process a stale handle's signal reaches.
2. The `charly` of a guest as a second instance of `StepReport` and `LiveTarget`,
   composed with the passthrough.
3. Several recorders of one session across retries of a bracket, and the
   evidence rows they end in.
4. Proofs: `LiveTarget` with its include expansion as a recursive function.
