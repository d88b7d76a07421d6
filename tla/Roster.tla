------------------------------- MODULE Roster -------------------------------
(***************************************************************************)
(* A check roster: many beds as one gate in one process                    *)
(* (candy/plugin-check/roster.go, roster_helpers.go).  runCheckRoster      *)
(* selects beds, puts those that share a resource token into one serial    *)
(* chain, runs the chains as goroutines under a semaphore of lanes and     *)
(* folds the outcomes into one exit code.  Each bed is a runCheckBed, of   *)
(* which only what the beds of a process share is here: the shutdown       *)
(* hook's current run (bed_verdict.go) and fd 2 (StderrMirror).            *)
(***************************************************************************)
EXTENDS StderrMirror, Integers, Sequences

CONSTANTS
    Tokens,      \* the exclusive and shared resource tokens
    Configs,     \* the rosters, projects and hosts a run may meet
    NoBed        \* bedVerdictCur when no run is in flight

ASSUME BedsAssumption == IsFiniteSet(Beds) /\ Beds \subseteq Nat /\ NoBed \notin Beds

Kinds == {"pass", "unproven", "checks", "infra", "prereq", "setup", "panic"}

ASSUME ConfigsAssumption ==
    \A c \in Configs :
        /\ {c.select, c.exclude, c.iterate, c.hostLocal, c.expectedFail} \subseteq SUBSET Beds
        /\ {c.mirrored, c.talks} \subseteq SUBSET Beds
        /\ {c.refuseHostLocal, c.readable} \subseteq BOOLEAN
        /\ c.tokens \in [Beds -> SUBSET Tokens]
        /\ c.lanes \in Int /\ c.cpus \in Nat /\ c.memory \in Nat /\ c.budget \in Nat \ {0}
        /\ c.kinds \subseteq Kinds \ {"setup"}

VARIABLES
    cfg,         \* the configuration, picked at the start
    process,     \* "chaining", "running", or how the process ended
    unchained,   \* the selected beds buildRosterChains has still to place
    chains,      \* the serial chains
    tokenChain,  \* the chain of each token, 0 while it has none
    stage,       \* where each bed is
    how,         \* how each bed's runCheckBed ended
    verdict,     \* each bed's summary.yml
    current,     \* bedVerdictCur
    outcomes,    \* the outcomes appended so far
    exit         \* the roster's exit code, 9 while it has none

bookkeeping == <<unchained, chains, tokenChain>>
vars == <<cfg, process, bookkeeping, stage, how, verdict, current, outcomes, exit, mirror>>

-----------------------------------------------------------------------------
(* Selection.  c.select and c.exclude are the beds whose names match the    *)
(* roster's globs, c.iterate the AI benchmarks, c.hostLocal the beds that   *)
(* touch the workstation, c.expectedFail the negative controls.  Bounds:    *)
(* c.mirrored beds get a capture, c.talks write a chunk, c.kinds may happen.*)

SelectRosterBeds(c) ==
    {b \in c.select \ (c.exclude \cup c.iterate) :
        ~(b \in c.hostLocal /\ c.refuseHostLocal)}

\* 0 is "no memory bound known"; a host below one lane's budget still has a bound.
RosterMemCeiling(c) ==
    IF ~c.readable \/ c.memory = 0 THEN 0
    ELSE IF c.memory \div c.budget < 1 THEN 1 ELSE c.memory \div c.budget

AtLeastOne(n) == IF n < 1 THEN 1 ELSE n
AtMost(n, m) == IF n > m THEN m ELSE n

DefaultRosterLanes(c, n) == IF n < 1 THEN 1 ELSE AtLeastOne(AtMost(c.cpus, n))

ClampRosterLanes(c, n) ==
    LET asked == IF c.lanes < 1 THEN DefaultRosterLanes(c, n) ELSE c.lanes
        byCpu == IF c.cpus > 0 THEN AtMost(asked, c.cpus) ELSE asked
        byBed == AtMost(byCpu, n)
        byMem == IF RosterMemCeiling(c) > 0 THEN AtMost(byBed, RosterMemCeiling(c)) ELSE byBed
    IN  AtLeastOne(byMem)

Selected == SelectRosterBeds(cfg)
Lanes == ClampRosterLanes(cfg, Cardinality(Selected))

-----------------------------------------------------------------------------
(* How a bed ends.  runCheckBed returns a result or nil, and an error; a    *)
(* result has an exit code, and a run that is ok may have proved nothing.   *)

Returned(k) ==
    [nil     |-> k = "setup",
     skipped |-> k = "prereq",
     ok      |-> k \in {"pass", "unproven", "prereq"},
     code    |-> CASE k = "checks" -> 2 [] k = "infra" -> 1 [] OTHER -> 0,
     err     |-> k \in {"checks", "infra", "prereq", "setup"},
     proved  |-> k = "pass"]

Outcome(b, code, flags) ==
    [bed |-> b, code |-> code, ok |-> "ok" \in flags,
     skipped |-> "skipped" \in flags, unproven |-> "unproven" \in flags]

\* runRosterBed after runCheckBed has returned r.
RunRosterBed(c, b, r) ==
    LET code == IF r.err /\ r.code = 0 THEN 1 ELSE r.code
        ok == ~r.nil /\ r.ok /\ code = 0
    IN  CASE r.skipped -> Outcome(b, 0, {"skipped"})
          [] ~r.skipped /\ b \in c.expectedFail -> Outcome(b, code, IF code = 2 THEN {"ok"} ELSE {})
          [] ~r.skipped /\ b \notin c.expectedFail /\ ok /\ ~r.proved -> Outcome(b, 3, {"unproven"})
          [] OTHER -> Outcome(b, code, IF ok THEN {"ok"} ELSE {})

\* aggregateRoster and the boundary's mapCheckExitError.
AggregateRoster(os) ==
    LET skipped  == {o \in os : o.skipped}
        unproven == {o \in os : o.unproven}
        failed   == {o \in os : ~o.skipped /\ ~o.unproven /\ ~o.ok}
    IN  IF failed = {}
        THEN IF (skipped = os /\ os # {}) \/ unproven # {} THEN 3 ELSE 0
        ELSE IF \E o \in failed : o.code # 2 THEN 1 ELSE 2

-----------------------------------------------------------------------------

\* The stages between taking a lane and giving it back, in their order.
LaneStages == {"setup", "begun", "body", "recorded", "returned", "appended"}

Stages == {"queued", "ended"} \cup LaneStages

\* How the process ends: after its verdict, by a bed's panic or by a signal.
Endings == {"concluded", "panicked", "signalled"}

\* The goroutines run until the process ends, also while the shutdown hook does.
Alive == process \in {"running", "hooked"}

Chunks == Beds \cup {Terminal}

TypeOK ==
    /\ MirrorTypeOK
    /\ cfg \in Configs
    /\ process \in {"chaining", "running", "hooked"} \cup Endings
    /\ unchained \subseteq Beds
    /\ chains \in Seq(Seq(Beds))
    /\ tokenChain \in [Tokens -> Nat]
    /\ stage \in [Beds -> Stages]
    /\ how \in [Beds -> Kinds \cup {"none"}]
    /\ verdict \in [Beds -> {"none", "stopped", "finished"}]
    /\ current \in Beds \cup {NoBed}
    /\ exit \in 0..3 \cup {9}

Init ==
    /\ MirrorInit
    /\ cfg \in Configs
    /\ process = "chaining"
    /\ unchained = SelectRosterBeds(cfg)
    /\ chains = <<>>
    /\ tokenChain = [t \in Tokens |-> 0]
    /\ stage = [b \in Beds |-> "queued"]
    /\ how = [b \in Beds |-> "none"]
    /\ verdict = [b \in Beds |-> "none"]
    /\ current = NoBed
    /\ outcomes = {}
    /\ exit = 9

-----------------------------------------------------------------------------
(* buildRosterChains: one bed after the other, in the order of their names *)

\* The chains the bed's tokens touch.
Touched(b) == {tokenChain[t] : t \in cfg.tokens[b]} \ {0}

NextBed(b) == b \in unchained /\ \A c \in unchained : b <= c

\* Mutation: the tokens of a folded chain keep their old index.
FoldUnmapped(b, low, i) ==
    /\ chains' = [chains EXCEPT ![low] = @ \o chains[i], ![i] = <<>>]
    /\ tokenChain' = [t \in Tokens |->
                        IF t \in cfg.tokens[b] /\ tokenChain[t] = i THEN low ELSE tokenChain[t]]

\* One of several touched chains is folded into the lowest one, its tokens with it.
FoldChain(b, low, i) ==
    /\ chains' = [chains EXCEPT ![low] = @ \o chains[i], ![i] = <<>>]
    /\ tokenChain' = [t \in Tokens |-> IF tokenChain[t] = i THEN low ELSE tokenChain[t]]

\* The map is walked in any order.
UnionChains ==
    /\ process = "chaining"
    /\ \E b \in unchained : \E low, i \in Touched(b) :
        /\ NextBed(b)
        /\ \A j \in Touched(b) : low <= j
        /\ i # low
        /\ FoldChain(b, low, i)
    /\ UNCHANGED <<cfg, process, unchained, stage, how, verdict, current, outcomes, exit, mirror>>

\* At most one chain is touched (any more): the bed joins it or starts one.
ChainBed ==
    /\ process = "chaining"
    /\ \E b \in unchained : \E idx \in 1..(Len(chains) + 1) :
        /\ NextBed(b)
        /\ Touched(b) \subseteq {idx}
        /\ Touched(b) = {} => idx = Len(chains) + 1
        /\ chains' = IF idx = Len(chains) + 1 THEN Append(chains, <<b>>)
                     ELSE [chains EXCEPT ![idx] = Append(@, b)]
        /\ tokenChain' = [t \in Tokens |-> IF t \in cfg.tokens[b] THEN idx ELSE tokenChain[t]]
        /\ unchained' = unchained \ {b}
    /\ UNCHANGED <<cfg, process, stage, how, verdict, current, outcomes, exit, mirror>>

\* The goroutines are started; a chain a union emptied has none.
Launch ==
    /\ process = "chaining"
    /\ unchained = {}
    /\ process' = "running"
    /\ UNCHANGED <<cfg, bookkeeping, stage, how, verdict, current, outcomes, exit, mirror>>

-----------------------------------------------------------------------------
(* One bed: runOne around runRosterBed around runCheckBed                  *)

InLane == {b \in Beds : stage[b] \in LaneStages}

\* It is b's turn in its chain: the beds before it have ended.
Turn(b) ==
    \E i \in DOMAIN chains : \E k \in DOMAIN chains[i] :
        /\ chains[i][k] = b
        /\ \A j \in 1..(k - 1) : stage[chains[i][j]] = "ended"

Move(b, from, to) ==
    /\ Alive
    /\ stage[b] = from
    /\ stage' = [stage EXCEPT ![b] = to]

Aside == <<cfg, process, bookkeeping, exit>>

TakeLane(b) ==
    /\ Turn(b)
    /\ Cardinality(InLane) < Lanes
    /\ Move(b, "queued", "setup")
    /\ UNCHANGED <<Aside, how, verdict, current, outcomes, mirror>>

\* bedSetup fails: no run directory, no verdict.
SetupFails(b) ==
    /\ Move(b, "setup", "returned")
    /\ how' = [how EXCEPT ![b] = "setup"]
    /\ UNCHANGED <<Aside, verdict, current, outcomes, mirror>>

\* Mutation: the run is published once per process, like the hook's registration.
SetCurrentOnce(b) ==
    current' = IF \E c \in Beds \ {b} : verdict[c] # "none" THEN current ELSE b

\* beginBedVerdict overwrites the process's one current run.
SetCurrent(b) == current' = b

BeginBedVerdict(b) ==
    /\ Move(b, "setup", "begun")
    /\ SetCurrent(b)
    /\ UNCHANGED <<Aside, how, verdict, outcomes, mirror>>

StartCapture(b) ==
    /\ Alive
    /\ stage[b] = "begun"
    /\ \/ b \in cfg.mirrored /\ (DupStderr(b) \/ RedirectStderr(b))
       \/ b \notin cfg.mirrored /\ CaptureRefused(b)
    /\ UNCHANGED <<Aside, stage, how, verdict, current, outcomes>>

EnterBody(b) ==
    /\ capture[b] \in {"nil", "live"}
    /\ Move(b, "begun", "body")
    /\ UNCHANGED <<Aside, how, verdict, current, outcomes, mirror>>

\* The body writes to stderr, forks children and returns or panics.
BodyWrites(b) ==
    /\ Alive
    /\ stage[b] = "body"
    /\ (b \in cfg.talks /\ WriteStderr(b)) \/ Inherit(b)
    /\ UNCHANGED <<Aside, stage, how, verdict, current, outcomes>>

\* bedRunGuard, the first deferred function of these three to run.
BodyReturns(b, k) ==
    /\ Move(b, "body", "recorded")
    /\ how' = [how EXCEPT ![b] = k]
    /\ verdict' = [verdict EXCEPT ![b] = IF @ # "none" THEN @
                                         ELSE IF k = "panic" THEN "stopped" ELSE "finished"]
    /\ UNCHANGED <<Aside, current, outcomes, mirror>>

CloseCapture(b) ==
    /\ Alive
    /\ stage[b] = "recorded"
    /\ RestoreStderr(b) \/ CloseWriteEnd(b) \/ DrainJoined(b) \/ GraceOver(b)
    /\ UNCHANGED <<Aside, stage, how, verdict, current, outcomes>>

\* endBedVerdict; a panicking goroutine then ends the process.
EndBedVerdict(b) ==
    /\ CloseReturned(b)
    /\ Alive
    /\ stage[b] = "recorded"
    /\ current' = IF current = b THEN NoBed ELSE current
    /\ IF how[b] = "panic"
       THEN process' = "panicked" /\ UNCHANGED stage
       ELSE stage' = [stage EXCEPT ![b] = "returned"] /\ UNCHANGED process
    /\ UNCHANGED <<cfg, bookkeeping, exit, how, verdict, outcomes, mirror>>

AppendOutcome(b) ==
    /\ Move(b, "returned", "appended")
    /\ outcomes' = outcomes \cup {RunRosterBed(cfg, b, Returned(how[b]))}
    /\ UNCHANGED <<Aside, how, verdict, current, mirror>>

\* Mutation: a bed that fails keeps its lane.
ReleaseLaneOfPassed(b) ==
    /\ how[b] \in {"pass", "unproven"}
    /\ Move(b, "appended", "ended")
    /\ UNCHANGED <<Aside, how, verdict, current, outcomes, mirror>>

ReleaseLane(b) ==
    /\ Move(b, "appended", "ended")
    /\ UNCHANGED <<Aside, how, verdict, current, outcomes, mirror>>

-----------------------------------------------------------------------------
(* The process                                                             *)

\* wg.Wait returns when every chain has ended; then the verdict is printed.
Conclude ==
    /\ Alive
    /\ \A b \in Selected : stage[b] = "ended"
    /\ process' = "concluded"
    /\ exit' = AggregateRoster(outcomes)
    /\ WriteStderr(Terminal)
    /\ UNCHANGED <<cfg, bookkeeping, stage, how, verdict, current, outcomes>>

\* The shutdown hook, on its own goroutine, writes the verdict of the current run.
OnBedShutdown ==
    /\ process = "running"
    /\ process' = "hooked"
    /\ verdict' = [b \in Beds |-> IF b = current /\ verdict[b] = "none" THEN "stopped"
                                  ELSE verdict[b]]
    /\ UNCHANGED <<cfg, bookkeeping, stage, how, current, outcomes, exit, mirror>>

\* The re-raised signal: nothing unwinds.
Signal ==
    /\ process = "hooked"
    /\ process' = "signalled"
    /\ UNCHANGED <<cfg, bookkeeping, stage, how, verdict, current, outcomes, exit, mirror>>

Drains ==
    /\ Alive
    /\ \E p \in Beds : DrainEnds(p) \/ ChildExits(p) \/ \E c \in Chunks : Mirror(p, c)
    /\ UNCHANGED <<Aside, stage, how, verdict, current, outcomes>>

\* What a process that has ended is left with.
Over == process \in Endings /\ UNCHANGED vars

\* The steps that take a bed on; its writes and its children are its own affair.
Progress(b) ==
    \/ TakeLane(b) \/ SetupFails(b) \/ BeginBedVerdict(b) \/ StartCapture(b) \/ EnterBody(b)
    \/ \E k \in cfg.kinds : BodyReturns(b, k)
    \/ CloseCapture(b) \/ EndBedVerdict(b) \/ AppendOutcome(b) \/ ReleaseLane(b)

BuildRosterChains == UnionChains \/ ChainBed \/ Launch

Next ==
    \/ BuildRosterChains \/ Conclude
    \/ OnBedShutdown \/ Signal \/ Drains \/ Over
    \/ \E b \in Beds : Progress(b) \/ BodyWrites(b)

Spec == Init /\ [][Next]_vars

\* A goroutine that can go on goes on: a run ends (BedRun!RunTerminates), a close is
\* bounded by its grace, a free lane is given to a sender that waits for it.
FairSpec ==
    /\ Spec
    /\ WF_vars(BuildRosterChains)
    /\ WF_vars(Conclude)
    /\ \A b \in Beds : WF_vars(Progress(b))

-----------------------------------------------------------------------------

\* How a bed's end counts for the roster: a negative control proves something by failing
\* on its checks, and by nothing else.
EndOf(b, k) ==
    CASE k = "prereq" -> "prereq"
      [] k # "prereq" /\ b \in cfg.expectedFail -> IF k = "checks" THEN "proved" ELSE "broken"
      [] k = "pass" /\ b \notin cfg.expectedFail -> "proved"
      [] k = "unproven" /\ b \notin cfg.expectedFail -> "unproven"
      [] k = "checks" /\ b \notin cfg.expectedFail -> "failed"
      [] OTHER -> "broken"

Ending(b) == IF stage[b] = "ended" THEN EndOf(b, how[b]) ELSE "none"

Promise == INSTANCE RosterPromise WITH
    chosen <- Selected, claims <- cfg.tokens, lanes <- Lanes,
    inFlight <- InLane, ended <- [b \in Beds |-> Ending(b)]

\* The roster keeps its promise: chains built by unions keep beds of one token apart, the
\* semaphore keeps the lanes, no bed is lost or run twice, and the exit code is honest about
\* every bed (roster.go:117, roster.go:325).
ImplementsPromise == Promise!Spec

\* When the shutdown hook has run, the runs that had begun have a verdict.
HookSaysWhy ==
    process = "running" /\ process' = "hooked" =>
        \A b \in Beds : stage[b] \in {"begun", "body", "recorded"} => verdict'[b] # "none"

\* With one lane, the hook leaves no run without a verdict, however many beds came before it
\* in the process (bed_verdict.go:147).
SerialRunsSayWhy == [][Lanes = 1 => HookSaysWhy]_vars

\* What is written to fd 2 is never lost while the process lives: it has been shown, or it is in
\* a pipe whose drain runs ("It is a TEE, not a redirection", bed_stderr.go:42).  What an ended
\* process leaves behind falls under a bound the mirror states (:47-60): the process died in
\* the middle of other runs, or that pipe's close gave up after its grace.
NoChunkLost ==
    \A c \in written \ shown : \E p \in Beds :
        /\ InDrain(c, p)
        /\ process = "concluded" \/ (process = "panicked" /\ Lanes = 1) => capture[p] = "left"

\* The roster ends: no bed waits for a lane or for its chain for ever.
RosterEnds == <>(process \in Endings)

=============================================================================
