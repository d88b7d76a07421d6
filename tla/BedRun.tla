------------------------------- MODULE BedRun -------------------------------
(***************************************************************************)
(* One check bed in one runner: `charly check run <bed>`                   *)
(* (candy/plugin-check/bed_run.go, runCheckBed), from bedSetup's return to *)
(* the end of the last deferred function.                                  *)
(*                                                                         *)
(* The straight-line body of runCheckBed is a PROGRAM: a sequence of steps *)
(* computed from the bed's configuration, in the order the code issues     *)
(* them, consumed one step per action.  What surrounds the body is control *)
(* state: the stack of deferred functions, the named results, the venue    *)
(* owner's two flags, the session's handles and the verdict on disk.       *)
(***************************************************************************)
EXTENDS Naturals, Sequences, FiniteSets, SequencesExt

CONSTANTS
    Root,          \* the bed's root target
    Cfgs,          \* the bed configurations (descriptor and options) a run may have
    VmMember,      \* the deploy-level members that are VMs
    ImageMember,   \* the deploy-level members that carry an image
    Instruments,   \* the `instrument:` entries of the bed
    MaxRuns        \* bound: of each configuration, how far in a row of runs it is explored

ASSUME MaxRunsAssumption == MaxRuns \in [Cfgs -> Nat]

\* What bedDescriptor resolves: the bed's keys are lists, a child's key lies below the root's
\* and a member's beside it, and the host-rooted children are some of the children.
ASSUME CfgsAssumption ==
    \A c \in Cfgs :
        /\ \A keys \in {c.children, c.localChildren, c.members} : keys \in Seq(ToSet(keys))
        /\ ToSet(c.localChildren) \subseteq ToSet(c.children)
        /\ Root \notin ToSet(c.children) \cup ToSet(c.members)
        /\ ToSet(c.children) \cap ToSet(c.members) = {}

VARIABLES
    cfg,       \* the configuration of the current run
    pc,        \* where the runner is
    todo,      \* the steps of the body (or of the cleanup) still to be issued
    caller,    \* who called the venue cleanup: "tail", "fail" or "defer"
    defers,    \* how many of DeferOrder's functions are deferred
    res,       \* the named result, NoRes when it is nil
    ret,       \* where the body returned and whether with an error
    panicking, \* a panic is unwinding the stack
    venue,     \* venueTeardownState
    held,      \* the session's handles: lock, domain locks, lease, overlay dir
    lease,     \* how the preempt lease was disposed of
    inst,      \* instrumentRuntime: open captures, rows, pipelines
    vstate,    \* the run's bedRunState as the shutdown hook sees it
    verdict,   \* summary.yml
    world,     \* the host: targets, disk, golden snapshot, overlay entries
    hist,      \* history: what happened in this run, read by properties only
    runs       \* how many runs have been started

ctl == <<pc, todo, caller, defers, ret, panicking>>
vars == <<cfg, ctl, res, venue, held, lease, inst, vstate, verdict, world, hist, runs>>

NoRes == [nil |-> TRUE]
NoVerdict == [written |-> FALSE]

\* The deferred functions in the order of their registration; they run in reverse.
DeferOrder == <<"state", "stderr", "guard", "session", "finalize", "venue">>

Handles == {"bedlock", "domlocks", "lease", "cfgdir"}
Phases == {"build", "live", "update", "teardown"}

-----------------------------------------------------------------------------
(* The bed's configuration.  c.kind is the root's substrate; c.image says   *)
(* that the root carries an image; c.anchor is --anchor, c.keep --keep,     *)
(* --keep-venue or the keep_venue policy, c.keepOnFailure the flag or the   *)
(* root's ephemeral.keep_on_failure, c.gate the update_gate with            *)
(* --no-rebuild folded in, c.localChildren the children that are            *)
(* host-rooted, c.phases[i] the brackets of instrument i.                   *)

InPlace(c) == c.kind \in {"local", "external"}

BuildsImage(c) == c.kind \notin {"vm", "kubevirt", "local"} /\ c.image

CapturesGolden(c) == c.kind = "vm" /\ ~c.anchor /\ c.onFinalize

\* Mutation: --disk without looking at the snapshot policy.
ReclaimsAnyStateDir(c) == c.kind = "vm" /\ ~c.keep /\ ~c.anchor

ReclaimsVmStateDir(c) ==
    /\ c.kind = "vm"
    /\ ~c.keep
    /\ ~c.anchor
    /\ ~CapturesGolden(c)

KeepVenueOnSuccess(c) == c.keep

\* Mutation: the failure path reads the success path's gate.
KeepVenueOnSuccessOnly(c) == KeepVenueOnSuccess(c)

\* Only a disposable root passes bedSetup, so the predicate's last arm is FALSE here.
KeepVenueOnFailure(c) == KeepVenueOnSuccess(c) \/ c.keepOnFailure

\* An anchored run forces NoRebuild (checkRunBedOpts).
UpdateGateFor(c) == IF c.anchor THEN "skip" ELSE c.gate

CheckLiveRefs(c) == <<Root>> \o c.children

\* PersistBedDeployOverrides skips host-rooted and in-place nodes, and the
\* runner skips a VM root.
Persisted(c) ==
    (IF c.kind = "vm" \/ InPlace(c) THEN {} ELSE {Root})
        \cup (ToSet(c.members) \cap (VmMember \cup ImageMember))

-----------------------------------------------------------------------------
(* The body as a program.  A `cli` step forks a charly subcommand, a        *)
(* `phase` runs in process, a `bracket` dispatches start or stop to the     *)
(* instruments of a phase, `mark` is a plain assignment.                    *)

Step(how, name, t) == [how |-> how, name |-> name, tgt |-> t]
Cli(name, t) == Step("cli", name, t)
Phase(name) == Step("phase", name, Root)
Bracket(p, edge) == Step("bracket", edge, p)
When(b, steps) == IF b THEN steps ELSE <<>>
Each(keys, steps(_)) == FlattenSeq([i \in DOMAIN keys |-> steps(keys[i])])

ImageSteps(c, t) ==
    <<Cli("image-build", t)>> \o When(c.runBuild, <<Cli("check-image", t)>>)

MemberBuild(c, m) ==
    IF m \in VmMember THEN <<Cli("vm-build", m)>>
    ELSE When(m \in ImageMember, ImageSteps(c, m))

BuildPart(c) ==
    <<Bracket("build", "start")>>
        \o Each(c.members, LAMBDA m : MemberBuild(c, m))
        \o When(BuildsImage(c), ImageSteps(c, Root))
        \o <<Bracket("build", "stop")>>

\* The loop over the keys of a list, one subcommand for each.
ForEach(keys, name) == [i \in DOMAIN keys |-> Cli(name, keys[i])]

BringUpPart(c) ==
    CASE c.kind = "vm" ->
            <<Cli("vm-build", Root)>>
                \o When(~c.anchor, <<Cli("vm-create", Root)>>)
                \o <<Step("mark", "deployed", Root)>>
                \o When(~c.anchor,
                        <<Phase("wait-ready"), Cli("deploy-add", Root)>>
                            \o ForEach(c.localChildren, "deploy"))
      [] c.kind = "kubevirt" ->
            <<Cli("deploy-add", Root), Step("mark", "deployed", Root), Phase("wait-ready")>>
                \o ForEach(c.children, "deploy")
      [] OTHER ->
            <<Cli("deploy-add", Root), Step("mark", "deployed", Root)>>
                \o When(~InPlace(c),
                        <<Cli("config", Root), Cli("start", Root), Phase("wait-ready")>>
                            \o ForEach(c.children, "deploy"))

RevertPart(c) ==
    When(c.anchor /\ c.kind = "vm", <<Cli("snapshot-revert", Root), Phase("revert-ready")>>)

CheckLiveTree(c, name) == ForEach(CheckLiveRefs(c), name)

HasFeatureRun(c) == c.kind \notin {"vm", "local", "external"} /\ c.image

LivePart(c) ==
    <<Bracket("live", "start")>>
        \o When(c.runRuntime,
                <<Phase("bring-up-members")>>
                    \o CheckLiveTree(c, "check-live")
                    \o When(HasFeatureRun(c), <<Cli("feature-run", Root)>>))
        \o <<Bracket("live", "stop")>>

UpdateGateSteps(c) ==
    CASE UpdateGateFor(c) = "restart-only" /\ c.kind = "vm" ->
            <<Cli("gate-restart-stop", Root), Cli("gate-restart-start", Root)>>
      [] UpdateGateFor(c) = "restart-only" /\ c.kind # "vm" /\ ~InPlace(c) ->
            <<Cli("gate-restart", Root)>>
      [] OTHER -> <<Cli("update", Root)>>

\* Mutation: a VM's one-time local children are not deployed again.
RedeployNoVmKeys(c) == IF c.kind = "vm" THEN <<>> ELSE c.children

RedeployKeys(c) == IF c.kind = "vm" THEN c.localChildren ELSE c.children

\* Mutation: the post-update check-live gated on the bed having children.
VenueRecheckNested(c) ==
    When(c.runRuntime /\ ~InPlace(c) /\ c.children # <<>>,
         <<Phase("rebuild-ready")>>
             \o ForEach(RedeployKeys(c), "redeploy")
             \o CheckLiveTree(c, "check-live-rebuild"))

\* Every runtime bed with a restartable venue: children again, then check-live.
VenueRecheck(c) ==
    When(c.runRuntime /\ ~InPlace(c),
         <<Phase("rebuild-ready")>>
             \o ForEach(RedeployKeys(c), "redeploy")
             \o CheckLiveTree(c, "check-live-rebuild"))

RebuildPart(c) ==
    When(UpdateGateFor(c) # "skip" /\ ~c.anchor,
        <<Bracket("update", "start")>>
            \o When(UpdateGateFor(c) = "full",
                    Each(c.members,
                         LAMBDA m : When(m \in ImageMember, <<Cli("image-build", m)>>)))
            \o When(c.members # <<>>, <<Phase("members-down")>>)
            \o UpdateGateSteps(c)
            \o When(c.runRuntime /\ c.members # <<>>,
                    <<Phase("bring-up-members")>>
                        \o When(InPlace(c), CheckLiveTree(c, "check-live-rebuild")))
            \o VenueRecheck(c)
            \o When(c.runRuntime /\ HasFeatureRun(c),
                    <<Phase("wait-ready"), Cli("feature-run", Root)>>)
            \o <<Bracket("update", "stop")>>)

GoldenPart(c) ==
    When(CapturesGolden(c),
         <<Cli("snapshot-capture", Root), Cli("snapshot-stop-keeper", Root)>>)

\* Mutation: the evidence phase after the venue's teardown.
TailPartLateEvidence(c) ==
    When(~c.keep, <<Bracket("teardown", "start")>>)
        \o <<Step("teardown", "teardown", Root), Step("evidence", "evidence", Root)>>
        \o When(~c.keep, <<Bracket("teardown", "stop")>>)

TailPart(c) ==
    When(~c.keep, <<Bracket("teardown", "start")>>)
        \o <<Step("evidence", "evidence", Root), Step("teardown", "teardown", Root)>>
        \o When(~c.keep, <<Bracket("teardown", "stop")>>)

BodyProgram(c) ==
    BuildPart(c) \o BringUpPart(c) \o RevertPart(c) \o LivePart(c)
        \o RebuildPart(c) \o GoldenPart(c) \o TailPart(c)

\* Mutation: no loop over the nested children.
CleanupProgramNoChildren(c) ==
    <<Cli("cleanup", Root), Phase("cleanup-members"), Step("end", "cleanup-end", Root)>>

\* The one venue-teardown body: children in reverse order, root, members.
CleanupProgram(c) ==
    ForEach(Reverse(c.children), "cleanup-child")
        \o <<Cli("cleanup", Root), Phase("cleanup-members"), Step("end", "cleanup-end", Root)>>

-----------------------------------------------------------------------------
(* What a step does to the host.  `charly` subcommands are external: their  *)
(* effect is what runCheckBed and its comments rely on.                     *)

InGuest(c) == IF c.kind = "vm" THEN ToSet(c.children) \ ToSet(c.localChildren) ELSE {}

\* The children a root's recreation discards: a VM's in-guest units come back
\* with the boot, everything else has to be deployed again.
Discarded(c) == IF c.kind = "vm" THEN ToSet(c.localChildren) ELSE ToSet(c.children)

\* The children that vanish with the root: a pod's children live beside it.
DieWithRoot(c) == IF c.kind \in {"vm", "kubevirt"} THEN ToSet(c.children) ELSE {}

BuildEffect(c, s) ==
    CASE s.name = "vm-create" ->
            [world EXCEPT !.live = @ \cup {Root}, !.disk = TRUE, !.running = TRUE]
      [] s.name = "deploy-add" ->
            [world EXCEPT !.live = @ \cup {Root} \cup InGuest(c),
                          !.running = @ \/ c.kind # "pod"]
      [] s.name = "start" -> [world EXCEPT !.running = TRUE]
      [] s.name \in {"deploy", "redeploy"} -> [world EXCEPT !.live = @ \cup {s.tgt}]
      [] OTHER -> world

GateEffect(c, s) ==
    CASE s.name = "update" ->
            [world EXCEPT !.live = (@ \ Discarded(c)) \cup {Root} \cup InGuest(c),
                          !.running = TRUE, !.checked = {}]
      [] s.name = "gate-restart-stop" -> [world EXCEPT !.running = FALSE, !.checked = {}]
      [] s.name \in {"gate-restart-start", "gate-restart"} ->
            [world EXCEPT !.running = TRUE, !.checked = {}]
      [] s.name = "snapshot-revert" ->
            [world EXCEPT !.live = @ \cup DieWithRoot(c), !.running = TRUE, !.checked = {}]
      [] s.name = "snapshot-capture" -> [world EXCEPT !.golden = TRUE]
      [] s.name \in {"snapshot-stop-keeper", "snapshot-stop-keeper-force"} ->
            [world EXCEPT !.running = FALSE]
      [] s.name \in {"check-live", "check-live-rebuild"} ->
            [world EXCEPT !.checked = @ \cup {s.tgt}]
      [] OTHER -> world

\* Tearing the root down: `vm destroy` (with --disk it takes the state dir and
\* the snapshots in it), `deploy del` or `remove --purge`, which also deletes
\* the overlay entry.
RootGone(c, withDisk) ==
    [world EXCEPT !.live = @ \ ({Root} \cup DieWithRoot(c)),
                  !.running = FALSE,
                  !.seeded = IF c.kind = "vm" THEN @ ELSE @ \ {Root},
                  !.disk = @ /\ ~withDisk,
                  !.golden = @ /\ ~withDisk]

MembersGone(gone) == [world EXCEPT !.live = @ \ gone, !.seeded = @ \ gone]

\* Mutation: members brought up without persisting their overlay entries again.
MembersUpNoPersist(c, up) == [world EXCEPT !.live = @ \cup up]

MembersUp(c, up) == [world EXCEPT !.seeded = @ \cup Persisted(c), !.live = @ \cup up]

Effect(c, s) ==
    CASE s.name = "cleanup-child" -> [world EXCEPT !.live = @ \ {s.tgt}]
      [] s.name = "cleanup" -> RootGone(c, ReclaimsVmStateDir(c))
      [] s.name \in {"members-down", "cleanup-members"} -> MembersGone(ToSet(c.members))
      [] s.name = "bring-up-members" -> MembersUp(c, ToSet(c.members))
      [] s.how = "cli" /\ BuildEffect(c, s) # world -> BuildEffect(c, s)
      [] OTHER -> GateEffect(c, s)

\* What a step that fails may have done: nothing, everything, or some members.
PartialEffects(c, s) ==
    CASE s.name = "bring-up-members" ->
            {MembersUp(c, up) : up \in SUBSET ToSet(c.members)}
      [] s.name \in {"members-down", "cleanup-members"} ->
            {MembersGone(gone) : gone \in SUBSET ToSet(c.members)}
      [] OTHER -> {world, Effect(c, s)}

\* A capture of an existing snapshot is refused; a revert needs the kept domain.
CanPass(s) ==
    /\ s.name = "snapshot-capture" => ~world.golden
    /\ s.name = "snapshot-revert" => world.golden /\ Root \in world.live

-----------------------------------------------------------------------------
FreshRes ==
    [nil |-> FALSE, ok |-> TRUE, exit |-> 0, skip |-> FALSE, stopped |-> FALSE]
NoInst == [open |-> {}, rows |-> {}, piped |-> {}, late |-> {}, pipesDone |-> FALSE]
NoHist == [failed |-> {}, first |-> 0, downs |-> 0, cut |-> FALSE]
NoRet == [at |-> "none", err |-> FALSE]
NoCaller == [by |-> "none", err |-> FALSE]
NoVenue == [deployed |-> FALSE, tornDown |-> FALSE]

Init ==
    /\ cfg \in Cfgs
    /\ pc = "idle"
    /\ todo = <<>>
    /\ caller = NoCaller
    /\ defers = 0
    /\ res = NoRes
    /\ ret = NoRet
    /\ panicking = FALSE
    /\ venue = NoVenue
    /\ held = {}
    /\ lease = "none"
    /\ inst = NoInst
    /\ vstate = "none"
    /\ verdict = NoVerdict
    /\ world = [live |-> {}, checked |-> {}, seeded |-> {},
                disk |-> FALSE, golden |-> FALSE, running |-> FALSE]
    /\ hist = NoHist
    /\ runs = 0

Ended == pc \in {"idle", "dead"} /\ runs > 0

SameBed(c, d) ==
    /\ c.kind = d.kind
    /\ c.image = d.image
    /\ c.children = d.children
    /\ c.localChildren = d.localChildren
    /\ c.members = d.members
    /\ c.onFinalize = d.onFinalize

\* A new process runs the same bed: a fresh CalVer, run dir and overlay; the
\* host is what the last run left behind.
StartRun ==
    /\ pc \in {"idle", "dead"}
    /\ runs < MaxRuns[cfg]
    /\ runs' = runs + 1
    /\ cfg' \in {c \in Cfgs : SameBed(c, cfg) /\ runs < MaxRuns[c]}
    /\ pc' = "setup"
    /\ res' = NoRes
    /\ ret' = NoRet
    /\ panicking' = FALSE
    /\ venue' = NoVenue
    /\ held' = {}
    /\ lease' = "none"
    /\ inst' = NoInst
    /\ vstate' = "none"
    /\ verdict' = NoVerdict
    /\ world' = [world EXCEPT !.checked = {}, !.seeded = {}]
    /\ hist' = NoHist
    /\ caller' = NoCaller
    /\ UNCHANGED <<todo, defers>>

-----------------------------------------------------------------------------
(* runCheckBed up to the first step of the body. *)

Return(at, err) ==
    /\ ret' = [at |-> at, err |-> err]
    /\ pc' = "unwind"
    /\ todo' = <<>>

\* bedSetup returned an error: it rolled back, nothing is deferred yet.
SetupFails ==
    /\ pc = "setup"
    /\ Return("setup", TRUE)
    /\ UNCHANGED <<cfg, caller, defers, panicking, res, venue, held, lease, inst,
                   vstate, verdict, world, hist, runs>>

\* beginBedVerdict, the stderr mirror and the guard, in the order of their defers.
BeginVerdict(skip) ==
    /\ vstate' = "open"
    /\ res' = [FreshRes EXCEPT !.skip = skip]
    /\ defers' = 3

\* A missing GPU or container engine: setup took no handle (sess is nil), the
\* run returns the skip before anything else is deferred.
SetupSkips ==
    /\ pc = "setup"
    /\ BeginVerdict(TRUE)
    /\ Return("skip", TRUE)
    /\ UNCHANGED <<cfg, caller, panicking, venue, held, lease, inst, verdict, world, hist, runs>>

SetupOpens ==
    /\ pc = "setup"
    /\ BeginVerdict(FALSE)
    /\ held' = Handles
    /\ lease' = "claimed"
    /\ pc' = "evidence-dir"
    /\ UNCHANGED <<cfg, todo, caller, ret, panicking, venue, inst, verdict, world, hist, runs>>

\* MkdirAll of the evidence dir: the error returns a nil result, and before
\* the session's teardown is deferred.
EvidenceDirFails ==
    /\ pc = "evidence-dir"
    /\ res' = NoRes
    /\ Return("evidence", TRUE)
    /\ UNCHANGED <<cfg, caller, defers, panicking, venue, held, lease, inst, vstate,
                   verdict, world, hist, runs>>

ArmTeardown ==
    /\ pc = "evidence-dir"
    /\ defers' = defers + 1
    /\ pc' = "instruments"
    /\ UNCHANGED <<cfg, todo, caller, ret, panicking, res, venue, held, lease, inst,
                   vstate, verdict, world, hist, runs>>

InstrumentsFail ==
    /\ pc = "instruments"
    /\ res' = NoRes
    /\ Return("instruments", TRUE)
    /\ UNCHANGED <<cfg, caller, defers, panicking, venue, held, lease, inst, vstate,
                   verdict, world, hist, runs>>

ArmFinalizer ==
    /\ pc = "instruments"
    /\ defers' = defers + 1
    /\ pc' = "validate"
    /\ UNCHANGED <<cfg, todo, caller, ret, panicking, res, venue, held, lease, inst,
                   vstate, verdict, world, hist, runs>>

RejectAnchor ==
    /\ pc = "validate"
    /\ cfg.anchor /\ cfg.kind # "vm"
    /\ res' = NoRes
    /\ Return("anchor", TRUE)
    /\ UNCHANGED <<cfg, caller, defers, panicking, venue, held, lease, inst, vstate,
                   verdict, world, hist, runs>>

\* What the best-effort pre-run cleanup may leave of the host: the root's
\* teardown and, except for a VM bed, each member's may fail unnoticed.
PreRunWorlds(c) == IF c.anchor THEN {world} ELSE {world, RootGone(c, FALSE)}

PreRunGone(c) == IF c.kind = "vm" THEN {{}} ELSE SUBSET ToSet(c.members)

\* The cleanup, then the persist of the overlay, then the venue's defer.
PrepareVenue ==
    /\ pc = "validate"
    /\ ~(cfg.anchor /\ cfg.kind # "vm")
    /\ \E w \in PreRunWorlds(cfg), gone \in PreRunGone(cfg) :
            world' = [w EXCEPT !.live = @ \ gone, !.seeded = (@ \ gone) \cup Persisted(cfg)]
    /\ defers' = defers + 1
    /\ pc' = "body"
    /\ todo' = BodyProgram(cfg)
    /\ UNCHANGED <<cfg, caller, ret, panicking, res, venue, held, lease, inst, vstate,
                   verdict, hist, runs>>

-----------------------------------------------------------------------------
(* The body's steps. *)

At(how) == pc = "body" /\ todo # <<>> /\ Head(todo).how = how

\* A failed step or phase poisons the result; the first exit code stays.
Poisoned(code) == [res EXCEPT !.ok = FALSE, !.exit = IF @ = 0 THEN code ELSE @]

Noted(name, code) ==
    [hist EXCEPT !.failed = @ \cup {name}, !.first = IF @ = 0 THEN code ELSE @]

Record(name, code) ==
    /\ res' = Poisoned(code)
    /\ hist' = Noted(name, code)

\* bedVenueTeardown's gate, and its teardown started on behalf of `by`.
TearsDown(keep) == venue.deployed /\ ~venue.tornDown /\ ~keep

StartCleanup(by, rest) ==
    /\ venue' = [venue EXCEPT !.tornDown = TRUE]
    /\ caller' = [by |-> by, err |-> FALSE]
    /\ pc' = "cleanup"
    /\ todo' = CleanupProgram(cfg) \o rest

\* The one failure tail, fail().
FailTail ==
    /\ ret' = [at |-> "fail", err |-> TRUE]
    /\ IF TearsDown(KeepVenueOnFailure(cfg))
       THEN StartCleanup("fail", <<>>)
       ELSE /\ pc' = "unwind"
            /\ todo' = <<>>
            /\ UNCHANGED <<venue, caller>>

Continue(rest) ==
    /\ todo' = rest
    /\ UNCHANGED <<pc, ret, venue, caller>>

\* The child exits 0; or a plan child exits 3, which is no verdict and no failure.
CliPasses ==
    /\ At("cli")
    /\ CanPass(Head(todo))
    /\ world' = Effect(cfg, Head(todo))
    /\ Continue(Tail(todo))
    /\ UNCHANGED <<cfg, defers, panicking, res, held, lease, inst, vstate, verdict, hist, runs>>

\* The failures the body survives: an existing golden is kept.
Tolerated(s) == s.name = "snapshot-capture" /\ world.golden

\* Mutation: the forced keeper stop falls back to the graceful one.
RetryForced(s) ==
    CASE s.name = "vm-build" /\ s.tgt = Root -> <<Cli("vm-build-again", Root)>>
      [] s.name = "snapshot-stop-keeper" -> <<Cli("snapshot-stop-keeper-force", Root)>>
      [] s.name = "snapshot-stop-keeper-force" -> <<Cli("snapshot-stop-keeper", Root)>>
      [] OTHER -> <<>>

\* The failures it answers with one other attempt: a VM build whose base golden
\* was missing and has been provisioned, and a graceful keeper stop.
Retry(s) ==
    CASE s.name = "vm-build" /\ s.tgt = Root -> <<Cli("vm-build-again", Root)>>
      [] s.name = "snapshot-stop-keeper" -> <<Cli("snapshot-stop-keeper-force", Root)>>
      [] OTHER -> <<>>

StepFails(code) ==
    /\ Record(Head(todo).name, code)
    /\ world' \in PartialEffects(cfg, Head(todo))
    /\ UNCHANGED <<cfg, defers, panicking, held, lease, inst, vstate, verdict, runs>>

CliFails ==
    /\ At("cli")
    /\ \E code \in {1, 2} : StepFails(code)
    /\ FailTail

CliFailureTolerated ==
    /\ At("cli")
    /\ Tolerated(Head(todo))
    /\ StepFails(1)
    /\ Continue(Tail(todo))

CliFailureRetried ==
    /\ At("cli")
    /\ Retry(Head(todo)) # <<>>
    /\ StepFails(1)
    /\ Continue(Retry(Head(todo)) \o Tail(todo))

PhasePasses ==
    /\ At("phase")
    /\ world' = Effect(cfg, Head(todo))
    /\ Continue(Tail(todo))
    /\ UNCHANGED <<cfg, defers, panicking, res, held, lease, inst, vstate, verdict, hist, runs>>

PhaseFails ==
    /\ At("phase")
    /\ StepFails(1)
    /\ FailTail

\* The target exists: from here on the failure tail disposes of it.
MarkDeployed ==
    /\ At("mark")
    /\ venue' = [venue EXCEPT !.deployed = TRUE]
    /\ todo' = Tail(todo)
    /\ UNCHANGED <<cfg, pc, caller, defers, ret, panicking, res, held, lease, inst, vstate,
                   verdict, world, hist, runs>>

-----------------------------------------------------------------------------
(* Instruments: captures opened and closed by the brackets, the pipelines   *)
(* of the evidence phase, and the finalizer on every terminal path.         *)

InPhase(p) == {i \in Instruments : p \in cfg.phases[i]}

\* Every entry of the phase, in order, until one fails.
BracketEffect(p, edge, done) ==
    IF edge = "start" THEN [inst EXCEPT !.open = @ \cup done]
    ELSE [inst EXCEPT !.open = @ \ done, !.rows = @ \cup done]

BracketPasses ==
    /\ At("bracket")
    /\ inst' = BracketEffect(Head(todo).tgt, Head(todo).name, InPhase(Head(todo).tgt))
    /\ Continue(Tail(todo))
    /\ UNCHANGED <<cfg, defers, panicking, res, held, lease, vstate, verdict, world, hist, runs>>

BracketFails ==
    /\ At("bracket")
    /\ InPhase(Head(todo).tgt) # {}
    /\ \E done \in SUBSET InPhase(Head(todo).tgt) :
            /\ done # InPhase(Head(todo).tgt)
            /\ inst' = BracketEffect(Head(todo).tgt, Head(todo).name, done)
    /\ Record("instruments", 1)
    /\ FailTail
    /\ UNCHANGED <<cfg, defers, panicking, held, lease, vstate, verdict, world, runs>>

\* runInstrumentEvidencePhase: once per run, over the entries that have a row.
EvidenceEffect(i, done) ==
    IF i.pipesDone THEN i
    ELSE [i EXCEPT !.pipesDone = TRUE,
                   !.piped = @ \cup done,
                   !.late = IF Root \in world.live THEN @ ELSE @ \cup i.rows]

EvidencePasses ==
    /\ At("evidence")
    /\ inst' = EvidenceEffect(inst, inst.rows)
    /\ Continue(Tail(todo))
    /\ UNCHANGED <<cfg, defers, panicking, res, held, lease, vstate, verdict, world, hist, runs>>

EvidenceFails ==
    /\ At("evidence")
    /\ ~inst.pipesDone
    /\ \E done \in SUBSET inst.rows :
            done # inst.rows /\ inst' = EvidenceEffect(inst, done)
    /\ Record("evidence", 1)
    /\ FailTail
    /\ UNCHANGED <<cfg, defers, panicking, held, lease, vstate, verdict, world, runs>>

-----------------------------------------------------------------------------
(* The venue's teardown and the end of the body. *)

TeardownStep ==
    /\ At("teardown")
    /\ IF TearsDown(KeepVenueOnSuccess(cfg))
       THEN StartCleanup("tail", Tail(todo)) /\ ret' = ret
       ELSE Continue(Tail(todo))
    /\ UNCHANGED <<cfg, defers, panicking, res, held, lease, inst, vstate, verdict, world,
                   hist, runs>>

InCleanup == pc = "cleanup" /\ Head(todo).how \in {"cli", "phase"}

CountDown(h) == [h EXCEPT !.downs = IF Head(todo).name = "cleanup" THEN @ + 1 ELSE @]

CleanupPasses ==
    /\ InCleanup
    /\ world' = Effect(cfg, Head(todo))
    /\ todo' = Tail(todo)
    /\ hist' = CountDown(hist)
    /\ UNCHANGED <<cfg, pc, caller, defers, ret, panicking, res, venue, held, lease, inst,
                   vstate, verdict, runs>>

\* A child's failure is a warning; the root's or the members' is cleanup's error.
CleanupFails ==
    /\ InCleanup
    /\ world' \in PartialEffects(cfg, Head(todo))
    /\ todo' = Tail(todo)
    /\ caller' = [caller EXCEPT !.err = @ \/ Head(todo).name # "cleanup-child"]
    /\ res' = Poisoned(1)
    /\ hist' = CountDown(Noted(Head(todo).name, 1))
    /\ UNCHANGED <<cfg, pc, defers, ret, panicking, venue, held, lease, inst,
                   vstate, verdict, runs>>

\* cleanup() returned: the success tail goes on or fails, the other two callers
\* only warn.
CleanupReturns ==
    /\ pc = "cleanup" /\ Head(todo).how = "end"
    /\ IF caller.by = "tail" /\ ~caller.err
       THEN pc' = "body" /\ todo' = Tail(todo) /\ ret' = ret
       ELSE /\ pc' = "unwind"
            /\ todo' = <<>>
            /\ ret' = IF caller.by = "tail" THEN [at |-> "fail", err |-> TRUE] ELSE ret
    /\ UNCHANGED <<cfg, caller, defers, panicking, res, venue, held, lease, inst, vstate,
                   verdict, world, hist, runs>>

BodyReturns ==
    /\ pc = "body" /\ todo = <<>>
    /\ Return("tail", ~res.ok)
    /\ UNCHANGED <<cfg, caller, defers, panicking, res, venue, held, lease, inst, vstate,
                   verdict, world, hist, runs>>

-----------------------------------------------------------------------------
(* Unwinding: the deferred functions, last registered first. *)

Popping(d) ==
    /\ pc = "unwind" /\ defers > 0 /\ DeferOrder[defers] = d
    /\ defers' = defers - 1

\* The paths that skipped the tail's own teardown: a panic, mostly.
DeferredVenue ==
    /\ Popping("venue")
    /\ IF TearsDown(KeepVenueOnFailure(cfg))
       THEN StartCleanup("defer", <<>>)
       ELSE UNCHANGED <<pc, todo, caller, venue>>
    /\ UNCHANGED <<cfg, ret, panicking, res, held, lease, inst, vstate, verdict, world,
                   hist, runs>>

\* finalizeSessionDir stops every capture of the run that is still live.
StopLive(i) == [i EXCEPT !.open = {}]

\* finalizeRunInstruments: stop the live captures, then the evidence phase.
DeferredFinalize ==
    /\ Popping("finalize")
    /\ \E done \in SUBSET inst.rows :
            inst' = EvidenceEffect(StopLive(inst), done)
    /\ UNCHANGED <<cfg, pc, todo, caller, ret, panicking, res, venue, held, lease, vstate,
                   verdict, world, hist, runs>>

\* Mutation: every release restores.
DispositionRestored(ok) == "restored"

\* arbiterRelease: a successful claim restores the holders it stopped.
Disposition(ok) == IF ok THEN "restored" ELSE "failed"

\* Mutation: no release while a panic unwinds.
DeferredSessionUnlessPanic ==
    /\ Popping("session")
    /\ IF res = NoRes
       THEN panicking' = TRUE /\ UNCHANGED <<held, lease>>
       ELSE /\ held' = IF panicking THEN held ELSE {}
            /\ lease' = IF panicking THEN lease ELSE Disposition(res.ok)
            /\ UNCHANGED panicking
    /\ UNCHANGED <<cfg, pc, todo, caller, ret, res, venue, inst, vstate, verdict, world,
                   hist, runs>>

\* bedTeardown(ctx, ex, sess, res.OK): the disposition is read from the named
\* result, and reading it from a nil result panics.
DeferredSession ==
    /\ Popping("session")
    /\ IF res = NoRes
       THEN panicking' = TRUE /\ UNCHANGED <<held, lease>>
       ELSE /\ held' = {}
            /\ lease' = Disposition(res.ok)
            /\ UNCHANGED panicking
    /\ UNCHANGED <<cfg, pc, todo, caller, ret, res, venue, inst, vstate, verdict, world,
                   hist, runs>>

\* Mutation: a panic is recorded like any other return.
FinalResultNoPanic ==
    LET base == IF res = NoRes THEN [FreshRes EXCEPT !.ok = FALSE] ELSE res
    IN  IF ret.err /\ ~base.skip
        THEN [base EXCEPT !.ok = FALSE, !.exit = IF @ = 0 THEN 1 ELSE @]
        ELSE base

\* recordBedVerdict's view of the outcome.
FinalResult ==
    LET base == IF res = NoRes THEN [FreshRes EXCEPT !.ok = FALSE] ELSE res
    IN  IF panicking THEN [base EXCEPT !.ok = FALSE, !.exit = 1, !.stopped = TRUE]
        ELSE IF ret.err /\ ~base.skip
        THEN [base EXCEPT !.ok = FALSE, !.exit = IF @ = 0 THEN 1 ELSE @]
        ELSE base

\* Mutation: nothing is written for a nil result.
WriteVerdictIfResult(r) ==
    /\ verdict' = IF vstate = "open" /\ res # NoRes
                  THEN [written |-> TRUE, result |-> r] ELSE verdict
    /\ vstate' = "done"

\* writeVerdictOnce: the first of the two writers wins.
WriteVerdictOnce(r) ==
    /\ verdict' = IF vstate = "open" THEN [written |-> TRUE, result |-> r] ELSE verdict
    /\ vstate' = "done"

\* bedRunGuard: record the verdict while the mirror is live, re-panic.
DeferredGuard ==
    /\ Popping("guard")
    /\ res' = FinalResult
    /\ WriteVerdictOnce(FinalResult)
    /\ UNCHANGED <<cfg, pc, todo, caller, ret, panicking, venue, held, lease, inst, world,
                   hist, runs>>

\* cap.close() and endBedVerdict, which disarms the shutdown hook.
DeferredClose ==
    /\ Popping("stderr") \/ Popping("state")
    /\ vstate' = IF DeferOrder[defers] = "state" THEN "done" ELSE vstate
    /\ UNCHANGED <<cfg, pc, todo, caller, ret, panicking, res, venue, held, lease, inst,
                   verdict, world, hist, runs>>

Locks == {"bedlock", "domlocks"}

\* The stack is unwound: runCheckBed returns, or the panic ends the process.
Exit ==
    /\ pc = "unwind" /\ defers = 0
    /\ pc' = IF panicking THEN "dead" ELSE "idle"
    /\ held' = IF panicking THEN held \ Locks ELSE held
    /\ UNCHANGED <<cfg, todo, caller, defers, ret, panicking, res, venue, lease, inst,
                   vstate, verdict, world, hist, runs>>

-----------------------------------------------------------------------------
(* What the environment does. *)

\* A step panics: the rest of the body never runs.
Panic ==
    /\ pc \in {"body", "cleanup"}
    /\ panicking' = TRUE
    /\ pc' = "unwind"
    /\ todo' = <<>>
    /\ hist' = [hist EXCEPT !.cut = pc = "cleanup"]
    /\ UNCHANGED <<cfg, caller, defers, ret, res, venue, held, lease, inst, vstate, verdict,
                   world, runs>>

\* Nothing unwinds: the kernel frees the locks and that is all.
Dies(of) ==
    /\ pc' = "dead"
    /\ ret' = [at |-> of, err |-> TRUE]
    /\ todo' = <<>>
    /\ defers' = 0
    /\ held' = held \ Locks
    /\ UNCHANGED <<cfg, caller, panicking, res, venue, lease, inst, world, hist, runs>>

\* A signal starts the shutdown hook, on the handler's goroutine: it records a stopped
\* run while the runner goes on beside it.
HookFires ==
    /\ pc \notin {"idle", "dead"}
    /\ vstate # "none" /\ defers > 0
    /\ WriteVerdictOnce([FreshRes EXCEPT !.ok = FALSE, !.exit = 1, !.stopped = TRUE])
    /\ UNCHANGED <<cfg, ctl, res, venue, held, lease, inst, world, hist, runs>>

\* The hook is done, or found no run in flight: the handler re-raises.
Signal ==
    /\ pc \notin {"idle", "dead"}
    /\ vstate # "open"
    /\ Dies("signal")
    /\ UNCHANGED <<vstate, verdict>>

Kill ==
    /\ pc \notin {"idle", "dead"}
    /\ Dies("kill")
    /\ UNCHANGED <<vstate, verdict>>

\* The bed may never be run again.
Done == Ended /\ UNCHANGED vars

Prologue ==
    \/ SetupFails \/ SetupSkips \/ SetupOpens
    \/ EvidenceDirFails \/ ArmTeardown
    \/ InstrumentsFail \/ ArmFinalizer
    \/ RejectAnchor \/ PrepareVenue

Body ==
    \/ CliPasses \/ CliFails \/ CliFailureTolerated \/ CliFailureRetried
    \/ PhasePasses \/ PhaseFails \/ MarkDeployed
    \/ BracketPasses \/ BracketFails \/ EvidencePasses \/ EvidenceFails
    \/ TeardownStep \/ BodyReturns

Teardown == CleanupPasses \/ CleanupFails \/ CleanupReturns

Unwind ==
    \/ DeferredVenue \/ DeferredFinalize \/ DeferredSession \/ DeferredGuard
    \/ DeferredClose \/ Exit

Runner == Prologue \/ Body \/ Teardown \/ Unwind

Next == StartRun \/ Runner \/ Panic \/ HookFires \/ Signal \/ Kill \/ Done

Spec == Init /\ [][Next]_vars

\* The runner takes its next step: every child it waits for is bounded by a
\* readiness window or the idle guard of the cli seam.
FairSpec == Spec /\ WF_vars(Runner)

-----------------------------------------------------------------------------
(* The properties. *)

Results == [nil : {FALSE}, ok : BOOLEAN, exit : 0 .. 2, skip : BOOLEAN,
            stopped : BOOLEAN]

PCs == {"idle", "setup", "evidence-dir", "instruments", "validate", "body", "cleanup",
        "unwind", "dead"}

Unwound == Ended /\ ret.at \notin {"signal", "kill"}

\* The run unwound from its body, the venue's teardown included.
BodyUnwound ==
    Unwound /\ ret.at \notin {"setup", "skip", "evidence", "instruments", "anchor"}

CleanupSteps == {"cleanup-child", "cleanup", "cleanup-members"}

PassedRun == Unwound /\ ret.at = "tail" /\ verdict.written /\ verdict.result.ok

\* A run that unwinds from its body gives back every handle of its session, whatever
\* step failed or panicked, the venue's own teardown included.
SessionReleased == BodyUnwound => held = {} /\ lease # "claimed"

\* The host's targets change only while the bed lock is held: the defer stack disposes of
\* the venue before it releases the session.
TargetsMoveUnderLock == [][world'.live # world.live => "bedlock" \in held]_vars

\* A deployed bed that is not to be kept leaves nothing behind, children and members
\* included, however its body ended, unless a step of the teardown itself failed; a plain
\* VM bed leaves no state dir either.
VenueDisposed ==
    ( /\ BodyUnwound /\ ~hist.cut
      /\ venue.deployed
      /\ ~(IF ret.at = "tail" THEN KeepVenueOnSuccess(cfg) ELSE KeepVenueOnFailure(cfg))
      /\ hist.failed \cap CleanupSteps = {} )
    => /\ world.live = {}
       /\ cfg.kind = "vm" /\ ~cfg.anchor /\ ~cfg.onFinalize => ~world.disk

\* A venue kept for inspection is not destroyed by any later deferred function, and
\* --keep keeps it on every path.
RetentionHonoured ==
    /\ cfg.keep => hist.downs = 0
    /\ cfg.keepOnFailure /\ caller.by # "tail" => hist.downs = 0

\* A run that got past setup leaves a verdict, unless it was killed outright.
VerdictOnRecord ==
    Ended /\ ret.at # "kill" /\ vstate # "none" => verdict.written

\* The deferred writer and the shutdown hook never overwrite each other.
VerdictStable == [][verdict.written /\ runs' = runs => verdict' = verdict]_vars

\* The failures the body answers and goes on from: a nested child that does not go away, a
\* golden that exists, a keeper whose graceful stop fails, a VM build that lacks its base.
Survived == {"cleanup-child", "snapshot-capture", "snapshot-stop-keeper", "vm-build"}

\* The verdict on disk agrees with what the function returned: ok means no error (or a
\* prerequisite skip), no panic, no failed step the body does not survive by design, and no
\* signal that came in between.
VerdictTruthful ==
    Unwound /\ verdict.written =>
        /\ verdict.result.stopped \/ (verdict.result.ok <=> ~ret.err \/ ret.at = "skip")
        /\ verdict.result.ok => hist.failed \subseteq Survived /\ ~panicking

\* The exit code of a failed run is its first failure's, not that of a later cleanup.
FirstFailureWins ==
    BodyUnwound /\ ~verdict.result.stopped => verdict.result.exit = hist.first

\* A run that passes at runtime depth asked check-live of every ref of the venue as it is
\* at the end: after the update gate, not only before it.
VerdictCoversRebuild ==
    ( /\ PassedRun /\ cfg.runRuntime
      /\ InPlace(cfg) => UpdateGateFor(cfg) = "skip" \/ cfg.members # <<>> )
    => ToSet(CheckLiveRefs(cfg)) \subseteq world.checked

\* check-live never addresses a target the rebuild discarded, a root that is down, or
\* runs while a peer member is missing.  The nested children of an in-place root are the
\* exception: the runner asks after them (bed_run.go:1334) and deploys none (:1300).
ChecksSeeLiveTargets ==
    [][\A t \in world'.checked \ world.checked :
            /\ t \in world.live \/ (InPlace(cfg) /\ t # Root)
            /\ world.running /\ ToSet(cfg.members) \subseteq world.live]_vars

\* A target comes up with its arbitration fields in the overlay: no purge between the
\* persist and the bring-up.
ArbitrationSeeded ==
    [][(world'.live \ world.live) \cap Persisted(cfg) \subseteq world'.seeded]_vars

\* A captured golden snapshot survives every later run, failure and teardown.
GoldenSurvives == [][world.golden => world'.golden]_vars

\* The preempt lease is disposed of as the verdict says (a run stopped by a panic or a
\* signal is the known exception).
LeaseMatchesVerdict ==
    BodyUnwound /\ ~verdict.result.stopped => (lease = "restored" <=> verdict.result.ok)

\* On a passing run every capture that ended before the teardown has its pipelines run
\* against a venue that is still there.
PipelinesSeeVenue ==
    PassedRun /\ cfg.runRuntime =>
        /\ inst.late = {}
        /\ {i \in Instruments : cfg.phases[i] \cap {"build", "live"} # {}} \subseteq inst.piped

\* A run that reached its body ends: the fallbacks retry once, never for ever.
RunTerminates == (pc = "body") ~> (pc \in {"idle", "dead"})

-----------------------------------------------------------------------------
(* What the comments of the code promise and the runs refute. *)

\* "teardown runs on EVERY exit path after a successful setup", and "a rejected
\* --anchor/--variant still releases the session's flock/domain locks/lease".
EveryExitReleases == Unwound => held = {}

\* "A failed keeper stop must not fail a bed whose every change-consuming step already
\* passed" (bed_run.go:1568), "Warn, never fail" (:1067): a run that came to the end of its
\* body in spite of a keeper's stop or a child's removal that failed is a pass.
SurvivedFailuresPass ==
    Unwound /\ ret.at = "tail" /\ verdict.written /\ ~verdict.result.stopped
        /\ hist.failed \subseteq {"cleanup-child", "snapshot-stop-keeper"} => verdict.result.ok

=============================================================================
