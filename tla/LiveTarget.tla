----------------------------- MODULE LiveTarget ------------------------------
(***************************************************************************)
(* How `charly check live` and `charly check feature run` find what they   *)
(* judge and where (candy/plugin-check: live_gather.go, venue.go,          *)
(* live_gather_kubevirt.go, feature_run_gather.go, checkproject.go,        *)
(* cmd_helpers.go).  The address on the command line is resolved against   *)
(* the tree of deployments; the arm of its venue collects the plan from    *)
(* every place that authored a part of it, and runs it in the venue.       *)
(*                                                                         *)
(* An address is a sequence of names: a root (<<"pod">>), a root of a      *)
(* namespace (<<"ns", "pod">>, one key of the tree), or a member of a root *)
(* (<<"vm", "pod">>).  A project is a record:                              *)
(*   deploy, beds  address -> node: the tree of the project, and the beds  *)
(*                 of the namespaces it imports                            *)
(*   overlay       address -> [venue, from, plan, holder]: the overlay of  *)
(*                 this host, of whatever was deployed on it               *)
(*   models        candy -> [version, plan]                                *)
(*   entities      include step -> the plan it names                       *)
(*   templates     kind -> name of a template -> its plan                  *)
(* and a node is [venue, plan, baked, candies, from, holder, members].     *)
(***************************************************************************)
EXTENDS Naturals, Sequences, SequencesExt, FiniteSets

CONSTANTS
    Projects,  \* the projects a request can be made in
    Requests,  \* [mode: "live" | "feature", addr, injected: --steps-file was given]
    Includes,  \* the steps that are include directives
    Injected,  \* the plan of a --steps-file
    Joints     \* what kit.NestedContainerName may put between the names of a member's path

NoName == "none"
NoAddr == <<>>
Venues == {"pod", "vm", "kubevirt", "local"}

ASSUME LiveTargetAssumption ==
    /\ \A p \in Projects : \A a \in DOMAIN p.deploy \cup DOMAIN p.beds :
          (p.deploy @@ p.beds)[a].venue \in Venues
    /\ \A r \in Requests : r.mode \in {"live", "feature"} /\ r.addr # NoAddr
    /\ Injected # <<>>

VARIABLES
    pc,       \* the step of the command: see Next
    project, request,
    state,    \* the venue of the root: "running", "stopped" or "absent"
    joint,    \* what it does put there: the sdk's choice
    declared, \* the container was resolved without the running gate
    faulted,  \* something outside of the command failed it
    reply     \* [kind, venue, plan] as CheckRunReply: the venue as an address

vars == <<pc, project, request, state, joint, declared, faulted, reply>>

-----------------------------------------------------------------------------
(* The tree of deployments *)

\* mergeBedsIntoTree: a root of the project wins over an imported bed of its name.
MergeBeds(tree, beds) == tree @@ beds

Dotted(addr) == Len(addr) > 1
Root(addr) == <<addr[1]>>

\* resolveNestedNode, and the second half of resolveDeployNodeByPath.
NestedNode(tree, addr) ==
    LET walk[k \in 1..Len(addr)] ==
            IF k = 1 THEN IF Root(addr) \in DOMAIN tree THEN {tree[Root(addr)]} ELSE {}
            ELSE {n.members[addr[k]] : n \in {m \in walk[k - 1] : addr[k] \in DOMAIN m.members}}
    IN walk[Len(addr)]

\* Mutation (charly#678): the dots of a namespace are taken for those of a member path.
ResolveByParts(tree, addr) == NestedNode(tree, addr)

\* resolveDeployNodeByPath: the exact key first.  A set of at most one node.
ResolveNode(tree, addr) ==
    IF addr \in DOMAIN tree THEN {tree[addr]} ELSE NestedNode(tree, addr)

\* resolveLeafVenue
Leaf(tree, addr) == IF Dotted(addr) THEN ResolveNode(tree, addr) ELSE {}

At(tree, addr) == IF addr \in DOMAIN tree THEN {tree[addr]} ELSE {}
OfVenue(nodes, venues) == \E n \in nodes : n.venue \in venues

\* checkVmTarget: the domain of an address in an ssh venue.  The leaf decides, then the root.
CheckVmTarget(tree, addr) ==
    IF OfVenue(Leaf(tree, addr) \cup At(tree, addr), {"vm", "kubevirt"}) THEN addr
    ELSE IF Dotted(addr) /\ OfVenue(At(tree, Root(addr)), {"vm", "kubevirt"}) THEN Root(addr)
    ELSE NoAddr

IsKubeVirt(tree, addr) ==
    OfVenue(Leaf(tree, addr) \cup At(tree, Root(addr)), {"kubevirt"})

\* checkLocalTarget: a leaf that resolves decides alone.
IsLocal(tree, addr) ==
    IF Leaf(tree, addr) # {} THEN OfVenue(Leaf(tree, addr), {"local"})
    ELSE OfVenue(At(tree, Root(addr)), {"local"})

\* pluginCheckRunLive, featureLiveArm
Arm(mode, tree, addr) ==
    IF mode = "live" /\ IsKubeVirt(tree, addr) THEN "kubevirt"
    ELSE IF CheckVmTarget(tree, addr) # NoAddr THEN "vm"
    ELSE IF mode = "live" /\ IsLocal(tree, addr) THEN "local"
    ELSE "pod"

\* The feature mode does not fold the imported beds into its tree.
TreeOf(mode, p) == IF mode = "live" THEN MergeBeds(p.deploy, p.beds) ELSE p.deploy

Tree == TreeOf(request.mode, project)
Addr == request.addr

\* An address as it is spelled: its names, with one joint before the second and another
\* before each of the rest.
Spelled(addr, first, rest) ==
    [names |-> addr, joints |-> [i \in 1..(Len(addr) - 1) |-> IF i = 1 THEN first ELSE rest]]

\* deployKeyForBed: the first dot is taken for the boundary of a namespace.
DeployKeyForBed(addr) == Spelled(addr, "/", ".")

\* The address as it is given.
RosterAddress(addr) == Spelled(addr, ".", ".")

\* bedAddChild: the key that the deploy of a member is handed.
BedAddChild(root, member) ==
    Spelled(Append(root, member), IF Dotted(root) THEN "/" ELSE ".", ".")

\* spec.ContainerName: "/" becomes "-", and nothing else changes.
ContainerName(key) ==
    [key EXCEPT !.joints = [i \in DOMAIN @ |-> IF @[i] = "/" THEN "-" ELSE @[i]]]

-----------------------------------------------------------------------------
(* The plan *)

RECURSIVE ExpandInner(_, _, _)

\* expandPlanIncludesInner: every include step by the plan it names, or the first error.
ExpandInner(entities, plan, visited) ==
    IF plan = <<>> THEN [ok |-> TRUE, plan |-> <<>>]
    ELSE LET s == Head(plan)
             rest == ExpandInner(entities, Tail(plan), visited)
             here == IF s \notin Includes THEN [ok |-> TRUE, plan |-> <<s>>]
                     ELSE IF s \in visited \/ s \notin DOMAIN entities
                     THEN [ok |-> FALSE, plan |-> <<>>]
                     ELSE ExpandInner(entities, entities[s], visited \cup {s})
         IN [ok |-> here.ok /\ rest.ok, plan |-> here.plan \o rest.plan]

\* An unresolvable include keeps the raw plan.
Expand(plan) ==
    LET expanded == ExpandInner(project.entities, plan, {})
    IN IF expanded.ok THEN expanded.plan ELSE plan

Fetched(candies) == SelectSeq(candies, LAMBDA c : c.name \in DOMAIN project.models)
Conflicts(c) ==
    LET version == project.models[c.name].version
    IN c.want # NoName /\ version # NoName /\ version # c.want

\* Mutation (plugin-check#112): the plan of whatever version was fetched.
CandyUnpinned(candies) ==
    [ok |-> TRUE,
     plan |-> FlattenSeq([i \in DOMAIN Fetched(candies) |->
                             project.models[Fetched(candies)[i].name].plan])]

\* candyAddSteps: a pin that the fetched version does not honour is an error.
CandyAddSteps(candies) ==
    [ok |-> \A i \in DOMAIN Fetched(candies) : ~Conflicts(Fetched(candies)[i]),
     plan |-> FlattenSeq([i \in DOMAIN Fetched(candies) |->
                             project.models[Fetched(candies)[i].name].plan])]

OverlayPlan == IF Addr \in DOMAIN project.overlay THEN project.overlay[Addr].plan ELSE <<>>

\* wrapStepsFileSet
WrapStepsFile(plan) == IF request.injected THEN Injected ELSE plan

\* The template behind a from: - where it names a bed of the tree, the bed's own from:.
Hop(tree, from) ==
    IF \E n \in At(tree, <<from>>) : n.from # NoName THEN tree[<<from>>].from ELSE from

\* pluginResolveVmTarget: the template, the address of the domain, and the member that
\* carries the plan.
ResolveVmTarget(tree, addr) ==
    LET own == {n \in At(tree, addr) : n.venue = "vm" /\ n.from # NoName}
        leaf == {n \in Leaf(tree, addr) : n.venue = "vm"}
        root == {n \in At(tree, Root(addr)) : n.venue = "vm"}
        From(nodes) == (CHOOSE n \in nodes : TRUE).from
    IN IF own # {} THEN [vm |-> Hop(tree, From(own)), domain |-> addr, leaf |-> {}]
       ELSE IF leaf # {} THEN [vm |-> From(leaf), domain |-> addr, leaf |-> leaf]
       ELSE IF Dotted(addr) /\ root # {}
       THEN [vm |-> From(root), domain |-> Root(addr), leaf |-> NestedNode(tree, addr)]
       ELSE [vm |-> NoName, domain |-> addr, leaf |-> {}]

\* deploykit.FindVmDeployNode: the address itself, or every VM of the tree that names the
\* template.
FindVmNode(tree, addr, vm) ==
    IF addr \in DOMAIN tree THEN {addr}
    ELSE {a \in DOMAIN tree : vm # NoName /\ tree[a].venue = "vm" /\ tree[a].from = vm}

\* pluginLoadVmCheckPlans
LoadVmPlans(tree, addr, target) ==
    LET found == FindVmNode(tree, addr, target.vm)
        nodes == IF target.leaf # {} THEN target.leaf ELSE {tree[a] : a \in found}
        local == FindVmNode(project.overlay, addr, target.vm)
        PlanOf(entries) == IF entries = {} THEN <<>> ELSE (CHOOSE n \in entries : TRUE).plan
        candy == CandyAddSteps(IF nodes = {} THEN <<>> ELSE (CHOOSE n \in nodes : TRUE).candies)
    IN [ok |-> (target.leaf # {} \/ Cardinality(found) <= 1) /\ Cardinality(local) <= 1 /\ candy.ok,
        plan |-> Expand(PlanOf(nodes) \o PlanOf({project.overlay[a] : a \in local}) \o candy.plan)]

-----------------------------------------------------------------------------
NoReply == [kind |-> "none", venue |-> NoAddr, plan |-> <<>>]
Ran(venue, plan) == [kind |-> "ran", venue |-> venue, plan |-> plan]
NoSteps == [NoReply EXCEPT !.kind = "nosteps"]
Failed == [NoReply EXCEPT !.kind = "error"]

States == {"running", "stopped", "absent"}

TypeOK ==
    /\ pc \in {"idle", "vm", "kubevirt", "local", "pod", "declared", "image", "run", "done"}
    /\ project \in Projects /\ request \in Requests /\ state \in States
    /\ joint \in Joints /\ declared \in BOOLEAN /\ faulted \in BOOLEAN
    /\ reply.kind \in {"none", "error", "nosteps", "guest", "ran"}

Init ==
    /\ pc = "idle"
    /\ project \in Projects /\ request \in Requests /\ state \in States
    /\ joint \in Joints
    /\ declared = FALSE /\ faulted = FALSE
    /\ reply = NoReply

Answer(r) == reply' = r /\ pc' = "done"

\* Something outside of this command fails it: the host's reply, a port, the executor.
Fault ==
    /\ pc \notin {"idle", "done"}
    /\ faulted' = TRUE
    /\ Answer(Failed)
    /\ UNCHANGED <<project, request, state, joint, declared>>

Classify ==
    /\ pc = "idle"
    /\ pc' = Arm(request.mode, Tree, Addr)
    /\ UNCHANGED <<project, request, state, joint, declared, faulted, reply>>

\* pluginCheckLiveKubeVirt: the key itself, and no steps before the gate.
LiveKubeVirt ==
    /\ pc = "kubevirt"
    /\ IF Addr \notin DOMAIN Tree THEN Answer(Failed)
       ELSE LET plan == Expand(Tree[Addr].plan)
            IN IF plan = <<>> /\ ~request.injected THEN Answer(NoSteps)
               ELSE IF state # "running" THEN Answer(Failed)
               ELSE Answer(Ran(Addr, WrapStepsFile(plan)))
    /\ UNCHANGED <<project, request, state, joint, declared, faulted>>

\* The venue of a dotted address is the deploy chain's, where that resolves.
Chained(tree, addr, domain) ==
    IF Dotted(addr) /\ ResolveNode(tree, addr) # {} THEN addr ELSE domain

\* pluginCheckLiveVM: the gate comes first; a pod in the guest is judged by the guest.
LiveVm ==
    /\ pc = "vm" /\ request.mode = "live"
    /\ LET target == ResolveVmTarget(Tree, Addr)
           plans == LoadVmPlans(Tree, Addr, target)
       IN IF ~plans.ok \/ state # "running" THEN Answer(Failed)
          ELSE IF OfVenue(target.leaf, {"pod"})
          THEN Answer([kind |-> "guest", venue |-> target.domain \o <<Last(Addr)>>,
                       plan |-> <<>>])
          ELSE IF plans.plan = <<>> /\ ~request.injected THEN Answer(NoSteps)
          ELSE Answer(Ran(Chained(Tree, Addr, target.domain), WrapStepsFile(plans.plan)))
    /\ UNCHANGED <<project, request, state, joint, declared, faulted>>

\* pluginCheckRunFeatureLiveVM: the same plan in the same venue, pods of the guest included.
FeatureVm ==
    /\ pc = "vm" /\ request.mode = "feature"
    /\ LET target == ResolveVmTarget(Tree, Addr)
           plans == LoadVmPlans(Tree, Addr, target)
       IN IF ~plans.ok \/ state # "running" THEN Answer(Failed)
          ELSE IF plans.plan = <<>> THEN Answer(NoSteps)
          ELSE Answer(Ran(Chained(Tree, Addr, target.domain), plans.plan))
    /\ UNCHANGED <<project, request, state, joint, declared, faulted>>

\* templateBody knows the templates of pods and of VMs.
TemplatePlan(kind, name) ==
    IF kind \in {"pod", "vm"} /\ name \in DOMAIN project.templates[kind]
    THEN project.templates[kind][name] ELSE <<>>

\* pluginCheckLiveLocal, resolveLocalDeployNode, pluginRunLocalDeployScopePlan
LiveLocal ==
    /\ pc = "local"
    /\ LET node == ResolveNode(Tree, Addr)
           n == CHOOSE m \in node : TRUE
           plan == Expand(TemplatePlan("local", n.from) \o n.plan \o OverlayPlan)
       IN IF node = {} THEN Answer(Failed)
          ELSE IF plan = <<>> /\ ~request.injected THEN Answer(NoSteps)
          ELSE Answer(Ran(Addr, WrapStepsFile(plan)))
    /\ UNCHANGED <<project, request, state, joint, declared, faulted>>

-----------------------------------------------------------------------------
(* The pod arm *)

Roots == MergeBeds(project.deploy, project.beds)

\* The members that are nodes, by their path.
MemberPaths == UNION {{Append(r, m) : m \in DOMAIN Roots[r].members} : r \in DOMAIN Roots}
MemberNode(path) == Roots[Front(path)].members[Last(path)]

\* Whose container has the name of a key.  A root is created under its deploy key, a member
\* under kit.NestedContainerName of its path; a pod in a guest is not on this host.
Created(key) ==
    {a \in DOMAIN Roots :
        Roots[a].venue = "pod" /\ ContainerName(DeployKeyForBed(a)) = ContainerName(key)}
    \cup {p \in MemberPaths :
             /\ MemberNode(p).venue = "pod" /\ ~OfVenue(At(Roots, Front(p)), {"vm", "kubevirt"})
             /\ Spelled(p, joint, joint) = ContainerName(key)}

\* stoppedHolderRoot: either surface declares the root a preemptible holder.
StoppedHolderRoot ==
    \/ \E n \in At(Tree, Addr) : n.holder
    \/ Addr \in DOMAIN project.overlay /\ project.overlay[Addr].holder

\* resolveBedContainer: the name that the deploy used, and the running gate.
ResolvePod ==
    /\ pc = "pod"
    /\ IF Created(DeployKeyForBed(Addr)) # {} /\ state = "running"
       THEN pc' = "image" /\ UNCHANGED reply
       ELSE IF request.mode = "live" /\ StoppedHolderRoot
       THEN pc' = "declared" /\ UNCHANGED reply
       ELSE Answer(Failed)
    /\ UNCHANGED <<project, request, state, joint, declared, faulted>>

\* resolveContainerDeclared: the roster address, and a gate on existence.
ResolveDeclared ==
    /\ pc = "declared"
    /\ IF Created(RosterAddress(Addr)) # {} /\ state # "absent"
       THEN pc' = "image" /\ declared' = TRUE /\ UNCHANGED reply
       ELSE Answer(Failed) /\ UNCHANGED declared
    /\ UNCHANGED <<project, request, state, joint, faulted>>

\* liveDeployMetadata: any container that still exists can be inspected.
ReadImage ==
    /\ pc = "image"
    /\ IF state = "absent" THEN Answer(Failed) ELSE pc' = "run" /\ UNCHANGED reply
    /\ UNCHANGED <<project, request, state, joint, declared, faulted>>

\* Whose container was found.
Found ==
    CHOOSE a \in Created(IF declared THEN RosterAddress(Addr) ELSE DeployKeyForBed(Addr)) : TRUE

BakedOf == (IF Found \in DOMAIN Roots THEN Roots[Found] ELSE MemberNode(Found)).baked

\* podLiveGatherBakedSet
PodLiveGatherBakedSet(stopped) == IF stopped THEN <<>> ELSE BakedOf

\* The authored plan of the node, by the member path before the key.
ProjectPlan(tree) ==
    LET nodes == IF NestedNode(tree, Addr) # {} THEN NestedNode(tree, Addr) ELSE At(tree, Addr)
    IN IF nodes = {} THEN <<>> ELSE (CHOOSE n \in nodes : TRUE).plan

\* pluginCheckLivePod: the rest of it, over whatever the container has become meanwhile.
LivePod ==
    /\ pc = "run" /\ request.mode = "live"
    /\ LET authored == Expand(ProjectPlan(Tree) \o OverlayPlan)
           set == WrapStepsFile(PodLiveGatherBakedSet(declared) \o authored)
       IN Answer(IF set = <<>> THEN NoSteps ELSE Ran(Found, set))
    /\ UNCHANGED <<project, request, state, joint, declared, faulted>>

\* pluginCheckRunFeatureLivePod: the baked plan alone.
FeaturePod ==
    /\ pc = "run" /\ request.mode = "feature"
    /\ Answer(IF BakedOf = <<>> THEN NoSteps ELSE Ran(Found, BakedOf))
    /\ UNCHANGED <<project, request, state, joint, declared, faulted>>

\* A claimant of another run preempts the holder, the container dies, or is removed.
VenueGoesDown ==
    /\ pc \notin {"idle", "done"}
    /\ \/ state = "running" /\ state' = "stopped"
       \/ state # "absent" /\ state' = "absent"
    /\ faulted' = (faulted \/ state' = "absent" \/ ~StoppedHolderRoot)
    /\ UNCHANGED <<pc, project, request, joint, declared, reply>>

Next ==
    \/ Classify \/ LiveKubeVirt \/ LiveVm \/ FeatureVm \/ LiveLocal
    \/ ResolvePod \/ ResolveDeclared \/ ReadImage \/ LivePod \/ FeaturePod
    \/ VenueGoesDown \/ Fault

Spec == Init /\ [][Next]_vars

-----------------------------------------------------------------------------
(* Properties *)

\* The node that the address names: a root, or a member of a root.
Named ==
    IF Addr \in DOMAIN Roots THEN {Roots[Addr]}
    ELSE IF Addr \in MemberPaths THEN {MemberNode(Addr)} ELSE {}

MemberOf(venues) == Addr \notin DOMAIN Roots /\ Dotted(Addr) /\ OfVenue(At(Roots, Front(Addr)), venues)
MemberOfKubeVirt == MemberOf({"kubevirt"})
MemberOfNamespaced == Addr \notin DOMAIN Roots /\ Len(Addr) > 2

\* A pod member with a container of its own on this host.
MemberPod == OfVenue(Named, {"pod"}) /\ MemberOf({"pod", "local"})

\* The other VMs of this host whose overlay a VM is given, for want of one of its own.
Borrowed ==
    IF Arm(request.mode, Tree, Addr) # "vm" \/ Addr \in DOMAIN project.overlay THEN {}
    ELSE FindVmNode(project.overlay, Addr, ResolveVmTarget(Tree, Addr).vm)

Pinned(n) ==
    \A i \in DOMAIN n.candies :
        n.candies[i].name \in DOMAIN project.models => ~Conflicts(n.candies[i])

Healthy ==
    /\ ~faulted
    /\ \/ state = "running"
       \/ state = "stopped" /\ request.mode = "live" /\ StoppedHolderRoot

\* What is named and not judged today, beside what the repository says of it.
Gap ==
    \* "A dotted nested target chains through the shared deploy-chain resolver"
    \* (live_gather_kubevirt.go:28): the arm looks the whole name up before any chain.
    \/ MemberOfKubeVirt
    \* No walk starts at a key with a dot.
    \/ MemberOfNamespaced
    \* "Every lookup MUST convert the way the deploy does" (venue.go:90): the lookup of a
    \* stopped holder (live_gather.go:262) does not.
    \/ Dotted(Addr) /\ state = "stopped"
    \* "Never hand it an already-dotted <root>.<child> whose root is non-namespaced"
    \* (bed_run.go:256): resolveBedContainer does; the name is the same under the joint "-".
    \/ MemberPod /\ joint # "-"
    \* A nested VM "must bypass the ambiguous top-level From-scan" (live_gather_test.go:53): the
    \* overlay (live_gather.go:393) is searched by base for it too.
    \/ Cardinality(Borrowed) > 1
    \* featureLiveArm knows no local deployments, and the tree of feature run no imported beds.
    \/ request.mode = "feature" /\ (OfVenue(Named, {"local"}) \/ Addr \in DOMAIN project.beds)

\* Whatever the project names is judged, and judged where it is deployed: a member in its own
\* venue and not in its root's, a bed of a namespace by its key (resolveDeployNodeByPath,
\* resolveBedContainer).  If nothing failed and no gap applies, the answer is not an error
\* about a venue that never had that name.
NamedIsJudged ==
    pc = "done" /\ Named # {} =>
        /\ reply.kind \in {"ran", "guest"} => reply.venue = Addr
        /\ Healthy /\ ~Gap /\ (\A n \in Named : n.venue # "pod" => Pinned(n)) =>
              reply.kind # "error"

Entities == project.entities

\* The steps that can be reached from a set of steps, through the plans that they include.
Reach(S) ==
    LET reach[k \in 0..Cardinality(Includes)] ==
            IF k = 0 THEN S
            ELSE reach[k - 1] \cup UNION {ToSet(Entities[s]) : s \in reach[k - 1] \cap DOMAIN Entities}
    IN reach[Cardinality(Includes)]

Spliced(S) ==
    LET includes == Reach(S) \cap Includes
    IN IF \A s \in includes : s \in DOMAIN Entities /\ s \notin Reach(ToSet(Entities[s]))
       THEN Reach(S) \ Includes ELSE S

CandySteps(n) ==
    UNION {ToSet(project.models[n.candies[i].name].plan) :
              i \in {j \in DOMAIN n.candies : n.candies[j].name \in DOMAIN project.models}}

TemplateSteps(n) ==
    IF n.venue = "local" /\ n.from \in DOMAIN project.templates["local"]
    THEN ToSet(project.templates["local"][n.from]) ELSE {}

OverlaySteps == ToSet(OverlayPlan)

\* The acceptance of the running box: of a pod on this host that runs.
BakedSteps(n) ==
    IF n.venue = "pod" /\ ~MemberOf({"vm", "kubevirt"}) /\ ~declared THEN ToSet(n.baked) ELSE {}

\* Where the code and what was authored part today: check live of a kubevirt deploy reads no
\* candies ("its candy add steps", live_gather_kubevirt.go:27) and no overlay, that of a local
\* deploy finds no template ("the kind:local template's plan", live_gather.go:586), and a VM
\* may get the overlay of "an UNRELATED same-base top-level vm" (live_gather_test.go:21).
Disputed(n) ==
    (IF n.venue = "kubevirt" /\ request.mode = "live" THEN CandySteps(n) \cup OverlaySteps ELSE {})
    \cup TemplateSteps(n)
    \cup UNION {ToSet(project.overlay[a].plan) : a \in Borrowed}

\* What was authored and is not disputed: the node's plan, the overlay of this host, and
\* the candies that a VM adds.
Undisputed(n) ==
    IF n.venue = "kubevirt" /\ request.mode = "live" THEN ToSet(n.plan)
    ELSE ToSet(n.plan) \cup OverlaySteps \cup (IF n.venue = "pod" THEN {} ELSE CandySteps(n))

\* The steps that are judged are those that were authored for the target, in the project, in
\* the overlay of this host and in the candies at the version they are pinned to, includes
\* spliced where they can be, with the acceptance of the running box; only what is disputed
\* may be there or not.  feature run judges the acceptance of a pod alone.  Only a
\* --steps-file replaces them, and a SKIP says that there were none.
PlanIsWhatWasAuthored ==
    pc = "done" /\ reply.kind \in {"ran", "nosteps"} /\ ~MemberOfKubeVirt /\ ~MemberOfNamespaced =>
        \A n \in Named :
            IF request.injected THEN reply.plan = Injected
            ELSE /\ n.venue = "vm" => Pinned(n)
                 /\ IF request.mode = "feature" /\ n.venue = "pod" /\ ~MemberOf({"vm"})
                    THEN ToSet(reply.plan) = BakedSteps(n)
                    ELSE \E D \in SUBSET Disputed(n) :
                            ToSet(reply.plan) = BakedSteps(n) \cup Spliced(Undisputed(n) \cup D)

=============================================================================
