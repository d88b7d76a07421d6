------------------------------ MODULE MCBedRun ------------------------------
(* Instances of BedRun for TLC: a bed of each substrate with one or two      *)
(* nested children, up to two members and one instrument.                    *)
EXTENDS BedRun

CONSTANTS root, kidLocal, kidPod, peerVm, peerPod, cam

MCVmMember == {peerVm}
MCImageMember == {peerPod}
MCInstruments == {cam}

\* The descriptors of the beds.
Bed(kind, image, children, members, runtime) ==
    [kind |-> kind, image |-> image, children |-> children,
     localChildren |-> SelectSeq(children, LAMBDA k : k = kidLocal), members |-> members,
     runBuild |-> runtime, runRuntime |-> runtime]

Beds ==
    { Bed("vm", FALSE, <<kidPod, kidLocal>>, <<peerPod>>, TRUE),
      Bed("vm", FALSE, <<>>, <<>>, FALSE),
      Bed("kubevirt", FALSE, <<kidLocal>>, <<>>, TRUE),
      Bed("pod", TRUE, <<kidPod>>, <<peerVm, peerPod>>, TRUE),
      Bed("pod", TRUE, <<>>, <<>>, TRUE),
      Bed("external", TRUE, <<>>, <<peerPod>>, TRUE),
      Bed("local", FALSE, <<kidPod>>, <<>>, TRUE) }

\* The options of a run: retention, mode, update gate, golden policy, capture.
Options ==
    { [keep |-> k = "keep", keepOnFailure |-> k = "on-failure", anchor |-> a, gate |-> g,
       onFinalize |-> f, phases |-> [i \in MCInstruments |-> p]] :
            k \in {"none", "keep", "on-failure"}, a \in BOOLEAN,
            g \in {"full", "restart-only", "skip"}, f \in BOOLEAN,
            p \in {{}, {"live", "update"}, {"teardown"}} }

Config(b, o) ==
    [kind |-> b.kind, image |-> b.image, children |-> b.children,
     localChildren |-> b.localChildren, members |-> b.members, runBuild |-> b.runBuild,
     runRuntime |-> b.runRuntime, keep |-> o.keep, keepOnFailure |-> o.keepOnFailure,
     anchor |-> o.anchor, gate |-> o.gate, onFinalize |-> o.onFinalize, phases |-> o.phases]

Captures(o) == UNION {o.phases[i] : i \in MCInstruments} # {}

\* Every bed under the options that matter to it: a snapshot policy on a VM
\* only, a capture only with the full gate and no golden, and retention of a failed
\* venue only with the full gate and no capture.  A capture needs no second child or member.
AllCfgs ==
    { Config(b, o) : b \in Beds, o \in
        {o \in Options : /\ o.anchor => o.gate = "full"
                         /\ o.keepOnFailure => o.gate = "full" /\ ~Captures(o)
                         /\ Captures(o) => o.gate = "full" /\ ~o.anchor /\ ~o.onFinalize} }

OnceCfgs ==
    {c \in AllCfgs : /\ c.onFinalize => c.kind = "vm"
                     /\ Captures(c) => Len(c.members) <= 1 /\ Len(c.children) <= 1}

\* Two runs in a row: a VM bed with an on_finalize golden, fresh or anchored, kept or not.
RerunCfgs ==
    { Config(Bed("vm", FALSE, <<kidLocal>>, <<>>, TRUE), o) : o \in
        {o \in Options : o.onFinalize /\ o.gate = "full" /\ ~o.keepOnFailure /\ ~Captures(o)} }

MCCfgs == OnceCfgs \cup RerunCfgs

MCMaxRuns == [c \in Cfgs |-> IF c \in RerunCfgs THEN 2 ELSE 1]
Once == [c \in Cfgs |-> 1]

AllAnchors == {c \in MCCfgs : c.kind = "pod" /\ c.anchor}

=============================================================================
