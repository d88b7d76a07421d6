---------------------------- MODULE MCLiveTarget ----------------------------
(* Roots of every venue, of the project and of a namespace, with members in each; the candy, *)
(* the include steps and the request vary.                                                   *)
EXTENDS LiveTarget, TLC

NoMembers == <<>>

Node(venue, plan) ==
    [venue |-> venue, plan |-> plan, baked |-> <<>>, candies |-> <<>>, from |-> NoName,
     holder |-> FALSE, members |-> NoMembers]

Pod(plan, baked) == [Node("pod", plan) EXCEPT !.baked = baked]
Vm(plan, from) ==
    [Node("vm", plan) EXCEPT !.from = from, !.candies = <<[name |-> "candy", want |-> "v1"]>>]

Deploy ==
    <<"pod">> :> [Pod(<<"authored">>, <<"baked">>) EXCEPT !.members =
                     "vm" :> Vm(<<"nested">>, "base") @@ "app" :> Node("local", <<"app">>)
                     @@ "pod" :> Pod(<<"authored">>, <<"inner">>)]
    @@ <<"plain">> :> Pod(<<>>, <<>>)
    @@ <<"holder">> :> [Pod(<<>>, <<"baked">>) EXCEPT !.holder = TRUE]
    @@ <<"vm">> :> [Vm(<<"include">>, "base") EXCEPT !.members =
                     "pod" :> Pod(<<"inner">>, <<>>) @@ "app" :> Node("local", <<"app">>)]
    @@ <<"clone">> :> Vm(<<"authored">>, "vm")
    @@ <<"kube">> :> [Vm(<<"include">>, NoName) EXCEPT !.venue = "kubevirt", !.members =
                     "app" :> Node("local", <<"app">>)]
    @@ <<"host">> :> [Node("local", <<"include">>) EXCEPT !.from = "template", !.members =
                     "vm" :> Vm(<<"nested">>, "other") @@ "app" :> Node("local", <<"app">>)
                     @@ "pod" :> Pod(<<"include">>, <<"baked">>)]
    @@ <<"bare">> :> [Node("local", <<>>) EXCEPT !.from = "template"]

Beds ==
    <<"ns", "pod">> :> Pod(<<"include">>, <<"baked">>)
    @@ <<"ns", "holder">> :> [Pod(<<"authored">>, <<"baked">>) EXCEPT !.holder = TRUE]
    @@ <<"ns", "vm">> :> Vm(<<>>, "base")
    @@ <<"ns", "host">> :> [Node("local", <<"authored">>) EXCEPT !.members =
                             "pod" :> Pod(<<"inner">>, <<"baked">>)]

Entry(venue, from, plan) == [venue |-> venue, from |-> from, plan |-> plan, holder |-> FALSE]

Overlay ==
    <<"pod">> :> Entry("pod", NoName, <<"overlay">>)
    @@ <<"plain">> :> [Entry("pod", NoName, <<"include">>) EXCEPT !.holder = TRUE]
    @@ <<"pod", "pod">> :> [Entry("pod", NoName, <<"overlay">>) EXCEPT !.holder = TRUE]
    @@ <<"vm">> :> Entry("vm", NoName, <<"overlay">>)
    @@ <<"kube">> :> Entry("kubevirt", NoName, <<"overlay">>)
    @@ <<"bare">> :> Entry("local", NoName, <<>>)

\* Other VMs of this host: one of a base of its own, and two of the same base.
Overlays ==
    {Overlay,
     <<"twin">> :> Entry("vm", "other", <<"foreign">>) @@ Overlay,
     <<"old">> :> Entry("vm", "base", <<"foreign">>)
        @@ <<"vm">> :> Entry("vm", "base", <<"overlay">>) @@ Overlay}

Templates == ("pod" :> <<>>) @@ ("vm" :> <<>>) @@ ("local" :> ("template" :> <<"template">>))

\* Unknown, nested, and in a circle.
Included ==
    {<<>>, "include" :> <<"x", "again">> @@ "again" :> <<"y">>,
     "include" :> <<"again">> @@ "again" :> <<"y", "include">>}

Models ==
    {<<>>} \cup {"candy" :> [version |-> v, plan |-> <<"candied", "again">>] :
                     v \in {"v1", "v2", NoName}}

MCProjects ==
    {[deploy |-> Deploy, beds |-> Beds, overlay |-> o, templates |-> Templates,
      entities |-> e, models |-> m] : o \in Overlays, e \in Included, m \in Models}

Members == {<<r, m>> : r \in {"pod", "vm", "kube", "host"}, m \in {"vm", "app", "pod", "nobody"}}
           \cup {<<"ns", "vm", "app">>, <<"ns", "host", "pod">>}

MCAddrs == DOMAIN Deploy \cup DOMAIN Beds \cup Members

\* Only check live has a --steps-file.
MCRequests ==
    [mode : {"live"}, addr : MCAddrs, injected : BOOLEAN]
    \cup [mode : {"feature"}, addr : MCAddrs, injected : {FALSE}]

MCIncludes == {"include", "again"}
MCInjected == <<"record">>
MCJoints == {"-", "_"}

=============================================================================
