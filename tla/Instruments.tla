---------------------------- MODULE Instruments ----------------------------
(***************************************************************************)
(* From the authored `instrument:` lists of a bed to the dispatches of its *)
(* brackets (candy/plugin-check/instrument.go): resolveInstruments and its *)
(* helpers as operators.                                                   *)
(*                                                                         *)
(* An authored entry is a record: its id (a sequence of dot-separated      *)
(* labels, <<>> when absent), its plugin word ("" when absent), the keys   *)
(* that are no modifier, its phase words, and its pipeline stages (each    *)
(* with a plugin word and keys).  A document has the root's list, the list *)
(* under a "deploy" envelope if any, and the members' lists in order.      *)
(***************************************************************************)
EXTENDS Naturals, Sequences, FiniteSets, SequencesExt

Phases == <<"build", "live", "update", "teardown">>
PhaseDefault == "live"

\* One word: the plugin of a desugared entry, otherwise its one key.
NoOneWord(e) == e.plugin = "" /\ Cardinality(e.keys) # 1
WordOf(e) == IF e.plugin # "" THEN e.plugin ELSE CHOOSE k \in e.keys : TRUE

InstrumentVerb(e) == WordOf(e)

\* Unknown words are dropped; with none left the default bracket is taken.
InstrumentPhases(e) ==
    LET known == ToSet(e.phase) \cap ToSet(Phases)
    IN  IF known = {} THEN {PhaseDefault} ELSE known

ParsePipelines(e) == [k \in DOMAIN e.pipeline |-> WordOf(e.pipeline[k])]

EntryRefused(e) == NoOneWord(e) \/ \E k \in DOMAIN e.pipeline : NoOneWord(e.pipeline[k])

\* The session of an entry is <venue>.<id>; an absent id is made of the verb and the place.
ScopedID(venue, i, e) ==
    venue \o IF e.id = <<>> THEN <<InstrumentVerb(e) \o "-" \o ToString(i)>> ELSE e.id

\* Ids are compared within one venue's list only.
ListRefused(venue, list) ==
    \/ \E i \in DOMAIN list : EntryRefused(list[i])
    \/ \E i, j \in DOMAIN list :
            i # j /\ ScopedID(venue, i, list[i]) = ScopedID(venue, j, list[j])

ParseInstrumentList(venue, list) ==
    [i \in DOMAIN list |->
        [session |-> ScopedID(venue, i, list[i]), venue |-> venue,
         verb |-> InstrumentVerb(list[i]), phases |-> InstrumentPhases(list[i]),
         pipeline |-> ParsePipelines(list[i])]]

\* The venues in order: the root, then the members that have a name.
Venues(doc) ==
    <<[venue |-> <<doc.bed>>, list |-> IF doc.deploy # <<>> THEN doc.deploy ELSE doc.root]>>
        \o [k \in DOMAIN SelectSeq(doc.members, LAMBDA m : m.name # "") |->
                LET m == SelectSeq(doc.members, LAMBDA n : n.name # "")[k]
                IN  [venue |-> <<doc.bed, m.name>>, list |-> m.list]]

ResolveRefused(doc) == \E k \in DOMAIN Venues(doc) : ListRefused(Venues(doc)[k].venue, Venues(doc)[k].list)

ResolveInstruments(doc) ==
    FlattenSeq([k \in DOMAIN Venues(doc) |->
                    ParseInstrumentList(Venues(doc)[k].venue, Venues(doc)[k].list)])

\* runInstrumentBracket: one end of a bracket, entry by entry.
Bracket(entries, p, op) ==
    LET in == SelectSeq(entries, LAMBDA e : p \in e.phases)
    IN  [k \in DOMAIN in |-> [op |-> op, phase |-> p, session |-> in[k].session]]

\* The dispatches of a run that passes, in the order of runCheckBed's brackets.
Dispatches(entries) ==
    FlattenSeq([k \in DOMAIN Phases |->
                    Bracket(entries, Phases[k], "start") \o Bracket(entries, Phases[k], "stop")])

=============================================================================
