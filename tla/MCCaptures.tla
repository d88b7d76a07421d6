----------------------------- MODULE MCCaptures -----------------------------
(* One bed with up to two instruments, run twice. *)
EXTENDS Captures, Instruments

Authored == [id |-> <<>>, plugin |-> "", keys |-> {"spice"}, phase |-> <<>>, pipeline |-> <<>>]
Document == [bed |-> "bed", root |-> <<>>, deploy |-> <<>>, members |-> <<>>]

\* One instrument of two brackets, its second start in the directory of the first.
TwoBrackets ==
    [Document EXCEPT !.root = <<[Authored EXCEPT !.phase = <<"build", "live", "unknown">>]>>]

\* A root instrument behind the deploy envelope and a member's.
TwoVenues ==
    [Document EXCEPT
        !.root = <<[Authored EXCEPT !.keys = {}]>>,
        !.deploy = <<[Authored EXCEPT !.pipeline = <<[plugin |-> "", keys |-> {"transcode"}]>>]>>,
        !.members = <<[name |-> "m", list |-> <<[Authored EXCEPT !.plugin = "record"]>>],
                      [name |-> "", list |-> <<[Authored EXCEPT !.keys = {}]>>]>>]

OneInstrument == [Document EXCEPT !.root = <<Authored>>]

\* A generated id that an authored one already has.
Duplicate ==
    [Document EXCEPT !.root = <<[Authored EXCEPT !.id = <<"spice-2">>], Authored>>]

\* An entry, and a pipeline stage, of two words.
TwoWords == [Document EXCEPT !.root = <<[Authored EXCEPT !.keys = {"spice", "record"}]>>]
TwoStages ==
    [Document EXCEPT !.root =
        <<[Authored EXCEPT !.pipeline = <<[plugin |-> "", keys |-> {"transcode", "exec"}]>>]>>]

SetupOf(doc, transports, mayWedge) ==
    [refused |-> ResolveRefused(doc),
     dispatches |-> IF ResolveRefused(doc) THEN <<>> ELSE Dispatches(ResolveInstruments(doc)),
     transports |-> transports, mayWedge |-> mayWedge]

MCSetups ==
    {SetupOf(TwoBrackets, {"setsid"}, FALSE), SetupOf(TwoBrackets, {"systemd"}, FALSE),
     SetupOf(TwoVenues, {"systemd", "setsid"}, FALSE), SetupOf(OneInstrument, {"systemd"}, TRUE),
     SetupOf(Duplicate, {"setsid"}, FALSE), SetupOf(TwoWords, {"setsid"}, FALSE),
     SetupOf(TwoStages, {"setsid"}, FALSE)}

=============================================================================
