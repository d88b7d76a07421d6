----------------------------- MODULE MCScoring ------------------------------
(* Every dependency graph over three steps, on one venue, two, or back and forth. *)
EXTENDS Scoring

CONSTANTS a, b

Graphs == {g \in [Steps -> SUBSET Steps] : \A s \in Steps : s \notin g[s]}
OneVenue == [s \in Steps |-> a]
TwoVenues == [s \in Steps |-> IF s = 1 THEN a ELSE b]
BackAndForth == [s \in Steps |-> IF s = 2 THEN b ELSE a]
Unplaced == [s \in Steps |-> IF s = 2 THEN NoVenue ELSE a]

MCPlans ==
    [deps : Graphs, venue : {OneVenue, TwoVenues, BackAndForth}, scored : {Steps, Steps \ {1}},
     ephemeral : {{a}}, keep : {{}, {a}}]
    \cup [deps : {[s \in Steps |-> {}]}, venue : {Unplaced}, scored : {Steps, Steps \ {2}},
          ephemeral : {{}}, keep : {{}}]

=============================================================================
