--------------------------- MODULE RosterPromise ---------------------------
(***************************************************************************)
(* What a roster promises, whatever its chains and lanes look like         *)
(* (candy/plugin-check/roster.go): two beds that claim one resource are    *)
(* never in flight together, no more beds are in flight than there are     *)
(* lanes, every bed runs at most once, and the exit code is a function of  *)
(* how all of them ended.                                                  *)
(***************************************************************************)
EXTENDS Naturals, FiniteSets

CONSTANTS
    Beds,      \* the beds of the project
    Tokens     \* the resource tokens they claim

VARIABLES
    chosen,    \* the beds of the roster
    claims,    \* the tokens of each bed
    lanes,     \* how many may be in flight
    inFlight,
    ended,     \* how each bed that has run ended, "none" before
    exit       \* the roster's exit code, 9 while it has none

vars == <<chosen, claims, lanes, inFlight, ended, exit>>

\* The five ways a bed of a roster can end.
Endings == {"proved", "failed", "broken", "prereq", "unproven"}

Init ==
    /\ chosen \subseteq Beds
    /\ claims \in [Beds -> SUBSET Tokens]
    /\ lanes \in Nat \ {0}
    /\ inFlight = {}
    /\ ended = [b \in Beds |-> "none"]
    /\ exit = 9

Begin(b) ==
    /\ b \in chosen \ inFlight
    /\ ended[b] = "none"
    /\ Cardinality(inFlight) < lanes
    /\ \A c \in inFlight : claims[b] \cap claims[c] = {}
    /\ inFlight' = inFlight \cup {b}
    /\ UNCHANGED <<chosen, claims, lanes, ended, exit>>

End(b) ==
    /\ b \in inFlight
    /\ \E e \in Endings : ended' = [ended EXCEPT ![b] = e]
    /\ inFlight' = inFlight \ {b}
    /\ UNCHANGED <<chosen, claims, lanes, exit>>

\* 1 before 2 before 3 before 0; a roster without a bed passes.
ExitOf(how) ==
    IF "broken" \in how THEN 1
    ELSE IF "failed" \in how THEN 2
    ELSE IF "unproven" \in how \/ how = {"prereq"} THEN 3
    ELSE 0

Conclude ==
    /\ exit = 9
    /\ \A b \in chosen : ended[b] # "none"
    /\ exit' = ExitOf({ended[b] : b \in chosen})
    /\ UNCHANGED <<chosen, claims, lanes, inFlight, ended>>

Next == Conclude \/ \E b \in Beds : Begin(b) \/ End(b)

Spec == Init /\ [][Next]_vars

=============================================================================
