--------------------------- MODULE MCHarnessLoop ----------------------------
(* Two scored steps, the second behind the first or on its own; plateaus of one and two    *)
(* iterations.                                                                             *)
EXTENDS HarnessLoop

CONSTANTS s1, s2

Chain == [s \in Steps |-> IF s = s2 THEN {s1} ELSE {}]

Plain == [plateau |-> 1, dryRun |-> FALSE, keepRepo |-> FALSE, stream |-> FALSE,
          deadline |-> FALSE, forks |-> TRUE, planned |-> TRUE, deps |-> Chain]

MCSetups ==
    {Plain, [Plain EXCEPT !.plateau = 2, !.forks = FALSE, !.stream = TRUE,
                   !.deps = [s \in Steps |-> {}]],
     [Plain EXCEPT !.deadline = TRUE, !.stream = TRUE, !.forks = FALSE],
     [Plain EXCEPT !.plateau = 0, !.dryRun = TRUE, !.keepRepo = TRUE]}

=============================================================================
