----------------------------- MODULE MCCheckStop -----------------------------
(* Four runs for TLC: a pod bed started twice, in a roster's process and in  *)
(* a shell; and two VM beds of the roster that share both of their domains,  *)
(* one of which claims the pod bed's resource token.                         *)
EXTENDS CheckStop

CONSTANTS pod, vmOne, vmTwo, podRun, podAgain, oneRun, twoRun, roster, shell, gpu,
          operator, noBed

MCRuns == {podRun, podAgain, oneRun, twoRun}
MCProcs == {roster, shell}
MCBeds == {pod, vmOne, vmTwo}
MCDomains == 1 .. 2
MCTokens == {gpu}
MCBedOf == [r \in MCRuns |-> CASE r = oneRun -> vmOne [] r = twoRun -> vmTwo [] OTHER -> pod]
MCProcOf == [r \in MCRuns |-> IF r = podAgain THEN shell ELSE roster]
MCDomainsOf == [b \in MCBeds |-> IF b = pod THEN {} ELSE 1 .. 2]
MCTokensOf == [b \in MCBeds |-> IF b = vmTwo THEN {} ELSE {gpu}]
\* The operator exported an overlay of their own in the shell.
MCOuter == {podAgain}
MCFlaky == {podRun}
\* The pod bed has an ephemeral target.
MCEphemeral == {podRun, podAgain}
=============================================================================
