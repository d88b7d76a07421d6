--------------------------- MODULE BedRun_proofs ---------------------------
(***************************************************************************)
(* What runCheckBed guarantees for every bed configuration, any children,  *)
(* members and instruments, and any number of runs in a row.               *)
(*                                                                         *)
(* First the stack of deferred functions: handles, lease, verdict (IInv).  *)
(* Then the body as a program: what its steps are and in which order they  *)
(* come (Split), and with it the venue: who tears it down (VInv), what is  *)
(* left of it (LeftInv), which checks count at the end (CheckedInv), what  *)
(* the pipelines run against (PipesInv), the golden and the overlay, and   *)
(* that every check still to come finds what it looks for (ReadyInv).      *)
(***************************************************************************)
EXTENDS BedRun, SequenceFacts

RetPlaces == {"none", "setup", "skip", "evidence", "instruments", "anchor", "fail", "tail",
              "signal", "kill"}

\* The function is leaving, or has left, through its body.
FromBody == ret.at \in {"none", "fail", "tail"}

Before == {"setup", "evidence-dir", "instruments", "validate"}
Opened == {"evidence-dir", "instruments", "validate", "body", "cleanup"}

Callers == {"none", "tail", "fail", "defer"}

\* The records of the control state keep their type.
TypesInv ==
    /\ ret \in [at : RetPlaces, err : BOOLEAN]
    /\ caller \in [by : Callers, err : BOOLEAN]
    /\ panicking \in BOOLEAN
    /\ runs \in Nat

\* Where the runner is fixes how much of the defer stack is armed.
StackInv ==
    /\ pc \in PCs
    /\ defers \in 0 .. 6
    /\ pc \in {"idle", "dead", "setup"} => defers = 0
    /\ pc = "evidence-dir" => defers = 3
    /\ pc = "instruments" => defers = 4
    /\ pc = "validate" => defers = 5
    /\ pc = "body" => defers = 6
    /\ pc = "cleanup" => FromBody /\ defers = IF caller.by = "defer" THEN 5 ELSE 6
    /\ pc \in Before \cup {"body"} => ret = NoRet
    /\ pc = "cleanup" /\ caller.by = "tail" => ret = NoRet
    /\ pc = "unwind" /\ defers = 6 => FromBody
    /\ pc = "unwind" /\ ret.at = "setup" => defers = 0

\* The handles are all held until the session's deferred teardown, and none after it.
HandlesInv ==
    /\ pc \in Opened => held = Handles /\ res # NoRes
    /\ pc = "unwind" /\ FromBody /\ defers >= 4 => held = Handles /\ res # NoRes
    /\ pc = "unwind" /\ FromBody /\ defers < 4 => held = {} /\ lease \in {"restored", "failed"}
    /\ Ended /\ FromBody => held = {} /\ lease \in {"restored", "failed"}

\* The shutdown hook was first.
Hooked == vstate = "done" /\ verdict.result.stopped

\* The verdict is written exactly when the run's state is done, and the guard,
\* third on the stack, is what makes it so, unless the hook was first.
VerdictInv ==
    /\ vstate \in {"none", "open", "done"}
    /\ vstate = "done" <=> verdict # NoVerdict
    /\ verdict # NoVerdict => verdict.written /\ verdict.result \in Results
    /\ pc = "setup" => vstate = "none"
    /\ pc \in Opened => vstate = "open" \/ Hooked
    /\ pc = "unwind" => \/ ret.at = "setup" /\ vstate = "none"
                        \/ ret.at # "setup" /\ defers >= 3 /\ (vstate = "open" \/ Hooked)
                        \/ ret.at # "setup" /\ defers < 3 /\ vstate = "done"
    /\ pc \in {"idle", "dead"} => vstate # "open" \/ ret.at = "kill"

\* The result, the history and the place of the return tell the same story.
ResultInv ==
    /\ res = NoRes \/ res \in Results
    /\ pc \in Before => hist = NoHist
    /\ pc \in Opened \ {"body", "cleanup"} => res.ok /\ res.exit = 0 /\ ~res.skip
    /\ res # NoRes /\ ( \/ pc \in {"body", "cleanup"}
                        \/ pc = "unwind" /\ FromBody /\ defers >= 3 ) =>
            /\ ~res.skip
            /\ res.exit = hist.first
            /\ res.ok <=> res.exit = 0
            /\ ret.err => ~res.ok
            /\ pc = "cleanup" /\ caller.err => ~res.ok

\* Once the session is released the lease's disposition agrees with the result,
\* and once the verdict is written, with the verdict.
LeaseInv ==
    /\ pc = "unwind" /\ FromBody /\ defers = 3 =>
            res # NoRes /\ (lease = "restored" <=> res.ok)
    /\ (pc = "unwind" /\ FromBody /\ defers < 3) \/ (Ended /\ FromBody) =>
            \/ verdict.result.stopped
            \/ /\ lease = "restored" <=> verdict.result.ok
               /\ verdict.result.exit = hist.first

HistShape == DOMAIN hist = {"failed", "first", "downs", "cut"}

IInv == TypesInv /\ StackInv /\ HandlesInv /\ VerdictInv /\ ResultInv /\ LeaseInv /\ HistShape

-----------------------------------------------------------------------------
(* The body's actions, seen from the control state alone: a step that passes *)
(* disturbs nothing, a step that fails poisons the result and either goes on *)
(* or leaves by the failure tail.                                            *)

Quiet == UNCHANGED <<pc, caller, defers, res, ret, panicking, held, lease, vstate, verdict,
                     hist, runs>>

BodyFailure(name, code) ==
    /\ pc = "body"
    /\ Record(name, code)
    /\ UNCHANGED <<defers, panicking, held, lease, vstate, verdict, runs>>
    /\ \/ UNCHANGED <<pc, ret, caller>>
       \/ /\ ret' = [at |-> "fail", err |-> TRUE]
          /\ \/ pc' = "unwind" /\ UNCHANGED caller
             \/ pc' = "cleanup" /\ caller' = [by |-> "fail", err |-> FALSE]

\* FailTail is one of the two ways a failed step leaves the body.
LEMMA FailTailLeaves ==
    ASSUME FailTail
    PROVE  /\ ret' = [at |-> "fail", err |-> TRUE]
           /\ \/ pc' = "unwind" /\ UNCHANGED caller
              \/ pc' = "cleanup" /\ caller' = [by |-> "fail", err |-> FALSE]
  BY DEF FailTail, StartCleanup

\* Every failing step of the body is a BodyFailure with exit code 1 or 2.
LEMMA FailuresAreBodyFailures ==
    ASSUME \/ CliFails \/ CliFailureTolerated \/ CliFailureRetried
           \/ PhaseFails \/ BracketFails \/ EvidenceFails
    PROVE  \E name \in {Head(todo).name, "instruments", "evidence"}, code \in {1, 2} :
                BodyFailure(name, code)
<1>1. CASE CliFails
  BY <1>1, FailTailLeaves DEF CliFails, StepFails, At, BodyFailure
<1>2. CASE CliFailureTolerated
  BY <1>2 DEF CliFailureTolerated, StepFails, Continue, At, BodyFailure
<1>3. CASE CliFailureRetried
  BY <1>3 DEF CliFailureRetried, StepFails, Continue, At, BodyFailure
<1>4. CASE PhaseFails
  BY <1>4, FailTailLeaves DEF PhaseFails, StepFails, At, BodyFailure
<1>5. CASE BracketFails
  BY <1>5, FailTailLeaves DEF BracketFails, At, BodyFailure
<1>6. CASE EvidenceFails
  BY <1>6, FailTailLeaves DEF EvidenceFails, At, BodyFailure
<1> QED
  BY <1>1, <1>2, <1>3, <1>4, <1>5, <1>6

\* The body's other steps are quiet.
LEMMA QuietSteps ==
    ASSUME \/ CliPasses \/ PhasePasses \/ MarkDeployed \/ BracketPasses \/ EvidencePasses
           \/ Done \/ UNCHANGED vars
    PROVE  Quiet
<1> USE DEF Quiet, Continue
<1>1. CASE CliPasses
  BY <1>1 DEF CliPasses
<1>2. CASE PhasePasses
  BY <1>2 DEF PhasePasses
<1>3. CASE MarkDeployed
  BY <1>3 DEF MarkDeployed
<1>4. CASE BracketPasses
  BY <1>4 DEF BracketPasses
<1>5. CASE EvidencePasses
  BY <1>5 DEF EvidencePasses
<1>6. CASE Done \/ UNCHANGED vars
  BY <1>6 DEF Done, vars, ctl
<1> QED
  BY <1>1, <1>2, <1>3, <1>4, <1>5, <1>6

\* So a step of the system is one of these.
LEMMA StepCases ==
    ASSUME [Next]_vars
    PROVE  \/ Quiet
           \/ \E name, code : code \in {1, 2} /\ BodyFailure(name, code)
           \/ StartRun \/ SetupFails \/ SetupSkips \/ SetupOpens \/ EvidenceDirFails
           \/ ArmTeardown \/ InstrumentsFail \/ ArmFinalizer \/ RejectAnchor
           \/ PrepareVenue \/ TeardownStep \/ BodyReturns
           \/ CleanupPasses \/ CleanupFails \/ CleanupReturns
           \/ DeferredVenue \/ DeferredFinalize \/ DeferredSession \/ DeferredGuard
           \/ DeferredClose \/ Exit \/ Panic \/ HookFires \/ Signal \/ Kill
  BY QuietSteps, FailuresAreBodyFailures DEF Next, Runner, Prologue, Body, Teardown, Unwind

-----------------------------------------------------------------------------
(* The operators on results. *)

\* What the actions assign to ret and caller has its type.
LEMMA ControlRecords ==
    /\ \A at \in RetPlaces, err \in BOOLEAN : [at |-> at, err |-> err]
           \in [at : RetPlaces, err : BOOLEAN]
    /\ \A by \in Callers : [by |-> by, err |-> FALSE] \in [by : Callers, err : BOOLEAN]
    /\ {"none", "setup", "skip", "evidence", "instruments", "anchor", "fail", "tail",
          "signal", "kill"} = RetPlaces
    /\ {"none", "tail", "fail", "defer"} = Callers
  BY DEF RetPlaces, Callers

\* A result is never nil.
LEMMA ResultsNotNil == \A r \in Results : r # NoRes
  BY DEF Results, NoRes

\* Overwriting fields of a result with values of their type gives a result.
LEMMA UpdatedResults ==
    ASSUME NEW r \in Results, NEW b \in BOOLEAN, NEW n \in 0 .. 2
    PROVE  /\ [r EXCEPT !.ok = b] \in Results
           /\ [r EXCEPT !.skip = b] \in Results
           /\ [r EXCEPT !.ok = b, !.exit = n] \in Results
           /\ [r EXCEPT !.ok = b, !.exit = n, !.stopped = TRUE] \in Results
  BY DEF Results

\* A fresh result, and the one of a stopped run, are results.
LEMMA FreshResults ==
    /\ FreshRes \in Results
    /\ \A b \in BOOLEAN : [FreshRes EXCEPT !.skip = b] \in Results
    /\ [FreshRes EXCEPT !.ok = FALSE] \in Results
    /\ [FreshRes EXCEPT !.ok = FALSE, !.exit = 1, !.stopped = TRUE] \in Results
<1>1. FreshRes \in Results
  BY DEF FreshRes, Results
<1>2. 1 \in 0 .. 2
  OBVIOUS
<1> QED
  BY <1>1, <1>2, UpdatedResults

\* Poisoning fails the result and keeps the first exit code.
LEMMA PoisonedResults ==
    ASSUME res \in Results, NEW code \in {1, 2}
    PROVE  /\ Poisoned(code) \in Results
           /\ ~Poisoned(code).ok
           /\ Poisoned(code).exit = IF res.exit = 0 THEN code ELSE res.exit
           /\ Poisoned(code).skip = res.skip
<1> DEFINE n == IF res.exit = 0 THEN code ELSE res.exit
<1>1. n \in 0 .. 2
  BY DEF Results
<1>2. Poisoned(code) \in Results
  BY <1>1, UpdatedResults DEF Poisoned
<1> QED
  BY <1>2 DEF Poisoned, Results

\* The guard's view of the outcome is a result; without a panic it is the named
\* result whenever a failure has poisoned it.
LEMMA FinalResults ==
    ASSUME res = NoRes \/ res \in Results
    PROVE  /\ FinalResult \in Results
           /\ panicking => FinalResult.stopped
           /\ ( /\ res # NoRes /\ ~panicking /\ ~res.skip
                /\ res.ok <=> res.exit = 0
                /\ ret.err => ~res.ok ) =>
              FinalResult.ok = res.ok /\ FinalResult.exit = res.exit
<1>1. FinalResult \in Results
  <2> DEFINE base == IF res = NoRes THEN [FreshRes EXCEPT !.ok = FALSE] ELSE res
  <2>1. base \in Results
    BY FreshResults
  <2>2. \A r \in Results : (IF r.exit = 0 THEN 1 ELSE r.exit) \in 0 .. 2
    BY DEF Results
  <2>3. 1 \in 0 .. 2
    OBVIOUS
  <2> QED
    BY <2>1, <2>2, <2>3, UpdatedResults DEF FinalResult
<1> QED
  BY <1>1 DEF FinalResult, Results

-----------------------------------------------------------------------------

\* The invariant holds initially.
LEMMA InitIInv == Init => IInv
<1> SUFFICES ASSUME Init PROVE IInv
  OBVIOUS
<1> USE DEF Init, Ended, FromBody
<1>1. TypesInv
  <2>1. ret \in [at : RetPlaces, err : BOOLEAN]
    BY DEF RetPlaces, NoRet
  <2>2. caller \in [by : Callers, err : BOOLEAN]
    BY DEF Callers, NoCaller
  <2>3. panicking \in BOOLEAN /\ runs \in Nat
    OBVIOUS
  <2> QED
    BY <2>1, <2>2, <2>3 DEF TypesInv
<1>2. StackInv /\ HandlesInv
  BY DEF StackInv, HandlesInv, PCs, Before, Opened
<1>3. VerdictInv
  BY DEF VerdictInv, Opened
<1>4. ResultInv
  BY DEF ResultInv, Before, Opened
<1>5. LeaseInv
  BY DEF LeaseInv
<1>6. HistShape
  BY DEF HistShape, NoHist
<1> QED
  BY <1>1, <1>2, <1>3, <1>4, <1>5, <1>6 DEF IInv

\* What the actions assign to the control records has its type.
LEMMA TypesInvStep ==
    ASSUME IInv, [Next]_vars
    PROVE  TypesInv'
<1> USE DEF IInv, TypesInv, StackInv
<1>1. CASE Quiet
  BY <1>1 DEF Quiet
<1>2. CASE StartRun
  <2>1. ret' = NoRet /\ caller' = NoCaller
    BY <1>2 DEF StartRun
  <2>2. panicking' \in BOOLEAN
    BY <1>2 DEF StartRun
  <2>3. runs' \in Nat
    BY <1>2 DEF StartRun
  <2> QED
    BY <2>1, <2>2, <2>3, ControlRecords DEF NoRet, NoCaller
<1>3. CASE SetupFails
  BY <1>3, ControlRecords DEF SetupFails, Return
<1>4. CASE SetupSkips
  BY <1>4, ControlRecords DEF SetupSkips, BeginVerdict, Return
<1>5. CASE SetupOpens
  BY <1>5 DEF SetupOpens, BeginVerdict
<1>6. CASE EvidenceDirFails
  BY <1>6, ControlRecords DEF EvidenceDirFails, Return
<1>7. CASE ArmTeardown
  BY <1>7 DEF ArmTeardown
<1>8. CASE InstrumentsFail
  BY <1>8, ControlRecords DEF InstrumentsFail, Return
<1>9. CASE ArmFinalizer
  BY <1>9 DEF ArmFinalizer
<1>10. CASE RejectAnchor
  BY <1>10, ControlRecords DEF RejectAnchor, Return
<1>11. CASE PrepareVenue
  BY <1>11 DEF PrepareVenue
<1>12. CASE HookFires
  BY <1>12 DEF HookFires, ctl
<1>13. ASSUME NEW name, NEW code \in {1, 2}, BodyFailure(name, code)
      PROVE  TypesInv'
  <2>1. ret' \in [at : RetPlaces, err : BOOLEAN]
    <3>1. ret' \in {ret, [at |-> "fail", err |-> TRUE]}
      BY <1>13 DEF BodyFailure
    <3> QED
      BY <3>1, ControlRecords
  <2>2. caller' \in [by : Callers, err : BOOLEAN]
    <3>1. caller' \in {caller, [by |-> "fail", err |-> FALSE]}
      BY <1>13 DEF BodyFailure
    <3> QED
      BY <3>1, ControlRecords
  <2>3. UNCHANGED <<panicking, runs>>
    BY <1>13 DEF BodyFailure
  <2> QED
    BY <2>1, <2>2, <2>3
<1>14. CASE TeardownStep
  <2>1. caller' \in {caller, [by |-> "tail", err |-> FALSE]}
    BY <1>14 DEF TeardownStep, At, StartCleanup, Continue
  <2>2. UNCHANGED <<ret, panicking, runs>>
    BY <1>14 DEF TeardownStep, At, StartCleanup, Continue
  <2> QED
    BY <2>1, <2>2, ControlRecords
<1>15. CASE BodyReturns
  BY <1>15, ControlRecords DEF BodyReturns, Return
<1>16. CASE CleanupPasses
  BY <1>16 DEF CleanupPasses, InCleanup
<1>17. CASE CleanupFails
  BY <1>17, ControlRecords DEF CleanupFails, InCleanup
<1>18. CASE CleanupReturns
  <2>1. ret' \in {ret, [at |-> "fail", err |-> TRUE]}
    BY <1>18 DEF CleanupReturns
  <2>2. UNCHANGED <<caller, panicking, runs>>
    BY <1>18 DEF CleanupReturns
  <2> QED
    BY <2>1, <2>2, ControlRecords
<1>19. CASE DeferredVenue
  <2>1. caller' \in {caller, [by |-> "defer", err |-> FALSE]}
    BY <1>19 DEF DeferredVenue, StartCleanup
  <2>2. UNCHANGED <<ret, panicking, runs>>
    BY <1>19 DEF DeferredVenue, StartCleanup
  <2> QED
    BY <2>1, <2>2, ControlRecords
<1>20. CASE DeferredFinalize
  BY <1>20 DEF DeferredFinalize, Popping, DeferOrder
<1>21. CASE DeferredSession
  BY <1>21 DEF DeferredSession, Popping, DeferOrder
<1>22. CASE DeferredGuard
  BY <1>22 DEF DeferredGuard, Popping, DeferOrder, WriteVerdictOnce
<1>23. CASE DeferredClose
  BY <1>23 DEF DeferredClose, Popping, DeferOrder
<1>24. CASE Exit
  BY <1>24 DEF Exit, Locks
<1>25. CASE Panic
  BY <1>25 DEF Panic
<1>26. CASE Signal
  BY <1>26, ControlRecords DEF Signal, Dies
<1>27. CASE Kill
  BY <1>27, ControlRecords DEF Kill, Dies
<1> QED
  BY <1>1, <1>2, <1>3, <1>4, <1>5, <1>6, <1>7, <1>8, <1>9, <1>10, <1>11, <1>12, <1>13, <1>14,
     <1>15, <1>16, <1>17, <1>18, <1>19, <1>20, <1>21, <1>22, <1>23, <1>24, <1>25, <1>26,
     <1>27, StepCases

\* Arming, popping and unwinding keep the stack in step with the control state.
LEMMA StackInvStep ==
    ASSUME IInv, [Next]_vars
    PROVE  StackInv'
<1> USE DEF IInv, StackInv, FromBody, Before, PCs, NoRet
<1>1. CASE Quiet
  BY <1>1 DEF Quiet
<1>2. CASE StartRun
  BY <1>2 DEF StartRun
<1>3. CASE SetupFails
  BY <1>3 DEF SetupFails, Return
<1>4. CASE SetupSkips
  BY <1>4 DEF SetupSkips, BeginVerdict, Return
<1>5. CASE SetupOpens
  BY <1>5 DEF SetupOpens, BeginVerdict
<1>6. CASE EvidenceDirFails
  BY <1>6 DEF EvidenceDirFails, Return
<1>7. CASE ArmTeardown
  BY <1>7 DEF ArmTeardown
<1>8. CASE InstrumentsFail
  BY <1>8 DEF InstrumentsFail, Return
<1>9. CASE ArmFinalizer
  BY <1>9 DEF ArmFinalizer
<1>10. CASE RejectAnchor
  BY <1>10 DEF RejectAnchor, Return
<1>11. CASE PrepareVenue
  BY <1>11 DEF PrepareVenue
<1>12. CASE HookFires
  BY <1>12 DEF HookFires, ctl
<1>13. ASSUME NEW name, NEW code \in {1, 2}, BodyFailure(name, code)
      PROVE  StackInv'
  BY <1>13 DEF BodyFailure
<1>14. CASE TeardownStep
  BY <1>14 DEF TeardownStep, At, StartCleanup, Continue
<1>15. CASE BodyReturns
  BY <1>15 DEF BodyReturns, Return
<1>16. CASE CleanupPasses
  BY <1>16 DEF CleanupPasses, InCleanup
<1>17. CASE CleanupFails
  BY <1>17 DEF CleanupFails, InCleanup, TypesInv
<1>18. CASE CleanupReturns
  BY <1>18 DEF CleanupReturns
<1>19. CASE DeferredVenue
  BY <1>19 DEF DeferredVenue, Popping, DeferOrder, StartCleanup
<1>20. CASE DeferredFinalize
  BY <1>20 DEF DeferredFinalize, Popping, DeferOrder
<1>21. CASE DeferredSession
  BY <1>21 DEF DeferredSession, Popping, DeferOrder
<1>22. CASE DeferredGuard
  BY <1>22 DEF DeferredGuard, Popping, DeferOrder, WriteVerdictOnce
<1>23. CASE DeferredClose
  BY <1>23 DEF DeferredClose, Popping, DeferOrder
<1>24. CASE Exit
  BY <1>24 DEF Exit, Locks
<1>25. CASE Panic
  BY <1>25 DEF Panic
<1>26. CASE Signal
  BY <1>26 DEF Signal, Dies
<1>27. CASE Kill
  BY <1>27 DEF Kill, Dies
<1> QED
  BY <1>1, <1>2, <1>3, <1>4, <1>5, <1>6, <1>7, <1>8, <1>9, <1>10, <1>11, <1>12, <1>13, <1>14,
     <1>15, <1>16, <1>17, <1>18, <1>19, <1>20, <1>21, <1>22, <1>23, <1>24, <1>25, <1>26,
     <1>27, StepCases

\* Only the session's deferred teardown gives the handles back, and only a run that
\* leaves its body reaches it with a result.
LEMMA HandlesInvStep ==
    ASSUME IInv, [Next]_vars
    PROVE  HandlesInv'
<1> USE DEF IInv, StackInv, HandlesInv, FromBody, Before, Opened, Ended
<1>1. CASE Quiet
  BY <1>1 DEF Quiet
<1>2. CASE StartRun
  BY <1>2 DEF StartRun
<1>3. CASE SetupFails
  BY <1>3 DEF SetupFails, Return
<1>4. CASE SetupSkips
  BY <1>4 DEF SetupSkips, BeginVerdict, Return, NoRes, FreshRes
<1>5. CASE SetupOpens
  BY <1>5 DEF SetupOpens, BeginVerdict, NoRes, FreshRes
<1>6. CASE EvidenceDirFails
  BY <1>6 DEF EvidenceDirFails, Return
<1>7. CASE ArmTeardown
  BY <1>7 DEF ArmTeardown
<1>8. CASE InstrumentsFail
  BY <1>8 DEF InstrumentsFail, Return
<1>9. CASE ArmFinalizer
  BY <1>9 DEF ArmFinalizer
<1>10. CASE RejectAnchor
  BY <1>10 DEF RejectAnchor, Return
<1>11. CASE PrepareVenue
  BY <1>11 DEF PrepareVenue
<1>12. CASE HookFires
  BY <1>12 DEF HookFires, ctl
<1>13. ASSUME NEW name, NEW code \in {1, 2}, BodyFailure(name, code)
      PROVE  HandlesInv'
  BY <1>13, PoisonedResults, ResultsNotNil DEF BodyFailure, Record, ResultInv
<1>14. CASE TeardownStep
  BY <1>14 DEF TeardownStep, At, StartCleanup, Continue
<1>15. CASE BodyReturns
  BY <1>15 DEF BodyReturns, Return
<1>16. CASE CleanupPasses
  BY <1>16 DEF CleanupPasses, InCleanup
<1>17. CASE CleanupFails
  BY <1>17, PoisonedResults, ResultsNotNil DEF CleanupFails, InCleanup, ResultInv
<1>18. CASE CleanupReturns
  BY <1>18 DEF CleanupReturns
<1>19. CASE DeferredVenue
  BY <1>19 DEF DeferredVenue, Popping, DeferOrder, StartCleanup
<1>20. CASE DeferredFinalize
  BY <1>20 DEF DeferredFinalize, Popping, DeferOrder
<1>21. CASE DeferredSession
  BY <1>21 DEF DeferredSession, Popping, DeferOrder, Disposition
<1>22. CASE DeferredGuard
  BY <1>22 DEF DeferredGuard, Popping, DeferOrder, WriteVerdictOnce, ResultInv
<1>23. CASE DeferredClose
  BY <1>23 DEF DeferredClose, Popping, DeferOrder
<1>24. CASE Exit
  BY <1>24 DEF Exit, Locks, Handles
<1>25. CASE Panic
  BY <1>25 DEF Panic
<1>26. CASE Signal
  BY <1>26 DEF Signal, Dies
<1>27. CASE Kill
  BY <1>27 DEF Kill, Dies
<1> QED
  BY <1>1, <1>2, <1>3, <1>4, <1>5, <1>6, <1>7, <1>8, <1>9, <1>10, <1>11, <1>12, <1>13, <1>14,
     <1>15, <1>16, <1>17, <1>18, <1>19, <1>20, <1>21, <1>22, <1>23, <1>24, <1>25, <1>26,
     <1>27, StepCases

\* The guard and the shutdown hook write the verdict once and close the run's state.
LEMMA VerdictInvStep ==
    ASSUME IInv, [Next]_vars
    PROVE  VerdictInv'
<1> USE DEF IInv, StackInv, VerdictInv, Hooked, FromBody, Before, Opened, Ended
<1>1. CASE Quiet
  BY <1>1 DEF Quiet
<1>2. CASE StartRun
  BY <1>2 DEF StartRun, NoVerdict, NoRet
<1>3. CASE SetupFails
  BY <1>3 DEF SetupFails, Return
<1>4. CASE SetupSkips
  BY <1>4 DEF SetupSkips, BeginVerdict, Return
<1>5. CASE SetupOpens
  BY <1>5 DEF SetupOpens, BeginVerdict
<1>6. CASE EvidenceDirFails
  BY <1>6 DEF EvidenceDirFails, Return
<1>7. CASE ArmTeardown
  BY <1>7 DEF ArmTeardown
<1>8. CASE InstrumentsFail
  BY <1>8 DEF InstrumentsFail, Return
<1>9. CASE ArmFinalizer
  BY <1>9 DEF ArmFinalizer
<1>10. CASE RejectAnchor
  BY <1>10 DEF RejectAnchor, Return
<1>11. CASE PrepareVenue
  BY <1>11 DEF PrepareVenue
<1>12. CASE HookFires
  BY <1>12, FreshResults DEF HookFires, ctl, WriteVerdictOnce, NoVerdict, FreshRes
<1>13. ASSUME NEW name, NEW code \in {1, 2}, BodyFailure(name, code)
      PROVE  VerdictInv'
  BY <1>13 DEF BodyFailure
<1>14. CASE TeardownStep
  BY <1>14 DEF TeardownStep, At, StartCleanup, Continue
<1>15. CASE BodyReturns
  BY <1>15 DEF BodyReturns, Return
<1>16. CASE CleanupPasses
  BY <1>16 DEF CleanupPasses, InCleanup
<1>17. CASE CleanupFails
  BY <1>17 DEF CleanupFails, InCleanup
<1>18. CASE CleanupReturns
  BY <1>18 DEF CleanupReturns
<1>19. CASE DeferredVenue
  BY <1>19 DEF DeferredVenue, Popping, DeferOrder, StartCleanup
<1>20. CASE DeferredFinalize
  BY <1>20 DEF DeferredFinalize, Popping, DeferOrder
<1>21. CASE DeferredSession
  BY <1>21 DEF DeferredSession, Popping, DeferOrder
<1>22. CASE DeferredGuard
  BY <1>22, FinalResults
     DEF DeferredGuard, Popping, DeferOrder, WriteVerdictOnce, ResultInv, NoVerdict
<1>23. CASE DeferredClose
  BY <1>23 DEF DeferredClose, Popping, DeferOrder
<1>24. CASE Exit
  BY <1>24 DEF Exit, Locks
<1>25. CASE Panic
  BY <1>25 DEF Panic, NoRet
<1>26. CASE Signal
  BY <1>26 DEF Signal, Dies, NoVerdict
<1>27. CASE Kill
  BY <1>27 DEF Kill, Dies
<1> QED
  BY <1>1, <1>2, <1>3, <1>4, <1>5, <1>6, <1>7, <1>8, <1>9, <1>10, <1>11, <1>12, <1>13, <1>14,
     <1>15, <1>16, <1>17, <1>18, <1>19, <1>20, <1>21, <1>22, <1>23, <1>24, <1>25, <1>26,
     <1>27, StepCases

\* A failed step poisons the result and the history alike, and nothing heals it.
LEMMA ResultInvStep ==
    ASSUME IInv, [Next]_vars
    PROVE  ResultInv'
<1> USE DEF IInv, StackInv, HandlesInv, ResultInv, HistShape, FromBody, Before, Opened, Ended
<1>1. CASE Quiet
  BY <1>1 DEF Quiet
<1>2. CASE StartRun
  BY <1>2 DEF StartRun
<1>3. CASE SetupFails
  BY <1>3 DEF SetupFails, Return
<1>4. CASE SetupSkips
  BY <1>4, FreshResults DEF SetupSkips, BeginVerdict, Return, FreshRes
<1>5. CASE SetupOpens
  BY <1>5, FreshResults DEF SetupOpens, BeginVerdict, FreshRes
<1>6. CASE EvidenceDirFails
  BY <1>6 DEF EvidenceDirFails, Return
<1>7. CASE ArmTeardown
  BY <1>7 DEF ArmTeardown
<1>8. CASE InstrumentsFail
  BY <1>8 DEF InstrumentsFail, Return
<1>9. CASE ArmFinalizer
  BY <1>9 DEF ArmFinalizer
<1>10. CASE RejectAnchor
  BY <1>10 DEF RejectAnchor, Return
<1>11. CASE PrepareVenue
  BY <1>11 DEF PrepareVenue, FreshRes, NoHist, NoRet
<1>12. CASE HookFires
  BY <1>12 DEF HookFires, ctl
<1>13. ASSUME NEW name, NEW code \in {1, 2}, BodyFailure(name, code)
      PROVE  ResultInv'
  BY <1>13, PoisonedResults, ResultsNotNil DEF BodyFailure, Record, Noted
<1>14. CASE TeardownStep
  BY <1>14 DEF TeardownStep, At, StartCleanup, Continue
<1>15. CASE BodyReturns
  BY <1>15 DEF BodyReturns, Return
<1>16. CASE CleanupPasses
  BY <1>16 DEF CleanupPasses, InCleanup, CountDown
<1>17. CASE CleanupFails
  BY <1>17, PoisonedResults, ResultsNotNil
     DEF CleanupFails, InCleanup, CountDown, Noted, TypesInv
<1>18. CASE CleanupReturns
  BY <1>18 DEF CleanupReturns
<1>19. CASE DeferredVenue
  BY <1>19 DEF DeferredVenue, Popping, DeferOrder, StartCleanup
<1>20. CASE DeferredFinalize
  BY <1>20 DEF DeferredFinalize, Popping, DeferOrder
<1>21. CASE DeferredSession
  BY <1>21 DEF DeferredSession, Popping, DeferOrder
<1>22. CASE DeferredGuard
  BY <1>22, FinalResults DEF DeferredGuard, Popping, DeferOrder, WriteVerdictOnce
<1>23. CASE DeferredClose
  BY <1>23 DEF DeferredClose, Popping, DeferOrder
<1>24. CASE Exit
  BY <1>24 DEF Exit, Locks
<1>25. CASE Panic
  BY <1>25 DEF Panic, NoRet
<1>26. CASE Signal
  BY <1>26 DEF Signal, Dies
<1>27. CASE Kill
  BY <1>27 DEF Kill, Dies
<1> QED
  BY <1>1, <1>2, <1>3, <1>4, <1>5, <1>6, <1>7, <1>8, <1>9, <1>10, <1>11, <1>12, <1>13, <1>14,
     <1>15, <1>16, <1>17, <1>18, <1>19, <1>20, <1>21, <1>22, <1>23, <1>24, <1>25, <1>26,
     <1>27, StepCases

\* The session reads its disposition from the result, the guard writes the same one.
LEMMA LeaseInvStep ==
    ASSUME IInv, [Next]_vars
    PROVE  LeaseInv'
<1> USE DEF IInv, StackInv, HandlesInv, ResultInv, VerdictInv, Hooked, LeaseInv, FromBody,
        Before, Opened, Ended
<1>1. CASE Quiet
  BY <1>1 DEF Quiet
<1>2. CASE StartRun
  BY <1>2 DEF StartRun
<1>3. CASE SetupFails
  BY <1>3 DEF SetupFails, Return
<1>4. CASE SetupSkips
  BY <1>4 DEF SetupSkips, BeginVerdict, Return
<1>5. CASE SetupOpens
  BY <1>5 DEF SetupOpens, BeginVerdict
<1>6. CASE EvidenceDirFails
  BY <1>6 DEF EvidenceDirFails, Return
<1>7. CASE ArmTeardown
  BY <1>7 DEF ArmTeardown
<1>8. CASE InstrumentsFail
  BY <1>8 DEF InstrumentsFail, Return
<1>9. CASE ArmFinalizer
  BY <1>9 DEF ArmFinalizer
<1>10. CASE RejectAnchor
  BY <1>10 DEF RejectAnchor, Return
<1>11. CASE PrepareVenue
  BY <1>11 DEF PrepareVenue
<1>12. CASE HookFires
  BY <1>12 DEF HookFires, ctl, WriteVerdictOnce, FreshRes
<1>13. ASSUME NEW name, NEW code \in {1, 2}, BodyFailure(name, code)
      PROVE  LeaseInv'
  BY <1>13 DEF BodyFailure
<1>14. CASE TeardownStep
  BY <1>14 DEF TeardownStep, At, StartCleanup, Continue
<1>15. CASE BodyReturns
  BY <1>15 DEF BodyReturns, Return
<1>16. CASE CleanupPasses
  BY <1>16 DEF CleanupPasses, InCleanup
<1>17. CASE CleanupFails
  BY <1>17 DEF CleanupFails, InCleanup
<1>18. CASE CleanupReturns
  BY <1>18 DEF CleanupReturns
<1>19. CASE DeferredVenue
  BY <1>19 DEF DeferredVenue, Popping, DeferOrder, StartCleanup
<1>20. CASE DeferredFinalize
  BY <1>20 DEF DeferredFinalize, Popping, DeferOrder
<1>21. CASE DeferredSession
  BY <1>21 DEF DeferredSession, Popping, DeferOrder, Disposition
<1>22. CASE DeferredGuard
  BY <1>22, FinalResults DEF DeferredGuard, Popping, DeferOrder, WriteVerdictOnce
<1>23. CASE DeferredClose
  BY <1>23 DEF DeferredClose, Popping, DeferOrder
<1>24. CASE Exit
  BY <1>24 DEF Exit, Locks
<1>25. CASE Panic
  BY <1>25 DEF Panic
<1>26. CASE Signal
  BY <1>26 DEF Signal, Dies
<1>27. CASE Kill
  BY <1>27 DEF Kill, Dies
<1> QED
  BY <1>1, <1>2, <1>3, <1>4, <1>5, <1>6, <1>7, <1>8, <1>9, <1>10, <1>11, <1>12, <1>13, <1>14,
     <1>15, <1>16, <1>17, <1>18, <1>19, <1>20, <1>21, <1>22, <1>23, <1>24, <1>25, <1>26,
     <1>27, StepCases

\* The history keeps its fields.
LEMMA HistShapeStep ==
    ASSUME IInv, [Next]_vars
    PROVE  HistShape'
<1> USE DEF IInv, StackInv, ResultInv, HistShape, FromBody, Before, Opened, Ended
<1>1. CASE Quiet
  BY <1>1 DEF Quiet
<1>2. CASE StartRun
  BY <1>2 DEF StartRun, NoHist
<1>3. CASE SetupFails
  BY <1>3 DEF SetupFails, Return
<1>4. CASE SetupSkips
  BY <1>4 DEF SetupSkips, BeginVerdict, Return
<1>5. CASE SetupOpens
  BY <1>5 DEF SetupOpens, BeginVerdict
<1>6. CASE EvidenceDirFails
  BY <1>6 DEF EvidenceDirFails, Return
<1>7. CASE ArmTeardown
  BY <1>7 DEF ArmTeardown
<1>8. CASE InstrumentsFail
  BY <1>8 DEF InstrumentsFail, Return
<1>9. CASE ArmFinalizer
  BY <1>9 DEF ArmFinalizer
<1>10. CASE RejectAnchor
  BY <1>10 DEF RejectAnchor, Return
<1>11. CASE PrepareVenue
  BY <1>11 DEF PrepareVenue
<1>12. CASE HookFires
  BY <1>12 DEF HookFires, ctl
<1>13. ASSUME NEW name, NEW code \in {1, 2}, BodyFailure(name, code)
      PROVE  HistShape'
  BY <1>13 DEF BodyFailure, Record, Noted
<1>14. CASE TeardownStep
  BY <1>14 DEF TeardownStep, At, StartCleanup, Continue
<1>15. CASE BodyReturns
  BY <1>15 DEF BodyReturns, Return
<1>16. CASE CleanupPasses
  BY <1>16 DEF CleanupPasses, InCleanup, CountDown
<1>17. CASE CleanupFails
  BY <1>17 DEF CleanupFails, InCleanup, CountDown, Noted
<1>18. CASE CleanupReturns
  BY <1>18 DEF CleanupReturns
<1>19. CASE DeferredVenue
  BY <1>19 DEF DeferredVenue, Popping, DeferOrder, StartCleanup
<1>20. CASE DeferredFinalize
  BY <1>20 DEF DeferredFinalize, Popping, DeferOrder
<1>21. CASE DeferredSession
  BY <1>21 DEF DeferredSession, Popping, DeferOrder
<1>22. CASE DeferredGuard
  BY <1>22 DEF DeferredGuard, Popping, DeferOrder, WriteVerdictOnce
<1>23. CASE DeferredClose
  BY <1>23 DEF DeferredClose, Popping, DeferOrder
<1>24. CASE Exit
  BY <1>24 DEF Exit, Locks
<1>25. CASE Panic
  BY <1>25 DEF Panic
<1>26. CASE Signal
  BY <1>26 DEF Signal, Dies
<1>27. CASE Kill
  BY <1>27 DEF Kill, Dies
<1> QED
  BY <1>1, <1>2, <1>3, <1>4, <1>5, <1>6, <1>7, <1>8, <1>9, <1>10, <1>11, <1>12, <1>13, <1>14,
     <1>15, <1>16, <1>17, <1>18, <1>19, <1>20, <1>21, <1>22, <1>23, <1>24, <1>25, <1>26,
     <1>27, StepCases

-----------------------------------------------------------------------------
(* The world keeps its fields: every effect overwrites some of them. *)

WorldFields == {"live", "checked", "seeded", "disk", "golden", "running"}

WorldShape == DOMAIN world = WorldFields

\* No effect of a step, partial or complete, adds or drops a field.
LEMMA EffectsKeepShape ==
    ASSUME WorldShape, NEW c, NEW s
    PROVE  /\ DOMAIN Effect(c, s) = WorldFields
           /\ \A w \in PartialEffects(c, s) : DOMAIN w = WorldFields
<1> USE DEF WorldShape
<1>1. DOMAIN BuildEffect(c, s) = WorldFields
  BY DEF BuildEffect
<1>2. DOMAIN GateEffect(c, s) = WorldFields
  BY DEF GateEffect
<1>3. \A b : DOMAIN RootGone(c, b) = WorldFields
  BY DEF RootGone
<1>4. \A gone : DOMAIN MembersGone(gone) = WorldFields
  BY DEF MembersGone
<1>5. \A up : DOMAIN MembersUp(c, up) = WorldFields
  BY DEF MembersUp
<1>6. DOMAIN Effect(c, s) = WorldFields
  BY <1>1, <1>2, <1>3, <1>4, <1>5 DEF Effect
<1> QED
  BY <1>4, <1>5, <1>6 DEF PartialEffects

\* Nor does the pre-run cleanup.
LEMMA PreRunKeepsShape ==
    ASSUME WorldShape, NEW c, NEW w \in PreRunWorlds(c)
    PROVE  DOMAIN w = WorldFields
  BY DEF WorldShape, PreRunWorlds, RootGone

\* The steps that write the world, by what they write.
LEMMA WorldSteps ==
    ASSUME [Next]_vars
    PROVE  \/ UNCHANGED world
           \/ StartRun
           \/ PrepareVenue
           \/ /\ pc \in {"body", "cleanup"}
              /\ world' \in PartialEffects(cfg, Head(todo)) \cup {Effect(cfg, Head(todo))}
<1>1. CASE UNCHANGED vars
  BY <1>1 DEF vars
<1>2. CASE Prologue
  BY <1>2 DEF Prologue, SetupFails, SetupSkips, SetupOpens, EvidenceDirFails, ArmTeardown,
              InstrumentsFail, ArmFinalizer, RejectAnchor
<1>3. CASE Body
  <2>1. CASE CliPasses \/ PhasePasses
    BY <2>1 DEF CliPasses, PhasePasses, At
  <2>2. CASE CliFails \/ CliFailureTolerated \/ CliFailureRetried \/ PhaseFails
    BY <2>2 DEF CliFails, CliFailureTolerated, CliFailureRetried, PhaseFails, StepFails, At
  <2>3. CASE MarkDeployed \/ BracketPasses \/ BracketFails \/ EvidencePasses
    BY <2>3 DEF MarkDeployed, BracketPasses, BracketFails, EvidencePasses
  <2>4. CASE EvidenceFails \/ TeardownStep \/ BodyReturns
    BY <2>4 DEF EvidenceFails, TeardownStep, BodyReturns
  <2> QED
    BY <1>3, <2>1, <2>2, <2>3, <2>4 DEF Body
<1>4. CASE Teardown
  BY <1>4 DEF Teardown, CleanupPasses, CleanupFails, CleanupReturns, InCleanup
<1>5. CASE Unwind
  BY <1>5 DEF Unwind, DeferredVenue, DeferredFinalize, DeferredSession, DeferredGuard,
              DeferredClose, Exit
<1>6. CASE Panic \/ HookFires \/ Signal \/ Kill \/ Done
  BY <1>6 DEF Panic, HookFires, Signal, Kill, Done, Dies, vars
<1> QED
  BY <1>1, <1>2, <1>3, <1>4, <1>5, <1>6 DEF Next, Runner

\* No step changes the fields of the world.
LEMMA WorldShapeStep ==
    ASSUME WorldShape, [Next]_vars
    PROVE  WorldShape'
<1>1. CASE UNCHANGED world
  BY <1>1 DEF WorldShape
<1>2. CASE StartRun
  BY <1>2 DEF StartRun, WorldShape
<1>3. CASE PrepareVenue
  BY <1>3, PreRunKeepsShape DEF PrepareVenue, WorldShape
<1>4. CASE world' \in PartialEffects(cfg, Head(todo)) \cup {Effect(cfg, Head(todo))}
  BY <1>4, EffectsKeepShape DEF WorldShape
<1> QED
  BY <1>1, <1>2, <1>3, <1>4, WorldSteps

-----------------------------------------------------------------------------
(* The theorems. *)

\* Every step preserves the inductive invariant.
LEMMA IInvStep ==
    ASSUME IInv, [Next]_vars
    PROVE  IInv'
  BY TypesInvStep, StackInvStep, HandlesInvStep, VerdictInvStep, ResultInvStep, LeaseInvStep,
     HistShapeStep DEF IInv

\* The inductive invariant holds in every state of every run.
THEOREM Invariance == Spec => []IInv
  BY InitIInv, IInvStep, PTL DEF Spec

\* The world has its fields in every state.
LEMMA WorldInvariance == Spec => []WorldShape
<1>1. Init => WorldShape
  BY DEF Init, WorldShape, WorldFields
<1> QED
  BY <1>1, WorldShapeStep, PTL DEF Spec

\* A run that unwound from its body holds nothing of its session: the session's
\* deferred teardown ran, with a result to read the disposition from.
THEOREM SessionIsReleased == Spec => []SessionReleased
<1>1. IInv => SessionReleased
  BY DEF IInv, HandlesInv, TypesInv, RetPlaces, SessionReleased, BodyUnwound, Unwound, FromBody
<1> QED
  BY <1>1, Invariance, PTL

\* Whatever ends a run that got past setup, other than SIGKILL, a verdict is on disk.
THEOREM VerdictIsOnRecord == Spec => []VerdictOnRecord
<1>1. IInv => VerdictOnRecord
  BY DEF IInv, VerdictInv, VerdictOnRecord, Ended
<1> QED
  BY <1>1, Invariance, PTL

\* The preempted holders are restored exactly when the verdict says the run passed.
THEOREM LeaseAgreesWithVerdict == Spec => []LeaseMatchesVerdict
<1>1. IInv => LeaseMatchesVerdict
  BY DEF IInv, LeaseInv, TypesInv, RetPlaces, LeaseMatchesVerdict, BodyUnwound, Unwound,
     FromBody
<1> QED
  BY <1>1, Invariance, PTL

\* The exit code on record is the first failure's, whatever failed after it.
THEOREM FirstFailureIsKept == Spec => []FirstFailureWins
<1>1. IInv => FirstFailureWins
  BY DEF IInv, LeaseInv, TypesInv, RetPlaces, FirstFailureWins, BodyUnwound, Unwound, FromBody
<1> QED
  BY <1>1, Invariance, PTL

\* The verdict is written once per run: by the guard, or by the shutdown hook.
THEOREM VerdictIsStable == Spec => VerdictStable
<1>1. IInv /\ [Next]_vars => [verdict.written /\ runs' = runs => verdict' = verdict]_vars
  <2> SUFFICES ASSUME IInv, [Next]_vars, verdict.written, runs' = runs
               PROVE  verdict' = verdict
    OBVIOUS
  <2>1. vstate = "done" /\ ~StartRun
    BY DEF IInv, VerdictInv, NoVerdict, TypesInv, StartRun
  <2>2. CASE DeferredGuard
    BY <2>1, <2>2 DEF DeferredGuard, WriteVerdictOnce
  <2>3. CASE HookFires \/ Signal
    BY <2>1, <2>3 DEF HookFires, Signal, WriteVerdictOnce
  <2>4. CASE Quiet \/ \E name, code : code \in {1, 2} /\ BodyFailure(name, code)
    BY <2>4 DEF Quiet, BodyFailure
  <2>5. CASE \/ SetupFails \/ SetupSkips \/ SetupOpens \/ EvidenceDirFails \/ ArmTeardown
             \/ InstrumentsFail \/ ArmFinalizer \/ RejectAnchor \/ PrepareVenue
    BY <2>5 DEF SetupFails, SetupSkips, SetupOpens, EvidenceDirFails, ArmTeardown,
                InstrumentsFail, ArmFinalizer, RejectAnchor, PrepareVenue
  <2>6. CASE \/ TeardownStep \/ BodyReturns
             \/ CleanupPasses \/ CleanupFails \/ CleanupReturns
    BY <2>6 DEF TeardownStep, BodyReturns, CleanupPasses, CleanupFails,
                CleanupReturns
  <2>7. CASE \/ DeferredVenue \/ DeferredFinalize \/ DeferredSession \/ DeferredClose
             \/ Exit \/ Panic \/ Kill
    BY <2>7 DEF DeferredVenue, DeferredFinalize, DeferredSession, DeferredClose, Exit,
                Panic, Kill
  <2> QED
    BY <2>1, <2>2, <2>3, <2>4, <2>5, <2>6, <2>7, StepCases
<1> QED
  BY <1>1, Invariance, PTL DEF Spec, VerdictStable

\* No target of the bed comes or goes outside the bed lock.
THEOREM TargetsAreLocked == Spec => TargetsMoveUnderLock
<1>1. IInv /\ WorldShape /\ [Next]_vars => [world'.live # world.live => "bedlock" \in held]_vars
  <2> SUFFICES ASSUME IInv, WorldShape, [Next]_vars, world'.live # world.live
               PROVE  "bedlock" \in held
    OBVIOUS
  <2>1. ~StartRun
    BY DEF StartRun, WorldShape, WorldFields
  <2>2. pc \in Opened
    BY <2>1, WorldSteps DEF PrepareVenue, Opened
  <2> QED
    BY <2>2 DEF IInv, HandlesInv, Handles
<1> QED
  BY <1>1, Invariance, WorldInvariance, PTL DEF Spec, TargetsMoveUnderLock

-----------------------------------------------------------------------------
(* What a program is made of. *)

\* The ways a step is issued.
Hows == {"cli", "phase", "bracket", "mark", "evidence", "teardown", "end"}

\* The names of the steps that are just that, for any target of the bed, and of the others.
PlainNames ==
    {"image-build", "check-image", "vm-build", "vm-build-again", "vm-create", "deploy-add",
     "deployed", "wait-ready", "config", "start", "snapshot-revert", "revert-ready",
     "bring-up-members", "feature-run", "members-down", "gate-restart-stop",
     "gate-restart-start", "gate-restart", "update", "rebuild-ready", "snapshot-stop-keeper",
     "snapshot-stop-keeper-force"}
CheckNames == {"check-live", "check-live-rebuild"}
Names ==
    PlainNames \cup CleanupSteps \cup CheckNames
        \cup {"stop", "deploy", "redeploy", "snapshot-capture", "evidence", "teardown",
              "cleanup-end"}

\* Everything a step can be about.
Places(c) == {Root} \cup ToSet(c.children) \cup ToSet(c.members) \cup Phases

\* Every step that is one of a bed's.
Steps(c) == [how : Hows, name : Names, tgt : Places(c)]

\* The landmarks of a program.
TeardownMark == Step("teardown", "teardown", Root)
EvidenceMark == Step("evidence", "evidence", Root)
EndMark == Step("end", "cleanup-end", Root)
StopMark(p) == Bracket(p, "stop")

\* The steps of the body that move the bed: none of the venue's teardown, a golden only
\* when the run captures one, a child's deployment only for a child, a check only of a ref.
Work(c) ==
    {s \in Steps(c) :
        /\ s.how \in {"cli", "phase", "bracket", "mark"}
        /\ s.name \notin CleanupSteps
        /\ s.name = "snapshot-capture" => CapturesGolden(c)
        /\ s.name \in {"deploy", "redeploy"} => s.tgt \in ToSet(c.children)
        /\ s.name \in CheckNames => s.tgt \in {Root} \cup ToSet(c.children)}

\* What comes before the venue's teardown, what follows it, and the teardown itself.
Ahead(c) == Work(c) \cup {EvidenceMark}
Behind == {StopMark("teardown")}
Cleaning(c) == {s \in Steps(c) : s.how \in {"cli", "phase"} /\ s.name \in CleanupSteps}

\* The steps after which what check-live found no longer counts.
Clearing == {"update", "gate-restart-stop", "gate-restart-start", "gate-restart",
             "snapshot-revert"}
Keeping(c) == {s \in Steps(c) : s.name \notin Clearing}

\* Work that clears nothing.
Calm(c) == {s \in Work(c) : s.name \notin Clearing}

\* The steps that take a target down, or the whole bed; work without one of them, and work
\* that checks nothing either.
Lowering ==
    {"update", "gate-restart-stop", "members-down", "snapshot-stop-keeper",
     "snapshot-stop-keeper-force"}
Gentle(c) == {s \in Work(c) : s.name \notin Lowering}
Bare(c) == {s \in Gentle(c) : s.name \notin CheckNames}

\* check-live of the ref r.
Checks(c, r) ==
    {s \in Steps(c) :
        s.how = "cli" /\ s.name \in CheckNames /\ s.tgt = r}

\* The steps that bring the root up, and those that may precede the evidence.
Raising(c) ==
    {s \in Work(c) :
        s.how = "cli" /\ s.name \in {"vm-create", "deploy-add", "snapshot-revert"}}
Unproven(c) == {s \in Steps(c) : s.how # "evidence"}

\* The steps of the teardown that remove t, and those that reclaim the state dir.
Removing(c, t) ==
    {s \in Cleaning(c) : \/ s.name = "cleanup-child" /\ s.tgt = t
                         \/ s.name = "cleanup" /\ t = Root
                         \/ s.name = "cleanup-members" /\ t \in ToSet(c.members)}
Reclaiming(c) == {s \in Cleaning(c) : s.name = "cleanup"}

\* Everything a bed can have up.
Targets(c) == {Root} \cup ToSet(c.children) \cup ToSet(c.members)

-----------------------------------------------------------------------------
(* The invariants of the venue. *)

\* What the tail of the body, and the failure tail or the deferred function, leave of it:
\* the venue is torn down, to be kept, or was never deployed.
Settled == venue.tornDown \/ KeepVenueOnSuccess(cfg) \/ ~venue.deployed
SettledFailed == venue.tornDown \/ KeepVenueOnFailure(cfg) \/ ~venue.deployed

\* The venue's owner: tornDown is set by the one teardown that starts, and by no run that
\* is to keep the venue on that path.
VenueInv ==
    /\ DOMAIN venue = {"deployed", "tornDown"}
    /\ pc \in Before => venue = NoVenue
    /\ ~venue.tornDown => hist.downs = 0 /\ caller.by = "none"
    /\ venue.tornDown => ~cfg.keep /\ (cfg.keepOnFailure => caller.by = "tail")
    /\ pc = "cleanup" => venue.tornDown
    /\ venue.tornDown => caller.by # "none"
    /\ pc # "idle" => runs > 0

\* The venue's deferred function has run, or will not.
Returned == (pc = "unwind" /\ defers < 6) \/ Ended

\* What is still to be issued: the body's work and its evidence up to the teardown, with at
\* most a bracket behind it; in the teardown its steps up to its end.
TodoInv ==
    /\ cfg \in Cfgs
    /\ todo \in Seq(Steps(cfg))
    /\ pc \notin {"body", "cleanup"} => todo = <<>>
    /\ pc = "body" =>
            \/ ~venue.tornDown /\ Split(todo, Ahead(cfg), {TeardownMark}, Behind)
            \/ Settled /\ todo \in Seq(Behind)
    /\ pc = "cleanup" => Split(todo, Cleaning(cfg), {EndMark}, Behind)
    /\ ret.at = "tail" => Settled
    /\ Returned =>
            (ret.at \in {"none", "fail"} => SettledFailed)

\* The function's error, its panic and its place of return.
ReturnInv ==
    /\ pc \in Before \cup {"body"} => ~panicking
    /\ pc = "cleanup" /\ caller.by \in {"tail", "fail"} => ~panicking
    /\ pc = "cleanup" /\ caller.by = "fail" => ret.at = "fail"
    /\ pc = "cleanup" /\ caller.by = "defer" => ret.at = "fail" \/ (ret.at = "none" /\ panicking)
    /\ ret.at \in RetPlaces \ {"none", "tail"} => ret.err
    /\ pc = "unwind" => ret.at \notin {"signal", "kill"}
    /\ pc = "unwind" /\ FromBody /\ ~panicking => ret.at \in {"fail", "tail"}
    /\ pc = "unwind" /\ ret.at = "tail" /\ defers >= 3 => (ret.err <=> ~res.ok)
    /\ pc = "unwind" /\ ret.at = "skip" =>
            defers <= 3 /\ ~panicking /\ (defers = 3 => res # NoRes /\ res.skip /\ res.ok)
    /\ pc = "unwind" /\ ret.at \in {"evidence", "instruments", "anchor"} /\ defers >= 3 =>
            res = NoRes
    /\ res # NoRes /\ res.ok => hist.failed = {}

\* The guard has recorded the outcome, or will not.
Judged == (pc = "unwind" /\ defers < 3) \/ Ended

\* What is on record before that is the hook's stopped run; after it, what was returned.
TruthInv ==
    /\ verdict.written => \/ ~verdict.result.ok /\ verdict.result.stopped
                          \/ Judged
    /\ Judged /\ verdict.written /\ ret.at \notin {"signal", "kill"} =>
        /\ verdict.result.stopped \/ (verdict.result.ok <=> ~ret.err \/ ret.at = "skip")
        /\ verdict.result.ok => hist.failed = {} /\ ~panicking

\* What is left of the bed: while the teardown runs, each target that is up still has the
\* step ahead that removes it; a teardown that came to its end left nothing.
LeftInv ==
    /\ WorldShape
    /\ world.live \subseteq Targets(cfg)
    /\ hist.cut => venue.tornDown /\ pc \notin {"body", "cleanup"}
    /\ pc = "cleanup" /\ hist.failed \cap CleanupSteps = {} =>
            /\ \A t \in world.live : Split(todo, Steps(cfg), Removing(cfg, t), Steps(cfg))
            /\ ReclaimsVmStateDir(cfg) /\ world.disk =>
                    Split(todo, Steps(cfg), Reclaiming(cfg), Steps(cfg))
    /\ ( /\ venue.tornDown /\ ~hist.cut /\ hist.failed \cap CleanupSteps = {}
         /\ pc \in {"body", "unwind"} \/ (Ended /\ FromBody) ) =>
            /\ world.live = {}
            /\ ReclaimsVmStateDir(cfg) => ~world.disk

\* The runner is on, or has come to the end of, the way of a run that passes.
OnTrack ==
    /\ hist.failed = {}
    /\ \/ pc = "body"
       \/ pc = "cleanup" /\ caller.by = "tail"
       \/ pc \in {"unwind", "idle", "dead"} /\ ret.at = "tail"

\* The runs whose last check-live is after the update gate.
Rechecked(c) ==
    c.runRuntime /\ (InPlace(c) => UpdateGateFor(c) = "skip" \/ c.members # <<>>)

\* A ref's last check-live is ahead with nothing that clears behind it, or it is done and
\* nothing that clears is ahead.
CheckedInv ==
    OnTrack /\ Rechecked(cfg) =>
        \A r \in ToSet(CheckLiveRefs(cfg)) :
            \/ Split(todo, Steps(cfg), Checks(cfg, r), Keeping(cfg))
            \/ r \in world.checked /\ todo \in Seq(Keeping(cfg))

\* The captures that end before the venue's teardown.
EarlyCaptures(c) == {i \in Instruments : c.phases[i] \cap {"build", "live"} # {}}

\* The pipelines have run over them, or the evidence is ahead, and before it whatever still
\* has to bring the root up or close a phase.
PipesInv ==
    /\ DOMAIN inst = {"open", "rows", "piped", "late", "pipesDone"}
    /\ pc \in Before => inst = NoInst
    /\ OnTrack =>
        /\ inst.late = {}
        /\ \/ inst.pipesDone /\ EarlyCaptures(cfg) \subseteq inst.piped
           \/ /\ pc = "body" /\ ~inst.pipesDone
              /\ Split(todo, Unproven(cfg), {EvidenceMark}, Unproven(cfg))
              /\ Root \in world.live \/ Split(todo, Unproven(cfg), Raising(cfg), Steps(cfg))
              /\ \A p \in {"build", "live"} :
                    \/ InPhase(p) \subseteq inst.rows
                    \/ Split(todo, Unproven(cfg), {StopMark(p)}, Steps(cfg))

\* Only a VM bed that captures on finalize has a golden.
GoldenInv == world.golden => cfg.kind = "vm" /\ cfg.onFinalize

\* The root's overlay entry is there as long as the venue is not being torn down.
SeededInv ==
    pc = "body" /\ ~venue.tornDown /\ Root \in Persisted(cfg) => Root \in world.seeded

-----------------------------------------------------------------------------
(* The steps of the system, seen from the venue: what they do to the program,*)
(* the venue's owner, the instruments and the host.                          *)

\* The prologue, up to the cleanup before the body.
Arming ==
    /\ pc \in Before
    /\ todo' \in {todo, <<>>}
    /\ \/ pc' \in Before /\ UNCHANGED ret
       \/ pc' = "unwind" /\ ret'.at \in {"setup", "skip", "evidence", "instruments", "anchor"}
    /\ UNCHANGED <<cfg, caller, venue, inst, world, hist, runs>>

\* A step of the body passes.
Passing ==
    /\ pc = "body" /\ todo # <<>>
    /\ todo' = Tail(todo)
    /\ UNCHANGED <<cfg, pc, caller, defers, ret, hist, runs>>
    /\ \/ /\ Head(todo).how \in {"cli", "phase"}
          /\ Head(todo).how = "cli" => CanPass(Head(todo))
          /\ world' = Effect(cfg, Head(todo))
          /\ UNCHANGED <<venue, inst>>
       \/ /\ Head(todo).how = "mark"
          /\ venue' = [venue EXCEPT !.deployed = TRUE]
          /\ UNCHANGED <<world, inst>>
       \/ /\ Head(todo).how = "bracket"
          /\ inst' = BracketEffect(Head(todo).tgt, Head(todo).name, InPhase(Head(todo).tgt))
          /\ UNCHANGED <<venue, world>>
       \/ /\ Head(todo).how = "evidence"
          /\ inst' = EvidenceEffect(inst, inst.rows)
          /\ UNCHANGED <<venue, world>>

\* A subcommand of the body fails and the body goes on.
Stumbling ==
    /\ pc = "body" /\ todo # <<>> /\ Head(todo).how = "cli"
    /\ \/ todo' = Tail(todo) /\ Tolerated(Head(todo))
       \/ Retry(Head(todo)) # <<>> /\ todo' = Retry(Head(todo)) \o Tail(todo)
    /\ world' \in PartialEffects(cfg, Head(todo))
    /\ hist' = Noted(Head(todo).name, 1)
    /\ UNCHANGED <<cfg, pc, caller, defers, ret, venue, inst, runs>>

\* A step of the body fails and the body leaves by the failure tail.
Breaking ==
    /\ pc = "body" /\ todo # <<>>
    /\ FailTail
    /\ \/ UNCHANGED world
       \/ Head(todo).how \in {"cli", "phase"} /\ world' \in PartialEffects(cfg, Head(todo))
    /\ \E name, code : hist' = Noted(name, code)
    /\ \/ UNCHANGED inst
       \/ \E p, edge, done : inst' = BracketEffect(p, edge, done)
       \/ \E done : inst' = EvidenceEffect(inst, done)
    /\ UNCHANGED <<cfg, defers, runs>>

\* A deferred function other than the venue's, and the end of the stack.
Unwinding ==
    /\ pc = "unwind" /\ pc' \in {"unwind", "idle", "dead"}
    /\ defers < 6 /\ defers' < 6
    /\ \/ UNCHANGED inst
       \/ \E done \in SUBSET inst.rows : inst' = EvidenceEffect(StopLive(inst), done)
    /\ UNCHANGED <<cfg, todo, caller, ret, venue, world, hist, runs>>

\* Nothing unwinds.
Ending ==
    /\ pc \notin {"idle", "dead"} /\ pc' = "dead"
    /\ todo' = <<>>
    /\ ret'.at \in {"signal", "kill"}
    /\ UNCHANGED <<cfg, caller, venue, inst, world, hist, runs>>

Resting == UNCHANGED <<cfg, ctl, venue, inst, world, hist, runs>>

\* Every step is one of these, or one of the named ones below.
LEMMA VenueSteps ==
    ASSUME IInv, [Next]_vars
    PROVE  \/ StartRun \/ Arming \/ PrepareVenue
           \/ Passing \/ Stumbling \/ Breaking \/ TeardownStep \/ BodyReturns
           \/ CleanupPasses \/ CleanupFails \/ CleanupReturns
           \/ DeferredVenue \/ Unwinding \/ Panic \/ Ending \/ Resting
<1>1. CASE Prologue
  <2>1. CASE SetupFails \/ SetupSkips \/ SetupOpens
    BY <2>1 DEF SetupFails, SetupSkips, SetupOpens, BeginVerdict, Return, Arming, Before
  <2>2. CASE EvidenceDirFails \/ ArmTeardown \/ InstrumentsFail
    BY <2>2 DEF EvidenceDirFails, ArmTeardown, InstrumentsFail, Return, Arming, Before
  <2>3. CASE ArmFinalizer \/ RejectAnchor
    BY <2>3 DEF ArmFinalizer, RejectAnchor, Return, Arming, Before
  <2>4. QED BY <1>1, <2>1, <2>2, <2>3 DEF Prologue
<1>2. CASE Body
  <2>1. CASE CliPasses \/ PhasePasses
    BY <2>1 DEF CliPasses, PhasePasses, At, Continue, Passing
  <2>2. CASE MarkDeployed
    BY <2>2 DEF MarkDeployed, At, Passing
  <2>3. CASE BracketPasses \/ EvidencePasses
    BY <2>3 DEF BracketPasses, EvidencePasses, At, Continue, Passing
  <2>4. CASE CliFailureTolerated \/ CliFailureRetried
    BY <2>4
       DEF CliFailureTolerated, CliFailureRetried, StepFails, Record, At, Continue, Stumbling
  <2>5. CASE CliFails \/ PhaseFails
    BY <2>5 DEF CliFails, PhaseFails, StepFails, Record, At, Breaking
  <2>6. CASE BracketFails \/ EvidenceFails
    BY <2>6 DEF BracketFails, EvidenceFails, Record, At, Breaking
  <2>7. QED BY <1>2, <2>1, <2>2, <2>3, <2>4, <2>5, <2>6 DEF Body
<1>3. CASE Unwind
  <2>1. CASE DeferredFinalize
    BY <2>1 DEF DeferredFinalize, Popping, DeferOrder, Unwinding, IInv, StackInv
  <2>2. CASE DeferredSession
    BY <2>2 DEF DeferredSession, Popping, DeferOrder, Unwinding, IInv, StackInv
  <2>3. CASE DeferredGuard \/ DeferredClose
    BY <2>3 DEF DeferredGuard, DeferredClose, Popping, DeferOrder, Unwinding, IInv, StackInv
  <2>4. CASE Exit
    BY <2>4 DEF Exit, Unwinding
  <2>5. QED BY <1>3, <2>1, <2>2, <2>3, <2>4 DEF Unwind
<1>4. CASE Signal \/ Kill
  BY <1>4 DEF Signal, Kill, Dies, Ending
<1>5. CASE HookFires \/ Done \/ UNCHANGED vars
  BY <1>5 DEF HookFires, Done, vars, Resting
<1>6. QED BY <1>1, <1>2, <1>3, <1>4, <1>5 DEF Next, Runner, Teardown

-----------------------------------------------------------------------------
(* The venue's owner. *)

\* At the start no venue is there to tear down.
LEMMA VenueInvInit == Init => VenueInv
  BY DEF Init, VenueInv, NoVenue, NoHist, NoCaller, Before

\* Only a teardown's start sets tornDown, and no start takes a venue that is kept.
LEMMA VenueInvStep ==
    ASSUME IInv, VenueInv, [Next]_vars
    PROVE  VenueInv'
<1> USE DEF VenueInv, IInv, TypesInv, StackInv, Before, HistShape
<1>1. CASE StartRun
  BY <1>1 DEF StartRun, NoVenue, NoHist, NoCaller
<1>2. CASE Arming \/ PrepareVenue
  BY <1>2 DEF Arming, PrepareVenue
<1>3. CASE Passing \/ Stumbling
  BY <1>3 DEF Passing, Stumbling, Noted
<1>4. CASE Breaking
  BY <1>4 DEF Breaking, FailTail, TearsDown, StartCleanup, Noted, KeepVenueOnFailure,
              KeepVenueOnSuccess
<1>5. CASE TeardownStep
  BY <1>5 DEF TeardownStep, At, TearsDown, StartCleanup, Continue, KeepVenueOnSuccess
<1>6. CASE BodyReturns
  BY <1>6 DEF BodyReturns, Return
<1>7. CASE CleanupPasses \/ CleanupFails
  BY <1>7, TypesInvStep DEF CleanupPasses, CleanupFails, InCleanup, CountDown, Noted, TypesInv
<1>8. CASE CleanupReturns
  BY <1>8 DEF CleanupReturns
<1>9. CASE DeferredVenue
  BY <1>9
     DEF DeferredVenue, Popping, TearsDown, StartCleanup, KeepVenueOnFailure, KeepVenueOnSuccess
<1>10. CASE Unwinding \/ Ending \/ Resting
  BY <1>10 DEF Unwinding, Ending, Resting, ctl
<1>11. CASE Panic
  BY <1>11 DEF Panic
<1>12. QED BY <1>1, <1>2, <1>3, <1>4, <1>5, <1>6, <1>7, <1>8, <1>9, <1>10, <1>11, VenueSteps

\* Kept venues stay: no deferred function destroys what --keep or keep_on_failure retains.
THEOREM RetentionIsHonoured == Spec => []RetentionHonoured
<1>1. IInv /\ VenueInv /\ [Next]_vars => VenueInv'
  BY VenueInvStep
<1>2. VenueInv => RetentionHonoured
  BY DEF VenueInv, RetentionHonoured
<1> QED
  BY <1>1, <1>2, VenueInvInit, Invariance, PTL DEF Spec

-----------------------------------------------------------------------------
(* The function's error, its panic, and the verdict on record. *)

\* At the start nothing has returned and nothing is on record.
LEMMA ReturnInvInit == Init => ReturnInv /\ TruthInv
  BY DEF Init, ReturnInv, TruthInv, NoRet, NoRes, NoVerdict, NoHist, Before, FromBody, Judged,
     Ended

\* Each step returns, panics and records in that order.
LEMMA ReturnInvStep ==
    ASSUME IInv, VenueInv, TodoInv, ReturnInv, [Next]_vars
    PROVE  ReturnInv'
<1> USE DEF IInv, VenueInv, TypesInv, StackInv, HandlesInv, ResultInv, HistShape, ReturnInv,
        FromBody, Before,
            Opened
<1>1. CASE Quiet
  BY <1>1 DEF Quiet
<1>2. CASE StartRun
  BY <1>2 DEF StartRun, NoRet
<1>3. CASE SetupFails
  BY <1>3 DEF SetupFails, Return
<1>4. CASE SetupSkips
  BY <1>4 DEF SetupSkips, BeginVerdict, Return, FreshRes, NoRes, NoHist
<1>5. CASE SetupOpens
  BY <1>5 DEF SetupOpens, BeginVerdict, NoHist
<1>6. CASE EvidenceDirFails
  BY <1>6 DEF EvidenceDirFails, Return
<1>7. CASE ArmTeardown
  BY <1>7 DEF ArmTeardown
<1>8. CASE InstrumentsFail
  BY <1>8 DEF InstrumentsFail, Return
<1>9. CASE ArmFinalizer
  BY <1>9 DEF ArmFinalizer
<1>10. CASE RejectAnchor
  BY <1>10 DEF RejectAnchor, Return
<1>11. CASE PrepareVenue
  BY <1>11 DEF PrepareVenue
<1>12. CASE HookFires
  BY <1>12 DEF HookFires, ctl
<1>13. ASSUME NEW name, NEW code \in {1, 2}, BodyFailure(name, code)
      PROVE  ReturnInv'
  BY <1>13, PoisonedResults, ResultsNotNil DEF BodyFailure, Record
<1>14. CASE TeardownStep
  BY <1>14 DEF TeardownStep, At, StartCleanup, Continue, NoRet
<1>15. CASE BodyReturns
  BY <1>15 DEF BodyReturns, Return
<1>16. CASE CleanupPasses
  BY <1>16 DEF CleanupPasses, InCleanup, CountDown
<1>17. CASE CleanupFails
  BY <1>17, PoisonedResults, ResultsNotNil DEF CleanupFails, InCleanup
<1>18. CASE CleanupReturns
  BY <1>18 DEF CleanupReturns, Callers
<1>19. CASE DeferredVenue
  <2>1. ret.at = "tail" => ~TearsDown(KeepVenueOnFailure(cfg))
    BY DEF TodoInv, Settled, TearsDown, KeepVenueOnFailure
  <2>2. QED
    BY <1>19, <2>1 DEF DeferredVenue, Popping, DeferOrder, StartCleanup
<1>20. CASE DeferredFinalize
  BY <1>20 DEF DeferredFinalize, Popping, DeferOrder
<1>21. CASE DeferredSession
  BY <1>21 DEF DeferredSession, Popping, DeferOrder, Disposition
<1>22. CASE DeferredGuard
  BY <1>22, FinalResults
     DEF DeferredGuard, Popping, DeferOrder, WriteVerdictOnce, FinalResult, FreshRes, Results
<1>23. CASE DeferredClose
  BY <1>23 DEF DeferredClose, Popping, DeferOrder
<1>24. CASE Exit
  BY <1>24 DEF Exit, Locks
<1>25. CASE Panic
  BY <1>25 DEF Panic, NoRet, Callers
<1>26. CASE Signal
  BY <1>26 DEF Signal, Dies
<1>27. CASE Kill
  BY <1>27 DEF Kill, Dies
<1> QED
  BY <1>1, <1>2, <1>3, <1>4, <1>5, <1>6, <1>7, <1>8, <1>9, <1>10, <1>11, <1>12, <1>13, <1>14,
     <1>15, <1>16, <1>17, <1>18, <1>19, <1>20, <1>21, <1>22, <1>23, <1>24, <1>25, <1>26,
     <1>27, StepCases

\* The guard, or the hook before it, records what the function returns.
LEMMA TruthInvStep ==
    ASSUME IInv, VenueInv, ReturnInv, TruthInv, [Next]_vars
    PROVE  TruthInv'
<1> USE DEF IInv, VenueInv, TypesInv, StackInv, VerdictInv, Hooked, ResultInv, HistShape,
        ReturnInv, TruthInv, FromBody, Before,
            Opened, Judged, Ended
<1>1. CASE Quiet
  BY <1>1 DEF Quiet
<1>2. CASE StartRun
  BY <1>2 DEF StartRun, NoVerdict
<1>3. CASE SetupFails
  BY <1>3 DEF SetupFails, Return
<1>4. CASE SetupSkips
  BY <1>4 DEF SetupSkips, BeginVerdict, Return
<1>5. CASE SetupOpens
  BY <1>5 DEF SetupOpens, BeginVerdict
<1>6. CASE EvidenceDirFails
  BY <1>6 DEF EvidenceDirFails, Return
<1>7. CASE ArmTeardown
  BY <1>7 DEF ArmTeardown
<1>8. CASE InstrumentsFail
  BY <1>8 DEF InstrumentsFail, Return
<1>9. CASE ArmFinalizer
  BY <1>9 DEF ArmFinalizer
<1>10. CASE RejectAnchor
  BY <1>10 DEF RejectAnchor, Return
<1>11. CASE PrepareVenue
  BY <1>11 DEF PrepareVenue
<1>12. CASE HookFires
  BY <1>12, FreshResults DEF HookFires, ctl, WriteVerdictOnce, NoVerdict, FreshRes
<1>13. ASSUME NEW name, NEW code \in {1, 2}, BodyFailure(name, code)
      PROVE  TruthInv'
  BY <1>13 DEF BodyFailure
<1>14. CASE TeardownStep
  BY <1>14 DEF TeardownStep, At, StartCleanup, Continue
<1>15. CASE BodyReturns
  BY <1>15 DEF BodyReturns, Return
<1>16. CASE CleanupPasses
  BY <1>16 DEF CleanupPasses, InCleanup
<1>17. CASE CleanupFails
  BY <1>17 DEF CleanupFails, InCleanup
<1>18. CASE CleanupReturns
  BY <1>18 DEF CleanupReturns
<1>19. CASE DeferredVenue
  BY <1>19 DEF DeferredVenue, Popping, DeferOrder, StartCleanup
<1>20. CASE DeferredFinalize
  BY <1>20 DEF DeferredFinalize, Popping, DeferOrder
<1>21. CASE DeferredSession
  BY <1>21 DEF DeferredSession, Popping, DeferOrder
<1>22. CASE DeferredGuard
  <2>1. pc = "unwind" /\ defers = 3 /\ pc' = "unwind" /\ defers' = 2
            /\ UNCHANGED <<ret, panicking, hist>>
    BY <1>22 DEF DeferredGuard, Popping, DeferOrder
  <2>2. CASE vstate # "open"
    <3>1. verdict' = verdict
      BY <1>22, <2>2 DEF DeferredGuard, WriteVerdictOnce
    <3>2. verdict.written => ~verdict.result.ok /\ verdict.result.stopped
      BY <2>1
    <3>3. QED BY <2>1, <3>1, <3>2
  <2>3. CASE vstate = "open"
    <3>1. verdict' = [written |-> TRUE, result |-> FinalResult]
      BY <1>22, <2>3 DEF DeferredGuard, WriteVerdictOnce
    <3>2. panicking => ~FinalResult.ok /\ FinalResult.stopped
      BY <2>1, FinalResults DEF FinalResult, FreshRes, Results
    <3>3. ~panicking /\ FinalResult.ok => res # NoRes /\ res.ok
      BY <2>1 DEF FinalResult, FreshRes, Results
    <3>4. ~panicking /\ ret.at = "skip" => FinalResult.ok
      BY <2>1 DEF FinalResult, FreshRes, Results
    <3>5. ~panicking /\ ret.err /\ ret.at # "skip" => ~FinalResult.ok
      BY <2>1 DEF FinalResult, FreshRes, Results, RetPlaces, LeaseInv
    <3>6. ~panicking /\ ~ret.err => FinalResult.ok
      BY <2>1 DEF FinalResult, FreshRes, Results, RetPlaces, LeaseInv
    <3>7. QED BY <2>1, <3>1, <3>2, <3>3, <3>4, <3>5, <3>6
  <2>4. QED BY <2>2, <2>3
<1>23. CASE DeferredClose
  BY <1>23 DEF DeferredClose, Popping, DeferOrder
<1>24. CASE Exit
  BY <1>24 DEF Exit, Locks
<1>25. CASE Panic
  BY <1>25 DEF Panic
<1>26. CASE Signal
  BY <1>26 DEF Signal, Dies
<1>27. CASE Kill
  BY <1>27 DEF Kill, Dies
<1> QED
  BY <1>1, <1>2, <1>3, <1>4, <1>5, <1>6, <1>7, <1>8, <1>9, <1>10, <1>11, <1>12, <1>13, <1>14,
     <1>15, <1>16, <1>17, <1>18, <1>19, <1>20, <1>21, <1>22, <1>23, <1>24, <1>25, <1>26,
     <1>27, StepCases

-----------------------------------------------------------------------------
(* The programs. *)

\* What When and ForEach make of sequences.
LEMMA WhenSeq ==
    ASSUME NEW S, NEW b, NEW x, b => x \in Seq(S)
    PROVE  When(b, x) \in Seq(S)
  BY DEF When

\* The loop's subcommand for the i-th key.
LEMMA ForEachItems ==
    ASSUME NEW K, NEW keys \in Seq(K), NEW name, NEW i \in 1..Len(keys)
    PROVE  ForEach(keys, name)[i] = Cli(name, keys[i])
  BY DEF ForEach

\* The loop issues as many subcommands as there are keys, each one for a key.
LEMMA ForEachSeq ==
    ASSUME NEW K, NEW keys \in Seq(K), NEW S, NEW name, \A k \in K : Cli(name, k) \in S
    PROVE  /\ ForEach(keys, name) \in Seq(S)
           /\ Len(ForEach(keys, name)) = Len(keys)
<1>1. Len(keys) \in Nat /\ DOMAIN keys = 1..Len(keys) /\ \A i \in 1..Len(keys) : keys[i] \in K
  OBVIOUS
<1>2. ForEach(keys, name) \in [1..Len(keys) -> S]
  BY <1>1 DEF ForEach
<1>3. ForEach(keys, name) \in Seq(S)
  BY <1>1, <1>2, SeqDef
<1>4. Len(ForEach(keys, name)) = Len(keys)
  BY <1>1, <1>2, <1>3, LenProperties
<1>5. QED BY <1>3, <1>4

\* The plain steps of the body, about any target of the bed.
LEMMA PlainWork ==
    ASSUME NEW c, NEW name \in PlainNames, NEW t \in Places(c)
    PROVE  Cli(name, t) \in Work(c) /\ Phase(name) \in Work(c)
               /\ Step("mark", name, t) \in Work(c)
  BY DEF PlainNames, Names, CheckNames, CleanupSteps, Cli, Phase, Step, Work, Steps, Hows,
     Places

\* Those that replace or restart nothing leave what was checked alone.
LEMMA CalmWork ==
    ASSUME NEW c, NEW name \in PlainNames \ Clearing, NEW t \in Places(c)
    PROVE  Cli(name, t) \in Calm(c) /\ Phase(name) \in Calm(c)
  BY PlainWork DEF Calm, Cli, Phase, Step

\* Those that lower nothing check nothing either.
LEMMA BareWork ==
    ASSUME NEW c, NEW name \in PlainNames \ Lowering, NEW t \in Places(c)
    PROVE  Cli(name, t) \in Bare(c) /\ Phase(name) \in Bare(c)
               /\ Step("mark", name, t) \in Bare(c)
<1>1. name \notin CheckNames
  BY DEF PlainNames, CheckNames
<1>2. QED BY <1>1, PlainWork DEF Gentle, Bare, Cli, Phase, Step

\* The brackets of the instruments are steps of the body that clear and lower nothing.
LEMMA BracketWork ==
    ASSUME NEW c, NEW p \in Phases, NEW edge \in {"start", "stop"}
    PROVE  Bracket(p, edge) \in Work(c) /\ Bracket(p, edge) \in Calm(c)
               /\ Bracket(p, edge) \in Bare(c)
  BY DEF Calm, Clearing, Bracket, Step, Work, Steps, Hows, Places, CleanupSteps, Names,
     CheckNames, PlainNames, Lowering, Gentle, Bare

\* A child is deployed, or deployed again, without clearing or lowering anything.
LEMMA DeployWork ==
    ASSUME NEW c, NEW name \in {"deploy", "redeploy"}, NEW t \in ToSet(c.children)
    PROVE  Cli(name, t) \in Work(c) /\ Cli(name, t) \in Calm(c) /\ Cli(name, t) \in Bare(c)
  BY DEF Calm, Clearing, Cli, Step, Work, Steps, Hows, Places, CleanupSteps, Names,
     CheckNames, PlainNames, Lowering, Gentle, Bare

\* A ref is checked without clearing or lowering anything.
LEMMA CheckWork ==
    ASSUME NEW c, NEW name \in CheckNames, NEW t \in {Root} \cup ToSet(c.children)
    PROVE  Cli(name, t) \in Work(c) /\ Cli(name, t) \in Calm(c) /\ Cli(name, t) \in Gentle(c)
  BY DEF Calm, Clearing, Cli, Step, Work, Steps, Hows, Places, CleanupSteps, Names,
     CheckNames, PlainNames, Lowering, Gentle

\* Bare work is gentle, and gentle work is work.
LEMMA BareIsWork ==
    ASSUME NEW c
    PROVE  /\ Bare(c) \subseteq Gentle(c) /\ Gentle(c) \subseteq Work(c)
           /\ \A s \in Seq(Bare(c)) : s \in Seq(Gentle(c)) /\ s \in Seq(Work(c))
           /\ \A s \in Seq(Gentle(c)) : s \in Seq(Work(c))
<1>1. Bare(c) \subseteq Gentle(c) /\ Gentle(c) \subseteq Work(c) /\ Bare(c) \subseteq Work(c)
  BY DEF Bare, Gentle
<1>2. QED BY <1>1, SeqMonotonic

\* The keys of a bed's configuration.
LEMMA CfgKeys ==
    ASSUME NEW c \in Cfgs
    PROVE  /\ c.children \in Seq(ToSet(c.children))
           /\ c.localChildren \in Seq(ToSet(c.children))
           /\ c.members \in Seq(ToSet(c.members))
           /\ CheckLiveRefs(c) \in Seq({Root} \cup ToSet(c.children))
           /\ RedeployKeys(c) \in Seq(ToSet(c.children))
           /\ ToSet(c.children) \subseteq Places(c) /\ ToSet(c.members) \subseteq Places(c)
           /\ Root \in Places(c) /\ Phases \subseteq Places(c)
<1>1. c.children \in Seq(ToSet(c.children)) /\ c.members \in Seq(ToSet(c.members))
  BY CfgsAssumption
<1>2. c.localChildren \in Seq(ToSet(c.localChildren))
          /\ ToSet(c.localChildren) \subseteq ToSet(c.children)
  BY CfgsAssumption
<1>3. c.localChildren \in Seq(ToSet(c.children))
  BY <1>2, SeqMonotonic
<1>4. c.children \in Seq({Root} \cup ToSet(c.children))
  BY <1>1, SeqMonotonic
<1>5. CheckLiveRefs(c) \in Seq({Root} \cup ToSet(c.children))
  BY <1>4 DEF CheckLiveRefs
<1>6. QED BY <1>1, <1>3, <1>5 DEF RedeployKeys, Places

\* The build: the members' images and VMs, then the root's image.
LEMMA BuildWork ==
    ASSUME NEW c \in Cfgs
    PROVE  /\ Each(c.members, LAMBDA m : MemberBuild(c, m)) \in Seq(Bare(c))
           /\ ImageSteps(c, Root) \in Seq(Bare(c))
           /\ BuildPart(c) \in Seq(Bare(c))
           /\ Each(c.members, LAMBDA m : MemberBuild(c, m)) \in Seq(Work(c))
           /\ ImageSteps(c, Root) \in Seq(Work(c))
           /\ BuildPart(c) \in Seq(Work(c))
<1>1. \A t \in Places(c) : ImageSteps(c, t) \in Seq(Bare(c))
  <2>1. {"image-build", "check-image"} \subseteq PlainNames \ Lowering
    BY DEF PlainNames, Lowering
  <2>2. ASSUME NEW t \in Places(c)
        PROVE  ImageSteps(c, t) \in Seq(Bare(c))
    <3>1. Cli("image-build", t) \in Bare(c) /\ Cli("check-image", t) \in Bare(c)
      BY <2>1, BareWork
    <3>2. QED BY <3>1 DEF ImageSteps, When
  <2>3. QED BY <2>2
<1>2. \A t \in Places(c) : MemberBuild(c, t) \in Seq(Bare(c))
  <2>1. ASSUME NEW t \in Places(c)
        PROVE  Cli("vm-build", t) \in Bare(c)
    <3>1. "vm-build" \in PlainNames \ Lowering
      BY DEF PlainNames, Lowering
    <3>2. QED BY <3>1, BareWork
  <2>2. QED BY <1>1, <2>1 DEF MemberBuild, When
<1>3. Each(c.members, LAMBDA m : MemberBuild(c, m)) \in Seq(Bare(c))
  <2> DEFINE parts == [i \in DOMAIN c.members |-> MemberBuild(c, c.members[i])]
  <2>1. parts \in [1..Len(c.members) -> Seq(Bare(c))]
    <3>1. DOMAIN c.members = 1..Len(c.members)
              /\ \A i \in 1..Len(c.members) : c.members[i] \in Places(c)
      <4>1. c.members \in Seq(Places(c))
        BY CfgKeys, SeqMonotonic
      <4>2. QED BY <4>1
    <3>2. QED BY <1>2, <3>1
  <2>2. Len(c.members) \in Nat
    BY CfgKeys
  <2>3. parts \in Seq(Seq(Bare(c)))
    BY <2>1, <2>2, SeqDef
  <2>4. FlattenSeq(parts) \in Seq(Bare(c))
    BY <2>3, FlattenTypes
  <2>5. QED BY <2>4 DEF Each
<1>4. Bracket("build", "start") \in Bare(c) /\ Bracket("build", "stop") \in Bare(c)
  BY BracketWork DEF Phases
<1>5. ImageSteps(c, Root) \in Seq(Bare(c))
  BY <1>1, CfgKeys
<1>6. When(BuildsImage(c), ImageSteps(c, Root)) \in Seq(Bare(c))
  BY <1>5, WhenSeq
<1>7. BuildPart(c) \in Seq(Bare(c))
  BY <1>3, <1>4, <1>6 DEF BuildPart
<1>8. QED BY <1>3, <1>5, <1>7, BareIsWork

\* The bring-up and the revert to an anchor.
LEMMA BringUpWork ==
    ASSUME NEW c \in Cfgs
    PROVE  /\ BringUpPart(c) \in Seq(Bare(c)) /\ RevertPart(c) \in Seq(Bare(c))
           /\ BringUpPart(c) \in Seq(Work(c)) /\ RevertPart(c) \in Seq(Work(c))
<1>1. \A keys \in {c.children, c.localChildren} : ForEach(keys, "deploy") \in Seq(Bare(c))
  BY CfgKeys, DeployWork, ForEachSeq
<1>2. \A name \in {"vm-build", "vm-create", "deploy-add", "config", "start", "snapshot-revert"} :
          Cli(name, Root) \in Bare(c)
  <2>1. {"vm-build", "vm-create", "deploy-add", "config", "start",
            "snapshot-revert"} \subseteq PlainNames \ Lowering
    BY DEF PlainNames, Lowering
  <2>2. QED BY <2>1, BareWork, CfgKeys
<1>3. Step("mark", "deployed", Root) \in Bare(c) /\ Phase("wait-ready") \in Bare(c)
      /\ Phase("revert-ready") \in Bare(c)
  <2>1. {"deployed", "wait-ready", "revert-ready"} \subseteq PlainNames \ Lowering
    BY DEF PlainNames, Lowering
  <2>2. QED BY <2>1, BareWork, CfgKeys
<1>4. <<Phase("wait-ready"), Cli("deploy-add", Root)>>
          \o ForEach(c.localChildren, "deploy") \in Seq(Bare(c))
  BY <1>1, <1>2, <1>3
<1>5. <<Cli("config", Root), Cli("start", Root), Phase("wait-ready")>>
          \o ForEach(c.children, "deploy") \in Seq(Bare(c))
  BY <1>1, <1>2, <1>3
<1>6. <<Cli("deploy-add", Root), Step("mark", "deployed", Root), Phase("wait-ready")>>
          \o ForEach(c.children, "deploy") \in Seq(Bare(c))
  BY <1>1, <1>2, <1>3
<1>7. BringUpPart(c) \in Seq(Bare(c))
  <2>1. CASE c.kind = "vm"
    <3>1. When(~c.anchor, <<Cli("vm-create", Root)>>) \in Seq(Bare(c))
      BY <1>2 DEF When
    <3>2. When(~c.anchor, <<Phase("wait-ready"), Cli("deploy-add", Root)>>
                            \o ForEach(c.localChildren, "deploy")) \in Seq(Bare(c))
      BY <1>4, WhenSeq
    <3>3. QED BY <1>2, <1>3, <2>1, <3>1, <3>2 DEF BringUpPart
  <2>2. CASE c.kind = "kubevirt"
    BY <1>6, <2>2 DEF BringUpPart
  <2>3. CASE c.kind \notin {"vm", "kubevirt"}
    <3>1. When(~InPlace(c), <<Cli("config", Root), Cli("start", Root), Phase("wait-ready")>>
                            \o ForEach(c.children, "deploy")) \in Seq(Bare(c))
      BY <1>5, WhenSeq
    <3>2. QED BY <1>2, <1>3, <2>3, <3>1 DEF BringUpPart
  <2>4. QED BY <2>1, <2>2, <2>3
<1>8. RevertPart(c) \in Seq(Bare(c))
  BY <1>2, <1>3 DEF RevertPart, When
<1>9. QED BY <1>7, <1>8, BareIsWork

\* The live phase clears nothing.
LEMMA LiveWork ==
    ASSUME NEW c \in Cfgs
    PROVE  /\ \A name \in {"check-live", "check-live-rebuild"} :
                  CheckLiveTree(c, name) \in Seq(Calm(c))
           /\ When(HasFeatureRun(c), <<Cli("feature-run", Root)>>) \in Seq(Calm(c))
           /\ Phase("bring-up-members") \in Calm(c)
           /\ Bracket("live", "start") \in Calm(c) /\ Bracket("live", "stop") \in Calm(c)
           /\ LivePart(c) \in Seq(Calm(c)) /\ LivePart(c) \in Seq(Work(c))
<1>1. \A name \in {"check-live", "check-live-rebuild"} : CheckLiveTree(c, name) \in Seq(Calm(c))
  <2>1. ASSUME NEW name \in {"check-live", "check-live-rebuild"}
        PROVE  CheckLiveTree(c, name) \in Seq(Calm(c))
    <3>1. \A t \in {Root} \cup ToSet(c.children) : Cli(name, t) \in Calm(c)
      BY CheckWork DEF CheckNames
    <3>2. QED BY <3>1, CfgKeys, ForEachSeq DEF CheckLiveTree
  <2>2. QED BY <2>1
<1>2. <<Cli("feature-run", Root)>> \in Seq(Calm(c))
  <2>1. Cli("feature-run", Root) \in Calm(c)
    BY CalmWork, CfgKeys DEF PlainNames, Clearing
  <2>2. QED BY <2>1
<1>3. When(HasFeatureRun(c), <<Cli("feature-run", Root)>>) \in Seq(Calm(c))
  BY <1>2 DEF When
<1>4. Phase("bring-up-members") \in Calm(c)
  BY CalmWork, CfgKeys DEF PlainNames, Clearing
<1>5. Bracket("live", "start") \in Calm(c) /\ Bracket("live", "stop") \in Calm(c)
  BY BracketWork DEF Phases
<1>6. <<Phase("bring-up-members")>> \o CheckLiveTree(c, "check-live")
         \o When(HasFeatureRun(c), <<Cli("feature-run", Root)>>) \in Seq(Calm(c))
  BY <1>1, <1>3, <1>4
<1>7. LivePart(c) \in Seq(Calm(c))
  BY <1>5, <1>6 DEF LivePart, When
<1>8. LivePart(c) \in Seq(Work(c))
  BY <1>7, SeqMonotonic DEF Calm
<1>9. QED BY <1>1, <1>3, <1>4, <1>5, <1>7, <1>8

\* The parts of the update gate.
MembersBuild(c) ==
    When(UpdateGateFor(c) = "full",
         Each(c.members, LAMBDA m : When(m \in ImageMember, <<Cli("image-build", m)>>)))
MembersDown(c) == When(c.members # <<>>, <<Phase("members-down")>>)
MembersAgain(c) ==
    When(c.runRuntime /\ c.members # <<>>,
         <<Phase("bring-up-members")>>
             \o When(InPlace(c), CheckLiveTree(c, "check-live-rebuild")))
FeatureAgain(c) ==
    When(c.runRuntime /\ HasFeatureRun(c), <<Phase("wait-ready"), Cli("feature-run", Root)>>)

GateBody(c) ==
    <<Bracket("update", "start")>> \o MembersBuild(c) \o MembersDown(c)
        \o UpdateGateSteps(c) \o MembersAgain(c) \o VenueRecheck(c)
        \o FeatureAgain(c) \o <<Bracket("update", "stop")>>

\* The update gate is skipped or it is all of its parts.
LEMMA RebuildParts ==
    ASSUME NEW c
    PROVE  /\ UpdateGateFor(c) # "skip" /\ ~c.anchor => RebuildPart(c) = GateBody(c)
           /\ UpdateGateFor(c) = "skip" \/ c.anchor => RebuildPart(c) = <<>>
  BY DEF RebuildPart, GateBody, MembersBuild, MembersDown, MembersAgain, FeatureAgain, When

\* Of the update gate only the gate's own steps clear.
LEMMA RebuildWork ==
    ASSUME NEW c \in Cfgs
    PROVE  /\ MembersBuild(c) \in Seq(Calm(c)) /\ MembersBuild(c) \in Seq(Bare(c))
           /\ MembersDown(c) \in Seq(Calm(c))
           /\ UpdateGateSteps(c) \in Seq(Work(c))
           /\ MembersAgain(c) \in Seq(Calm(c))
           /\ ForEach(RedeployKeys(c), "redeploy") \in Seq(Calm(c))
           /\ Phase("rebuild-ready") \in Calm(c)
           /\ VenueRecheck(c) \in Seq(Calm(c))
           /\ FeatureAgain(c) \in Seq(Calm(c))
           /\ Bracket("update", "start") \in Calm(c) /\ Bracket("update", "stop") \in Calm(c)
           /\ RebuildPart(c) \in Seq(Work(c))
<1>1. MembersBuild(c) \in Seq(Calm(c)) /\ MembersBuild(c) \in Seq(Bare(c))
  <2> DEFINE parts == [i \in DOMAIN c.members |->
                          When(c.members[i] \in ImageMember, <<Cli("image-build",
                              c.members[i])>>)]
  <2>1. \A t \in Places(c) :
            /\ When(t \in ImageMember, <<Cli("image-build", t)>>) \in Seq(Calm(c))
            /\ When(t \in ImageMember, <<Cli("image-build", t)>>) \in Seq(Bare(c))
    <3>1. \A t \in Places(c) :
              Cli("image-build", t) \in Calm(c) /\ Cli("image-build", t) \in Bare(c)
      BY CalmWork, BareWork DEF PlainNames, Clearing, Lowering
    <3>2. QED BY <3>1 DEF When
  <2>2. c.members \in Seq(Places(c))
    BY CfgKeys, SeqMonotonic
  <2>3. DOMAIN c.members = 1..Len(c.members) /\ Len(c.members) \in Nat
        /\ \A i \in 1..Len(c.members) : c.members[i] \in Places(c)
    BY <2>2
  <2>4. /\ parts \in [1..Len(c.members) -> Seq(Calm(c))]
        /\ parts \in [1..Len(c.members) -> Seq(Bare(c))]
    BY <2>1, <2>3
  <2>5. parts \in Seq(Seq(Calm(c))) /\ parts \in Seq(Seq(Bare(c)))
    BY <2>3, <2>4, SeqDef
  <2>6. FlattenSeq(parts) \in Seq(Calm(c)) /\ FlattenSeq(parts) \in Seq(Bare(c))
    BY <2>5, FlattenTypes
  <2>7. QED BY <2>6 DEF MembersBuild, Each, When
<1>2. MembersDown(c) \in Seq(Calm(c))
  <2>1. Phase("members-down") \in Calm(c)
    BY CalmWork, CfgKeys DEF PlainNames, Clearing
  <2>2. QED BY <2>1 DEF MembersDown, When
<1>3. UpdateGateSteps(c) \in Seq(Work(c))
  <2>1. \A name \in {"gate-restart-stop", "gate-restart-start", "gate-restart", "update"} :
            Cli(name, Root) \in Work(c)
    BY PlainWork, CfgKeys DEF PlainNames
  <2>2. QED BY <2>1 DEF UpdateGateSteps
<1>4. MembersAgain(c) \in Seq(Calm(c))
  <2>1. When(InPlace(c), CheckLiveTree(c, "check-live-rebuild")) \in Seq(Calm(c))
    BY LiveWork, WhenSeq
  <2>2. <<Phase("bring-up-members")>> \o When(InPlace(c), CheckLiveTree(c, "check-live-rebuild"))
            \in Seq(Calm(c))
    BY <2>1, LiveWork
  <2>3. QED BY <2>2 DEF MembersAgain, When
<1>5. ForEach(RedeployKeys(c), "redeploy") \in Seq(Calm(c))
  BY CfgKeys, DeployWork, ForEachSeq
<1>6. Phase("rebuild-ready") \in Calm(c)
  BY CalmWork, CfgKeys DEF PlainNames, Clearing
<1>7. VenueRecheck(c) \in Seq(Calm(c))
  <2>1. <<Phase("rebuild-ready")>> \o ForEach(RedeployKeys(c), "redeploy")
             \o CheckLiveTree(c, "check-live-rebuild") \in Seq(Calm(c))
    BY <1>5, <1>6, LiveWork
  <2>2. QED BY <2>1 DEF VenueRecheck, When
<1>8. FeatureAgain(c) \in Seq(Calm(c))
  <2>1. Phase("wait-ready") \in Calm(c) /\ Cli("feature-run", Root) \in Calm(c)
    BY CalmWork, CfgKeys DEF PlainNames, Clearing
  <2>2. QED BY <2>1 DEF FeatureAgain, When
<1>9. Bracket("update", "start") \in Calm(c) /\ Bracket("update", "stop") \in Calm(c)
  BY BracketWork DEF Phases
<1>10. GateBody(c) \in Seq(Work(c))
  <2>1. <<Bracket("update", "start")>> \in Seq(Calm(c))
            /\ <<Bracket("update", "stop")>> \in Seq(Calm(c))
    BY <1>9
  <2>2. Calm(c) \subseteq Work(c)
    BY DEF Calm
  <2>3. /\ <<Bracket("update", "start")>> \in Seq(Work(c))
               /\ <<Bracket("update", "stop")>> \in Seq(Work(c))
        /\ MembersBuild(c) \in Seq(Work(c)) /\ MembersDown(c) \in Seq(Work(c))
        /\ MembersAgain(c) \in Seq(Work(c)) /\ VenueRecheck(c) \in Seq(Work(c))
        /\ FeatureAgain(c) \in Seq(Work(c))
    BY <1>1, <1>2, <1>4, <1>7, <1>8, <2>1, <2>2, SeqMonotonic
  <2>4. QED
    BY <1>3, <2>3 DEF GateBody
<1>11. RebuildPart(c) \in Seq(Work(c))
  <2>1. <<>> \in Seq(Work(c))
    OBVIOUS
  <2>2. QED BY <1>10, <2>1, RebuildParts
<1>12. QED BY <1>1, <1>2, <1>3, <1>4, <1>5, <1>6, <1>7, <1>8, <1>9, <1>11

\* The golden's capture, only on a bed that captures one.
LEMMA GoldenWork ==
    ASSUME NEW c \in Cfgs
    PROVE  GoldenPart(c) \in Seq(Calm(c)) /\ GoldenPart(c) \in Seq(Work(c))
<1>1. Cli("snapshot-stop-keeper", Root) \in Calm(c)
  BY CalmWork, CfgKeys DEF PlainNames, Clearing
<1>2. CapturesGolden(c) => Cli("snapshot-capture", Root) \in Calm(c)
  BY DEF Calm, Clearing, Cli, Step, Work, Steps, Hows, Places, Names, PlainNames, CleanupSteps
<1>3. GoldenPart(c) \in Seq(Calm(c))
  BY <1>1, <1>2 DEF GoldenPart, When
<1>4. QED BY <1>3, SeqMonotonic DEF Calm

\* The end of the body: the evidence, then the venue's teardown, then one bracket.
LEMMA TailSplits ==
    ASSUME NEW c \in Cfgs
    PROVE  /\ TailPart(c) \in Seq(Steps(c))
           /\ Split(TailPart(c), Ahead(c), {TeardownMark}, Behind)
           /\ Split(TailPart(c), Unproven(c), {EvidenceMark}, Unproven(c))
           /\ TailPart(c) \in Seq(Keeping(c))
<1> DEFINE open == When(~c.keep, <<Bracket("teardown", "start")>>)
           close == When(~c.keep, <<StopMark("teardown")>>)
<1>1. TailPart(c) = open \o <<EvidenceMark, TeardownMark>> \o close
  BY DEF TailPart, EvidenceMark, TeardownMark, StopMark
<1>2. /\ open \in Seq({Bracket("teardown", "start")})
      /\ close \in Seq(Behind)
  <2>1. \A b : <<b>> \in Seq({b}) /\ <<>> \in Seq({b})
    OBVIOUS
  <2>2. QED BY <2>1 DEF When, Behind
<1> HIDE DEF open, close
<1>3. /\ {Bracket("teardown", "start")} \subseteq Work(c) /\ Behind \subseteq Work(c)
  BY BracketWork DEF Phases, Behind, StopMark
<1>4. Work(c) \subseteq Steps(c) /\ Work(c) \subseteq Unproven(c) /\ Work(c) \subseteq Ahead(c)
  BY DEF Work, Unproven, Ahead
<1>5. EvidenceMark \in Steps(c) /\ TeardownMark \in Steps(c) /\ EvidenceMark \in Ahead(c)
      /\ TeardownMark \in Unproven(c)
  BY DEF EvidenceMark, TeardownMark, Step, Steps, Hows, Places, Names, Ahead, Unproven
<1>6. open \in Seq(Work(c)) /\ close \in Seq(Work(c))
  BY <1>2, <1>3, SeqMonotonic
<1>7. open \in Seq(Steps(c)) /\ close \in Seq(Steps(c)) /\ close \in Seq(Unproven(c))
      /\ open \in Seq(Ahead(c)) /\ open \in Seq(Unproven(c))
  BY <1>4, <1>6, SeqMonotonic
<1>8. TailPart(c) \in Seq(Steps(c))
  BY <1>1, <1>5, <1>7
<1>9. <<EvidenceMark, TeardownMark>> = <<EvidenceMark>> \o <<TeardownMark>>
  OBVIOUS
<1>10. <<EvidenceMark>> \in Seq(Steps(c)) /\ <<TeardownMark>> \in Seq(Steps(c))
       /\ <<EvidenceMark>> \in Seq(Ahead(c)) /\ <<TeardownMark>> \in Seq(Unproven(c))
       /\ <<EvidenceMark, TeardownMark>> \in Seq(Steps(c))
       /\ open \o <<EvidenceMark, TeardownMark>> \in Seq(Steps(c))
  BY <1>5, <1>7
<1>11. Split(TailPart(c), Ahead(c), {TeardownMark}, Behind)
  <2>1. Split(<<TeardownMark>>, Ahead(c), {TeardownMark}, Behind)
    BY SplitOne
  <2>2. Split(<<EvidenceMark, TeardownMark>>, Ahead(c), {TeardownMark}, Behind)
    BY <1>9, <1>10, <2>1, SplitRight
  <2>3. Split(open \o <<EvidenceMark, TeardownMark>>, Ahead(c), {TeardownMark}, Behind)
    BY <1>7, <1>10, <2>2, SplitRight
  <2>4. QED BY <1>1, <1>2, <1>7, <1>10, <2>3, SplitLeft
<1>12. Split(TailPart(c), Unproven(c), {EvidenceMark}, Unproven(c))
  <2>1. Split(<<EvidenceMark>>, Unproven(c), {EvidenceMark}, Unproven(c))
    BY SplitOne
  <2>2. Split(<<EvidenceMark, TeardownMark>>, Unproven(c), {EvidenceMark}, Unproven(c))
    BY <1>9, <1>10, <2>1, SplitLeft
  <2>3. Split(open \o <<EvidenceMark, TeardownMark>>, Unproven(c), {EvidenceMark}, Unproven(c))
    BY <1>7, <1>10, <2>2, SplitRight
  <2>4. QED BY <1>1, <1>7, <1>10, <2>3, SplitLeft
<1>13. TailPart(c) \in Seq(Keeping(c))
  <2>1. {Bracket("teardown", "start")} \subseteq Keeping(c) /\ Behind \subseteq Keeping(c)
    BY <1>3, <1>4 DEF Keeping, Clearing, Behind, StopMark, Bracket, Step
  <2>2. EvidenceMark \in Keeping(c) /\ TeardownMark \in Keeping(c)
    BY <1>5 DEF Keeping, Clearing, EvidenceMark, TeardownMark, Step
  <2>3. open \in Seq(Keeping(c)) /\ close \in Seq(Keeping(c))
    BY <1>2, <2>1, SeqMonotonic
  <2>4. QED BY <1>1, <2>2, <2>3
<1>14. QED BY <1>8, <1>11, <1>12, <1>13

\* The body's program up to its tail.
Main(c) ==
    BuildPart(c) \o BringUpPart(c) \o RevertPart(c) \o LivePart(c)
        \o RebuildPart(c) \o GoldenPart(c)

\* The body works, takes the evidence, tears down and closes a bracket.
LEMMA ProgramSplits ==
    ASSUME NEW c \in Cfgs
    PROVE  /\ Main(c) \in Seq(Work(c)) /\ BodyProgram(c) = Main(c) \o TailPart(c)
           /\ BodyProgram(c) \in Seq(Steps(c))
           /\ Split(BodyProgram(c), Ahead(c), {TeardownMark}, Behind)
           /\ Split(BodyProgram(c), Unproven(c), {EvidenceMark}, Unproven(c))
<1>1. Main(c) \in Seq(Work(c))
  <2>1. /\ BuildPart(c) \in Seq(Work(c)) /\ BringUpPart(c) \in Seq(Work(c))
        /\ RevertPart(c) \in Seq(Work(c)) /\ LivePart(c) \in Seq(Work(c))
        /\ RebuildPart(c) \in Seq(Work(c)) /\ GoldenPart(c) \in Seq(Work(c))
    BY BuildWork, BringUpWork, LiveWork, RebuildWork, GoldenWork
  <2>2. QED BY <2>1 DEF Main
<1>2. BodyProgram(c) = Main(c) \o TailPart(c)
  BY DEF BodyProgram, Main
<1>3. Main(c) \in Seq(Steps(c)) /\ Main(c) \in Seq(Ahead(c)) /\ Main(c) \in Seq(Unproven(c))
  <2>1. Work(c) \subseteq Steps(c) /\ Work(c) \subseteq Ahead(c) /\ Work(c) \subseteq Unproven(c)
    BY DEF Work, Ahead, Unproven
  <2>2. QED BY <1>1, <2>1, SeqMonotonic
<1>4. BodyProgram(c) \in Seq(Steps(c))
  BY <1>2, <1>3, TailSplits
<1>5. Split(BodyProgram(c), Ahead(c), {TeardownMark}, Behind)
  BY <1>2, <1>3, TailSplits, SplitRight
<1>6. Split(BodyProgram(c), Unproven(c), {EvidenceMark}, Unproven(c))
  BY <1>2, <1>3, TailSplits, SplitRight
<1>7. QED BY <1>1, <1>2, <1>4, <1>5, <1>6

\* The venue's teardown cleans up to its end, whatever follows.
LEMMA CleanupSplits ==
    ASSUME NEW c \in Cfgs, NEW rest \in Seq(Behind)
    PROVE  /\ CleanupProgram(c) \o rest \in Seq(Steps(c))
           /\ Split(CleanupProgram(c) \o rest, Cleaning(c), {EndMark}, Behind)
<1> DEFINE kids == ForEach(Reverse(c.children), "cleanup-child")
           roots == <<Cli("cleanup", Root), Phase("cleanup-members")>>
<1>1. kids \in Seq(Cleaning(c))
  <2>1. Reverse(c.children) \in Seq(ToSet(c.children))
    <3> DEFINE kids2 == ToSet(c.children)
    <3>1. Len(c.children) \in Nat /\ \A i \in 1..Len(c.children) : c.children[i] \in kids2
      <4>1. c.children \in Seq(kids2)
        BY CfgKeys
      <4> HIDE DEF kids2
      <4>2. QED BY <4>1
    <3>2. Reverse(c.children) \in [1..Len(c.children) -> ToSet(c.children)]
      BY <3>1 DEF Reverse
    <3>3. QED BY <3>1, <3>2, SeqDef
  <2>2. \A t \in ToSet(c.children) : Cli("cleanup-child", t) \in Cleaning(c)
    BY DEF Cli, Step, Cleaning, Steps, Hows, Names, CleanupSteps, Places
  <2>3. QED BY <2>1, <2>2, ForEachSeq
<1>2. roots \in Seq(Cleaning(c))
  BY DEF Cli, Phase, Step, Cleaning, Steps, Hows, Names, CleanupSteps, Places
<1>3. EndMark \in Steps(c) /\ Cleaning(c) \subseteq Steps(c) /\ Behind \subseteq Steps(c)
  <2>1. Behind \subseteq Work(c)
    BY BracketWork DEF Phases, Behind, StopMark
  <2>2. QED
    BY <2>1 DEF EndMark, Step, Cleaning, Steps, Hows, Names, Places, Work
<1>4. CleanupProgram(c) = kids \o <<Cli("cleanup", Root), Phase("cleanup-members"), EndMark>>
  BY DEF CleanupProgram, EndMark
<1>5. <<Cli("cleanup", Root), Phase("cleanup-members"), EndMark>> = roots \o <<EndMark>>
  <2>1. \A x, y, z : <<x, y, z>> = <<x, y>> \o <<z>>
    OBVIOUS
  <2>2. QED BY <2>1
<1> HIDE DEF kids, roots
<1>6. kids \in Seq(Steps(c)) /\ roots \in Seq(Steps(c)) /\ rest \in Seq(Steps(c))
          /\ <<EndMark>> \in Seq(Steps(c))
  BY <1>1, <1>2, <1>3, SeqMonotonic
<1>7. Split(<<EndMark>>, Cleaning(c), {EndMark}, Behind)
  BY SplitOne
<1>8. Split(roots \o <<EndMark>>, Cleaning(c), {EndMark}, Behind)
  BY <1>2, <1>6, <1>7, SplitRight
<1>9. roots \o <<EndMark>> \in Seq(Steps(c))
  BY <1>6
<1>10. Split(kids \o (roots \o <<EndMark>>), Cleaning(c), {EndMark}, Behind)
  BY <1>1, <1>6, <1>8, <1>9, SplitRight
<1>11. kids \o (roots \o <<EndMark>>) \in Seq(Steps(c))
  BY <1>6, <1>9
<1>12. Split((kids \o (roots \o <<EndMark>>)) \o rest, Cleaning(c), {EndMark}, Behind)
  BY <1>6, <1>10, <1>11, SplitLeft
<1>13. CleanupProgram(c) = kids \o (roots \o <<EndMark>>)
  BY <1>4, <1>5
<1>14. QED BY <1>6, <1>11, <1>12, <1>13

-----------------------------------------------------------------------------
(* What is still to be issued. *)

\* How the steps of the parts of a program are told apart.
LEMMA StepKinds ==
    ASSUME NEW c
    PROVE  /\ \A s \in Ahead(c) : s.how \notin {"teardown", "end"}
           /\ \A s \in Cleaning(c) : s.how \in {"cli", "phase"}
           /\ \A s \in Behind : s.how = "bracket"
           /\ TeardownMark.how = "teardown" /\ EndMark.how = "end"
                  /\ EvidenceMark.how = "evidence"
           /\ Behind \subseteq Work(c) /\ Work(c) \subseteq Steps(c)
<1>1. Behind \subseteq Work(c)
  BY BracketWork DEF Phases, Behind, StopMark
<1>2. QED
  BY <1>1
     DEF Ahead, Work, Cleaning, Behind, StopMark, Bracket, TeardownMark, EvidenceMark, EndMark,
         Step

\* In the body the next step is the teardown, with one bracket at most behind it,
\* or the teardown is still ahead, or it is over and done with.
LEMMA BodyHead ==
    ASSUME TodoInv, pc = "body", todo # <<>>
    PROVE  /\ Head(todo) \in Steps(cfg) /\ Tail(todo) \in Seq(Steps(cfg))
           /\ \/ /\ ~venue.tornDown
                 /\ Head(todo) \in Ahead(cfg)
                 /\ Split(Tail(todo), Ahead(cfg), {TeardownMark}, Behind)
              \/ /\ ~venue.tornDown
                 /\ Head(todo) = TeardownMark
                 /\ Tail(todo) \in Seq(Behind)
              \/ /\ Settled
                 /\ Head(todo) \in Behind
                 /\ Tail(todo) \in Seq(Behind)
<1>1. todo \in Seq(Steps(cfg))
  BY DEF TodoInv
<1>2. Head(todo) \in Steps(cfg) /\ Tail(todo) \in Seq(Steps(cfg))
  BY <1>1
<1>3. CASE ~venue.tornDown /\ Split(todo, Ahead(cfg), {TeardownMark}, Behind)
  <2>1. \/ Head(todo) \in Ahead(cfg) /\ Split(Tail(todo), Ahead(cfg), {TeardownMark}, Behind)
        \/ Head(todo) \in {TeardownMark} /\ Tail(todo) \in Seq(Behind)
    BY <1>1, <1>3, SplitHead
  <2>2. QED BY <1>2, <1>3, <2>1
<1>4. CASE Settled /\ todo \in Seq(Behind)
  <2>1. Head(todo) \in Behind /\ Tail(todo) \in Seq(Behind)
    BY <1>4
  <2>2. QED BY <1>2, <1>4, <2>1
<1>5. QED BY <1>3, <1>4 DEF TodoInv

\* In the cleanup the next step cleans or ends it.
LEMMA CleanupHead ==
    ASSUME TodoInv, pc = "cleanup"
    PROVE  /\ todo # <<>> /\ Head(todo) \in Steps(cfg) /\ Tail(todo) \in Seq(Steps(cfg))
           /\ \/ /\ Head(todo) \in Cleaning(cfg)
                 /\ Split(Tail(todo), Cleaning(cfg), {EndMark}, Behind)
              \/ /\ Head(todo) = EndMark
                 /\ Tail(todo) \in Seq(Behind)
<1>1. todo \in Seq(Steps(cfg)) /\ Split(todo, Cleaning(cfg), {EndMark}, Behind)
  BY DEF TodoInv
<1>2. QED BY <1>1, SplitHead

\* The other attempts are steps of the body too.
LEMMA RetryWork ==
    ASSUME NEW c, NEW s
    PROVE  Retry(s) \in Seq(Work(c))
<1>1. Cli("vm-build-again", Root) \in Work(c)
          /\ Cli("snapshot-stop-keeper-force", Root) \in Work(c)
  BY PlainWork DEF PlainNames, Places
<1>2. QED BY <1>1 DEF Retry

\* The cleanup that a failure starts.
LEMMA StartedCleanup ==
    ASSUME NEW by, NEW rest, TodoInv, rest \in Seq(Behind), StartCleanup(by, rest), UNCHANGED cfg
    PROVE  /\ todo' \in Seq(Steps(cfg)) /\ Split(todo', Cleaning(cfg), {EndMark}, Behind)
           /\ pc' = "cleanup"
  BY CleanupSplits DEF StartCleanup, TodoInv

\* At the start nothing is to be issued.
LEMMA TodoInvInit == Init => TodoInv
  BY DEF Init, TodoInv, NoRet, Returned, Ended

\* No step of the system takes the program out of its order: work, teardown, last bracket.
LEMMA TodoInvStep ==
    ASSUME IInv, VenueInv, TodoInv, [Next]_vars
    PROVE  TodoInv'
<1> USE DEF IInv, StackInv, Returned, Ended
<1>1. CASE StartRun
  <2>1. todo' = <<>> /\ cfg' \in Cfgs /\ pc' = "setup" /\ ret' = NoRet
    BY <1>1 DEF StartRun, TodoInv
  <2>2. QED BY <2>1 DEF TodoInv, NoRet
<1>2. CASE Arming
  <2>1. todo' = <<>> /\ pc' \notin {"body", "cleanup", "idle", "dead"}
    BY <1>2 DEF Arming, TodoInv, Before
  <2>2. ret.at = "none" /\ ret'.at
            \in {"none", "setup", "skip", "evidence", "instruments", "anchor"}
    BY <1>2 DEF Arming, NoRet
  <2>3. pc' = "unwind" => ret'.at # "none"
    BY <1>2 DEF Arming, Before
  <2>4. cfg' = cfg
    BY <1>2 DEF Arming
  <2>5. QED BY <2>1, <2>2, <2>3, <2>4 DEF TodoInv
<1>3. CASE PrepareVenue
  <2>1. todo' = BodyProgram(cfg) /\ pc' = "body" /\ ret' = NoRet /\ cfg' = cfg /\ venue' = NoVenue
    BY <1>3 DEF PrepareVenue, VenueInv, Before
  <2>2. todo' \in Seq(Steps(cfg)) /\ Split(todo', Ahead(cfg), {TeardownMark}, Behind)
    BY <2>1, ProgramSplits DEF TodoInv
  <2>3. QED BY <2>1, <2>2 DEF TodoInv, NoRet, NoVenue
<1>4. CASE Passing
  <2>1. /\ pc = "body" /\ todo # <<>> /\ todo' = Tail(todo)
        /\ UNCHANGED <<cfg, pc, caller, defers, ret, hist, runs>>
        /\ Head(todo).how \in {"cli", "phase", "mark", "bracket", "evidence"}
        /\ \/ venue' = venue
           \/ venue' = [venue EXCEPT !.deployed = TRUE] /\ Head(todo).how = "mark"
    BY <1>4 DEF Passing
  <2>2. venue'.tornDown = venue.tornDown
    BY <2>1 DEF VenueInv
  <2>3. ret.at = "none"
    BY <2>1 DEF NoRet
  <2>4. Tail(todo) \in Seq(Steps(cfg))
    BY <2>1, BodyHead
  <2>5. CASE ~venue.tornDown /\ Split(Tail(todo), Ahead(cfg), {TeardownMark}, Behind)
    BY <2>1, <2>2, <2>3, <2>4, <2>5 DEF TodoInv
  <2>6. CASE Settled /\ Head(todo) \in Behind /\ Tail(todo) \in Seq(Behind)
    <3>1. venue' = venue
      BY <2>1, <2>6, StepKinds
    <3>2. Settled'
      BY <2>1, <2>6, <3>1 DEF Settled
    <3>3. QED BY <2>1, <2>3, <2>4, <2>6, <3>2 DEF TodoInv
  <2>7. QED BY <2>1, <2>5, <2>6, BodyHead, StepKinds
<1>5. CASE Stumbling
  <2>1. /\ pc = "body" /\ todo # <<>>
        /\ UNCHANGED <<cfg, pc, caller, defers, ret, venue, runs>>
        /\ Head(todo).how = "cli"
        /\ todo' = Tail(todo) \/ todo' = Retry(Head(todo)) \o Tail(todo)
    BY <1>5 DEF Stumbling
  <2>2. /\ ~venue.tornDown /\ Split(Tail(todo), Ahead(cfg), {TeardownMark}, Behind)
        /\ Tail(todo) \in Seq(Steps(cfg))
    BY <2>1, BodyHead, StepKinds
  <2>3. ret.at = "none"
    BY <2>1 DEF NoRet
  <2>4. Retry(Head(todo)) \in Seq(Steps(cfg)) /\ Retry(Head(todo)) \in Seq(Ahead(cfg))
    <3>1. Work(cfg) \subseteq Steps(cfg) /\ Work(cfg) \subseteq Ahead(cfg)
      BY StepKinds DEF Ahead
    <3>2. Retry(Head(todo)) \in Seq(Work(cfg))
      BY RetryWork
    <3>3. QED BY <3>1, <3>2, SeqMonotonic
  <2>5. /\ Retry(Head(todo)) \o Tail(todo) \in Seq(Steps(cfg))
        /\ Split(Retry(Head(todo)) \o Tail(todo), Ahead(cfg), {TeardownMark}, Behind)
    <3>1. Retry(Head(todo)) \o Tail(todo) \in Seq(Steps(cfg))
      BY <2>2, <2>4
    <3>2. QED BY <2>2, <2>4, <3>1, SplitRight
  <2>6. todo' \in Seq(Steps(cfg)) /\ Split(todo', Ahead(cfg), {TeardownMark}, Behind)
    BY <2>1, <2>2, <2>5
  <2>7. QED BY <2>1, <2>2, <2>3, <2>6 DEF TodoInv
<1>6. CASE Breaking
  <2>1. FailTail /\ UNCHANGED <<cfg, defers, runs>> /\ pc = "body" /\ defers = 6
    BY <1>6 DEF Breaking
  <2>2. ret'.at = "fail"
    BY <2>1 DEF FailTail
  <2>3. CASE TearsDown(KeepVenueOnFailure(cfg))
    <3>1. StartCleanup("fail", <<>>)
      BY <2>1, <2>3 DEF FailTail
    <3>2. <<>> \in Seq(Behind)
      OBVIOUS
    <3>3. /\ todo' \in Seq(Steps(cfg)) /\ Split(todo', Cleaning(cfg), {EndMark}, Behind)
          /\ pc' = "cleanup"
      BY <2>1, <3>1, <3>2, StartedCleanup
    <3>4. QED BY <2>1, <2>2, <3>3 DEF TodoInv
  <2>4. CASE ~TearsDown(KeepVenueOnFailure(cfg))
    <3>1. pc' = "unwind" /\ todo' = <<>>
      BY <2>1, <2>4 DEF FailTail
    <3>2. QED BY <2>1, <2>2, <3>1 DEF TodoInv
  <2>5. QED BY <2>3, <2>4
<1>7. CASE TeardownStep
  <2>1. /\ pc = "body" /\ todo # <<>> /\ Head(todo).how = "teardown" /\ ret' = ret
        /\ UNCHANGED <<cfg, defers, runs>> /\ ret.at = "none"
    BY <1>7 DEF TeardownStep, At, Continue, NoRet
  <2>2. Tail(todo) \in Seq(Behind) /\ Tail(todo) \in Seq(Steps(cfg)) /\ ~venue.tornDown
    BY <2>1, BodyHead, StepKinds
  <2>3. CASE TearsDown(KeepVenueOnSuccess(cfg))
    <3>1. StartCleanup("tail", Tail(todo))
      BY <1>7, <2>3 DEF TeardownStep
    <3>2. /\ todo' \in Seq(Steps(cfg)) /\ Split(todo', Cleaning(cfg), {EndMark}, Behind)
          /\ pc' = "cleanup"
      BY <2>1, <2>2, <3>1, StartedCleanup
    <3>3. QED BY <2>1, <3>2 DEF TodoInv
  <2>4. CASE ~TearsDown(KeepVenueOnSuccess(cfg))
    <3>1. pc' = pc /\ todo' = Tail(todo) /\ venue' = venue
      BY <1>7, <2>4 DEF TeardownStep, Continue
    <3>2. Settled'
      BY <2>1, <2>4, <3>1 DEF Settled, TearsDown
    <3>3. QED BY <2>1, <2>2, <3>1, <3>2 DEF TodoInv
  <2>5. QED BY <2>3, <2>4
<1>8. CASE BodyReturns
  <2>1. pc = "body" /\ defers = 6 /\ todo = <<>> /\ UNCHANGED <<cfg, venue, defers>>
            /\ pc' = "unwind" /\ todo' = <<>> /\ ret'.at = "tail"
    BY <1>8 DEF BodyReturns, Return
  <2>2. Len(<<>>) = 0
    OBVIOUS
  <2>3. ~Split(todo, Ahead(cfg), {TeardownMark}, Behind)
    BY <2>1, <2>2 DEF Split
  <2>4. Settled'
    BY <2>1, <2>3 DEF TodoInv, Settled
  <2>5. QED BY <2>1, <2>4 DEF TodoInv
<1>9. CASE CleanupPasses \/ CleanupFails
  <2>1. /\ pc = "cleanup" /\ pc' = pc /\ todo' = Tail(todo) /\ Head(todo).how \in {"cli", "phase"}
        /\ UNCHANGED <<cfg, ret, defers, venue, runs>>
    BY <1>9 DEF CleanupPasses, CleanupFails, InCleanup
  <2>2. Split(Tail(todo), Cleaning(cfg), {EndMark}, Behind) /\ Tail(todo) \in Seq(Steps(cfg))
    BY <2>1, CleanupHead, StepKinds
  <2>3. QED BY <2>1, <2>2 DEF TodoInv, Settled, SettledFailed
<1>10. CASE CleanupReturns
  <2>1. /\ pc = "cleanup" /\ Head(todo).how = "end" /\ UNCHANGED <<cfg, defers, venue, runs>>
        /\ \/ pc' = "body" /\ todo' = Tail(todo)
           \/ pc' = "unwind" /\ todo' = <<>>
    BY <1>10 DEF CleanupReturns
  <2>2. Tail(todo) \in Seq(Behind) /\ Tail(todo) \in Seq(Steps(cfg))
    BY <2>1, CleanupHead, StepKinds
  <2>3. Settled' /\ SettledFailed'
    BY <2>1 DEF VenueInv, Settled, SettledFailed
  <2>4. CASE pc' = "body"
    <3>1. todo' = Tail(todo)
      BY <2>1, <2>4
    <3>2. QED BY <2>1, <2>2, <2>3, <2>4, <3>1 DEF TodoInv
  <2>5. CASE pc' = "unwind"
    <3>1. todo' = <<>>
      BY <2>1, <2>5
    <3>2. QED BY <2>1, <2>3, <2>5, <3>1 DEF TodoInv
  <2>6. QED BY <2>1, <2>4, <2>5
<1>11. CASE DeferredVenue
  <2>1. pc = "unwind" /\ defers = 6 /\ defers' = 5 /\ UNCHANGED <<cfg, ret, runs>>
    BY <1>11 DEF DeferredVenue, Popping, DeferOrder
  <2>2. CASE TearsDown(KeepVenueOnFailure(cfg))
    <3>1. StartCleanup("defer", <<>>)
      BY <1>11, <2>2 DEF DeferredVenue
    <3>2. <<>> \in Seq(Behind)
      OBVIOUS
    <3>3. /\ todo' \in Seq(Steps(cfg)) /\ Split(todo', Cleaning(cfg), {EndMark}, Behind)
          /\ pc' = "cleanup"
      BY <2>1, <3>1, <3>2, StartedCleanup
    <3>4. ret.at # "tail"
      BY <2>2 DEF TodoInv, Settled, TearsDown, KeepVenueOnFailure
    <3>5. QED BY <2>1, <3>3, <3>4 DEF TodoInv
  <2>3. CASE ~TearsDown(KeepVenueOnFailure(cfg))
    <3>1. UNCHANGED <<pc, todo, venue>>
      BY <1>11, <2>3 DEF DeferredVenue
    <3>2. SettledFailed'
      BY <2>1, <2>3, <3>1 DEF SettledFailed, TearsDown
    <3>3. QED BY <2>1, <3>1, <3>2 DEF TodoInv, Settled
  <2>4. QED BY <2>2, <2>3
<1>12. CASE Unwinding
  BY <1>12 DEF Unwinding, TodoInv, Settled, SettledFailed
<1>13. CASE Ending
  BY <1>13 DEF Ending, TodoInv
<1>14. CASE Resting
  BY <1>14 DEF Resting, ctl, TodoInv, Settled, SettledFailed
<1>15. CASE Panic
  <2>1. /\ pc' = "unwind" /\ todo' = <<>> /\ UNCHANGED <<cfg, ret, venue, defers>>
        /\ (pc = "body" /\ defers = 6) \/ venue.tornDown
    BY <1>15 DEF Panic, VenueInv
  <2>2. QED BY <2>1 DEF TodoInv, Settled, SettledFailed
<1>16. QED
  BY <1>1, <1>2, <1>3, <1>4, <1>5, <1>6, <1>7, <1>8, <1>9, <1>10, <1>11, <1>12, <1>13, <1>14,
     <1>15, VenueSteps

\* The three together, and the verdict.
VInv == VenueInv /\ TodoInv /\ ReturnInv /\ TruthInv

\* The four hold in every state of every run.
LEMMA VenueInvariance == Spec => []VInv
<1>1. Init => VInv
  BY VenueInvInit, TodoInvInit, ReturnInvInit DEF VInv
<1>2. IInv /\ VInv /\ [Next]_vars => VInv'
  BY VenueInvStep, TodoInvStep, ReturnInvStep, TruthInvStep DEF VInv
<1> QED
  BY <1>1, <1>2, Invariance, PTL DEF Spec

\* What summary.yml says is what runCheckBed returned: ok only without an error, a panic
\* or a step that failed (FinalResult and writeVerdictOnce), the hook's stopped run apart.
THEOREM VerdictIsTruthful == Spec => []VerdictTruthful
<1>1. VInv => VerdictTruthful
  BY DEF VInv, TruthInv, VerdictTruthful, Unwound, Judged, Ended
<1> QED
  BY <1>1, VenueInvariance, PTL

-----------------------------------------------------------------------------
(* What the steps do to the host. *)

\* A step of the body that ends, well or badly, leaves the host in one of these states.
LEMMA WorkOutcomes ==
    ASSUME NEW c, NEW s \in Work(c), NEW w \in PartialEffects(c, s) \cup {Effect(c, s)}
    PROVE  \/ w = world
           \/ w = BuildEffect(c, s)
           \/ w = GateEffect(c, s)
           \/ /\ s.name = "bring-up-members"
              /\ \E up \in SUBSET ToSet(c.members) : w = MembersUp(c, up)
           \/ /\ s.name = "members-down"
              /\ \E gone \in SUBSET ToSet(c.members) : w = MembersGone(gone)
<1>1. s.name \notin CleanupSteps
  BY DEF Work
<1>2. \/ Effect(c, s) = BuildEffect(c, s)
      \/ Effect(c, s) = GateEffect(c, s)
      \/ s.name = "bring-up-members" /\ Effect(c, s) = MembersUp(c, ToSet(c.members))
      \/ s.name = "members-down" /\ Effect(c, s) = MembersGone(ToSet(c.members))
  BY <1>1 DEF Effect, CleanupSteps
<1>3. ToSet(c.members) \in SUBSET ToSet(c.members)
  OBVIOUS
<1>4. QED BY <1>1, <1>2, <1>3 DEF PartialEffects, CleanupSteps

\* The places of a bed.
LEMMA BedPlaces ==
    ASSUME NEW c \in Cfgs
    PROVE  /\ Root \notin ToSet(c.children) /\ Root \notin ToSet(c.members)
           /\ ToSet(c.children) \cap ToSet(c.members) = {}
           /\ InGuest(c) \subseteq ToSet(c.children)
           /\ Discarded(c) \subseteq ToSet(c.children)
           /\ DieWithRoot(c) \subseteq ToSet(c.children)
           /\ Persisted(c) \subseteq {Root} \cup ToSet(c.members)
<1>1. ToSet(c.localChildren) \subseteq ToSet(c.children)
  BY CfgsAssumption
<1>2. Root \notin ToSet(c.children) \cup ToSet(c.members)
  BY CfgsAssumption
<1>3. ToSet(c.children) \cap ToSet(c.members) = {}
  BY CfgsAssumption
<1>4. QED BY <1>1, <1>2, <1>3 DEF InGuest, Discarded, DieWithRoot, Persisted

\* The body never removes the root, forgets a check only with a step that clears, and
\* makes a golden only where it captures one.
LEMMA WorkEffects ==
    ASSUME WorldShape, NEW c \in Cfgs, NEW s \in Work(c),
           NEW w \in PartialEffects(c, s) \cup {Effect(c, s)}
    PROVE  /\ w.live \subseteq world.live \cup Targets(c)
           /\ Root \in world.live => Root \in w.live
           /\ s.name \notin Clearing => world.checked \subseteq w.checked
           /\ w.golden => world.golden \/ s.name = "snapshot-capture"
           /\ world.golden => w.golden
           /\ Root \in world.seeded => Root \in w.seeded
           /\ (Root \in Persisted(c) => Root \in world.seeded) =>
                  (w.live \ world.live) \cap Persisted(c) \subseteq w.seeded
<1> USE BedPlaces DEF WorldShape, WorldFields, Targets
<1>1. CASE w = world
  BY <1>1
<1>2. CASE w = BuildEffect(c, s)
  <2>1. s.name \in {"deploy", "redeploy"} => s.tgt \in ToSet(c.children)
    BY DEF Work
  <2>2. /\ w.checked = world.checked /\ w.golden = world.golden /\ w.seeded = world.seeded
        /\ world.live \subseteq w.live
        /\ w.live \subseteq world.live \cup {Root} \cup ToSet(c.children)
    BY <1>2, <2>1 DEF BuildEffect
  <2>3. QED BY <2>2
<1>3. CASE w = GateEffect(c, s)
  <2>1. /\ w.seeded = world.seeded
        /\ w.live \subseteq world.live \cup {Root} \cup ToSet(c.children)
        /\ Root \in world.live => Root \in w.live
    BY <1>3 DEF GateEffect
  <2>2. s.name \notin Clearing => world.checked \subseteq w.checked
    BY <1>3 DEF GateEffect, Clearing
  <2>3. /\ w.golden => world.golden \/ s.name = "snapshot-capture"
        /\ world.golden => w.golden
    BY <1>3 DEF GateEffect
  <2>4. QED BY <2>1, <2>2, <2>3
<1>4. CASE \E up \in SUBSET ToSet(c.members) : w = MembersUp(c, up)
  <2>1. PICK up \in SUBSET ToSet(c.members) : w = MembersUp(c, up)
    BY <1>4
  <2>2. /\ w.checked = world.checked /\ w.golden = world.golden
        /\ w.seeded = world.seeded \cup Persisted(c) /\ w.live = world.live \cup up
    BY <2>1 DEF MembersUp
  <2>3. QED BY <2>1, <2>2
<1>5. CASE \E gone \in SUBSET ToSet(c.members) : w = MembersGone(gone)
  <2>1. PICK gone \in SUBSET ToSet(c.members) : w = MembersGone(gone)
    BY <1>5
  <2>2. /\ w.checked = world.checked /\ w.golden = world.golden
        /\ w.seeded = world.seeded \ gone /\ w.live = world.live \ gone
    BY <2>1 DEF MembersGone
  <2>3. QED BY <2>1, <2>2
<1>6. QED BY <1>1, <1>2, <1>3, <1>4, <1>5, WorkOutcomes

\* A check that passes is remembered, and a step that raises the root leaves it up.
LEMMA PassingEffects ==
    ASSUME WorldShape, NEW c, NEW s \in Work(c)
    PROVE  /\ \A r : s \in Checks(c, r) => r \in Effect(c, s).checked
           /\ s \in Raising(c) /\ CanPass(s) => Root \in Effect(c, s).live
<1> USE DEF WorldShape, WorldFields
<1>1. ASSUME NEW r, s \in Checks(c, r)
      PROVE  r \in Effect(c, s).checked
  <2>1. s.name \in {"check-live", "check-live-rebuild"} /\ s.tgt = r
    BY <1>1 DEF Checks, CheckNames
  <2>2. BuildEffect(c, s) = world
    BY <2>1 DEF BuildEffect
  <2>3. Effect(c, s) = GateEffect(c, s)
    BY <2>1, <2>2 DEF Effect
  <2>4. QED BY <2>1, <2>3 DEF GateEffect
<1>2. ASSUME s \in Raising(c), CanPass(s)
      PROVE  Root \in Effect(c, s).live
  <2>1. s.how = "cli" /\ s.name \in {"vm-create", "deploy-add", "snapshot-revert"}
    BY <1>2 DEF Raising
  <2>2. CASE s.name = "snapshot-revert"
    <3>1. Root \in world.live
      BY <1>2, <2>2 DEF CanPass
    <3>2. BuildEffect(c, s) = world
      BY <2>2 DEF BuildEffect
    <3>3. Effect(c, s) = GateEffect(c, s)
      BY <2>2, <3>2 DEF Effect
    <3>4. QED BY <2>2, <3>1, <3>3 DEF GateEffect
  <2>3. CASE s.name \in {"vm-create", "deploy-add"}
    <3>1. Root \in BuildEffect(c, s).live
      BY <2>3 DEF BuildEffect
    <3>2. \/ Effect(c, s) = BuildEffect(c, s)
          \/ Effect(c, s) = GateEffect(c, s) /\ BuildEffect(c, s) = world
      BY <2>1, <2>3 DEF Effect
    <3>3. GateEffect(c, s) = world
      BY <2>3 DEF GateEffect
    <3>4. QED BY <3>1, <3>2, <3>3
  <2>4. QED BY <2>1, <2>2, <2>3
<1>3. QED BY <1>1, <1>2

\* The steps of the teardown only remove, keep a golden that is to be kept, and when they
\* pass remove what they are for.
LEMMA CleaningEffects ==
    ASSUME WorldShape, NEW c \in Cfgs, NEW s \in Cleaning(c)
    PROVE  /\ \A w \in PartialEffects(c, s) \cup {Effect(c, s)} :
                  /\ w.live \subseteq world.live
                  /\ w.checked = world.checked
                  /\ w.disk => world.disk
                  /\ w.golden => world.golden
                  /\ world.golden /\ c.kind = "vm" /\ c.onFinalize => w.golden
           /\ \A t : s \in Removing(c, t) => t \notin Effect(c, s).live
           /\ s \in Reclaiming(c) /\ ReclaimsVmStateDir(c) => ~Effect(c, s).disk
<1> USE DEF WorldShape, WorldFields
<1>1. s.name \in CleanupSteps
  BY DEF Cleaning
<1> BuildEffect(c, s) = world
  BY <1>1 DEF CleanupSteps, BuildEffect
<1>2. CASE s.name = "cleanup-child"
  <2>1. Effect(c, s) = [world EXCEPT !.live = @ \ {s.tgt}]
    BY <1>2 DEF Effect
  <2>2. PartialEffects(c, s) = {world, Effect(c, s)}
    BY <1>2 DEF PartialEffects
  <2>3. QED BY <1>2, <2>1, <2>2 DEF Removing, Reclaiming
<1>3. CASE s.name = "cleanup"
  <2>1. Effect(c, s) = RootGone(c, ReclaimsVmStateDir(c))
    BY <1>3 DEF Effect
  <2>2. PartialEffects(c, s) = {world, Effect(c, s)}
    BY <1>3 DEF PartialEffects
  <2>3. /\ Effect(c, s).live = world.live \ ({Root} \cup DieWithRoot(c))
        /\ Effect(c, s).checked = world.checked
        /\ Effect(c, s).disk = (world.disk /\ ~ReclaimsVmStateDir(c))
        /\ Effect(c, s).golden = (world.golden /\ ~ReclaimsVmStateDir(c))
    BY <2>1 DEF RootGone
  <2>4. c.kind = "vm" /\ c.onFinalize => ~ReclaimsVmStateDir(c)
    BY DEF ReclaimsVmStateDir, CapturesGolden
  <2>5. QED BY <1>3, <2>2, <2>3, <2>4 DEF Removing, Reclaiming
<1>4. CASE s.name = "cleanup-members"
  <2>1. Effect(c, s) = MembersGone(ToSet(c.members))
    BY <1>4 DEF Effect
  <2>2. PartialEffects(c, s) = {MembersGone(gone) : gone \in SUBSET ToSet(c.members)}
    BY <1>4 DEF PartialEffects
  <2>3. \A gone : /\ MembersGone(gone).live = world.live \ gone
                  /\ MembersGone(gone).checked = world.checked
                  /\ MembersGone(gone).disk = world.disk
                  /\ MembersGone(gone).golden = world.golden
    BY DEF MembersGone
  <2>4. QED BY <1>4, <2>1, <2>2, <2>3 DEF Removing, Reclaiming
<1>5. QED BY <1>1, <1>2, <1>3, <1>4 DEF CleanupSteps

-----------------------------------------------------------------------------
(* The venue's disposal. *)

\* The teardown has a step for every target of the bed, and one for the state dir.
LEMMA CleanupCovers ==
    ASSUME NEW c \in Cfgs, NEW rest \in Seq(Behind)
    PROVE  /\ \A t \in Targets(c) :
                  Split(CleanupProgram(c) \o rest, Steps(c), Removing(c, t), Steps(c))
           /\ Split(CleanupProgram(c) \o rest, Steps(c), Reclaiming(c), Steps(c))
<1> DEFINE kids == ForEach(Reverse(c.children), "cleanup-child")
           root == Cli("cleanup", Root)
           members == Phase("cleanup-members")
<1>1. Len(c.children) \in Nat /\ c.children \in Seq(ToSet(c.children))
          /\ DOMAIN c.children = 1..Len(c.children)
  BY CfgKeys, LenProperties
<1>2. Reverse(c.children) \in Seq(ToSet(c.children)) /\ Len(Reverse(c.children)) = Len(c.children)
  <2>1. \A i \in 1..Len(c.children) : c.children[i] \in ToSet(c.children)
    BY <1>1, ElementOfSeq
  <2>2. Reverse(c.children) \in [1..Len(c.children) -> ToSet(c.children)]
    BY <1>1, <2>1 DEF Reverse
  <2>3. Reverse(c.children) \in Seq(ToSet(c.children))
    BY <1>1, <2>2, SeqDef
  <2>4. QED BY <1>1, <2>2, <2>3, LenProperties
<1>3. \A t \in ToSet(c.children) : Cli("cleanup-child", t) \in Cleaning(c)
  BY DEF Cli, Step, Cleaning, Steps, Hows, Names, CleanupSteps, Places
<1>4. /\ kids \in Seq(Cleaning(c)) /\ Len(kids) = Len(c.children)
      /\ \A i \in 1..Len(c.children) : kids[i] = Cli("cleanup-child", Reverse(c.children)[i])
  <2>1. /\ kids \in Seq(Cleaning(c)) /\ Len(kids) = Len(Reverse(c.children))
        /\ \A i \in 1..Len(Reverse(c.children)) : kids[i]
               = Cli("cleanup-child", Reverse(c.children)[i])
    <3> DEFINE K == ToSet(c.children)
               S == Cleaning(c)
               back == Reverse(c.children)
    <3>1. back \in Seq(K) /\ \A k \in K : Cli("cleanup-child", k) \in S
      BY <1>2, <1>3
    <3> HIDE DEF K, S, back
    <3>2. /\ ForEach(back, "cleanup-child") \in Seq(S)
          /\ Len(ForEach(back, "cleanup-child")) = Len(back)
          /\ \A i \in 1..Len(back) : ForEach(back, "cleanup-child")[i]
                 = Cli("cleanup-child", back[i])
      <4>1. ForEach(back, "cleanup-child") \in Seq(S)
                /\ Len(ForEach(back, "cleanup-child")) = Len(back)
        BY <3>1, ForEachSeq
      <4>2. QED BY <3>1, <4>1, ForEachItems
    <3>3. QED BY <3>2 DEF K, S, back
  <2>2. QED BY <1>2, <2>1
<1>5. root \in Reclaiming(c) /\ root \in Removing(c, Root) /\ members \in Cleaning(c)
      /\ \A t \in ToSet(c.members) : members \in Removing(c, t)
  BY DEF Cli, Phase, Step, Cleaning, Steps, Hows, Names, CleanupSteps, Places, Removing,
     Reclaiming
<1>6. CleanupProgram(c) = kids \o ((<<root>> \o <<members>>) \o <<EndMark>>)
  <2>1. \A x, y, z : <<x, y, z>> = (<<x>> \o <<y>>) \o <<z>>
    BY Triple
  <2>2. QED BY <2>1 DEF CleanupProgram, EndMark
<1> HIDE DEF kids, root, members
<1>7. /\ Cleaning(c) \subseteq Steps(c) /\ Behind \subseteq Steps(c) /\ EndMark \in Steps(c)
      /\ Reclaiming(c) \subseteq Cleaning(c)
  BY StepKinds DEF Cleaning, Reclaiming, EndMark, Step, Steps, Hows, Names, Places
<1>8. kids \in Seq(Steps(c)) /\ rest \in Seq(Steps(c)) /\ root \in Steps(c)
          /\ members \in Steps(c)
  BY <1>4, <1>5, <1>7, SeqMonotonic
<1> DEFINE pair == <<root>> \o <<members>>
           tail == pair \o <<EndMark>>
<1>9. /\ <<root>> \in Seq(Steps(c)) /\ <<members>> \in Seq(Steps(c))
             /\ <<EndMark>> \in Seq(Steps(c))
  BY <1>7, <1>8
<1>10. pair \in Seq(Steps(c)) /\ tail \in Seq(Steps(c)) /\ CleanupProgram(c) = kids \o tail
  BY <1>6, <1>9
<1>11. CleanupProgram(c) \in Seq(Steps(c))
  BY <1>8, <1>10
<1>12. ASSUME NEW Q, root \in Q \/ members \in Q
       PROVE  Split(CleanupProgram(c) \o rest, Steps(c), Q, Steps(c))
  <2>1. Split(pair, Steps(c), Q, Steps(c))
    <3>1. CASE root \in Q
      <4>1. Split(<<root>>, Steps(c), Q, Steps(c))
        BY <3>1, SplitOne
      <4>2. QED BY <1>9, <4>1, SplitLeft
    <3>2. CASE members \in Q
      <4>1. Split(<<members>>, Steps(c), Q, Steps(c))
        BY <3>2, SplitOne
      <4>2. QED BY <1>9, <4>1, SplitRight
    <3>3. QED BY <1>12, <3>1, <3>2
  <2> HIDE DEF pair
  <2>2. Split(tail, Steps(c), Q, Steps(c))
    BY <1>9, <1>10, <2>1, SplitLeft
  <2> HIDE DEF tail
  <2>3. Split(CleanupProgram(c), Steps(c), Q, Steps(c))
    BY <1>8, <1>10, <2>2, SplitRight
  <2>4. QED BY <1>8, <1>11, <2>3, SplitLeft
<1> HIDE DEF pair, tail
<1>13. \A t \in ToSet(c.members) :
           Split(CleanupProgram(c) \o rest, Steps(c), Removing(c, t), Steps(c))
  BY <1>5, <1>12
<1>14. ASSUME NEW t \in ToSet(c.children)
       PROVE  Split(CleanupProgram(c) \o rest, Steps(c), Removing(c, t), Steps(c))
  <2>1. PICK i \in 1..Len(c.children) : c.children[i] = t
    BY <1>1 DEF ToSet
  <2> DEFINE j == Len(c.children) - i + 1
  <2>2. j \in 1..Len(c.children) /\ Len(c.children) - j + 1 = i
    BY <1>1
  <2>3. Reverse(c.children)[j] = t
    BY <1>1, <2>1, <2>2 DEF Reverse
  <2> HIDE DEF j
  <2>4. kids[j] \in Removing(c, t)
    <3>1. kids[j] = Cli("cleanup-child", t)
      BY <1>4, <2>2, <2>3
    <3>2. QED BY <1>3, <3>1 DEF Removing, Cli, Step
  <2>5. Split(kids, Steps(c), Removing(c, t), Steps(c))
    <3>1. \A k \in 1..Len(kids) : kids[k] \in Steps(c)
      BY <1>8, ElementOfSeq
    <3>2. QED BY <1>4, <2>2, <2>4, <3>1 DEF Split
  <2>6. Split(CleanupProgram(c), Steps(c), Removing(c, t), Steps(c))
    BY <1>8, <1>10, <2>5, SplitLeft
  <2>7. QED BY <1>8, <1>11, <2>6, SplitLeft
<1>15. QED BY <1>5, <1>12, <1>13, <1>14 DEF Targets

\* At the start the host holds nothing.
LEMMA LeftInvInit == Init => LeftInv
  BY DEF Init, LeftInv, WorldShape, WorldFields, NoVenue, NoHist

\* What a teardown that starts finds is all ahead of it.
LEMMA StartedCovers ==
    ASSUME NEW by, NEW rest, TodoInv, LeftInv, rest \in Seq(Behind), StartCleanup(by, rest),
           UNCHANGED cfg, WorldShape', world'.live \subseteq Targets(cfg), UNCHANGED hist.cut,
           ~hist.cut
    PROVE  LeftInv'
<1>1. todo' = CleanupProgram(cfg) \o rest /\ pc' = "cleanup"
  BY DEF StartCleanup
<1>2. /\ \A t \in Targets(cfg) : Split(todo', Steps(cfg), Removing(cfg, t), Steps(cfg))
      /\ Split(todo', Steps(cfg), Reclaiming(cfg), Steps(cfg))
  BY <1>1, CleanupCovers DEF TodoInv
<1>3. QED BY <1>1, <1>2 DEF LeftInv, Ended

\* The pre-run cleanup only removes.
LEMMA PreparedVenue ==
    ASSUME WorldShape, PrepareVenue
    PROVE  /\ world'.live \subseteq world.live
           /\ world'.golden => world.golden
           /\ world.golden => world'.golden
           /\ Persisted(cfg) \subseteq world'.seeded
           /\ world'.checked = world.checked
<1>1. PICK w \in PreRunWorlds(cfg), gone \in PreRunGone(cfg) :
          world' = [w EXCEPT !.live = @ \ gone, !.seeded = (@ \ gone) \cup Persisted(cfg)]
  BY DEF PrepareVenue
<1>2. DOMAIN w = WorldFields
  BY PreRunKeepsShape
<1>3. w.live \subseteq world.live /\ (w.golden = (world.golden /\ TRUE) \/ w = world)
          /\ w.checked = world.checked
  <2>1. CASE w = RootGone(cfg, FALSE)
    BY <2>1 DEF RootGone, WorldShape, WorldFields
  <2>2. QED BY <1>1, <2>1 DEF PreRunWorlds
<1>4. world'.live = w.live \ gone /\ world'.golden = w.golden
          /\ Persisted(cfg) \subseteq world'.seeded /\ world'.checked = w.checked
  BY <1>1, <1>2 DEF WorldFields
<1>5. QED BY <1>3, <1>4

\* While the teardown runs, a target still up has its removal ahead; once it is over, none is up.
LEMMA LeftInvStep ==
    ASSUME IInv, VenueInv, TodoInv, LeftInv, [Next]_vars
    PROVE  LeftInv'
<1> WorldShape'
  BY WorldShapeStep DEF LeftInv
<1> USE DEF Ended, FromBody, IInv, HistShape
<1>1. CASE StartRun
  <2>1. /\ pc' = "setup" /\ hist'.cut = FALSE /\ world'.live = world.live
        /\ Targets(cfg') = Targets(cfg) /\ venue'.tornDown = FALSE
    BY <1>1 DEF StartRun, NoHist, NoVenue, LeftInv, WorldShape, WorldFields, SameBed, Targets
  <2>2. QED BY <2>1 DEF LeftInv
<1>2. CASE Arming
  BY <1>2 DEF Arming, LeftInv, VenueInv, NoVenue, Before
<1>3. CASE PrepareVenue
  <2>1. pc' = "body" /\ venue' = NoVenue /\ UNCHANGED <<cfg, hist>>
    BY <1>3 DEF PrepareVenue, VenueInv, Before
  <2>2. world'.live \subseteq world.live
    BY <1>3, PreparedVenue DEF LeftInv
  <2>3. QED BY <1>3, <2>1, <2>2 DEF LeftInv, NoVenue, VenueInv, PrepareVenue, Before
<1>4. CASE Passing
  <2>1. /\ pc = "body" /\ todo # <<>> /\ UNCHANGED <<cfg, pc, caller, ret, hist, runs>>
        /\ venue'.tornDown = venue.tornDown
    BY <1>4 DEF Passing, VenueInv
  <2>2. CASE ~venue.tornDown /\ Head(todo) \in Ahead(cfg)
    <3>1. world'.live \subseteq Targets(cfg)
      <4>1. CASE UNCHANGED world
        BY <4>1 DEF LeftInv
      <4>2. CASE world' = Effect(cfg, Head(todo)) /\ Head(todo).how \in {"cli", "phase"}
        <5>1. Head(todo) \in Work(cfg)
          BY <2>2, <4>2, StepKinds DEF Ahead
        <5>2. world'.live \subseteq world.live \cup Targets(cfg)
          BY <4>2, <5>1, WorkEffects DEF LeftInv, TodoInv
        <5>3. QED BY <5>2 DEF LeftInv
      <4>3. QED BY <1>4, <4>1, <4>2 DEF Passing
    <3>2. QED BY <2>1, <2>2, <3>1 DEF LeftInv
  <2>3. CASE Head(todo) \in Behind
    <3>1. UNCHANGED world
      BY <1>4, <2>3, StepKinds DEF Passing
    <3>2. QED BY <2>1, <3>1 DEF LeftInv
  <2>4. Head(todo).how # "teardown"
    BY <1>4 DEF Passing
  <2>5. QED BY <2>1, <2>2, <2>3, <2>4, BodyHead, StepKinds
<1>5. CASE Stumbling
  <2>1. /\ pc = "body" /\ todo # <<>> /\ UNCHANGED <<cfg, pc, caller, ret, venue, runs>>
        /\ Head(todo).how = "cli" /\ world' \in PartialEffects(cfg, Head(todo))
        /\ hist'.cut = hist.cut
    BY <1>5 DEF Stumbling, Noted
  <2>2. ~venue.tornDown /\ Head(todo) \in Work(cfg)
    BY <2>1, BodyHead, StepKinds DEF Ahead
  <2>3. world'.live \subseteq Targets(cfg)
    BY <2>1, <2>2, WorkEffects DEF LeftInv, TodoInv
  <2>4. QED BY <2>1, <2>2, <2>3 DEF LeftInv
<1>6. CASE Breaking
  <2>1. /\ pc = "body" /\ todo # <<>> /\ UNCHANGED <<cfg, runs>> /\ FailTail
        /\ hist'.cut = hist.cut
    BY <1>6 DEF Breaking, Noted
  <2>2. world'.live \subseteq Targets(cfg)
    <3>1. CASE UNCHANGED world
      BY <3>1 DEF LeftInv
    <3>2. CASE Head(todo).how \in {"cli", "phase"} /\ world' \in PartialEffects(cfg, Head(todo))
      <4>1. Head(todo) \in Work(cfg)
        BY <2>1, <3>2, BodyHead, StepKinds DEF Ahead
      <4>2. QED BY <3>2, <4>1, WorkEffects DEF LeftInv, TodoInv
    <3>3. QED BY <1>6, <3>1, <3>2 DEF Breaking
  <2>3. CASE TearsDown(KeepVenueOnFailure(cfg))
    <3>1. StartCleanup("fail", <<>>)
      BY <2>1, <2>3 DEF FailTail
    <3>2. <<>> \in Seq(Behind)
      OBVIOUS
    <3>3. ~hist.cut
      BY <2>1 DEF LeftInv
    <3>4. QED BY <2>1, <2>2, <3>1, <3>2, <3>3, StartedCovers
  <2>4. CASE ~TearsDown(KeepVenueOnFailure(cfg))
    <3>1. pc' = "unwind" /\ UNCHANGED venue
      BY <2>1, <2>4 DEF FailTail
    <3>2. venue.tornDown => Head(todo) \in Behind
      BY <2>1, BodyHead
    <3>3. venue.tornDown => UNCHANGED world
      BY <1>6, <3>2, StepKinds DEF Breaking
    <3>4. hist.failed \subseteq hist'.failed
      BY <1>6 DEF Breaking, Noted
    <3>5. QED BY <2>1, <2>2, <3>1, <3>3, <3>4 DEF LeftInv
  <2>5. QED BY <2>3, <2>4
<1>7. CASE TeardownStep
  <2>1. /\ pc = "body" /\ todo # <<>> /\ Head(todo).how = "teardown"
        /\ UNCHANGED <<cfg, world, hist, runs, ret>>
    BY <1>7 DEF TeardownStep, At, Continue
  <2>2. Tail(todo) \in Seq(Behind) /\ ~venue.tornDown
    BY <2>1, BodyHead, StepKinds
  <2>3. CASE TearsDown(KeepVenueOnSuccess(cfg))
    <3>1. StartCleanup("tail", Tail(todo))
      BY <1>7, <2>3 DEF TeardownStep
    <3>2. world'.live \subseteq Targets(cfg) /\ ~hist.cut
      BY <2>1 DEF LeftInv
    <3>3. QED BY <2>1, <2>2, <3>1, <3>2, StartedCovers
  <2>4. CASE ~TearsDown(KeepVenueOnSuccess(cfg))
    <3>1. pc' = pc /\ venue' = venue
      BY <1>7, <2>4 DEF TeardownStep, Continue
    <3>2. QED BY <2>1, <3>1 DEF LeftInv
  <2>5. QED BY <2>3, <2>4
<1>8. CASE BodyReturns
  BY <1>8 DEF BodyReturns, Return, LeftInv
<1>9. CASE CleanupPasses
  <2>1. /\ pc = "cleanup" /\ Head(todo).how \in {"cli", "phase"} /\ todo' = Tail(todo)
        /\ world' = Effect(cfg, Head(todo))
        /\ UNCHANGED <<cfg, pc, venue, runs, ret>>
        /\ hist'.failed = hist.failed /\ hist'.cut = hist.cut
    BY <1>9 DEF CleanupPasses, InCleanup, CountDown
  <2>2. Head(todo) \in Cleaning(cfg) /\ todo \in Seq(Steps(cfg))
    BY <2>1, CleanupHead, StepKinds DEF TodoInv
  <2>3. /\ world'.live \subseteq world.live /\ (world'.disk => world.disk)
        /\ \A t : Head(todo) \in Removing(cfg, t) => t \notin world'.live
        /\ Head(todo) \in Reclaiming(cfg) /\ ReclaimsVmStateDir(cfg) => ~world'.disk
    BY <2>1, <2>2, CleaningEffects DEF LeftInv, TodoInv
  <2>4. ASSUME hist'.failed \cap CleanupSteps = {}, NEW t \in world'.live
        PROVE  Split(todo', Steps(cfg), Removing(cfg, t), Steps(cfg))
    <3>1. Split(todo, Steps(cfg), Removing(cfg, t), Steps(cfg))
      BY <2>1, <2>3, <2>4 DEF LeftInv
    <3>2. QED BY <2>1, <2>2, <2>3, <2>4, <3>1, SplitHead
  <2>5. ASSUME hist'.failed \cap CleanupSteps = {}, ReclaimsVmStateDir(cfg), world'.disk
        PROVE  Split(todo', Steps(cfg), Reclaiming(cfg), Steps(cfg))
    <3>1. Split(todo, Steps(cfg), Reclaiming(cfg), Steps(cfg))
      BY <2>1, <2>3, <2>5 DEF LeftInv
    <3>2. QED BY <2>1, <2>2, <2>3, <2>5, <3>1, SplitHead
  <2>6. world'.live \subseteq Targets(cfg)
    BY <2>3 DEF LeftInv
  <2>7. QED BY <2>1, <2>4, <2>5, <2>6 DEF LeftInv
<1>10. CASE CleanupFails
  <2>1. /\ pc = "cleanup" /\ Head(todo).how \in {"cli", "phase"}
        /\ world' \in PartialEffects(cfg, Head(todo))
        /\ UNCHANGED <<cfg, pc, venue, runs, ret>>
        /\ Head(todo).name \in hist'.failed /\ hist'.cut = hist.cut
    BY <1>10 DEF CleanupFails, InCleanup, CountDown, Noted
  <2>2. Head(todo) \in Cleaning(cfg)
    BY <2>1, CleanupHead, StepKinds
  <2>3. world'.live \subseteq Targets(cfg)
    BY <2>1, <2>2, CleaningEffects DEF LeftInv, TodoInv
  <2>4. Head(todo).name \in CleanupSteps
    BY <2>2 DEF Cleaning
  <2>5. QED BY <2>1, <2>3, <2>4 DEF LeftInv
<1>11. CASE CleanupReturns
  <2>1. /\ pc = "cleanup" /\ Head(todo).how = "end"
        /\ UNCHANGED <<cfg, venue, world, hist, runs>> /\ pc' \in {"body", "unwind"}
    BY <1>11 DEF CleanupReturns
  <2>2. Head(todo) = EndMark /\ Tail(todo) \in Seq(Behind) /\ todo \in Seq(Steps(cfg))
    BY <2>1, CleanupHead, StepKinds DEF TodoInv
  <2>3. \A s \in Cleaning(cfg) : s # EndMark /\ s \notin Behind
    BY StepKinds
  <2>4. ASSUME NEW Q, Q \subseteq Cleaning(cfg)
        PROVE  ~Split(todo, Steps(cfg), Q, Steps(cfg))
    <3>1. EndMark \notin Q /\ Q \cap Behind = {}
      BY <2>3, <2>4
    <3>2. ~Split(Tail(todo), Steps(cfg), Q, Steps(cfg))
      BY <2>2, <3>1, SplitNone
    <3>3. QED BY <2>2, <3>1, <3>2, SplitHead
  <2>5. \A t : Removing(cfg, t) \subseteq Cleaning(cfg)
    BY DEF Removing
  <2>6. Reclaiming(cfg) \subseteq Cleaning(cfg)
    BY DEF Reclaiming
  <2>7. hist.failed \cap CleanupSteps = {} => world.live = {} /\ (ReclaimsVmStateDir(cfg)
            => ~world.disk)
    BY <2>1, <2>4, <2>5, <2>6 DEF LeftInv
  <2>8. QED BY <2>1, <2>7 DEF LeftInv
<1>12. CASE DeferredVenue
  <2>1. pc = "unwind" /\ UNCHANGED <<cfg, ret, world, hist, runs>>
    BY <1>12 DEF DeferredVenue, Popping
  <2>2. CASE TearsDown(KeepVenueOnFailure(cfg))
    <3>1. StartCleanup("defer", <<>>)
      BY <1>12, <2>2 DEF DeferredVenue
    <3>2. <<>> \in Seq(Behind)
      OBVIOUS
    <3>3. world'.live \subseteq Targets(cfg) /\ ~hist.cut
      BY <2>1, <2>2 DEF LeftInv, TearsDown
    <3>4. QED BY <2>1, <3>1, <3>2, <3>3, StartedCovers
  <2>3. CASE ~TearsDown(KeepVenueOnFailure(cfg))
    BY <1>12, <2>1, <2>3 DEF DeferredVenue, LeftInv
  <2>4. QED BY <2>2, <2>3
<1>13. CASE Unwinding
  BY <1>13 DEF Unwinding, LeftInv
<1>14. CASE Ending
  BY <1>14 DEF Ending, LeftInv
<1>15. CASE Resting
  BY <1>15 DEF Resting, ctl, LeftInv
<1>16. CASE Panic
  <2>1. /\ pc' = "unwind" /\ UNCHANGED <<cfg, ret, venue, world, runs>>
               /\ pc \in {"body", "cleanup"}
        /\ hist'.failed = hist.failed /\ hist'.cut = (pc = "cleanup")
    BY <1>16 DEF Panic
  <2>2. CASE pc = "body"
    BY <2>1, <2>2 DEF LeftInv
  <2>3. CASE pc = "cleanup"
    BY <2>1, <2>3 DEF LeftInv, VenueInv
  <2>4. QED BY <2>1, <2>2, <2>3
<1>17. QED
  BY <1>1, <1>2, <1>3, <1>4, <1>5, <1>6, <1>7, <1>8, <1>9, <1>10, <1>11, <1>12, <1>13, <1>14,
     <1>15, <1>16, VenueSteps

\* What is left of the bed, in every state.
LEMMA LeftInvariance == Spec => []LeftInv
<1>1. IInv /\ VInv /\ LeftInv /\ [Next]_vars => LeftInv'
  BY LeftInvStep DEF VInv
<1> QED
  BY <1>1, LeftInvInit, VenueInvariance, Invariance, PTL DEF Spec

\* A deployed bed that is not kept is gone when its body has unwound, root, children and
\* members, unless a step of the teardown failed; bedVenueTeardown runs once and completely.
THEOREM VenueIsDisposed == Spec => []VenueDisposed
<1>1. IInv /\ VInv /\ LeftInv => VenueDisposed
  <2> SUFFICES ASSUME IInv, VInv, LeftInv, BodyUnwound, ~hist.cut, venue.deployed,
                      ~(IF ret.at = "tail" THEN KeepVenueOnSuccess(cfg)
                        ELSE KeepVenueOnFailure(cfg)),
                      hist.failed \cap CleanupSteps = {}
               PROVE  /\ world.live = {}
                      /\ cfg.kind = "vm" /\ ~cfg.anchor /\ ~cfg.onFinalize => ~world.disk
    BY DEF VenueDisposed
  <2>1. Ended /\ FromBody
    BY DEF BodyUnwound, Unwound, FromBody, IInv, TypesInv, RetPlaces
  <2>2. venue.tornDown
    BY <2>1 DEF VInv, TodoInv, Settled, SettledFailed, Returned, FromBody
  <2>3. world.live = {} /\ (ReclaimsVmStateDir(cfg) => ~world.disk)
    BY <2>1, <2>2 DEF LeftInv
  <2>4. ~cfg.keep
    BY <2>2 DEF VInv, VenueInv
  <2>5. QED BY <2>3, <2>4 DEF ReclaimsVmStateDir, CapturesGolden
<1> QED
  BY <1>1, Invariance, VenueInvariance, LeftInvariance, PTL

-----------------------------------------------------------------------------
(* The way of a run that passes. *)

\* A run on that way came there through the body, one passing step at a time.
LEMMA OnTrackSteps ==
    ASSUME IInv, VInv, [Next]_vars, OnTrack'
    PROVE  \/ PrepareVenue
           \/ OnTrack /\ (Passing \/ TeardownStep \/ BodyReturns \/ CleanupPasses)
           \/ /\ OnTrack /\ pc = "cleanup" /\ Head(todo).how = "end" /\ pc' = "body"
              /\ todo' = Tail(todo) /\ UNCHANGED <<cfg, world, inst>>
           \/ /\ OnTrack /\ UNCHANGED <<cfg, pc, todo, world, inst>>
           \/ /\ OnTrack /\ pc = "unwind" /\ pc' # "body" /\ UNCHANGED <<cfg, todo, world>>
              /\ \/ UNCHANGED inst
                 \/ \E done : inst' = EvidenceEffect(StopLive(inst), done)
<1> USE DEF OnTrack, IInv, StackInv, HistShape
<1>1. CASE StartRun \/ Arming
  BY <1>1 DEF StartRun, Arming, NoRet, Before
<1>2. CASE Passing
  BY <1>2 DEF Passing
<1>3. CASE Stumbling \/ Breaking
  BY <1>3 DEF Stumbling, Breaking, Noted
<1>4. CASE TeardownStep
  BY <1>4 DEF TeardownStep, At
<1>5. CASE BodyReturns
  BY <1>5 DEF BodyReturns
<1>6. CASE CleanupPasses
  BY <1>6 DEF CleanupPasses, InCleanup, CountDown
<1>7. CASE CleanupFails
  BY <1>7 DEF CleanupFails, CountDown, Noted
<1>8. CASE CleanupReturns
  <2>1. caller.by # "none"
    BY <1>8 DEF CleanupReturns, VInv, VenueInv
  <2>2. caller.by \in Callers
    BY DEF TypesInv
  <2>3. caller.by # "tail" => ret.at \in {"fail", "none"}
    BY <1>8, <2>1, <2>2 DEF CleanupReturns, VInv, ReturnInv, Callers
  <2>4. QED BY <1>8, <2>3 DEF CleanupReturns
<1>9. CASE DeferredVenue
  BY <1>9 DEF DeferredVenue, Popping, StartCleanup
<1>10. CASE Unwinding
  BY <1>10 DEF Unwinding
<1>11. CASE Ending
  BY <1>11 DEF Ending
<1>12. CASE Resting
  BY <1>12 DEF Resting, ctl
<1>13. CASE Panic
  <2>1. pc = "cleanup" => caller.by # "none" /\ caller.by \in Callers
    BY DEF VInv, VenueInv, TypesInv
  <2>2. pc \in {"body", "cleanup"} => ret.at # "tail"
    BY <2>1 DEF VInv, ReturnInv, NoRet, Callers
  <2>3. QED BY <1>13, <2>2 DEF Panic
<1>14. QED
  BY <1>1, <1>2, <1>3, <1>4, <1>5, <1>6, <1>7, <1>8, <1>9, <1>10, <1>11, <1>12, <1>13,
     VenueSteps

\* Each live tree checks every ref, and nothing in it clears.
LEMMA TreeChecks ==
    ASSUME NEW c \in Cfgs, NEW name \in {"check-live", "check-live-rebuild"},
           NEW r \in ToSet(CheckLiveRefs(c))
    PROVE  Split(CheckLiveTree(c, name), Steps(c), Checks(c, r), Keeping(c))
<1>1. /\ CheckLiveRefs(c) \in Seq({Root} \cup ToSet(c.children))
      /\ DOMAIN CheckLiveRefs(c) = 1..Len(CheckLiveRefs(c))
  BY CfgKeys, LenProperties
<1>2. PICK i \in 1..Len(CheckLiveRefs(c)) : CheckLiveRefs(c)[i] = r
  BY <1>1 DEF ToSet
<1>3. \A k \in {Root} \cup ToSet(c.children) : Cli(name, k) \in Calm(c)
  BY CheckWork DEF CheckNames
<1>4. /\ CheckLiveTree(c, name) \in Seq(Calm(c))
      /\ Len(CheckLiveTree(c, name)) = Len(CheckLiveRefs(c))
  BY <1>1, <1>3, ForEachSeq DEF CheckLiveTree
<1>5. CheckLiveTree(c, name)[i] = Cli(name, r)
  BY <1>1, <1>2, ForEachItems DEF CheckLiveTree
<1>6. r \in {Root} \cup ToSet(c.children)
  BY <1>1, <1>2, ElementOfSeq
<1>7. Cli(name, r) \in Checks(c, r)
  <2>1. Cli(name, r) \in Steps(c)
    BY <1>3, <1>6 DEF Calm, Work
  <2>2. QED BY <2>1 DEF Checks, CheckNames, Cli, Step
<1>8. \A j \in 1..Len(CheckLiveTree(c, name)) : CheckLiveTree(c, name)[j] \in Calm(c)
  BY <1>4, ElementOfSeq
<1>9. Calm(c) \subseteq Steps(c) /\ Calm(c) \subseteq Keeping(c)
  BY DEF Calm, Work, Keeping
<1>10. QED BY <1>4, <1>5, <1>7, <1>8, <1>9 DEF Split

\* On a bed that is judged as it is at the end, every ref is checked after the last step
\* that clears.
LEMMA ProgramChecks ==
    ASSUME NEW c \in Cfgs, Rechecked(c), NEW r \in ToSet(CheckLiveRefs(c))
    PROVE  Split(BodyProgram(c), Steps(c), Checks(c, r), Keeping(c))
<1> DEFINE Checked(s) == Split(s, Steps(c), Checks(c, r), Keeping(c))
<1>1. Calm(c) \subseteq Steps(c) /\ Calm(c) \subseteq Keeping(c) /\ Work(c) \subseteq Steps(c)
      /\ Keeping(c) \subseteq Steps(c)
  BY DEF Calm, Work, Keeping
<1>2. \A s \in Seq(Calm(c)) : s \in Seq(Steps(c)) /\ s \in Seq(Keeping(c))
  BY <1>1, SeqMonotonic
<1>3. \A s \in Seq(Work(c)) : s \in Seq(Steps(c))
  BY <1>1, SeqMonotonic
<1>4. \A s \in Seq(Keeping(c)) : s \in Seq(Steps(c))
  BY <1>1, SeqMonotonic
<1>5. ASSUME NEW s \in Seq(Steps(c)), NEW t \in Seq(Keeping(c)), Checked(s)
      PROVE  Checked(s \o t) /\ s \o t \in Seq(Steps(c))
  BY <1>4, <1>5, SplitLeft
<1>6. ASSUME NEW s \in Seq(Steps(c)), NEW t \in Seq(Steps(c)), Checked(t)
      PROVE  Checked(s \o t) /\ s \o t \in Seq(Steps(c))
  BY <1>6, SplitRight
<1>7. \A name \in {"check-live", "check-live-rebuild"} :
          Checked(CheckLiveTree(c, name)) /\ CheckLiveTree(c, name) \in Seq(Steps(c))
  BY <1>2, TreeChecks, LiveWork
<1> HIDE DEF Checked
<1>8. CASE UpdateGateFor(c) = "skip" \/ c.anchor
  <2>1. RebuildPart(c) = <<>>
    BY <1>8, RebuildParts
  <2>2. RebuildPart(c) \in Seq(Keeping(c)) /\ GoldenPart(c) \in Seq(Keeping(c))
            /\ TailPart(c) \in Seq(Keeping(c))
    BY <1>2, <2>1, GoldenWork, TailSplits
  <2> DEFINE up == <<Phase("bring-up-members")>>
             feature == When(HasFeatureRun(c), <<Cli("feature-run", Root)>>)
             first == <<Bracket("live", "start")>>
             last == <<Bracket("live", "stop")>>
             tree == CheckLiveTree(c, "check-live")
  <2>3. LivePart(c) = (first \o ((up \o tree) \o feature)) \o last
    BY DEF LivePart, When, Rechecked
  <2>4. up \in Seq(Calm(c)) /\ feature \in Seq(Calm(c)) /\ first \in Seq(Calm(c))
            /\ last \in Seq(Calm(c))
    BY LiveWork
  <2>5. Checked(tree) /\ tree \in Seq(Steps(c))
    BY <1>7
  <2> HIDE DEF up, feature, first, last, tree
  <2>6. Checked(up \o tree) /\ up \o tree \in Seq(Steps(c))
    <3>1. up \in Seq(Steps(c))
      BY <1>2, <2>4
    <3>2. QED
      BY <1>6, <2>5, <3>1
  <2>7. Checked((up \o tree) \o feature) /\ (up \o tree) \o feature \in Seq(Steps(c))
    BY <1>2, <1>5, <2>4, <2>6
  <2>8. Checked(first \o ((up \o tree) \o feature))
            /\ first \o ((up \o tree) \o feature) \in Seq(Steps(c))
    BY <1>2, <1>6, <2>4, <2>7
  <2>9. Checked(LivePart(c)) /\ LivePart(c) \in Seq(Steps(c))
    BY <1>2, <1>5, <2>3, <2>4, <2>8
  <2> DEFINE before == BuildPart(c) \o BringUpPart(c) \o RevertPart(c)
  <2>10. before \in Seq(Steps(c))
    <3>1. BuildPart(c) \in Seq(Steps(c)) /\ BringUpPart(c) \in Seq(Steps(c))
              /\ RevertPart(c) \in Seq(Steps(c))
      BY <1>3, BuildWork, BringUpWork
    <3>2. QED BY <3>1
  <2>11. BodyProgram(c) = (((before \o LivePart(c)) \o RebuildPart(c)) \o GoldenPart(c))
             \o TailPart(c)
    BY DEF BodyProgram
  <2> HIDE DEF before
  <2>12. Checked(before \o LivePart(c)) /\ before \o LivePart(c) \in Seq(Steps(c))
    BY <1>6, <2>9, <2>10
  <2>13. Checked((before \o LivePart(c)) \o RebuildPart(c))
             /\ (before \o LivePart(c)) \o RebuildPart(c) \in Seq(Steps(c))
    BY <1>5, <2>2, <2>12
  <2>14. /\ Checked(((before \o LivePart(c)) \o RebuildPart(c)) \o GoldenPart(c))
         /\ ((before \o LivePart(c)) \o RebuildPart(c)) \o GoldenPart(c) \in Seq(Steps(c))
    BY <1>5, <2>2, <2>13
  <2>15. Checked(BodyProgram(c))
    BY <1>5, <2>2, <2>11, <2>14
  <2>16. QED BY <2>15 DEF Checked
<1>9. CASE UpdateGateFor(c) # "skip" /\ ~c.anchor
  <2>1. RebuildPart(c) = GateBody(c)
    BY <1>9, RebuildParts
  <2> DEFINE gate == <<Bracket("update", "start")>> \o MembersBuild(c) \o MembersDown(c)
          \o UpdateGateSteps(c)
             last == <<Bracket("update", "stop")>>
             tree == CheckLiveTree(c, "check-live-rebuild")
  <2>18. <<Bracket("update", "start")>> \in Seq(Calm(c)) /\ last \in Seq(Calm(c))
    <3>1. Bracket("update", "start") \in Calm(c) /\ Bracket("update", "stop") \in Calm(c)
      BY RebuildWork
    <3>2. QED BY <3>1
  <2>2. gate \in Seq(Steps(c))
    <3>1. /\ <<Bracket("update", "start")>> \in Seq(Steps(c)) /\ MembersBuild(c) \in Seq(Steps(c))
          /\ MembersDown(c) \in Seq(Steps(c)) /\ UpdateGateSteps(c) \in Seq(Steps(c))
      BY <1>2, <1>3, <2>18, RebuildWork
    <3>2. QED BY <3>1
  <2>3. last \in Seq(Keeping(c)) /\ VenueRecheck(c) \in Seq(Keeping(c))
            /\ FeatureAgain(c) \in Seq(Keeping(c))
    BY <1>2, <2>18, RebuildWork
  <2>4. GateBody(c) = (((gate \o MembersAgain(c)) \o VenueRecheck(c)) \o FeatureAgain(c)) \o last
    BY DEF GateBody
  <2>5. MembersAgain(c) \in Seq(Steps(c)) /\ VenueRecheck(c) \in Seq(Steps(c))
    BY <1>2, RebuildWork
  <2>6. Checked(tree) /\ tree \in Seq(Steps(c))
    BY <1>7
  <2> HIDE DEF gate, last, tree
  <2>7. Checked((gate \o MembersAgain(c)) \o VenueRecheck(c))
            /\ (gate \o MembersAgain(c)) \o VenueRecheck(c) \in Seq(Steps(c))
    <3>1. CASE InPlace(c)
      <4>1. MembersAgain(c) = <<Phase("bring-up-members")>> \o tree
        BY <1>9, <3>1 DEF MembersAgain, When, Rechecked, UpdateGateFor, tree
      <4>2. <<Phase("bring-up-members")>> \in Seq(Steps(c))
        BY <1>1, LiveWork
      <4>3. Checked(MembersAgain(c))
        BY <1>6, <2>6, <4>1, <4>2
      <4>4. Checked(gate \o MembersAgain(c)) /\ gate \o MembersAgain(c) \in Seq(Steps(c))
        BY <1>6, <2>2, <2>5, <4>3
      <4>5. QED BY <1>5, <2>3, <4>4
    <3>2. CASE ~InPlace(c)
      <4> DEFINE deploys == ForEach(RedeployKeys(c), "redeploy")
                 ready == <<Phase("rebuild-ready")>>
      <4>1. VenueRecheck(c) = (ready \o deploys) \o tree
        BY <3>2 DEF VenueRecheck, When, Rechecked, tree
      <4>2. ready \in Seq(Steps(c)) /\ deploys \in Seq(Steps(c))
        BY <1>1, <1>2, RebuildWork
      <4> HIDE DEF ready, deploys
      <4>3. ready \o deploys \in Seq(Steps(c))
        BY <4>2
      <4>4. Checked(VenueRecheck(c))
        BY <1>6, <2>6, <4>1, <4>3
      <4>5. gate \o MembersAgain(c) \in Seq(Steps(c))
        BY <2>2, <2>5
      <4>6. QED BY <1>6, <2>5, <4>4, <4>5
    <3>3. QED BY <3>1, <3>2
  <2>8. /\ Checked(((gate \o MembersAgain(c)) \o VenueRecheck(c)) \o FeatureAgain(c))
        /\ ((gate \o MembersAgain(c)) \o VenueRecheck(c)) \o FeatureAgain(c) \in Seq(Steps(c))
    BY <1>5, <2>3, <2>7
  <2>9. Checked(RebuildPart(c)) /\ RebuildPart(c) \in Seq(Steps(c))
    BY <1>5, <2>1, <2>3, <2>4, <2>8
  <2> DEFINE before == BuildPart(c) \o BringUpPart(c) \o RevertPart(c) \o LivePart(c)
  <2>10. before \in Seq(Steps(c))
    <3>1. BuildPart(c) \in Seq(Steps(c)) /\ BringUpPart(c) \in Seq(Steps(c))
              /\ RevertPart(c) \in Seq(Steps(c))
          /\ LivePart(c) \in Seq(Steps(c))
      BY <1>3, BuildWork, BringUpWork, LiveWork
    <3>2. QED BY <3>1
  <2>11. BodyProgram(c) = ((before \o RebuildPart(c)) \o GoldenPart(c)) \o TailPart(c)
    BY DEF BodyProgram
  <2> HIDE DEF before
  <2>12. Checked(before \o RebuildPart(c)) /\ before \o RebuildPart(c) \in Seq(Steps(c))
    BY <1>6, <2>9, <2>10
  <2>13. GoldenPart(c) \in Seq(Keeping(c)) /\ TailPart(c) \in Seq(Keeping(c))
    BY <1>2, GoldenWork, TailSplits
  <2>14. /\ Checked((before \o RebuildPart(c)) \o GoldenPart(c))
         /\ (before \o RebuildPart(c)) \o GoldenPart(c) \in Seq(Steps(c))
    BY <1>5, <2>12, <2>13
  <2>15. Checked(BodyProgram(c))
    BY <1>5, <2>11, <2>13, <2>14
  <2>16. QED BY <2>15 DEF Checked
<1>10. QED BY <1>8, <1>9

\* Nothing of the venue's teardown clears what was checked.
LEMMA CleanupKeeps ==
    ASSUME NEW c \in Cfgs, NEW rest \in Seq(Behind)
    PROVE  CleanupProgram(c) \o rest \in Seq(Keeping(c))
<1> DEFINE s == CleanupProgram(c) \o rest
<1>1. s \in Seq(Steps(c)) /\ Split(s, Cleaning(c), {EndMark}, Behind)
  BY CleanupSplits
<1> HIDE DEF s
<1>2. Cleaning(c) \subseteq Keeping(c) /\ Behind \subseteq Keeping(c)
  BY StepKinds DEF Cleaning, Keeping, CleanupSteps, Clearing, Behind, StopMark, Bracket, Step
<1>3. EndMark.name \notin Clearing
  BY DEF EndMark, Step, Clearing
<1>4. \A j \in 1..Len(s) : s[j] \in Cleaning(c) \cup {EndMark} \cup Behind
  <2>1. PICK i \in 1..Len(s) :
            /\ s[i] \in {EndMark}
            /\ \A j \in 1..Len(s) : (j < i => s[j] \in Cleaning(c)) /\ (i < j => s[j] \in Behind)
    BY <1>1 DEF Split
  <2>2. \A j \in 1..Len(s) : j < i \/ j = i \/ i < j
    OBVIOUS
  <2>3. QED BY <2>1, <2>2
<1>5. \A j \in 1..Len(s) : s[j] \in Keeping(c)
  <2>1. \A j \in 1..Len(s) : s[j] \in Steps(c)
    BY <1>1, ElementOfSeq
  <2>2. QED BY <1>2, <1>3, <1>4, <2>1 DEF Keeping
<1>6. s \in Seq(Keeping(c))
  BY <1>1, <1>5, Retype
<1>7. QED BY <1>6 DEF s

\* A step of a passing run leaves the check of a ref ahead, or issues it and nothing clears it.
LEMMA CheckedInvStep ==
    ASSUME IInv, VInv, LeftInv, CheckedInv, [Next]_vars
    PROVE  CheckedInv'
<1> SUFFICES ASSUME OnTrack', Rechecked(cfg'), NEW r \in ToSet(CheckLiveRefs(cfg'))
             PROVE  \/ Split(todo', Steps(cfg'), Checks(cfg', r), Keeping(cfg'))
                    \/ r \in world'.checked /\ todo' \in Seq(Keeping(cfg'))
  BY DEF CheckedInv
<1>1. WorldShape /\ cfg \in Cfgs /\ todo \in Seq(Steps(cfg)) /\ TodoInv
  BY DEF LeftInv, VInv, TodoInv
<1>2. CASE PrepareVenue
  <2>1. todo' = BodyProgram(cfg) /\ cfg' = cfg
    BY <1>2 DEF PrepareVenue
  <2>2. QED BY <1>1, <2>1, ProgramChecks
<1>3. ASSUME OnTrack, cfg' = cfg
      PROVE  \/ Split(todo, Steps(cfg), Checks(cfg, r), Keeping(cfg))
             \/ r \in world.checked /\ todo \in Seq(Keeping(cfg))
  BY <1>3 DEF CheckedInv
<1>4. CASE OnTrack /\ Passing
  <2>1. pc = "body" /\ todo # <<>> /\ todo' = Tail(todo) /\ cfg' = cfg
    BY <1>4 DEF Passing
  <2>2. Head(todo).how \in {"cli", "phase"} =>
            Head(todo) \in Work(cfg) /\ world' = Effect(cfg, Head(todo))
    BY <1>1, <1>4, <2>1, BodyHead, StepKinds DEF Passing, Ahead
  <2>3. Head(todo).how \notin {"cli", "phase"} => world' = world
    BY <1>4 DEF Passing
  <2>4. Head(todo) \in Keeping(cfg) => world.checked \subseteq world'.checked
    BY <1>1, <2>2, <2>3, WorkEffects DEF Keeping
  <2>5. Head(todo) \in Checks(cfg, r) => r \in world'.checked
    BY <1>1, <2>2, PassingEffects DEF Checks
  <2>6. CASE Split(todo, Steps(cfg), Checks(cfg, r), Keeping(cfg))
    BY <1>1, <2>1, <2>5, <2>6, SplitHead
  <2>7. CASE r \in world.checked /\ todo \in Seq(Keeping(cfg))
    <3>1. Head(todo) \in Keeping(cfg) /\ Tail(todo) \in Seq(Keeping(cfg))
      BY <2>1, <2>7
    <3>2. QED BY <2>1, <2>4, <2>7, <3>1
  <2>8. QED BY <1>3, <1>4, <2>1, <2>6, <2>7
<1>5. CASE OnTrack /\ TeardownStep
  <2>1. /\ pc = "body" /\ todo # <<>> /\ Head(todo).how = "teardown"
        /\ UNCHANGED <<cfg, world>>
        /\ \/ todo' = Tail(todo)
           \/ todo' = CleanupProgram(cfg) \o Tail(todo)
    BY <1>5 DEF TeardownStep, At, Continue, StartCleanup
  <2>2. Tail(todo) \in Seq(Behind)
    BY <1>1, <2>1, BodyHead, StepKinds
  <2>3. todo' \in Seq(Keeping(cfg))
    <3>1. Behind \subseteq Keeping(cfg)
      BY StepKinds DEF Keeping, Clearing, Behind, StopMark, Bracket, Step
    <3>2. Tail(todo) \in Seq(Keeping(cfg))
      BY <2>2, <3>1, SeqMonotonic
    <3>3. QED BY <1>1, <2>1, <2>2, <3>2, CleanupKeeps
  <2>4. r \in world.checked
    <3>1. Checks(cfg, r) \cap Behind = {} /\ Head(todo) \notin Checks(cfg, r)
      BY <2>1, StepKinds DEF Checks
    <3>2. ~Split(Tail(todo), Steps(cfg), Checks(cfg, r), Keeping(cfg))
      BY <2>2, <3>1, SplitNone
    <3>3. ~Split(todo, Steps(cfg), Checks(cfg, r), Keeping(cfg))
      BY <1>1, <3>1, <3>2, SplitHead
    <3>4. QED BY <1>3, <1>5, <2>1, <3>3
  <2>5. QED BY <2>1, <2>3, <2>4
<1>6. CASE OnTrack /\ BodyReturns
  <2>1. todo = <<>> /\ todo' = <<>> /\ UNCHANGED <<cfg, world>>
    BY <1>6 DEF BodyReturns, Return
  <2>2. QED BY <1>3, <1>6, <2>1
<1>7. CASE OnTrack /\ CleanupPasses
  <2>1. /\ pc = "cleanup" /\ Head(todo).how \in {"cli", "phase"} /\ todo' = Tail(todo)
        /\ world' = Effect(cfg, Head(todo)) /\ cfg' = cfg
    BY <1>7 DEF CleanupPasses, InCleanup
  <2>2. Head(todo) \in Cleaning(cfg) /\ todo # <<>>
    BY <1>1, <2>1, CleanupHead, StepKinds
  <2>3. world'.checked = world.checked
    BY <1>1, <2>1, <2>2, CleaningEffects
  <2>4. Head(todo) \notin Checks(cfg, r)
    BY <2>2 DEF Cleaning, CleanupSteps, Checks, CheckNames
  <2>5. CASE Split(todo, Steps(cfg), Checks(cfg, r), Keeping(cfg))
    BY <1>1, <2>1, <2>4, <2>5, SplitHead
  <2>6. CASE r \in world.checked /\ todo \in Seq(Keeping(cfg))
    <3>1. Tail(todo) \in Seq(Keeping(cfg))
      BY <2>2, <2>6
    <3>2. QED BY <2>1, <2>3, <2>6, <3>1
  <2>7. QED BY <1>3, <1>7, <2>1, <2>5, <2>6
<1>8. CASE /\ OnTrack /\ pc = "cleanup" /\ Head(todo).how = "end" /\ pc' = "body"
           /\ todo' = Tail(todo) /\ UNCHANGED <<cfg, world, inst>>
  <2>1. Head(todo) = EndMark /\ todo # <<>>
    BY <1>1, <1>8, CleanupHead, StepKinds
  <2>2. Head(todo) \notin Checks(cfg, r)
    BY <1>8 DEF Checks
  <2>3. CASE Split(todo, Steps(cfg), Checks(cfg, r), Keeping(cfg))
    BY <1>1, <1>8, <2>2, <2>3, SplitHead
  <2>4. CASE r \in world.checked /\ todo \in Seq(Keeping(cfg))
    <3>1. Tail(todo) \in Seq(Keeping(cfg))
      BY <2>1, <2>4
    <3>2. QED BY <1>8, <2>4, <3>1
  <2>5. QED BY <1>3, <1>8, <2>3, <2>4
<1>9. CASE OnTrack /\ UNCHANGED <<cfg, todo, world>>
  BY <1>3, <1>9
<1>10. QED
  BY <1>2, <1>4, <1>5, <1>6, <1>7, <1>8, <1>9, OnTrackSteps

\* A run that passes has come to the end of its way, with nothing left to do.
LEMMA PassedOnTrack ==
    ASSUME IInv, VInv, PassedRun
    PROVE  OnTrack /\ pc \in {"idle", "dead"} /\ todo = <<>>
<1>1. Ended /\ ret.at = "tail" /\ verdict.written /\ verdict.result.ok
  BY DEF PassedRun, Unwound
<1>2. hist.failed = {}
  BY <1>1 DEF VInv, TruthInv, Judged
<1>3. pc \in {"idle", "dead"}
  BY <1>1 DEF Ended
<1>4. QED BY <1>1, <1>2, <1>3 DEF OnTrack, VInv, TodoInv

\* At the start no run is on its way.
LEMMA CheckedInvInit == Init => CheckedInv
  BY DEF Init, CheckedInv, OnTrack, NoRet

\* The verdict of a run that passes is about the venue as it is at the end: check-live was
\* asked of every ref after the last step that replaced or restarted the venue.
THEOREM VerdictCoversTheRebuild == Spec => []VerdictCoversRebuild
<1>1. IInv /\ VInv /\ LeftInv /\ CheckedInv /\ [Next]_vars => CheckedInv'
  BY CheckedInvStep
<1>2. IInv /\ VInv /\ CheckedInv => VerdictCoversRebuild
  <2> SUFFICES ASSUME IInv, VInv, CheckedInv, PassedRun, Rechecked(cfg),
                      NEW r \in ToSet(CheckLiveRefs(cfg))
               PROVE  r \in world.checked
    BY DEF VerdictCoversRebuild, Rechecked
  <2>1. OnTrack /\ todo = <<>>
    BY PassedOnTrack
  <2>2. ~Split(todo, Steps(cfg), Checks(cfg, r), Keeping(cfg))
    <3>1. Len(<<>>) = 0
      OBVIOUS
    <3>2. QED BY <2>1, <3>1 DEF Split
  <2>3. QED BY <2>1, <2>2 DEF CheckedInv
<1> QED
  BY <1>1, <1>2, CheckedInvInit, Invariance, VenueInvariance, LeftInvariance, PTL DEF Spec

-----------------------------------------------------------------------------
(* The pipelines. *)

\* A landmark of the body before its update gate is one of the whole body.
LEMMA PartSplits ==
    ASSUME NEW c \in Cfgs, NEW Q, NEW part
               \in {BuildPart(c), BringUpPart(c), RevertPart(c), LivePart(c)},
           Split(part, Work(c), Q, Work(c))
    PROVE  Split(BodyProgram(c), Unproven(c), Q, Steps(c))
<1> DEFINE W == Work(c)
           build == BuildPart(c)
           up == BringUpPart(c)
           revert == RevertPart(c)
           live == LivePart(c)
           rebuild == RebuildPart(c)
           golden == GoldenPart(c)
<1>1. build \in Seq(W) /\ up \in Seq(W) /\ revert \in Seq(W) /\ live \in Seq(W)
      /\ rebuild \in Seq(W) /\ golden \in Seq(W)
  BY BuildWork, BringUpWork, LiveWork, RebuildWork, GoldenWork
<1>2. Main(c) = ((((build \o up) \o revert) \o live) \o rebuild) \o golden
  BY DEF Main
<1>3. part \in {build, up, revert, live} /\ Split(part, W, Q, W)
  OBVIOUS
<1>4. W \subseteq Unproven(c) /\ W \subseteq Steps(c)
  BY DEF Work, Unproven
<1> HIDE DEF W, build, up, revert, live, rebuild, golden
<1> DEFINE two == build \o up
           three == two \o revert
           four == three \o live
           five == four \o rebuild
<1>5. two \in Seq(W) /\ three \in Seq(W) /\ four \in Seq(W) /\ five \in Seq(W)
  BY <1>1
<1> HIDE DEF two, three, four, five
<1>6. two = build \o up /\ three = two \o revert /\ four = three \o live /\ five = four \o rebuild
      /\ Main(c) = five \o golden
  BY <1>2 DEF two, three, four, five
<1>7. part \in {build, up} => Split(two, W, Q, W)
  BY <1>1, <1>3, <1>6, SplitLeft, SplitRight
<1>8. part \in {build, up, revert} => Split(three, W, Q, W)
  BY <1>1, <1>3, <1>5, <1>6, <1>7, SplitLeft, SplitRight
<1>9. Split(four, W, Q, W)
  BY <1>1, <1>3, <1>5, <1>6, <1>8, SplitLeft, SplitRight
<1>10. Split(five, W, Q, W)
  BY <1>1, <1>5, <1>6, <1>9, SplitLeft
<1>11. Split(Main(c), W, Q, W)
  BY <1>1, <1>5, <1>6, <1>10, SplitLeft
<1>12. Split(Main(c), Unproven(c), Q, Steps(c))
  BY <1>4, <1>11, SplitWiden
<1>13. Main(c) \in Seq(Steps(c)) /\ TailPart(c) \in Seq(Steps(c))
           /\ BodyProgram(c) = Main(c) \o TailPart(c)
  BY <1>4, ProgramSplits, TailSplits, SeqMonotonic DEF W
<1>14. QED BY <1>12, <1>13, SplitLeft

\* The brackets of the build and of the live phase are closed before the evidence.
LEMMA StopsAhead ==
    ASSUME NEW c \in Cfgs, NEW p \in {"build", "live"}
    PROVE  Split(BodyProgram(c), Unproven(c), {StopMark(p)}, Steps(c))
<1> DEFINE last == <<StopMark(p)>>
           W == Work(c)
<1>1. last \in Seq(W) /\ <<Bracket(p, "start")>> \in Seq(W)
  <2>1. StopMark(p) \in W /\ Bracket(p, "start") \in W
    BY BracketWork DEF Phases, StopMark
  <2>2. QED BY <2>1
<1>2. Split(last, W, {StopMark(p)}, W)
  BY SplitOne
<1>3. CASE p = "build"
  <2> DEFINE first == <<Bracket("build", "start")>>
          \o Each(c.members, LAMBDA m : MemberBuild(c, m))
                        \o When(BuildsImage(c), ImageSteps(c, Root))
  <2>1. BuildPart(c) = first \o last
    BY <1>3 DEF BuildPart, StopMark
  <2>2. first \in Seq(W)
    <3>1. /\ Each(c.members, LAMBDA m : MemberBuild(c, m)) \in Seq(W)
          /\ When(BuildsImage(c), ImageSteps(c, Root)) \in Seq(W)
      BY BuildWork, WhenSeq
    <3>2. QED BY <1>1, <1>3, <3>1
  <2> HIDE DEF first, last, W
  <2>3. Split(BuildPart(c), W, {StopMark(p)}, W)
    BY <1>1, <1>2, <2>1, <2>2, SplitRight
  <2>4. QED BY <2>3, PartSplits DEF W
<1>4. CASE p = "live"
  <2> DEFINE tree == <<Phase("bring-up-members")>> \o CheckLiveTree(c, "check-live")
                        \o When(HasFeatureRun(c), <<Cli("feature-run", Root)>>)
             first == <<Bracket("live", "start")>> \o When(c.runRuntime, tree)
  <2>1. LivePart(c) = first \o last
    BY <1>4 DEF LivePart, StopMark
  <2>2. first \in Seq(W)
    <3>1. tree \in Seq(Calm(c))
      BY LiveWork
    <3>2. tree \in Seq(W)
      BY <3>1, SeqMonotonic DEF Calm
    <3> HIDE DEF tree
    <3>3. When(c.runRuntime, tree) \in Seq(W)
      BY <3>2 DEF When
    <3>4. QED BY <1>1, <1>4, <3>3
  <2> HIDE DEF first, last, W
  <2>3. Split(LivePart(c), W, {StopMark(p)}, W)
    BY <1>1, <1>2, <2>1, <2>2, SplitRight
  <2>4. QED BY <2>3, PartSplits DEF W
<1>5. QED BY <1>3, <1>4

\* Every bed that reaches its body is brought up, or brought back, there.
LEMMA RootRaised ==
    ASSUME NEW c \in Cfgs, ~(c.anchor /\ c.kind # "vm")
    PROVE  Split(BodyProgram(c), Unproven(c), Raising(c), Steps(c))
<1> DEFINE W == Work(c)
           R == Raising(c)
<1>1. BringUpPart(c) \in Seq(W) /\ RevertPart(c) \in Seq(W)
  BY BringUpWork
<1>2. \A name \in {"vm-create", "deploy-add", "snapshot-revert"} : Cli(name, Root) \in R
  <2>1. {"vm-create", "deploy-add", "snapshot-revert"} \subseteq PlainNames
    BY DEF PlainNames
  <2>2. \A name \in {"vm-create", "deploy-add", "snapshot-revert"} : Cli(name, Root) \in W
    BY <2>1, PlainWork, CfgKeys
  <2>3. QED BY <2>2 DEF Raising, Cli, Step
<1>3. ASSUME NEW s \in Seq(W), NEW i \in 1..Len(s), s[i] \in R
      PROVE  Split(s, W, R, W)
  <2>1. \A j \in 1..Len(s) : s[j] \in W
    BY <1>3, ElementOfSeq
  <2>2. QED BY <1>3, <2>1 DEF Split
<1>4. CASE c.kind = "vm" /\ c.anchor
  <2>1. RevertPart(c) = <<Cli("snapshot-revert", Root), Phase("revert-ready")>>
    BY <1>4 DEF RevertPart, When
  <2>2. 1 \in 1..Len(RevertPart(c)) /\ RevertPart(c)[1] = Cli("snapshot-revert", Root)
    BY <2>1
  <2>3. Split(RevertPart(c), W, R, W)
    BY <1>1, <1>2, <1>3, <2>2
  <2>4. QED BY <2>3, PartSplits
<1>5. CASE c.kind = "vm" /\ ~c.anchor
  <2> DEFINE first == <<Cli("vm-build", Root)>>
             create == <<Cli("vm-create", Root)>>
             mark == <<Step("mark", "deployed", Root)>>
             kids == <<Phase("wait-ready"), Cli("deploy-add", Root)>>
                 \o ForEach(c.localChildren, "deploy")
  <2>1. BringUpPart(c) = ((first \o create) \o mark) \o kids
    BY <1>5 DEF BringUpPart, When
  <2>2. first \in Seq(W) /\ create \in Seq(W) /\ mark \in Seq(W) /\ kids \in Seq(W)
    <3>1. {"vm-build", "vm-create", "deploy-add", "deployed", "wait-ready"} \subseteq PlainNames
      BY DEF PlainNames
    <3>2. /\ Cli("vm-build", Root) \in W /\ Cli("vm-create", Root) \in W
                 /\ Cli("deploy-add", Root) \in W
          /\ Step("mark", "deployed", Root) \in W /\ Phase("wait-ready") \in W
      BY <3>1, PlainWork, CfgKeys
    <3>3. ForEach(c.localChildren, "deploy") \in Seq(W)
      BY CfgKeys, DeployWork, ForEachSeq
    <3>4. QED BY <3>2, <3>3
  <2>3. Split(create, W, R, W)
    BY <1>2, SplitOne
  <2> HIDE DEF first, create, mark, kids, W, R
  <2>4. Split(first \o create, W, R, W) /\ first \o create \in Seq(W)
    BY <2>2, <2>3, SplitRight
  <2>5. Split((first \o create) \o mark, W, R, W) /\ (first \o create) \o mark \in Seq(W)
    <3> DEFINE both == first \o create
    <3>1. Split(both, W, R, W) /\ both \in Seq(W)
      BY <2>4
    <3> HIDE DEF both
    <3>2. Split(both \o mark, W, R, W) /\ both \o mark \in Seq(W)
      BY <2>2, <3>1, SplitLeft
    <3>3. QED BY <3>2 DEF both
  <2>6. Split(BringUpPart(c), W, R, W)
    BY <2>1, <2>2, <2>5, SplitLeft
  <2>7. QED BY <2>6, PartSplits DEF W, R
<1>6. CASE c.kind # "vm"
  <2>1. BringUpPart(c)[1] = Cli("deploy-add", Root) /\ 1 \in 1..Len(BringUpPart(c))
    <3> DEFINE add == Cli("deploy-add", Root)
               mark == Step("mark", "deployed", Root)
               ready == Phase("wait-ready")
    <3>1. \A keys \in {c.children} : ForEach(keys, "deploy") \in Seq(W)
      BY CfgKeys, DeployWork, ForEachSeq
    <3>2. add \in W /\ mark \in W /\ ready \in W
      <4>1. {"deploy-add", "deployed", "wait-ready"} \subseteq PlainNames
        BY DEF PlainNames
      <4>2. QED BY <4>1, PlainWork, CfgKeys
    <3>3. CASE c.kind = "kubevirt"
      <4>1. BringUpPart(c) = <<add, mark, ready>> \o ForEach(c.children, "deploy")
        BY <3>3 DEF BringUpPart
      <4> HIDE DEF add, mark, ready
      <4>2. QED BY <3>1, <3>2, <4>1 DEF add
    <3>4. CASE c.kind # "kubevirt"
      <4> DEFINE more == When(~InPlace(c), <<Cli("config", Root), Cli("start", Root), ready>>
                                               \o ForEach(c.children, "deploy"))
      <4>1. BringUpPart(c) = <<add, mark>> \o more
        BY <1>6, <3>4 DEF BringUpPart
      <4>2. more \in Seq(W)
        <5>1. Cli("config", Root) \in W /\ Cli("start", Root) \in W
          <6>1. {"config", "start"} \subseteq PlainNames
            BY DEF PlainNames
          <6>2. QED BY <6>1, PlainWork, CfgKeys
        <5> DEFINE x == <<Cli("config", Root), Cli("start", Root), ready>>
                \o ForEach(c.children, "deploy")
        <5>2. x \in Seq(W)
          BY <3>1, <3>2, <5>1
        <5> HIDE DEF x
        <5>3. When(~InPlace(c), x) \in Seq(W)
          BY <5>2 DEF When
        <5>4. QED BY <5>3 DEF x
      <4> HIDE DEF add, mark, ready, more
      <4>3. QED BY <3>2, <4>1, <4>2 DEF add
    <3>5. QED BY <3>3, <3>4
  <2>2. Split(BringUpPart(c), W, R, W)
    BY <1>1, <1>2, <1>3, <2>1
  <2>3. QED BY <2>2, PartSplits
<1>7. QED BY <1>4, <1>5, <1>6

\* The instruments keep their fields.
InstFields == {"open", "rows", "piped", "late", "pipesDone"}

\* No step changes which fields the instruments' state has.
LEMMA InstShapeStep ==
    ASSUME IInv, VenueInv, PipesInv, [Next]_vars
    PROVE  DOMAIN inst' = InstFields /\ (pc' \in Before => inst' = NoInst)
<1> USE DEF PipesInv, InstFields
<1>1. /\ \A p, edge, done : DOMAIN BracketEffect(p, edge, done) = InstFields
      /\ \A done : DOMAIN EvidenceEffect(inst, done) = InstFields
      /\ \A done : DOMAIN EvidenceEffect(StopLive(inst), done) = InstFields
  BY DEF BracketEffect, EvidenceEffect, StopLive
<1>2. CASE StartRun
  BY <1>2 DEF StartRun, NoInst
<1>3. CASE Arming \/ PrepareVenue \/ Ending \/ Resting
  BY <1>3 DEF Arming, PrepareVenue, Before, Ending, Resting, ctl
<1>4. CASE Passing
  <2>1. pc' = "body"
    BY <1>4 DEF Passing
  <2>2. QED BY <1>1, <1>4, <2>1 DEF Passing, Before
<1>5. CASE Stumbling
  BY <1>5 DEF Stumbling, Before
<1>6. CASE Breaking
  <2>1. pc' \notin Before
    BY <1>6 DEF Breaking, FailTail, StartCleanup, Before
  <2>2. QED BY <1>1, <1>6, <2>1 DEF Breaking
<1>7. CASE TeardownStep \/ BodyReturns
  BY <1>7 DEF TeardownStep, At, Continue, StartCleanup, BodyReturns, Return, Before
<1>8. CASE CleanupPasses \/ CleanupFails \/ CleanupReturns
  BY <1>8 DEF CleanupPasses, CleanupFails, CleanupReturns, InCleanup, Before
<1>9. CASE DeferredVenue \/ Panic
  BY <1>9 DEF DeferredVenue, Popping, StartCleanup, Panic, Before
<1>10. CASE Unwinding
  <2>1. pc' \notin Before
    BY <1>10 DEF Unwinding, Before
  <2>2. QED BY <1>1, <1>10, <2>1 DEF Unwinding
<1>11. QED
  BY <1>2, <1>3, <1>4, <1>5, <1>6, <1>7, <1>8, <1>9, <1>10, VenueSteps

\* The pipelines have run over every capture of the build and of the live phase.
Piped == inst.pipesDone /\ EarlyCaptures(cfg) \subseteq inst.piped

\* They are still to run, over a venue that is up, or will be, with every row in.
Piping ==
    /\ pc = "body" /\ ~inst.pipesDone
    /\ Split(todo, Unproven(cfg), {EvidenceMark}, Unproven(cfg))
    /\ Root \in world.live \/ Split(todo, Unproven(cfg), Raising(cfg), Steps(cfg))
    /\ \A p \in {"build", "live"} :
          \/ InPhase(p) \subseteq inst.rows
          \/ Split(todo, Unproven(cfg), {StopMark(p)}, Steps(cfg))

\* A passing run comes to its evidence with the venue up and every row in.
LEMMA PipesInvStep ==
    ASSUME IInv, VInv, LeftInv, PipesInv, [Next]_vars
    PROVE  PipesInv'
<1>1. DOMAIN inst = InstFields
  BY DEF PipesInv, InstFields
<1>2. SUFFICES ASSUME OnTrack'
               PROVE  inst'.late = {} /\ (Piped' \/ Piping')
  <2>1. DOMAIN inst' = {"open", "rows", "piped", "late", "pipesDone"} /\ (pc' \in Before
            => inst' = NoInst)
    BY InstShapeStep DEF VInv, InstFields
  <2>2. QED BY <2>1 DEF PipesInv, Piped, Piping
<1>3. OnTrack => inst.late = {} /\ (Piped \/ Piping)
  BY DEF PipesInv, Piped, Piping
<1>4. WorldShape /\ cfg \in Cfgs /\ todo \in Seq(Steps(cfg)) /\ TodoInv
  BY DEF LeftInv, VInv, TodoInv
<1>5. CASE PrepareVenue
  <2>1. /\ pc' = "body" /\ todo' = BodyProgram(cfg) /\ UNCHANGED <<cfg, inst>>
        /\ ~(cfg.anchor /\ cfg.kind # "vm")
    BY <1>5 DEF PrepareVenue
  <2>2. inst = NoInst
    BY <1>5 DEF PrepareVenue, PipesInv, Before
  <2>3. inst'.late = {} /\ ~inst'.pipesDone
    BY <2>1, <2>2 DEF NoInst
  <2>4. Piping'
    BY <1>4, <2>1, <2>3, ProgramSplits, RootRaised, StopsAhead DEF Piping
  <2>5. QED BY <2>3, <2>4
<1>6. CASE OnTrack /\ Passing
  <2> DEFINE s == Head(todo)
  <2>1. pc = "body" /\ pc' = "body" /\ todo # <<>> /\ todo' = Tail(todo) /\ UNCHANGED cfg
    BY <1>6 DEF Passing
  <2>2. CASE Piped
    <3>1. inst'.pipesDone /\ inst'.late = inst.late /\ inst.piped \subseteq inst'.piped
      BY <1>1, <1>6, <2>2 DEF Passing, BracketEffect, EvidenceEffect, Piped, InstFields
    <3>2. QED BY <1>3, <1>6, <2>1, <2>2, <3>1 DEF Piped
  <2>3. CASE Piping /\ s.how = "evidence"
    <3>1. s \notin Unproven(cfg) /\ s \notin Raising(cfg) /\ \A p : s # StopMark(p)
      BY <2>3 DEF Unproven, Raising, StopMark, Bracket, Step
    <3>2. Root \in world.live
      BY <1>4, <2>3, <3>1, SplitHead DEF Piping
    <3>3. ASSUME NEW p \in {"build", "live"}
          PROVE  InPhase(p) \subseteq inst.rows
      <4> DEFINE Q == {StopMark(p)}
      <4>1. s \notin Q
        BY <3>1
      <4> HIDE DEF Q
      <4>3. ~Split(todo, Unproven(cfg), Q, Steps(cfg))
        BY <1>4, <3>1, <4>1, SplitHead
      <4>4. QED BY <2>3, <4>3 DEF Piping, Q
    <3>4. EarlyCaptures(cfg) \subseteq inst.rows
      BY <3>3 DEF EarlyCaptures, InPhase
    <3>5. inst' = EvidenceEffect(inst, inst.rows)
      BY <1>6, <2>3 DEF Passing
    <3>6. inst'.pipesDone /\ inst'.late = {} /\ inst.rows \subseteq inst'.piped
      BY <1>1, <1>3, <1>6, <2>3, <3>2, <3>5 DEF EvidenceEffect, Piping, InstFields
    <3>7. QED BY <2>1, <3>4, <3>6 DEF Piped
  <2>4. CASE Piping /\ s.how # "evidence"
    <3>1. s \notin {EvidenceMark}
              /\ Split(Tail(todo), Unproven(cfg), {EvidenceMark}, Unproven(cfg))
      BY <1>4, <2>4, SplitHead DEF Piping, EvidenceMark, Step
    <3>2. inst'.late = inst.late /\ ~inst'.pipesDone /\ inst.rows \subseteq inst'.rows
      BY <1>1, <1>6, <2>4 DEF Passing, BracketEffect, Piping, InstFields
    <3>3. s.how \in {"cli", "phase"} => s \in Work(cfg) /\ world' = Effect(cfg, s)
      BY <1>4, <1>6, <2>1, BodyHead, StepKinds DEF Passing, Ahead
    <3>4. s.how \notin {"cli", "phase"} => world' = world
      BY <1>6 DEF Passing
    <3>5. Root \in world.live => Root \in world'.live
      BY <1>4, <3>3, <3>4, WorkEffects
    <3>6. s \in Raising(cfg) => Root \in world'.live
      <4>1. s \in Raising(cfg) => s.how = "cli" /\ CanPass(s)
        BY <1>6 DEF Passing, Raising
      <4>2. QED BY <1>4, <3>3, <4>1, PassingEffects
    <3>7. Root \in world'.live \/ Split(Tail(todo), Unproven(cfg), Raising(cfg), Steps(cfg))
      BY <1>4, <2>4, <3>5, <3>6, SplitHead DEF Piping
    <3>8. ASSUME NEW p \in {"build", "live"}
          PROVE  \/ InPhase(p) \subseteq inst'.rows
                 \/ Split(Tail(todo), Unproven(cfg), {StopMark(p)}, Steps(cfg))
      <4>1. CASE InPhase(p) \subseteq inst.rows
        BY <3>2, <4>1
      <4>2. CASE s = StopMark(p)
        <5>1. s.how = "bracket" /\ s.tgt = p /\ s.name = "stop"
          BY <4>2 DEF StopMark, Bracket, Step
        <5>2. inst' = BracketEffect(p, "stop", InPhase(p))
          BY <1>6, <5>1 DEF Passing
        <5>3. QED BY <1>1, <5>2 DEF BracketEffect, InstFields
      <4>3. CASE Split(todo, Unproven(cfg), {StopMark(p)}, Steps(cfg))
        BY <1>4, <4>2, <4>3, SplitHead
      <4>4. QED BY <2>4, <4>1, <4>3 DEF Piping
    <3>9. \A p : InPhase(p)' = InPhase(p)
      BY <2>1 DEF InPhase
    <3>10. Piping'
      BY <2>1, <3>1, <3>2, <3>7, <3>8, <3>9 DEF Piping
    <3>11. QED BY <1>3, <1>6, <3>2, <3>10
  <2>5. QED BY <1>3, <1>6, <2>2, <2>3, <2>4
<1>7. CASE OnTrack /\ TeardownStep
  <2>1. /\ pc = "body" /\ todo # <<>> /\ Head(todo).how = "teardown" /\ UNCHANGED <<cfg, inst>>
    BY <1>7 DEF TeardownStep, At
  <2>2. Tail(todo) \in Seq(Behind)
    BY <1>4, <2>1, BodyHead, StepKinds
  <2>3. Head(todo) # EvidenceMark /\ EvidenceMark \notin Behind
    BY <2>1, StepKinds
  <2>4. ~Split(Tail(todo), Unproven(cfg), {EvidenceMark}, Unproven(cfg))
    BY <2>2, <2>3, SplitNone
  <2>5. ~Piping
    BY <1>4, <2>3, <2>4, SplitHead DEF Piping
  <2>6. QED BY <1>3, <1>7, <2>1, <2>5 DEF Piped
<1>8. CASE OnTrack /\ BodyReturns
  <2>1. todo = <<>> /\ UNCHANGED <<cfg, inst>>
    BY <1>8 DEF BodyReturns
  <2>2. ~Piping
    <3>1. Len(<<>>) = 0
      OBVIOUS
    <3>2. QED BY <2>1, <3>1 DEF Piping, Split
  <2>3. QED BY <1>3, <1>8, <2>1, <2>2 DEF Piped
<1>9. CASE OnTrack /\ CleanupPasses
  <2>1. pc = "cleanup" /\ UNCHANGED <<cfg, inst>>
    BY <1>9 DEF CleanupPasses, InCleanup
  <2>2. QED BY <1>3, <1>9, <2>1 DEF Piped, Piping
<1>10. CASE OnTrack /\ pc # "body" /\ UNCHANGED <<cfg, inst>>
  BY <1>3, <1>10 DEF Piped, Piping
<1>11. CASE OnTrack /\ UNCHANGED <<cfg, pc, todo, world, inst>>
  <2>1. \A p : InPhase(p)' = InPhase(p)
    BY <1>11 DEF InPhase
  <2>2. QED BY <1>3, <1>11, <2>1 DEF Piped, Piping
<1>12. CASE /\ OnTrack /\ pc = "unwind" /\ UNCHANGED cfg
            /\ \E done : inst' = EvidenceEffect(StopLive(inst), done)
  <2>1. Piped
    BY <1>3, <1>12 DEF Piping
  <2>2. inst'.pipesDone /\ inst'.late = inst.late /\ inst'.piped = inst.piped
    BY <1>1, <1>12, <2>1 DEF EvidenceEffect, StopLive, Piped, InstFields
  <2>3. QED BY <1>3, <1>12, <2>1, <2>2 DEF Piped
<1>13. CASE /\ OnTrack /\ pc = "unwind" /\ pc' # "body" /\ UNCHANGED <<cfg, todo, world>>
            /\ \/ UNCHANGED inst
               \/ \E done : inst' = EvidenceEffect(StopLive(inst), done)
  BY <1>10, <1>12, <1>13
<1>14. CASE /\ OnTrack /\ pc = "cleanup" /\ Head(todo).how = "end" /\ pc' = "body"
            /\ todo' = Tail(todo) /\ UNCHANGED <<cfg, world, inst>>
  BY <1>10, <1>14
<1>15. QED
  BY <1>2, <1>5, <1>6, <1>7, <1>8, <1>9, <1>11, <1>13, <1>14, OnTrackSteps

\* At the start no run is on its way.
LEMMA PipesInvInit == Init => PipesInv
  BY DEF Init, PipesInv, OnTrack, NoRet, NoInst, Before

\* On a run that passes the pipelines of every capture of the build and of the live phase
\* have run, and none ran when the venue was gone.
THEOREM PipelinesSeeTheVenue == Spec => []PipelinesSeeVenue
<1>1. IInv /\ VInv /\ LeftInv /\ PipesInv /\ [Next]_vars => PipesInv'
  BY PipesInvStep
<1>2. IInv /\ VInv /\ PipesInv => PipelinesSeeVenue
  <2>1. IInv /\ VInv /\ PipesInv /\ PassedRun =>
            inst.late = {} /\ EarlyCaptures(cfg) \subseteq inst.piped
    BY PassedOnTrack DEF PipesInv
  <2>2. QED BY <2>1 DEF PipelinesSeeVenue, EarlyCaptures
<1> QED
  BY <1>1, <1>2, PipesInvInit, Invariance, VenueInvariance, LeftInvariance, PTL DEF Spec

-----------------------------------------------------------------------------
(* The golden snapshot and the overlay. *)

\* Every step leaves the host alone, works on it, cleans it, prepares it or starts a run.
LEMMA HostSteps ==
    ASSUME IInv, VInv, [Next]_vars
    PROVE  \/ UNCHANGED <<cfg, world>>
           \/ /\ pc = "body" /\ ~venue.tornDown /\ todo # <<>> /\ UNCHANGED cfg
              /\ Head(todo) \in Work(cfg)
              /\ world' \in PartialEffects(cfg, Head(todo)) \cup {Effect(cfg, Head(todo))}
           \/ /\ pc = "cleanup" /\ UNCHANGED cfg
              /\ Head(todo) \in Cleaning(cfg)
              /\ world' \in PartialEffects(cfg, Head(todo)) \cup {Effect(cfg, Head(todo))}
           \/ PrepareVenue \/ StartRun
<1>1. TodoInv
  BY DEF VInv
<1>2. pc = "body" /\ todo # <<>> /\ Head(todo).how \in {"cli", "phase"} =>
          ~venue.tornDown /\ Head(todo) \in Work(cfg)
  BY <1>1, BodyHead, StepKinds DEF Ahead
<1>3. pc = "cleanup" /\ Head(todo).how \in {"cli", "phase"} => Head(todo) \in Cleaning(cfg)
  BY <1>1, CleanupHead, StepKinds
<1>4. CASE Passing
  BY <1>2, <1>4 DEF Passing
<1>5. CASE Stumbling
  BY <1>2, <1>5 DEF Stumbling
<1>6. CASE Breaking
  BY <1>2, <1>6 DEF Breaking
<1>7. CASE CleanupPasses
  BY <1>3, <1>7 DEF CleanupPasses, InCleanup
<1>8. CASE CleanupFails
  BY <1>3, <1>8 DEF CleanupFails, InCleanup
<1>9. CASE Arming \/ Ending \/ Resting \/ Unwinding
  BY <1>9 DEF Arming, Ending, Resting, Unwinding
<1>10. CASE TeardownStep \/ BodyReturns \/ CleanupReturns \/ DeferredVenue \/ Panic
  BY <1>10 DEF TeardownStep, BodyReturns, CleanupReturns, DeferredVenue, Panic
<1>11. QED
  BY <1>4, <1>5, <1>6, <1>7, <1>8, <1>9, <1>10, VenueSteps

\* Only a bed that captures its golden on finalize has one, and no step of it removes it.
LEMMA GoldenStep ==
    ASSUME IInv, VInv, LeftInv, GoldenInv, [Next]_vars
    PROVE  GoldenInv' /\ (world.golden => world'.golden)
<1>1. WorldShape /\ cfg \in Cfgs
  BY DEF LeftInv, VInv, TodoInv
<1>2. CASE UNCHANGED <<cfg, world>>
  BY <1>2 DEF GoldenInv
<1>3. CASE /\ UNCHANGED cfg /\ Head(todo) \in Work(cfg)
           /\ world' \in PartialEffects(cfg, Head(todo)) \cup {Effect(cfg, Head(todo))}
  <2>1. /\ world'.golden => world.golden \/ Head(todo).name = "snapshot-capture"
        /\ world.golden => world'.golden
    BY <1>1, <1>3, WorkEffects
  <2>2. Head(todo).name = "snapshot-capture" => CapturesGolden(cfg)
    BY <1>3 DEF Work
  <2>3. QED BY <1>3, <2>1, <2>2 DEF GoldenInv, CapturesGolden
<1>4. CASE /\ UNCHANGED cfg /\ Head(todo) \in Cleaning(cfg)
           /\ world' \in PartialEffects(cfg, Head(todo)) \cup {Effect(cfg, Head(todo))}
  <2>1. /\ world'.golden => world.golden
        /\ world.golden /\ cfg.kind = "vm" /\ cfg.onFinalize => world'.golden
    BY <1>1, <1>4, CleaningEffects
  <2>2. QED BY <1>4, <2>1 DEF GoldenInv
<1>5. CASE PrepareVenue
  <2>1. UNCHANGED cfg /\ (world'.golden <=> world.golden)
    BY <1>1, <1>5, PreparedVenue DEF PrepareVenue
  <2>2. QED BY <2>1 DEF GoldenInv
<1>6. CASE StartRun
  <2>1. world'.golden = world.golden /\ cfg'.kind = cfg.kind /\ cfg'.onFinalize = cfg.onFinalize
    BY <1>1, <1>6 DEF StartRun, SameBed, WorldShape, WorldFields
  <2>2. QED BY <2>1 DEF GoldenInv
<1>7. QED BY <1>2, <1>3, <1>4, <1>5, <1>6, HostSteps

\* At the start there is no golden and no venue.
LEMMA GoldenInvInit == Init => GoldenInv /\ SeededInv
  BY DEF Init, GoldenInv, SeededInv

\* A captured golden snapshot survives every later step of this run and of the next ones.
THEOREM GoldenIsKept == Spec => GoldenSurvives
<1>1. IInv /\ VInv /\ LeftInv /\ GoldenInv /\ [Next]_vars =>
          GoldenInv' /\ [world.golden => world'.golden]_vars
  BY GoldenStep
<1> QED
  BY <1>1, GoldenInvInit, Invariance, VenueInvariance, LeftInvariance, PTL
     DEF Spec, GoldenSurvives

\* The body is entered by the preparation of the venue, and left for its teardown.
LEMMA BodyIsEntered ==
    ASSUME IInv, VInv, [Next]_vars, pc' = "body", ~venue'.tornDown
    PROVE  (pc = "body" /\ ~venue.tornDown) \/ PrepareVenue
<1>1. VenueInv
  BY DEF VInv
<1>2. CASE Passing
  BY <1>1, <1>2 DEF Passing, VenueInv
<1>3. CASE Stumbling \/ Resting
  BY <1>3 DEF Stumbling, Resting, ctl
<1>4. CASE Breaking \/ BodyReturns \/ Panic
  BY <1>4 DEF Breaking, FailTail, StartCleanup, BodyReturns, Return, Panic
<1>5. CASE TeardownStep
  BY <1>1, <1>5 DEF TeardownStep, At, StartCleanup, Continue
<1>6. CASE CleanupPasses \/ CleanupFails \/ CleanupReturns
  BY <1>1, <1>6 DEF CleanupPasses, CleanupFails, CleanupReturns, InCleanup, VenueInv
<1>7. CASE DeferredVenue \/ Unwinding \/ Ending
  BY <1>7 DEF DeferredVenue, Popping, StartCleanup, Unwinding, Ending
<1>8. CASE StartRun \/ Arming
  BY <1>8 DEF StartRun, Arming, Before
<1>9. QED
  BY <1>2, <1>3, <1>4, <1>5, <1>6, <1>7, <1>8, VenueSteps

\* The root's overlay entry, once persisted, is there until the venue's teardown.
LEMMA SeededStep ==
    ASSUME IInv, VInv, LeftInv, SeededInv, [Next]_vars
    PROVE  SeededInv' /\ (world'.live \ world.live) \cap Persisted(cfg) \subseteq world'.seeded
<1>1. WorldShape /\ cfg \in Cfgs /\ VenueInv
  BY DEF LeftInv, VInv, TodoInv
<1>2. pc' = "body" /\ ~venue'.tornDown => (pc = "body" /\ ~venue.tornDown) \/ PrepareVenue
  BY BodyIsEntered
<1>3. pc = "body" /\ ~venue.tornDown /\ Root \in Persisted(cfg) => Root \in world.seeded
  BY DEF SeededInv
<1>4. CASE UNCHANGED <<cfg, world>>
  <2>1. Persisted(cfg') = Persisted(cfg)
    BY <1>4
  <2>2. pc' = "body" /\ ~venue'.tornDown /\ PrepareVenue /\ Root \in Persisted(cfg)
            => Root \in world'.seeded
    BY <1>1, PreparedVenue
  <2>3. QED BY <1>2, <1>3, <1>4, <2>1, <2>2 DEF SeededInv
<1>5. CASE /\ pc = "body" /\ ~venue.tornDown /\ UNCHANGED cfg /\ Head(todo) \in Work(cfg)
           /\ world' \in PartialEffects(cfg, Head(todo)) \cup {Effect(cfg, Head(todo))}
  <2>1. /\ Root \in world.seeded => Root \in world'.seeded
        /\ (Root \in Persisted(cfg) => Root \in world.seeded) =>
               (world'.live \ world.live) \cap Persisted(cfg) \subseteq world'.seeded
    BY <1>1, <1>5, WorkEffects
  <2>2. QED BY <1>3, <1>5, <2>1 DEF SeededInv
<1>6. CASE /\ pc = "cleanup" /\ UNCHANGED cfg /\ Head(todo) \in Cleaning(cfg)
           /\ world' \in PartialEffects(cfg, Head(todo)) \cup {Effect(cfg, Head(todo))}
  <2>1. world'.live \subseteq world.live
    BY <1>1, <1>6, CleaningEffects
  <2>2. ~(pc' = "body" /\ ~venue'.tornDown)
    BY <1>2, <1>6 DEF PrepareVenue
  <2>3. QED BY <2>1, <2>2 DEF SeededInv
<1>7. CASE PrepareVenue
  <2>1. UNCHANGED cfg /\ world'.live \subseteq world.live
            /\ Persisted(cfg) \subseteq world'.seeded
    BY <1>1, <1>7, PreparedVenue DEF PrepareVenue
  <2>2. QED BY <2>1 DEF SeededInv
<1>8. CASE StartRun
  <2>1. world'.live = world.live /\ pc' # "body"
    BY <1>1, <1>8 DEF StartRun, WorldShape, WorldFields
  <2>2. QED BY <2>1 DEF SeededInv
<1>9. QED BY <1>4, <1>5, <1>6, <1>7, <1>8, HostSteps

\* Whatever comes up with arbitration fields comes up with them in the overlay.
THEOREM ArbitrationIsSeeded == Spec => ArbitrationSeeded
<1>1. IInv /\ VInv /\ LeftInv /\ SeededInv /\ [Next]_vars =>
          /\ SeededInv'
          /\ [(world'.live \ world.live) \cap Persisted(cfg) \subseteq world'.seeded]_vars
  BY SeededStep
<1> QED
  BY <1>1, GoldenInvInit, Invariance, VenueInvariance, LeftInvariance, PTL
     DEF Spec, ArbitrationSeeded

-----------------------------------------------------------------------------
(* What check-live sees. *)

\* The steps that run check-live, and those that do not.
Looking(c) == {s \in Steps(c) : s.name \in CheckNames}
Blind(c) == {s \in Steps(c) : s.name \notin CheckNames}

\* The steps after which the root runs, and those after which it may not.
Starting(c) ==
    {s \in Work(c) :
        /\ s.how = "cli"
        /\ \/ s.name \in {"vm-create", "start", "update", "gate-restart-start", "gate-restart",
                          "snapshot-revert"}
           \/ s.name = "deploy-add" /\ c.kind # "pod"}
Stopping(c) ==
    {s \in Work(c) :
        s.name \in {"gate-restart-stop", "snapshot-stop-keeper", "snapshot-stop-keeper-force"}}

\* The steps after which t is up, and those after which it may not be.
Bringing(c, t) ==
    {s \in Work(c) :
        \/ /\ s.how = "cli"
           /\ \/ s.name \in {"vm-create", "deploy-add", "update"} /\ t = Root
              \/ s.name \in {"deploy-add", "update"} /\ t \in InGuest(c)
              \/ s.name \in {"deploy", "redeploy"} /\ t = s.tgt
              \/ s.name = "snapshot-revert" /\ t \in {Root} \cup DieWithRoot(c)
        \/ s.how = "phase" /\ s.name = "bring-up-members" /\ t \in ToSet(c.members)}
Taking(c, t) ==
    {s \in Work(c) :
        \/ s.name = "update" /\ t \in Discarded(c)
        \/ s.name = "members-down" /\ t \in ToSet(c.members)}

\* What the runner itself deploys: no nested child of an in-place root.
OwnKids(c) == IF InPlace(c) THEN {} ELSE ToSet(c.children)
Deployed(c) == {Root} \cup OwnKids(c) \cup ToSet(c.members)

\* Whenever the steps s are issued on the host w, each check-live finds what it looks for: it
\* is there now, or a step before the check brings it, and none between takes it away.
Ready(c, w, s) ==
    /\ \/ w.running /\ Primed(s, Looking(c), Starting(c), Stopping(c))
       \/ Fed(s, Looking(c), Starting(c), Stopping(c))
    /\ \A t \in Deployed(c) :
           \/ t \in w.live /\ Primed(s, Looking(c), Bringing(c, t), Taking(c, t))
           \/ Fed(s, Looking(c), Bringing(c, t), Taking(c, t))

ReadyInv == pc = "body" /\ ~venue.tornDown => Ready(cfg, world, todo)

\* The step s takes the host from w to v and brings up what it is to bring up.
Moves(c, s, w, v) ==
    /\ s \in Starting(c) => v.running
    /\ w.running /\ s \notin Stopping(c) => v.running
    /\ \A t \in Deployed(c) : /\ s \in Bringing(c, t) => t \in v.live
                              /\ t \in w.live /\ s \notin Taking(c, t) => t \in v.live

\* A step that passes keeps the rest of the program ready.
LEMMA ReadyTail ==
    ASSUME NEW c, NEW w, NEW v, NEW s \in Seq(Steps(c)), s # <<>>, Ready(c, w, s),
           Moves(c, Head(s), w, v)
    PROVE  Ready(c, v, Tail(s))
<1>1. \/ v.running /\ Primed(Tail(s), Looking(c), Starting(c), Stopping(c))
      \/ Fed(Tail(s), Looking(c), Starting(c), Stopping(c))
  BY FedTail DEF Ready, Moves
<1>2. ASSUME NEW t \in Deployed(c)
      PROVE  \/ t \in v.live /\ Primed(Tail(s), Looking(c), Bringing(c, t), Taking(c, t))
             \/ Fed(Tail(s), Looking(c), Bringing(c, t), Taking(c, t))
  BY FedTail DEF Ready, Moves
<1>3. QED BY <1>1, <1>2 DEF Ready

\* So does one that is tried again, when neither attempt brings up anything and the second
\* stops no more than the first.
LEMMA ReadyAgain ==
    ASSUME NEW c, NEW w, NEW v, NEW s \in Seq(Steps(c)), s # <<>>, Ready(c, w, s),
           Moves(c, Head(s), w, v), NEW r \in Steps(c), r \notin Looking(c),
           Head(s) \notin Starting(c), r \in Stopping(c) => Head(s) \in Stopping(c),
           \A t : r \notin Taking(c, t)
    PROVE  Ready(c, v, <<r>> \o Tail(s))
<1>1. Tail(s) \in Seq(Steps(c)) /\ <<r>> \in Seq(Steps(c))
  BY LenProperties
<1>2. \A Q : r \notin Q => Lacks(<<r>>, Q)
  BY DEF Lacks
<1>3. Ready(c, v, Tail(s))
  BY ReadyTail
<1>4. ASSUME NEW Q, NEW C, Fed(Tail(s), Looking(c), Q, C)
      PROVE  Fed(<<r>> \o Tail(s), Looking(c), Q, C)
  BY <1>1, <1>2, <1>4, FedConcat
<1>5. ASSUME NEW Q, NEW C, r \notin C, Primed(Tail(s), Looking(c), Q, C)
      PROVE  Primed(<<r>> \o Tail(s), Looking(c), Q, C)
  BY <1>1, <1>2, <1>5, FedConcat
<1>6. \/ v.running /\ Primed(<<r>> \o Tail(s), Looking(c), Starting(c), Stopping(c))
      \/ Fed(<<r>> \o Tail(s), Looking(c), Starting(c), Stopping(c))
  <2>1. CASE r \notin Stopping(c)
    BY <1>3, <1>4, <1>5, <2>1 DEF Ready
  <2>2. CASE r \in Stopping(c)
    <3>1. Fed(Tail(s), Looking(c), Starting(c), Stopping(c))
      BY <2>2, FedTail DEF Ready
    <3>2. QED BY <1>4, <3>1
  <2>3. QED BY <2>1, <2>2
<1>7. ASSUME NEW t \in Deployed(c)
      PROVE  \/ t \in v.live /\ Primed(<<r>> \o Tail(s), Looking(c), Bringing(c, t), Taking(c, t))
             \/ Fed(<<r>> \o Tail(s), Looking(c), Bringing(c, t), Taking(c, t))
  BY <1>3, <1>4, <1>5 DEF Ready
<1>8. QED BY <1>6, <1>7 DEF Ready

\* What a step of the body that passes does to the host is what its names say.
LEMMA WorkMoves ==
    ASSUME WorldShape, NEW c \in Cfgs, NEW s \in Work(c), s.how = "cli" => CanPass(s)
    PROVE  Moves(c, s, world, Effect(c, s))
<1> USE DEF WorldShape, WorldFields
<1>1. InGuest(c) \cap Discarded(c) = {} /\ Root \notin Discarded(c)
  BY BedPlaces DEF InGuest, Discarded
<1>2. CASE s.name = "bring-up-members"
  <2>1. Effect(c, s) = MembersUp(c, ToSet(c.members))
    BY <1>2 DEF Effect, BuildEffect, CleanupSteps
  <2>2. Effect(c, s).running = world.running
            /\ Effect(c, s).live = world.live \cup ToSet(c.members)
    BY <2>1 DEF MembersUp
  <2>3. QED BY <1>2, <2>2 DEF Moves, Starting, Bringing
<1>3. CASE s.name = "members-down"
  <2>1. Effect(c, s) = MembersGone(ToSet(c.members))
    BY <1>3 DEF Effect, BuildEffect, CleanupSteps
  <2>2. Effect(c, s).running = world.running
            /\ Effect(c, s).live = world.live \ ToSet(c.members)
    BY <2>1 DEF MembersGone
  <2>3. QED BY <1>3, <2>2 DEF Moves, Starting, Bringing, Taking
<1>4. CASE s.name \in {"vm-create", "deploy-add", "start", "deploy", "redeploy"}
  <2>1. GateEffect(c, s) = world
    BY <1>4 DEF GateEffect
  <2>2. s.how = "cli" => Effect(c, s) = BuildEffect(c, s)
    BY <1>4, <2>1 DEF Effect
  <2>3. s.how # "cli" => Effect(c, s) = world
    BY <1>4, <2>1 DEF Effect
  <2>4. s.how # "cli" => Moves(c, s, world, Effect(c, s))
    BY <1>4, <2>3 DEF Moves, Starting, Bringing
  <2>5. world.live \subseteq BuildEffect(c, s).live /\ (world.running => BuildEffect(c, s).running)
    BY <1>4 DEF BuildEffect
  <2>6. /\ s.name = "vm-create" => /\ Root \in BuildEffect(c, s).live
                                   /\ BuildEffect(c, s).running
        /\ s.name = "deploy-add" => /\ {Root} \cup InGuest(c) \subseteq BuildEffect(c, s).live
                                    /\ c.kind # "pod" => BuildEffect(c, s).running
        /\ s.name = "start" => BuildEffect(c, s).running
        /\ s.name \in {"deploy", "redeploy"} => s.tgt \in BuildEffect(c, s).live
    BY <1>4 DEF BuildEffect
  <2>7. Moves(c, s, world, BuildEffect(c, s))
    BY <1>4, <2>5, <2>6 DEF Moves, Starting, Bringing
  <2>8. QED BY <2>2, <2>4, <2>7
<1>5. CASE s.name \notin {"bring-up-members", "members-down", "vm-create", "deploy-add", "start",
                          "deploy", "redeploy"}
  <2>1. BuildEffect(c, s) = world
    BY <1>5 DEF BuildEffect
  <2>2. Effect(c, s) = GateEffect(c, s)
    <3>1. s.name \notin CleanupSteps
      BY DEF Work
    <3>2. QED BY <1>5, <2>1, <3>1 DEF Effect, CleanupSteps
  <2>3. CASE s.name = "update"
    <3>1. /\ GateEffect(c, s).running
          /\ GateEffect(c, s).live = (world.live \ Discarded(c)) \cup {Root} \cup InGuest(c)
      BY <2>3 DEF GateEffect
    <3>2. QED BY <2>2, <2>3, <3>1 DEF Moves, Starting, Bringing, Taking, Stopping
  <2>4. CASE s.name = "snapshot-revert"
    <3>1. /\ GateEffect(c, s).running
          /\ GateEffect(c, s).live = world.live \cup DieWithRoot(c)
      BY <2>4 DEF GateEffect
    <3>2. s.how = "cli" => Root \in world.live
      BY <2>4 DEF CanPass
    <3>3. QED BY <2>2, <2>4, <3>1, <3>2 DEF Moves, Starting, Bringing
  <2>5. CASE s.name \in {"gate-restart-stop", "snapshot-stop-keeper",
                         "snapshot-stop-keeper-force"}
    <3>1. GateEffect(c, s).live = world.live
      BY <2>5 DEF GateEffect
    <3>2. QED BY <2>2, <2>5, <3>1 DEF Moves, Starting, Bringing, Stopping
  <2>6. CASE s.name \in {"gate-restart-start", "gate-restart"}
    <3>1. GateEffect(c, s).live = world.live /\ GateEffect(c, s).running
      BY <2>6 DEF GateEffect
    <3>2. QED BY <2>2, <2>6, <3>1 DEF Moves, Starting, Bringing
  <2>7. CASE s.name \notin {"update", "snapshot-revert", "gate-restart-stop", "gate-restart-start",
                            "gate-restart", "snapshot-stop-keeper",
                            "snapshot-stop-keeper-force"}
    <3>1. GateEffect(c, s).live = world.live /\ GateEffect(c, s).running = world.running
      BY <2>7 DEF GateEffect
    <3>2. QED BY <1>5, <2>2, <2>7, <3>1 DEF Moves, Starting, Bringing
  <2>8. QED BY <2>3, <2>4, <2>5, <2>6, <2>7
<1>6. QED BY <1>2, <1>3, <1>4, <1>5

\* What the parts of a program lack.
LEMMA PartsLack ==
    ASSUME NEW c
    PROVE  /\ \A s \in Seq(Bare(c)) : /\ s \in Seq(Steps(c)) /\ Lacks(s, Looking(c))
                                      /\ Lacks(s, Stopping(c)) /\ \A t : Lacks(s, Taking(c, t))
           /\ \A s \in Seq(Gentle(c)) : /\ s \in Seq(Steps(c)) /\ Lacks(s, Stopping(c))
                                        /\ \A t : Lacks(s, Taking(c, t))
           /\ \A s \in Seq(Blind(c)) : s \in Seq(Steps(c)) /\ Lacks(s, Looking(c))
           /\ Bare(c) \subseteq Blind(c) /\ \A s \in Seq(Bare(c)) : s \in Seq(Blind(c))
<1>1. /\ Gentle(c) \cap Stopping(c) = {} /\ \A t : Gentle(c) \cap Taking(c, t) = {}
      /\ Bare(c) \cap Looking(c) = {} /\ Blind(c) \cap Looking(c) = {}
  BY DEF Gentle, Bare, Blind, Stopping, Taking, Looking, Lowering
<1>2. Bare(c) \subseteq Gentle(c) /\ Gentle(c) \subseteq Steps(c) /\ Blind(c) \subseteq Steps(c)
          /\ Bare(c) \subseteq Blind(c) /\ Bare(c) \subseteq Steps(c)
  BY DEF Gentle, Bare, Blind, Work
<1>3. \A s \in Seq(Gentle(c)) : /\ s \in Seq(Steps(c)) /\ Lacks(s, Stopping(c))
                                /\ \A t : Lacks(s, Taking(c, t))
  BY <1>1, <1>2, LacksOf, SeqMonotonic
<1>4. \A s \in Seq(Bare(c)) : s \in Seq(Gentle(c)) /\ s \in Seq(Blind(c))
                                  /\ Lacks(s, Looking(c))
  BY <1>1, <1>2, LacksOf, SeqMonotonic
<1>5. \A s \in Seq(Blind(c)) : s \in Seq(Steps(c)) /\ Lacks(s, Looking(c))
  BY <1>1, <1>2, LacksOf, SeqMonotonic
<1>6. QED BY <1>2, <1>3, <1>4, <1>5

\* The live phase and what follows the gate's own steps lower nothing; what follows the
\* rebuild checks nothing.
LEMMA GentleParts ==
    ASSUME NEW c \in Cfgs
    PROVE  /\ \A name \in CheckNames : CheckLiveTree(c, name) \in Seq(Gentle(c))
           /\ Phase("bring-up-members") \in Bare(c) /\ Phase("rebuild-ready") \in Bare(c)
           /\ Phase("bring-up-members") \in Gentle(c)
           /\ When(HasFeatureRun(c), <<Cli("feature-run", Root)>>) \in Seq(Gentle(c))
           /\ LivePart(c) \in Seq(Gentle(c))
           /\ MembersAgain(c) \in Seq(Gentle(c))
           /\ ForEach(RedeployKeys(c), "redeploy") \in Seq(Bare(c))
           /\ VenueRecheck(c) \in Seq(Gentle(c))
           /\ FeatureAgain(c) \in Seq(Bare(c))
           /\ \A p \in Phases, edge \in {"start", "stop"} :
                  Bracket(p, edge) \in Bare(c) /\ Bracket(p, edge) \in Gentle(c)
<1>1. \A name \in CheckNames : CheckLiveTree(c, name) \in Seq(Gentle(c))
  BY CheckWork, CfgKeys, ForEachSeq DEF CheckLiveTree
<1>2. /\ Phase("bring-up-members") \in Bare(c) /\ Phase("rebuild-ready") \in Bare(c)
      /\ Phase("wait-ready") \in Bare(c) /\ Cli("feature-run", Root) \in Bare(c)
  BY BareWork, CfgKeys DEF PlainNames, Lowering
<1>3. Phase("bring-up-members") \in Gentle(c) /\ Phase("rebuild-ready") \in Gentle(c)
          /\ Cli("feature-run", Root) \in Gentle(c)
  BY <1>2, BareIsWork
<1>4. \A p \in Phases, edge \in {"start", "stop"} :
          Bracket(p, edge) \in Bare(c) /\ Bracket(p, edge) \in Gentle(c)
  BY BracketWork, BareIsWork
<1>5. When(HasFeatureRun(c), <<Cli("feature-run", Root)>>) \in Seq(Gentle(c))
  BY <1>3 DEF When
<1>6. LivePart(c) \in Seq(Gentle(c))
  <2>1. <<Phase("bring-up-members")>> \o CheckLiveTree(c, "check-live")
            \o When(HasFeatureRun(c), <<Cli("feature-run", Root)>>) \in Seq(Gentle(c))
    <3>1. CheckLiveTree(c, "check-live") \in Seq(Gentle(c))
      BY <1>1 DEF CheckNames
    <3>2. QED BY <1>3, <1>5, <3>1
  <2>2. Bracket("live", "start") \in Gentle(c) /\ Bracket("live", "stop") \in Gentle(c)
    BY <1>4 DEF Phases
  <2>3. QED BY <2>1, <2>2 DEF LivePart, When
<1>7. CheckLiveTree(c, "check-live-rebuild") \in Seq(Gentle(c))
  BY <1>1 DEF CheckNames
<1>8. MembersAgain(c) \in Seq(Gentle(c))
  <2>1. When(InPlace(c), CheckLiveTree(c, "check-live-rebuild")) \in Seq(Gentle(c))
    BY <1>7, WhenSeq
  <2>2. <<Phase("bring-up-members")>> \o When(InPlace(c), CheckLiveTree(c, "check-live-rebuild"))
            \in Seq(Gentle(c))
    BY <1>3, <2>1
  <2>3. QED BY <2>2 DEF MembersAgain, When
<1>9. ForEach(RedeployKeys(c), "redeploy") \in Seq(Bare(c))
  BY CfgKeys, DeployWork, ForEachSeq
<1>10. VenueRecheck(c) \in Seq(Gentle(c))
  <2>1. ForEach(RedeployKeys(c), "redeploy") \in Seq(Gentle(c))
    BY <1>9, BareIsWork
  <2>2. <<Phase("rebuild-ready")>> \o ForEach(RedeployKeys(c), "redeploy")
             \o CheckLiveTree(c, "check-live-rebuild") \in Seq(Gentle(c))
    BY <1>3, <1>7, <2>1
  <2>3. QED BY <2>2 DEF VenueRecheck, When
<1>11. FeatureAgain(c) \in Seq(Bare(c))
  BY <1>2 DEF FeatureAgain, When
<1>12. QED BY <1>1, <1>2, <1>3, <1>4, <1>5, <1>6, <1>8, <1>9, <1>10, <1>11

\* The gate's own steps, the members' teardown before them and the end of the body check
\* nothing.
LEMMA BlindParts ==
    ASSUME NEW c \in Cfgs
    PROVE  /\ UpdateGateSteps(c) \in Seq(Blind(c)) /\ MembersDown(c) \in Seq(Blind(c))
           /\ GoldenPart(c) \in Seq(Blind(c)) /\ TailPart(c) \in Seq(Blind(c))
           /\ Lacks(MembersDown(c), Stopping(c))
<1>1. \A name \in PlainNames : Cli(name, Root) \in Blind(c) /\ Phase(name) \in Blind(c)
  <2>1. PlainNames \cap CheckNames = {}
    BY DEF PlainNames, CheckNames
  <2>2. QED BY <2>1, PlainWork, CfgKeys DEF Blind, Work, Cli, Phase, Step
<1>2. UpdateGateSteps(c) \in Seq(Blind(c))
  <2>1. \A name \in {"gate-restart-stop", "gate-restart-start", "gate-restart", "update"} :
            Cli(name, Root) \in Blind(c)
    BY <1>1 DEF PlainNames
  <2>2. QED BY <2>1 DEF UpdateGateSteps
<1>3. MembersDown(c) \in Seq(Blind(c))
  <2>1. Phase("members-down") \in Blind(c)
    BY <1>1 DEF PlainNames
  <2>2. QED BY <2>1 DEF MembersDown, When
<1>4. GoldenPart(c) \in Seq(Blind(c))
  <2>1. Cli("snapshot-stop-keeper", Root) \in Blind(c)
    BY <1>1 DEF PlainNames
  <2>2. Cli("snapshot-capture", Root) \in Blind(c)
    BY DEF Blind, CheckNames, Cli, Step, Steps, Hows, Places, Names
  <2>3. QED BY <2>1, <2>2 DEF GoldenPart, When
<1>5. TailPart(c) \in Seq(Blind(c))
  <2>1. Bracket("teardown", "start") \in Blind(c) /\ Bracket("teardown", "stop") \in Blind(c)
    <3>1. Bracket("teardown", "start") \in Bare(c) /\ Bracket("teardown", "stop") \in Bare(c)
      BY BracketWork DEF Phases
    <3>2. QED BY <3>1, PartsLack
  <2>2. Step("evidence", "evidence", Root) \in Blind(c)
            /\ Step("teardown", "teardown", Root) \in Blind(c)
    BY DEF Blind, CheckNames, Step, Steps, Hows, Places, Names
  <2>3. QED BY <2>1, <2>2 DEF TailPart, When
<1>6. Lacks(MembersDown(c), Stopping(c))
  <2>1. Phase("members-down") \notin Stopping(c)
    BY DEF Phase, Step, Stopping
  <2>2. QED BY <2>1 DEF MembersDown, When, Lacks
<1>7. QED BY <1>2, <1>3, <1>4, <1>5, <1>6

\* A loop has the subcommand for each of its keys.
LEMMA HasKey ==
    ASSUME NEW K, NEW keys \in Seq(K), NEW t \in ToSet(keys), NEW name, NEW Q,
           Cli(name, t) \in Q
    PROVE  Has(ForEach(keys, name), Q)
<1>1. Len(keys) \in Nat /\ DOMAIN keys = 1..Len(keys)
  BY LenProperties
<1>2. PICK i \in 1..Len(keys) : keys[i] = t
  BY <1>1 DEF ToSet
<1>3. ForEach(keys, name)[i] = Cli(name, t)
  BY <1>2, ForEachItems
<1>4. Len(ForEach(keys, name)) = Len(keys)
  <2>1. ForEach(keys, name) = [j \in 1..Len(keys) |-> Cli(name, keys[j])]
    BY <1>1 DEF ForEach
  <2>2. QED BY <1>1, <2>1
<1>5. QED BY <1>2, <1>3, <1>4 DEF Has

\* What comes before the live phase, and what follows the rebuild.
Prelude(c) == (BuildPart(c) \o BringUpPart(c)) \o RevertPart(c)
Finale(c) == GoldenPart(c) \o TailPart(c)

\* What brings up the root, runs it and brings up each child of its own.
Rising(c, Q) ==
    \/ Q = Starting(c)
    \/ \E t \in {Root} \cup OwnKids(c) : Q = Bringing(c, t)

\* All of them are brought up before the live phase.
LEMMA PreludeBrings ==
    ASSUME NEW c \in Cfgs, ~(c.anchor /\ c.kind # "vm"), NEW Q, Rising(c, Q)
    PROVE  Has(Prelude(c), Q)
<1>1. BuildPart(c) \in Seq(Work(c)) /\ BringUpPart(c) \in Seq(Work(c))
          /\ RevertPart(c) \in Seq(Work(c))
  BY BuildWork, BringUpWork
<1>2. SUFFICES Has(BringUpPart(c), Q) \/ Has(RevertPart(c), Q)
  <2>1. BuildPart(c) \o BringUpPart(c) \in Seq(Work(c))
    BY <1>1
  <2>2. Has(BringUpPart(c), Q) => Has(BuildPart(c) \o BringUpPart(c), Q)
    BY <1>1, LacksConcat
  <2>3. QED BY <1>1, <2>1, <2>2, LacksConcat DEF Prelude
<1>3. \A name \in {"vm-build", "vm-create", "deploy-add", "config", "start", "snapshot-revert"} :
          Cli(name, Root) \in Work(c)
  BY PlainWork, CfgKeys DEF PlainNames
<1>4. Step("mark", "deployed", Root) \in Work(c) /\ Phase("wait-ready") \in Work(c)
  BY PlainWork, CfgKeys DEF PlainNames
<1>5. \A t \in ToSet(c.children) : Cli("deploy", t) \in Work(c)
                                     /\ Cli("deploy", t) \in Bringing(c, t)
  BY DeployWork DEF Bringing, Cli, Step
<1>6. \A keys \in {c.children, c.localChildren} :
          ForEach(keys, "deploy") \in Seq(Work(c)) /\ keys \in Seq(ToSet(c.children))
  BY CfgKeys, DeployWork, ForEachSeq
<1>7. CASE c.kind = "vm" /\ c.anchor
  <2>1. Cli("snapshot-revert", Root) \in Q
    BY <1>3, <1>7 DEF Rising, Starting, Bringing, DieWithRoot, OwnKids, Cli, Step
  <2>2. RevertPart(c) = <<Cli("snapshot-revert", Root), Phase("revert-ready")>>
    BY <1>7 DEF RevertPart, When
  <2>3. QED BY <2>1, <2>2 DEF Has
<1>8. CASE c.kind = "vm" /\ ~c.anchor
  <2> DEFINE first == <<Cli("vm-build", Root)>>
             create == <<Cli("vm-create", Root)>>
             mark == <<Step("mark", "deployed", Root)>>
             add == <<Phase("wait-ready"), Cli("deploy-add", Root)>>
             kids == ForEach(c.localChildren, "deploy")
  <2>1. BringUpPart(c) = ((first \o create) \o mark) \o (add \o kids)
    BY <1>8 DEF BringUpPart, When
  <2>2. first \in Seq(Work(c)) /\ create \in Seq(Work(c)) /\ mark \in Seq(Work(c))
            /\ add \in Seq(Work(c)) /\ kids \in Seq(Work(c))
    BY <1>3, <1>4, <1>6
  <2>3. Has(create, Q) \/ Has(add, Q) \/ Has(kids, Q)
    <3>1. CASE Q = Starting(c) \/ Q = Bringing(c, Root)
      <4>1. Cli("vm-create", Root) \in Q
        BY <1>3, <3>1 DEF Starting, Bringing, Cli, Step
      <4>2. QED BY <4>1 DEF Has
    <3>2. ASSUME NEW t \in ToSet(c.children), Q = Bringing(c, t), t \in ToSet(c.localChildren)
          PROVE  Has(kids, Q)
      BY <1>5, <1>6, <3>2, HasKey
    <3>3. ASSUME NEW t \in ToSet(c.children), Q = Bringing(c, t), t \notin ToSet(c.localChildren)
          PROVE  Has(add, Q)
      <4>1. Cli("deploy-add", Root) \in Q
        BY <1>3, <1>8, <3>3 DEF Bringing, InGuest, Cli, Step
      <4>2. QED BY <4>1 DEF Has
    <3>4. QED BY <3>1, <3>2, <3>3 DEF Rising, OwnKids
  <2> HIDE DEF first, create, mark, add, kids
  <2>4. Has(create, Q) => Has((first \o create) \o mark, Q)
    <3>1. Has(create, Q) => Has(first \o create, Q)
      BY <2>2, LacksConcat
    <3>2. first \o create \in Seq(Work(c))
      BY <2>2
    <3>3. QED BY <2>2, <3>1, <3>2, LacksConcat
  <2>5. Has(add, Q) \/ Has(kids, Q) => Has(add \o kids, Q)
    BY <2>2, LacksConcat
  <2>6. (first \o create) \o mark \in Seq(Work(c)) /\ add \o kids \in Seq(Work(c))
    BY <2>2
  <2>7. QED BY <2>1, <2>3, <2>4, <2>5, <2>6, LacksConcat
<1>9. CASE c.kind # "vm"
  <2> DEFINE add == <<Cli("deploy-add", Root)>>
             kids == ForEach(c.children, "deploy")
  <2>1. CASE c.kind = "kubevirt"
    <3> DEFINE head == <<Cli("deploy-add", Root), Step("mark", "deployed", Root),
                         Phase("wait-ready")>>
    <3>1. BringUpPart(c) = head \o kids
      BY <2>1 DEF BringUpPart
    <3>2. head \in Seq(Work(c)) /\ kids \in Seq(Work(c))
      BY <1>3, <1>4, <1>6
    <3>3. Has(head, Q) \/ Has(kids, Q)
      <4>1. CASE Q = Starting(c) \/ Q = Bringing(c, Root)
        <5>1. Cli("deploy-add", Root) \in Q
          BY <1>3, <2>1, <4>1 DEF Starting, Bringing, Cli, Step
        <5>2. QED BY <5>1 DEF Has
      <4>2. ASSUME NEW t \in ToSet(c.children), Q = Bringing(c, t)
            PROVE  Has(kids, Q)
        BY <1>5, <1>6, <4>2, HasKey
      <4>3. QED BY <4>1, <4>2 DEF Rising, OwnKids
    <3> HIDE DEF head, kids
    <3>4. QED BY <3>1, <3>2, <3>3, LacksConcat
  <2>2. CASE c.kind # "kubevirt" /\ InPlace(c)
    <3>1. BringUpPart(c) = <<Cli("deploy-add", Root), Step("mark", "deployed", Root)>> \o <<>>
      BY <1>9, <2>2 DEF BringUpPart, When
    <3>2. Len(BringUpPart(c)) = 2 /\ BringUpPart(c)[1] = Cli("deploy-add", Root)
      BY <3>1
    <3>3. c.kind # "pod" /\ OwnKids(c) = {}
      BY <2>2 DEF InPlace, OwnKids
    <3>4. Cli("deploy-add", Root) \in Q
      BY <1>3, <3>3 DEF Rising, Starting, Bringing, Cli, Step
    <3>5. QED BY <3>2, <3>4 DEF Has
  <2>3. CASE c.kind # "kubevirt" /\ ~InPlace(c)
    <3> DEFINE head == <<Cli("deploy-add", Root), Step("mark", "deployed", Root)>>
               start == <<Cli("config", Root), Cli("start", Root), Phase("wait-ready")>>
    <3>1. BringUpPart(c) = head \o (start \o kids)
      BY <1>9, <2>3 DEF BringUpPart, When
    <3>2. head \in Seq(Work(c)) /\ start \in Seq(Work(c)) /\ kids \in Seq(Work(c))
      BY <1>3, <1>4, <1>6
    <3>3. Has(head, Q) \/ Has(start, Q) \/ Has(kids, Q)
      <4>1. CASE Q = Bringing(c, Root)
        <5>1. Cli("deploy-add", Root) \in Q
          BY <1>3, <4>1 DEF Bringing, Cli, Step
        <5>2. QED BY <5>1 DEF Has
      <4>2. CASE Q = Starting(c)
        <5>1. Cli("start", Root) \in Q
          BY <1>3, <4>2 DEF Starting, Cli, Step
        <5>2. QED BY <5>1 DEF Has
      <4>3. ASSUME NEW t \in ToSet(c.children), Q = Bringing(c, t)
            PROVE  Has(kids, Q)
        BY <1>5, <1>6, <4>3, HasKey
      <4>4. QED BY <4>1, <4>2, <4>3 DEF Rising, OwnKids
    <3> HIDE DEF head, start, kids
    <3>4. Has(start, Q) \/ Has(kids, Q) => Has(start \o kids, Q)
      BY <3>2, LacksConcat
    <3>5. start \o kids \in Seq(Work(c))
      BY <3>2
    <3>6. Has(head, Q) \/ Has(start \o kids, Q)
      BY <3>3, <3>4
    <3> DEFINE more == start \o kids
    <3> HIDE DEF more
    <3>7. BringUpPart(c) = head \o more /\ more \in Seq(Work(c))
      BY <3>1, <3>5 DEF more
    <3>8. Has(head, Q) \/ Has(more, Q)
      BY <3>6 DEF more
    <3>9. QED BY <3>2, <3>7, <3>8, LacksConcat
  <2>4. QED BY <2>1, <2>2, <2>3
<1>10. QED BY <1>2, <1>7, <1>8, <1>9

\* What comes before the update gate's own steps, and what follows the checks behind them.
Opening(c) == (<<Bracket("update", "start")>> \o MembersBuild(c)) \o MembersDown(c)
Closing(c) == (FeatureAgain(c) \o <<Bracket("update", "stop")>>) \o Finale(c)

\* The program in its four parts.
LEMMA ProgramShape ==
    ASSUME NEW c \in Cfgs
    PROVE  /\ BodyProgram(c) = Prelude(c) \o (LivePart(c) \o (RebuildPart(c) \o Finale(c)))
           /\ Prelude(c) \in Seq(Bare(c)) /\ Finale(c) \in Seq(Blind(c))
           /\ RebuildPart(c) \o Finale(c) \in Seq(Steps(c))
           /\ LivePart(c) \o (RebuildPart(c) \o Finale(c)) \in Seq(Steps(c))
<1> DEFINE pre == Prelude(c)
           live == LivePart(c)
           rebuild == RebuildPart(c)
           golden == GoldenPart(c)
           tail == TailPart(c)
<1>1. pre \in Seq(Bare(c))
  <2>1. BuildPart(c) \in Seq(Bare(c)) /\ BringUpPart(c) \in Seq(Bare(c))
            /\ RevertPart(c) \in Seq(Bare(c))
    BY BuildWork, BringUpWork
  <2>2. QED BY <2>1, Join DEF Prelude
<1>2. golden \in Seq(Blind(c)) /\ tail \in Seq(Blind(c))
  BY BlindParts
<1>3. Finale(c) = golden \o tail
  BY DEF Finale
<1>4. BodyProgram(c) = (((pre \o live) \o rebuild) \o golden) \o tail
  BY DEF BodyProgram, Prelude
<1>5. Work(c) \subseteq Steps(c)
  BY DEF Work
<1>6. pre \in Seq(Steps(c)) /\ live \in Seq(Steps(c)) /\ rebuild \in Seq(Steps(c))
          /\ golden \in Seq(Steps(c)) /\ tail \in Seq(Steps(c))
  <2>1. live \in Seq(Work(c)) /\ rebuild \in Seq(Work(c))
    BY LiveWork, RebuildWork
  <2>2. live \in Seq(Steps(c)) /\ rebuild \in Seq(Steps(c))
    BY <1>5, <2>1, SeqMonotonic
  <2>3. QED BY <1>1, <1>2, <2>2, PartsLack
<1> HIDE DEF pre, live, rebuild, golden, tail
<1>7. golden \o tail \in Seq(Blind(c))
  BY <1>2, Join
<1>8. (((pre \o live) \o rebuild) \o golden) \o tail
          = pre \o (live \o (rebuild \o (golden \o tail)))
      /\ rebuild \o (golden \o tail) \in Seq(Steps(c))
      /\ live \o (rebuild \o (golden \o tail)) \in Seq(Steps(c))
  <2>1. golden \o tail \in Seq(Steps(c))
    BY <1>6, Join
  <2>2. rebuild \o (golden \o tail) \in Seq(Steps(c))
    BY <1>6, <2>1, Join
  <2>3. live \o (rebuild \o (golden \o tail)) \in Seq(Steps(c))
    BY <1>6, <2>2, Join
  <2>4. (((pre \o live) \o rebuild) \o golden) \o tail
            = pre \o (live \o (rebuild \o (golden \o tail)))
    <3>1. Five(pre, live, rebuild, golden, tail)
      BY <1>6, RegroupFive
    <3>2. QED BY <3>1 DEF Five
  <2>5. QED BY <2>2, <2>3, <2>4
<1>9. QED BY <1>1, <1>3, <1>4, <1>7, <1>8 DEF pre, live, rebuild

\* The rebuild, where there is one, and what follows it.
LEMMA RebuildShape ==
    ASSUME NEW c \in Cfgs
    PROVE  /\ UpdateGateFor(c) = "skip" \/ c.anchor => RebuildPart(c) \o Finale(c) = Finale(c)
           /\ UpdateGateFor(c) # "skip" /\ ~c.anchor =>
                  RebuildPart(c) \o Finale(c) =
                      Opening(c) \o (UpdateGateSteps(c)
                          \o (MembersAgain(c) \o (VenueRecheck(c) \o Closing(c))))
           /\ Opening(c) \in Seq(Blind(c)) /\ Lacks(Opening(c), Stopping(c))
           /\ Closing(c) \in Seq(Blind(c))
<1> DEFINE start == <<Bracket("update", "start")>>
           build == MembersBuild(c)
           down == MembersDown(c)
           gate == UpdateGateSteps(c)
           again == MembersAgain(c)
           check == VenueRecheck(c)
           feature == FeatureAgain(c)
           stop == <<Bracket("update", "stop")>>
           fin == Finale(c)
<1>1. start \in Seq(Bare(c)) /\ build \in Seq(Bare(c)) /\ down \in Seq(Blind(c))
          /\ Lacks(down, Stopping(c))
  <2>1. Bracket("update", "start") \in Bare(c)
    BY BracketWork DEF Phases
  <2>2. start \in Seq(Bare(c))
    BY <2>1
  <2>3. QED BY <2>2, RebuildWork, BlindParts
<1>2. feature \in Seq(Blind(c)) /\ stop \in Seq(Blind(c)) /\ fin \in Seq(Blind(c))
  <2>1. Bracket("update", "stop") \in Bare(c)
    BY BracketWork DEF Phases
  <2>2. stop \in Seq(Bare(c))
    BY <2>1
  <2>3. QED BY <2>2, GentleParts, ProgramShape, PartsLack
<1>3. gate \in Seq(Steps(c)) /\ again \in Seq(Steps(c)) /\ check \in Seq(Steps(c))
  BY BlindParts, GentleParts, PartsLack
<1>4. start \in Seq(Steps(c)) /\ build \in Seq(Steps(c)) /\ down \in Seq(Steps(c))
          /\ feature \in Seq(Steps(c)) /\ stop \in Seq(Steps(c)) /\ fin \in Seq(Steps(c))
  BY <1>1, <1>2, PartsLack
<1>5. UpdateGateFor(c) # "skip" /\ ~c.anchor =>
          RebuildPart(c) = ((((((start \o build) \o down) \o gate) \o again) \o check) \o feature)
                               \o stop
  BY RebuildParts DEF GateBody
<1>6. UpdateGateFor(c) = "skip" \/ c.anchor => RebuildPart(c) = <<>>
  BY RebuildParts
<1>7. Opening(c) = (start \o build) \o down /\ Closing(c) = (feature \o stop) \o fin
  BY DEF Opening, Closing
<1> HIDE DEF start, build, down, gate, again, check, feature, stop, fin
<1>8. (((((((start \o build) \o down) \o gate) \o again) \o check) \o feature) \o stop) \o fin
          = ((start \o build) \o down)
                \o (gate \o (again \o (check \o ((feature \o stop) \o fin))))
  <2> DEFINE open == (start \o build) \o down
             shut == (feature \o stop) \o fin
             front == ((open \o gate) \o again) \o check
  <2>1. open \in Seq(Steps(c)) /\ shut \in Seq(Steps(c))
    BY <1>4, Join
  <2> HIDE DEF open
  <2>2. front \in Seq(Steps(c))
    BY <1>3, <2>1, Join
  <2>3. front \o shut = open \o (gate \o (again \o (check \o shut)))
    <3> HIDE DEF shut
    <3>1. Five(open, gate, again, check, shut)
      BY <1>3, <2>1, RegroupFive
    <3>2. QED BY <3>1 DEF Five
  <2>4. ((front \o feature) \o stop) \o fin = front \o shut
    <3> HIDE DEF front
    <3>1. Middle(front, feature, stop, fin)
      BY <1>4, <2>2, RegroupFour
    <3>2. QED BY <3>1 DEF Middle
  <2>5. QED BY <2>3, <2>4 DEF open
<1>9. (start \o build) \o down \in Seq(Blind(c)) /\ (feature \o stop) \o fin \in Seq(Blind(c))
  <2>1. start \in Seq(Blind(c)) /\ build \in Seq(Blind(c))
    BY <1>1, PartsLack
  <2>2. QED BY <1>1, <1>2, <2>1, Join
<1>10. Lacks((start \o build) \o down, Stopping(c))
  <2>1. start \o build \in Seq(Bare(c))
    BY <1>1, Join
  <2>2. start \o build \in Seq(Steps(c)) /\ Lacks(start \o build, Stopping(c))
    BY <2>1, PartsLack
  <2>3. QED BY <1>1, <1>4, <2>2, LacksConcat
<1>11. <<>> \o fin = fin
  BY <1>4
<1>12. QED
  BY <1>5, <1>6, <1>7, <1>8, <1>9, <1>10, <1>11 DEF gate, again, check, fin

\* What follows the live phase, the gate's opening, the gate's own steps and the members.
AfterLive(c) == RebuildPart(c) \o Finale(c)
AfterMembers(c) == VenueRecheck(c) \o Closing(c)
AfterGate(c) == MembersAgain(c) \o AfterMembers(c)
AfterOpening(c) == UpdateGateSteps(c) \o AfterGate(c)
Rebuilds(c) == UpdateGateFor(c) # "skip" /\ ~c.anchor

\* They are sequences of the bed's steps.
LEMMA AfterShape ==
    ASSUME NEW c \in Cfgs
    PROVE  /\ BodyProgram(c) = Prelude(c) \o (LivePart(c) \o AfterLive(c))
           /\ AfterLive(c) = IF Rebuilds(c) THEN Opening(c) \o AfterOpening(c) ELSE Finale(c)
           /\ AfterLive(c) \in Seq(Steps(c)) /\ AfterMembers(c) \in Seq(Steps(c))
           /\ AfterGate(c) \in Seq(Steps(c)) /\ AfterOpening(c) \in Seq(Steps(c))
           /\ LivePart(c) \o AfterLive(c) \in Seq(Steps(c)) /\ Prelude(c) \in Seq(Steps(c))
           /\ Opening(c) \in Seq(Steps(c)) /\ UpdateGateSteps(c) \in Seq(Steps(c))
           /\ MembersAgain(c) \in Seq(Steps(c)) /\ VenueRecheck(c) \in Seq(Steps(c))
           /\ Closing(c) \in Seq(Steps(c)) /\ LivePart(c) \in Seq(Steps(c))
<1>1. Opening(c) \in Seq(Steps(c)) /\ UpdateGateSteps(c) \in Seq(Steps(c))
          /\ Closing(c) \in Seq(Steps(c)) /\ Prelude(c) \in Seq(Steps(c))
  BY BlindParts, RebuildShape, ProgramShape, PartsLack
<1>2. MembersAgain(c) \in Seq(Steps(c)) /\ VenueRecheck(c) \in Seq(Steps(c))
          /\ LivePart(c) \in Seq(Steps(c))
  BY GentleParts, PartsLack
<1>3. AfterMembers(c) \in Seq(Steps(c))
  BY <1>1, <1>2, Join DEF AfterMembers
<1>4. AfterGate(c) \in Seq(Steps(c))
  BY <1>2, <1>3, Join DEF AfterGate
<1>5. AfterOpening(c) \in Seq(Steps(c))
  BY <1>1, <1>4, Join DEF AfterOpening
<1>6. AfterLive(c) = IF Rebuilds(c) THEN Opening(c) \o AfterOpening(c) ELSE Finale(c)
  BY RebuildShape DEF AfterLive, AfterOpening, AfterGate, AfterMembers, Rebuilds
<1>7. AfterLive(c) \in Seq(Steps(c)) /\ LivePart(c) \o AfterLive(c) \in Seq(Steps(c))
          /\ BodyProgram(c) = Prelude(c) \o (LivePart(c) \o AfterLive(c))
  BY ProgramShape DEF AfterLive
<1>8. QED BY <1>1, <1>2, <1>3, <1>4, <1>5, <1>6, <1>7

\* Nothing in the gate's opening and its own steps checks, nor behind the checks.
LEMMA LateChecks ==
    ASSUME NEW c \in Cfgs, NEW Q, NEW C
    PROVE  /\ Fed(Closing(c), Looking(c), Q, C)
           /\ Lacks(VenueRecheck(c), C) => Primed(AfterMembers(c), Looking(c), Q, C)
           /\ Lacks(MembersAgain(c), C) /\ Primed(AfterMembers(c), Looking(c), Q, C)
                  => Primed(AfterGate(c), Looking(c), Q, C)
           /\ Lacks(UpdateGateSteps(c), C) /\ Primed(AfterGate(c), Looking(c), Q, C)
                  => Primed(AfterOpening(c), Looking(c), Q, C)
           /\ Lacks(Opening(c), C) /\ Primed(AfterOpening(c), Looking(c), Q, C)
                  => Primed(AfterLive(c), Looking(c), Q, C)
           /\ Fed(AfterGate(c), Looking(c), Q, C) => Fed(AfterLive(c), Looking(c), Q, C)
           /\ ~Rebuilds(c) => Fed(AfterLive(c), Looking(c), Q, C)
<1>1. Fed(Closing(c), Looking(c), Q, C) /\ Primed(Closing(c), Looking(c), Q, C)
          /\ Fed(Finale(c), Looking(c), Q, C) /\ Primed(Finale(c), Looking(c), Q, C)
          /\ Lacks(Opening(c), Looking(c)) /\ Lacks(UpdateGateSteps(c), Looking(c))
  <2>1. Lacks(Closing(c), Looking(c)) /\ Lacks(Finale(c), Looking(c))
            /\ Lacks(Opening(c), Looking(c)) /\ Lacks(UpdateGateSteps(c), Looking(c))
    BY BlindParts, RebuildShape, ProgramShape, PartsLack
  <2>2. QED BY <2>1, FedSimply
<1>2. Lacks(VenueRecheck(c), C) => Primed(AfterMembers(c), Looking(c), Q, C)
  BY <1>1, AfterShape, FedConcat DEF AfterMembers
<1>3. Lacks(MembersAgain(c), C) /\ Primed(AfterMembers(c), Looking(c), Q, C)
          => Primed(AfterGate(c), Looking(c), Q, C)
  BY AfterShape, FedConcat DEF AfterGate
<1>4. Lacks(UpdateGateSteps(c), C) /\ Primed(AfterGate(c), Looking(c), Q, C)
          => Primed(AfterOpening(c), Looking(c), Q, C)
  BY AfterShape, FedConcat DEF AfterOpening
<1>5. Lacks(Opening(c), C) /\ Primed(AfterOpening(c), Looking(c), Q, C)
          => Primed(AfterLive(c), Looking(c), Q, C)
  BY <1>1, AfterShape, FedConcat
<1>6. ASSUME Fed(AfterGate(c), Looking(c), Q, C)
      PROVE  Fed(AfterLive(c), Looking(c), Q, C)
  <2>1. Fed(AfterOpening(c), Looking(c), Q, C)
    BY <1>1, <1>6, AfterShape, FedConcat DEF AfterOpening
  <2>2. QED BY <1>1, <2>1, AfterShape, FedConcat
<1>7. ~Rebuilds(c) => Fed(AfterLive(c), Looking(c), Q, C)
  BY <1>1, AfterShape
<1>8. QED BY <1>1, <1>2, <1>3, <1>4, <1>5, <1>6, <1>7

\* A need of the checks that is met before the live phase, and is met again after whatever
\* takes it away, is met throughout.
LEMMA MetThroughout ==
    ASSUME NEW c \in Cfgs, NEW Q, NEW C, Has(Prelude(c), Q), Lacks(Prelude(c), C),
           Lacks(LivePart(c), C), Primed(AfterLive(c), Looking(c), Q, C)
    PROVE  Fed(BodyProgram(c), Looking(c), Q, C)
<1>1. Primed(LivePart(c) \o AfterLive(c), Looking(c), Q, C)
  BY AfterShape, FedConcat
<1>2. Lacks(Prelude(c), Looking(c))
  BY ProgramShape, PartsLack
<1>3. QED BY <1>1, <1>2, AfterShape, FedConcat

\* The root runs at each check.
LEMMA RootRuns ==
    ASSUME NEW c \in Cfgs, ~(c.anchor /\ c.kind # "vm")
    PROVE  Fed(BodyProgram(c), Looking(c), Starting(c), Stopping(c))
<1> DEFINE Q == Starting(c)
           C == Stopping(c)
<1>1. Has(Prelude(c), Q) /\ Lacks(Prelude(c), C) /\ Lacks(LivePart(c), C)
  BY PreludeBrings, ProgramShape, GentleParts, PartsLack DEF Rising
<1>2. Primed(AfterGate(c), Looking(c), Q, C)
  <2>1. Lacks(VenueRecheck(c), C) /\ Lacks(MembersAgain(c), C)
    BY GentleParts, PartsLack
  <2>2. QED BY <2>1, LateChecks
<1>3. Primed(AfterOpening(c), Looking(c), Q, C)
  <2>1. CASE UpdateGateFor(c) = "restart-only" /\ c.kind = "vm"
    <3> DEFINE stop == <<Cli("gate-restart-stop", Root)>>
               start == <<Cli("gate-restart-start", Root)>>
               rest == AfterGate(c)
    <3>1. Cli("gate-restart-stop", Root) \in Work(c) /\ Cli("gate-restart-start", Root) \in Work(c)
      BY PlainWork, CfgKeys DEF PlainNames
    <3>2. Cli("gate-restart-start", Root) \in Q /\ Cli("gate-restart-start", Root) \notin C
              /\ Cli("gate-restart-start", Root) \notin Looking(c)
              /\ Cli("gate-restart-stop", Root) \notin Looking(c)
      BY <3>1 DEF Starting, Stopping, Looking, CheckNames, Cli, Step
    <3>3. stop \in Seq(Steps(c)) /\ start \in Seq(Steps(c)) /\ rest \in Seq(Steps(c))
      BY <3>1, AfterShape DEF Work
    <3>4. Has(start, Q) /\ Lacks(start, C) /\ Lacks(start, Looking(c))
              /\ Lacks(stop, Looking(c))
      BY <3>2 DEF Has, Lacks
    <3>5. AfterOpening(c) = (stop \o start) \o rest
      <4>1. UpdateGateSteps(c) =
                <<Cli("gate-restart-stop", Root), Cli("gate-restart-start", Root)>>
        BY <2>1 DEF UpdateGateSteps
      <4>2. UpdateGateSteps(c) = stop \o start
        BY <4>1
      <4>3. QED BY <4>2 DEF AfterOpening
    <3> HIDE DEF stop, start, rest
    <3>6. Fed(start \o rest, Looking(c), Q, C) /\ start \o rest \in Seq(Steps(c))
      BY <1>2, <3>3, <3>4, FedConcat, Join DEF rest
    <3>7. Fed(stop \o (start \o rest), Looking(c), Q, C)
      BY <3>3, <3>4, <3>6, FedConcat
    <3>8. Three(stop, start, rest)
      BY <3>3, Regroup
    <3>9. Fed(AfterOpening(c), Looking(c), Q, C)
      BY <3>5, <3>7, <3>8 DEF Three
    <3>10. QED BY <3>9, FedSimply
  <2>2. CASE ~(UpdateGateFor(c) = "restart-only" /\ c.kind = "vm")
    <3>1. Cli("gate-restart", Root) \notin C /\ Cli("update", Root) \notin C
      BY DEF Stopping, Cli, Step
    <3>2. Lacks(UpdateGateSteps(c), C)
      BY <2>2, <3>1 DEF UpdateGateSteps, Lacks
    <3>3. QED BY <1>2, <3>2, LateChecks
  <2>3. QED BY <2>1, <2>2
<1>4. Primed(AfterLive(c), Looking(c), Q, C)
  BY <1>3, RebuildShape, LateChecks
<1>5. QED BY <1>1, <1>4, MetThroughout

\* The root is up at each check, and so is each child.
LEMMA RefsAreUp ==
    ASSUME NEW c \in Cfgs, ~(c.anchor /\ c.kind # "vm"), NEW t \in {Root} \cup OwnKids(c)
    PROVE  Fed(BodyProgram(c), Looking(c), Bringing(c, t), Taking(c, t))
<1> DEFINE Q == Bringing(c, t)
           C == Taking(c, t)
<1>1. Has(Prelude(c), Q) /\ Lacks(Prelude(c), C) /\ Lacks(LivePart(c), C)
  BY PreludeBrings, ProgramShape, GentleParts, PartsLack DEF Rising
<1>2. Lacks(VenueRecheck(c), C) /\ Lacks(MembersAgain(c), C)
  BY GentleParts, PartsLack
<1>3. t \notin ToSet(c.members)
  BY BedPlaces DEF OwnKids
<1>4. CASE t \notin Discarded(c)
  <2>1. C = {}
    BY <1>3, <1>4 DEF Taking
  <2>2. \A s : Lacks(s, C)
    BY <2>1 DEF Lacks
  <2>3. Primed(AfterLive(c), Looking(c), Q, C)
    BY <2>2, LateChecks
  <2>4. QED BY <1>1, <2>3, MetThroughout
<1>5. CASE t \in Discarded(c)
  <2>1. t \in ToSet(c.children) /\ t \in ToSet(RedeployKeys(c)) /\ ~InPlace(c)
    <3>1. t \in ToSet(c.children)
      BY <1>5, BedPlaces
    <3>2. t \in ToSet(RedeployKeys(c))
      BY <1>5 DEF Discarded, RedeployKeys
    <3>3. t \in OwnKids(c)
      BY <1>5, BedPlaces DEF Discarded
    <3>4. QED BY <3>1, <3>2, <3>3 DEF OwnKids
  <2>2. Fed(AfterMembers(c), Looking(c), Q, C)
    <3>1. CASE c.runRuntime
      <4> DEFINE ready == <<Phase("rebuild-ready")>>
                 kids == ForEach(RedeployKeys(c), "redeploy")
                 tree == CheckLiveTree(c, "check-live-rebuild")
                 closing == Closing(c)
                 front == ready \o kids
      <4>1. VenueRecheck(c) = front \o tree
        BY <2>1, <3>1 DEF VenueRecheck, When
      <4>2. ready \in Seq(Bare(c)) /\ kids \in Seq(Bare(c)) /\ tree \in Seq(Gentle(c))
        BY GentleParts DEF CheckNames
      <4>3. Has(kids, Q)
        <5>1. Cli("redeploy", t) \in Q
          BY <2>1, DeployWork DEF Bringing, Cli, Step
        <5>2. QED BY <2>1, <5>1, CfgKeys, HasKey
      <4>4. ready \in Seq(Steps(c)) /\ kids \in Seq(Steps(c)) /\ tree \in Seq(Steps(c))
                /\ closing \in Seq(Steps(c)) /\ Lacks(tree, C)
        BY <4>2, AfterShape, PartsLack
      <4> HIDE DEF ready, kids, tree
      <4>5. Has(front, Q)
        BY <4>3, <4>4, LacksConcat
      <4>6. front \in Seq(Bare(c))
        BY <4>2, Join
      <4>7. front \in Seq(Steps(c)) /\ Lacks(front, Looking(c)) /\ Lacks(front, C)
        BY <4>6, PartsLack
      <4>8. Primed(closing, Looking(c), Q, C)
        BY LateChecks, FedSimply
      <4>9. AfterMembers(c) = (front \o tree) \o closing
        BY <4>1 DEF AfterMembers
      <4> HIDE DEF front, closing
      <4>10. Primed(tree \o closing, Looking(c), Q, C) /\ tree \o closing \in Seq(Steps(c))
        BY <4>4, <4>8, FedConcat, Join
      <4>11. Fed(front \o (tree \o closing), Looking(c), Q, C)
        BY <4>5, <4>7, <4>10, FedConcat
      <4>12. Three(front, tree, closing)
        BY <4>4, <4>7, Regroup
      <4>13. QED BY <4>9, <4>11, <4>12 DEF Three
    <3>2. CASE ~c.runRuntime
      <4>1. VenueRecheck(c) = <<>>
        BY <3>2 DEF VenueRecheck, When
      <4>2. Lacks(VenueRecheck(c), Looking(c))
        BY <4>1 DEF Lacks
      <4>3. QED BY <4>2, LateChecks, AfterShape, FedConcat DEF AfterMembers
    <3>3. QED BY <3>1, <3>2
  <2>3. Lacks(MembersAgain(c), Looking(c))
    <3>1. MembersAgain(c) = When(c.runRuntime /\ c.members # <<>>, <<Phase("bring-up-members")>>)
      BY <2>1 DEF MembersAgain, When
    <3>2. Phase("bring-up-members") \notin Looking(c)
      BY DEF Phase, Step, Looking, CheckNames
    <3>3. QED BY <3>1, <3>2 DEF When, Lacks
  <2>4. Fed(AfterGate(c), Looking(c), Q, C)
    BY <2>2, <2>3, AfterShape, FedConcat DEF AfterGate
  <2>5. Primed(AfterLive(c), Looking(c), Q, C)
    BY <2>4, LateChecks, FedSimply
  <2>6. QED BY <1>1, <2>5, MetThroughout
<1>6. QED BY <1>4, <1>5

\* Each member is up at each check.
LEMMA MembersAreUp ==
    ASSUME NEW c \in Cfgs, NEW t \in ToSet(c.members)
    PROVE  Fed(BodyProgram(c), Looking(c), Bringing(c, t), Taking(c, t))
<1> DEFINE Q == Bringing(c, t)
           C == Taking(c, t)
           up == <<Phase("bring-up-members")>>
<1>1. Lacks(Prelude(c), Looking(c))
  BY ProgramShape, PartsLack
<1>2. c.members # <<>>
  BY CfgKeys DEF ToSet
<1>3. up \in Seq(Bare(c)) /\ up \in Seq(Steps(c)) /\ Lacks(up, Looking(c)) /\ Lacks(up, C)
          /\ Has(up, Q)
  <2>1. up \in Seq(Bare(c))
    BY GentleParts
  <2>2. Phase("bring-up-members") \in Work(c)
    BY PlainWork, CfgKeys DEF PlainNames
  <2>3. Phase("bring-up-members") \in Q
    BY <2>2 DEF Bringing, Phase, Step
  <2>4. Has(up, Q)
    BY <2>3 DEF Has
  <2>5. QED BY <2>1, <2>4, PartsLack
<1>4. Lacks(VenueRecheck(c), C)
  BY GentleParts, PartsLack
<1>5. CASE c.runRuntime
  <2>1. Fed(AfterGate(c), Looking(c), Q, C)
    <3> DEFINE tree == When(InPlace(c), CheckLiveTree(c, "check-live-rebuild"))
               rest == AfterMembers(c)
    <3>1. MembersAgain(c) = up \o tree
      BY <1>2, <1>5 DEF MembersAgain, When
    <3>2. tree \in Seq(Gentle(c))
      BY GentleParts, WhenSeq DEF CheckNames
    <3>3. tree \in Seq(Steps(c)) /\ Lacks(tree, C)
      BY <3>2, PartsLack
    <3>4. rest \in Seq(Steps(c)) /\ Primed(rest, Looking(c), Q, C)
      BY <1>4, AfterShape, LateChecks
    <3>5. AfterGate(c) = (up \o tree) \o rest
      BY <3>1 DEF AfterGate
    <3> HIDE DEF up, tree, rest
    <3>6. Primed(tree \o rest, Looking(c), Q, C) /\ tree \o rest \in Seq(Steps(c))
      BY <3>3, <3>4, FedConcat, Join
    <3>7. Fed(up \o (tree \o rest), Looking(c), Q, C)
      BY <1>3, <3>6, FedConcat
    <3>8. Three(up, tree, rest)
      BY <1>3, <3>3, <3>4, Regroup
    <3>9. QED BY <3>5, <3>7, <3>8 DEF Three
  <2>2. Primed(AfterLive(c), Looking(c), Q, C)
    BY <2>1, LateChecks, FedSimply
  <2>3. Fed(LivePart(c) \o AfterLive(c), Looking(c), Q, C)
    <3> DEFINE start == <<Bracket("live", "start")>>
               tree == CheckLiveTree(c, "check-live")
               more == When(HasFeatureRun(c), <<Cli("feature-run", Root)>>)
               stop == <<Bracket("live", "stop")>>
               rest == AfterLive(c)
               first == start \o up
               last == (tree \o more) \o stop
    <3>1. start \in Seq(Bare(c)) /\ tree \in Seq(Gentle(c)) /\ more \in Seq(Gentle(c))
              /\ stop \in Seq(Gentle(c))
      BY GentleParts DEF CheckNames, Phases
    <3>2. LivePart(c) = (start \o ((up \o tree) \o more)) \o stop
      BY <1>5 DEF LivePart, When
    <3>3. rest \in Seq(Steps(c)) /\ Primed(rest, Looking(c), Q, C)
      BY <2>2, AfterShape
    <3> HIDE DEF start, tree, more, stop, rest, up
    <3>4. first \in Seq(Bare(c)) /\ last \in Seq(Gentle(c))
      <4>1. first \in Seq(Bare(c))
        BY <1>3, <3>1, Join
      <4>2. tree \o more \in Seq(Gentle(c))
        BY <3>1, Join
      <4>3. last \in Seq(Gentle(c))
        BY <3>1, <4>2, Join
      <4>4. QED BY <4>1, <4>3
    <3>5. first \in Seq(Steps(c)) /\ Lacks(first, Looking(c)) /\ Lacks(first, C)
              /\ last \in Seq(Steps(c)) /\ Lacks(last, C)
      BY <3>4, PartsLack
    <3>6. Has(first, Q)
      <4>1. start \in Seq(Steps(c))
        BY <3>1, PartsLack
      <4>2. QED BY <1>3, <4>1, LacksConcat
    <3>7. LivePart(c) = first \o last
      <4>1. up \in Seq(Work(c)) /\ start \in Seq(Work(c)) /\ tree \in Seq(Work(c))
                /\ more \in Seq(Work(c)) /\ stop \in Seq(Work(c))
        BY <1>3, <3>1, BareIsWork
      <4>2. (up \o tree) \o more = up \o (tree \o more) /\ tree \o more \in Seq(Work(c))
        <5>1. Three(up, tree, more)
          BY <4>1, Regroup
        <5>2. tree \o more \in Seq(Work(c))
          BY <4>1, Join
        <5>3. QED BY <5>1, <5>2 DEF Three
      <4> DEFINE body == tree \o more
      <4>3. body \in Seq(Work(c)) /\ LivePart(c) = (start \o (up \o body)) \o stop
                /\ last = body \o stop
        BY <3>2, <4>2
      <4> HIDE DEF body, last
      <4>4. Three(start, up, body) /\ Four(start, up, body, stop)
        BY <4>1, <4>3, Regroup, RegroupFour
      <4>5. body \o stop \in Seq(Work(c))
        BY <4>1, <4>3, Join
      <4>6. Three(start, up, body \o stop)
        BY <4>1, <4>5, Regroup
      <4>7. (start \o (up \o body)) \o stop = ((start \o up) \o body) \o stop
        BY <4>4 DEF Three
      <4>8. ((start \o up) \o body) \o stop = (start \o up) \o (body \o stop)
        BY <4>4, <4>6 DEF Four, Three
      <4>9. QED BY <4>3, <4>7, <4>8
    <3> HIDE DEF first, last
    <3>8. Primed(last \o rest, Looking(c), Q, C) /\ last \o rest \in Seq(Steps(c))
      BY <3>3, <3>5, FedConcat, Join
    <3>9. Fed(first \o (last \o rest), Looking(c), Q, C)
      BY <3>5, <3>6, <3>8, FedConcat
    <3>10. Three(first, last, rest)
      BY <3>3, <3>5, Regroup
    <3>11. QED BY <3>7, <3>9, <3>10 DEF Three, rest
  <2>4. QED BY <1>1, <2>3, AfterShape, FedConcat
<1>6. CASE ~c.runRuntime
  <2>1. MembersAgain(c) = <<>> /\ VenueRecheck(c) = <<>>
    BY <1>6 DEF MembersAgain, VenueRecheck, When
  <2>2. Lacks(MembersAgain(c), Looking(c)) /\ Lacks(VenueRecheck(c), Looking(c))
    BY <2>1 DEF Lacks
  <2>3. Fed(AfterMembers(c), Looking(c), Q, C)
    BY <2>2, LateChecks, AfterShape, FedConcat DEF AfterMembers
  <2>4. Fed(AfterGate(c), Looking(c), Q, C)
    BY <2>2, <2>3, AfterShape, FedConcat DEF AfterGate
  <2>5. Fed(AfterLive(c), Looking(c), Q, C)
    BY <2>4, LateChecks
  <2>6. Lacks(LivePart(c), Looking(c))
    <3>1. Bracket("live", "start") \notin Looking(c) /\ Bracket("live", "stop") \notin Looking(c)
      BY DEF Bracket, Step, Looking, CheckNames
    <3> DEFINE start == <<Bracket("live", "start")>>
               stop == <<Bracket("live", "stop")>>
    <3>2. LivePart(c) = (start \o <<>>) \o stop
      BY <1>6 DEF LivePart, When
    <3>3. start \in Seq(Steps(c)) /\ stop \in Seq(Steps(c)) /\ <<>> \in Seq(Steps(c))
      <4>1. start \in Seq(Bare(c)) /\ stop \in Seq(Bare(c))
        BY GentleParts DEF Phases
      <4>2. <<>> \in Seq(Steps(c))
        OBVIOUS
      <4>3. QED BY <4>1, <4>2, PartsLack
    <3>4. Lacks(start, Looking(c)) /\ Lacks(stop, Looking(c)) /\ Lacks(<<>>, Looking(c))
      BY <3>1 DEF Lacks
    <3> HIDE DEF start, stop
    <3>5. start \o <<>> \in Seq(Steps(c)) /\ Lacks(start \o <<>>, Looking(c))
      BY <3>3, <3>4, Join, LacksConcat
    <3>6. QED BY <3>2, <3>3, <3>4, <3>5, LacksConcat
  <2>7. Fed(LivePart(c) \o AfterLive(c), Looking(c), Q, C)
    BY <2>5, <2>6, AfterShape, FedConcat
  <2>8. QED BY <1>1, <2>7, AfterShape, FedConcat
<1>7. QED BY <1>5, <1>6

\* So the program is ready on any host.
LEMMA ProgramReady ==
    ASSUME NEW c \in Cfgs, ~(c.anchor /\ c.kind # "vm"), NEW w
    PROVE  Ready(c, w, BodyProgram(c))
  BY RootRuns, RefsAreUp, MembersAreUp DEF Ready, Deployed

\* What check-live found grows by a check only, and by the ref it asks for.
LEMMA ChecksAdd ==
    ASSUME WorldShape, NEW c \in Cfgs, NEW s \in Work(c),
           NEW w \in PartialEffects(c, s) \cup {Effect(c, s)}, NEW t \in w.checked \ world.checked
    PROVE  s \in Looking(c) /\ t = s.tgt
<1> USE DEF WorldShape, WorldFields
<1>1. ~(w = world) /\ ~(w = BuildEffect(c, s))
  BY DEF BuildEffect
<1>2. ~\E up \in SUBSET ToSet(c.members) : w = MembersUp(c, up)
  BY DEF MembersUp
<1>3. ~\E gone \in SUBSET ToSet(c.members) : w = MembersGone(gone)
  BY DEF MembersGone
<1>4. w = GateEffect(c, s)
  BY <1>1, <1>2, <1>3, WorkOutcomes
<1>5. s.name \in CheckNames /\ t = s.tgt
  BY <1>4 DEF GateEffect, CheckNames
<1>6. QED BY <1>5 DEF Looking, Work

\* A check that is ready finds the bed up.
LEMMA CheckFinds ==
    ASSUME NEW c \in Cfgs, NEW w, NEW s \in Seq(Steps(c)), s # <<>>, Ready(c, w, s),
           Head(s) \in Looking(c)
    PROVE  w.running /\ Deployed(c) \subseteq w.live
<1>1. w.running
  BY FedTail DEF Ready
<1>2. ASSUME NEW t \in Deployed(c)
      PROVE  t \in w.live
  BY FedTail DEF Ready
<1>3. QED BY <1>1, <1>2

\* A failure that the body survives leaves the bed's targets alone; a keeper's stop may
\* have stopped the root.
LEMMA StumbleMoves ==
    ASSUME WorldShape, NEW c \in Cfgs, NEW s \in Work(c), NEW w \in PartialEffects(c, s),
           s.name \in {"snapshot-capture", "vm-build", "snapshot-stop-keeper"}
    PROVE  Moves(c, s, world, w)
<1> USE DEF WorldShape, WorldFields
<1>1. w \in {world, Effect(c, s)}
  BY DEF PartialEffects
<1>2. BuildEffect(c, s) = world
  BY DEF BuildEffect
<1>3. Effect(c, s) = GateEffect(c, s)
  BY <1>2 DEF Effect
<1>4. GateEffect(c, s).live = world.live
          /\ (world.running /\ s.name # "snapshot-stop-keeper" => GateEffect(c, s).running)
  BY DEF GateEffect
<1>5. s \notin Starting(c) /\ \A t : s \notin Bringing(c, t)
  BY DEF Starting, Bringing
<1>6. s.name = "snapshot-stop-keeper" => s \in Stopping(c)
  BY DEF Stopping
<1>7. QED BY <1>1, <1>3, <1>4, <1>5, <1>6 DEF Moves

\* A step that leaves the host alone, and is not one that brings anything up, moves nothing.
LEMMA IdleMoves ==
    ASSUME NEW c, NEW s, NEW w, s.how \notin {"cli", "phase"}
    PROVE  Moves(c, s, w, w)
  BY DEF Moves, Starting, Bringing

\* The other attempt checks nothing, brings nothing up, and stops no more than the first.
LEMMA RetryMoves ==
    ASSUME NEW c, NEW s \in Work(c), Retry(s) # <<>>
    PROVE  /\ s.name \in {"vm-build", "snapshot-stop-keeper"} /\ s \notin Starting(c)
           /\ \E r \in Steps(c) : /\ Retry(s) = <<r>> /\ r \notin Looking(c)
                                  /\ r \in Stopping(c) => s \in Stopping(c)
                                  /\ \A t : r \notin Taking(c, t)
<1>1. Cli("vm-build-again", Root) \in Work(c)
          /\ Cli("snapshot-stop-keeper-force", Root) \in Work(c)
  BY PlainWork DEF PlainNames, Places
<1>2. CASE s.name = "vm-build" /\ s.tgt = Root
  <2> DEFINE r == Cli("vm-build-again", Root)
  <2>1. Retry(s) = <<r>>
    BY <1>2 DEF Retry
  <2>2. /\ r \in Steps(c) /\ r \notin Looking(c) /\ r \notin Stopping(c)
        /\ \A t : r \notin Taking(c, t)
    BY <1>1 DEF Work, Looking, CheckNames, Stopping, Taking, Cli, Step
  <2>3. QED BY <1>2, <2>1, <2>2 DEF Starting
<1>3. CASE s.name = "snapshot-stop-keeper"
  <2> DEFINE r == Cli("snapshot-stop-keeper-force", Root)
  <2>1. Retry(s) = <<r>>
    BY <1>3 DEF Retry
  <2>2. r \in Steps(c) /\ r \notin Looking(c) /\ \A t : r \notin Taking(c, t)
    BY <1>1 DEF Work, Looking, CheckNames, Taking, Cli, Step
  <2>3. s \in Stopping(c)
    BY <1>3 DEF Stopping
  <2>4. QED BY <1>3, <2>1, <2>2, <2>3 DEF Starting
<1>4. QED BY <1>2, <1>3 DEF Retry

\* At the start no body is under way.
LEMMA ReadyInvInit == Init => ReadyInv
  BY DEF Init, ReadyInv

\* The body of a run stays ready, step by step.
LEMMA ReadyStep ==
    ASSUME IInv, VInv, LeftInv, ReadyInv, [Next]_vars
    PROVE  ReadyInv'
<1> SUFFICES ASSUME pc' = "body", ~venue'.tornDown
             PROVE  Ready(cfg', world', todo')
  BY DEF ReadyInv
<1>1. WorldShape /\ cfg \in Cfgs /\ TodoInv
  BY DEF LeftInv, VInv, TodoInv
<1>2. (pc = "body" /\ ~venue.tornDown) \/ PrepareVenue
  BY BodyIsEntered
<1>3. CASE PrepareVenue
  <2>1. cfg' = cfg /\ todo' = BodyProgram(cfg) /\ ~(cfg.anchor /\ cfg.kind # "vm")
    BY <1>3 DEF PrepareVenue
  <2>2. Ready(cfg, world', BodyProgram(cfg))
    BY <1>1, <2>1, ProgramReady
  <2>3. QED BY <2>1, <2>2
<1>4. CASE pc = "body" /\ ~venue.tornDown
  <2>1. todo \in Seq(Steps(cfg)) /\ Ready(cfg, world, todo)
    BY <1>1, <1>4 DEF TodoInv, ReadyInv
  <2>2. todo # <<>> /\ Head(todo).how \in {"cli", "phase"} => Head(todo) \in Work(cfg)
    BY <1>1, <1>4, BodyHead, StepKinds DEF Ahead
  <2>3. CASE Passing
    <3>1. todo # <<>> /\ todo' = Tail(todo) /\ cfg' = cfg
      BY <2>3 DEF Passing
    <3>2. Moves(cfg, Head(todo), world, world')
      <4>1. CASE Head(todo).how \in {"cli", "phase"}
        <5>1. world' = Effect(cfg, Head(todo)) /\ (Head(todo).how = "cli" => CanPass(Head(todo)))
          BY <2>3, <4>1 DEF Passing
        <5>2. QED BY <1>1, <2>2, <3>1, <4>1, <5>1, WorkMoves
      <4>2. CASE Head(todo).how \notin {"cli", "phase"}
        <5>1. world' = world
          BY <2>3, <4>2 DEF Passing
        <5>2. QED BY <4>2, <5>1, IdleMoves
      <4>3. QED BY <4>1, <4>2
    <3>3. Ready(cfg, world', Tail(todo))
      BY <2>1, <3>1, <3>2, ReadyTail
    <3>4. QED BY <3>1, <3>3
  <2>4. CASE Stumbling
    <3>1. todo # <<>> /\ Head(todo) \in Work(cfg) /\ cfg' = cfg
              /\ world' \in PartialEffects(cfg, Head(todo))
      BY <2>2, <2>4 DEF Stumbling
    <3>2. CASE todo' = Tail(todo) /\ Tolerated(Head(todo))
      <4>1. Moves(cfg, Head(todo), world, world')
        BY <1>1, <3>1, <3>2, StumbleMoves DEF Tolerated
      <4>2. Ready(cfg, world', Tail(todo))
        BY <2>1, <3>1, <4>1, ReadyTail
      <4>3. QED BY <3>1, <3>2, <4>2
    <3>3. CASE Retry(Head(todo)) # <<>> /\ todo' = Retry(Head(todo)) \o Tail(todo)
      <4>1. Head(todo).name \in {"vm-build", "snapshot-stop-keeper"}
                /\ Head(todo) \notin Starting(cfg)
        BY <3>1, <3>3, RetryMoves
      <4>2. PICK r \in Steps(cfg) : /\ Retry(Head(todo)) = <<r>> /\ r \notin Looking(cfg)
                                    /\ r \in Stopping(cfg) => Head(todo) \in Stopping(cfg)
                                    /\ \A t : r \notin Taking(cfg, t)
        BY <3>1, <3>3, RetryMoves
      <4>3. Moves(cfg, Head(todo), world, world')
        BY <1>1, <3>1, <4>1, StumbleMoves
      <4>4. Ready(cfg, world', <<r>> \o Tail(todo))
        BY <2>1, <3>1, <4>1, <4>2, <4>3, ReadyAgain
      <4>5. QED BY <3>1, <3>3, <4>2, <4>4
    <3>4. QED BY <2>4, <3>2, <3>3 DEF Stumbling
  <2>5. CASE TeardownStep
    <3>1. todo # <<>> /\ Head(todo).how = "teardown" /\ todo' = Tail(todo)
              /\ UNCHANGED <<cfg, world>>
      BY <2>5 DEF TeardownStep, At, StartCleanup, Continue
    <3>2. Moves(cfg, Head(todo), world, world)
      BY <3>1, IdleMoves
    <3>3. Ready(cfg, world, Tail(todo))
      BY <2>1, <3>1, <3>2, ReadyTail
    <3>4. QED BY <3>1, <3>3
  <2>6. CASE Resting
    <3>1. UNCHANGED <<cfg, world, todo>>
      BY <2>6 DEF Resting, ctl
    <3>2. QED BY <2>1, <3>1
  <2>7. CASE Breaking \/ BodyReturns \/ Panic
    BY <2>7 DEF Breaking, FailTail, StartCleanup, BodyReturns, Return, Panic
  <2>8. CASE StartRun \/ Arming
    BY <2>8 DEF StartRun, Arming, Before
  <2>9. CASE \/ CleanupPasses \/ CleanupFails \/ CleanupReturns
             \/ DeferredVenue \/ Unwinding \/ Ending
    BY <1>4, <2>9 DEF CleanupPasses, CleanupFails, CleanupReturns, InCleanup, DeferredVenue,
       Popping, Unwinding, Ending
  <2>10. QED
    BY <1>3, <2>3, <2>4, <2>5, <2>6, <2>7, <2>8, <2>9, VenueSteps
<1>5. QED BY <1>2, <1>3, <1>4

\* A check that adds to what was found looked at a bed that is up.
LEMMA ChecksLookAtLive ==
    ASSUME IInv, VInv, LeftInv, ReadyInv, [Next]_vars, NEW t \in world'.checked \ world.checked
    PROVE  /\ t \in world.live \/ (InPlace(cfg) /\ t # Root)
           /\ world.running /\ ToSet(cfg.members) \subseteq world.live
<1>1. WorldShape /\ cfg \in Cfgs /\ TodoInv
  BY DEF LeftInv, VInv, TodoInv
<1>2. CASE UNCHANGED <<cfg, world>>
  BY <1>2
<1>3. CASE /\ pc = "body" /\ ~venue.tornDown /\ todo # <<>> /\ Head(todo) \in Work(cfg)
           /\ world' \in PartialEffects(cfg, Head(todo)) \cup {Effect(cfg, Head(todo))}
  <2>1. Head(todo) \in Looking(cfg) /\ t = Head(todo).tgt
    BY <1>1, <1>3, ChecksAdd
  <2>2. t \in {Root} \cup ToSet(cfg.children)
    BY <1>3, <2>1 DEF Work, Looking
  <2>3. todo \in Seq(Steps(cfg)) /\ Ready(cfg, world, todo)
    BY <1>1, <1>3 DEF TodoInv, ReadyInv
  <2>4. world.running /\ Deployed(cfg) \subseteq world.live
    BY <1>1, <1>3, <2>1, <2>3, CheckFinds
  <2>5. t = Root \/ InPlace(cfg) \/ t \in OwnKids(cfg)
    BY <2>2 DEF OwnKids
  <2>6. Root \notin ToSet(cfg.children)
    BY <1>1, CfgsAssumption
  <2>7. QED BY <2>2, <2>4, <2>5, <2>6 DEF Deployed
<1>4. CASE /\ Head(todo) \in Cleaning(cfg)
           /\ world' \in PartialEffects(cfg, Head(todo)) \cup {Effect(cfg, Head(todo))}
  BY <1>1, <1>4, CleaningEffects
<1>5. CASE PrepareVenue
  BY <1>1, <1>5, PreparedVenue
<1>6. CASE StartRun
  BY <1>1, <1>6 DEF StartRun, WorldShape, WorldFields
<1>7. QED BY <1>2, <1>3, <1>4, <1>5, <1>6, HostSteps

\* check-live looks at a bed whose root runs, with all of the members up and with its target,
\* unless that is a nested child of an in-place root, which the runner does not deploy.
THEOREM ChecksAreLive == Spec => ChecksSeeLiveTargets
<1>1. IInv /\ VInv /\ LeftInv /\ ReadyInv /\ [Next]_vars =>
          /\ ReadyInv'
          /\ [\A t \in world'.checked \ world.checked :
                 /\ t \in world.live \/ (InPlace(cfg) /\ t # Root)
                 /\ world.running /\ ToSet(cfg.members) \subseteq world.live]_vars
  BY ReadyStep, ChecksLookAtLive
<1> QED
  BY <1>1, ReadyInvInit, Invariance, VenueInvariance, LeftInvariance, PTL
     DEF Spec, ChecksSeeLiveTargets

=============================================================================
