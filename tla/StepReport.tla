----------------------------- MODULE StepReport ------------------------------
(***************************************************************************)
(* How a bed run reads what its steps printed (candy/plugin-check:         *)
(* bed_run.go stepEnv, bed_status.go, bed_diagnostics.go, no_plan_skip.go, *)
(* check_cmd.go, live_cmd.go, run_cmd.go).  A step is a child command.     *)
(* The run sees its exit code and one merged log, and gets three things    *)
(* out of them: the diagnostics of the tools, the report of a plan, and    *)
(* the class of a failure.  What the child really did is kept in "truth".  *)
(*                                                                         *)
(* A line of a log is one of                                               *)
(*   error, warning   of a tool: its wording, and "of" what it is about    *)
(*   proof            a recovery                                           *)
(*   banner, refusal  a hook begins; systemd refuses it in the container    *)
(*   other            any other line, where the distance of lines counts   *)
(*   step             a line of a report, or one that looks like it        *)
(*   rollup           the last line of a report, with its count            *)
(***************************************************************************)
EXTENDS Naturals, Sequences, FiniteSets, SequencesExt

CONSTANTS
    ToolOutputs,\* what the tools a child starts print: sequences of lines
    Quoted,     \* report-shaped lines in the output of a build, or before a report
    Allowlist,  \* diagnosticAllowlist
    Plans,      \* the results a plan can have: sequences of results
    MaxSteps,   \* bound: the steps of a run
    MaxLines    \* bound: the lines a child prints beside its report

Results == [check : BOOLEAN, status : {"PASS", "FAIL", "SKIP", "INFRA"}]

ASSUME StepReportAssumption ==
    /\ \A out \in ToolOutputs :
          /\ out \in Seq(Range(out))
          /\ \A l \in Range(out) :
                l.t \in {"error", "warning", "proof", "banner", "refusal", "other"}
    /\ \A l \in Quoted : l.t \in {"step", "rollup"}
    /\ \A a \in Allowlist :
          /\ a.severity \in {"error", "warning"}
          /\ a.tied \in BOOLEAN /\ a.endsOnLine \in BOOLEAN
    /\ Plans \subseteq Seq(Results) /\ <<>> \notin Plans
    /\ MaxSteps \in Nat /\ MaxLines \in Nat

VARIABLES
    pc,      \* "idle", "running", "gone" (the child has exited) or "ended"
    kind,    \* the child: "build", "live", or "guest" (a live check the guest runs)
    log,     \* its output so far
    exit,    \* its exit code
    fate,    \* history: how it exited - "none", "built", "broken", "empty" or "reported"
    cerr,    \* the seam could not run it or lost its answer
    steps,   \* res.Step
    ok,      \* res.OK
    failExit,\* res.FailExitCode
    truth    \* what the plan of each step really found

vars == <<pc, kind, log, exit, fate, cerr, steps, ok, failExit, truth>>

Kinds == {"build", "live", "guest"}
Fates == {"none", "built", "broken", "empty", "reported"}
CheckFailExitCode == 2
CheckSkippedExitCode == 3

-----------------------------------------------------------------------------
(* The diagnostics of the tools *)

ProofAt(a, line) == line.t = "proof" /\ line.w = a.recoveredBy
BannerAt(a, line) == line.t = "banner" /\ line.w = a.recoveredBy
MatchAt(a, line) == line.t = a.severity /\ line.w = a.match

\* A hook was refused: behind the entry's banner systemd refuses - not necessarily that
\* hook - and at most three lines lie between the refusal and the error.
Refused(a, text, refusal, error) ==
    /\ \E b \in 1..(refusal - 1) : BannerAt(a, text[b])
    /\ text[refusal].t = "refusal"
    /\ MatchAt(a, text[error])
    /\ error - refusal \in 1..4

\* The end of the pattern's one match: the first refusal that fits (.*?), then the last error
\* that does ({0,3} takes all it can).
ChainEnds(a, text, k) ==
    \E r \in 1..(k - 1) :
        /\ Refused(a, text, r, k)
        /\ \A s \in 1..(r - 1) : \A e \in DOMAIN text : ~Refused(a, text, s, e)
        /\ \A e \in (k + 1)..Len(text) : ~Refused(a, text, r, e)

\* Mutation: the proof is not tied to what failed.
RecoveredUntied(a, text, k) ==
    \/ a.recoveredBy = ""
    \/ ~a.endsOnLine /\ \E j \in DOMAIN text : ProofAt(a, text[j])
    \/ a.endsOnLine /\ ChainEnds(a, text, k)

\* A conditional exemption.  The proof may stand anywhere in the log, or the line has to be
\* the end of a chain.
AllowanceRecovered(a, text, k) ==
    \/ a.recoveredBy = ""
    \/ /\ ~a.endsOnLine
       /\ \E j \in DOMAIN text :
             ProofAt(a, text[j]) /\ (a.tied => text[j].of = text[k].of)
    \/ a.endsOnLine /\ ChainEnds(a, text, k)

\* allowanceClaiming: the walk goes on behind an entry whose proof is absent.
Claimed(text, k) ==
    \E a \in Allowlist : MatchAt(a, text[k]) /\ AllowanceRecovered(a, text, k)

Findings(text, severity) ==
    {k \in DOMAIN text : text[k].t = severity /\ ~Claimed(text, k)}

\* defaultDiagnosticPolicy: errors are fatal, warnings are counted.
DiagnosticsFail(text) == Findings(text, "error") # {}

\* Each entry of the error tier is conditional (TestErrorTierEntriesAreConditional).
ASSUME AllowlistAssumption == \A a \in Allowlist : a.severity = "error" => a.recoveredBy # ""

-----------------------------------------------------------------------------
(* The report of a plan *)

NoReport == [present |-> FALSE, readable |-> FALSE, checks |-> <<>>]
IsStep(line) == line.t = "step"
IsCheck(line) == line.check

\* The steps among the lines of a log, the checks among the steps.
StepsOf(text) ==
    FlattenSeq([k \in DOMAIN text |-> IF IsStep(text[k]) THEN <<text[k]>> ELSE <<>>])
ChecksOf(printed) ==
    FlattenSeq([k \in DOMAIN printed |-> IF IsCheck(printed[k]) THEN <<printed[k]>> ELSE <<>>])

SetMax(S) == CHOOSE k \in S : \A j \in S : j <= k

\* Mutation: the block is read whatever its rollup counts.
ParseUncounted(text) ==
    LET rollups == {k \in DOMAIN text : text[k].t = "rollup"}
        last == SetMax(rollups)
        start == IF Cardinality(rollups) < 2 THEN 0 ELSE SetMax(rollups \ {last})
        printed == StepsOf(SubSeq(text, start + 1, last - 1))
    IN IF rollups = {} THEN NoReport
       ELSE [present |-> TRUE, readable |-> TRUE, checks |-> ChecksOf(printed)]

\* parseCheckReport: the block between the last two rollups, if it counts as it says.
ParseCheckReport(text) ==
    LET rollups == {k \in DOMAIN text : text[k].t = "rollup"}
        last == SetMax(rollups)
        start == IF Cardinality(rollups) < 2 THEN 0 ELSE SetMax(rollups \ {last})
        printed == StepsOf(SubSeq(text, start + 1, last - 1))
    IN CASE rollups = {} -> NoReport
         [] rollups # {} /\ Len(printed) # text[last].n -> [NoReport EXCEPT !.present = TRUE]
         [] OTHER -> [present |-> TRUE, readable |-> TRUE, checks |-> ChecksOf(printed)]

\* Mutation: a report is read in any child's log.
ReportOfAnyChild(k, text) == ParseCheckReport(text)

\* childReport: only a command of planChildReporters prints a report.
ChildReport(k, text) == IF k \in {"live", "guest"} THEN ParseCheckReport(text) ELSE NoReport

Some(checks, status) == \E i \in DOMAIN checks : checks[i].status = status

\* checkReportVerdict: a phase that proved nothing is a skip.
CheckReportVerdict(rep) ==
    CASE ~rep.present -> "PASS"
      [] rep.present /\ ~rep.readable -> "SKIP"
      [] rep.readable /\ Some(rep.checks, "FAIL") -> "FAIL"
      [] OTHER -> IF Some(rep.checks, "PASS") THEN "PASS" ELSE "SKIP"

StepStatus(s) == IF ~s.ok THEN "FAIL" ELSE IF s.skip THEN "SKIP" ELSE "PASS"

\* runStatus and runPassedChecks
RunStatus ==
    IF ~ok THEN "FAIL"
    ELSE IF \E i \in DOMAIN steps : Some(steps[i].checks, "PASS") THEN "PASS" ELSE "SKIP"

\* bedRunOutcomeError and the exit code of its type
RunExit ==
    CASE ~ok -> IF failExit = CheckFailExitCode THEN CheckFailExitCode ELSE 1
      [] ok /\ RunStatus = "SKIP" -> CheckSkippedExitCode
      [] OTHER -> 0

\* Mutation: an infrastructure failure is a failed check.
FailAlike(results) ==
    IF \E i \in DOMAIN results : results[i].status \in {"FAIL", "INFRA"}
    THEN CheckFailExitCode ELSE 0

\* failErrorFor: a failed check dominates an infrastructure failure.
FailErrorFor(results) ==
    IF Some(results, "FAIL") THEN CheckFailExitCode
    ELSE IF Some(results, "INFRA") THEN 1 ELSE 0

\* CheckLiveCmd.Run, Passthrough: the exit code of the guest's command.
GuestExit(code) == IF code \in {0, CheckFailExitCode} THEN code ELSE 1

ExitOf(k, code) == IF k = "guest" THEN GuestExit(code) ELSE code

-----------------------------------------------------------------------------
Unknown == <<>>

TypeOK ==
    /\ pc \in {"idle", "running", "gone", "ended"} /\ kind \in Kinds
    /\ exit \in 0..3 /\ fate \in Fates /\ cerr \in BOOLEAN /\ ok \in BOOLEAN /\ failExit \in 0..3
    /\ Len(steps) <= MaxSteps /\ Len(truth) \in {Len(steps), Len(steps) + 1}

Init ==
    /\ pc = "idle" /\ kind = "build"
    /\ log = <<>> /\ exit = 0 /\ fate = "none" /\ cerr = FALSE
    /\ steps = <<>> /\ ok = TRUE /\ failExit = 0
    /\ truth = <<>>

-----------------------------------------------------------------------------
(* The child *)

Launch ==
    /\ pc = "idle"
    /\ Len(steps) < MaxSteps
    /\ pc' = "running"
    /\ kind' \in Kinds
    /\ log' = <<>> /\ exit' = 0 /\ fate' = "none" /\ cerr' = FALSE
    /\ truth' = Append(truth, Unknown)
    /\ UNCHANGED <<steps, ok, failExit>>

RunTool ==
    /\ pc = "running"
    /\ Len(log) < MaxLines
    /\ \E out \in ToolOutputs : log' = log \o out
    /\ UNCHANGED <<pc, kind, exit, fate, cerr, steps, ok, failExit, truth>>

\* The output of a build is content, whatever it looks like.
PrintQuotation ==
    /\ pc = "running"
    /\ kind = "build"
    /\ Len(log) < MaxLines
    /\ \E l \in Quoted : log' = Append(log, l)
    /\ UNCHANGED <<pc, kind, exit, fate, cerr, steps, ok, failExit, truth>>

BuildExits ==
    /\ pc = "running"
    /\ kind = "build"
    /\ exit' \in {0, 1}
    /\ fate' = IF exit' = 0 THEN "built" ELSE "broken"
    /\ pc' = "gone"
    /\ UNCHANGED <<kind, log, cerr, steps, ok, failExit, truth>>

\* skipNoPlanSteps: nothing was resolved, so nothing ran.
ResolveNothing ==
    /\ pc = "running"
    /\ kind # "build"
    /\ exit' = ExitOf(kind, CheckSkippedExitCode)
    /\ fate' = "empty"
    /\ pc' = "gone"
    /\ UNCHANGED <<kind, log, cerr, steps, ok, failExit, truth>>

\* hostCheckRun fails: there is no report.
CheckCannotRun ==
    /\ pc = "running"
    /\ kind # "build"
    /\ exit' = 1
    /\ fate' = "broken"
    /\ pc' = "gone"
    /\ UNCHANGED <<kind, log, cerr, steps, ok, failExit, truth>>

LineOf(result) == [t |-> "step", check |-> result.check, status |-> result.status]

\* The plan runs, what its steps forward comes first, and the report last.  A message may
\* carry a line that looks like a step (its newlines are kept), and no rollup.
ReportPlan ==
    /\ pc = "running"
    /\ kind # "build"
    /\ \E results \in Plans, before \in {<<>>} \cup {<<l>> : l \in Quoted},
           message \in {<<>>} \cup {<<l>> : l \in {q \in Quoted : q.t = "step"}} :
          LET lines == [i \in DOMAIN results |-> LineOf(results[i])]
          IN /\ log' = log \o before \o lines \o message
                           \o <<[t |-> "rollup", n |-> Len(results)]>>
             /\ exit' = ExitOf(kind, FailErrorFor(results))
             /\ truth' = [truth EXCEPT ![Len(truth)] = results]
    /\ fate' = "reported"
    /\ pc' = "gone"
    /\ UNCHANGED <<kind, cerr, steps, ok, failExit>>

\* The seam fails: no reply, hence no log and no exit code.
LoseReply ==
    /\ pc \in {"running", "gone"}
    /\ ~cerr
    /\ cerr' = TRUE /\ log' = <<>> /\ exit' = 0
    /\ pc' = "gone"
    /\ UNCHANGED <<kind, fate, steps, ok, failExit, truth>>

-----------------------------------------------------------------------------
(* stepEnv *)

\* A child that exits with the code of a skip is recorded as such, whatever its log says.
RecordSkip ==
    /\ pc = "gone"
    /\ exit = CheckSkippedExitCode
    /\ steps' = Append(steps, [ok |-> TRUE, skip |-> TRUE,
                               checks |-> ChildReport(kind, log).checks])
    /\ pc' = "idle"
    /\ UNCHANGED <<kind, log, exit, fate, cerr, ok, failExit, truth>>

RecordStep ==
    /\ pc = "gone"
    /\ exit # CheckSkippedExitCode
    /\ LET rep == ChildReport(kind, log)
           clean == ~cerr /\ exit = 0 /\ ~DiagnosticsFail(log)
           verdict == CheckReportVerdict(rep)
           passed == clean /\ verdict # "FAIL"
       IN /\ steps' = Append(steps, [ok |-> passed, skip |-> clean /\ verdict = "SKIP",
                                     checks |-> rep.checks])
          /\ ok' = (ok /\ passed)
          /\ failExit' = IF passed \/ failExit # 0 THEN failExit
                         ELSE IF cerr THEN 1
                         ELSE IF exit # 0 THEN exit ELSE CheckFailExitCode
          /\ pc' = IF passed THEN "idle" ELSE "ended"
    /\ UNCHANGED <<kind, log, exit, fate, cerr, truth>>

EndRun ==
    /\ pc = "idle"
    /\ steps # <<>>
    /\ pc' = "ended"
    /\ UNCHANGED <<kind, log, exit, fate, cerr, steps, ok, failExit, truth>>

Next ==
    \/ Launch \/ RunTool \/ PrintQuotation \/ BuildExits \/ ResolveNothing
    \/ CheckCannotRun \/ ReportPlan \/ LoseReply \/ RecordSkip \/ RecordStep \/ EndRun

Spec == Init /\ [][Next]_vars

-----------------------------------------------------------------------------
(* Properties *)

Found(status) ==
    \E i \in DOMAIN truth : \E j \in DOMAIN truth[i] :
        truth[i][j].check /\ truth[i][j].status = status

\* A run that says PASS proved something: some declared check of a plan really ran and
\* passed, and nothing any plan asserted failed.  Lines that only look like a report, in
\* the output of a build or in a message, prove nothing; a step that is a PASS by itself
\* proved something by itself, where it is a plan.
NoFalsePass ==
    /\ pc = "ended" /\ RunStatus = "PASS" =>
          Found("PASS") /\ ~Found("FAIL") /\ ~Found("INFRA")
    /\ \A i \in DOMAIN steps :
          truth[i] # Unknown /\ StepStatus(steps[i]) = "PASS" =>
              \E j \in DOMAIN truth[i] : truth[i][j].check /\ truth[i][j].status = "PASS"

\* What is recorded of a step's checks is what its plan found, check by check, or nothing:
\* never a mixture with lines of another report or of the tested software.
RecordIsTheReport ==
    \A i \in DOMAIN steps :
        \/ steps[i].checks = <<>>
        \/ LET found == ChecksOf(truth[i])
           IN steps[i].checks = [j \in DOMAIN found |-> LineOf(found[j])]

\* A check failed, or a child that exited 0 left an error in its log that no entry claims.
FailedACheck ==
    /\ ~cerr
    /\ \/ Some(Last(truth), "FAIL")
       \/ exit = 0 /\ DiagnosticsFail(log)

\* What should have been judged was not: a build or a check broke, an answer was lost, or the
\* containers failed and no check did.
CouldNotRun ==
    \/ cerr
    \/ fate = "broken"
    \/ fate = "reported" /\ Some(Last(truth), "INFRA") /\ ~Some(Last(truth), "FAIL")

\* The guest had nothing to check: the code that says so does not come through.
GuestHadNothing == ~cerr /\ kind = "guest" /\ fate = "empty"

\* The exit code of the run (bedRunOutcomeError) and the outcome of its last child name each
\* other: 2 if and only if a check failed or an error was left in a log, 1 if and only if
\* something could not run, and 3 wherever nothing failed and no plan passed a check; nor is
\* there a 3 in which a plan failed.  The one exception is the guest that had nothing to check:
\* a skip in any mode by check_cmd.go:41-48, it ends with 1 by live_cmd.go:117-124.
ExitTellsTheClass ==
    pc = "ended" =>
        /\ RunExit = CheckFailExitCode <=> FailedACheck
        /\ RunExit = 1 <=> CouldNotRun \/ GuestHadNothing
        /\ ~FailedACheck /\ ~CouldNotRun /\ ~GuestHadNothing /\ ~Found("PASS") =>
              RunExit = CheckSkippedExitCode
        /\ RunExit = CheckSkippedExitCode => ~Found("FAIL") /\ ~Found("INFRA")

Passed == pc \in {"idle", "ended"} /\ steps # <<>> /\ steps[Len(steps)].ok /\ exit = 0

\* What failed is itself named as recovered, or an entry claims it whose proof names nobody:
\* "the step boundary is the tie".
Recovered(text, k) ==
    \/ \E j \in DOMAIN text : text[j].t = "proof" /\ text[j].of = text[k].of
    \/ \E a \in Allowlist :
          /\ ~a.tied /\ ~a.endsOnLine
          /\ MatchAt(a, text[k])
          /\ \E j \in DOMAIN text : ProofAt(a, text[j])

\* The errors of a step that passed under a zero exit code (scanStepDiagnostics) are answered
\* for: each is recovered, or a hook was refused for it - one hook for one error, so that a
\* second hook's failure does not pass beside the first one's refusal.
ErrorsAnswered ==
    Passed =>
        LET left == {k \in DOMAIN log : log[k].t = "error" /\ ~Recovered(log, k)}
        IN \E hook \in Injection(left, {a \in Allowlist : a.endsOnLine}) :
              \A k \in left : \E r \in DOMAIN log : Refused(hook[k], log, r, k)

-----------------------------------------------------------------------------
(* What the comments of the code promise and the runs refute. *)

\* "the line is exempt only if the same log later PROVES the operation recovered"
\* (bed_diagnostics.go:146): what proves it stands behind the error and is about what failed;
\* where the proof is a chain that ends in the error, banner and refusal are that hook's ("a
\* refusal printed by a DIFFERENT hook leaves the wrapper error FATAL", :583).
RecoveryIsItsOwn ==
    Passed =>
        \A k \in DOMAIN log :
            log[k].t = "error" =>
                \/ \E j \in (k + 1)..Len(log) : log[j].t = "proof" /\ log[j].of = log[k].of
                \/ \A t \in {"banner", "refusal"} :
                      \E j \in 1..(k - 1) : log[j].t = t /\ log[j].of = log[k].of

=============================================================================
