------------------------------ MODULE Scoring -------------------------------
(***************************************************************************)
(* One scoring of a plan against its live venues: the "score" mode of the  *)
(* check runner (candy/plugin-check/score_live.go, live_scoring.go,        *)
(* score.go).  The steps are put in the order of depends_on, cut into runs *)
(* of one venue, and each run - a bucket - is scored on its own: an        *)
(* ephemeral venue is deployed for the bucket and deleted after it.        *)
(*                                                                         *)
(* A step is its place in the plan, which is what its id stands for.       *)
(***************************************************************************)
EXTENDS Naturals, Sequences, FiniteSets

CONSTANTS
    N,        \* how many steps the plan has
    NoVenue,  \* the venue of a step no tree position was resolved for
    Plans     \* the plans that may be scored

ASSUME StepsAssumption == N \in Nat

\* The steps, in the order of their declaration.
Steps == 1..N

\* A plan knows of each step what it depends on, and which of its steps are scored; a
\* depends_on that names no step of the plan does not order anything.
ASSUME PlansAssumption ==
    \A p \in Plans : p.deps \in [Steps -> SUBSET Steps] /\ p.scored \subseteq Steps

VARIABLES
    plan,      \* the chosen member of Plans
    lax,       \* a dependency without a verdict does not block
    pc,        \* "start", "open", "bucket", "done" or "refused"
    todo,      \* the steps of the buckets to come
    bucket,    \* the steps of the open bucket
    at,        \* the next step of the open bucket
    reachable, \* the venue of the open bucket answered its probe
    verdict,   \* verdictByID
    out,       \* the results: step and status, in the order they were reported
    up,        \* the ephemeral venues that are deployed
    leaked,    \* history: the venues whose deletion failed, which nobody is told
    ran        \* history: the steps that were executed, in order

vars == <<plan, lax, pc, todo, bucket, at, reachable, verdict, out, up, leaked, ran>>

Verdicts == {"none", "pass", "fail", "skipped"}
Statuses == {"pass", "fail", "skip", "skipped"}
Scored == plan.scored
Dep(s) == plan.deps[s]
Venue(s) == plan.venue[s]

-----------------------------------------------------------------------------
(* The order of the steps *)

\* The steps whose dependencies have all been placed: those of indegree zero.
ReadySteps(p, placed) == {s \in Steps \ placed : p.deps[s] \subseteq placed}

\* Mutation: the order of declaration.
DeclaredOrder(p) == [k \in Steps |-> k]

Placed(seq) == {seq[k] : k \in DOMAIN seq}

\* Of the ready steps the one declared first comes next.
PlaceNext(p, seq) ==
    LET ready == ReadySteps(p, Placed(seq))
    IN IF ready = {} THEN seq
       ELSE Append(seq, CHOOSE s \in ready : \A t \in ready : s <= t)

\* topoSortScored: a step that is on a cycle, or behind one, never gets ready.
TopoOrder(p) ==
    LET prefix[n \in 0..N] == IF n = 0 THEN <<>> ELSE PlaceNext(p, prefix[n - 1])
    IN prefix[N]

CyclicSteps(p) == Steps \ Placed(TopoOrder(p))

\* groupScoredByPod: the length of the longest run of one venue the order starts with.
BucketLength(seq) ==
    CHOOSE n \in 1..Len(seq) :
        /\ \A k \in 1..n : Venue(seq[k]) = Venue(seq[1])
        /\ n < Len(seq) => Venue(seq[n + 1]) # Venue(seq[1])

\* kit.FirstUnmetDepStep, outside this repository: a dependency with a verdict other than
\* pass blocks; one that never got a verdict - of an unscored step - may or may not.
Unmet(s) ==
    \E d \in Dep(s) : IF verdict[d] = "none" THEN ~lax ELSE verdict[d] # "pass"

-----------------------------------------------------------------------------
TypeOK ==
    /\ plan \in Plans /\ lax \in BOOLEAN
    /\ pc \in {"start", "open", "bucket", "done", "refused"}
    /\ todo \in Seq(Steps) /\ bucket \in Seq(Steps)
    /\ at \in Nat /\ reachable \in BOOLEAN
    /\ verdict \in [Steps -> Verdicts]
    /\ out \in Seq(Steps \X Statuses)
    /\ up \subseteq plan.ephemeral /\ leaked \subseteq plan.ephemeral
    /\ ran \in Seq(Steps)

Init ==
    /\ plan \in Plans
    /\ lax \in BOOLEAN
    /\ pc = "start"
    /\ todo = <<>> /\ bucket = <<>> /\ at = 1 /\ reachable = FALSE
    /\ verdict = [s \in Steps |-> "none"]
    /\ out = <<>>
    /\ up = {} /\ leaked = {} /\ ran = <<>>

-----------------------------------------------------------------------------
(* pluginRunCheckLive *)

RefuseToScore ==
    /\ pc = "start"
    /\ \E s \in Scored : Venue(s) = NoVenue
    /\ pc' = "refused"
    /\ UNCHANGED <<plan, lax, todo, bucket, at, reachable, verdict, out, up, leaked, ran>>

SortSteps ==
    /\ pc = "start"
    /\ \A s \in Scored : Venue(s) # NoVenue
    /\ pc' = "open"
    /\ todo' = TopoOrder(plan)
    /\ UNCHANGED <<plan, lax, bucket, at, reachable, verdict, out, up, leaked, ran>>

\* The ephemeral venue is deployed, which may fail without consequence; the probe then
\* tells whether the venue answers.
OpenBucket ==
    /\ pc = "open"
    /\ todo # <<>>
    /\ LET n == BucketLength(todo)
           v == Venue(todo[1])
       IN /\ bucket' = SubSeq(todo, 1, n)
          /\ todo' = SubSeq(todo, n + 1, Len(todo))
          /\ up' \in IF v \in plan.ephemeral THEN {up, up \cup {v}} ELSE {up}
          /\ reachable' \in IF v \in plan.ephemeral \ up' THEN {FALSE} ELSE BOOLEAN
    /\ pc' = "bucket"
    /\ at' = 1
    /\ UNCHANGED <<plan, lax, verdict, out, leaked, ran>>

\* The results and the verdicts grow together.
Report(s, status, v) ==
    /\ out' = Append(out, <<s, status>>)
    /\ verdict' = [verdict EXCEPT ![s] = v]

\* The scored steps the order could not place, and which have no verdict yet.
CyclicLeft == {s \in CyclicSteps(plan) \cap Scored : verdict[s] = "none"}

\* They fail, one after the other.
ReportCyclic ==
    /\ pc = "open"
    /\ todo = <<>>
    /\ \E s \in CyclicLeft :
          /\ \A t \in CyclicLeft : s <= t
          /\ Report(s, "fail", "fail")
    /\ UNCHANGED <<plan, lax, pc, todo, bucket, at, reachable, up, leaked, ran>>

\* Mutation: nobody waits for the steps the order could not place.
CyclicForgotten ==
    /\ pc = "open"
    /\ todo = <<>>
    /\ pc' = "done"
    /\ UNCHANGED <<plan, lax, todo, bucket, at, reachable, verdict, out, up, leaked, ran>>

EndScoring ==
    /\ pc = "open"
    /\ todo = <<>>
    /\ CyclicLeft = {}
    /\ pc' = "done"
    /\ UNCHANGED <<plan, lax, todo, bucket, at, reachable, verdict, out, up, leaked, ran>>

-----------------------------------------------------------------------------
(* pluginScoreOneVenueBucket *)

Pending == pc = "bucket" /\ at <= Len(bucket)
Current == bucket[at]

\* The cascade: a dependency did not pass.
SkipStep ==
    /\ Pending
    /\ Current \in Scored
    /\ Unmet(Current)
    /\ Report(Current, "skipped", "skipped")
    /\ at' = at + 1
    /\ UNCHANGED <<plan, lax, pc, todo, bucket, reachable, up, leaked, ran>>

\* Nothing of the bucket runs, its provisioning steps included.
VenueUnreachable ==
    /\ Pending
    /\ ~reachable
    /\ IF Current \in Scored
       THEN ~Unmet(Current) /\ Report(Current, "fail", "fail")
       ELSE UNCHANGED <<out, verdict>>
    /\ at' = at + 1
    /\ UNCHANGED <<plan, lax, pc, todo, bucket, reachable, up, leaked, ran>>

\* A skip of the step itself counts as a failure for the steps that depend on it.
RunStep ==
    /\ Pending
    /\ reachable
    /\ ran' = Append(ran, Current)
    /\ IF Current \in Scored
       THEN /\ ~Unmet(Current)
            /\ \E status \in {"pass", "fail", "skip"} :
                  Report(Current, status, IF status = "pass" THEN "pass" ELSE "fail")
       ELSE UNCHANGED <<out, verdict>>
    /\ at' = at + 1
    /\ UNCHANGED <<plan, lax, pc, todo, bucket, reachable, up, leaked>>

\* Mutation: only a venue that answered is deleted.
CleanupReachable ==
    /\ pc = "bucket"
    /\ at > Len(bucket)
    /\ pc' = "open"
    /\ LET v == Venue(bucket[1])
       IN up' = IF reachable THEN up \ {v} ELSE up
    /\ UNCHANGED <<plan, lax, todo, bucket, at, reachable, verdict, out, leaked, ran>>

\* ephemeralCleanup: the venue is deleted, except where a failed bucket is to be kept.
CloseBucket ==
    /\ pc = "bucket"
    /\ at > Len(bucket)
    /\ pc' = "open"
    /\ LET v == Venue(bucket[1])
           failed == \E k \in DOMAIN bucket : verdict[bucket[k]] = "fail"
       IN IF v \in plan.ephemeral /\ ~(failed /\ v \in plan.keep)
          THEN \/ up' = up \ {v} /\ UNCHANGED leaked
               \/ v \in up /\ leaked' = leaked \cup {v} /\ UNCHANGED up
          ELSE UNCHANGED <<up, leaked>>
    /\ UNCHANGED <<plan, lax, todo, bucket, at, reachable, verdict, out, ran>>

Next ==
    \/ RefuseToScore \/ SortSteps \/ OpenBucket \/ ReportCyclic \/ EndScoring
    \/ SkipStep \/ VenueUnreachable \/ RunStep \/ CloseBucket

Spec == Init /\ [][Next]_vars

-----------------------------------------------------------------------------
(* Properties *)

\* A scored step that was executed was executed after every scored step it depends on,
\* and each of those had passed: neither the order of the buckets nor the cascade lets a
\* step run on top of something that is broken.
CascadeHonest ==
    \A k \in DOMAIN ran :
        ran[k] \in Scored =>
            \A d \in Dep(ran[k]) \cap Scored :
                verdict[d] = "pass" /\ \E j \in 1..(k - 1) : ran[j] = d

\* When the scoring is over every scored step has exactly one result, whatever its venue,
\* its dependencies or the cycles of the plan; a step is only skipped behind one that did
\* not pass.  (A step without a result would be classified as tampered with.)
EveryStepScoredOnce ==
    pc = "done" =>
        /\ {out[k][1] : k \in DOMAIN out} = Scored
        /\ Len(out) = Cardinality(Scored)
        /\ \A k \in DOMAIN out :
              out[k][2] = "skipped" => \E d \in Dep(out[k][1]) : verdict[d] # "pass"

\* An ephemeral venue does not outlive the scoring, except the one a failed step of which
\* is to be inspected or the one whose deletion failed - not one that was deployed and
\* then did not answer.
EphemeralDisposed ==
    pc = "done" =>
        \A v \in up \ leaked :
            v \in plan.keep /\ \E s \in Scored : Venue(s) = v /\ verdict[s] = "fail"

=============================================================================
