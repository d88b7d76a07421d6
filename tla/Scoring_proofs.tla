--------------------------- MODULE Scoring_proofs ---------------------------
(***************************************************************************)
(* A scoring for any plan: any number of steps, any depends_on, cyclic or  *)
(* not, any venues.  First the order of the steps, then the queue - the    *)
(* rest of the open bucket and the buckets to come - and the verdicts,     *)
(* which IInv relates: whatever a step in the queue depends on has its     *)
(* verdict or stands before it.                                            *)
(***************************************************************************)
EXTENDS Scoring, SequenceFacts, FiniteSetTheorems, FunctionTheorems

-----------------------------------------------------------------------------
(* The order of the steps *)

NoRepeats(seq) == \A j, k \in 1..Len(seq) : seq[j] = seq[k] => j = k

\* An order of some of the steps of p, each of them behind what it depends on.
Sorted(p, seq) ==
    /\ seq \in Seq(Steps)
    /\ NoRepeats(seq)
    /\ \A k \in 1..Len(seq) : \A d \in p.deps[seq[k]] : \E j \in 1..(k - 1) : seq[j] = d

\* The elements of a sequence, by position.
LEMMA PlacedAt ==
    ASSUME NEW T, NEW seq \in Seq(T), NEW s
    PROVE  s \in Placed(seq) <=> \E k \in 1..Len(seq) : seq[k] = s
<1>1. DOMAIN seq = 1..Len(seq)
  OBVIOUS
<1>2. QED BY <1>1 DEF Placed

\* Placing the next step keeps the order.
LEMMA PlaceNextSorts ==
    ASSUME NEW p \in Plans, NEW seq, Sorted(p, seq)
    PROVE  Sorted(p, PlaceNext(p, seq))
<1> DEFINE ready == ReadySteps(p, Placed(seq))
           s == CHOOSE u \in ready : \A t \in ready : u <= t
<1>1. PlaceNext(p, seq) = IF ready = {} THEN seq ELSE Append(seq, s)
  BY DEF PlaceNext
<1>2. CASE ready = {}
  BY <1>1, <1>2
<1>3. CASE ready # {}
  <2>1. ready \subseteq Nat
    BY StepsAssumption DEF ReadySteps, Steps
  <2>2. s \in ready
    <3>1. \E u \in ready : \A t \in ready : u <= t
      BY <1>3, <2>1, Least
    <3>2. QED BY <3>1
  <2>3. s \in Steps /\ s \notin Placed(seq) /\ p.deps[s] \subseteq Placed(seq)
    BY <2>2 DEF ReadySteps
  <2> HIDE DEF ready, s
  <2> DEFINE new == Append(seq, s)
  <2>4. seq \in Seq(Steps) /\ NoRepeats(seq)
    BY DEF Sorted
  <2>5. /\ new \in Seq(Steps) /\ Len(new) = Len(seq) + 1 /\ Len(seq) \in Nat
        /\ \A k \in 1..Len(seq) : new[k] = seq[k]
        /\ new[Len(seq) + 1] = s
    BY <2>3, <2>4
  <2> HIDE DEF new
  <2>6. \A k \in 1..Len(seq) : seq[k] # s
    BY <2>3, <2>4, PlacedAt
  <2>7. NoRepeats(new)
    BY <2>4, <2>5, <2>6 DEF NoRepeats
  <2>8. ASSUME NEW k \in 1..Len(new), NEW d \in p.deps[new[k]]
        PROVE  \E j \in 1..(k - 1) : new[j] = d
    <3>1. CASE k \in 1..Len(seq)
      <4>1. PICK j \in 1..(k - 1) : seq[j] = d
        BY <2>5, <2>8, <3>1 DEF Sorted
      <4>2. j \in 1..Len(seq)
        BY <2>5, <3>1
      <4>3. QED BY <2>5, <4>1, <4>2
    <3>2. CASE k = Len(seq) + 1
      <4>1. d \in Placed(seq)
        BY <2>3, <2>5, <2>8, <3>2
      <4>2. PICK j \in 1..Len(seq) : seq[j] = d
        BY <2>4, <4>1, PlacedAt
      <4>3. QED BY <2>5, <3>2, <4>2
    <3>3. QED BY <2>5, <3>1, <3>2
  <2>9. Sorted(p, new)
    BY <2>5, <2>7, <2>8 DEF Sorted
  <2>10. QED BY <1>1, <1>3, <2>9 DEF new
<1>4. QED BY <1>2, <1>3

\* f is the first n orders on the way to TopoOrder.
Placing(f, p, n) == f = [k \in 0..n |-> IF k = 0 THEN <<>> ELSE PlaceNext(p, f[k - 1])]

LEMMA PlacingExists ==
    ASSUME NEW p, NEW n \in Nat
    PROVE  \E f : Placing(f, p, n)
<1> DEFINE P == {k \in Nat : \E f : Placing(f, p, k)}
<1>1. 0 \in P
  <2>1. Placing([k \in 0..0 |-> <<>>], p, 0)
    BY DEF Placing
  <2>2. QED BY <2>1
<1>2. ASSUME NEW k \in Nat, k \in P
      PROVE  k + 1 \in P
  <2>1. PICK f : Placing(f, p, k)
    BY <1>2
  <2> DEFINE next == PlaceNext(p, f[k])
             g == [i \in 0..(k + 1) |-> IF i = k + 1 THEN next ELSE f[i]]
  <2>2. \A i \in 0..k : f[i] = IF i = 0 THEN <<>> ELSE PlaceNext(p, f[i - 1])
    BY <2>1 DEF Placing
  <2>3. ASSUME NEW i \in 0..(k + 1)
        PROVE  g[i] = IF i = 0 THEN <<>> ELSE PlaceNext(p, g[i - 1])
    <3>1. CASE i = k + 1
      <4>1. i # 0 /\ i - 1 = k /\ g[k] = f[k] /\ g[i] = next
        BY <3>1
      <4>2. QED BY <4>1
    <3>2. CASE i \in 0..k
      <4>1. i # 0 => g[i - 1] = f[i - 1]
        BY <3>2
      <4>2. g[i] = f[i]
        BY <3>2
      <4>3. QED BY <2>2, <3>2, <4>1, <4>2
    <3>3. QED BY <3>1, <3>2
  <2>4. Placing(g, p, k + 1)
    BY <2>3 DEF Placing
  <2>5. QED BY <2>4
<1> HIDE DEF P
<1>3. n \in P
  BY <1>1, <1>2, Induct
<1>4. QED BY <1>3 DEF P

\* The order of the steps is one: no step twice, each behind what it depends on.
LEMMA TopoOrderSorts ==
    ASSUME NEW p \in Plans
    PROVE  Sorted(p, TopoOrder(p))
<1> DEFINE f == CHOOSE h : h = [k \in 0..N |-> IF k = 0 THEN <<>> ELSE PlaceNext(p, h[k - 1])]
<1>1. Placing(f, p, N)
  <2>1. \E h : Placing(h, p, N)
    BY StepsAssumption, PlacingExists
  <2>2. QED BY <2>1, Zenon DEF Placing
<1>2. TopoOrder(p) = f[N]
  BY DEF TopoOrder
<1> HIDE DEF f
<1>3. \A k \in 0..N : f[k] = IF k = 0 THEN <<>> ELSE PlaceNext(p, f[k - 1])
  BY <1>1 DEF Placing
<1> DEFINE P == {k \in Nat : k \in 0..N => Sorted(p, f[k])}
<1>4. 0 \in P
  <2>1. Sorted(p, <<>>)
    BY DEF Sorted, NoRepeats
  <2>2. f[0] = <<>>
    BY <1>3, StepsAssumption
  <2>3. QED BY <2>1, <2>2
<1>5. ASSUME NEW k \in Nat, k \in P
      PROVE  k + 1 \in P
  <2>1. SUFFICES ASSUME k + 1 \in 0..N
                 PROVE  Sorted(p, f[k + 1])
    OBVIOUS
  <2>2. Sorted(p, f[k])
    BY <1>5, <2>1, StepsAssumption
  <2>3. (k + 1) - 1 = k /\ k + 1 # 0
    OBVIOUS
  <2>4. f[k + 1] = PlaceNext(p, f[k])
    BY <1>3, <2>1, <2>3
  <2>5. QED BY <2>2, <2>4, PlaceNextSorts
<1> HIDE DEF P
<1>6. N \in P
  BY <1>4, <1>5, Induct, StepsAssumption
<1>7. QED BY <1>2, <1>6, StepsAssumption DEF P

\* A bucket is a run of one venue, of at least one step.
LEMMA BucketIsARun ==
    ASSUME NEW T, NEW seq \in Seq(T), seq # <<>>
    PROVE  /\ BucketLength(seq) \in 1..Len(seq)
           /\ \A k \in 1..BucketLength(seq) : Venue(seq[k]) = Venue(seq[1])
<1> DEFINE ends == {n \in 1..Len(seq) : n < Len(seq) => Venue(seq[n + 1]) # Venue(seq[1])}
<1>1. Len(seq) \in Nat \ {0}
  OBVIOUS
<1>2. ends \subseteq Nat /\ Len(seq) \in ends
  BY <1>1
<1>3. PICK m \in ends : \A n \in ends : m <= n
  BY <1>2, Least
<1>4. ASSUME NEW k \in 1..m, Venue(seq[k]) # Venue(seq[1])
      PROVE  FALSE
  <2>1. k - 1 \in 1..Len(seq) /\ k - 1 < m /\ (k - 1) + 1 = k
    BY <1>1, <1>3, <1>4
  <2>2. k - 1 \in ends
    BY <1>4, <2>1
  <2>3. m <= k - 1 /\ m \in Nat /\ k \in Nat
    BY <1>2, <1>3, <2>2
  <2>4. QED BY <2>1, <2>3
<1> DEFINE R(n) == /\ \A k \in 1..n : Venue(seq[k]) = Venue(seq[1])
                   /\ n < Len(seq) => Venue(seq[n + 1]) # Venue(seq[1])
<1>5. m \in 1..Len(seq) /\ R(m)
  BY <1>3, <1>4
<1>6. BucketLength(seq) = CHOOSE n \in 1..Len(seq) : R(n)
  BY DEF BucketLength
<1> HIDE DEF R
<1>7. BucketLength(seq) \in 1..Len(seq) /\ R(BucketLength(seq))
  BY <1>5, <1>6, Zenon
<1>8. QED BY <1>7 DEF R

-----------------------------------------------------------------------------
(* The invariant *)

HasVerdict(s) == verdict[s] # "none"

\* d is among the steps of the open bucket that are still to come, up to the k-th.
Coming(d, k) == \E j \in at..k : bucket[j] = d

\* The queue is the rest of the open bucket and the buckets to come.
QueueInv ==
    /\ at \in 1..(Len(bucket) + 1)
    /\ pc # "bucket" => at = Len(bucket) + 1
    /\ pc = "bucket" => bucket # <<>>
    /\ pc \in {"start", "done"} => todo = <<>>
    /\ NoRepeats(bucket) /\ NoRepeats(todo)
    /\ \A k \in 1..Len(bucket) : Venue(bucket[k]) = Venue(bucket[1])
    /\ \A j \in at..Len(bucket), k \in 1..Len(todo) : bucket[j] # todo[k]

\* No step in the queue has a verdict yet.
FreshInv ==
    /\ \A k \in at..Len(bucket) : ~HasVerdict(bucket[k])
    /\ \A k \in 1..Len(todo) : ~HasVerdict(todo[k])
    /\ pc = "start" => \A s \in Steps : ~HasVerdict(s)

\* The scored steps a step in the queue depends on have a verdict or stand before it.
OrderInv ==
    /\ \A k \in at..Len(bucket) : \A d \in Dep(bucket[k]) \cap Scored :
          HasVerdict(d) \/ Coming(d, k - 1)
    /\ \A k \in 1..Len(todo) : \A d \in Dep(todo[k]) \cap Scored :
          HasVerdict(d) \/ Coming(d, Len(bucket)) \/ \E j \in 1..(k - 1) : todo[j] = d

\* No scored step is lost: it has a verdict, is in the queue or could not be placed.
CoverInv ==
    /\ pc \in {"open", "bucket"} =>
          \A s \in Scored :
              \/ HasVerdict(s) \/ Coming(s, Len(bucket))
              \/ s \in Placed(todo) \/ s \in CyclicSteps(plan)
    /\ pc = "done" => \A s \in Scored : HasVerdict(s)

\* The verdicts are the results, one for each; only what was executed passed.
ResultInv ==
    /\ \A s \in Steps : HasVerdict(s) => s \in Scored /\ \E k \in 1..Len(out) : out[k][1] = s
    /\ \A k \in 1..Len(out) : HasVerdict(out[k][1])
    /\ \A j, k \in 1..Len(out) : out[j][1] = out[k][1] => j = k
    /\ \A s \in Steps : verdict[s] = "pass" => \E k \in 1..Len(ran) : ran[k] = s

\* What a skipped step is behind of never passes any more.
SkipInv ==
    \A k \in 1..Len(out) :
        out[k][2] = "skipped" =>
            \E d \in Dep(out[k][1]) : verdict[d] # "pass" /\ (HasVerdict(d) \/ d \notin Scored)

\* A venue that is up, and was not given up, is the one in use or is kept for inspection.
KeptInv ==
    \A v \in up \ leaked :
        \/ v \in plan.keep /\ \E s \in Scored : Venue(s) = v /\ verdict[s] = "fail"
        \/ pc = "bucket" /\ v = Venue(bucket[1])

IInv ==
    /\ TypeOK /\ QueueInv /\ FreshInv /\ OrderInv /\ CoverInv
    /\ ResultInv /\ SkipInv /\ KeptInv /\ CascadeHonest

-----------------------------------------------------------------------------
(* What the actions have in common *)

\* A plan has scored steps, and dependencies of each step, among its steps.
LEMMA PlanIsTyped ==
    ASSUME TypeOK
    PROVE  /\ plan \in Plans /\ Scored \subseteq Steps
           /\ \A s \in Steps : Dep(s) \subseteq Steps
BY PlansAssumption DEF TypeOK, Scored, Dep

\* The step of the bucket whose turn it is has been dealt with, in one of three ways.
TakeStep ==
    /\ Pending
    /\ at' = at + 1
    /\ UNCHANGED <<plan, pc, todo, bucket, up, leaked>>
    /\ \/ /\ Current \in Scored
          /\ \E status \in Statuses, v \in Verdicts \ {"none"} :
                /\ Report(Current, status, v)
                /\ status = "skipped" => Unmet(Current)
                /\ v = "pass" => ran' = Append(ran, Current)
       \/ Current \notin Scored /\ UNCHANGED <<out, verdict>>
    /\ \/ ran' = ran
       \/ ran' = Append(ran, Current) /\ (Current \in Scored => ~Unmet(Current))

LEMMA ThreeWays ==
    ASSUME SkipStep \/ VenueUnreachable \/ RunStep
    PROVE  TakeStep
<1>1. CASE SkipStep
  <2>1. "skipped" \in Statuses /\ "skipped" \in Verdicts \ {"none"}
    BY DEF Statuses, Verdicts
  <2>2. QED BY <1>1, <2>1 DEF SkipStep, TakeStep
<1>2. CASE VenueUnreachable
  <2>1. "fail" \in Statuses /\ "fail" \in Verdicts \ {"none"}
    BY DEF Statuses, Verdicts
  <2>2. QED BY <1>2, <2>1 DEF VenueUnreachable, TakeStep
<1>3. CASE RunStep
  <2>1. CASE Current \in Scored
    <3>1. PICK status \in {"pass", "fail", "skip"} :
              Report(Current, status, IF status = "pass" THEN "pass" ELSE "fail")
      BY <1>3, <2>1 DEF RunStep
    <3> DEFINE v == IF status = "pass" THEN "pass" ELSE "fail"
    <3>2. status \in Statuses /\ status # "skipped" /\ v \in Verdicts \ {"none"}
      BY DEF Statuses, Verdicts
    <3>3. Report(Current, status, v)
      BY <3>1
    <3>4. ran' = Append(ran, Current) /\ ~Unmet(Current)
      BY <1>3, <2>1 DEF RunStep
    <3> HIDE DEF v
    <3>5. QED BY <1>3, <2>1, <3>2, <3>3, <3>4 DEF RunStep, TakeStep
  <2>2. CASE Current \notin Scored
    BY <1>3, <2>2 DEF RunStep, TakeStep
  <2>3. QED BY <2>1, <2>2
<1>4. QED BY <1>1, <1>2, <1>3

\* The actions, the three ways taken together.
LEMMA NextCases ==
    ASSUME [Next]_vars
    PROVE  \/ RefuseToScore \/ SortSteps \/ OpenBucket \/ ReportCyclic \/ EndScoring
           \/ TakeStep \/ CloseBucket \/ UNCHANGED vars
BY ThreeWays DEF Next

\* A report adds one result and gives one verdict.
LEMMA ReportAdds ==
    ASSUME TypeOK, NEW s \in Steps, NEW status \in Statuses, NEW v \in Verdicts,
           Report(s, status, v)
    PROVE  /\ out' \in Seq(Steps \X Statuses) /\ Len(out') = Len(out) + 1 /\ Len(out) \in Nat
           /\ \A k \in 1..Len(out) : out'[k] = out[k]
           /\ out'[Len(out) + 1][1] = s /\ out'[Len(out) + 1][2] = status
           /\ verdict' \in [Steps -> Verdicts] /\ verdict'[s] = v
           /\ \A t \in Steps \ {s} : verdict'[t] = verdict[t]
<1>1. out \in Seq(Steps \X Statuses) /\ verdict \in [Steps -> Verdicts]
  BY DEF TypeOK
<1>2. out' = Append(out, <<s, status>>) /\ verdict' = [verdict EXCEPT ![s] = v]
  BY DEF Report
<1>3. <<s, status>> \in Steps \X Statuses
  OBVIOUS
<1>4. /\ out' \in Seq(Steps \X Statuses) /\ Len(out') = Len(out) + 1 /\ Len(out) \in Nat
      /\ \A k \in 1..Len(out) : out'[k] = out[k]
      /\ out'[Len(out) + 1] = <<s, status>>
  BY <1>1, <1>2, <1>3
<1>5. out'[Len(out) + 1][1] = s /\ out'[Len(out) + 1][2] = status
  BY <1>4
<1>6. verdict' \in [Steps -> Verdicts] /\ verdict'[s] = v
  BY <1>1, <1>2
<1>7. \A t \in Steps \ {s} : verdict'[t] = verdict[t]
  BY <1>1, <1>2
<1>8. QED BY <1>4, <1>5, <1>6, <1>7

\* The open bucket takes the first steps off the queue, all of one venue.
LEMMA OpenTakes ==
    ASSUME TypeOK, OpenBucket
    PROVE  \E n \in 1..Len(todo) :
              /\ bucket' \in Seq(Steps) /\ Len(bucket') = n
              /\ \A k \in 1..n : bucket'[k] = todo[k] /\ Venue(todo[k]) = Venue(todo[1])
              /\ todo' \in Seq(Steps) /\ Len(todo') = Len(todo) - n
              /\ \A k \in 1..Len(todo') : todo'[k] = todo[n + k]
<1> DEFINE n == BucketLength(todo)
<1>1. todo \in Seq(Steps) /\ todo # <<>> /\ Len(todo) \in Nat
  BY DEF TypeOK, OpenBucket
<1>2. n \in 1..Len(todo) /\ \A k \in 1..n : Venue(todo[k]) = Venue(todo[1])
  BY <1>1, BucketIsARun
<1>3. bucket' = SubSeq(todo, 1, n) /\ todo' = SubSeq(todo, n + 1, Len(todo))
  BY DEF OpenBucket
<1> HIDE DEF n
<1>4. \A k \in 1..Len(todo) : todo[k] \in Steps
  BY <1>1
<1>5. bucket' \in Seq(Steps) /\ Len(bucket') = n /\ \A k \in 1..n : bucket'[k] = todo[k]
  BY <1>1, <1>2, <1>3, <1>4
<1>6. /\ todo' \in Seq(Steps) /\ Len(todo') = Len(todo) - n
      /\ \A k \in 1..Len(todo') : todo'[k] = todo[n + k]
  <2>1. \A k \in (n + 1)..Len(todo) : todo[k] \in Steps
    BY <1>1, <1>2
  <2>2. Len(todo') = Len(todo) - n /\ todo' \in Seq(Steps)
    BY <1>1, <1>2, <1>3, <2>1
  <2>3. ASSUME NEW k \in 1..Len(todo')
        PROVE  todo'[k] = todo[n + k]
    <3>1. todo'[k] = todo[(n + 1) + k - 1]
      BY <1>1, <1>2, <1>3, <2>2
    <3>2. (n + 1) + k - 1 = n + k
      BY <1>2
    <3>3. QED BY <3>1, <3>2
  <2>4. QED BY <2>2, <2>3
<1>7. QED BY <1>2, <1>5, <1>6

\* The plan is what it was.
LEMMA PlanStays ==
    ASSUME [Next]_vars
    PROVE  plan' = plan
<1>1. CASE Next
  BY <1>1 DEF Next, RefuseToScore, SortSteps, OpenBucket, ReportCyclic, EndScoring, SkipStep,
     VenueUnreachable, RunStep, CloseBucket
<1>2. QED BY <1>1 DEF vars

-----------------------------------------------------------------------------
(* The invariant holds at the start *)

LEMMA InitHolds ==
    ASSUME Init
    PROVE  IInv
<1>1. /\ plan \in Plans /\ lax \in BOOLEAN /\ pc = "start"
      /\ todo = <<>> /\ bucket = <<>> /\ at = 1 /\ reachable = FALSE
      /\ verdict = [s \in Steps |-> "none"] /\ out = <<>>
      /\ up = {} /\ leaked = {} /\ ran = <<>>
  BY DEF Init
<1>2. \A s \in Steps : verdict[s] = "none"
  BY <1>1
<1>3. "none" \in Verdicts
  BY DEF Verdicts
<1>4. TypeOK
  <2>1. verdict \in [Steps -> Verdicts]
    BY <1>1, <1>3
  <2>2. <<>> \in Seq(Steps) /\ <<>> \in Seq(Steps \X Statuses) /\ 1 \in Nat
    OBVIOUS
  <2>3. todo \in Seq(Steps) /\ bucket \in Seq(Steps) /\ ran \in Seq(Steps)
    BY <1>1, <2>2
  <2>4. out \in Seq(Steps \X Statuses) /\ at \in Nat
    BY <1>1, <2>2
  <2>5. up \subseteq plan.ephemeral /\ leaked \subseteq plan.ephemeral
    BY <1>1
  <2>6. reachable \in BOOLEAN
    BY <1>1
  <2>7. QED BY <1>1, <2>1, <2>3, <2>4, <2>5, <2>6 DEF TypeOK
<1>5. QueueInv
  BY <1>1 DEF QueueInv, NoRepeats
<1>6. FreshInv
  BY <1>1, <1>2 DEF FreshInv, HasVerdict
<1>7. OrderInv
  BY <1>1 DEF OrderInv
<1>8. CoverInv
  BY <1>1 DEF CoverInv
<1>9. ResultInv
  BY <1>1, <1>2 DEF ResultInv, HasVerdict
<1>10. SkipInv /\ KeptInv /\ CascadeHonest
  BY <1>1 DEF SkipInv, KeptInv, CascadeHonest
<1>11. QED BY <1>4, <1>5, <1>6, <1>7, <1>8, <1>9, <1>10 DEF IInv

-----------------------------------------------------------------------------
(* Each part is kept *)

LEMMA TypeStep ==
    ASSUME TypeOK, QueueInv, [Next]_vars
    PROVE  TypeOK'
<1> USE DEF TypeOK
<1>1. CASE RefuseToScore
  BY <1>1 DEF RefuseToScore
<1>2. CASE SortSteps
  <2>1. TopoOrder(plan) \in Seq(Steps)
    BY TopoOrderSorts DEF Sorted
  <2>2. QED BY <1>2, <2>1 DEF SortSteps
<1>3. CASE OpenBucket
  <2>1. bucket' \in Seq(Steps) /\ todo' \in Seq(Steps) /\ at' \in Nat
    BY <1>3, OpenTakes DEF OpenBucket
  <2>2. up' \subseteq plan.ephemeral
    BY <1>3 DEF OpenBucket
  <2>3. reachable' \in BOOLEAN
    BY <1>3 DEF OpenBucket
  <2>4. QED BY <1>3, <2>1, <2>2, <2>3 DEF OpenBucket
<1>4. CASE ReportCyclic
  <2>1. PICK s \in CyclicLeft : Report(s, "fail", "fail")
    BY <1>4 DEF ReportCyclic
  <2>2. s \in Steps /\ "fail" \in Statuses /\ "fail" \in Verdicts
    BY DEF CyclicLeft, CyclicSteps, Statuses, Verdicts
  <2>3. out' \in Seq(Steps \X Statuses) /\ verdict' \in [Steps -> Verdicts]
    BY <2>1, <2>2, ReportAdds
  <2>4. QED BY <1>4, <2>3 DEF ReportCyclic
<1>5. CASE EndScoring
  BY <1>5 DEF EndScoring
<1>6. CASE SkipStep \/ VenueUnreachable \/ RunStep
  <2>1. TakeStep
    BY <1>6, ThreeWays
  <2>2. at \in 1..Len(bucket)
    BY <2>1 DEF TakeStep, Pending, QueueInv
  <2>3. Current \in Steps
    BY <2>2 DEF Current
  <2>4. out' \in Seq(Steps \X Statuses) /\ verdict' \in [Steps -> Verdicts]
    <3>1. CASE Current \in Scored
      BY <2>1, <2>3, <3>1, ReportAdds DEF TakeStep
    <3>2. CASE Current \notin Scored
      BY <2>1, <3>2 DEF TakeStep
    <3>3. QED BY <3>1, <3>2
  <2>5. ran' \in Seq(Steps)
    <3>1. ran \in Seq(Steps)
      OBVIOUS
    <3>2. Append(ran, Current) \in Seq(Steps)
      BY <2>3, <3>1
    <3>3. QED BY <2>1, <3>1, <3>2 DEF TakeStep
  <2>8. at' \in Nat
    BY <2>1, <2>2 DEF TakeStep
  <2>6. UNCHANGED <<plan, lax, pc, todo, bucket, reachable, up, leaked>>
    BY <1>6 DEF SkipStep, VenueUnreachable, RunStep
  <2>7. QED BY <2>4, <2>5, <2>6, <2>8
<1>7. CASE CloseBucket
  BY <1>7 DEF CloseBucket
<1>8. CASE UNCHANGED vars
  BY <1>8 DEF vars
<1>9. QED BY <1>1, <1>2, <1>3, <1>4, <1>5, <1>6, <1>7, <1>8 DEF Next

\* A verdict, once given, stands; and only scored steps get one.
LEMMA VerdictsStand ==
    ASSUME TypeOK, QueueInv, FreshInv, [Next]_vars
    PROVE  \A s \in Steps :
              /\ HasVerdict(s) => verdict'[s] = verdict[s]
              /\ s \notin Scored => verdict'[s] = verdict[s]
<1>1. CASE ReportCyclic
  <2>1. PICK s \in CyclicLeft : Report(s, "fail", "fail")
    BY <1>1 DEF ReportCyclic
  <2>2. s \in Steps /\ s \in Scored /\ ~HasVerdict(s) /\ "fail" \in Statuses /\ "fail" \in Verdicts
    BY <2>1 DEF CyclicLeft, CyclicSteps, Statuses, Verdicts, HasVerdict
  <2>3. \A t \in Steps \ {s} : verdict'[t] = verdict[t]
    BY <2>1, <2>2, ReportAdds
  <2>4. QED BY <2>2, <2>3
<1>2. CASE TakeStep
  <2>1. at \in 1..Len(bucket)
    BY <1>2 DEF TakeStep, Pending, QueueInv
  <2>2. Current \in Steps
    BY <2>1 DEF Current, TypeOK
  <2>3. ~HasVerdict(Current)
    <3>1. at \in at..Len(bucket)
      BY <2>1
    <3>2. QED BY <3>1 DEF FreshInv, Current
  <2>4. CASE Current \in Scored
    <3>1. \A t \in Steps \ {Current} : verdict'[t] = verdict[t]
      BY <1>2, <2>2, <2>4, ReportAdds DEF TakeStep
    <3>2. QED BY <2>3, <2>4, <3>1
  <2>5. CASE Current \notin Scored
    BY <1>2, <2>5 DEF TakeStep
  <2>6. QED BY <2>4, <2>5
<1>3. CASE RefuseToScore \/ SortSteps \/ OpenBucket \/ EndScoring \/ CloseBucket \/ UNCHANGED vars
  BY <1>3 DEF RefuseToScore, SortSteps, OpenBucket, EndScoring, CloseBucket, vars
<1>4. QED BY <1>1, <1>2, <1>3, NextCases

\* The same, for what is said about verdicts.
LEMMA VerdictsStay ==
    ASSUME TypeOK, QueueInv, FreshInv, [Next]_vars, NEW s \in Steps, HasVerdict(s)
    PROVE  verdict'[s] = verdict[s] /\ HasVerdict(s)'
BY VerdictsStand DEF HasVerdict

LEMMA QueueStep ==
    ASSUME TypeOK, QueueInv, [Next]_vars
    PROVE  QueueInv'
<1> USE DEF QueueInv
<1>1. CASE RefuseToScore
  BY <1>1 DEF RefuseToScore, NoRepeats, Venue
<1>2. CASE SortSteps
  <2>1. todo' \in Seq(Steps) /\ NoRepeats(todo')
    BY <1>2, TopoOrderSorts DEF SortSteps, Sorted, TypeOK
  <2>2. /\ at' = Len(bucket') + 1 /\ bucket' = bucket /\ plan' = plan /\ at' = at /\ pc' = "open"
        /\ Len(bucket) \in Nat
    BY <1>2 DEF SortSteps, TypeOK
  <2>3. NoRepeats(bucket)' /\ NoRepeats(todo)'
    BY <2>1, <2>2 DEF NoRepeats
  <2>4. (\A k \in 1..Len(bucket) : Venue(bucket[k]) = Venue(bucket[1]))'
    BY <2>2 DEF Venue
  <2>5. (\A j \in at..Len(bucket), k \in 1..Len(todo) : bucket[j] # todo[k])'
    BY <2>2
  <2>6. QED BY <2>2, <2>3, <2>4, <2>5
<1>3. CASE OpenBucket
  <2>1. PICK n \in 1..Len(todo) :
              /\ bucket' \in Seq(Steps) /\ Len(bucket') = n
              /\ \A k \in 1..n : bucket'[k] = todo[k] /\ Venue(todo[k]) = Venue(todo[1])
              /\ todo' \in Seq(Steps) /\ Len(todo') = Len(todo) - n
              /\ \A k \in 1..Len(todo') : todo'[k] = todo[n + k]
    BY <1>3, OpenTakes
  <2>2. /\ at' = 1 /\ pc' = "bucket" /\ plan' = plan /\ Len(todo) \in Nat
        /\ \A j, k \in 1..Len(todo) : todo[j] = todo[k] => j = k
    BY <1>3 DEF OpenBucket, TypeOK, NoRepeats
  <2>3. bucket' # <<>> /\ at' \in 1..(Len(bucket') + 1)
    BY <2>1, <2>2
  <2>4. NoRepeats(bucket)'
    <3>1. \A j, k \in 1..n : bucket'[j] = bucket'[k] => j = k
      <4>1. 1..n \subseteq 1..Len(todo)
        BY <2>2
      <4>2. QED BY <2>1, <2>2, <4>1
    <3>2. QED BY <2>1, <3>1 DEF NoRepeats
  <2>5. \A k \in 1..Len(todo') : n + k \in 1..Len(todo)
    BY <2>1, <2>2
  <2>6. NoRepeats(todo)'
    <3>1. \A j, k \in 1..Len(todo') : todo'[j] = todo'[k] => n + j = n + k
      BY <2>1, <2>2, <2>5
    <3>2. QED BY <2>1, <3>1 DEF NoRepeats
  <2>7. (\A k \in 1..Len(bucket) : Venue(bucket[k]) = Venue(bucket[1]))'
    <3>1. SUFFICES ASSUME NEW k \in 1..n
                   PROVE  plan.venue[bucket'[k]] = plan.venue[bucket'[1]]
      BY <2>1, <2>2 DEF Venue
    <3>2. 1 \in 1..n
      BY <2>2
    <3>3. bucket'[k] = todo[k] /\ bucket'[1] = todo[1] /\ Venue(todo[k]) = Venue(todo[1])
      BY <2>1, <3>2
    <3>4. QED BY <3>3 DEF Venue
  <2>8. (\A j \in at..Len(bucket), k \in 1..Len(todo) : bucket[j] # todo[k])'
    <3>1. SUFFICES ASSUME NEW j \in 1..n, NEW k \in 1..Len(todo')
                   PROVE  bucket'[j] # todo'[k]
      BY <2>1, <2>2
    <3>2. bucket'[j] = todo[j] /\ todo'[k] = todo[n + k] /\ j # n + k
      BY <2>1
    <3>3. QED BY <2>1, <2>2, <2>5, <3>2
  <2>9. QED BY <2>2, <2>3, <2>4, <2>6, <2>7, <2>8
<1>4. CASE ReportCyclic
  BY <1>4 DEF ReportCyclic, NoRepeats, Venue
<1>5. CASE EndScoring
  BY <1>5 DEF EndScoring, NoRepeats, Venue
<1>6. CASE TakeStep
  <2>1. /\ at' = at + 1 /\ at \in 1..Len(bucket) /\ pc' = "bucket" /\ pc = "bucket"
        /\ plan' = plan /\ todo' = todo /\ bucket' = bucket /\ Len(bucket) \in Nat
    BY <1>6 DEF TakeStep, Pending, TypeOK
  <2>2. at' \in 1..(Len(bucket') + 1)
    BY <2>1
  <2>3. at'..Len(bucket) \subseteq at..Len(bucket)
    BY <2>1
  <2>4. (\A j \in at..Len(bucket), k \in 1..Len(todo) : bucket[j] # todo[k])'
    BY <2>1, <2>3
  <2>5. (\A k \in 1..Len(bucket) : Venue(bucket[k]) = Venue(bucket[1]))'
    BY <2>1 DEF Venue
  <2>6. QED BY <2>1, <2>2, <2>4, <2>5 DEF NoRepeats
<1>7. CASE CloseBucket
  <2>1. /\ pc' = "open" /\ at = Len(bucket) + 1 /\ Len(bucket) \in Nat
        /\ plan' = plan /\ todo' = todo /\ bucket' = bucket /\ at' = at
    BY <1>7 DEF CloseBucket, TypeOK
  <2>2. QED BY <2>1 DEF NoRepeats, Venue
<1>8. CASE UNCHANGED vars
  BY <1>8 DEF vars, NoRepeats, Venue
<1>9. QED BY <1>1, <1>2, <1>3, <1>4, <1>5, <1>6, <1>7, <1>8, NextCases

\* What taking a step does to the queue and, if the step is scored, to the verdicts.
LEMMA TakeStepFacts ==
    ASSUME TypeOK, QueueInv, TakeStep
    PROVE  /\ pc = "bucket" /\ at' = at + 1 /\ at \in 1..Len(bucket) /\ Len(bucket) \in Nat
           /\ UNCHANGED <<plan, pc, todo, bucket, up, leaked>>
           /\ Current = bucket[at] /\ Current \in Steps
           /\ \A s \in Steps \ {Current} : verdict'[s] = verdict[s]
           /\ Current \in Scored => verdict'[Current] # "none"
           /\ Current \notin Scored => verdict' = verdict /\ out' = out
<1>1. /\ pc = "bucket" /\ at' = at + 1 /\ at \in 1..Len(bucket) /\ Len(bucket) \in Nat
      /\ UNCHANGED <<plan, pc, todo, bucket, up, leaked>>
  BY DEF TakeStep, Pending, QueueInv, TypeOK
<1>2. Current = bucket[at] /\ Current \in Steps
  BY <1>1 DEF Current, TypeOK
<1>3. ASSUME Current \in Scored
      PROVE  /\ \A s \in Steps \ {Current} : verdict'[s] = verdict[s]
             /\ verdict'[Current] # "none"
  <2>1. PICK status \in Statuses, v \in Verdicts \ {"none"} : Report(Current, status, v)
    BY <1>3 DEF TakeStep
  <2>2. QED BY <1>2, <2>1, ReportAdds
<1>4. Current \notin Scored => verdict' = verdict /\ out' = out
  BY DEF TakeStep
<1>5. QED BY <1>1, <1>2, <1>3, <1>4

\* When nothing of the bucket is left, nothing is coming.
LEMMA NothingComes ==
    ASSUME QueueInv, TypeOK, pc # "bucket", NEW d, NEW k \in Int, k <= Len(bucket)
    PROVE  ~Coming(d, k) /\ at..Len(bucket) = {}
<1>1. at = Len(bucket) + 1 /\ Len(bucket) \in Nat
  BY DEF QueueInv, TypeOK
<1>2. QED BY <1>1 DEF Coming

LEMMA FreshStep ==
    ASSUME TypeOK, QueueInv, FreshInv, [Next]_vars
    PROVE  FreshInv'
<1> USE DEF FreshInv, HasVerdict
<1>1. CASE RefuseToScore
  BY <1>1 DEF RefuseToScore
<1>2. CASE SortSteps
  <2>1. todo' \in Seq(Steps)
    BY <1>2, TopoOrderSorts DEF SortSteps, Sorted, TypeOK
  <2>2. at' = at /\ bucket' = bucket /\ verdict' = verdict /\ pc = "start" /\ pc' = "open"
    BY <1>2 DEF SortSteps
  <2>3. QED BY <2>1, <2>2
<1>3. CASE OpenBucket
  <2>1. PICK n \in 1..Len(todo) :
              /\ bucket' \in Seq(Steps) /\ Len(bucket') = n
              /\ \A k \in 1..n : bucket'[k] = todo[k] /\ Venue(todo[k]) = Venue(todo[1])
              /\ todo' \in Seq(Steps) /\ Len(todo') = Len(todo) - n
              /\ \A k \in 1..Len(todo') : todo'[k] = todo[n + k]
    BY <1>3, OpenTakes
  <2>2. at' = 1 /\ pc' = "bucket" /\ verdict' = verdict /\ Len(todo) \in Nat
    BY <1>3 DEF OpenBucket, TypeOK
  <2>3. 1..n \subseteq 1..Len(todo) /\ \A k \in 1..Len(todo') : n + k \in 1..Len(todo)
    BY <2>1, <2>2
  <2>4. ASSUME NEW k \in 1..n
        PROVE  verdict'[bucket'[k]] = "none"
    <3>1. bucket'[k] = todo[k] /\ k \in 1..Len(todo)
      BY <2>1, <2>3
    <3>2. QED BY <2>2, <3>1
  <2>5. ASSUME NEW k \in 1..Len(todo')
        PROVE  verdict'[todo'[k]] = "none"
    <3>1. todo'[k] = todo[n + k] /\ n + k \in 1..Len(todo)
      BY <2>1, <2>3
    <3>2. QED BY <2>2, <3>1
  <2>6. QED BY <2>1, <2>2, <2>4, <2>5
<1>4. CASE ReportCyclic
  <2>1. /\ todo = <<>> /\ pc = "open" /\ UNCHANGED <<pc, todo, bucket, at>>
        /\ at = Len(bucket) + 1 /\ Len(bucket) \in Nat
    BY <1>4 DEF ReportCyclic, QueueInv, TypeOK
  <2>2. QED BY <2>1
<1>5. CASE EndScoring
  BY <1>5 DEF EndScoring
<1>6. CASE TakeStep
  <2>1. /\ pc = "bucket" /\ at' = at + 1 /\ at \in 1..Len(bucket) /\ Len(bucket) \in Nat
        /\ UNCHANGED <<plan, pc, todo, bucket, up, leaked>>
        /\ Current = bucket[at] /\ Current \in Steps
        /\ \A s \in Steps \ {Current} : verdict'[s] = verdict[s]
    BY <1>6, TakeStepFacts
  <2>2. ASSUME NEW k \in at'..Len(bucket)
        PROVE  verdict'[bucket[k]] = "none"
    <3>1. k \in at..Len(bucket) /\ k # at /\ k \in 1..Len(bucket)
      BY <2>1
    <3>2. bucket[k] # bucket[at] /\ bucket[k] \in Steps
      BY <2>1, <3>1 DEF QueueInv, NoRepeats, TypeOK
    <3>3. QED BY <2>1, <3>1, <3>2
  <2>3. ASSUME NEW k \in 1..Len(todo)
        PROVE  verdict'[todo[k]] = "none"
    <3>1. at \in at..Len(bucket)
      BY <2>1
    <3>2. bucket[at] # todo[k] /\ todo[k] \in Steps
      BY <3>1 DEF QueueInv, TypeOK
    <3>3. QED BY <2>1, <3>2
  <2>4. todo' = todo /\ bucket' = bucket /\ pc' # "start"
    BY <2>1
  <2>5. (\A k \in at..Len(bucket) : ~HasVerdict(bucket[k]))'
    BY <2>2, <2>4
  <2>6. (\A k \in 1..Len(todo) : ~HasVerdict(todo[k]))'
    BY <2>3, <2>4
  <2>7. QED BY <2>4, <2>5, <2>6
<1>7. CASE CloseBucket
  BY <1>7 DEF CloseBucket
<1>8. CASE UNCHANGED vars
  BY <1>8 DEF vars
<1>9. QED BY <1>1, <1>2, <1>3, <1>4, <1>5, <1>6, <1>7, <1>8, NextCases

LEMMA OrderStep ==
    ASSUME TypeOK, QueueInv, FreshInv, OrderInv, [Next]_vars
    PROVE  OrderInv'
<1>1. plan' = plan /\ Scored \subseteq Steps /\ \A s \in Steps : Dep(s) \subseteq Steps
  BY PlanStays, PlanIsTyped
<1>2. /\ todo \in Seq(Steps) /\ bucket \in Seq(Steps)
      /\ Len(todo) \in Nat /\ Len(bucket) \in Nat
  BY DEF TypeOK
<1>3. CASE SortSteps
  <2>1. Sorted(plan, todo')
    BY <1>3, TopoOrderSorts DEF SortSteps, TypeOK
  <2>2. at' = Len(bucket') + 1 /\ Len(bucket') \in Nat
    BY <1>2, <1>3 DEF SortSteps, QueueInv
  <2>3. \A k \in 1..Len(todo') : \A d \in plan.deps[todo'[k]] : \E j \in 1..(k - 1) : todo'[j] = d
    BY <2>1 DEF Sorted
  <2>4. (\A k \in 1..Len(todo) : \A d \in Dep(todo[k]) : \E j \in 1..(k - 1) : todo[j] = d)'
    BY <1>1, <2>3 DEF Dep
  <2>5. at'..Len(bucket') = {}
    BY <2>2
  <2>6. (\A k \in at..Len(bucket) : \A d \in Dep(bucket[k]) \cap Scored :
            HasVerdict(d) \/ Coming(d, k - 1))'
    BY <2>5
  <2>7. (\A k \in 1..Len(todo) : \A d \in Dep(todo[k]) \cap Scored :
            HasVerdict(d) \/ Coming(d, Len(bucket)) \/ \E j \in 1..(k - 1) : todo[j] = d)'
    BY <2>4, Zenon
  <2>8. QED BY <2>6, <2>7 DEF OrderInv
<1>4. CASE OpenBucket
  <2>1. PICK n \in 1..Len(todo) :
              /\ bucket' \in Seq(Steps) /\ Len(bucket') = n
              /\ \A k \in 1..n : bucket'[k] = todo[k] /\ Venue(todo[k]) = Venue(todo[1])
              /\ todo' \in Seq(Steps) /\ Len(todo') = Len(todo) - n
              /\ \A k \in 1..Len(todo') : todo'[k] = todo[n + k]
    BY <1>4, OpenTakes
  <2>2. at' = 1 /\ pc = "open" /\ verdict' = verdict
    BY <1>4 DEF OpenBucket
  <2>3. ASSUME NEW k \in 1..Len(todo), NEW d \in Dep(todo[k]) \cap Scored, ~HasVerdict(d)
        PROVE  \E j \in 1..(k - 1) : todo[j] = d
    <3>1. ~Coming(d, Len(bucket))
      BY <1>2, <2>2, NothingComes
    <3>2. QED BY <2>3, <3>1 DEF OrderInv
  <2>4. ASSUME NEW k \in 1..n, NEW d \in Dep(bucket'[k]) \cap Scored, ~HasVerdict(d)
        PROVE  Coming(d, k - 1)'
    <3>1. k \in 1..Len(todo) /\ bucket'[k] = todo[k]
      BY <1>2, <2>1
    <3>2. PICK j \in 1..(k - 1) : todo[j] = d
      BY <2>3, <2>4, <3>1
    <3>3. j \in 1..n /\ j \in at'..(k - 1)
      BY <2>2, <3>2
    <3>4. bucket'[j] = d
      BY <2>1, <3>2, <3>3
    <3>5. QED BY <3>3, <3>4 DEF Coming
  <2>5. ASSUME NEW k \in 1..Len(todo'), NEW d \in Dep(todo'[k]) \cap Scored, ~HasVerdict(d)
        PROVE  Coming(d, Len(bucket))' \/ \E j \in 1..(k - 1) : todo'[j] = d
    <3>1. n + k \in 1..Len(todo) /\ todo'[k] = todo[n + k]
      BY <1>2, <2>1
    <3>2. PICK j \in 1..(n + k - 1) : todo[j] = d
      BY <2>3, <2>5, <3>1
    <3>3. CASE j \in 1..n
      <4>1. bucket'[j] = d /\ j \in at'..Len(bucket')
        BY <2>1, <2>2, <3>2, <3>3
      <4>2. QED BY <4>1 DEF Coming
    <3>4. CASE j \notin 1..n
      <4>1. j - n \in 1..(k - 1) /\ j - n \in 1..Len(todo') /\ n + (j - n) = j
        BY <2>1, <3>2, <3>4
      <4>2. todo'[j - n] = d
        <5>1. todo'[j - n] = todo[n + (j - n)]
          BY <2>1, <4>1
        <5>2. QED BY <3>2, <4>1, <5>1
      <4>3. QED BY <4>1, <4>2
    <3>5. QED BY <3>3, <3>4
  <2>6. \A d : HasVerdict(d)' <=> HasVerdict(d)
    BY <2>2 DEF HasVerdict
  <2>7. (\A k \in at..Len(bucket) : \A d \in Dep(bucket[k]) \cap Scored :
            HasVerdict(d) \/ Coming(d, k - 1))'
    BY <1>1, <2>1, <2>2, <2>4, <2>6 DEF Dep, Scored
  <2>8. (\A k \in 1..Len(todo) : \A d \in Dep(todo[k]) \cap Scored :
            HasVerdict(d) \/ Coming(d, Len(bucket)) \/ \E j \in 1..(k - 1) : todo[j] = d)'
    BY <1>1, <2>1, <2>2, <2>5, <2>6 DEF Dep, Scored
  <2>9. QED BY <2>7, <2>8 DEF OrderInv
<1>5. CASE ReportCyclic
  <2>1. /\ todo' = <<>> /\ bucket' = bucket /\ at' = at /\ pc # "bucket"
    BY <1>5 DEF ReportCyclic
  <2>2. at'..Len(bucket') = {}
    BY <1>2, <2>1 DEF QueueInv
  <2>3. QED BY <2>1, <2>2 DEF OrderInv
<1>6. CASE TakeStep
  <2>1. /\ pc = "bucket" /\ at' = at + 1 /\ at \in 1..Len(bucket) /\ Len(bucket) \in Nat
        /\ UNCHANGED <<plan, pc, todo, bucket, up, leaked>>
        /\ Current = bucket[at] /\ Current \in Steps
        /\ \A s \in Steps \ {Current} : verdict'[s] = verdict[s]
        /\ Current \in Scored => verdict'[Current] # "none"
    BY <1>6, TakeStepFacts
  <2>2. ASSUME NEW d \in Scored, HasVerdict(d)
        PROVE  HasVerdict(d)'
    BY <1>1, <2>2, VerdictsStay
  <2>3. ASSUME NEW d \in Scored, NEW k \in Int, Coming(d, k)
        PROVE  HasVerdict(d)' \/ Coming(d, k)'
    <3>1. PICK j \in at..k : bucket[j] = d
      BY <2>3 DEF Coming
    <3>2. CASE j = at
      BY <2>1, <3>1, <3>2 DEF HasVerdict
    <3>3. CASE j # at
      <4>1. j \in at'..k /\ bucket'[j] = d
        BY <2>1, <3>1, <3>3
      <4>2. QED BY <4>1 DEF Coming
    <3>4. QED BY <3>2, <3>3
  <2>4. at'..Len(bucket) \subseteq at..Len(bucket)
    BY <2>1
  <2>5. ASSUME NEW k \in at'..Len(bucket), NEW d \in Dep(bucket[k]) \cap Scored
        PROVE  HasVerdict(d)' \/ Coming(d, k - 1)'
    <3>1. HasVerdict(d) \/ Coming(d, k - 1)
      BY <2>4, <2>5 DEF OrderInv
    <3>2. k - 1 \in Int
      BY <2>1
    <3>3. QED BY <2>2, <2>3, <3>1, <3>2
  <2>6. ASSUME NEW k \in 1..Len(todo), NEW d \in Dep(todo[k]) \cap Scored
        PROVE  HasVerdict(d)' \/ Coming(d, Len(bucket))' \/ \E j \in 1..(k - 1) : todo[j] = d
    <3>1. HasVerdict(d) \/ Coming(d, Len(bucket)) \/ \E j \in 1..(k - 1) : todo[j] = d
      BY <2>6 DEF OrderInv
    <3>2. HasVerdict(d) => HasVerdict(d)'
      BY <2>2
    <3>3. Coming(d, Len(bucket)) => HasVerdict(d)' \/ Coming(d, Len(bucket))'
      <4>1. Len(bucket) \in Int /\ bucket' = bucket
        BY <2>1
      <4>2. Coming(d, Len(bucket))' <=> \E j \in at'..Len(bucket) : bucket'[j] = d
        BY <4>1 DEF Coming
      <4>3. ASSUME Coming(d, Len(bucket))
            PROVE  HasVerdict(d)' \/ \E j \in at'..Len(bucket) : bucket'[j] = d
        <5>1. PICK j \in at..Len(bucket) : bucket[j] = d
          BY <4>3 DEF Coming
        <5>2. CASE j = at
          BY <2>1, <5>1, <5>2 DEF HasVerdict
        <5>3. CASE j # at
          <6>1. j \in at'..Len(bucket) /\ bucket'[j] = d
            BY <2>1, <5>1, <5>3
          <6>2. QED BY <6>1
        <5>4. QED BY <5>2, <5>3
      <4>4. QED BY <4>2, <4>3
    <3>4. QED BY <3>1, <3>2, <3>3
  <2>7. (\A k \in at..Len(bucket) : \A d \in Dep(bucket[k]) \cap Scored :
            HasVerdict(d) \/ Coming(d, k - 1))'
    BY <2>1, <2>5 DEF Dep, Scored
  <2>8. (\A k \in 1..Len(todo) : \A d \in Dep(todo[k]) \cap Scored :
            HasVerdict(d) \/ Coming(d, Len(bucket)) \/ \E j \in 1..(k - 1) : todo[j] = d)'
    BY <2>1, <2>6 DEF Dep, Scored
  <2>9. QED BY <2>7, <2>8 DEF OrderInv
<1>7. CASE RefuseToScore \/ EndScoring \/ CloseBucket \/ UNCHANGED vars
  <2>1. UNCHANGED <<plan, todo, bucket, at, verdict>>
    BY <1>7 DEF RefuseToScore, EndScoring, CloseBucket, vars
  <2>2. QED BY <2>1 DEF OrderInv, HasVerdict, Coming, Dep, Scored
<1>8. QED BY <1>3, <1>4, <1>5, <1>6, <1>7, NextCases

LEMMA CoverStep ==
    ASSUME TypeOK, QueueInv, FreshInv, CoverInv, [Next]_vars
    PROVE  CoverInv'
<1>1. plan' = plan /\ Scored' = Scored /\ Scored \subseteq Steps
  BY PlanStays, PlanIsTyped DEF Scored
<1>2. CyclicSteps(plan)' = CyclicSteps(plan)
  BY <1>1
<1>3. \A s \in Scored : HasVerdict(s) => HasVerdict(s)'
  BY <1>1, VerdictsStay
<1>4. CASE SortSteps
  <2>1. pc' = "open" /\ todo' = TopoOrder(plan)
    BY <1>4 DEF SortSteps
  <2>2. \A s \in Scored : s \in Placed(todo') \/ s \in CyclicSteps(plan)
    BY <1>1, <2>1 DEF CyclicSteps
  <2>3. QED BY <1>1, <1>2, <2>1, <2>2 DEF CoverInv
<1>5. CASE OpenBucket
  <2>1. PICK n \in 1..Len(todo) :
              /\ bucket' \in Seq(Steps) /\ Len(bucket') = n
              /\ \A k \in 1..n : bucket'[k] = todo[k] /\ Venue(todo[k]) = Venue(todo[1])
              /\ todo' \in Seq(Steps) /\ Len(todo') = Len(todo) - n
              /\ \A k \in 1..Len(todo') : todo'[k] = todo[n + k]
    BY <1>5, OpenTakes
  <2>2. /\ at' = 1 /\ pc = "open" /\ pc' = "bucket"
        /\ todo \in Seq(Steps) /\ bucket \in Seq(Steps) /\ Len(todo) \in Nat /\ Len(bucket) \in Nat
    BY <1>5 DEF OpenBucket, TypeOK
  <2>3. ASSUME NEW s \in Placed(todo)
        PROVE  Coming(s, Len(bucket))' \/ s \in Placed(todo')
    <3>1. PICK k \in 1..Len(todo) : todo[k] = s
      BY <2>2, PlacedAt
    <3>2. CASE k \in 1..n
      <4>1. bucket'[k] = s /\ k \in at'..Len(bucket')
        BY <2>1, <2>2, <3>1, <3>2
      <4>2. QED BY <4>1 DEF Coming
    <3>3. CASE k \notin 1..n
      <4>1. k - n \in 1..Len(todo') /\ n + (k - n) = k
        BY <2>1, <2>2, <3>3
      <4>2. todo'[k - n] = todo[n + (k - n)]
        BY <2>1, <4>1
      <4>3. todo'[k - n] = s
        BY <3>1, <4>1, <4>2
      <4>4. QED BY <2>1, <4>1, <4>3, PlacedAt
    <3>4. QED BY <3>2, <3>3
  <2>4. ASSUME NEW s \in Scored
        PROVE  \/ HasVerdict(s)' \/ Coming(s, Len(bucket))'
               \/ s \in Placed(todo') \/ s \in CyclicSteps(plan)
    <3>1. ~Coming(s, Len(bucket))
      BY <2>2, NothingComes
    <3>2. HasVerdict(s) \/ s \in Placed(todo) \/ s \in CyclicSteps(plan)
      BY <2>2, <3>1 DEF CoverInv
    <3>3. QED BY <1>3, <2>3, <3>2
  <2>5. pc' # "done"
    BY <2>2
  <2>6. QED BY <1>1, <1>2, <2>4, <2>5 DEF CoverInv
<1>6. CASE ReportCyclic
  <2>1. UNCHANGED <<todo, bucket, at, pc>> /\ pc = "open"
    BY <1>6 DEF ReportCyclic
  <2>2. \A s : Coming(s, Len(bucket))' <=> Coming(s, Len(bucket))
    BY <2>1 DEF Coming
  <2>3. Placed(todo)' = Placed(todo)
    BY <2>1 DEF Placed
  <2>4. ASSUME NEW s \in Scored
        PROVE  \/ HasVerdict(s)' \/ Coming(s, Len(bucket))'
               \/ s \in Placed(todo)' \/ s \in CyclicSteps(plan)
    BY <1>3, <2>1, <2>2, <2>3 DEF CoverInv
  <2>5. pc' = "open"
    BY <2>1
  <2>6. QED BY <1>1, <1>2, <2>4, <2>5 DEF CoverInv
<1>7. CASE EndScoring
  <2>1. /\ todo = <<>> /\ pc = "open" /\ pc' = "done" /\ CyclicLeft = {} /\ verdict' = verdict
        /\ Len(bucket) \in Nat
    BY <1>7 DEF EndScoring, TypeOK
  <2>2. ASSUME NEW s \in Scored
        PROVE  HasVerdict(s)
    <3>1. ~Coming(s, Len(bucket))
      BY <2>1, NothingComes
    <3>2. s \notin Placed(todo)
      BY <2>1 DEF Placed
    <3>3. s \notin CyclicSteps(plan) \/ HasVerdict(s)
      BY <2>1 DEF CyclicLeft, HasVerdict
    <3>4. QED BY <2>1, <3>1, <3>2, <3>3 DEF CoverInv
  <2>3. \A s \in Scored : HasVerdict(s)'
    BY <1>3, <2>2
  <2>4. QED BY <1>1, <2>1, <2>3 DEF CoverInv
<1>8. CASE TakeStep
  <2>1. /\ pc = "bucket" /\ at' = at + 1 /\ at \in 1..Len(bucket) /\ Len(bucket) \in Nat
        /\ UNCHANGED <<plan, pc, todo, bucket, up, leaked>>
        /\ Current = bucket[at] /\ Current \in Steps
        /\ Current \in Scored => verdict'[Current] # "none"
    BY <1>8, TakeStepFacts
  <2>2. ASSUME NEW s \in Scored, Coming(s, Len(bucket))
        PROVE  HasVerdict(s)' \/ Coming(s, Len(bucket))'
    <3>1. PICK j \in at..Len(bucket) : bucket[j] = s
      BY <2>2 DEF Coming
    <3>2. CASE j = at
      BY <2>1, <3>1, <3>2 DEF HasVerdict
    <3>3. CASE j # at
      <4>1. j \in at'..Len(bucket') /\ bucket'[j] = s
        BY <2>1, <3>1, <3>3
      <4>2. QED BY <4>1 DEF Coming
    <3>4. QED BY <3>2, <3>3
  <2>3. Placed(todo)' = Placed(todo)
    BY <2>1 DEF Placed
  <2>4. ASSUME NEW s \in Scored
        PROVE  \/ HasVerdict(s)' \/ Coming(s, Len(bucket))'
               \/ s \in Placed(todo)' \/ s \in CyclicSteps(plan)
    BY <1>3, <2>1, <2>2, <2>3 DEF CoverInv
  <2>5. pc' = "bucket"
    BY <2>1
  <2>6. QED BY <1>1, <1>2, <2>4, <2>5 DEF CoverInv
<1>9. CASE CloseBucket
  <2>1. pc = "bucket" /\ pc' = "open" /\ UNCHANGED <<plan, todo, bucket, at, verdict>>
    BY <1>9 DEF CloseBucket
  <2>2. QED BY <2>1 DEF CoverInv, Coming, HasVerdict, Placed, Scored
<1>10. CASE RefuseToScore
  BY <1>10 DEF RefuseToScore, CoverInv
<1>11. CASE UNCHANGED vars
  BY <1>11 DEF vars, CoverInv, Coming, HasVerdict, Placed, Scored
<1>12. QED BY <1>4, <1>5, <1>6, <1>7, <1>8, <1>9, <1>10, <1>11, NextCases

\* What was executed stays on record.
LEMMA RanGrows ==
    ASSUME TypeOK, NEW s \in Steps, ran' = ran \/ ran' = Append(ran, s)
    PROVE  /\ Len(ran) \in Nat
           /\ \A k \in 1..Len(ran) : k \in 1..Len(ran') /\ ran'[k] = ran[k]
BY DEF TypeOK

\* One more result, of a step that had no verdict.
LEMMA ResultAdds ==
    ASSUME TypeOK, ResultInv, plan' = plan, NEW s \in Steps, s \in Scored, ~HasVerdict(s),
           NEW status \in Statuses, NEW v \in Verdicts \ {"none"}, Report(s, status, v),
           NEW r \in Steps, ran' = ran \/ ran' = Append(ran, r),
           v = "pass" => ran' = Append(ran, s)
    PROVE  ResultInv'
<1>1. /\ out' \in Seq(Steps \X Statuses) /\ Len(out') = Len(out) + 1 /\ Len(out) \in Nat
      /\ \A k \in 1..Len(out) : out'[k] = out[k]
      /\ out'[Len(out) + 1][1] = s
      /\ verdict'[s] = v /\ \A t \in Steps \ {s} : verdict'[t] = verdict[t]
  BY ReportAdds
<1>2. out \in Seq(Steps \X Statuses) /\ \A k \in 1..Len(out) : out[k][1] \in Steps
  BY DEF TypeOK
<1>3. \A k \in 1..Len(out) : out[k][1] # s
  BY DEF ResultInv
<1>4. Scored' = Scored
  BY DEF Scored
<1>5. ASSUME NEW t \in Steps, verdict'[t] # "none"
      PROVE  t \in Scored /\ \E k \in 1..Len(out') : out'[k][1] = t
  <2>1. CASE t = s
    <3>1. Len(out) + 1 \in 1..Len(out')
      BY <1>1
    <3>2. QED BY <1>1, <2>1, <3>1
  <2>2. CASE t # s
    <3>1. HasVerdict(t)
      BY <1>1, <1>5, <2>2 DEF HasVerdict
    <3>2. PICK k \in 1..Len(out) : out[k][1] = t
      BY <3>1 DEF ResultInv
    <3>3. k \in 1..Len(out') /\ out'[k] = out[k]
      BY <1>1
    <3>4. t \in Scored
      BY <3>1 DEF ResultInv
    <3>5. QED BY <3>2, <3>3, <3>4
  <2>3. QED BY <2>1, <2>2
<1>6. ASSUME NEW k \in 1..Len(out')
      PROVE  verdict'[out'[k][1]] # "none"
  <2>1. CASE k \in 1..Len(out)
    <3>1. HasVerdict(out[k][1])
      BY <2>1 DEF ResultInv
    <3>2. out'[k][1] = out[k][1]
      BY <1>1, <2>1
    <3>3. QED BY <1>1, <1>2, <1>3, <2>1, <3>1, <3>2 DEF HasVerdict
  <2>2. CASE k = Len(out) + 1
    BY <1>1, <2>2
  <2>3. QED BY <1>1, <2>1, <2>2
<1>7. ASSUME NEW j \in 1..Len(out'), NEW k \in 1..Len(out'), out'[j][1] = out'[k][1]
      PROVE  j = k
  <2>1. \A i \in 1..Len(out) : out'[i][1] = out[i][1]
    BY <1>1
  <2>2. CASE j \in 1..Len(out) /\ k \in 1..Len(out)
    BY <1>7, <2>1, <2>2 DEF ResultInv
  <2>3. CASE j = Len(out) + 1 \/ k = Len(out) + 1
    BY <1>1, <1>3, <1>7, <2>1, <2>3
  <2>4. QED BY <1>1, <2>2, <2>3
<1>8. ASSUME NEW t \in Steps, verdict'[t] = "pass"
      PROVE  \E k \in 1..Len(ran') : ran'[k] = t
  <2>1. ran \in Seq(Steps)
    BY DEF TypeOK
  <2>2. CASE t = s
    <3>1. ran' = Append(ran, s)
      BY <1>1, <1>8, <2>2
    <3>2. Len(ran) + 1 \in 1..Len(ran') /\ ran'[Len(ran) + 1] = s
      BY <2>1, <3>1
    <3>3. QED BY <2>2, <3>2
  <2>3. CASE t # s
    <3>1. verdict[t] = "pass"
      BY <1>1, <1>8, <2>3
    <3>2. PICK k \in 1..Len(ran) : ran[k] = t
      BY <3>1 DEF ResultInv
    <3>3. k \in 1..Len(ran') /\ ran'[k] = ran[k]
      BY RanGrows
    <3>4. QED BY <3>2, <3>3
  <2>4. QED BY <2>2, <2>3
<1>9. QED BY <1>4, <1>5, <1>6, <1>7, <1>8 DEF ResultInv, HasVerdict

LEMMA ResultStep ==
    ASSUME TypeOK, QueueInv, FreshInv, ResultInv, [Next]_vars
    PROVE  ResultInv'
<1>1. plan' = plan
  BY PlanStays
<1>2. CASE ReportCyclic
  <2>1. PICK s \in CyclicLeft : Report(s, "fail", "fail")
    BY <1>2 DEF ReportCyclic
  <2>2. s \in Steps /\ s \in Scored /\ ~HasVerdict(s)
    BY <2>1 DEF CyclicLeft, CyclicSteps, HasVerdict
  <2>3. "fail" \in Statuses /\ "fail" \in Verdicts \ {"none"} /\ ran' = ran
    BY <1>2 DEF ReportCyclic, Statuses, Verdicts
  <2>4. QED BY <1>1, <2>1, <2>2, <2>3, ResultAdds
<1>3. CASE TakeStep
  <2>1. /\ at \in 1..Len(bucket) /\ Current = bucket[at] /\ Current \in Steps
        /\ Current \notin Scored => verdict' = verdict /\ out' = out
    BY <1>3, TakeStepFacts
  <2>2. ran' = ran \/ ran' = Append(ran, Current)
    BY <1>3 DEF TakeStep
  <2>3. CASE Current \in Scored
    <3>1. PICK status \in Statuses, v \in Verdicts \ {"none"} :
              Report(Current, status, v) /\ (v = "pass" => ran' = Append(ran, Current))
      BY <1>3, <2>3 DEF TakeStep
    <3>2. ~HasVerdict(Current)
      <4>1. at \in at..Len(bucket)
        BY <2>1
      <4>2. QED BY <2>1, <4>1 DEF FreshInv
    <3>3. QED BY <1>1, <2>1, <2>2, <2>3, <3>1, <3>2, ResultAdds
  <2>4. CASE Current \notin Scored
    <3>1. verdict' = verdict /\ out' = out /\ Scored' = Scored
      BY <1>1, <2>1, <2>4 DEF Scored
    <3>2. \A k \in 1..Len(ran) : k \in 1..Len(ran') /\ ran'[k] = ran[k]
      BY <2>1, <2>2, RanGrows
    <3>3. QED BY <3>1, <3>2 DEF ResultInv, HasVerdict
  <2>5. QED BY <2>3, <2>4
<1>4. CASE RefuseToScore \/ SortSteps \/ OpenBucket \/ EndScoring \/ CloseBucket \/ UNCHANGED vars
  <2>1. UNCHANGED <<plan, verdict, out, ran>>
    BY <1>4 DEF RefuseToScore, SortSteps, OpenBucket, EndScoring, CloseBucket, vars
  <2>2. QED BY <2>1 DEF ResultInv, HasVerdict, Scored
<1>5. QED BY <1>2, <1>3, <1>4, NextCases

\* Whatever the step whose turn it is depends on, and is scored, has its verdict.
LEMMA CurrentIsReady ==
    ASSUME TypeOK, QueueInv, OrderInv, TakeStep, NEW d \in Dep(Current) \cap Scored
    PROVE  HasVerdict(d)
<1>1. at \in at..Len(bucket) /\ Current = bucket[at] /\ at \in Nat
  BY TakeStepFacts
<1>2. HasVerdict(d) \/ Coming(d, at - 1)
  BY <1>1 DEF OrderInv
<1>3. at..(at - 1) = {}
  BY <1>1
<1>4. QED BY <1>2, <1>3 DEF Coming

\* One more result keeps SkipInv, if what the step is skipped for is final.
LEMMA SkipAdds ==
    ASSUME TypeOK, SkipInv, plan' = plan, NEW s \in Steps, s \in Scored, ~HasVerdict(s),
           NEW status \in Statuses, NEW v \in Verdicts, Report(s, status, v),
           status = "skipped" =>
               \E d \in Dep(s) : verdict[d] # "pass" /\ (HasVerdict(d) \/ d \notin Scored)
    PROVE  SkipInv'
<1>1. /\ Len(out') = Len(out) + 1 /\ Len(out) \in Nat
      /\ \A k \in 1..Len(out) : out'[k] = out[k]
      /\ out'[Len(out) + 1][1] = s /\ out'[Len(out) + 1][2] = status
      /\ \A t \in Steps \ {s} : verdict'[t] = verdict[t]
  BY ReportAdds
<1>2. Scored' = Scored /\ \A t : Dep(t)' = Dep(t)
  BY DEF Scored, Dep
<1>3. \A t \in Steps : Dep(t) \subseteq Steps
  BY PlanIsTyped
<1>4. \A k \in 1..Len(out) : out[k][1] \in Steps
  BY DEF TypeOK
<1>5. ASSUME NEW d \in Steps, verdict[d] # "pass", HasVerdict(d) \/ d \notin Scored
      PROVE  verdict'[d] # "pass" /\ (verdict'[d] # "none" \/ d \notin Scored)
  BY <1>1, <1>5 DEF HasVerdict
<1>6. ASSUME NEW k \in 1..Len(out'), out'[k][2] = "skipped"
      PROVE  \E d \in Dep(out'[k][1]) :
                verdict'[d] # "pass" /\ (verdict'[d] # "none" \/ d \notin Scored)
  <2>1. CASE k \in 1..Len(out)
    <3>1. out'[k] = out[k]
      BY <1>1, <2>1
    <3>2. PICK d \in Dep(out[k][1]) : verdict[d] # "pass" /\ (HasVerdict(d) \/ d \notin Scored)
      BY <1>6, <2>1, <3>1 DEF SkipInv
    <3>3. d \in Steps
      BY <1>3, <1>4, <2>1, <3>2
    <3>4. QED BY <1>5, <3>1, <3>2, <3>3
  <2>2. CASE k = Len(out) + 1
    <3>1. out'[k][1] = s /\ status = "skipped"
      BY <1>1, <1>6, <2>2
    <3>2. PICK d \in Dep(s) : verdict[d] # "pass" /\ (HasVerdict(d) \/ d \notin Scored)
      BY <3>1
    <3>3. d \in Steps
      BY <1>3, <3>2
    <3>4. QED BY <1>5, <3>1, <3>2, <3>3
  <2>3. QED BY <1>1, <2>1, <2>2
<1>7. QED BY <1>2, <1>6 DEF SkipInv, HasVerdict

LEMMA SkipInvStep ==
    ASSUME TypeOK, QueueInv, FreshInv, OrderInv, SkipInv, [Next]_vars
    PROVE  SkipInv'
<1>1. plan' = plan
  BY PlanStays
<1>2. CASE ReportCyclic
  <2>1. PICK s \in CyclicLeft : Report(s, "fail", "fail")
    BY <1>2 DEF ReportCyclic
  <2>2. s \in Steps /\ s \in Scored /\ ~HasVerdict(s)
    BY <2>1 DEF CyclicLeft, CyclicSteps, HasVerdict
  <2>3. "fail" \in Statuses /\ "fail" \in Verdicts /\ "fail" # "skipped"
    BY DEF Statuses, Verdicts
  <2>4. QED BY <1>1, <2>1, <2>2, <2>3, SkipAdds
<1>3. CASE TakeStep
  <2>1. /\ at \in 1..Len(bucket) /\ Current = bucket[at] /\ Current \in Steps
        /\ Current \notin Scored => verdict' = verdict /\ out' = out
    BY <1>3, TakeStepFacts
  <2>2. CASE Current \in Scored
    <3>1. PICK status \in Statuses, v \in Verdicts \ {"none"} :
              Report(Current, status, v) /\ (status = "skipped" => Unmet(Current))
      BY <1>3, <2>2 DEF TakeStep
    <3>2. ~HasVerdict(Current)
      <4>1. at \in at..Len(bucket)
        BY <2>1
      <4>2. QED BY <2>1, <4>1 DEF FreshInv
    <3>3. ASSUME status = "skipped"
          PROVE  \E d \in Dep(Current) : verdict[d] # "pass" /\ (HasVerdict(d) \/ d \notin Scored)
      <4>1. PICK d \in Dep(Current) : IF verdict[d] = "none" THEN ~lax ELSE verdict[d] # "pass"
        BY <3>1, <3>3 DEF Unmet
      <4>2. verdict[d] # "pass"
        BY <4>1
      <4>3. d \in Scored => HasVerdict(d)
        BY <1>3, <4>1, CurrentIsReady
      <4>4. QED BY <4>1, <4>2, <4>3
    <3>4. QED BY <1>1, <2>1, <2>2, <3>1, <3>2, <3>3, SkipAdds
  <2>3. CASE Current \notin Scored
    BY <1>1, <2>1, <2>3 DEF SkipInv, HasVerdict, Scored, Dep
  <2>4. QED BY <2>2, <2>3
<1>4. CASE RefuseToScore \/ SortSteps \/ OpenBucket \/ EndScoring \/ CloseBucket \/ UNCHANGED vars
  <2>1. UNCHANGED <<plan, verdict, out>>
    BY <1>4 DEF RefuseToScore, SortSteps, OpenBucket, EndScoring, CloseBucket, vars
  <2>2. QED BY <2>1 DEF SkipInv, HasVerdict, Scored, Dep
<1>5. QED BY <1>2, <1>3, <1>4, NextCases

LEMMA CascadeStep ==
    ASSUME TypeOK, QueueInv, FreshInv, OrderInv, ResultInv, CascadeHonest, [Next]_vars
    PROVE  CascadeHonest'
<1>1. plan' = plan /\ Scored' = Scored /\ \A t : Dep(t)' = Dep(t)
  BY PlanStays DEF Scored, Dep
<1>2. Scored \subseteq Steps /\ \A s \in Steps : Dep(s) \subseteq Steps
  BY PlanIsTyped
<1>3. ran \in Seq(Steps) /\ DOMAIN ran = 1..Len(ran) /\ Len(ran) \in Nat
  BY DEF TypeOK
<1>4. ASSUME NEW d \in Scored, verdict[d] = "pass"
      PROVE  verdict'[d] = "pass"
  <2>1. HasVerdict(d) /\ d \in Steps
    BY <1>2, <1>4 DEF HasVerdict
  <2>2. QED BY <1>4, <2>1, VerdictsStand
<1>5. ASSUME NEW k \in 1..Len(ran), ran[k] \in Scored, NEW d \in Dep(ran[k]) \cap Scored
      PROVE  verdict'[d] = "pass" /\ \E j \in 1..(k - 1) : ran[j] = d
  BY <1>3, <1>4, <1>5 DEF CascadeHonest
<1>6. CASE ran' = ran
  BY <1>1, <1>3, <1>5, <1>6 DEF CascadeHonest
<1>7. CASE ran' # ran
  <2>1. TakeStep
    BY <1>7, NextCases DEF RefuseToScore, SortSteps, OpenBucket, ReportCyclic, EndScoring,
       CloseBucket, vars
  <2>2. Current \in Steps
    BY <2>1, TakeStepFacts
  <2>3. ran' = Append(ran, Current) /\ (Current \in Scored => ~Unmet(Current))
    BY <1>7, <2>1 DEF TakeStep
  <2>4. /\ DOMAIN ran' = 1..(Len(ran) + 1) /\ ran'[Len(ran) + 1] = Current
        /\ \A k \in 1..Len(ran) : ran'[k] = ran[k]
    BY <1>3, <2>2, <2>3
  <2>5. ASSUME NEW k \in DOMAIN ran', ran'[k] \in Scored, NEW d \in Dep(ran'[k]) \cap Scored
        PROVE  verdict'[d] = "pass" /\ \E j \in 1..(k - 1) : ran'[j] = d
    <3>1. CASE k \in 1..Len(ran)
      <4>1. ran'[k] = ran[k]
        BY <2>4, <3>1
      <4>2. verdict'[d] = "pass" /\ \E j \in 1..(k - 1) : ran[j] = d
        BY <1>5, <2>5, <3>1, <4>1
      <4>3. \A j \in 1..(k - 1) : ran'[j] = ran[j]
        BY <1>3, <2>4, <3>1
      <4>4. QED BY <4>2, <4>3
    <3>2. CASE k = Len(ran) + 1
      <4>1. Current \in Scored /\ d \in Dep(Current) \cap Scored
        BY <2>4, <2>5, <3>2
      <4>2. verdict[d] # "none"
        BY <2>1, <4>1, CurrentIsReady DEF HasVerdict
      <4>3. verdict[d] = "pass"
        BY <2>3, <4>1, <4>2 DEF Unmet
      <4>4. d \in Steps
        BY <1>2, <4>1
      <4>5. PICK j \in 1..Len(ran) : ran[j] = d
        BY <4>3, <4>4 DEF ResultInv
      <4>6. j \in 1..(k - 1) /\ ran'[j] = d
        BY <1>3, <2>4, <3>2, <4>5
      <4>7. QED BY <1>4, <4>1, <4>3, <4>6
    <3>3. QED BY <2>4, <3>1, <3>2
  <2>6. QED BY <1>1, <2>5 DEF CascadeHonest
<1>8. QED BY <1>6, <1>7

LEMMA KeptStep ==
    ASSUME TypeOK, QueueInv, FreshInv, ResultInv, KeptInv, [Next]_vars
    PROVE  KeptInv'
<1>1. plan' = plan /\ Scored' = Scored /\ \A t : Venue(t)' = Venue(t)
  BY PlanStays DEF Scored, Venue
<1>2. Scored \subseteq Steps
  BY PlanIsTyped
<1> DEFINE Stays(v) == v \in plan.keep /\ \E s \in Scored : Venue(s) = v /\ verdict[s] = "fail"
<1>3. ASSUME NEW v, Stays(v)
      PROVE  Stays(v)'
  <2>1. PICK s \in Scored : Venue(s) = v /\ verdict[s] = "fail"
    BY <1>3
  <2>2. verdict'[s] = "fail"
    <3>1. HasVerdict(s) /\ s \in Steps
      BY <1>2, <2>1 DEF HasVerdict
    <3>2. QED BY <2>1, <3>1, VerdictsStand
  <2>3. QED BY <1>1, <1>3, <2>1, <2>2
<1>4. ASSUME NEW v \in up \ leaked
      PROVE  Stays(v) \/ (pc = "bucket" /\ v = Venue(bucket[1]))
  BY DEF KeptInv
<1>5. SUFFICES ASSUME NEW v \in up' \ leaked'
               PROVE  Stays(v)' \/ (pc' = "bucket" /\ v = plan.venue[bucket'[1]])
  BY <1>1 DEF KeptInv, Venue
<1> HIDE DEF Stays
<1>6. CASE OpenBucket
  <2>1. PICK n \in 1..Len(todo) :
              Len(bucket') = n /\ \A k \in 1..n : bucket'[k] = todo[k]
    BY <1>6, OpenTakes
  <2>2. /\ pc = "open" /\ pc' = "bucket" /\ leaked' = leaked
        /\ up' \subseteq up \cup {Venue(todo[1])}
    BY <1>6 DEF OpenBucket
  <2>3. bucket'[1] = todo[1]
    <3>1. 1 \in 1..n
      BY <2>1
    <3>2. QED BY <2>1, <3>1
  <2>4. QED BY <1>3, <1>4, <2>2, <2>3 DEF Venue
<1>7. CASE CloseBucket
  <2>1. pc = "bucket" /\ verdict' = verdict /\ bucket' = bucket
    BY <1>7 DEF CloseBucket
  <2>2. CASE v = Venue(bucket[1])
    <3> DEFINE failed == \E k \in DOMAIN bucket : verdict[bucket[k]] = "fail"
    <3>1. up' \subseteq up /\ v \in up /\ v \in plan.ephemeral
      BY <1>7, <2>2 DEF CloseBucket, TypeOK
    <3>2. failed /\ v \in plan.keep
      BY <1>5, <1>7, <2>2, <3>1 DEF CloseBucket
    <3>3. PICK k \in DOMAIN bucket : verdict[bucket[k]] = "fail"
      BY <3>2
    <3>4. k \in 1..Len(bucket) /\ bucket[k] \in Steps
      BY DEF TypeOK
    <3>5. Venue(bucket[k]) = v
      BY <2>2, <3>4 DEF QueueInv
    <3>6. bucket[k] \in Scored
      BY <3>3, <3>4 DEF ResultInv, HasVerdict
    <3>7. Stays(v)
      BY <3>2, <3>3, <3>5, <3>6 DEF Stays
    <3>8. QED BY <1>3, <3>7
  <2>3. CASE v # Venue(bucket[1])
    <3>1. v \in up \ leaked
      BY <1>5, <1>7 DEF CloseBucket
    <3>2. QED BY <1>3, <1>4, <2>3, <3>1
  <2>4. QED BY <2>2, <2>3
<1>8. CASE TakeStep
  <2>1. pc' = pc /\ bucket' = bucket /\ up' = up /\ leaked' = leaked
    BY <1>8, TakeStepFacts
  <2>2. QED BY <1>3, <1>4, <2>1 DEF Venue
<1>9. CASE RefuseToScore \/ SortSteps \/ ReportCyclic \/ EndScoring \/ UNCHANGED vars
  <2>1. up' = up /\ leaked' = leaked /\ bucket' = bucket /\ (pc = "bucket" => pc' = pc)
    BY <1>9 DEF RefuseToScore, SortSteps, ReportCyclic, EndScoring, vars
  <2>2. QED BY <1>3, <1>4, <2>1 DEF Venue
<1>10. QED BY <1>6, <1>7, <1>8, <1>9, NextCases

-----------------------------------------------------------------------------
(* What holds of every scoring *)

\* IInv is inductive: no step of the scoring leaves it.
THEOREM ScoringInvariant == Spec => []IInv
<1>1. Init => IInv
  BY InitHolds
<1>2. IInv /\ [Next]_vars => IInv'
  BY TypeStep, QueueStep, FreshStep, OrderStep, CoverStep, ResultStep, SkipInvStep, KeptStep,
     CascadeStep DEF IInv
<1>3. QED BY <1>1, <1>2, PTL DEF Spec

\* Whatever the plan and however its venues answer, a scored step is executed only behind
\* the scored steps it depends on, each of which was executed and has passed.
THEOREM CascadeIsHonest == Spec => []CascadeHonest
<1>1. IInv => CascadeHonest
  BY DEF IInv
<1>2. QED BY <1>1, ScoringInvariant, PTL

\* As many results as scored steps: one each.
LEMMA OneEach ==
    ASSUME TypeOK, ResultInv, \A s \in Scored : HasVerdict(s)
    PROVE  /\ {out[k][1] : k \in DOMAIN out} = Scored
           /\ Len(out) = Cardinality(Scored)
<1>1. DOMAIN out = 1..Len(out) /\ Len(out) \in Nat /\ \A k \in 1..Len(out) : out[k][1] \in Steps
  BY DEF TypeOK
<1>2. Scored \subseteq Steps
  BY PlanIsTyped
<1>3. {out[k][1] : k \in DOMAIN out} = Scored
  <2>1. \A k \in 1..Len(out) : out[k][1] \in Scored
    BY <1>1 DEF ResultInv
  <2>2. \A s \in Scored : \E k \in 1..Len(out) : out[k][1] = s
    BY <1>2 DEF ResultInv
  <2>3. QED BY <1>1, <2>1, <2>2
<1> DEFINE step == [k \in 1..Len(out) |-> out[k][1]]
<1>4. step \in Bijection(1..Len(out), Scored)
  <2>1. step \in [1..Len(out) -> Scored]
    BY <1>1, <1>3
  <2>2. \A j, k \in 1..Len(out) : step[j] = step[k] => j = k
    BY DEF ResultInv
  <2>3. \A s \in Scored : \E k \in 1..Len(out) : step[k] = s
    BY <1>1, <1>3
  <2> HIDE DEF step
  <2>4. QED BY <2>1, <2>2, <2>3, Fun_IsBij
<1>5. ExistsBijection(1..Len(out), Scored)
  BY <1>4 DEF ExistsBijection
<1>6. Cardinality(Scored) = Len(out)
  BY <1>1, <1>5, FS_CountingElements
<1>7. QED BY <1>3, <1>6

\* No scored step is lost and none is reported twice, whatever the cycles of the plan.
THEOREM EveryStepIsScoredOnce == Spec => []EveryStepScoredOnce
<1>1. IInv => EveryStepScoredOnce
  <2>1. SUFFICES ASSUME IInv, pc = "done"
                 PROVE  /\ {out[k][1] : k \in DOMAIN out} = Scored
                        /\ Len(out) = Cardinality(Scored)
                        /\ \A k \in DOMAIN out : out[k][2] = "skipped" =>
                              \E d \in Dep(out[k][1]) : verdict[d] # "pass"
    BY DEF EveryStepScoredOnce
  <2>2. TypeOK /\ ResultInv /\ SkipInv /\ \A s \in Scored : HasVerdict(s)
    BY <2>1 DEF IInv, CoverInv
  <2>3. DOMAIN out = 1..Len(out)
    BY <2>2 DEF TypeOK
  <2>4. \A k \in DOMAIN out : out[k][2] = "skipped" =>
            \E d \in Dep(out[k][1]) : verdict[d] # "pass"
    BY <2>2, <2>3 DEF SkipInv
  <2>5. QED BY <2>2, <2>4, OneEach
<1>2. QED BY <1>1, ScoringInvariant, PTL

\* No ephemeral venue outlives its scoring but the one kept for inspection, and the one
\* whose deletion failed.
THEOREM EphemeralsAreDisposed == Spec => []EphemeralDisposed
<1>1. IInv => EphemeralDisposed
  BY DEF IInv, KeptInv, EphemeralDisposed
<1>2. QED BY <1>1, ScoringInvariant, PTL

=============================================================================
