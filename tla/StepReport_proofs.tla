-------------------------- MODULE StepReport_proofs --------------------------
(***************************************************************************)
(* What a bed run reads in the logs of its steps, for every set of tools,  *)
(* of quoted lines and of plans, and for runs of any length.               *)
(***************************************************************************)
EXTENDS StepReport, SequenceFacts, FiniteSetTheorems

ToolLines == UNION {Range(out) : out \in ToolOutputs}
PlanLines == {LineOf(r) : r \in Results}
Rollup(n) == [t |-> "rollup", n |-> n]

-----------------------------------------------------------------------------
(* Reading a block *)

LEMMA Between ==
    ASSUME NEW T, NEW a \in Seq(T), NEW b \in Seq(T), NEW c \in Seq(T)
    PROVE  SubSeq((a \o b) \o c, Len(a) + 1, Len(a) + Len(b)) = b
<1> DEFINE s == (a \o b) \o c
           r == SubSeq(s, Len(a) + 1, Len(a) + Len(b))
<1>1. /\ Len(a) \in Nat /\ Len(b) \in Nat /\ Len(c) \in Nat
      /\ a \o b \in Seq(T) /\ Len(a \o b) = Len(a) + Len(b)
      /\ \A k \in 1..Len(b) : (a \o b)[Len(a) + k] = b[k] /\ b[k] \in T
  OBVIOUS
<1>2. /\ s \in Seq(T) /\ Len(s) = Len(a) + Len(b) + Len(c)
      /\ \A k \in 1..(Len(a) + Len(b)) : s[k] = (a \o b)[k]
  BY <1>1
<1>3. \A k \in 1..Len(b) : s[Len(a) + k] = b[k]
  <2>1. \A k \in 1..Len(b) : Len(a) + k \in 1..(Len(a) + Len(b))
    BY <1>1
  <2> HIDE DEF s
  <2>2. QED BY <1>1, <1>2, <2>1
<1> HIDE DEF s
<1>4. /\ r \in Seq(T) /\ Len(r) = Len(b)
      /\ \A k \in 1..Len(b) : r[k] = s[Len(a) + k]
  <2>1. \A i \in (Len(a) + 1)..(Len(a) + Len(b)) : s[i] \in T
    BY <1>1, <1>2
  <2>2. QED BY <1>1, <2>1, SubSeqProperties
<1>5. r = b
  <2> HIDE DEF r
  <2>1. QED BY <1>3, <1>4, SeqEqual
<1>6. QED BY <1>5 DEF s

LEMMA MaxIs ==
    ASSUME NEW S, S \subseteq Nat, NEW m \in S, \A j \in S : j <= m
    PROVE  SetMax(S) = m
<1>1. \A k \in S : (\A j \in S : j <= k) => k = m
  OBVIOUS
<1>2. QED BY <1>1 DEF SetMax

\* The steps and the checks are what is kept.
LEMMA StepsAreKept ==
    ASSUME NEW T, NEW text \in Seq(T)
    PROVE  StepsOf(text) = Kept(text, {l \in T : IsStep(l)})
<1> DEFINE Q == {l \in T : IsStep(l)}
<1>1. DOMAIN text = 1..Len(text) /\ \A k \in 1..Len(text) : text[k] \in T
  OBVIOUS
<1>2. \A k \in 1..Len(text) : text[k] \in Q <=> IsStep(text[k])
  BY <1>1
<1> HIDE DEF Q
<1>3. [k \in DOMAIN text |-> IF IsStep(text[k]) THEN <<text[k]>> ELSE <<>>]
          = [k \in 1..Len(text) |-> IF text[k] \in Q THEN <<text[k]>> ELSE <<>>]
  BY <1>1, <1>2
<1>4. QED BY <1>3 DEF StepsOf, Kept, Q

LEMMA ChecksAreKept ==
    ASSUME NEW T, NEW text \in Seq(T)
    PROVE  ChecksOf(text) = Kept(text, {l \in T : IsCheck(l)})
<1> DEFINE Q == {l \in T : IsCheck(l)}
<1>1. DOMAIN text = 1..Len(text) /\ \A k \in 1..Len(text) : text[k] \in T
  OBVIOUS
<1>2. \A k \in 1..Len(text) : text[k] \in Q <=> IsCheck(text[k])
  BY <1>1
<1> HIDE DEF Q
<1>3. [k \in DOMAIN text |-> IF IsCheck(text[k]) THEN <<text[k]>> ELSE <<>>]
          = [k \in 1..Len(text) |-> IF text[k] \in Q THEN <<text[k]>> ELSE <<>>]
  BY <1>1, <1>2
<1>4. QED BY <1>3 DEF ChecksOf, Kept, Q

RollupsOf(text) == {k \in DOMAIN text : text[k].t = "rollup"}
Read(printed, n) ==
    IF Len(printed) # n THEN [NoReport EXCEPT !.present = TRUE]
    ELSE [present |-> TRUE, readable |-> TRUE, checks |-> ChecksOf(printed)]

LEMMA NothingIsRead ==
    ASSUME NEW text, RollupsOf(text) = {}
    PROVE  ParseCheckReport(text) = NoReport
BY DEF ParseCheckReport, RollupsOf

LEMMA BlockIsRead ==
    ASSUME NEW T, NEW a \in Seq(T), NEW b \in Seq(T),
           \A k \in 1..Len(b) : b[k].t # "rollup",
           NEW roll \in T, roll.t = "rollup",
           \A k \in 1..(Len(a) - 1) : a[k].t # "rollup",
           a # <<>> => a[Len(a)].t = "rollup"
    PROVE  ParseCheckReport((a \o b) \o <<roll>>) = Read(StepsOf(b), roll.n)
<1> DEFINE c == <<roll>>
           text == (a \o b) \o c
           last == Len(a) + Len(b) + 1
<1>1. /\ Len(a) \in Nat /\ Len(b) \in Nat /\ b \in Seq(T)
      /\ \A k \in 1..Len(b) : b[k] \in T /\ b[k].t # "rollup"
      /\ a = <<>> <=> Len(a) = 0
  OBVIOUS
<1>2. c \in Seq(T) /\ Len(c) = 1 /\ c[1] = roll
  OBVIOUS
<1> HIDE DEF c
<1>3. /\ a \o b \in Seq(T) /\ Len(a \o b) = Len(a) + Len(b)
      /\ \A k \in 1..Len(a) : (a \o b)[k] = a[k]
      /\ \A k \in 1..Len(b) : (a \o b)[Len(a) + k] = b[k]
  BY <1>1
<1>4. /\ text \in Seq(T) /\ Len(text) = last /\ text[last] = roll
      /\ \A k \in 1..(Len(a) + Len(b)) : text[k] = (a \o b)[k]
  <2> DEFINE ab == a \o b
  <2>1. ab \in Seq(T) /\ Len(ab) = Len(a) + Len(b)
    BY <1>3
  <2> HIDE DEF ab
  <2>2. /\ ab \o c \in Seq(T) /\ Len(ab \o c) = Len(ab) + 1
        /\ \A k \in 1..Len(ab) : (ab \o c)[k] = ab[k]
        /\ (ab \o c)[Len(ab) + 1] = c[1]
    <3>1. /\ ab \o c \in Seq(T) /\ Len(ab \o c) = Len(ab) + Len(c)
          /\ \A k \in 1..(Len(ab) + Len(c)) :
                (ab \o c)[k] = IF k <= Len(ab) THEN ab[k] ELSE c[k - Len(ab)]
      BY <1>2, <2>1, ConcatProperties
    <3>2. Len(ab) \in Nat
      BY <2>1
    <3>3. /\ \A k \in 1..Len(ab) : k \in 1..(Len(ab) + 1) /\ k <= Len(ab)
          /\ Len(ab) + 1 \in 1..(Len(ab) + 1) /\ ~(Len(ab) + 1 <= Len(ab))
          /\ (Len(ab) + 1) - Len(ab) = 1
      BY <3>2
    <3>4. QED BY <1>2, <3>1, <3>3
  <2>3. QED BY <1>2, <2>1, <2>2 DEF ab
<1> HIDE DEF text
<1>5. /\ DOMAIN text = 1..last
      /\ \A k \in 1..Len(a) : text[k] = a[k]
      /\ \A k \in 1..Len(b) : text[Len(a) + k] = b[k]
  <2>1. DOMAIN text = 1..Len(text)
    BY <1>4
  <2>2. \A k \in 1..Len(a) : k \in 1..(Len(a) + Len(b))
    BY <1>1
  <2>3. \A k \in 1..Len(b) : Len(a) + k \in 1..(Len(a) + Len(b))
    BY <1>1
  <2>4. QED BY <1>3, <1>4, <2>1, <2>2, <2>3
<1>6. ASSUME NEW k \in 1..last
      PROVE  text[k].t = "rollup" <=> k = last \/ (k = Len(a) /\ a # <<>>)
  <2>1. CASE k = last
    BY <1>4, <2>1
  <2>2. CASE k \in 1..Len(a)
    <3>1. k # last /\ text[k] = a[k]
      BY <1>1, <1>5, <2>2
    <3>2. CASE k = Len(a)
      BY <1>1, <2>2, <3>1, <3>2
    <3>3. CASE k # Len(a)
      <4>1. k \in 1..(Len(a) - 1)
        BY <1>1, <2>2, <3>3
      <4>2. QED BY <3>1, <3>3, <4>1
    <3>4. QED BY <3>2, <3>3
  <2>3. CASE k # last /\ k \notin 1..Len(a)
    <3>1. k - Len(a) \in 1..Len(b) /\ Len(a) + (k - Len(a)) = k
      <4>1. k \in Nat /\ 1 <= k /\ k <= last
        BY <1>1
      <4>2. ~(k <= Len(a)) /\ k # last
        BY <1>1, <2>3, <4>1
      <4>3. Len(a) \in Nat /\ Len(b) \in Nat
        BY <1>1
      <4> DEFINE p == Len(a)
                 q == Len(b)
      <4> HIDE DEF p, q
      <4>4. p \in Nat /\ q \in Nat /\ k \in Nat /\ k <= p + q + 1 /\ ~(k <= p) /\ k # p + q + 1
        BY <4>1, <4>2, <4>3 DEF p, q
      <4>5. k - p \in 1..q /\ p + (k - p) = k
        BY <4>4
      <4>6. QED BY <4>5 DEF p, q
    <3>2. text[k] = b[k - Len(a)]
      BY <1>5, <3>1
    <3>3. text[k].t # "rollup"
      BY <1>1, <3>1, <3>2
    <3>4. k # Len(a) \/ a = <<>>
      BY <1>1, <2>3
    <3>5. QED BY <2>3, <3>3, <3>4
  <2>4. QED BY <2>1, <2>2, <2>3
<1> DEFINE R == RollupsOf(text)
<1>7. R = IF a = <<>> THEN {last} ELSE {Len(a), last}
  <2>1. R = {k \in 1..last : text[k].t = "rollup"}
    BY <1>5 DEF RollupsOf
  <2>2. last \in 1..last /\ (a # <<>> => Len(a) \in 1..last)
    BY <1>1
  <2> HIDE DEF R, last
  <2>3. QED BY <1>6, <2>1, <2>2
<1> DEFINE start == IF Cardinality(R) < 2 THEN 0 ELSE SetMax(R \ {last})
<1>8. SetMax(R) = last /\ R # {}
  <2>1. R \subseteq Nat /\ last \in R /\ \A j \in R : j <= last
    BY <1>1, <1>7
  <2>2. QED BY <2>1, MaxIs
<1>9. start = Len(a)
  <2>1. CASE a = <<>>
    <3>1. R = {last} /\ Len(a) = 0
      BY <1>1, <1>7, <2>1
    <3>2. Cardinality(R) = 1
      BY <3>1, FS_Singleton
    <3>3. QED BY <3>1, <3>2
  <2>2. CASE a # <<>>
    <3>1. R = {Len(a)} \cup {last} /\ Len(a) # last
      BY <1>1, <1>7, <2>2
    <3>2. Cardinality(R) = 2
      <4>1. IsFiniteSet({Len(a)}) /\ Cardinality({Len(a)}) = 1
        BY FS_Singleton
      <4>2. last \notin {Len(a)}
        BY <3>1
      <4> HIDE DEF last, R
      <4>3. Cardinality({Len(a)} \cup {last}) = 1 + 1
        BY <4>1, <4>2, FS_AddElement
      <4>4. Cardinality(R) = 1 + 1
        BY <3>1, <4>3, Zenon
      <4>5. QED BY <4>4
    <3>3. R \ {last} = {Len(a)}
      BY <3>1
    <3>4. SetMax({Len(a)}) = Len(a)
      <4>1. {Len(a)} \subseteq Nat /\ Len(a) \in {Len(a)} /\ \A j \in {Len(a)} : j <= Len(a)
        BY <1>1
      <4>2. QED BY <4>1, MaxIs
    <3>5. start = SetMax(R \ {last})
      BY <3>2
    <3>6. QED BY <3>3, <3>4, <3>5, Zenon
  <2>3. QED BY <2>1, <2>2
<1>10. SubSeq(text, Len(a) + 1, last - 1) = b
  <2>1. last - 1 = Len(a) + Len(b)
    BY <1>1
  <2>2. QED BY <1>1, <1>2, <2>1, Between DEF text
<1>11. ParseCheckReport(text) = Read(StepsOf(b), roll.n)
  <2> DEFINE printed == StepsOf(SubSeq(text, start + 1, SetMax(R) - 1))
  <2>1. ParseCheckReport(text) =
            CASE R = {} -> NoReport
              [] R # {} /\ Len(printed) # text[SetMax(R)].n -> [NoReport EXCEPT !.present = TRUE]
              [] OTHER -> [present |-> TRUE, readable |-> TRUE, checks |-> ChecksOf(printed)]
    BY <1>8 DEF ParseCheckReport, RollupsOf
  <2>2. printed = StepsOf(b)
    BY <1>8, <1>9, <1>10
  <2> HIDE DEF printed, R, start, last
  <2>3. QED BY <1>4, <1>8, <2>1, <2>2 DEF Read
<1>12. QED BY <1>11 DEF text, c

-----------------------------------------------------------------------------
(* Reading what a plan printed *)

Printed(results) ==
    LET found == ChecksOf(results) IN [j \in DOMAIN found |-> LineOf(found[j])]
LinesOf(results) == [i \in DOMAIN results |-> LineOf(results[i])]

LEMMA LinesFit ==
    ASSUME NEW results \in Seq(Results)
    PROVE  /\ LinesOf(results) \in Seq(PlanLines) /\ Len(LinesOf(results)) = Len(results)
           /\ \A k \in 1..Len(results) : LinesOf(results)[k] = LineOf(results[k])
<1>1. /\ Len(results) \in Nat /\ DOMAIN results = 1..Len(results)
      /\ \A k \in 1..Len(results) : results[k] \in Results
  OBVIOUS
<1>2. \A k \in 1..Len(results) : LineOf(results[k]) \in PlanLines
  BY <1>1 DEF PlanLines
<1>3. LinesOf(results) \in [1..Len(results) -> PlanLines]
  BY <1>1, <1>2 DEF LinesOf
<1>4. LinesOf(results) \in Seq(PlanLines)
  BY <1>1, <1>3, SeqDef
<1>5. Len(LinesOf(results)) = Len(results)
  BY <1>1, <1>3, <1>4, LenProperties
<1>6. QED BY <1>1, <1>4, <1>5 DEF LinesOf

\* The checks among the lines are the lines of the checks.
LEMMA ChecksOfLines ==
    ASSUME NEW results \in Seq(Results)
    PROVE  /\ ChecksOf(LinesOf(results)) = Printed(results)
           /\ Printed(results) \in Seq(PlanLines)
           /\ \A j \in DOMAIN Printed(results) : \E k \in DOMAIN results :
                 results[k].check /\ Printed(results)[j].status = results[k].status
<1> DEFINE m == [r \in Results |-> LineOf(r)]
           Q == {r \in Results : IsCheck(r)}
           R == {l \in PlanLines : IsCheck(l)}
           lines == LinesOf(results)
           found == ChecksOf(results)
<1>1. m \in [Results -> PlanLines] /\ \A r \in Results : m[r] = LineOf(r)
  BY DEF PlanLines
<1> HIDE DEF m
<1>2. \A r \in Results : /\ LineOf(r).check = r.check /\ LineOf(r).status = r.status
                         /\ r \in Q <=> m[r] \in R
  <2>1. \A r \in Results : LineOf(r).check = r.check /\ LineOf(r).status = r.status
    BY DEF LineOf
  <2>2. \A r \in Results : r \in Q <=> r.check
    BY DEF IsCheck
  <2>3. \A r \in Results : m[r] \in R <=> m[r].check
    BY <1>1 DEF IsCheck
  <2> HIDE DEF Q, R
  <2>4. QED BY <1>1, <2>1, <2>2, <2>3
<1>3. found = Kept(results, Q)
  BY ChecksAreKept
<1>4. lines \in Seq(PlanLines) /\ Len(lines) = Len(results) /\ Len(results) \in Nat
      /\ DOMAIN results = 1..Len(results)
      /\ \A k \in 1..Len(results) : lines[k] = m[results[k]]
  <2>1. \A k \in 1..Len(results) : results[k] \in Results
    OBVIOUS
  <2>2. Len(results) \in Nat /\ DOMAIN results = 1..Len(results)
    OBVIOUS
  <2> HIDE DEF lines
  <2>3. QED BY <1>1, <2>1, <2>2, LinesFit DEF lines
<1> HIDE DEF lines, found
<1>5. ChecksOf(lines) = Kept(lines, R)
  BY <1>4, ChecksAreKept
<1> HIDE DEF Q, R
<1>6. \A r \in Results : r \in Q <=> m[r] \in R
  BY <1>2
<1>7. /\ Kept(lines, R) \in Seq(PlanLines) /\ Kept(results, Q) \in Seq(Results)
      /\ Len(Kept(lines, R)) = Len(Kept(results, Q))
      /\ \A j \in 1..Len(Kept(results, Q)) : Kept(lines, R)[j] = m[Kept(results, Q)[j]]
  <2>1. \A r \in Results : m[r] \in PlanLines
    BY <1>1
  <2>2. lines \in Seq(PlanLines) /\ IsImage(m, results, lines)
    BY <1>4 DEF IsImage
  <2>3. IsImage(m, Kept(results, Q), Kept(lines, R))
    BY <1>6, <2>1, <2>2, KeptImage
  <2>4. Kept(lines, R) \in Seq(PlanLines) /\ Kept(results, Q) \in Seq(Results)
    BY <2>2, KeptWasThere
  <2>5. QED BY <2>3, <2>4 DEF IsImage
<1> DEFINE out == ChecksOf(lines)
<1>8. /\ out \in Seq(PlanLines) /\ found \in Seq(Results) /\ Len(out) = Len(found)
      /\ \A j \in 1..Len(found) : out[j] = m[found[j]] /\ found[j] \in Results
  BY <1>3, <1>5, <1>7
<1> HIDE DEF out
<1>9. out = [j \in DOMAIN found |-> LineOf(found[j])]
  <2>1. /\ DOMAIN found = 1..Len(found) /\ DOMAIN out = 1..Len(out)
        /\ out = [j \in DOMAIN out |-> out[j]]
    BY <1>8
  <2>2. \A j \in 1..Len(found) : out[j] = LineOf(found[j])
    BY <1>1, <1>8
  <2>3. QED BY <1>8, <2>1, <2>2
<1>10. out = Printed(results)
  BY <1>9 DEF Printed, found
<1>11. ASSUME NEW j \in DOMAIN out
       PROVE  \E k \in DOMAIN results : results[k].check /\ out[j].status = results[k].status
  <2>1. j \in 1..Len(found)
    BY <1>8
  <2>2. PICK k \in 1..Len(results) : found[j] = results[k] /\ results[k] \in Q
    BY <1>3, <2>1, KeptWasThere
  <2>3. results[k] \in Results /\ out[j] = LineOf(results[k])
    BY <1>1, <1>8, <2>1, <2>2
  <2>4. results[k].check
    BY <2>2, <2>3 DEF Q, IsCheck
  <2>5. QED BY <1>2, <1>4, <2>3, <2>4
<1>12. QED BY <1>8, <1>10, <1>11 DEF out, lines

\* What the bed run reads in the log of a plan is the plan's checks, or nothing: whatever
\* the tools, the forwarded steps and the messages print before and behind its lines.
LEMMA PlanIsRead ==
    ASSUME NEW pre \in Seq(ToolLines), NEW results \in Seq(Results),
           NEW before \in {<<>>} \cup {<<l>> : l \in Quoted},
           NEW message \in {<<>>} \cup {<<l>> : l \in {q \in Quoted : q.t = "step"}}
    PROVE  LET rep == ParseCheckReport(pre \o before \o LinesOf(results) \o message
                                           \o <<Rollup(Len(results))>>)
           IN /\ rep.present
              /\ \/ ~rep.readable /\ rep.checks = <<>>
                 \/ rep.readable /\ rep.checks = Printed(results)
<1> DEFINE n == Len(results)
           lines == LinesOf(results)
           T == ToolLines \cup Quoted \cup PlanLines \cup {Rollup(n)}
           N == {l \in T : l.t # "rollup"}
           Q == {l \in T : IsStep(l)}
<1>1. \A l \in ToolLines : l.t # "rollup" /\ ~IsStep(l)
  BY StepReportAssumption, Zenon DEF ToolLines, IsStep
<1>2. \A l \in PlanLines : l.t # "rollup" /\ IsStep(l)
  BY DEF PlanLines, LineOf, IsStep
<1>3. Rollup(n).t = "rollup" /\ Rollup(n).n = n /\ Rollup(n) \in T /\ n \in Nat
  BY DEF Rollup
<1>4. ToolLines \subseteq N /\ PlanLines \subseteq N /\ PlanLines \subseteq Q /\ Q \subseteq N
  <2>1. ToolLines \subseteq T /\ PlanLines \subseteq T
    OBVIOUS
  <2>2. \A l : IsStep(l) => l.t # "rollup"
    BY DEF IsStep
  <2>3. QED BY <1>1, <1>2, <2>1, <2>2
<1>5. N \subseteq T /\ Quoted \subseteq T
  OBVIOUS
<1>6. \A l \in ToolLines : l \notin Q
  BY <1>1
<1>7. \A q \in Quoted : (q.t = "step" => q \in Q) /\ (q.t # "rollup" => q \in N)
  BY <1>5 DEF IsStep
<1> HIDE DEF T, N, Q
<1>8. /\ lines \in Seq(Q) /\ lines \in Seq(N) /\ lines \in Seq(T) /\ Len(lines) = n
      /\ pre \in Seq(N) /\ pre \in Seq(T)
  <2>1. lines \in Seq(PlanLines) /\ Len(lines) = n
    BY LinesFit
  <2> HIDE DEF lines
  <2>2. ToolLines \subseteq T /\ PlanLines \subseteq T
    BY <1>4, <1>5
  <2>3. QED BY <1>4, <2>1, <2>2
<1>9. message \in Seq(Q) /\ message \in Seq(N) /\ message \in Seq(T)
  <2>1. CASE message = <<>>
    BY <2>1
  <2>2. CASE message # <<>>
    <3>1. PICK q \in Quoted : message = <<q>> /\ q.t = "step"
      BY <2>2
    <3>2. q \in Q /\ q \in N /\ q \in T
      BY <1>4, <1>5, <1>7, <3>1
    <3>3. QED BY <3>1, <3>2
  <2>3. QED BY <2>1, <2>2
<1>10. before \in Seq(T)
  <2>1. CASE before = <<>>
    BY <2>1
  <2>2. CASE before # <<>>
    <3>1. PICK q \in Quoted : before = <<q>>
      BY <2>2
    <3>2. q \in T
      BY <1>5
    <3>3. QED BY <3>1, <3>2
  <2>3. QED BY <2>1, <2>2
<1> HIDE DEF lines
\* The steps of a block that starts behind c.
<1>11. ASSUME NEW c \in Seq(T)
       PROVE  LET read == Read(StepsOf((c \o lines) \o message), n)
              IN /\ read.present
                 /\ \/ ~read.readable /\ read.checks = <<>>
                    \/ read.readable /\ read.checks = Printed(results)
  <2> DEFINE d == Kept(c, Q)
             b == (c \o lines) \o message
             printed == StepsOf(b)
  <2>1. c \o lines \in Seq(T) /\ b \in Seq(T)
    BY <1>8, <1>9
  <2>2. printed = Kept(b, Q)
    <3> HIDE DEF b
    <3>1. QED BY <2>1, StepsAreKept DEF Q
  <2>3. Kept(b, Q) = (d \o lines) \o message
    <3>1. Kept(b, Q) = Kept(c \o lines, Q) \o Kept(message, Q)
      BY <1>9, <2>1, KeptConcat
    <3>2. Kept(c \o lines, Q) = d \o Kept(lines, Q)
      BY <1>8, KeptConcat
    <3>3. Kept(lines, Q) = lines /\ Kept(message, Q) = message
      BY <1>8, <1>9, KeptAll
    <3>4. QED BY <3>1, <3>2, <3>3, Zenon
  <2>4. d \in Seq(T)
    BY KeptWasThere
  <2> HIDE DEF d, b, printed
  <2>5. CASE Len(printed) # n
    <3>1. Read(printed, n) = [NoReport EXCEPT !.present = TRUE]
      BY <2>5 DEF Read
    <3>2. QED BY <3>1 DEF NoReport, printed, b
  <2>6. CASE Len(printed) = n
    <3>1. /\ d \o lines \in Seq(T) /\ Len(d \o lines) = Len(d) + n
          /\ Len((d \o lines) \o message) = Len(d \o lines) + Len(message)
          /\ Len(d) \in Nat /\ Len(message) \in Nat
      BY <1>8, <1>9, <2>4
    <3>2. Len(d) = 0 /\ Len(message) = 0
      BY <1>3, <2>2, <2>3, <2>6, <3>1
    <3>3. d = <<>> /\ message = <<>>
      BY <1>9, <2>4, <3>2
    <3>4. <<>> \o lines = lines /\ lines \o <<>> = lines
      BY <1>8, ConcatEmptySeq
    <3>5. printed = lines
      BY <2>2, <2>3, <3>3, <3>4, Zenon
    <3>6. Read(printed, n) = [present |-> TRUE, readable |-> TRUE, checks |-> ChecksOf(lines)]
      BY <2>6, <3>5 DEF Read
    <3>7. ChecksOf(lines) = Printed(results)
      BY ChecksOfLines DEF lines
    <3>8. QED BY <3>6, <3>7 DEF printed, b
  <2>7. QED BY <2>5, <2>6
<1> DEFINE roll == Rollup(n)
           text == pre \o before \o lines \o message \o <<roll>>
<1>12. CASE \E q \in Quoted : before = <<q>> /\ q.t = "rollup"
  <2> DEFINE a == pre \o before
             b == lines \o message
  <2>1. PICK q \in Quoted : before = <<q>> /\ q.t = "rollup"
    BY <1>12
  <2>2. /\ a \in Seq(T) /\ Len(a) = Len(pre) + 1 /\ a[Len(a)] = q /\ Len(pre) \in Nat
        /\ \A k \in 1..Len(pre) : a[k] = pre[k] /\ pre[k] \in N
    <3>1. q \in T /\ Len(before) = 1 /\ before[1] = q
      BY <1>5, <2>1
    <3>2. /\ Len(pre) \in Nat /\ a \in Seq(T) /\ Len(a) = Len(pre) + 1
          /\ \A k \in 1..(Len(pre) + 1) :
                a[k] = IF k <= Len(pre) THEN pre[k] ELSE before[k - Len(pre)]
      <4>1. pre \in Seq(T) /\ before \in Seq(T) /\ Len(before) = 1
        BY <1>8, <1>10, <3>1
      <4>2. /\ a \in Seq(T) /\ Len(a) = Len(pre) + Len(before)
            /\ \A k \in 1..(Len(pre) + Len(before)) :
                  a[k] = IF k <= Len(pre) THEN pre[k] ELSE before[k - Len(pre)]
        BY <4>1, ConcatProperties
      <4>3. Len(pre) \in Nat
        BY <4>1
      <4> HIDE DEF a
      <4>4. QED BY <4>1, <4>2, <4>3
    <3> HIDE DEF a
    <3>3. \A k \in 1..Len(pre) : k \in 1..(Len(pre) + 1) /\ k <= Len(pre)
      BY <3>2
    <3>4. /\ Len(pre) + 1 \in 1..(Len(pre) + 1) /\ ~(Len(pre) + 1 <= Len(pre))
          /\ (Len(pre) + 1) - Len(pre) = 1
      BY <3>2
    <3>5. \A k \in 1..Len(pre) : pre[k] \in N
      BY <1>8
    <3>6. QED BY <3>1, <3>2, <3>3, <3>4, <3>5
  <2>3. /\ \A k \in 1..(Len(a) - 1) : a[k].t # "rollup"
        /\ a[Len(a)].t = "rollup"
    <3>1. Len(a) - 1 = Len(pre)
      BY <2>2
    <3>2. QED BY <2>1, <2>2, <3>1 DEF N
  <2> HIDE DEF a
  <2>4. b \in Seq(N) /\ b \in Seq(T)
    BY <1>8, <1>9
  <2>5. text = (a \o b) \o <<roll>>
    <3>1. (a \o lines) \o message = a \o (lines \o message)
      BY <1>8, <1>9, <2>2
    <3>2. QED BY <3>1, Zenon DEF a
  <2>6. <<>> \o lines = lines /\ <<>> \in Seq(T)
    BY <1>8
  <2> HIDE DEF b, roll, text
  <2>7. ParseCheckReport((a \o b) \o <<roll>>) = Read(StepsOf(b), n)
    <3>1. b \in Seq(T) /\ \A k \in 1..Len(b) : b[k].t # "rollup"
      BY <2>4 DEF N
    <3>2. roll \in T /\ roll.t = "rollup" /\ roll.n = n
      BY <1>3 DEF roll
    <3>3. /\ a \in Seq(T) /\ (a # <<>> => a[Len(a)].t = "rollup")
          /\ \A k \in 1..(Len(a) - 1) : a[k].t # "rollup"
      BY <2>2, <2>3
    <3> HIDE DEF roll
    <3>4. ParseCheckReport((a \o b) \o <<roll>>) = Read(StepsOf(b), roll.n)
      BY <3>1, <3>2, <3>3, BlockIsRead
    <3>5. QED BY <3>2, <3>4
  <2>8. b = (<<>> \o lines) \o message
    BY <2>6, Zenon DEF b
  <2>9. QED BY <1>11, <2>5, <2>6, <2>7, <2>8 DEF text, roll, lines, n
<1>13. CASE ~ \E q \in Quoted : before = <<q>> /\ q.t = "rollup"
  <2> DEFINE c == pre \o before
             b == (c \o lines) \o message
  <2>1. before \in Seq(N)
    <3>1. CASE before = <<>>
      BY <3>1
    <3>2. CASE before # <<>>
      <4>1. PICK q \in Quoted : before = <<q>>
        BY <3>2
      <4>2. q \in N
        BY <1>7, <1>13, <4>1
      <4>3. QED BY <4>1, <4>2
    <3>3. QED BY <3>1, <3>2
  <2>2. c \in Seq(N) /\ c \in Seq(T)
    BY <1>8, <1>10, <2>1
  <2> HIDE DEF c
  <2>3. b \in Seq(N) /\ b \in Seq(T)
    BY <1>8, <1>9, <2>2
  <2> HIDE DEF b
  <2>4. /\ <<>> \in Seq(T) /\ Len(<<>>) = 0 /\ <<>> \o b = b
        /\ \A k \in 1..(Len(<<>>) - 1) : <<>>[k].t # "rollup"
    BY <2>3
  <2>5. ParseCheckReport((<<>> \o b) \o <<roll>>) = Read(StepsOf(b), n)
    <3> HIDE DEF roll
    <3>1. b \in Seq(T) /\ \A k \in 1..Len(b) : b[k].t # "rollup"
      BY <2>3 DEF N
    <3>2. roll \in T /\ roll.t = "rollup" /\ roll.n = n
      BY <1>3 DEF roll
    <3>3. ParseCheckReport((<<>> \o b) \o <<roll>>) = Read(StepsOf(b), roll.n)
      BY <2>4, <3>1, <3>2, BlockIsRead
    <3>4. QED BY <3>2, <3>3
  <2>6. text = (<<>> \o b) \o <<roll>>
    <3> HIDE DEF roll
    <3>1. QED BY <2>4, Zenon DEF b, c
  <2> HIDE DEF roll, text
  <2>7. QED BY <1>11, <2>2, <2>5, <2>6 DEF text, roll, lines, n, b
<1>14. QED BY <1>12, <1>13

-----------------------------------------------------------------------------
(* The inductive invariant *)

Failed(results) == \E j \in DOMAIN results : results[j].status \in {"FAIL", "INFRA"}
Proved(results) == \E j \in DOMAIN results : results[j].check /\ results[j].status = "PASS"

\* What a step records of a plan.
Recorded(s, results) ==
    /\ s.checks = <<>> \/ s.checks = Printed(results)
    /\ s.ok => ~Failed(results)
    /\ results # Unknown /\ s.ok /\ ~s.skip => Proved(results)

StepRecords == [ok : BOOLEAN, skip : BOOLEAN, checks : Seq(PlanLines)]

ShapeInv ==
    /\ pc \in {"idle", "running", "gone", "ended"} /\ kind \in Kinds
    /\ steps \in Seq(StepRecords) /\ truth \in Seq({Unknown} \cup Plans)
    /\ Len(truth) = IF pc \in {"running", "gone"} THEN Len(steps) + 1 ELSE Len(steps)

\* While a check runs, its log is what its tools printed.
RunningInv ==
    pc = "running" =>
        /\ Last(truth) = Unknown /\ exit = 0 /\ ~cerr
        /\ kind # "build" => log \in Seq(ToolLines)

\* What a child leaves: its exit code and its log agree with its plan.
GoneInv ==
    pc = "gone" =>
        /\ exit \in 0..3 /\ (cerr => exit = 0)
        /\ exit = 3 => Last(truth) = Unknown
        /\ LET rep == ChildReport(kind, log)
           IN /\ rep.readable => rep.present
              /\ rep.checks = <<>> \/ rep.checks = Printed(Last(truth))
              /\ Last(truth) # Unknown /\ exit = 0 /\ ~cerr => rep.present /\ ~Failed(Last(truth))

RunInv ==
    /\ \A i \in 1..Len(steps) : Recorded(steps[i], truth[i])
    /\ ok => failExit = 0 /\ \A i \in 1..Len(steps) : steps[i].ok
    /\ pc # "ended" => ok

IInv == ShapeInv /\ RunningInv /\ GoneInv /\ RunInv

-----------------------------------------------------------------------------
(* What the child leaves *)

LEMMA ToolsAreNotRead ==
    ASSUME NEW text \in Seq(ToolLines), NEW k
    PROVE  ChildReport(k, text) = NoReport
<1>1. \A l \in ToolLines : l.t # "rollup"
  BY StepReportAssumption, Zenon DEF ToolLines
<1>2. DOMAIN text = 1..Len(text) /\ \A j \in 1..Len(text) : text[j] \in ToolLines
  OBVIOUS
<1>3. RollupsOf(text) = {}
  BY <1>1, <1>2 DEF RollupsOf
<1>4. QED BY <1>3, NothingIsRead DEF ChildReport

LEMMA ExitCodes ==
    ASSUME NEW k
    PROVE  /\ ExitOf(k, 0) = 0 /\ ExitOf(k, 1) = 1 /\ ExitOf(k, 2) = 2
           /\ ExitOf(k, 3) \in {1, 3}
BY DEF ExitOf, GuestExit, CheckFailExitCode

LEMMA FailErrors ==
    ASSUME NEW results
    PROVE  /\ FailErrorFor(results) \in {0, 1, 2}
           /\ FailErrorFor(results) = 2 => Some(results, "FAIL")
           /\ FailErrorFor(results) = 0 => ~Failed(results)
<1>1. FailErrorFor(results) = 0 => ~Some(results, "FAIL") /\ ~Some(results, "INFRA")
  BY DEF FailErrorFor, CheckFailExitCode
<1>2. ~Some(results, "FAIL") /\ ~Some(results, "INFRA") => ~Failed(results)
  BY DEF Some, Failed
<1>3. QED BY <1>1, <1>2 DEF FailErrorFor, CheckFailExitCode

PlanLog(pre, before, results, message) ==
    pre \o before \o LinesOf(results) \o message \o <<Rollup(Len(results))>>

\* The plan's report in the log of a child.
LEMMA ChildIsRead ==
    ASSUME NEW pre \in Seq(ToolLines), NEW results \in Plans, NEW k \in {"live", "guest"},
           NEW before \in {<<>>} \cup {<<l>> : l \in Quoted},
           NEW message \in {<<>>} \cup {<<l>> : l \in {q \in Quoted : q.t = "step"}}
    PROVE  LET rep == ChildReport(k, PlanLog(pre, before, results, message))
           IN rep.present /\ (rep.checks = <<>> \/ rep.checks = Printed(results))
<1> DEFINE text == PlanLog(pre, before, results, message)
<1>1. results \in Seq(Results)
  BY StepReportAssumption
<1>2. ChildReport(k, text) = ParseCheckReport(text)
  BY DEF ChildReport
<1>3. /\ ParseCheckReport(text).present
      /\ \/ ParseCheckReport(text).checks = <<>>
         \/ ParseCheckReport(text).checks = Printed(results)
  BY <1>1, PlanIsRead, Zenon DEF PlanLog
<1>4. QED BY <1>2, <1>3

-----------------------------------------------------------------------------
(* The invariant holds *)

LEMMA InitInv == ASSUME Init PROVE IInv
<1>1. ShapeInv
  <2>1. steps = <<>> /\ truth = <<>> /\ pc = "idle" /\ kind = "build"
    BY DEF Init
  <2>2. steps \in Seq(StepRecords) /\ truth \in Seq({Unknown} \cup Plans)
    BY <2>1
  <2>3. Len(steps) = 0 /\ Len(truth) = 0
    BY <2>1
  <2>4. QED BY <2>1, <2>2, <2>3 DEF ShapeInv, Kinds
<1>2. RunningInv /\ GoneInv
  BY DEF Init, RunningInv, GoneInv
<1>3. RunInv
  <2>1. Len(steps) = 0 /\ ok = TRUE /\ failExit = 0
    BY DEF Init
  <2>2. QED BY <2>1 DEF RunInv
<1>4. QED BY <1>1, <1>2, <1>3 DEF IInv

\* A step that records nothing leaves the record as it is.
LEMMA RunStays ==
    ASSUME RunInv, ok, steps' = steps, ok' = ok, failExit' = failExit,
           \A i \in 1..Len(steps) : truth'[i] = truth[i]
    PROVE  RunInv'
<1>1. ok'
  OBVIOUS
<1>2. \A i \in 1..Len(steps) : Recorded(steps[i], truth'[i])
  BY DEF RunInv
<1>3. (\A i \in 1..Len(steps) : Recorded(steps[i], truth[i]))'
  BY <1>2
<1>4. (ok => failExit = 0 /\ \A i \in 1..Len(steps) : steps[i].ok)'
  BY DEF RunInv
<1>5. QED BY <1>1, <1>3, <1>4 DEF RunInv

LEMMA LaunchInv == ASSUME IInv, Launch PROVE IInv'
<1>1. /\ pc = "idle" /\ pc' = "running" /\ kind' \in Kinds /\ log' = <<>> /\ exit' = 0
      /\ cerr' = FALSE /\ truth' = Append(truth, Unknown)
      /\ steps' = steps /\ ok' = ok /\ failExit' = failExit
  BY DEF Launch
<1>2. /\ steps \in Seq(StepRecords) /\ truth \in Seq({Unknown} \cup Plans)
      /\ Len(truth) = Len(steps) /\ Len(steps) \in Nat
  <2>1. Len(truth) = Len(steps)
    BY <1>1 DEF IInv, ShapeInv
  <2>2. steps \in Seq(StepRecords) /\ truth \in Seq({Unknown} \cup Plans)
    BY DEF IInv, ShapeInv
  <2>3. Len(steps) \in Nat
    BY <2>2
  <2>4. QED BY <2>1, <2>2, <2>3
<1>3. /\ truth' \in Seq({Unknown} \cup Plans) /\ Len(truth') = Len(truth) + 1
      /\ truth'[Len(truth')] = Unknown
      /\ \A i \in 1..Len(truth) : truth'[i] = truth[i]
  <2>1. Unknown \in {Unknown} \cup Plans
    OBVIOUS
  <2> HIDE DEF Unknown
  <2>2. QED BY <1>1, <1>2, <2>1, AppendProperties
<1>4. ShapeInv'
  BY <1>1, <1>2, <1>3 DEF ShapeInv
<1>5. RunningInv'
  <2>1. log' \in Seq(ToolLines)
    BY <1>1
  <2>2. Last(truth') = Unknown
    BY <1>3 DEF Last
  <2>3. QED BY <1>1, <2>1, <2>2 DEF RunningInv
<1>6. GoneInv'
  BY <1>1 DEF GoneInv
<1>7. RunInv'
  <2>1. RunInv /\ ok
    BY <1>1 DEF IInv, RunInv
  <2>2. QED BY <1>1, <1>2, <1>3, <2>1, RunStays
<1>8. QED BY <1>4, <1>5, <1>6, <1>7 DEF IInv

\* Every other step of a child leaves the record and the steps alone.
LEMMA ChildStays ==
    ASSUME IInv, pc \in {"running", "gone"}, pc' \in {"running", "gone"}, kind' = kind,
           steps' = steps, truth' = truth, ok' = ok, failExit' = failExit
    PROVE  ShapeInv' /\ RunInv'
<1>1. ShapeInv'
  BY DEF IInv, ShapeInv
<1>2. RunInv /\ ok
  BY DEF IInv, RunInv
<1>3. RunInv'
  BY <1>2, RunStays
<1>4. QED BY <1>1, <1>3

LEMMA RunToolInv == ASSUME IInv, RunTool PROVE IInv'
<1>1. /\ pc = "running" /\ pc' = pc /\ kind' = kind /\ exit' = exit /\ cerr' = cerr
      /\ steps' = steps /\ truth' = truth /\ ok' = ok /\ failExit' = failExit
  BY DEF RunTool
<1>2. PICK out \in ToolOutputs : log' = log \o out
  BY DEF RunTool
<1>3. ShapeInv' /\ RunInv'
  BY <1>1, ChildStays
<1>4. RunningInv'
  <2>1. out \in Seq(Range(out)) /\ Range(out) \subseteq ToolLines
    BY StepReportAssumption DEF ToolLines
  <2>2. out \in Seq(ToolLines)
    BY <2>1
  <2>3. ASSUME kind # "build"
        PROVE  log' \in Seq(ToolLines)
    <3>1. log \in Seq(ToolLines)
      BY <1>1, <2>3 DEF IInv, RunningInv
    <3>2. QED BY <1>2, <2>2, <3>1
  <2>4. Last(truth) = Unknown /\ exit = 0 /\ ~cerr
    BY <1>1 DEF IInv, RunningInv
  <2>5. QED BY <1>1, <2>3, <2>4 DEF RunningInv
<1>5. GoneInv'
  BY <1>1 DEF GoneInv
<1>6. QED BY <1>3, <1>4, <1>5 DEF IInv

LEMMA PrintQuotationInv == ASSUME IInv, PrintQuotation PROVE IInv'
<1>1. /\ pc = "running" /\ pc' = pc /\ kind' = kind /\ exit' = exit /\ cerr' = cerr
      /\ kind = "build"
      /\ steps' = steps /\ truth' = truth /\ ok' = ok /\ failExit' = failExit
  BY DEF PrintQuotation
<1>2. ShapeInv' /\ RunInv'
  BY <1>1, ChildStays
<1>3. RunningInv'
  <2>1. Last(truth) = Unknown /\ exit = 0 /\ ~cerr
    BY <1>1 DEF IInv, RunningInv
  <2>2. QED BY <1>1, <2>1 DEF RunningInv
<1>4. GoneInv'
  BY <1>1 DEF GoneInv
<1>5. QED BY <1>2, <1>3, <1>4 DEF IInv

\* A child that leaves with no report.
LEMMA SilentExit ==
    ASSUME ChildReport(kind, log)' = NoReport, Last(truth)' = Unknown \/ cerr',
           exit' \in {0, 1, 3}, cerr' => exit' = 0
    PROVE  GoneInv'
<1>1. /\ ~NoReport.present /\ ~NoReport.readable /\ NoReport.checks = <<>>
  BY DEF NoReport
<1> DEFINE rep == ChildReport(kind, log)
<1>2. ~rep'.present /\ ~rep'.readable /\ rep'.checks = <<>>
  BY <1>1
<1> HIDE DEF rep
<1>3. QED BY <1>2 DEF GoneInv, rep

LEMMA BuildExitsInv == ASSUME IInv, BuildExits PROVE IInv'
<1>1. /\ pc = "running" /\ pc' = "gone" /\ kind' = kind /\ kind = "build" /\ log' = log
      /\ exit' \in {0, 1} /\ cerr' = cerr
      /\ steps' = steps /\ truth' = truth /\ ok' = ok /\ failExit' = failExit
  BY DEF BuildExits
<1>2. ShapeInv' /\ RunInv'
  BY <1>1, ChildStays
<1>3. RunningInv'
  BY <1>1 DEF RunningInv
<1>4. GoneInv'
  <2>1. Last(truth) = Unknown /\ ~cerr
    BY <1>1 DEF IInv, RunningInv
  <2>2. ChildReport(kind, log)' = NoReport
    BY <1>1 DEF ChildReport
  <2>3. QED BY <1>1, <2>1, <2>2, SilentExit
<1>5. QED BY <1>2, <1>3, <1>4 DEF IInv

LEMMA SilentCheckInv == ASSUME IInv, ResolveNothing \/ CheckCannotRun PROVE IInv'
<1>1. /\ pc = "running" /\ pc' = "gone" /\ kind' = kind /\ kind # "build" /\ log' = log
      /\ exit' \in {1, 3} /\ cerr' = cerr
      /\ steps' = steps /\ truth' = truth /\ ok' = ok /\ failExit' = failExit
  <2>1. ExitOf(kind, CheckSkippedExitCode) \in {1, 3}
    BY ExitCodes DEF CheckSkippedExitCode
  <2>2. QED BY <2>1 DEF ResolveNothing, CheckCannotRun
<1>2. ShapeInv' /\ RunInv'
  BY <1>1, ChildStays
<1>3. RunningInv'
  BY <1>1 DEF RunningInv
<1>4. GoneInv'
  <2>1. Last(truth) = Unknown /\ ~cerr /\ log \in Seq(ToolLines)
    BY <1>1 DEF IInv, RunningInv
  <2>2. ChildReport(kind, log) = NoReport
    BY <2>1, ToolsAreNotRead
  <2>3. ChildReport(kind, log)' = NoReport
    BY <1>1, <2>2
  <2>4. QED BY <1>1, <2>1, <2>3, SilentExit
<1>5. QED BY <1>2, <1>3, <1>4 DEF IInv

LEMMA LoseReplyInv == ASSUME IInv, LoseReply PROVE IInv'
<1>1. /\ pc \in {"running", "gone"} /\ pc' = "gone" /\ kind' = kind /\ log' = <<>>
      /\ exit' = 0 /\ cerr' = TRUE
      /\ steps' = steps /\ truth' = truth /\ ok' = ok /\ failExit' = failExit
  BY DEF LoseReply
<1>2. ShapeInv' /\ RunInv'
  BY <1>1, ChildStays
<1>3. RunningInv'
  BY <1>1 DEF RunningInv
<1>4. GoneInv'
  <2>1. <<>> \in Seq(ToolLines)
    OBVIOUS
  <2>2. ChildReport(kind, <<>>) = NoReport
    BY <2>1, ToolsAreNotRead
  <2>3. ChildReport(kind, log)' = NoReport
    BY <1>1, <2>2
  <2>4. QED BY <1>1, <2>3, SilentExit
<1>5. QED BY <1>2, <1>3, <1>4 DEF IInv

LEMMA ReportPlanInv == ASSUME IInv, ReportPlan PROVE IInv'
<1>1. /\ pc = "running" /\ pc' = "gone" /\ kind' = kind /\ kind # "build" /\ cerr' = cerr
      /\ steps' = steps /\ ok' = ok /\ failExit' = failExit
  BY DEF ReportPlan
<1>2. PICK results \in Plans, before \in {<<>>} \cup {<<l>> : l \in Quoted},
           message \in {<<>>} \cup {<<l>> : l \in {q \in Quoted : q.t = "step"}} :
        /\ log' = PlanLog(log, before, results, message)
        /\ exit' = ExitOf(kind, FailErrorFor(results))
        /\ truth' = [truth EXCEPT ![Len(truth)] = results]
  BY DEF ReportPlan, PlanLog, LinesOf, Rollup
<1>3. /\ steps \in Seq(StepRecords) /\ truth \in Seq({Unknown} \cup Plans)
      /\ Len(truth) = Len(steps) + 1 /\ Len(steps) \in Nat /\ kind \in {"live", "guest"}
  <2>1. Len(truth) = Len(steps) + 1 /\ kind \in Kinds
    BY <1>1 DEF IInv, ShapeInv
  <2>2. steps \in Seq(StepRecords) /\ truth \in Seq({Unknown} \cup Plans)
    BY DEF IInv, ShapeInv
  <2>3. Len(steps) \in Nat
    BY <2>2
  <2>4. QED BY <1>1, <2>1, <2>2, <2>3 DEF Kinds
<1>4. /\ truth' \in Seq({Unknown} \cup Plans) /\ Len(truth') = Len(truth)
      /\ Last(truth)' = results
      /\ \A i \in 1..Len(steps) : truth'[i] = truth[i]
  <2>1. results \in {Unknown} \cup Plans
    OBVIOUS
  <2>2. Len(truth) \in 1..Len(truth)
    BY <1>3
  <2> HIDE DEF Unknown
  <2>3. truth' \in Seq({Unknown} \cup Plans) /\ Len(truth') = Len(truth)
    BY <1>2, <1>3, <2>1, <2>2
  <2>4. truth'[Len(truth)] = results
    BY <1>2, <1>3, <2>2
  <2>5. \A i \in 1..Len(steps) : truth'[i] = truth[i]
    BY <1>2, <1>3
  <2>6. QED BY <2>3, <2>4, <2>5 DEF Last
<1>5. ShapeInv'
  BY <1>1, <1>3, <1>4 DEF ShapeInv, Kinds
<1>6. RunningInv'
  BY <1>1 DEF RunningInv
<1>7. GoneInv'
  <2> DEFINE rep == ChildReport(kind, log)
  <2>1. log \in Seq(ToolLines) /\ ~cerr
    BY <1>1 DEF IInv, RunningInv
  <2>2. /\ ChildReport(kind, log').present
        /\ \/ ChildReport(kind, log').checks = <<>>
           \/ ChildReport(kind, log').checks = Printed(results)
    <3>1. LET read == ChildReport(kind, PlanLog(log, before, results, message))
          IN read.present /\ (read.checks = <<>> \/ read.checks = Printed(results))
      BY <1>3, <2>1, ChildIsRead
    <3>2. QED BY <1>2, <3>1, Zenon
  <2>3. rep'.present /\ (rep'.checks = <<>> \/ rep'.checks = Printed(results))
    BY <1>1, <2>2
  <2>4. /\ exit' \in {0, 1, 2} 
        /\ exit' = 0 => ~Failed(results)
    BY <1>2, ExitCodes, FailErrors
  <2>5. ~cerr'
    BY <1>1, <2>1
  <2> HIDE DEF rep
  <2>6. QED BY <1>4, <2>3, <2>4, <2>5 DEF GoneInv, rep
<1>8. RunInv'
  <2>1. RunInv /\ ok
    BY <1>1 DEF IInv, RunInv
  <2>2. QED BY <1>1, <1>4, <2>1, RunStays
<1>9. QED BY <1>5, <1>6, <1>7, <1>8 DEF IInv

-----------------------------------------------------------------------------
(* What the run records *)

\* One more step of the run.
LEMMA StepIsRecorded ==
    ASSUME IInv, pc = "gone", pc' \in {"idle", "ended"}, kind' = kind, truth' = truth,
           NEW s \in StepRecords, steps' = Append(steps, s), Recorded(s, Last(truth))
    PROVE  /\ ShapeInv'
           /\ (\A i \in 1..Len(steps) : Recorded(steps[i], truth[i]))'
           /\ s.ok => (\A i \in 1..Len(steps) : steps[i].ok)'
<1>1. /\ steps \in Seq(StepRecords) /\ truth \in Seq({Unknown} \cup Plans)
      /\ Len(truth) = Len(steps) + 1 /\ Len(steps) \in Nat /\ kind \in Kinds
  <2>1. Len(truth) = Len(steps) + 1 /\ kind \in Kinds
    BY DEF IInv, ShapeInv
  <2>2. steps \in Seq(StepRecords) /\ truth \in Seq({Unknown} \cup Plans)
    BY DEF IInv, ShapeInv
  <2>3. Len(steps) \in Nat
    BY <2>2
  <2>4. QED BY <2>1, <2>2, <2>3
<1>2. /\ steps' \in Seq(StepRecords) /\ Len(steps') = Len(steps) + 1
      /\ steps'[Len(steps) + 1] = s
      /\ \A i \in 1..Len(steps) : steps'[i] = steps[i]
  BY <1>1, AppendProperties
<1>3. ShapeInv'
  BY <1>1, <1>2 DEF ShapeInv
<1>4. ok /\ \A i \in 1..Len(steps) : Recorded(steps[i], truth[i]) /\ steps[i].ok
  BY DEF IInv, RunInv
<1>5. Recorded(s, truth[Len(steps) + 1])
  BY <1>1 DEF Last
<1>6. \A i \in 1..Len(steps') : i \in 1..Len(steps) \/ i = Len(steps) + 1
  BY <1>1, <1>2
<1>7. \A i \in 1..Len(steps') : Recorded(steps'[i], truth[i])
  BY <1>2, <1>4, <1>5, <1>6, Zenon
<1>8. s.ok => \A i \in 1..Len(steps') : steps'[i].ok
  BY <1>2, <1>4, <1>6
<1>9. (\A i \in 1..Len(steps) : Recorded(steps[i], truth[i]))'
  BY <1>7
<1>10. QED BY <1>3, <1>8, <1>9

LEMMA ReportChecks ==
    ASSUME IInv, pc = "gone"
    PROVE  /\ Last(truth) \in {Unknown} \cup Plans
           /\ ChildReport(kind, log).checks \in Seq(PlanLines)
<1>1. /\ truth \in Seq({Unknown} \cup Plans) /\ Len(truth) = Len(steps) + 1
      /\ Len(steps) \in Nat
  <2>1. steps \in Seq(StepRecords)
    BY DEF IInv, ShapeInv
  <2>2. Len(steps) \in Nat
    BY <2>1
  <2>3. QED BY <2>2 DEF IInv, ShapeInv
<1>2. Last(truth) \in {Unknown} \cup Plans
  BY <1>1 DEF Last
<1>3. \/ ChildReport(kind, log).checks = <<>>
      \/ ChildReport(kind, log).checks = Printed(Last(truth))
  BY DEF IInv, GoneInv
<1>4. Last(truth) \in Seq(Results)
  <2>1. <<>> \in Seq(Results)
    OBVIOUS
  <2>2. QED BY <1>2, <2>1, StepReportAssumption DEF Unknown
<1>5. Printed(Last(truth)) \in Seq(PlanLines)
  BY <1>4, ChecksOfLines
<1>6. <<>> \in Seq(PlanLines)
  OBVIOUS
<1>7. QED BY <1>2, <1>3, <1>5, <1>6

\* A check that is printed is one the plan made.
LEMMA PrintedIsFound ==
    ASSUME NEW results \in {Unknown} \cup Plans, NEW checks, NEW status,
           checks = <<>> \/ checks = Printed(results), Some(checks, status)
    PROVE  \E j \in DOMAIN results : results[j].check /\ results[j].status = status
<1>1. checks = Printed(results)
  <2>1. ~Some(<<>>, status)
    BY DEF Some
  <2>2. QED BY <2>1
<1>2. results \in Seq(Results)
  <2>1. <<>> \in Seq(Results)
    OBVIOUS
  <2>2. QED BY <2>1, StepReportAssumption DEF Unknown
<1>3. PICK i \in DOMAIN Printed(results) : Printed(results)[i].status = status
  BY <1>1 DEF Some
<1>4. QED BY <1>2, <1>3, ChecksOfLines

LEMMA RecordSkipInv == ASSUME IInv, RecordSkip PROVE IInv'
<1> DEFINE s == [ok |-> TRUE, skip |-> TRUE, checks |-> ChildReport(kind, log).checks]
<1>1. /\ pc = "gone" /\ pc' = "idle" /\ exit = 3 /\ kind' = kind /\ truth' = truth
      /\ steps' = Append(steps, s) /\ ok' = ok /\ failExit' = failExit
  BY DEF RecordSkip, CheckSkippedExitCode
<1>2. s \in StepRecords
  BY <1>1, ReportChecks DEF StepRecords
<1>3. s.ok /\ s.skip /\ s.checks = ChildReport(kind, log).checks
  OBVIOUS
<1> HIDE DEF s
<1>4. Recorded(s, Last(truth))
  <2>1. Last(truth) = Unknown /\ (s.checks = <<>> \/ s.checks = Printed(Last(truth)))
    BY <1>1, <1>3 DEF IInv, GoneInv
  <2>2. ~Failed(<<>>)
    BY DEF Failed
  <2>3. QED BY <1>3, <2>1, <2>2 DEF Recorded, Unknown
<1>5. /\ ShapeInv'
      /\ (\A i \in 1..Len(steps) : Recorded(steps[i], truth[i]))'
      /\ s.ok => (\A i \in 1..Len(steps) : steps[i].ok)'
  BY <1>1, <1>2, <1>4, StepIsRecorded
<1>6. RunningInv' /\ GoneInv'
  BY <1>1 DEF RunningInv, GoneInv
<1>7. RunInv'
  <2>1. ok /\ failExit = 0
    BY <1>1 DEF IInv, RunInv
  <2>2. QED BY <1>1, <1>3, <1>5, <2>1 DEF RunInv
<1>8. QED BY <1>5, <1>6, <1>7 DEF IInv

LEMMA RecordStepInv == ASSUME IInv, RecordStep PROVE IInv'
<1> DEFINE rep == ChildReport(kind, log)
           clean == ~cerr /\ exit = 0 /\ ~DiagnosticsFail(log)
           verdict == CheckReportVerdict(rep)
           passed == clean /\ verdict # "FAIL"
           s == [ok |-> passed, skip |-> clean /\ verdict = "SKIP", checks |-> rep.checks]
<1>1. /\ pc = "gone" /\ exit # 3 /\ kind' = kind /\ truth' = truth
      /\ log' = log /\ exit' = exit /\ cerr' = cerr
      /\ steps' = Append(steps, s) /\ ok' = (ok /\ passed)
      /\ pc' = IF passed THEN "idle" ELSE "ended"
      /\ failExit' = IF passed \/ failExit # 0 THEN failExit
                     ELSE IF cerr THEN 1
                     ELSE IF exit # 0 THEN exit ELSE CheckFailExitCode
  BY DEF RecordStep, CheckSkippedExitCode
<1>2. s \in StepRecords
  <2>1. rep.checks \in Seq(PlanLines)
    BY <1>1, ReportChecks
  <2>2. passed \in BOOLEAN /\ (clean /\ verdict = "SKIP") \in BOOLEAN
    OBVIOUS
  <2> HIDE DEF passed, clean, verdict, rep
  <2>3. QED BY <2>1, <2>2 DEF StepRecords
<1>3. /\ s.ok <=> passed
      /\ s.skip <=> (clean /\ verdict = "SKIP")
      /\ s.checks = rep.checks
  <2> HIDE DEF passed, clean, verdict, rep
  <2>1. QED OBVIOUS
<1> HIDE DEF s
<1>4. /\ exit \in 0..3 /\ (cerr => exit = 0)
      /\ rep.readable => rep.present
      /\ rep.checks = <<>> \/ rep.checks = Printed(Last(truth))
      /\ Last(truth) # Unknown /\ exit = 0 /\ ~cerr => rep.present /\ ~Failed(Last(truth))
  BY <1>1 DEF IInv, GoneInv
<1>5. Last(truth) \in {Unknown} \cup Plans
  BY <1>1, ReportChecks
<1>6. passed => clean /\ verdict # "FAIL"
  OBVIOUS
<1>7. clean => ~cerr /\ exit = 0
  OBVIOUS
<1>8. verdict = "FAIL" => Some(rep.checks, "FAIL")
  <2> HIDE DEF rep
  <2>1. QED BY <1>4 DEF CheckReportVerdict
<1>9. verdict \notin {"FAIL", "SKIP"} => ~rep.present \/ Some(rep.checks, "PASS")
  <2> HIDE DEF rep
  <2>1. QED BY <1>4 DEF CheckReportVerdict
<1> HIDE DEF rep, clean, verdict, passed
<1>12. Recorded(s, Last(truth))
  <2>1. s.ok => ~Failed(Last(truth))
    <3>1. ~Failed(<<>>)
      BY DEF Failed
    <3>2. QED BY <1>3, <1>4, <1>6, <1>7, <3>1 DEF Unknown
  <2>2. ASSUME Last(truth) # Unknown, s.ok, ~s.skip
        PROVE  Proved(Last(truth))
    <3>1. clean /\ verdict \notin {"FAIL", "SKIP"}
      BY <1>3, <1>6, <2>2
    <3>2. rep.present
      BY <1>4, <1>7, <2>2, <3>1
    <3>3. Some(rep.checks, "PASS")
      BY <1>9, <3>1, <3>2
    <3>4. QED BY <1>4, <1>5, <3>3, PrintedIsFound DEF Proved
  <2>3. QED BY <1>3, <1>4, <2>1, <2>2 DEF Recorded
<1>13. /\ ShapeInv'
       /\ (\A i \in 1..Len(steps) : Recorded(steps[i], truth[i]))'
       /\ s.ok => (\A i \in 1..Len(steps) : steps[i].ok)'
  BY <1>1, <1>2, <1>12, StepIsRecorded
<1>14. RunningInv' /\ GoneInv'
  BY <1>1 DEF RunningInv, GoneInv
<1>15. ok /\ failExit = 0
  BY <1>1 DEF IInv, RunInv
<1>16. RunInv'
  <2>1. CASE passed
    BY <1>1, <1>3, <1>13, <1>15, <2>1 DEF RunInv
  <2>2. CASE ~passed
    <3>1. ~ok' /\ pc' = "ended"
      BY <1>1, <2>2
    <3>2. QED BY <1>13, <3>1 DEF RunInv
  <2>3. QED BY <2>1, <2>2
<1>17. QED BY <1>13, <1>14, <1>16 DEF IInv

LEMMA EndRunInv == ASSUME IInv, EndRun PROVE IInv'
<1>1. /\ pc = "idle" /\ pc' = "ended" /\ kind' = kind
      /\ steps' = steps /\ truth' = truth /\ ok' = ok /\ failExit' = failExit
  BY DEF EndRun
<1>2. ShapeInv'
  BY <1>1 DEF IInv, ShapeInv
<1>3. RunInv'
  <2>1. RunInv /\ ok
    BY <1>1 DEF IInv, RunInv
  <2>2. QED BY <1>1, <2>1, RunStays
<1>4. QED BY <1>1, <1>2, <1>3 DEF IInv, RunningInv, GoneInv

LEMMA StutterInv == ASSUME IInv, UNCHANGED vars PROVE IInv'
BY DEF IInv, ShapeInv, RunningInv, GoneInv, RunInv, vars

THEOREM StepReportInvariant == Spec => []IInv
<1>1. Init => IInv
  BY InitInv
<1>2. IInv /\ [Next]_vars => IInv'
  <2> SUFFICES ASSUME IInv, [Next]_vars PROVE IInv'
    OBVIOUS
  <2>1. CASE Launch          BY <2>1, LaunchInv
  <2>2. CASE RunTool         BY <2>2, RunToolInv
  <2>3. CASE PrintQuotation  BY <2>3, PrintQuotationInv
  <2>4. CASE BuildExits      BY <2>4, BuildExitsInv
  <2>5. CASE ResolveNothing  BY <2>5, SilentCheckInv
  <2>6. CASE CheckCannotRun  BY <2>6, SilentCheckInv
  <2>7. CASE ReportPlan      BY <2>7, ReportPlanInv
  <2>8. CASE LoseReply       BY <2>8, LoseReplyInv
  <2>9. CASE RecordSkip      BY <2>9, RecordSkipInv
  <2>10. CASE RecordStep     BY <2>10, RecordStepInv
  <2>11. CASE EndRun         BY <2>11, EndRunInv
  <2>12. CASE UNCHANGED vars BY <2>12, StutterInv
  <2>13. QED BY <2>1, <2>2, <2>3, <2>4, <2>5, <2>6, <2>7, <2>8, <2>9, <2>10, <2>11, <2>12
            DEF Next
<1>3. QED BY <1>1, <1>2, PTL DEF Spec

-----------------------------------------------------------------------------
(* The properties *)

LEMMA Steps ==
    ASSUME IInv
    PROVE  /\ DOMAIN steps = 1..Len(steps) /\ DOMAIN truth = 1..Len(truth)
           /\ Len(steps) \in Nat
           /\ pc = "ended" => Len(truth) = Len(steps)
           /\ \A i \in 1..Len(steps) : i \in 1..Len(truth) /\ truth[i] \in {Unknown} \cup Plans
<1>1. steps \in Seq(StepRecords) /\ truth \in Seq({Unknown} \cup Plans)
  BY DEF IInv, ShapeInv
<1>2. /\ DOMAIN steps = 1..Len(steps) /\ DOMAIN truth = 1..Len(truth)
      /\ Len(steps) \in Nat /\ Len(truth) \in Nat
      /\ \A i \in 1..Len(truth) : truth[i] \in {Unknown} \cup Plans
  BY <1>1
<1>3. Len(truth) = IF pc \in {"running", "gone"} THEN Len(steps) + 1 ELSE Len(steps)
  BY DEF IInv, ShapeInv
<1>4. \A i \in 1..Len(steps) : i \in 1..Len(truth)
  BY <1>2, <1>3
<1>5. QED BY <1>2, <1>3, <1>4

\* A run that says PASS proved something, and nothing any plan asserted failed (stepEnv,
\* childReport, checkReportVerdict and runPassedChecks): the exit code and the report
\* of a child agree with its plan, and no line that only looks like a report is read as one.
THEOREM PassProvesSomething == Spec => []NoFalsePass
<1>1. IInv => NoFalsePass
  <2> SUFFICES ASSUME IInv PROVE NoFalsePass
    OBVIOUS
  <2>1. \A i \in 1..Len(steps) : Recorded(steps[i], truth[i])
    BY DEF IInv, RunInv
  <2>2. ASSUME pc = "ended", RunStatus = "PASS"
        PROVE  Found("PASS") /\ ~Found("FAIL") /\ ~Found("INFRA")
    <3>1. ok /\ \E i \in DOMAIN steps : Some(steps[i].checks, "PASS")
      BY <2>2 DEF RunStatus
    <3>2. PICK i \in 1..Len(steps) : Some(steps[i].checks, "PASS")
      BY <3>1, Steps
    <3>3. \E j \in DOMAIN truth[i] : truth[i][j].check /\ truth[i][j].status = "PASS"
      <4>1. steps[i].checks = <<>> \/ steps[i].checks = Printed(truth[i])
        BY <2>1 DEF Recorded
      <4>2. truth[i] \in {Unknown} \cup Plans
        BY Steps
      <4>3. QED BY <3>2, <4>1, <4>2, PrintedIsFound
    <3>4. Found("PASS")
      BY <3>3, Steps DEF Found
    <3>5. \A k \in DOMAIN truth : ~Failed(truth[k])
      <4>1. \A k \in 1..Len(steps) : steps[k].ok
        BY <3>1 DEF IInv, RunInv
      <4>2. DOMAIN truth = 1..Len(steps)
        BY <2>2, Steps
      <4>3. QED BY <2>1, <4>1, <4>2 DEF Recorded
    <3>6. ~Found("FAIL") /\ ~Found("INFRA")
      BY <3>5 DEF Found, Failed
    <3>7. QED BY <3>4, <3>6
  <2>3. ASSUME NEW i \in DOMAIN steps, truth[i] # Unknown, StepStatus(steps[i]) = "PASS"
        PROVE  \E j \in DOMAIN truth[i] : truth[i][j].check /\ truth[i][j].status = "PASS"
    <3>1. i \in 1..Len(steps)
      BY Steps
    <3>2. steps[i].ok /\ ~steps[i].skip
      BY <2>3 DEF StepStatus
    <3>3. Proved(truth[i])
      BY <2>1, <2>3, <3>1, <3>2 DEF Recorded
    <3>4. QED BY <3>3 DEF Proved
  <2>4. QED BY <2>2, <2>3 DEF NoFalsePass
<1>2. QED BY <1>1, StepReportInvariant, PTL

\* What is recorded of a step's checks is what its plan found, check by check, or nothing
\* (parseCheckReport reads the block that counts what its rollup says).
THEOREM RecordsAreReports == Spec => []RecordIsTheReport
<1>1. IInv => RecordIsTheReport
  <2> SUFFICES ASSUME IInv, NEW i \in DOMAIN steps
               PROVE  \/ steps[i].checks = <<>>
                      \/ steps[i].checks = Printed(truth[i])
    BY DEF RecordIsTheReport, Printed
  <2>1. i \in 1..Len(steps)
    BY Steps
  <2>2. Recorded(steps[i], truth[i])
    BY <2>1 DEF IInv, RunInv
  <2>3. QED BY <2>2 DEF Recorded
<1>2. QED BY <1>1, StepReportInvariant, PTL

-----------------------------------------------------------------------------
(* The class of the outcome *)

\* What a child really did, its exit code and the plan it ran agree.
ChildInv ==
    /\ fate \in Fates
    /\ cerr => exit = 0
    /\ fate # "reported" => Last(truth) = Unknown
    /\ ~cerr =>
          /\ fate # "none"
          /\ fate = "built" => exit = 0
          /\ fate = "broken" => exit = 1
          /\ fate = "empty" => exit = IF kind = "guest" THEN 1 ELSE 3
          /\ fate = "reported" => exit = FailErrorFor(Last(truth))

\* What the run makes of it: the step passes, or it ends the run with its code.
JudgedInv ==
    /\ steps[Len(steps)].ok <=> ok
    /\ ok <=> ~cerr /\ (exit = 3 \/ (exit = 0 /\ ~DiagnosticsFail(log)))
    /\ ~ok => failExit = IF cerr THEN 1 ELSE IF exit # 0 THEN exit ELSE 2

ClassInv ==
    /\ pc = "running" => fate = "none"
    /\ pc = "gone" => ChildInv
    /\ pc \in {"idle", "ended"} /\ steps # <<>> => ChildInv /\ JudgedInv
    /\ pc = "ended" => steps # <<>>

LEMMA ClassInvInit == ASSUME Init PROVE ClassInv
BY DEF Init, ClassInv

LEMMA GuestExits ==
    ASSUME NEW k \in Kinds
    PROVE  /\ ExitOf(k, 3) = IF k = "guest" THEN 1 ELSE 3
           /\ \A results : ExitOf(k, FailErrorFor(results)) = FailErrorFor(results)
<1>1. \A results : FailErrorFor(results) \in {0, 1, 2}
  BY FailErrors
<1>2. QED BY <1>1 DEF ExitOf, GuestExit, CheckFailExitCode

LEMMA ReportClass == ASSUME IInv, ClassInv, ReportPlan PROVE ClassInv'
<1>1. /\ pc = "running" /\ pc' = "gone" /\ kind' = kind /\ cerr' = cerr
      /\ fate' = "reported"
  BY DEF ReportPlan
<1>2. PICK results \in Plans :
        /\ exit' = ExitOf(kind, FailErrorFor(results))
        /\ truth' = [truth EXCEPT ![Len(truth)] = results]
  BY DEF ReportPlan
<1>3. truth \in Seq({Unknown} \cup Plans) /\ Len(truth) = Len(steps) + 1
      /\ steps \in Seq(StepRecords) /\ kind \in Kinds
  BY <1>1 DEF IInv, ShapeInv
<1>4. Last(truth') = results
  <2>1. Len(truth) \in 1..Len(truth)
    BY <1>3
  <2>2. Len(truth') = Len(truth) /\ truth'[Len(truth)] = results
    BY <1>2, <1>3, <2>1
  <2>3. QED BY <2>2 DEF Last
<1>5. exit' = FailErrorFor(results)
  BY <1>2, <1>3, GuestExits
<1>6. ~cerr
  BY <1>1 DEF IInv, RunningInv
<1>7. ChildInv'
  BY <1>1, <1>4, <1>5, <1>6 DEF ChildInv, Fates
<1>8. QED BY <1>1, <1>7 DEF ClassInv

LEMMA RecordClass == ASSUME IInv, ClassInv, RecordStep PROVE ClassInv'
<1> DEFINE rep == ChildReport(kind, log)
           clean == ~cerr /\ exit = 0 /\ ~DiagnosticsFail(log)
           verdict == CheckReportVerdict(rep)
           passed == clean /\ verdict # "FAIL"
           s == [ok |-> passed, skip |-> clean /\ verdict = "SKIP", checks |-> rep.checks]
<1>1. /\ pc = "gone" /\ exit # 3 /\ kind' = kind /\ truth' = truth /\ fate' = fate
      /\ log' = log /\ exit' = exit /\ cerr' = cerr
      /\ steps' = Append(steps, s) /\ ok' = (ok /\ passed)
      /\ pc' = IF passed THEN "idle" ELSE "ended"
      /\ failExit' = IF passed \/ failExit # 0 THEN failExit
                     ELSE IF cerr THEN 1
                     ELSE IF exit # 0 THEN exit ELSE CheckFailExitCode
  BY DEF RecordStep, CheckSkippedExitCode
<1>2. s.ok <=> passed
  <2> HIDE DEF passed, clean, verdict, rep
  <2>1. QED OBVIOUS
<1> HIDE DEF s
<1>3. /\ rep.readable => rep.present
      /\ rep.checks = <<>> \/ rep.checks = Printed(Last(truth))
      /\ Last(truth) # Unknown /\ exit = 0 /\ ~cerr => rep.present /\ ~Failed(Last(truth))
  BY <1>1 DEF IInv, GoneInv
<1>4. clean => verdict # "FAIL"
  <2>0. SUFFICES ASSUME clean, verdict = "FAIL" PROVE FALSE
    OBVIOUS
  <2>1. Some(rep.checks, "FAIL")
    <3> HIDE DEF rep
    <3>1. QED BY <1>3, <2>0 DEF CheckReportVerdict
  <2>2. Last(truth) \in {Unknown} \cup Plans
    BY <1>1, ReportChecks
  <2> HIDE DEF rep
  <2>3. \E j \in DOMAIN Last(truth) :
           Last(truth)[j].check /\ Last(truth)[j].status = "FAIL"
    BY <1>3, <2>1, <2>2, PrintedIsFound
  <2>4. Last(truth) # Unknown
    BY <2>3 DEF Unknown
  <2>5. ~Failed(Last(truth))
    BY <1>3, <2>0, <2>4
  <2>6. QED BY <2>3, <2>5 DEF Failed
<1>5. passed <=> clean
  BY <1>4
<1> HIDE DEF passed
<1>6. ok /\ failExit = 0
  BY <1>1 DEF IInv, RunInv
<1>7. steps \in Seq(StepRecords)
  BY DEF IInv, ShapeInv
<1>8. steps' # <<>> /\ steps'[Len(steps')] = s
  BY <1>1, <1>7
<1>9. ChildInv'
  BY <1>1 DEF ClassInv, ChildInv
<1>10. JudgedInv'
  <2>1. ok' <=> clean
    BY <1>1, <1>5, <1>6
  <2>2. DiagnosticsFail(log)' <=> DiagnosticsFail(log)
    BY <1>1
  <2>3. (steps[Len(steps)].ok <=> ok)'
    BY <1>2, <1>5, <1>8, <2>1
  <2>4. ~ok' => failExit' = IF cerr THEN 1 ELSE IF exit # 0 THEN exit ELSE 2
    BY <1>1, <1>5, <1>6, <2>1 DEF CheckFailExitCode
  <2>5. QED BY <1>1, <2>1, <2>2, <2>3, <2>4 DEF JudgedInv
<1>11. QED BY <1>1, <1>8, <1>9, <1>10 DEF ClassInv

LEMMA SkipClass == ASSUME IInv, ClassInv, RecordSkip PROVE ClassInv'
<1> DEFINE s == [ok |-> TRUE, skip |-> TRUE, checks |-> ChildReport(kind, log).checks]
<1>1. /\ pc = "gone" /\ pc' = "idle" /\ exit = 3 /\ steps' = Append(steps, s)
      /\ UNCHANGED <<kind, log, exit, fate, cerr, ok, failExit, truth>>
  BY DEF RecordSkip, CheckSkippedExitCode
<1>2. s.ok
  OBVIOUS
<1> HIDE DEF s
<1>3. ok
  BY <1>1 DEF IInv, RunInv
<1>4. steps \in Seq(StepRecords)
  BY DEF IInv, ShapeInv
<1>5. steps' # <<>> /\ steps'[Len(steps')] = s
  BY <1>1, <1>4
<1>6. ChildInv' /\ ~cerr
  BY <1>1 DEF ClassInv, ChildInv
<1>7. JudgedInv'
  BY <1>1, <1>2, <1>3, <1>5, <1>6 DEF JudgedInv
<1>8. QED BY <1>1, <1>5, <1>6, <1>7 DEF ClassInv

LEMMA ClassInvStep == ASSUME IInv, ClassInv, [Next]_vars PROVE ClassInv'
<1>1. CASE Launch
  BY <1>1 DEF Launch, ClassInv
<1>2. CASE RunTool \/ PrintQuotation
  BY <1>2 DEF RunTool, PrintQuotation, ClassInv
<1>3. CASE BuildExits
  <2>1. /\ pc = "running" /\ pc' = "gone" /\ exit' \in {0, 1} /\ cerr' = cerr
        /\ fate' = IF exit' = 0 THEN "built" ELSE "broken"
        /\ truth' = truth
    BY <1>3 DEF BuildExits
  <2>2. ~cerr /\ Last(truth) = Unknown
    BY <2>1 DEF IInv, RunningInv
  <2>3. ChildInv'
    BY <2>1, <2>2 DEF ChildInv, Fates
  <2>4. QED BY <2>1, <2>3 DEF ClassInv
<1>4. CASE ResolveNothing
  <2>1. /\ pc = "running" /\ pc' = "gone" /\ exit' = ExitOf(kind, 3) /\ cerr' = cerr
        /\ fate' = "empty" /\ truth' = truth /\ kind' = kind
    BY <1>4 DEF ResolveNothing, CheckSkippedExitCode
  <2>2. ~cerr /\ Last(truth) = Unknown /\ kind \in Kinds
    BY <2>1 DEF IInv, RunningInv, ShapeInv
  <2>3. exit' = IF kind = "guest" THEN 1 ELSE 3
    BY <2>1, <2>2, GuestExits
  <2>4. ChildInv'
    BY <2>1, <2>2, <2>3 DEF ChildInv, Fates
  <2>5. QED BY <2>1, <2>4 DEF ClassInv
<1>5. CASE CheckCannotRun
  <2>1. /\ pc = "running" /\ pc' = "gone" /\ exit' = 1 /\ cerr' = cerr
        /\ fate' = "broken" /\ truth' = truth
    BY <1>5 DEF CheckCannotRun
  <2>2. ~cerr /\ Last(truth) = Unknown
    BY <2>1 DEF IInv, RunningInv
  <2>3. ChildInv'
    BY <2>1, <2>2 DEF ChildInv, Fates
  <2>4. QED BY <2>1, <2>3 DEF ClassInv
<1>6. CASE ReportPlan
  BY <1>6, ReportClass
<1>7. CASE LoseReply
  <2>1. /\ pc \in {"running", "gone"} /\ pc' = "gone" /\ exit' = 0 /\ cerr' = TRUE
        /\ fate' = fate /\ truth' = truth
    BY <1>7 DEF LoseReply
  <2>2. fate \in Fates /\ (fate # "reported" => Last(truth) = Unknown)
    <3>1. CASE pc = "running"
      BY <3>1 DEF ClassInv, IInv, RunningInv, Fates
    <3>2. CASE pc = "gone"
      BY <3>2 DEF ClassInv, ChildInv
    <3>3. QED BY <2>1, <3>1, <3>2
  <2>3. ChildInv'
    BY <2>1, <2>2 DEF ChildInv
  <2>4. QED BY <2>1, <2>3 DEF ClassInv
<1>8. CASE RecordSkip
  BY <1>8, SkipClass
<1>9. CASE RecordStep
  BY <1>9, RecordClass
<1>10. CASE EndRun
  BY <1>10 DEF EndRun, ClassInv, ChildInv, JudgedInv
<1>11. CASE UNCHANGED vars
  BY <1>11 DEF vars, ClassInv, ChildInv, JudgedInv
<1>12. QED BY <1>1, <1>2, <1>3, <1>4, <1>5, <1>6, <1>7, <1>8, <1>9, <1>10, <1>11 DEF Next

THEOREM ClassInvariant == Spec => []ClassInv
<1>1. IInv /\ ClassInv /\ [Next]_vars => ClassInv'
  BY ClassInvStep
<1>2. QED BY <1>1, ClassInvInit, StepReportInvariant, PTL DEF Spec

\* The exit code of the run and the outcome of its last child name each other
\* (bedRunOutcomeError): 2 for a failed check or an error left in a log, 1 for what could not
\* run and for a guest that had nothing to check, 3 where nothing failed and nothing passed.
THEOREM ExitNamesTheClass == Spec => []ExitTellsTheClass
<1>1. IInv /\ ClassInv => ExitTellsTheClass
  <2> SUFFICES ASSUME IInv, ClassInv, pc = "ended" PROVE ExitTellsTheClass
    BY DEF ExitTellsTheClass
  <2>1. ChildInv /\ JudgedInv
    BY DEF ClassInv
  <2>2. /\ RunExit = 2 <=> ~ok /\ failExit = 2
        /\ RunExit = 1 <=> ~ok /\ failExit # 2
        /\ RunExit = 3 <=> ok /\ RunStatus = "SKIP"
    BY DEF RunExit, CheckFailExitCode, CheckSkippedExitCode
  <2> DEFINE failed == Some(Last(truth), "FAIL")
             infra == fate = "reported" /\ Some(Last(truth), "INFRA") /\ ~failed
             left == exit = 0 /\ DiagnosticsFail(log)
             code == FailErrorFor(Last(truth))
  <2>3. /\ code = 2 <=> failed
        /\ code = 1 <=> Some(Last(truth), "INFRA") /\ ~failed
        /\ code \in {0, 1, 2}
    BY DEF FailErrorFor, CheckFailExitCode
  <2>4. fate # "reported" => ~failed /\ ~infra
    <3>1. ~Some(<<>>, "FAIL")
      BY DEF Some
    <3>2. QED BY <2>1, <3>1 DEF ChildInv, Unknown
  <2>5. FailedACheck <=> ~cerr /\ (failed \/ left)
    BY DEF FailedACheck
  <2>6. CouldNotRun <=> cerr \/ fate = "broken" \/ infra
    BY DEF CouldNotRun
  <2>7. GuestHadNothing <=> ~cerr /\ kind = "guest" /\ fate = "empty"
    BY DEF GuestHadNothing
  <2>8. ~cerr => (exit = 2 <=> failed)
               /\ (exit = 1 <=> fate = "broken" \/ infra \/ (kind = "guest" /\ fate = "empty"))
               /\ exit \in {0, 1, 2, 3}
    <3>1. ~cerr /\ fate = "reported" => exit = code
      BY <2>1 DEF ChildInv
    <3> HIDE DEF failed, code
    <3>2. QED BY <2>1, <2>3, <2>4, <3>1 DEF ChildInv, Fates
  <2> HIDE DEF failed, infra, left, code
  <2>9. ~ok <=> cerr \/ (exit # 3 /\ (exit # 0 \/ left))
    BY <2>1, <2>8 DEF JudgedInv, ChildInv, left
  <2>10. ~ok => failExit = IF cerr THEN 1 ELSE IF exit # 0 THEN exit ELSE 2
    BY <2>1 DEF JudgedInv
  <2>11. left => exit = 0
    BY DEF left
  <2>12. RunExit = 2 <=> FailedACheck
    BY <2>2, <2>5, <2>8, <2>9, <2>10, <2>11
  <2>13. RunExit = 1 <=> CouldNotRun \/ GuestHadNothing
    BY <2>2, <2>6, <2>7, <2>8, <2>9, <2>10, <2>11
  <2>14. ASSUME ~FailedACheck, ~CouldNotRun, ~GuestHadNothing, ~Found("PASS")
         PROVE  RunExit = 3
    <3>1. ok
      BY <2>5, <2>6, <2>7, <2>8, <2>9, <2>14
    <3>2. ASSUME NEW i \in DOMAIN steps, Some(steps[i].checks, "PASS")
          PROVE  FALSE
      <4>1. i \in 1..Len(steps)
        BY Steps
      <4>2. steps[i].checks = <<>> \/ steps[i].checks = Printed(truth[i])
        BY <4>1 DEF IInv, RunInv, Recorded
      <4>3. truth[i] \in {Unknown} \cup Plans /\ i \in DOMAIN truth
        BY <4>1, Steps
      <4>4. \E j \in DOMAIN truth[i] : truth[i][j].check /\ truth[i][j].status = "PASS"
        BY <3>2, <4>2, <4>3, PrintedIsFound
      <4>5. QED BY <2>14, <4>3, <4>4 DEF Found
    <3>3. RunStatus = "SKIP"
      BY <3>1, <3>2 DEF RunStatus
    <3>4. QED BY <2>2, <3>1, <3>3
  <2>15. ASSUME RunExit = 3
         PROVE  ~Found("FAIL") /\ ~Found("INFRA")
    <3>1. ok
      BY <2>2, <2>15
    <3>2. ASSUME NEW i \in DOMAIN truth
          PROVE  ~Failed(truth[i])
      <4>1. i \in 1..Len(steps)
        BY <3>2, Steps
      <4>2. steps[i].ok /\ Recorded(steps[i], truth[i])
        BY <3>1, <4>1 DEF IInv, RunInv
      <4>3. QED BY <4>2 DEF Recorded
    <3>3. QED BY <3>2 DEF Found, Failed
  <2>16. QED BY <2>12, <2>13, <2>14, <2>15
            DEF ExitTellsTheClass, CheckFailExitCode, CheckSkippedExitCode
<1>2. QED BY <1>1, StepReportInvariant, ClassInvariant, PTL

-----------------------------------------------------------------------------
(* What answers for an error *)

\* The pattern of a chain has one match, and the match has one end.
LEMMA OneEnd ==
    ASSUME NEW T, NEW text \in Seq(T), NEW a, NEW k \in DOMAIN text, NEW m \in DOMAIN text,
           ChainEnds(a, text, k), ChainEnds(a, text, m)
    PROVE  k = m
<1>1. DOMAIN text = 1..Len(text) /\ Len(text) \in Nat /\ k \in Nat /\ m \in Nat
  OBVIOUS
<1>2. PICK r \in 1..(k - 1) :
        /\ Refused(a, text, r, k)
        /\ \A s \in 1..(r - 1) : \A e \in DOMAIN text : ~Refused(a, text, s, e)
        /\ \A e \in (k + 1)..Len(text) : ~Refused(a, text, r, e)
  BY DEF ChainEnds
<1>3. PICK q \in 1..(m - 1) :
        /\ Refused(a, text, q, m)
        /\ \A s \in 1..(q - 1) : \A e \in DOMAIN text : ~Refused(a, text, s, e)
        /\ \A e \in (m + 1)..Len(text) : ~Refused(a, text, q, e)
  BY DEF ChainEnds
<1>4. r = q
  <2>1. r \in Nat /\ q \in Nat /\ r >= 1 /\ q >= 1
    BY <1>1
  <2>2. ~(r < q)
    BY <1>1, <1>2, <1>3, <2>1
  <2>3. ~(q < r)
    BY <1>1, <1>2, <1>3, <2>1
  <2>4. QED BY <2>1, <2>2, <2>3
<1>5. ~(k < m)
  BY <1>1, <1>2, <1>3, <1>4
<1>6. ~(m < k)
  BY <1>1, <1>2, <1>3, <1>4
<1>7. QED BY <1>1, <1>5, <1>6

\* An error that an entry claims is recovered, or it ends the chain of an entry.
LEMMA ClaimsAreAnswered ==
    ASSUME NEW text, NEW k \in DOMAIN text, text[k].t = "error", Claimed(text, k),
           ~Recovered(text, k)
    PROVE  \E a \in Allowlist : a.endsOnLine /\ ChainEnds(a, text, k)
<1>1. PICK a \in Allowlist : MatchAt(a, text[k]) /\ AllowanceRecovered(a, text, k)
  BY DEF Claimed
<1>2. a.recoveredBy # ""
  BY <1>1, AllowlistAssumption DEF MatchAt
<1>3. a.tied \in BOOLEAN /\ a.endsOnLine \in BOOLEAN
  BY StepReportAssumption, Zenon
<1>4. ASSUME ~a.endsOnLine
      PROVE  FALSE
  <2>1. PICK j \in DOMAIN text : ProofAt(a, text[j]) /\ (a.tied => text[j].of = text[k].of)
    BY <1>1, <1>2, <1>4, Zenon DEF AllowanceRecovered
  <2>2. CASE a.tied
    BY <2>1, <2>2 DEF Recovered, ProofAt
  <2>3. CASE ~a.tied
    BY <1>1, <1>4, <2>1, <2>3 DEF Recovered
  <2>4. QED BY <2>2, <2>3
<1>5. QED BY <1>1, <1>2, <1>3, <1>4, Zenon DEF AllowanceRecovered

OtherLines == Quoted \cup PlanLines \cup {Rollup(n) : n \in Nat}
Lines == ToolLines \cup OtherLines

\* A report is a sequence of lines.
LEMMA ReportIsLog ==
    ASSUME NEW pre \in Seq(Lines), NEW results \in Plans,
           NEW before \in {<<>>} \cup {<<l>> : l \in Quoted},
           NEW message \in {<<>>} \cup {<<l>> : l \in {q \in Quoted : q.t = "step"}}
    PROVE  PlanLog(pre, before, results, message) \in Seq(Lines)
<1>1. before \in Seq(Lines) /\ message \in Seq(Lines)
  <2>1. <<>> \in Seq(Lines)
    OBVIOUS
  <2>2. ASSUME NEW l \in Quoted
        PROVE  <<l>> \in Seq(Lines)
    <3>1. l \in Lines
      BY DEF Lines, OtherLines
    <3>2. QED BY <3>1
  <2>3. QED BY <2>1, <2>2
<1>2. results \in Seq(Results)
  BY StepReportAssumption
<1>3. LinesOf(results) \in Seq(Lines)
  <2>1. LinesOf(results) \in Seq(PlanLines)
    BY <1>2 DEF LinesOf, PlanLines
  <2>2. QED BY <2>1 DEF Lines, OtherLines
<1>4. <<Rollup(Len(results))>> \in Seq(Lines)
  <2>1. Rollup(Len(results)) \in Lines
    BY <1>2 DEF Lines, OtherLines
  <2>2. QED BY <2>1
<1> DEFINE one == LinesOf(results)
           two == <<Rollup(Len(results))>>
<1>5. one \in Seq(Lines) /\ two \in Seq(Lines)
  BY <1>3, <1>4
<1>6. PlanLog(pre, before, results, message) = pre \o before \o one \o message \o two
  BY DEF PlanLog
<1> HIDE DEF one, two
<1>7. QED BY <1>1, <1>5, <1>6

LogInv == log \in Seq(Lines)

LEMMA LogInvInit == ASSUME Init PROVE LogInv
BY DEF Init, LogInv

LEMMA LogInvStep == ASSUME LogInv, [Next]_vars PROVE LogInv'
<1> USE DEF LogInv
<1>1. CASE Launch
  BY <1>1 DEF Launch
<1>2. CASE RunTool
  <2>1. PICK out \in ToolOutputs : log' = log \o out
    BY <1>2 DEF RunTool
  <2>2. out \in Seq(Range(out)) /\ Range(out) \subseteq Lines
    BY StepReportAssumption DEF ToolLines, Lines
  <2>3. out \in Seq(Lines)
    BY <2>2
  <2>4. QED BY <2>1, <2>3
<1>3. CASE PrintQuotation
  <2>1. PICK l \in Quoted : log' = Append(log, l)
    BY <1>3 DEF PrintQuotation
  <2>2. l \in Lines
    BY DEF Lines, OtherLines
  <2>3. QED BY <2>1, <2>2
<1>4. CASE ReportPlan
  <2>1. PICK results \in Plans, before \in {<<>>} \cup {<<l>> : l \in Quoted},
             message \in {<<>>} \cup {<<l>> : l \in {q \in Quoted : q.t = "step"}} :
             log' = PlanLog(log, before, results, message)
    BY <1>4 DEF ReportPlan, PlanLog, LinesOf, Rollup
  <2>2. PlanLog(log, before, results, message) \in Seq(Lines)
    BY ReportIsLog
  <2>3. QED BY <2>1, <2>2
<1>5. CASE LoseReply
  BY <1>5 DEF LoseReply
<1>6. CASE BuildExits \/ ResolveNothing \/ CheckCannotRun \/ RecordSkip \/ RecordStep \/ EndRun
  BY <1>6 DEF BuildExits, ResolveNothing, CheckCannotRun, RecordSkip, RecordStep, EndRun
<1>7. CASE UNCHANGED vars
  BY <1>7 DEF vars
<1>8. QED BY <1>1, <1>2, <1>3, <1>4, <1>5, <1>6, <1>7 DEF Next

\* The errors of a step that passed under a zero exit code are answered for (stepEnv,
\* scanStepDiagnostics, allowanceClaiming): each by its own recovery, by an entry whose proof
\* names nobody, or by the refusal of a hook that answers for no other error.
THEOREM ErrorsAreAnswered == Spec => []ErrorsAnswered
<1>1. IInv /\ ClassInv /\ LogInv => ErrorsAnswered
  <2> DEFINE left == {k \in DOMAIN log : log[k].t = "error" /\ ~Recovered(log, k)}
             chains == {a \in Allowlist : a.endsOnLine}
             hook == [k \in left |-> CHOOSE a \in chains : ChainEnds(a, log, k)]
  <2> SUFFICES ASSUME IInv, ClassInv, LogInv, Passed
               PROVE  \E h \in Injection(left, chains) :
                         \A k \in left : \E r \in DOMAIN log : Refused(h[k], log, r, k)
    BY DEF ErrorsAnswered
  <2>1. ~DiagnosticsFail(log)
    <3>1. /\ pc \in {"idle", "ended"} /\ steps # <<>> /\ steps[Len(steps)].ok
          /\ exit = 0
      BY DEF Passed
    <3>2. JudgedInv
      BY <3>1 DEF ClassInv
    <3>3. QED BY <3>1, <3>2 DEF JudgedInv
  <2>2. ASSUME NEW k \in left
        PROVE  \E a \in chains : ChainEnds(a, log, k)
    <3>1. Claimed(log, k)
      BY <2>1 DEF DiagnosticsFail, Findings
    <3>2. QED BY <3>1, ClaimsAreAnswered
  <2>3. \A k \in left : hook[k] \in chains /\ ChainEnds(hook[k], log, k)
    <3> HIDE DEF left, chains
    <3>1. SUFFICES ASSUME NEW k \in left
                   PROVE  hook[k] \in chains /\ ChainEnds(hook[k], log, k)
      OBVIOUS
    <3>2. hook[k] = CHOOSE a \in chains : ChainEnds(a, log, k)
      OBVIOUS
    <3>3. QED BY <2>2, <3>2, Zenon
  <2>4. hook \in [left -> chains]
    BY <2>3
  <2> HIDE DEF hook
  <2>5. \A k, m \in left : hook[k] = hook[m] => k = m
    BY <2>3, OneEnd DEF LogInv
  <2>6. hook \in Injection(left, chains)
    BY <2>4, <2>5 DEF Injection, IsInjective
  <2>7. ASSUME NEW k \in left
        PROVE  \E r \in DOMAIN log : Refused(hook[k], log, r, k)
    <3>1. PICK r \in 1..(k - 1) : Refused(hook[k], log, r, k)
      BY <2>3 DEF ChainEnds
    <3>2. r \in DOMAIN log
      BY DEF LogInv
    <3>3. QED BY <3>1, <3>2
  <2>8. QED BY <2>6, <2>7
<1>2. LogInv /\ [Next]_vars => LogInv'
  BY LogInvStep
<1>3. QED BY <1>1, <1>2, LogInvInit, StepReportInvariant, ClassInvariant, PTL DEF Spec

=============================================================================
