----------------------------- MODULE Roster_proofs -----------------------------
(***************************************************************************)
(* The roster for any number of beds, tokens and lanes.  Four invariants:  *)
(* MirrorInv, on the captures of fd 2 that nest in each other; ChainsInv,  *)
(* on the chains buildRosterChains builds by unions; StageInv, on the beds *)
(* that run through them; SerialInv, on the one bed of a single lane.      *)
(* From them: no chunk of stderr is lost, with one lane the shutdown hook  *)
(* answers for the run under way, and the roster keeps its promise.        *)
(***************************************************************************)
EXTENDS Roster, FiniteSetTheorems, TLAPS

-----------------------------------------------------------------------------
(* fd 2 *)

\* The captures whose pipe is, or has been, what fd 2 refers to.
Piped == {b \in Beds : capture[b] \notin {"none", "nil", "dupped"}}

\* Every chunk has been shown or sits in a pipe that is drained.
ChunksKept == \A c \in written : c \in shown \/ \E p \in Beds : InDrain(c, p)

\* fd 2 and the dups refer to the terminal or to pipes that are still drained; a drain ends
\* behind the last of them.
MirrorInv ==
    /\ MirrorTypeOK
    /\ fd2 # Terminal => fd2 \in Piped \ done
    /\ \A b \in Open : orig[b] # Terminal => orig[b] \in Piped \ done
    /\ \A b \in Beds \ Piped : b \notin done /\ pipe[b] = {}
    /\ Piped \ Open \subseteq done
    /\ ChunksKept

LEMMA MirrorStarts == MirrorInit => MirrorInv
BY TerminalAssumption
   DEF MirrorInit, MirrorInv, MirrorTypeOK, CaptureStates, Piped, Open, ChunksKept, InDrain

\* A capture goes on: nothing is written, nothing is read.
LEMMA CaptureStep ==
    ASSUME MirrorInv, NEW b \in Beds,
           \/ CaptureRefused(b) \/ DupStderr(b) \/ RedirectStderr(b) \/ RestoreStderr(b)
           \/ CloseWriteEnd(b) \/ DrainJoined(b) \/ GraceOver(b) \/ Inherit(b) \/ ChildExits(b)
    PROVE  MirrorInv'
<1> USE TerminalAssumption DEF MirrorInv, MirrorTypeOK, CaptureStates, Piped, Open, ChunksKept, InDrain
<1>1. CASE CaptureRefused(b) BY <1>1 DEF CaptureRefused
<1>2. CASE DupStderr(b) BY <1>2 DEF DupStderr
<1>3. CASE RedirectStderr(b) BY <1>3 DEF RedirectStderr
<1>4. CASE RestoreStderr(b) BY <1>4 DEF RestoreStderr
<1>5. CASE CloseWriteEnd(b) BY <1>5 DEF CloseWriteEnd
<1>6. CASE DrainJoined(b) BY <1>6 DEF DrainJoined
<1>7. CASE GraceOver(b) BY <1>7 DEF GraceOver
<1>8. CASE Inherit(b) BY <1>8 DEF Inherit
<1>9. CASE ChildExits(b) BY <1>9 DEF ChildExits
<1> QED BY <1>1, <1>2, <1>3, <1>4, <1>5, <1>6, <1>7, <1>8, <1>9

\* A chunk is written to fd 2, or taken one pipe further, or a drain sees the end of its pipe.
LEMMA ChunkStep ==
    ASSUME MirrorInv,
           \/ \E c \in Chunks : WriteStderr(c)
           \/ \E p \in Beds : DrainEnds(p) \/ \E c \in Chunks : Mirror(p, c)
    PROVE  MirrorInv'
<1> USE TerminalAssumption DEF MirrorInv, MirrorTypeOK, CaptureStates, Piped, Open, ChunksKept, InDrain
<1>1. ASSUME NEW c \in Chunks, WriteStderr(c) PROVE MirrorInv'
      BY <1>1 DEF WriteStderr, Chunks
<1>2. ASSUME NEW p \in Beds, DrainEnds(p) PROVE MirrorInv'
      BY <1>2 DEF DrainEnds, HasWriter
<1>3. ASSUME NEW p \in Beds, NEW c \in Chunks, Mirror(p, c) PROVE MirrorInv'
      BY <1>3 DEF Mirror, Chunks
<1> QED BY <1>1, <1>2, <1>3

-----------------------------------------------------------------------------
(* The chains *)

\* A place in the chains is a chain and a position in it.
IsPlace(cs, i, k) == i \in DOMAIN cs /\ k \in DOMAIN cs[i]

ChainTypes ==
    /\ cfg \in Configs
    /\ unchained \subseteq Selected
    /\ chains \in Seq(Seq(Beds))
    /\ tokenChain \in [Tokens -> 0..Len(chains)]

\* The chains hold the selected beds that were placed, each of them once, and a token that
\* one of them claims is that chain's.
ChainsInv ==
    /\ ChainTypes
    /\ \A i, k : IsPlace(chains, i, k) => chains[i][k] \in Selected \ unchained
    /\ \A i, k : IsPlace(chains, i, k) => \A t \in cfg.tokens[chains[i][k]] : tokenChain[t] = i
    /\ \A i, j, k, l :
          IsPlace(chains, i, k) /\ IsPlace(chains, j, l) /\ chains[i][k] = chains[j][l] => i = j /\ k = l

\* What a configuration is.
LEMMA ConfigTypes ==
    ASSUME NEW c \in Configs
    PROVE  /\ c.tokens \in [Beds -> SUBSET Tokens]
           /\ c.select \subseteq Beds
           /\ c.kinds \subseteq Kinds \ {"setup"}
           /\ c.lanes \in Int /\ c.cpus \in Nat /\ c.memory \in Nat /\ c.budget \in Nat \ {0}
<1>1. /\ {c.select, c.exclude, c.iterate, c.hostLocal, c.expectedFail} \subseteq SUBSET Beds
      /\ c.tokens \in [Beds -> SUBSET Tokens]
      /\ c.kinds \subseteq Kinds \ {"setup"}
      /\ c.lanes \in Int /\ c.cpus \in Nat /\ c.memory \in Nat /\ c.budget \in Nat \ {0}
      BY ConfigsAssumption, Zenon
<1> QED BY <1>1

LEMMA SelectedBeds ==
    ASSUME cfg \in Configs
    PROVE  Selected \subseteq Beds /\ IsFiniteSet(Selected) /\ Cardinality(Selected) \in Nat
<1>1. Selected \in SUBSET Beds BY ConfigTypes DEF Selected, SelectRosterBeds
<1>2. IsFiniteSet(Beds) BY BedsAssumption
<1> QED BY <1>1, <1>2, FS_Subset, FS_CardinalityType

\* What a bed touches are chains.
LEMMA TouchedChains ==
    ASSUME ChainTypes, NEW b \in Beds
    PROVE  Touched(b) \subseteq DOMAIN chains
<1>1. cfg.tokens[b] \subseteq Tokens BY ConfigTypes DEF ChainTypes
<1>2. DOMAIN chains = 1..Len(chains) /\ Len(chains) \in Nat BY DEF ChainTypes
<1> QED BY <1>1, <1>2 DEF Touched, ChainTypes

\* Where the beds are after a fold.
LEMMA FoldedPlaces ==
    ASSUME ChainTypes, NEW low \in DOMAIN chains, NEW i \in DOMAIN chains, low # i,
           chains' = [chains EXCEPT ![low] = @ \o chains[i], ![i] = <<>>]
    PROVE  /\ chains' \in Seq(Seq(Beds)) /\ Len(chains') = Len(chains)
           /\ \A j, k : IsPlace(chains', j, k) =>
                 \/ j # low /\ j # i /\ IsPlace(chains, j, k) /\ chains'[j][k] = chains[j][k]
                 \/ j = low /\ IsPlace(chains, low, k) /\ chains'[j][k] = chains[low][k]
                 \/ /\ j = low /\ k \in Nat /\ Len(chains[low]) \in Nat
                    /\ IsPlace(chains, i, k - Len(chains[low]))
                    /\ chains'[j][k] = chains[i][k - Len(chains[low])]
<1> USE DEF ChainTypes
<1>1. chains[low] \in Seq(Beds) /\ chains[i] \in Seq(Beds) OBVIOUS
<1>2. chains'[low] = chains[low] \o chains[i] /\ chains'[i] = <<>> OBVIOUS
<1>3. \A j \in DOMAIN chains : j # low /\ j # i => chains'[j] = chains[j] OBVIOUS
<1>4. chains' \in Seq(Seq(Beds)) /\ Len(chains') = Len(chains) /\ DOMAIN chains' = DOMAIN chains
      BY <1>1
<1> SUFFICES ASSUME NEW j, NEW k, IsPlace(chains', j, k)
             PROVE  \/ j # low /\ j # i /\ IsPlace(chains, j, k) /\ chains'[j][k] = chains[j][k]
                    \/ j = low /\ IsPlace(chains, low, k) /\ chains'[j][k] = chains[low][k]
                    \/ /\ j = low /\ k \in Nat /\ Len(chains[low]) \in Nat
                       /\ IsPlace(chains, i, k - Len(chains[low]))
                       /\ chains'[j][k] = chains[i][k - Len(chains[low])]
    BY <1>4, Zenon
<1>5. j \in DOMAIN chains /\ k \in DOMAIN chains'[j] BY <1>4 DEF IsPlace
<1>6. CASE j # low /\ j # i BY <1>3, <1>5, <1>6 DEF IsPlace
<1>7. CASE j = i BY <1>2, <1>5, <1>7
<1>8. CASE j = low
  <2> DEFINE s == chains[low]
             t == chains[i]
  <2>1. s \in Seq(Beds) /\ t \in Seq(Beds) /\ k \in DOMAIN (s \o t) BY <1>1, <1>2, <1>5, <1>8
  <2> HIDE DEF s, t
  <2>2. k \in 1..(Len(s) + Len(t)) /\ Len(s) \in Nat /\ Len(t) \in Nat BY <2>1
  <2>3. CASE k <= Len(s)
    <3>1. k \in DOMAIN s /\ (s \o t)[k] = s[k] BY <2>1, <2>2, <2>3
    <3> QED BY <1>2, <1>8, <3>1 DEF s, t, IsPlace
  <2>4. CASE k > Len(s)
    <3>1. k - Len(s) \in DOMAIN t /\ (s \o t)[k] = t[k - Len(s)] /\ k \in Nat BY <2>1, <2>2, <2>4
    <3> QED BY <1>2, <1>8, <2>2, <3>1, Zenon DEF s, t, IsPlace
  <2> QED BY <2>2, <2>3, <2>4
<1> QED BY <1>6, <1>7, <1>8

LEMMA FoldStep ==
    ASSUME ChainsInv, NEW b \in Beds, NEW low \in Touched(b), NEW i \in Touched(b), low # i,
           FoldChain(b, low, i), UNCHANGED <<cfg, unchained>>
    PROVE  ChainsInv'
<1>1. low \in DOMAIN chains /\ i \in DOMAIN chains BY TouchedChains DEF ChainsInv
<1>2. chains' = [chains EXCEPT ![low] = @ \o chains[i], ![i] = <<>>]
      BY DEF FoldChain
<1> DEFINE off == Len(chains[low])
<1>3. /\ chains' \in Seq(Seq(Beds)) /\ Len(chains') = Len(chains)
      /\ \A j, k : IsPlace(chains', j, k) =>
            \/ j # low /\ j # i /\ IsPlace(chains, j, k) /\ chains'[j][k] = chains[j][k]
            \/ j = low /\ IsPlace(chains, low, k) /\ chains'[j][k] = chains[low][k]
            \/ /\ j = low /\ k \in Nat /\ off \in Nat
               /\ IsPlace(chains, i, k - off) /\ chains'[j][k] = chains[i][k - off]
      BY <1>1, <1>2, FoldedPlaces DEF ChainsInv
<1>4. tokenChain' = [t \in Tokens |-> IF tokenChain[t] = i THEN low ELSE tokenChain[t]]
      BY DEF FoldChain
<1>5. Selected' = Selected /\ unchained' = unchained BY DEF Selected
<1> HIDE DEF off
<1>6. ChainTypes'
  <2>1. low \in 0..Len(chains) BY <1>1 DEF ChainsInv, ChainTypes
  <2>2. tokenChain' \in [Tokens -> 0..Len(chains')] BY <1>3, <1>4, <2>1 DEF ChainsInv, ChainTypes
  <2> QED BY <1>3, <1>5, <2>2 DEF ChainsInv, ChainTypes
<1>10. ASSUME NEW j, NEW k, IsPlace(chains', j, k)
      PROVE  \E p, u : /\ IsPlace(chains, p, u) /\ chains'[j][k] = chains[p][u]
                       /\ (p # i /\ j = p) \/ (p = i /\ j = low)
  <2>1. \/ j # low /\ j # i /\ IsPlace(chains, j, k) /\ chains'[j][k] = chains[j][k]
        \/ j = low /\ IsPlace(chains, low, k) /\ chains'[j][k] = chains[low][k]
        \/ j = low /\ IsPlace(chains, i, k - off) /\ chains'[j][k] = chains[i][k - off]
        BY <1>3, <1>10
  <2>2. CASE j # low /\ j # i /\ IsPlace(chains, j, k) /\ chains'[j][k] = chains[j][k]
        BY <2>2, Zenon
  <2>3. CASE j = low /\ IsPlace(chains, low, k) /\ chains'[j][k] = chains[low][k]
        BY <2>3, Zenon
  <2>4. CASE j = low /\ IsPlace(chains, i, k - off) /\ chains'[j][k] = chains[i][k - off]
        BY <2>4, Zenon
  <2> QED BY <2>1, <2>2, <2>3, <2>4, Zenon
<1>7. \A j, k : IsPlace(chains', j, k) => chains'[j][k] \in Selected' \ unchained'
  <2>1. \A p, u : IsPlace(chains, p, u) => chains[p][u] \in Selected \ unchained BY DEF ChainsInv
  <2>2. ASSUME NEW j, NEW k, IsPlace(chains', j, k) PROVE chains'[j][k] \in Selected \ unchained
    <3>1. PICK p, u : /\ IsPlace(chains, p, u) /\ chains'[j][k] = chains[p][u]
                      /\ (p # i /\ j = p) \/ (p = i /\ j = low)
          BY <1>10, <2>2, Zenon
    <3> QED BY <2>1, <3>1
  <2> QED BY <1>5, <2>2
<1>8. \A j, k : IsPlace(chains', j, k) => \A t \in cfg'.tokens[chains'[j][k]] : tokenChain'[t] = j
  <2> SUFFICES ASSUME NEW j, NEW k, IsPlace(chains', j, k), NEW t \in cfg.tokens[chains'[j][k]]
               PROVE  tokenChain'[t] = j
      BY Zenon
  <2>1. PICK p, u : /\ IsPlace(chains, p, u) /\ chains'[j][k] = chains[p][u]
                    /\ (p # i /\ j = p) \/ (p = i /\ j = low)
        BY <1>10, Zenon
  <2>2. \A q, v : IsPlace(chains, q, v) => \A x \in cfg.tokens[chains[q][v]] : tokenChain[x] = q
        BY DEF ChainsInv
  <2>3. t \in cfg.tokens[chains[p][u]] BY <2>1
  <2>6. tokenChain[t] = p BY <2>1, <2>2, <2>3, Zenon
  <2>4. chains[p][u] \in Beds BY <2>1, SelectedBeds DEF ChainsInv, ChainTypes
  <2>5. t \in Tokens BY <2>1, <2>4, ConfigTypes DEF ChainsInv, ChainTypes
  <2> QED BY <1>4, <2>1, <2>6, <2>5
<1>9. \A j, m, k, l :
          IsPlace(chains', j, k) /\ IsPlace(chains', m, l) /\ chains'[j][k] = chains'[m][l] => j = m /\ k = l
  <2> SUFFICES ASSUME NEW j, NEW m, NEW k, NEW l, IsPlace(chains', j, k), IsPlace(chains', m, l),
                      chains'[j][k] = chains'[m][l]
               PROVE  j = m /\ k = l
      BY Zenon
  <2>0. \A p, q, u, v :
          IsPlace(chains, p, u) /\ IsPlace(chains, q, v) /\ chains[p][u] = chains[q][v] => p = q /\ u = v
        BY DEF ChainsInv
  <2>4. \/ j # low /\ j # i /\ IsPlace(chains, j, k) /\ chains'[j][k] = chains[j][k]
        \/ j = low /\ IsPlace(chains, low, k) /\ chains'[j][k] = chains[low][k]
        \/ /\ j = low /\ k \in Nat /\ off \in Nat
           /\ IsPlace(chains, i, k - off) /\ chains'[j][k] = chains[i][k - off]
        BY <1>3
  <2>5. \/ m # low /\ m # i /\ IsPlace(chains, m, l) /\ chains'[m][l] = chains[m][l]
        \/ m = low /\ IsPlace(chains, low, l) /\ chains'[m][l] = chains[low][l]
        \/ /\ m = low /\ l \in Nat /\ off \in Nat
           /\ IsPlace(chains, i, l - off) /\ chains'[m][l] = chains[i][l - off]
        BY <1>3
  <2>1. CASE j # low /\ j # i BY <2>4, <2>5, <2>0, <2>1, Zenon
  <2>2. CASE m # low /\ m # i BY <2>4, <2>5, <2>0, <2>2, Zenon
  <2>3. CASE j = low /\ m = low
    <3>1. CASE IsPlace(chains, low, k) /\ chains'[j][k] = chains[low][k] /\ IsPlace(chains, low, l) /\ chains'[m][l] = chains[low][l]
          BY <2>0, <2>3, <3>1, Zenon
    <3>2. CASE /\ k \in Nat /\ off \in Nat /\ IsPlace(chains, i, k - off) /\ chains'[j][k] = chains[i][k - off]
               /\ l \in Nat /\ IsPlace(chains, i, l - off) /\ chains'[m][l] = chains[i][l - off]
      <4>1. k - off = l - off BY <2>0, <3>2, Zenon
      <4> QED BY <2>3, <3>2, <4>1
    <3>3. CASE /\ IsPlace(chains, low, k) /\ chains'[j][k] = chains[low][k]
               /\ IsPlace(chains, i, l - off) /\ chains'[m][l] = chains[i][l - off]
          BY <2>0, <3>3, Zenon
    <3>4. CASE /\ IsPlace(chains, low, l) /\ chains'[m][l] = chains[low][l]
               /\ IsPlace(chains, i, k - off) /\ chains'[j][k] = chains[i][k - off]
          BY <2>0, <3>4, Zenon
    <3> QED BY <2>4, <2>5, <2>3, <3>1, <3>2, <3>3, <3>4, Zenon
  <2> QED BY <2>4, <2>5, <2>1, <2>2, <2>3, Zenon
<1> QED BY <1>6, <1>7, <1>8, <1>9 DEF ChainsInv

\* The next free place of the chain idx, which may be a new one.
FreePlace(idx) == IF idx = Len(chains) + 1 THEN 1 ELSE Len(chains[idx]) + 1

\* Where the beds are after one more is placed.
LEMMA GrownPlaces ==
    ASSUME ChainTypes, NEW b \in Beds, NEW idx \in 1..(Len(chains) + 1),
           chains' = IF idx = Len(chains) + 1 THEN Append(chains, <<b>>)
                     ELSE [chains EXCEPT ![idx] = Append(@, b)]
    PROVE  /\ chains' \in Seq(Seq(Beds)) /\ idx \in 1..Len(chains') /\ Len(chains) <= Len(chains')
           /\ \A j, k : IsPlace(chains', j, k) =>
                 \/ IsPlace(chains, j, k) /\ chains'[j][k] = chains[j][k]
                 \/ j = idx /\ k = FreePlace(idx) /\ chains'[j][k] = b
<1> USE DEF ChainTypes
<1>1. CASE idx = Len(chains) + 1
  <2>1. chains' = Append(chains, <<b>>) BY <1>1
  <2>2. /\ chains' \in Seq(Seq(Beds)) /\ Len(chains') = Len(chains) + 1 /\ Len(chains) \in Nat
        /\ chains'[idx] = <<b>> /\ \A j \in DOMAIN chains : chains'[j] = chains[j]
        BY <1>1, <2>1
  <2>3. ASSUME NEW j, NEW k, IsPlace(chains', j, k)
        PROVE  \/ IsPlace(chains, j, k) /\ chains'[j][k] = chains[j][k]
               \/ j = idx /\ k = 1 /\ chains'[j][k] = b
    <3>1. j \in DOMAIN chains' /\ k \in DOMAIN chains'[j] BY <2>3 DEF IsPlace
    <3>2. CASE j = idx BY <2>2, <3>1, <3>2
    <3>3. CASE j # idx
      <4>1. j \in DOMAIN chains BY <1>1, <2>2, <3>1, <3>3
      <4> QED BY <2>2, <3>1, <4>1 DEF IsPlace
    <3> QED BY <3>2, <3>3
  <2>4. FreePlace(idx) = 1 BY <1>1 DEF FreePlace
  <2>5. \A j, k : IsPlace(chains', j, k) =>
           \/ IsPlace(chains, j, k) /\ chains'[j][k] = chains[j][k]
           \/ j = idx /\ k = FreePlace(idx) /\ chains'[j][k] = b
        BY <2>3, <2>4, Zenon
  <2>6. idx \in 1..Len(chains') /\ Len(chains) <= Len(chains') BY <1>1, <2>2
  <2> QED BY <2>2, <2>5, <2>6, Zenon
<1>2. CASE idx # Len(chains) + 1
  <2>0. Len(chains) \in Nat /\ idx \in DOMAIN chains BY <1>2
  <2>1. chains' = [chains EXCEPT ![idx] = Append(chains[idx], b)] BY <1>2
  <2>2. chains[idx] \in Seq(Beds) BY <2>0
  <2> DEFINE s == chains[idx]
  <2>3. /\ Append(s, b) \in Seq(Beds) /\ Len(s) \in Nat /\ DOMAIN Append(s, b) = 1..(Len(s) + 1)
        /\ Append(s, b)[Len(s) + 1] = b /\ DOMAIN s = 1..Len(s)
        /\ \A k \in 1..Len(s) : Append(s, b)[k] = s[k]
        BY <2>2
  <2>4. /\ chains' \in Seq(Seq(Beds)) /\ Len(chains') = Len(chains) /\ DOMAIN chains' = DOMAIN chains
        /\ chains'[idx] = Append(s, b) /\ \A j \in DOMAIN chains : j # idx => chains'[j] = chains[j]
    <3>1. chains[idx] \in Seq(Beds) /\ Append(chains[idx], b) \in Seq(Beds) BY <2>2
    <3>2. chains' \in Seq(Seq(Beds)) /\ Len(chains') = Len(chains) BY <2>0, <2>1, <3>1
    <3> QED BY <2>0, <2>1, <3>2
  <2> HIDE DEF s
  <2>5. ASSUME NEW j, NEW k, IsPlace(chains', j, k)
        PROVE  \/ IsPlace(chains, j, k) /\ chains'[j][k] = chains[j][k]
               \/ j = idx /\ k = Len(s) + 1 /\ chains'[j][k] = b
    <3>1. j \in DOMAIN chains /\ k \in DOMAIN chains'[j] BY <2>4, <2>5 DEF IsPlace
    <3>2. CASE j # idx BY <2>4, <3>1, <3>2 DEF IsPlace
    <3>3. CASE j = idx
      <4>1. k \in 1..(Len(s) + 1) /\ chains'[j][k] = Append(s, b)[k] BY <2>3, <2>4, <3>1, <3>3
      <4>2. CASE k = Len(s) + 1 BY <2>3, <3>3, <4>1, <4>2
      <4>3. CASE k \in 1..Len(s)
        <5>1. chains'[j][k] = s[k] /\ k \in DOMAIN s BY <2>3, <4>1, <4>3
        <5> QED BY <2>0, <3>3, <5>1 DEF s, IsPlace
      <4>4. Len(s) \in Nat BY <2>3
      <4>5. k = Len(s) + 1 \/ k \in 1..Len(s) BY <4>1, <4>4
      <4> QED BY <4>2, <4>3, <4>5, Zenon
    <3> QED BY <3>2, <3>3
  <2>6. FreePlace(idx) = Len(s) + 1 BY <1>2 DEF FreePlace, s
  <2>7. Len(chains) <= Len(chains') /\ idx \in 1..Len(chains') BY <2>0, <2>4
  <2> QED BY <2>4, <2>5, <2>6, <2>7
<1> QED BY <1>1, <1>2

LEMMA ChainStep ==
    ASSUME ChainsInv, NEW b \in unchained, NEW idx \in 1..(Len(chains) + 1),
           Touched(b) \subseteq {idx},
           chains' = IF idx = Len(chains) + 1 THEN Append(chains, <<b>>)
                     ELSE [chains EXCEPT ![idx] = Append(@, b)],
           tokenChain' = [t \in Tokens |-> IF t \in cfg.tokens[b] THEN idx ELSE tokenChain[t]],
           unchained' = unchained \ {b}, UNCHANGED cfg
    PROVE  ChainsInv'
<1>1. b \in Selected /\ b \in Beds BY SelectedBeds DEF ChainsInv, ChainTypes
<1>2. /\ chains' \in Seq(Seq(Beds)) /\ idx \in 1..Len(chains') /\ Len(chains) <= Len(chains')
      BY <1>1, GrownPlaces DEF ChainsInv
<1> DEFINE last == FreePlace(idx)
<1>3. \A j, k : IsPlace(chains', j, k) =>
            \/ IsPlace(chains, j, k) /\ chains'[j][k] = chains[j][k]
            \/ j = idx /\ k = last /\ chains'[j][k] = b
      BY <1>1, GrownPlaces DEF ChainsInv
<1> HIDE DEF last
<1>4. Selected' = Selected BY DEF Selected
<1>5. /\ \A j, k : IsPlace(chains, j, k) => chains[j][k] \in Selected \ unchained
      /\ \A j, k : IsPlace(chains, j, k) => \A t \in cfg.tokens[chains[j][k]] : tokenChain[t] = j
      BY DEF ChainsInv
<1>6. ChainTypes'
  <2>1. Len(chains) \in Nat /\ Len(chains') \in Nat /\ idx \in 0..Len(chains')
        BY <1>2 DEF ChainsInv, ChainTypes
  <2>2. tokenChain' \in [Tokens -> 0..Len(chains')] BY <1>2, <2>1 DEF ChainsInv, ChainTypes
  <2> QED BY <1>2, <1>4, <2>2 DEF ChainsInv, ChainTypes
<1>7. ASSUME NEW j, NEW k, IsPlace(chains', j, k)
      PROVE  /\ chains'[j][k] \in Selected \ unchained'
             /\ \A t \in cfg.tokens[chains'[j][k]] : tokenChain'[t] = j
  <2>1. CASE j = idx /\ k = last /\ chains'[j][k] = b
    <3>1. cfg.tokens[b] \subseteq Tokens BY <1>1, ConfigTypes DEF ChainsInv, ChainTypes
    <3>2. \A t \in cfg.tokens[b] : tokenChain'[t] = idx BY <3>1
    <3>3. b \in Selected \ unchained' BY <1>1
    <3> QED BY <2>1, <3>2, <3>3, Zenon
  <2>2. CASE IsPlace(chains, j, k) /\ chains'[j][k] = chains[j][k]
    <3>1. chains[j][k] \in Selected \ unchained BY <1>5, <2>2
    <3>2. ASSUME NEW t \in cfg.tokens[chains[j][k]] PROVE tokenChain'[t] = j
      <4>1. tokenChain[t] = j BY <1>5, <2>2, <3>2
      <4>2. chains[j][k] \in Beds BY <3>1, SelectedBeds DEF ChainsInv, ChainTypes
      <4>3. t \in Tokens BY <3>2, <4>2, ConfigTypes DEF ChainsInv, ChainTypes
      <4>4. j # 0 BY <2>2 DEF IsPlace, ChainsInv, ChainTypes
      <4>5. t \in cfg.tokens[b] => j = idx BY <4>1, <4>4 DEF Touched
      <4> QED BY <4>1, <4>3, <4>5
    <3>3. chains[j][k] \in Selected \ unchained' BY <3>1
    <3> QED BY <2>2, <3>2, <3>3, Zenon
  <2> QED BY <1>3, <1>7, <2>1, <2>2
<1>8. ASSUME NEW j, NEW m, NEW k, NEW l,
             IsPlace(chains', j, k), IsPlace(chains', m, l), chains'[j][k] = chains'[m][l]
      PROVE  j = m /\ k = l
  <2>1. \A p, q, u, v :
          IsPlace(chains, p, u) /\ IsPlace(chains, q, v) /\ chains[p][u] = chains[q][v]
            => p = q /\ u = v
        BY DEF ChainsInv
  <2>2. \A p, u : IsPlace(chains, p, u) => chains[p][u] # b BY <1>5
  <2>3. \/ IsPlace(chains, j, k) /\ chains'[j][k] = chains[j][k]
        \/ j = idx /\ k = last /\ chains'[j][k] = b
        BY <1>3, <1>8
  <2>4. \/ IsPlace(chains, m, l) /\ chains'[m][l] = chains[m][l]
        \/ m = idx /\ l = last /\ chains'[m][l] = b
        BY <1>3, <1>8
  <2> QED BY <1>8, <2>1, <2>2, <2>3, <2>4, Zenon
<1> QED BY <1>4, <1>6, <1>7, <1>8 DEF ChainsInv

-----------------------------------------------------------------------------
(* The beds *)

\* The beds whose outcome is in the roster's list.
Appended == {b \in Beds : stage[b] \in {"appended", "ended"}}

StageTypes ==
    /\ process \in {"chaining", "running", "hooked"} \cup Endings
    /\ stage \in [Beds -> Stages]
    /\ how \in [Beds -> Kinds \cup {"none"}]

\* Before the goroutines are started, every bed waits.
NothingBegun == process = "chaining" => \A b \in Beds : stage[b] = "queued"

\* A bed leaves the queue at its place in a chain, when all beds before it have ended.
InTurn ==
    /\ \A b \in Beds : stage[b] # "queued" => \E i, k : IsPlace(chains, i, k) /\ chains[i][k] = b
    /\ \A i, k : IsPlace(chains, i, k) /\ stage[chains[i][k]] # "queued" =>
                  \A j \in 1..(k - 1) : stage[chains[i][j]] = "ended"

\* How a bed ended is known when its body has returned; a panic does not get any further.
EndsKnown ==
    \A b \in Beds :
        /\ stage[b] = "recorded" => how[b] \in Kinds
        /\ stage[b] \in {"returned", "appended", "ended"} => how[b] \in Kinds \ {"panic"}

\* Every bed has one outcome, the one that follows from how it ended.
OutcomesFollow == outcomes = {RunRosterBed(cfg, b, Returned(how[b])) : b \in Appended}

\* There is no exit code before the verdict.
ExitOpen == process \in {"chaining", "running", "hooked"} => exit = 9

StageInv ==
    ChainsInv /\ StageTypes /\ NothingBegun /\ InTurn /\ EndsKnown /\ OutcomesFollow /\ ExitOpen

LEMMA ChainsKept ==
    ASSUME ChainsInv, UNCHANGED <<cfg, bookkeeping>>
    PROVE  ChainsInv'
<1>1. cfg' = cfg /\ unchained' = unchained /\ chains' = chains /\ tokenChain' = tokenChain
      BY DEF bookkeeping
<1>2. Selected' = Selected BY <1>1 DEF Selected
<1> QED BY <1>1, <1>2 DEF ChainsInv, ChainTypes

\* A bed moves on between the lane's stages, or ends.
LEMMA MovedOn ==
    ASSUME ChainsInv, StageTypes, InTurn, NEW b \in Beds, NEW to \in LaneStages \cup {"ended"},
           stage[b] \in LaneStages, stage' = [stage EXCEPT ![b] = to], chains' = chains
    PROVE  InTurn'
<1>1. \A c \in Beds : (stage'[c] # "queued" <=> stage[c] # "queued")
      BY DEF StageTypes, LaneStages
<1>2. \A c \in Beds : stage[c] = "ended" => stage'[c] = "ended"
      BY DEF StageTypes, LaneStages
<1>3. \A i, k : IsPlace(chains, i, k) => chains[i][k] \in Beds
      BY DEF ChainsInv, ChainTypes, IsPlace
<1>4. \A c \in Beds : stage'[c] # "queued" => \E i, k : IsPlace(chains', i, k) /\ chains'[i][k] = c
      BY <1>1 DEF InTurn
<1>5. ASSUME NEW i, NEW k, IsPlace(chains, i, k), stage'[chains[i][k]] # "queued",
             NEW j \in 1..(k - 1)
      PROVE  stage'[chains[i][j]] = "ended"
  <2>1. stage[chains[i][j]] = "ended" BY <1>1, <1>3, <1>5 DEF InTurn
  <2>2. IsPlace(chains, i, j)
    <3>1. chains[i] \in Seq(Beds) /\ k \in 1..Len(chains[i]) /\ Len(chains[i]) \in Nat
          BY <1>5 DEF IsPlace, ChainsInv, ChainTypes
    <3> QED BY <1>5, <3>1 DEF IsPlace
  <2> QED BY <1>2, <1>3, <2>1, <2>2
<1> QED BY <1>4, <1>5 DEF InTurn

\* A bed takes a lane.
LEMMA TurnTaken ==
    ASSUME ChainsInv, StageTypes, InTurn, NEW b \in Beds, Turn(b),
           stage[b] = "queued", stage' = [stage EXCEPT ![b] = "setup"], chains' = chains
    PROVE  InTurn'
<1>1. PICK p \in DOMAIN chains : \E u \in DOMAIN chains[p] :
          chains[p][u] = b /\ \A j \in 1..(u - 1) : stage[chains[p][j]] = "ended"
      BY DEF Turn
<1>2. PICK u \in DOMAIN chains[p] :
          chains[p][u] = b /\ \A j \in 1..(u - 1) : stage[chains[p][j]] = "ended"
      BY <1>1
<1>3. IsPlace(chains, p, u) BY <1>1, <1>2 DEF IsPlace
<1>4. \A c \in Beds \ {b} : stage'[c] = stage[c] BY DEF StageTypes
<1>5. \A i, k : IsPlace(chains, i, k) => chains[i][k] \in Beds
      BY DEF ChainsInv, ChainTypes, IsPlace
<1>6. \A c \in Beds : stage'[c] # "queued" => \E i, k : IsPlace(chains', i, k) /\ chains'[i][k] = c
  <2> SUFFICES ASSUME NEW c \in Beds, stage'[c] # "queued"
               PROVE  \E i, k : IsPlace(chains, i, k) /\ chains[i][k] = c
      OBVIOUS
  <2>1. CASE c = b BY <1>2, <1>3, <2>1, Zenon
  <2>2. CASE c # b BY <1>4, <2>2, Zenon DEF InTurn
  <2> QED BY <2>1, <2>2
<1>7. ASSUME NEW i, NEW k, IsPlace(chains, i, k), stage'[chains[i][k]] # "queued",
             NEW j \in 1..(k - 1)
      PROVE  stage'[chains[i][j]] = "ended"
  <2>1. IsPlace(chains, i, j)
    <3>1. chains[i] \in Seq(Beds) /\ k \in 1..Len(chains[i]) /\ Len(chains[i]) \in Nat
          BY <1>7 DEF IsPlace, ChainsInv, ChainTypes
    <3> QED BY <1>7, <3>1 DEF IsPlace
  <2>2. CASE chains[i][k] = b
    <3>1. i = p /\ k = u BY <1>2, <1>3, <1>7, <2>2, Zenon DEF ChainsInv
    <3>2. stage[chains[i][j]] = "ended" BY <1>2, <1>7, <3>1
    <3> QED BY <1>4, <1>5, <2>1, <3>2
  <2>3. CASE chains[i][k] # b
    <3>1. stage[chains[i][k]] # "queued" BY <1>4, <1>5, <1>7, <2>3
    <3>2. stage[chains[i][j]] = "ended" BY <1>7, <3>1 DEF InTurn
    <3> QED BY <1>4, <1>5, <2>1, <3>2
  <2> QED BY <2>2, <2>3
<1> QED BY <1>6, <1>7 DEF InTurn

LEMMA OutcomesKept ==
    ASSUME OutcomesFollow, Appended' = Appended, cfg' = cfg, outcomes' = outcomes,
           \A b \in Appended : how'[b] = how[b]
    PROVE  OutcomesFollow'
BY DEF OutcomesFollow

\* Nothing of the beds moves; the process may end.
LEMMA StageKept ==
    ASSUME StageInv, UNCHANGED <<cfg, bookkeeping, stage, how, outcomes>>,
           \/ UNCHANGED <<process, exit>>
           \/ process' \in Endings
           \/ process = "running" /\ process' = "hooked" /\ exit' = exit
    PROVE  StageInv'
<1>1. stage' = stage /\ how' = how /\ chains' = chains /\ cfg' = cfg /\ outcomes' = outcomes
      BY DEF bookkeeping
<1>2. ChainsInv' BY ChainsKept DEF StageInv
<1>3. StageTypes' /\ NothingBegun' /\ ExitOpen'
      BY <1>1 DEF StageInv, StageTypes, NothingBegun, ExitOpen, Endings
<1>4. InTurn' /\ EndsKnown' BY <1>1 DEF StageInv, InTurn, EndsKnown
<1>5. Appended' = Appended BY <1>1 DEF Appended
<1>6. OutcomesFollow' BY <1>1, <1>5, OutcomesKept DEF StageInv
<1> QED BY <1>2, <1>3, <1>4, <1>6 DEF StageInv

\* A bed moves on in its lane, with what is known of its end and its outcome.
LEMMA BedMoves ==
    ASSUME StageInv, NEW b \in Beds, NEW to \in LaneStages \cup {"ended"}, Alive,
           stage[b] \in LaneStages, stage' = [stage EXCEPT ![b] = to], UNCHANGED Aside,
           NEW k \in Kinds \cup {"none"}, how' = [how EXCEPT ![b] = k],
           to = "recorded" => k \in Kinds,
           to \in {"returned", "appended", "ended"} => k \in Kinds \ {"panic"},
           OutcomesFollow'
    PROVE  StageInv'
<1>1. cfg' = cfg /\ process' = process /\ chains' = chains /\ exit' = exit
      /\ UNCHANGED <<cfg, bookkeeping>>
      BY DEF Aside, bookkeeping
<1>2. ChainsInv' BY <1>1, ChainsKept DEF StageInv
<1>3. InTurn' BY <1>1, MovedOn DEF StageInv
<1>4. StageTypes' BY <1>1 DEF StageInv, StageTypes, Stages
<1>5. process # "chaining" BY DEF Alive
<1>6. NothingBegun' /\ ExitOpen' BY <1>1, <1>5 DEF StageInv, NothingBegun, ExitOpen
<1>7. EndsKnown' BY DEF StageInv, EndsKnown, StageTypes
<1> QED BY <1>2, <1>3, <1>4, <1>6, <1>7 DEF StageInv

LEMMA StageStarts == Init => StageInv
<1> SUFFICES ASSUME Init PROVE StageInv
    OBVIOUS
<1>1. /\ cfg \in Configs /\ process = "chaining" /\ unchained = Selected /\ chains = <<>>
      /\ tokenChain = [t \in Tokens |-> 0] /\ exit = 9
      /\ stage = [b \in Beds |-> "queued"] /\ how = [b \in Beds |-> "none"] /\ outcomes = {}
      BY Zenon DEF Init, Selected
<1>2. \A i, k : ~IsPlace(chains, i, k) BY <1>1 DEF IsPlace
<1>3. ChainTypes
  <2>1. chains \in Seq(Seq(Beds)) /\ Len(chains) = 0 BY <1>1
  <2> QED BY <1>1, <2>1 DEF ChainTypes
<1>4. ChainsInv BY <1>2, <1>3, Zenon DEF ChainsInv
<1>5. StageTypes /\ NothingBegun /\ EndsKnown /\ ExitOpen
      BY <1>1 DEF StageTypes, Stages, NothingBegun, EndsKnown, ExitOpen
<1>6. InTurn BY <1>1, <1>2 DEF InTurn
<1>7. Appended = {} BY <1>1 DEF Appended
<1>8. OutcomesFollow BY <1>1, <1>7 DEF OutcomesFollow
<1> QED BY <1>4, <1>5, <1>6, <1>8 DEF StageInv

\* While the chains are built every bed waits, wherever it is.
LEMMA StillWaiting ==
    ASSUME StageInv, process = "chaining", ChainsInv',
           UNCHANGED <<cfg, process, stage, how, outcomes, exit>>
    PROVE  StageInv'
<1>1. stage' = stage /\ how' = how /\ process' = process /\ cfg' = cfg /\ outcomes' = outcomes
      /\ exit' = exit
      OBVIOUS
<1>2. \A b \in Beds : stage[b] = "queued" BY DEF StageInv, NothingBegun
<1>3. StageTypes' /\ NothingBegun' /\ ExitOpen' /\ EndsKnown'
      BY <1>1, <1>2 DEF StageInv, StageTypes, NothingBegun, ExitOpen, EndsKnown
<1>4. \A i, k : IsPlace(chains', i, k) => chains'[i][k] \in Beds
      BY DEF ChainsInv, ChainTypes, IsPlace
<1>5. InTurn' BY <1>1, <1>2, <1>4 DEF InTurn
<1>6. Appended' = Appended BY <1>1 DEF Appended
<1>7. OutcomesFollow' BY <1>1, <1>6, OutcomesKept DEF StageInv
<1> QED BY <1>3, <1>5, <1>7 DEF StageInv

\* The steps of one bed.
LEMMA ProgressStep ==
    ASSUME StageInv, NEW b \in Beds, Progress(b)
    PROVE  StageInv'
<1>1. CASE TakeLane(b)
  <2>1. /\ Turn(b) /\ Alive /\ stage[b] = "queued" /\ stage' = [stage EXCEPT ![b] = "setup"]
        /\ UNCHANGED Aside /\ how' = how /\ outcomes' = outcomes
        BY <1>1, Zenon DEF TakeLane, Move
  <2>2. cfg' = cfg /\ process' = process /\ chains' = chains /\ exit' = exit
        /\ UNCHANGED <<cfg, bookkeeping>>
        BY <2>1 DEF Aside, bookkeeping
  <2>3. ChainsInv' BY <2>2, ChainsKept DEF StageInv
  <2>4. InTurn' BY <2>1, <2>2, TurnTaken DEF StageInv
  <2>5. StageTypes' BY <2>1, <2>2 DEF StageInv, StageTypes, Stages, LaneStages
  <2>6. NothingBegun' /\ ExitOpen' BY <2>1, <2>2 DEF StageInv, Alive, NothingBegun, ExitOpen
  <2>7. EndsKnown' BY <2>1 DEF StageInv, EndsKnown, StageTypes
  <2>8. Appended' = Appended BY <2>1 DEF Appended, StageInv, StageTypes
  <2>9. OutcomesFollow' BY <2>1, <2>2, <2>8, OutcomesKept DEF StageInv
  <2> QED BY <2>3, <2>4, <2>5, <2>6, <2>7, <2>9 DEF StageInv
<1>2. ASSUME NEW from \in {"setup", "begun", "body", "recorded"},
             NEW to \in {"begun", "body", "recorded", "returned"},
             NEW k \in Kinds \cup {"none"}, Alive,
             stage[b] = from, stage' = [stage EXCEPT ![b] = to], how' = [how EXCEPT ![b] = k],
             to = "recorded" => k \in Kinds, to = "returned" => k \in Kinds \ {"panic"},
             UNCHANGED Aside, outcomes' = outcomes
      PROVE  StageInv'
  <2>1. Appended' = Appended /\ b \notin Appended BY <1>2 DEF Appended, StageInv, StageTypes
  <2>2. \A c \in Appended : how'[c] = how[c]
        BY <1>2, <2>1 DEF StageInv, StageTypes, Appended
  <2>3. cfg' = cfg BY <1>2 DEF Aside
  <2>4. OutcomesFollow' BY <1>2, <2>1, <2>2, <2>3, OutcomesKept DEF StageInv
  <2>5. stage[b] \in LaneStages /\ to \in LaneStages \cup {"ended"} BY <1>2 DEF LaneStages
  <2>6. to \notin {"appended", "ended"} BY <1>2
  <2> QED BY <1>2, <2>4, <2>5, <2>6, BedMoves
<1>0. how[b] \in Kinds \cup {"none"} /\ how = [how EXCEPT ![b] = how[b]]
      BY DEF StageInv, StageTypes
<1>3. CASE SetupFails(b)
  <2>1. /\ Alive /\ stage[b] = "setup" /\ stage' = [stage EXCEPT ![b] = "returned"]
        /\ how' = [how EXCEPT ![b] = "setup"] /\ UNCHANGED Aside /\ outcomes' = outcomes
        BY <1>3, Zenon DEF SetupFails, Move
  <2>2. "setup" \in Kinds /\ "setup" # "panic" BY DEF Kinds
  <2> QED BY <1>2, <2>1, <2>2
<1>4. CASE BeginBedVerdict(b)
  <2>1. /\ Alive /\ stage[b] = "setup" /\ stage' = [stage EXCEPT ![b] = "begun"]
        /\ how' = how /\ UNCHANGED Aside /\ outcomes' = outcomes
        BY <1>4, Zenon DEF BeginBedVerdict, Move
  <2> QED BY <1>2, <1>0, <2>1
<1>5. CASE EnterBody(b)
  <2>1. /\ Alive /\ stage[b] = "begun" /\ stage' = [stage EXCEPT ![b] = "body"]
        /\ how' = how /\ UNCHANGED Aside /\ outcomes' = outcomes
        BY <1>5, Zenon DEF EnterBody, Move
  <2> QED BY <1>2, <1>0, <2>1
<1>6. ASSUME NEW k \in cfg.kinds, BodyReturns(b, k) PROVE StageInv'
  <2>1. /\ Alive /\ stage[b] = "body" /\ stage' = [stage EXCEPT ![b] = "recorded"]
        /\ how' = [how EXCEPT ![b] = k] /\ UNCHANGED Aside /\ outcomes' = outcomes
        BY <1>6, Zenon DEF BodyReturns, Move
  <2>2. k \in Kinds BY <1>6, ConfigTypes DEF StageInv, ChainsInv, ChainTypes
  <2> QED BY <1>2, <2>1, <2>2
<1>7. CASE EndBedVerdict(b)
  <2>1. /\ Alive /\ stage[b] = "recorded" /\ UNCHANGED <<cfg, bookkeeping, exit, how, outcomes>>
        BY <1>7 DEF EndBedVerdict
  <2>2. CASE how[b] = "panic"
    <3>1. process' = "panicked" /\ stage' = stage BY <1>7, <2>2 DEF EndBedVerdict
    <3> QED BY <2>1, <3>1, StageKept DEF Endings
  <2>3. CASE how[b] # "panic"
    <3>1. stage' = [stage EXCEPT ![b] = "returned"] /\ process' = process
          BY <1>7, <2>3 DEF EndBedVerdict
    <3>2. how[b] \in Kinds \ {"panic"} BY <2>1, <2>3 DEF StageInv, EndsKnown
    <3>3. UNCHANGED Aside BY <2>1, <3>1 DEF Aside, bookkeeping
    <3>4. how' = [how EXCEPT ![b] = how[b]] /\ outcomes' = outcomes BY <1>0, <2>1
    <3> QED BY <1>2, <1>0, <2>1, <3>1, <3>2, <3>3, <3>4
  <2> QED BY <2>2, <2>3
<1>8. CASE AppendOutcome(b)
  <2>1. /\ Alive /\ stage[b] = "returned" /\ stage' = [stage EXCEPT ![b] = "appended"]
        /\ how' = how /\ UNCHANGED Aside
        /\ outcomes' = outcomes \cup {RunRosterBed(cfg, b, Returned(how[b]))}
        BY <1>8, Zenon DEF AppendOutcome, Move
  <2>2. Appended' = Appended \cup {b} BY <2>1 DEF Appended, StageInv, StageTypes
  <2>3. cfg' = cfg BY <2>1 DEF Aside
  <2>4. OutcomesFollow' BY <2>1, <2>2, <2>3, Zenon DEF StageInv, OutcomesFollow
  <2>5. how[b] \in Kinds \ {"panic"} BY <2>1 DEF StageInv, EndsKnown
  <2>6. "appended" \in LaneStages /\ stage[b] \in LaneStages BY <2>1 DEF LaneStages
  <2> QED BY <1>0, <2>1, <2>4, <2>5, <2>6, BedMoves
<1>9. CASE ReleaseLane(b)
  <2>1. /\ Alive /\ stage[b] = "appended" /\ stage' = [stage EXCEPT ![b] = "ended"]
        /\ how' = how /\ UNCHANGED Aside /\ outcomes' = outcomes
        BY <1>9, Zenon DEF ReleaseLane, Move
  <2>2. Appended' = Appended BY <2>1 DEF Appended, StageInv, StageTypes
  <2>3. cfg' = cfg BY <2>1 DEF Aside
  <2>4. OutcomesFollow' BY <2>1, <2>2, <2>3, OutcomesKept DEF StageInv
  <2>5. how[b] \in Kinds \ {"panic"} BY <2>1 DEF StageInv, EndsKnown
  <2>6. stage[b] \in LaneStages BY <2>1 DEF LaneStages
  <2> QED BY <1>0, <2>1, <2>4, <2>5, <2>6, BedMoves
<1>10. CASE StartCapture(b) \/ CloseCapture(b)
  <2>1. UNCHANGED <<Aside, stage, how, outcomes>>
        BY <1>10, Zenon DEF StartCapture, CloseCapture
  <2>2. UNCHANGED <<cfg, bookkeeping, stage, how, outcomes>> /\ UNCHANGED <<process, exit>>
        BY <2>1 DEF Aside
  <2> QED BY <2>2, StageKept
<1> QED BY <1>1, <1>3, <1>4, <1>5, <1>6, <1>7, <1>8, <1>9, <1>10 DEF Progress

\* The steps that build the chains.
LEMMA BuildStep ==
    ASSUME StageInv, BuildRosterChains
    PROVE  StageInv'
<1>1. CASE UnionChains
  <2>1. PICK b \in unchained : \E low, i \in Touched(b) : i # low /\ FoldChain(b, low, i)
        BY <1>1, Zenon DEF UnionChains
  <2>2. PICK low \in Touched(b), i \in Touched(b) : i # low /\ FoldChain(b, low, i)
        BY <2>1
  <2>3. process = "chaining" /\ UNCHANGED <<cfg, process, unchained, stage, how, outcomes, exit>>
        BY <1>1 DEF UnionChains
  <2>4. b \in Beds BY <2>1, SelectedBeds DEF StageInv, ChainsInv, ChainTypes
  <2>5. ChainsInv' BY <2>2, <2>3, <2>4, FoldStep DEF StageInv
  <2> QED BY <2>3, <2>5, StillWaiting
<1>2. CASE ChainBed
  <2>1. PICK b \in unchained : \E idx \in 1..(Len(chains) + 1) :
          /\ Touched(b) \subseteq {idx}
          /\ chains' = IF idx = Len(chains) + 1 THEN Append(chains, <<b>>)
                       ELSE [chains EXCEPT ![idx] = Append(@, b)]
          /\ tokenChain' = [t \in Tokens |-> IF t \in cfg.tokens[b] THEN idx ELSE tokenChain[t]]
          /\ unchained' = unchained \ {b}
        BY <1>2 DEF ChainBed
  <2>2. process = "chaining" /\ UNCHANGED <<cfg, process, stage, how, outcomes, exit>>
        BY <1>2 DEF ChainBed
  <2>3. ChainsInv' BY <2>1, <2>2, ChainStep DEF StageInv
  <2> QED BY <2>2, <2>3, StillWaiting
<1>3. CASE Launch
  <2>1. process = "chaining" /\ process' = "running" /\ exit' = exit
        /\ UNCHANGED <<cfg, bookkeeping, stage, how, outcomes>>
        BY <1>3 DEF Launch
  <2>2. stage' = stage /\ how' = how /\ chains' = chains /\ cfg' = cfg /\ outcomes' = outcomes
        BY <2>1 DEF bookkeeping
  <2>3. ChainsInv' BY <2>1, ChainsKept DEF StageInv
  <2>4. StageTypes' /\ NothingBegun' /\ ExitOpen' /\ InTurn' /\ EndsKnown'
        BY <2>1, <2>2
        DEF StageInv, StageTypes, NothingBegun, ExitOpen, InTurn, EndsKnown
  <2>5. Appended' = Appended BY <2>2 DEF Appended
  <2>6. OutcomesFollow' BY <2>2, <2>5, OutcomesKept DEF StageInv
  <2> QED BY <2>3, <2>4, <2>6 DEF StageInv
<1> QED BY <1>1, <1>2, <1>3 DEF BuildRosterChains

LEMMA StageStep == StageInv /\ [Next]_vars => StageInv'
<1> SUFFICES ASSUME StageInv, [Next]_vars PROVE StageInv'
    OBVIOUS
<1>1. CASE BuildRosterChains BY <1>1, BuildStep
<1>2. CASE Conclude
  <2>1. UNCHANGED <<cfg, bookkeeping, stage, how, outcomes>> /\ process' = "concluded"
        BY <1>2, Zenon DEF Conclude
  <2> QED BY <2>1, StageKept DEF Endings
<1>3. CASE OnBedShutdown
  <2>1. /\ UNCHANGED <<cfg, bookkeeping, stage, how, outcomes>>
        /\ process = "running" /\ process' = "hooked" /\ exit' = exit
        BY <1>3 DEF OnBedShutdown
  <2> QED BY <2>1, StageKept
<1>4. CASE Signal
  <2>1. UNCHANGED <<cfg, bookkeeping, stage, how, outcomes>> /\ process' = "signalled"
        BY <1>4 DEF Signal
  <2> QED BY <2>1, StageKept DEF Endings
<1>5. CASE Drains
  <2>1. UNCHANGED <<Aside, stage, how, outcomes>> BY <1>5, Zenon DEF Drains
  <2>2. UNCHANGED <<cfg, bookkeeping, stage, how, outcomes>> /\ UNCHANGED <<process, exit>>
        BY <2>1 DEF Aside
  <2> QED BY <2>2, StageKept
<1>6. ASSUME NEW b \in Beds, BodyWrites(b) PROVE StageInv'
  <2>1. UNCHANGED <<Aside, stage, how, outcomes>> BY <1>6, Zenon DEF BodyWrites
  <2>2. UNCHANGED <<cfg, bookkeeping, stage, how, outcomes>> /\ UNCHANGED <<process, exit>>
        BY <2>1 DEF Aside
  <2> QED BY <2>2, StageKept
<1>7. CASE UNCHANGED vars
  <2>1. UNCHANGED <<cfg, bookkeeping, stage, how, outcomes>> /\ UNCHANGED <<process, exit>>
        BY <1>7 DEF vars
  <2> QED BY <2>1, StageKept
<1> QED BY <1>1, <1>2, <1>3, <1>4, <1>5, <1>6, <1>7, ProgressStep DEF Next, Over

\* The roster's steps and fd 2.
LEMMA MirrorStep == MirrorInv /\ [Next]_vars => MirrorInv'
<1> SUFFICES ASSUME MirrorInv, [Next]_vars PROVE MirrorInv'
    OBVIOUS
<1>1. CASE UNCHANGED mirror
  <2> USE DEF MirrorInv, MirrorTypeOK, Piped, Open, ChunksKept, InDrain
  <2> QED BY <1>1 DEF mirror
<1>2. CASE BuildRosterChains
  <2>1. UNCHANGED mirror BY <1>2, Zenon DEF BuildRosterChains, UnionChains, ChainBed, Launch
  <2> QED BY <1>1, <2>1
<1>3. CASE Conclude
  <2>1. WriteStderr(Terminal) /\ Terminal \in Chunks BY <1>3, Zenon DEF Conclude, Chunks
  <2> QED BY <2>1, ChunkStep
<1>4. CASE OnBedShutdown \/ Signal \/ Over \/ UNCHANGED vars
  <2>1. UNCHANGED mirror BY <1>4, Zenon DEF OnBedShutdown, Signal, Over, vars
  <2> QED BY <1>1, <2>1
<1>5. CASE Drains
  <2>1. PICK p \in Beds : DrainEnds(p) \/ ChildExits(p) \/ \E c \in Chunks : Mirror(p, c)
        BY <1>5, Zenon DEF Drains
  <2>2. CASE ChildExits(p) BY <2>2, CaptureStep
  <2>3. CASE DrainEnds(p) BY <2>3, ChunkStep
  <2>4. CASE \E c \in Chunks : Mirror(p, c) BY <2>4, ChunkStep
  <2> QED BY <2>1, <2>2, <2>3, <2>4
<1>6. ASSUME NEW b \in Beds, BodyWrites(b) PROVE MirrorInv'
  <2>1. (\E c \in Chunks : WriteStderr(c)) \/ Inherit(b) BY <1>6, Zenon DEF BodyWrites, Chunks
  <2> QED BY <2>1, CaptureStep, ChunkStep
<1>7. ASSUME NEW b \in Beds, Progress(b) PROVE MirrorInv'
  <2>1. CASE StartCapture(b)
    <3>1. CaptureRefused(b) \/ DupStderr(b) \/ RedirectStderr(b) BY <2>1, Zenon DEF StartCapture
    <3> QED BY <3>1, CaptureStep
  <2>2. CASE CloseCapture(b)
    <3>1. RestoreStderr(b) \/ CloseWriteEnd(b) \/ DrainJoined(b) \/ GraceOver(b)
          BY <2>2, Zenon DEF CloseCapture
    <3> QED BY <3>1, CaptureStep
  <2>3. CASE TakeLane(b) \/ SetupFails(b) \/ BeginBedVerdict(b) \/ EnterBody(b)
             \/ EndBedVerdict(b) \/ AppendOutcome(b) \/ ReleaseLane(b)
    <3>1. UNCHANGED mirror
          BY <2>3, Zenon DEF TakeLane, SetupFails, BeginBedVerdict, EnterBody, EndBedVerdict,
                             AppendOutcome, ReleaseLane
    <3> QED BY <1>1, <3>1
  <2>4. ASSUME NEW k \in cfg.kinds, BodyReturns(b, k) PROVE MirrorInv'
    <3>1. UNCHANGED mirror BY <2>4, Zenon DEF BodyReturns
    <3> QED BY <1>1, <3>1
  <2> QED BY <1>7, <2>1, <2>2, <2>3, <2>4 DEF Progress
<1> QED BY <1>2, <1>3, <1>4, <1>5, <1>6, <1>7 DEF Next

-----------------------------------------------------------------------------
(* One lane *)

\* A recorded run has its verdict.  With one lane, one bed at most has left the queue and not
\* ended, and from beginBedVerdict on it is the run the shutdown hook would answer for.
SerialInv ==
    /\ verdict \in [Beds -> {"none", "stopped", "finished"}]
    /\ \A b \in Beds : stage[b] = "recorded" => verdict[b] # "none"
    /\ Lanes = 1 => \A b \in InLane : /\ \A c \in InLane : c = b
                                      /\ stage[b] \in {"begun", "body"} => current = b

LEMMA SerialStarts == Init => SerialInv
BY DEF Init, SerialInv, InLane, LaneStages

\* The first bed into the one lane is alone there.
LEMMA AloneInLane ==
    ASSUME StageInv, NEW b \in Beds, Cardinality(InLane) < Lanes, Lanes = 1
    PROVE  InLane = {}
<1>1. InLane \subseteq Beds BY DEF InLane
<1>2. IsFiniteSet(InLane) BY <1>1, BedsAssumption, FS_Subset
<1>3. Cardinality(InLane) \in Nat BY <1>2, FS_CardinalityType
<1>4. Cardinality(InLane) = 0 BY <1>3
<1> QED BY <1>2, <1>4, FS_EmptySet

\* A step that leaves the lanes alone.
LEMMA SerialKept ==
    ASSUME SerialInv, UNCHANGED <<cfg, stage, verdict, current>>
    PROVE  SerialInv'
<1>1. Lanes' = Lanes /\ InLane' = InLane BY DEF Lanes, Selected, InLane
<1> QED BY <1>1 DEF SerialInv

\* A bed moves on in the lane or leaves it, and nobody else does.
LEMMA SerialMoves ==
    ASSUME StageInv, SerialInv, NEW b \in InLane, NEW to \in LaneStages \cup {"ended"},
           stage' = [stage EXCEPT ![b] = to], cfg' = cfg,
           verdict' = [verdict EXCEPT ![b] = verdict'[b]],
           verdict'[b] \in {"none", "stopped", "finished"},
           to = "recorded" => verdict'[b] # "none",
           to \in {"begun", "body"} /\ Lanes = 1 => current' = b
    PROVE  SerialInv'
<1>1. b \in Beds /\ stage \in [Beds -> Stages] BY DEF InLane, StageInv, StageTypes
<1>2. Lanes' = Lanes BY DEF Lanes, Selected
<1>3. InLane' \subseteq InLane BY <1>1 DEF InLane
<1>4. verdict' \in [Beds -> {"none", "stopped", "finished"}] BY <1>1 DEF SerialInv
<1>5. \A c \in Beds : stage'[c] = "recorded" => verdict'[c] # "none"
  <2>1. \A c \in Beds \ {b} : stage'[c] = stage[c] /\ verdict'[c] = verdict[c]
        BY <1>1 DEF SerialInv
  <2>2. stage'[b] = to BY <1>1
  <2> QED BY <2>1, <2>2 DEF SerialInv
<1>6. Lanes = 1 => \A c \in InLane' : /\ \A d \in InLane' : d = c
                                      /\ stage'[c] \in {"begun", "body"} => current' = c
  <2>1. SUFFICES ASSUME Lanes = 1 PROVE \A c \in InLane' : c = b
        BY <1>1
  <2>2. \A c \in InLane : c = b BY <2>1 DEF SerialInv
  <2> QED BY <1>3, <2>2
<1> QED BY <1>2, <1>4, <1>5, <1>6 DEF SerialInv

\* The steps of one bed.
LEMMA SerialProgress ==
    ASSUME StageInv, SerialInv, NEW b \in Beds, Progress(b)
    PROVE  SerialInv'
<1>0. /\ stage \in [Beds -> Stages] /\ b \in Beds
      /\ verdict \in [Beds -> {"none", "stopped", "finished"}]
      BY DEF StageInv, StageTypes, SerialInv
<1>1. CASE TakeLane(b)
  <2>1. /\ Cardinality(InLane) < Lanes /\ stage[b] = "queued"
        /\ stage' = [stage EXCEPT ![b] = "setup"] /\ UNCHANGED <<Aside, verdict, current>>
        BY <1>1, Zenon DEF TakeLane, Move
  <2>2. cfg' = cfg /\ Lanes' = Lanes BY <2>1 DEF Aside, Lanes, Selected
  <2>3. \A c \in Beds : stage'[c] = "recorded" => stage[c] = "recorded" BY <1>0, <2>1
  <2>4. InLane' \subseteq InLane \cup {b} /\ stage'[b] = "setup" BY <1>0, <2>1 DEF InLane
  <2>5. Lanes = 1 => InLane = {} BY <2>1, AloneInLane
  <2> QED BY <2>1, <2>2, <2>3, <2>4, <2>5 DEF SerialInv
<1>2. CASE SetupFails(b) \/ AppendOutcome(b) \/ ReleaseLane(b)
  <2>1. PICK to \in {"returned", "appended", "ended"} :
            stage' = [stage EXCEPT ![b] = to] /\ stage[b] \in {"setup", "returned", "appended"}
        BY <1>2, Zenon DEF SetupFails, AppendOutcome, ReleaseLane, Move
  <2>2. UNCHANGED <<Aside, verdict, current>>
        BY <1>2, Zenon DEF SetupFails, AppendOutcome, ReleaseLane
  <2>3. b \in InLane /\ to \in LaneStages \cup {"ended"} BY <2>1 DEF InLane, LaneStages
  <2>4. verdict' = [verdict EXCEPT ![b] = verdict'[b]] /\ cfg' = cfg
        BY <1>0, <2>2 DEF Aside
  <2>5. verdict'[b] \in {"none", "stopped", "finished"} BY <1>0, <2>2
  <2> QED BY <2>1, <2>3, <2>4, <2>5, SerialMoves
<1>3. CASE BeginBedVerdict(b)
  <2>1. /\ stage[b] = "setup" /\ stage' = [stage EXCEPT ![b] = "begun"] /\ current' = b
        /\ UNCHANGED <<Aside, verdict>>
        BY <1>3, Zenon DEF BeginBedVerdict, Move, SetCurrent
  <2>2. b \in InLane /\ "begun" \in LaneStages BY <2>1 DEF InLane, LaneStages
  <2>3. verdict' = [verdict EXCEPT ![b] = verdict'[b]] /\ cfg' = cfg
        BY <1>0, <2>1 DEF Aside
  <2>4. verdict'[b] \in {"none", "stopped", "finished"} BY <1>0, <2>1
  <2> QED BY <2>1, <2>2, <2>3, <2>4, SerialMoves
<1>4. CASE EnterBody(b)
  <2>1. /\ stage[b] = "begun" /\ stage' = [stage EXCEPT ![b] = "body"]
        /\ UNCHANGED <<Aside, verdict, current>>
        BY <1>4, Zenon DEF EnterBody, Move
  <2>2. b \in InLane /\ "body" \in LaneStages BY <2>1 DEF InLane, LaneStages
  <2>3. verdict' = [verdict EXCEPT ![b] = verdict'[b]] /\ cfg' = cfg
        BY <1>0, <2>1 DEF Aside
  <2>4. verdict'[b] \in {"none", "stopped", "finished"} BY <1>0, <2>1
  <2>5. Lanes = 1 => current' = b BY <2>1, <2>2 DEF SerialInv
  <2> QED BY <2>1, <2>2, <2>3, <2>4, <2>5, SerialMoves
<1>5. ASSUME NEW k \in cfg.kinds, BodyReturns(b, k) PROVE SerialInv'
  <2>1. /\ stage[b] = "body" /\ stage' = [stage EXCEPT ![b] = "recorded"]
        /\ verdict' = [verdict EXCEPT ![b] = IF @ # "none" THEN @
                                             ELSE IF k = "panic" THEN "stopped" ELSE "finished"]
        /\ UNCHANGED <<Aside, current>>
        BY <1>5, Zenon DEF BodyReturns, Move
  <2>2. b \in InLane /\ "recorded" \in LaneStages BY <2>1 DEF InLane, LaneStages
  <2>3. verdict'[b] \in {"stopped", "finished"} BY <1>0, <2>1
  <2>4. verdict' = [verdict EXCEPT ![b] = verdict'[b]] /\ cfg' = cfg
        BY <1>0, <2>1 DEF Aside
  <2> QED BY <2>1, <2>2, <2>3, <2>4, SerialMoves
<1>6. CASE EndBedVerdict(b)
  <2>1. /\ stage[b] = "recorded" /\ cfg' = cfg /\ verdict' = verdict
        /\ current' = IF current = b THEN NoBed ELSE current
        /\ stage' = stage \/ stage' = [stage EXCEPT ![b] = "returned"]
        BY <1>6, Zenon DEF EndBedVerdict
  <2>2. b \in InLane /\ "returned" \in LaneStages BY <2>1 DEF InLane, LaneStages
  <2>3. verdict' = [verdict EXCEPT ![b] = verdict'[b]]
            /\ verdict'[b] \in {"stopped", "finished"}
        BY <1>0, <2>1 DEF SerialInv
  <2>4. stage' = stage => stage' = [stage EXCEPT ![b] = "recorded"] BY <1>0, <2>1
  <2>5. PICK to \in {"recorded", "returned"} : stage' = [stage EXCEPT ![b] = to]
        BY <2>1, <2>4
  <2> QED BY <2>1, <2>2, <2>3, <2>5, SerialMoves DEF LaneStages
<1>7. CASE StartCapture(b) \/ CloseCapture(b)
  <2>1. UNCHANGED <<Aside, stage, verdict, current>>
        BY <1>7, Zenon DEF StartCapture, CloseCapture
  <2> QED BY <2>1, SerialKept DEF Aside
<1> QED BY <1>1, <1>2, <1>3, <1>4, <1>5, <1>6, <1>7 DEF Progress

LEMMA SerialStep == StageInv /\ SerialInv /\ [Next]_vars => SerialInv'
<1> SUFFICES ASSUME StageInv, SerialInv, [Next]_vars PROVE SerialInv'
    OBVIOUS
<1>1. CASE OnBedShutdown
  <2>1. /\ UNCHANGED <<cfg, stage, current>>
        /\ verdict' = [b \in Beds |-> IF b = current /\ verdict[b] = "none" THEN "stopped"
                                      ELSE verdict[b]]
        BY <1>1, Zenon DEF OnBedShutdown
  <2>2. Lanes' = Lanes /\ InLane' = InLane BY <2>1 DEF Lanes, Selected, InLane
  <2> QED BY <2>1, <2>2 DEF SerialInv
<1>2. CASE BuildRosterChains \/ Conclude \/ Signal \/ Drains \/ Over \/ UNCHANGED vars
  <2>1. UNCHANGED <<cfg, stage, verdict, current>>
        BY <1>2, Zenon DEF BuildRosterChains, UnionChains, ChainBed, Launch, Conclude, Signal,
                           Drains, Aside, Over, vars
  <2> QED BY <2>1, SerialKept
<1>3. ASSUME NEW b \in Beds, BodyWrites(b) PROVE SerialInv'
  <2>1. UNCHANGED <<cfg, stage, verdict, current>>
        BY <1>3, Zenon DEF BodyWrites, Aside
  <2> QED BY <2>1, SerialKept
<1> QED BY <1>1, <1>2, <1>3, SerialProgress DEF Next

-----------------------------------------------------------------------------

\* The invariants hold for every roster.
THEOREM Invariance == Spec => [](MirrorInv /\ StageInv)
<1>1. Init => MirrorInv /\ StageInv BY MirrorStarts, StageStarts DEF Init
<1>2. (MirrorInv /\ StageInv) /\ [Next]_vars => (MirrorInv /\ StageInv)' BY MirrorStep, StageStep
<1> QED BY <1>1, <1>2, PTL DEF Spec

\* A capture that is not open, or was left open when its close had waited long enough.
Settled == {"none", "nil", "left", "closed"}

\* A bed has an open mirror from beginBedVerdict to endBedVerdict only; when the roster has
\* concluded, or its only lane has panicked, no bed is in between.
SettledInv ==
    /\ \A b \in Beds : stage[b] \notin {"begun", "body", "recorded"} => capture[b] \in Settled
    /\ process = "concluded" \/ (process = "panicked" /\ Lanes = 1) =>
           \A b \in Beds : capture[b] \in Settled

LEMMA SettledStarts == Init => SettledInv
BY DEF Init, MirrorInit, SettledInv, Settled

\* The mirror, the process and the lanes are left alone, and no mirror is open where a bed goes.
LEMMA SettledMoves ==
    ASSUME StageInv, SettledInv, NEW b \in Beds, NEW to,
           UNCHANGED <<Aside, capture>>, stage' = [stage EXCEPT ![b] = to],
           to \notin {"begun", "body", "recorded"} => capture[b] \in Settled
    PROVE  SettledInv'
<1>1. stage \in [Beds -> Stages] BY DEF StageInv, StageTypes
<1>2. Lanes' = Lanes /\ process' = process /\ capture' = capture
      BY DEF Aside, Lanes, Selected
<1> QED BY <1>1, <1>2 DEF SettledInv

\* The steps of one bed.
LEMMA SettledProgress ==
    ASSUME MirrorInv, StageInv, SerialInv, SettledInv, NEW b \in Beds, Progress(b)
    PROVE  SettledInv'
<1>0. stage \in [Beds -> Stages] /\ capture \in [Beds -> CaptureStates]
      BY DEF StageInv, StageTypes, MirrorInv, MirrorTypeOK
<1>1. ASSUME NEW from \in Stages \ {"begun", "body", "recorded"}, NEW to, stage[b] = from,
             stage' = [stage EXCEPT ![b] = to], UNCHANGED <<Aside, capture>>
      PROVE  SettledInv'
  <2>1. capture[b] \in Settled BY <1>1 DEF SettledInv
  <2> QED BY <1>1, <2>1, SettledMoves
<1>2. CASE TakeLane(b) \/ SetupFails(b) \/ BeginBedVerdict(b) \/ AppendOutcome(b) \/ ReleaseLane(b)
  <2>1. PICK from \in {"queued", "setup", "returned", "appended"} : stage[b] = from
        BY <1>2, Zenon DEF TakeLane, SetupFails, BeginBedVerdict, AppendOutcome, ReleaseLane, Move
  <2>2. PICK to \in Stages : stage' = [stage EXCEPT ![b] = to]
        BY <1>2, Zenon DEF TakeLane, SetupFails, BeginBedVerdict, AppendOutcome, ReleaseLane, Move,
                           Stages, LaneStages
  <2>3. UNCHANGED <<Aside, mirror>>
        BY <1>2, Zenon DEF TakeLane, SetupFails, BeginBedVerdict, AppendOutcome, ReleaseLane
  <2>4. from \in Stages \ {"begun", "body", "recorded"} BY DEF Stages, LaneStages
  <2>5. UNCHANGED <<Aside, capture>> BY <2>3 DEF mirror
  <2> QED BY <1>1, <2>1, <2>2, <2>4, <2>5
<1>3. CASE EnterBody(b) \/ \E k \in cfg.kinds : BodyReturns(b, k)
  <2>1. PICK to \in {"body", "recorded"} : stage' = [stage EXCEPT ![b] = to]
        BY <1>3, Zenon DEF EnterBody, BodyReturns, Move
  <2>2. UNCHANGED <<Aside, mirror>> BY <1>3, Zenon DEF EnterBody, BodyReturns
  <2>3. UNCHANGED <<Aside, capture>> BY <2>2 DEF mirror
  <2> QED BY <2>1, <2>3, SettledMoves
<1>4. CASE StartCapture(b) \/ CloseCapture(b)
  <2>1. /\ UNCHANGED <<Aside, stage>> /\ stage[b] \in {"begun", "recorded"} /\ Alive
        /\ \/ CaptureRefused(b) \/ DupStderr(b) \/ RedirectStderr(b) \/ RestoreStderr(b)
           \/ CloseWriteEnd(b) \/ DrainJoined(b) \/ GraceOver(b)
        BY <1>4, Zenon DEF StartCapture, CloseCapture
  <2>2. \A c \in Beds \ {b} : capture'[c] = capture[c]
        BY <1>0, <2>1 DEF CaptureRefused, DupStderr, RedirectStderr, RestoreStderr, CloseWriteEnd,
                         DrainJoined, GraceOver
  <2>3. process' = process /\ process \in {"running", "hooked"} /\ stage' = stage
        BY <2>1 DEF Aside, Alive
  <2> QED BY <2>1, <2>2, <2>3 DEF SettledInv
<1>5. CASE EndBedVerdict(b)
  <2>1. /\ CloseReturned(b) /\ Alive /\ stage[b] = "recorded"
        /\ UNCHANGED <<cfg, bookkeeping, exit, how, verdict, outcomes, mirror>>
        /\ \/ how[b] = "panic" /\ process' = "panicked" /\ stage' = stage
           \/ stage' = [stage EXCEPT ![b] = "returned"] /\ process' = process
        BY <1>5, Zenon DEF EndBedVerdict
  <2>2. capture[b] \in Settled BY <2>1 DEF CloseReturned, Settled
  <2>3. capture' = capture /\ Lanes' = Lanes BY <2>1 DEF mirror, Lanes, Selected
  <2>4. CASE process' = "panicked" /\ stage' = stage
    <3>1. Lanes = 1 => \A c \in Beds \ {b} : stage[c] \notin LaneStages
      <4>1. b \in InLane BY <2>1 DEF InLane, LaneStages
      <4> QED BY <4>1 DEF SerialInv, InLane
    <3>2. Lanes = 1 => \A c \in Beds : capture[c] \in Settled
          BY <2>2, <3>1 DEF SettledInv, LaneStages
    <3> QED BY <2>3, <2>4, <3>2 DEF SettledInv
  <2>5. CASE stage' = [stage EXCEPT ![b] = "returned"] /\ process' = process
    <3>1. UNCHANGED <<Aside, capture>> BY <2>1, <2>3, <2>5 DEF Aside, bookkeeping
    <3> QED BY <2>2, <2>5, <3>1, SettledMoves
  <2> QED BY <2>1, <2>4, <2>5
<1> QED BY <1>2, <1>3, <1>4, <1>5 DEF Progress

LEMMA SettledStep ==
    MirrorInv /\ StageInv /\ SerialInv /\ SettledInv /\ [Next]_vars => SettledInv'
<1> SUFFICES ASSUME MirrorInv, StageInv, SerialInv, SettledInv, [Next]_vars PROVE SettledInv'
    OBVIOUS
<1>1. ASSUME UNCHANGED <<cfg, stage, capture>>,
             process' = process \/ process' \notin {"concluded", "panicked"}
      PROVE  SettledInv'
  <2>1. Lanes' = Lanes BY <1>1 DEF Lanes, Selected
  <2> QED BY <1>1, <2>1 DEF SettledInv
<1>2. CASE Conclude
  <2>1. /\ \A b \in Selected : stage[b] = "ended"
        /\ process' = "concluded" /\ stage' = stage /\ capture' = capture
        BY <1>2 DEF Conclude, WriteStderr
  <2>2. \A b \in Beds : stage[b] \in {"queued", "ended"}
    <3>1. ASSUME NEW b \in Beds, stage[b] # "queued" PROVE b \in Selected
          BY <3>1 DEF StageInv, ChainsInv, InTurn
    <3> QED BY <2>1, <3>1
  <2>3. \A b \in Beds : capture[b] \in Settled BY <2>2 DEF SettledInv
  <2> QED BY <2>1, <2>3 DEF SettledInv
<1>3. CASE BuildRosterChains
  <2>1. UNCHANGED <<cfg, stage, mirror>> /\ process' \in {process, "running"}
        BY <1>3, Zenon DEF BuildRosterChains, UnionChains, ChainBed, Launch
  <2> QED BY <1>1, <2>1 DEF mirror
<1>4. CASE OnBedShutdown \/ Signal \/ Over \/ UNCHANGED vars
  <2>1. UNCHANGED <<cfg, stage, mirror>> /\ process' \in {process, "hooked", "signalled"}
        BY <1>4, Zenon DEF OnBedShutdown, Signal, Over, vars
  <2> QED BY <1>1, <2>1 DEF mirror
<1>5. CASE Drains
  <2>1. UNCHANGED <<cfg, stage, process, capture>>
        BY <1>5, Zenon DEF Drains, DrainEnds, ChildExits, Mirror, Aside
  <2> QED BY <1>1, <2>1
<1>6. ASSUME NEW b \in Beds, BodyWrites(b) PROVE SettledInv'
  <2>1. UNCHANGED <<cfg, stage, process, capture>>
        BY <1>6, Zenon DEF BodyWrites, WriteStderr, Inherit, Aside
  <2> QED BY <1>1, <2>1
<1> QED BY <1>2, <1>3, <1>4, <1>5, <1>6, SettledProgress DEF Next

\* What any bed, its children or the roster writes to fd 2 is never lost, however the captures
\* of the beds nest in each other: while the process lives a drain is at it, and what a process
\* leaves behind is in a pipe a close gave up on, or in one of a run it died in the middle of
\* (bed_stderr.go:42-61).
THEOREM NothingIsLost == Spec => []NoChunkLost
<1>1. ASSUME MirrorInv, SettledInv PROVE NoChunkLost
  <2>1. SUFFICES ASSUME NEW c \in written \ shown
                 PROVE  \E p \in Beds :
                            /\ InDrain(c, p)
                            /\ process = "concluded" \/ (process = "panicked" /\ Lanes = 1)
                                   => capture[p] = "left"
        BY DEF NoChunkLost
  <2>2. PICK p \in Beds : InDrain(c, p) BY <1>1 DEF MirrorInv, ChunksKept
  <2>3. p \in Open BY <1>1, <2>2 DEF MirrorInv, InDrain, Piped
  <2>4. capture[p] \in Settled => capture[p] = "left" BY <2>3 DEF Open, Settled
  <2> QED BY <1>1, <2>2, <2>4 DEF SettledInv
<1>2. Init => SerialInv /\ SettledInv BY SerialStarts, SettledStarts
<1>3. (MirrorInv /\ StageInv) /\ (SerialInv /\ SettledInv) /\ [Next]_vars
          => (SerialInv /\ SettledInv)'
      BY SerialStep, SettledStep
<1> QED BY <1>1, <1>2, <1>3, Invariance, PTL DEF Spec

\* With one lane, whichever bed of the process is under way when the shutdown hook runs, the
\* hook's one current run is that bed's (bed_verdict.go:147).
THEOREM SerialSaysWhy == Spec => SerialRunsSayWhy
<1>1. Init => SerialInv BY SerialStarts
<1>2. StageInv /\ SerialInv /\ [Next]_vars => [Lanes = 1 => HookSaysWhy]_vars
  <2> SUFFICES ASSUME StageInv, SerialInv, [Next]_vars, Lanes = 1,
                      process = "running", process' = "hooked",
                      NEW b \in Beds, stage[b] \in {"begun", "body", "recorded"}
               PROVE  verdict'[b] # "none"
      BY DEF HookSaysWhy
  <2>1. OnBedShutdown
    <3>1. process' # process /\ process' # "concluded" /\ process' # "signalled"
          /\ process' # "panicked"
          OBVIOUS
    <3>2. ~BuildRosterChains /\ ~Conclude /\ ~Signal /\ ~Drains /\ ~Over /\ ~UNCHANGED vars
          BY <3>1, Zenon
          DEF BuildRosterChains, UnionChains, ChainBed, Launch, Conclude, Signal, Drains, Aside,
              Over, vars
    <3>3. ASSUME NEW c \in Beds, BodyWrites(c) PROVE FALSE
          BY <3>1, <3>3, Zenon DEF BodyWrites, Aside
    <3>4. ASSUME NEW c \in Beds, Progress(c) PROVE FALSE
          BY <3>1, <3>4, Zenon
          DEF Progress, TakeLane, SetupFails, BeginBedVerdict, StartCapture, EnterBody,
              BodyReturns, CloseCapture, EndBedVerdict, AppendOutcome, ReleaseLane, Aside
    <3> QED BY <3>2, <3>3, <3>4 DEF Next
  <2>2. verdict'[b] = IF b = current /\ verdict[b] = "none" THEN "stopped" ELSE verdict[b]
        BY <2>1 DEF OnBedShutdown
  <2>3. b \in InLane BY DEF InLane, LaneStages
  <2>4. stage[b] = "recorded" \/ current = b BY <2>3 DEF SerialInv
  <2> QED BY <2>2, <2>4 DEF SerialInv
<1>3. Spec => []SerialInv
  <2>1. StageInv /\ SerialInv /\ [Next]_vars => SerialInv' BY SerialStep
  <2> QED BY <1>1, <2>1, Invariance, PTL DEF Spec
<1> QED BY <1>2, <1>3, Invariance, PTL DEF Spec, SerialRunsSayWhy

-----------------------------------------------------------------------------
(* The promise *)

\* What runRosterBed makes of a bed that ended without a panic.
LEMMA OutcomeOf ==
    ASSUME NEW b \in Beds, NEW k \in Kinds \ {"panic"}, NEW o,
           o = RunRosterBed(cfg, b, Returned(k))
    PROVE  /\ EndOf(b, k) \in Promise!Endings
           /\ o.skipped <=> EndOf(b, k) = "prereq"
           /\ o.unproven <=> EndOf(b, k) = "unproven"
           /\ o.ok <=> EndOf(b, k) = "proved"
           /\ EndOf(b, k) = "failed" => o.code = 2
           /\ EndOf(b, k) = "broken" => o.code # 2
<1> DEFINE r == Returned(k)
<1>0. \A code, flags :
          LET x == Outcome(b, code, flags)
          IN  /\ x.code = code /\ (x.ok <=> "ok" \in flags)
              /\ (x.skipped <=> "skipped" \in flags) /\ (x.unproven <=> "unproven" \in flags)
      BY DEF Outcome
<1>1. CASE k = "prereq"
  <2>1. r.skipped BY <1>1 DEF Returned
  <2>2. o = Outcome(b, 0, {"skipped"}) BY <2>1 DEF RunRosterBed
  <2>3. EndOf(b, k) = "prereq" BY <1>1 DEF EndOf
  <2> QED BY <1>0, <2>2, <2>3 DEF Promise!Endings
<1>2. CASE k # "prereq" /\ b \in cfg.expectedFail
  <2>1. ~r.skipped BY <1>2 DEF Returned
  <2>2. CASE k = "checks"
    <3>1. r.code = 2 BY <2>2 DEF Returned
    <3>2. o = Outcome(b, 2, {"ok"}) BY <1>2, <2>1, <3>1 DEF RunRosterBed
    <3>3. EndOf(b, k) = "proved" BY <1>2, <2>2 DEF EndOf
    <3> QED BY <1>0, <3>2, <3>3 DEF Promise!Endings
  <2>3. CASE k # "checks"
    <3>1. r.code \in {0, 1} BY <2>3 DEF Returned
    <3>2. \E code \in {0, 1} : o = Outcome(b, code, {}) BY <1>2, <2>1, <3>1 DEF RunRosterBed
    <3>3. EndOf(b, k) = "broken" BY <1>2, <2>3 DEF EndOf
    <3> QED BY <1>0, <3>2, <3>3 DEF Promise!Endings
  <2> QED BY <2>2, <2>3
<1>3. CASE k = "pass" /\ b \notin cfg.expectedFail
  <2>1. ~r.skipped /\ ~r.nil /\ r.ok /\ r.proved /\ ~r.err /\ r.code = 0 BY <1>3 DEF Returned
  <2>2. o = Outcome(b, 0, {"ok"}) BY <1>3, <2>1 DEF RunRosterBed
  <2>3. EndOf(b, k) = "proved" BY <1>3 DEF EndOf
  <2> QED BY <1>0, <2>2, <2>3 DEF Promise!Endings
<1>4. CASE k = "unproven" /\ b \notin cfg.expectedFail
  <2>1. ~r.skipped /\ ~r.nil /\ r.ok /\ ~r.proved /\ ~r.err /\ r.code = 0 BY <1>4 DEF Returned
  <2>2. o = Outcome(b, 3, {"unproven"}) BY <1>4, <2>1 DEF RunRosterBed
  <2>3. EndOf(b, k) = "unproven" BY <1>4 DEF EndOf
  <2> QED BY <1>0, <2>2, <2>3 DEF Promise!Endings
<1>5. CASE k = "checks" /\ b \notin cfg.expectedFail
  <2>1. ~r.skipped /\ ~r.ok /\ r.code = 2 BY <1>5 DEF Returned
  <2>2. o = Outcome(b, 2, {}) BY <1>5, <2>1 DEF RunRosterBed
  <2>3. EndOf(b, k) = "failed" BY <1>5 DEF EndOf
  <2> QED BY <1>0, <2>2, <2>3 DEF Promise!Endings
<1>6. CASE k \in {"infra", "setup"} /\ b \notin cfg.expectedFail
  <2>1. ~r.skipped /\ ~r.ok /\ r.err /\ r.code \in {0, 1} BY <1>6 DEF Returned
  <2>2. o = Outcome(b, 1, {}) BY <1>6, <2>1 DEF RunRosterBed
  <2>3. EndOf(b, k) = "broken" BY <1>6 DEF EndOf
  <2> QED BY <1>0, <2>2, <2>3 DEF Promise!Endings
<1> QED BY <1>1, <1>2, <1>3, <1>4, <1>5, <1>6 DEF Kinds

\* When all beds have ended, the exit code is a function of how they ended.
LEMMA ExitCode ==
    ASSUME StageInv, \A b \in Selected : stage[b] = "ended"
    PROVE  AggregateRoster(outcomes) = Promise!ExitOf({EndOf(b, how[b]) : b \in Selected})
<1> DEFINE R(b) == RunRosterBed(cfg, b, Returned(how[b]))
           E(b) == EndOf(b, how[b])
           hows == {E(b) : b \in Selected}
<1>1. Selected \subseteq Beds BY SelectedBeds DEF StageInv, ChainsInv, ChainTypes
<1>2. Appended = Selected
  <2>1. ASSUME NEW b \in Appended PROVE b \in Selected
    <3>1. b \in Beds /\ stage[b] # "queued" BY <2>1 DEF Appended
    <3>2. PICK i, k : IsPlace(chains, i, k) /\ chains[i][k] = b
          BY <3>1, Zenon DEF StageInv, InTurn
    <3> QED BY <3>2 DEF StageInv, ChainsInv
  <2>2. Selected \subseteq Appended BY <1>1 DEF Appended
  <2> QED BY <2>1, <2>2
<1>3. outcomes = {R(b) : b \in Selected} BY <1>2, Zenon DEF StageInv, OutcomesFollow
<1>4. \A b \in Selected :
          /\ E(b) \in Promise!Endings
          /\ R(b).skipped <=> E(b) = "prereq"
          /\ R(b).unproven <=> E(b) = "unproven"
          /\ R(b).ok <=> E(b) = "proved"
          /\ E(b) = "failed" => R(b).code = 2
          /\ E(b) = "broken" => R(b).code # 2
  <2> TAKE b \in Selected
  <2>1. b \in Beds /\ how[b] \in Kinds \ {"panic"} BY <1>1 DEF StageInv, EndsKnown
  <2> QED BY <2>1, OutcomeOf, Zenon
<1> HIDE DEF R, E
<1> DEFINE failed == {o \in outcomes : ~o.skipped /\ ~o.unproven /\ ~o.ok}
           skipped == {o \in outcomes : o.skipped}
           unproven == {o \in outcomes : o.unproven}
<1>5. failed = {} <=> "broken" \notin hows /\ "failed" \notin hows
      BY <1>3, <1>4 DEF Promise!Endings
<1>6. (\E o \in failed : o.code # 2) <=> "broken" \in hows
      BY <1>3, <1>4 DEF Promise!Endings
<1>7. unproven # {} <=> "unproven" \in hows
      BY <1>3, <1>4
<1>8. skipped = outcomes /\ outcomes # {} <=> hows = {"prereq"}
      BY <1>3, <1>4
<1>9. AggregateRoster(outcomes) =
        IF failed = {} THEN IF (skipped = outcomes /\ outcomes # {}) \/ unproven # {} THEN 3 ELSE 0
        ELSE IF \E o \in failed : o.code # 2 THEN 1 ELSE 2
      BY Zenon DEF AggregateRoster
<1> HIDE DEF failed, skipped, unproven, hows
<1>10. AggregateRoster(outcomes) = Promise!ExitOf(hows)
      BY <1>5, <1>6, <1>7, <1>8, <1>9 DEF Promise!ExitOf
<1> QED BY <1>10 DEF hows, E

\* A bed that takes a lane shares no token with a bed that has one.
LEMMA LanesDisjoint ==
    ASSUME StageInv, NEW b \in Beds, Turn(b), stage[b] = "queued",
           NEW c \in InLane
    PROVE  cfg.tokens[b] \cap cfg.tokens[c] = {}
<1>1. PICK i, k : IsPlace(chains, i, k) /\ chains[i][k] = b /\
                  \A j \in 1..(k - 1) : stage[chains[i][j]] = "ended"
      BY DEF Turn, IsPlace
<1>2. c \in Beds /\ stage[c] # "queued" /\ stage[c] # "ended" BY DEF InLane, LaneStages
<1>3. PICK p, u : IsPlace(chains, p, u) /\ chains[p][u] = c
      BY <1>2, Zenon DEF StageInv, InTurn
<1>4. SUFFICES ASSUME NEW t \in cfg.tokens[b], t \in cfg.tokens[c] PROVE FALSE
      OBVIOUS
<1>5. tokenChain[t] = i /\ tokenChain[t] = p BY <1>1, <1>3, <1>4 DEF StageInv, ChainsInv
<1>6. chains[i] \in Seq(Beds) /\ k \in 1..Len(chains[i]) /\ u \in 1..Len(chains[i])
      /\ Len(chains[i]) \in Nat
      BY <1>1, <1>3, <1>5 DEF IsPlace, StageInv, ChainsInv, ChainTypes
<1>7. k # u BY <1>1, <1>2, <1>3, <1>5
<1>8. CASE u < k
  <2>1. u \in 1..(k - 1) BY <1>6, <1>8
  <2> QED BY <1>1, <1>2, <1>3, <1>5, <2>1
<1>9. CASE k < u
  <2>1. k \in 1..(u - 1) BY <1>6, <1>9
  <2>2. stage[chains[p][k]] = "ended" BY <1>2, <1>3, <2>1 DEF StageInv, InTurn
  <2> QED BY <1>1, <1>5, <2>2
<1> QED BY <1>6, <1>7, <1>8, <1>9

\* There is always a lane.
LEMMA LanesPositive ==
    ASSUME cfg \in Configs
    PROVE  Lanes \in Nat \ {0}
<1>1. Cardinality(Selected) \in Nat BY SelectedBeds
<1>2. /\ cfg.lanes \in Int /\ cfg.cpus \in Nat /\ cfg.memory \in Nat /\ cfg.budget \in Nat \ {0}
      BY ConfigTypes
<1>3. RosterMemCeiling(cfg) \in Nat
  <2>1. cfg.memory \div cfg.budget \in Int BY <1>2
  <2> QED BY <2>1 DEF RosterMemCeiling
<1> DEFINE n == Cardinality(Selected)
           lanes == cfg.lanes
           cpus == cfg.cpus
           mem == RosterMemCeiling(cfg)
<1>4. n \in Nat /\ lanes \in Int /\ cpus \in Nat /\ mem \in Nat BY <1>1, <1>2, <1>3
<1>5. DefaultRosterLanes(cfg, n) = IF n < 1 THEN 1 ELSE AtLeastOne(AtMost(cpus, n))
      BY Zenon DEF DefaultRosterLanes
<1> DEFINE asked == IF lanes < 1 THEN DefaultRosterLanes(cfg, n) ELSE lanes
           byCpu == IF cpus > 0 THEN AtMost(asked, cpus) ELSE asked
           byBed == AtMost(byCpu, n)
           byMem == IF mem > 0 THEN AtMost(byBed, mem) ELSE byBed
<1>6. Lanes = AtLeastOne(byMem) BY Zenon DEF Lanes, ClampRosterLanes
<1> HIDE DEF n, lanes, cpus, mem
<1>7. asked \in Int BY <1>4, <1>5 DEF AtLeastOne, AtMost
<1> HIDE DEF asked
<1>8. byMem \in Int BY <1>4, <1>7 DEF AtMost
<1> HIDE DEF byMem
<1> QED BY <1>6, <1>8 DEF AtLeastOne

\* What the promise sees of a step that starts and ends no bed.
LEMMA PromiseUnmoved ==
    ASSUME UNCHANGED <<cfg, exit>>, InLane' = InLane, \A b \in Beds : Ending(b)' = Ending(b)
    PROVE  UNCHANGED Promise!vars
BY DEF Promise!vars, Selected, Lanes

\* A bed that is not ended before and after a step has the ending "none" all along.
LEMMA NotEnded ==
    ASSUME StageTypes, NEW b \in Beds, cfg' = cfg, how' = [how EXCEPT ![b] = how'[b]],
           stage' = [stage EXCEPT ![b] = stage'[b]], stage[b] # "ended", stage'[b] # "ended"
    PROVE  \A c \in Beds : Ending(c)' = Ending(c)
<1> SUFFICES ASSUME NEW c \in Beds PROVE Ending(c)' = Ending(c)
    OBVIOUS
<1>1. CASE c = b BY <1>1 DEF Ending
<1>2. CASE c # b
  <2>1. stage'[c] = stage[c] /\ how'[c] = how[c] BY <1>2 DEF StageTypes
  <2>2. EndOf(c, how[c])' = EndOf(c, how[c]) BY <2>1 DEF EndOf
  <2> QED BY <2>1, <2>2 DEF Ending
<1> QED BY <1>1, <1>2

LEMMA PromiseStarts == Init => Promise!Init
<1> SUFFICES ASSUME Init PROVE Promise!Init
    OBVIOUS
<1>1. cfg \in Configs /\ exit = 9 /\ stage = [b \in Beds |-> "queued"] BY Zenon DEF Init
<1>2. Selected \subseteq Beds /\ Lanes \in Nat \ {0} BY <1>1, SelectedBeds, LanesPositive
<1>3. cfg.tokens \in [Beds -> SUBSET Tokens] BY <1>1, ConfigTypes
<1>4. InLane = {} BY <1>1 DEF InLane, LaneStages
<1>5. [b \in Beds |-> Ending(b)] = [b \in Beds |-> "none"] BY <1>1 DEF Ending
<1> QED BY <1>1, <1>2, <1>3, <1>4, <1>5 DEF Promise!Init

\* A bed that goes on in its lane is nothing the promise sees.
LEMMA MovesUnseen ==
    ASSUME StageTypes, NEW b \in Beds, NEW to \in LaneStages, stage[b] \in LaneStages,
           stage' = [stage EXCEPT ![b] = to], NEW k, how' = [how EXCEPT ![b] = k],
           UNCHANGED <<cfg, exit>>
    PROVE  UNCHANGED Promise!vars
<1>1. stage'[b] = to /\ how'[b] = k BY DEF StageTypes
<1>2. stage[b] # "ended" /\ stage'[b] # "ended" BY <1>1 DEF LaneStages
<1>3. \A c \in Beds : Ending(c)' = Ending(c) BY <1>1, <1>2, NotEnded
<1>4. InLane' = InLane BY <1>1 DEF InLane, StageTypes
<1> QED BY <1>3, <1>4, PromiseUnmoved

\* What leaves the beds alone is nothing the promise sees.
LEMMA Unseen ==
    ASSUME UNCHANGED <<cfg, stage, how, exit>>
    PROVE  UNCHANGED Promise!vars
<1>1. InLane' = InLane BY DEF InLane
<1>2. \A c \in Beds : Ending(c)' = Ending(c) BY DEF Ending, EndOf
<1> QED BY <1>1, <1>2, PromiseUnmoved

LEMMA ProgressKeepsPromise ==
    ASSUME StageInv, NEW b \in Beds, Progress(b)
    PROVE  Promise!Next \/ UNCHANGED Promise!vars
<1> USE DEF StageInv
<1>0. how[b] \in Kinds \cup {"none"} /\ how = [how EXCEPT ![b] = how[b]]
      BY DEF StageTypes
<1>1. CASE TakeLane(b)
  <2>1. /\ Turn(b) /\ stage[b] = "queued" /\ stage' = [stage EXCEPT ![b] = "setup"]
        /\ Cardinality(InLane) < Lanes
        /\ UNCHANGED Aside /\ how' = how
        BY <1>1, Zenon DEF TakeLane, Move
  <2>2. cfg' = cfg /\ exit' = exit BY <2>1 DEF Aside
  <2>3. Selected' = Selected /\ Lanes' = Lanes BY <2>2 DEF Selected, Lanes
  <2>4. b \in Selected
    <3>1. PICK i, k : IsPlace(chains, i, k) /\ chains[i][k] = b BY <2>1 DEF Turn, IsPlace
    <3> QED BY <3>1 DEF ChainsInv
  <2>5. b \notin InLane /\ InLane' = InLane \cup {b}
        BY <2>1 DEF InLane, StageTypes, LaneStages
  <2>6. \A c \in InLane : cfg.tokens[b] \cap cfg.tokens[c] = {} BY <2>1, LanesDisjoint
  <2>7. stage'[b] = "setup" /\ how' = [how EXCEPT ![b] = how'[b]] BY <1>0, <2>1 DEF StageTypes
  <2>8. \A c \in Beds : Ending(c)' = Ending(c) BY <2>1, <2>2, <2>7, NotEnded
  <2>9. Ending(b) = "none" BY <2>1 DEF Ending
  <2>10. [c \in Beds |-> Ending(c)][b] = "none" BY <2>9
  <2>11. UNCHANGED <<Selected, cfg.tokens, Lanes, [c \in Beds |-> Ending(c)], exit>>
         BY <2>2, <2>3, <2>8
  <2>12. b \in Selected \ InLane BY <2>4, <2>5
  <2>13. Promise!Cardinality(InLane) < Lanes
         BY <2>1, SMT DEF Promise!Cardinality, Cardinality
  <2>14. Promise!Begin(b)
         BY <2>5, <2>6, <2>10, <2>11, <2>12, <2>13, Zenon DEF Promise!Begin
  <2> QED BY <2>14 DEF Promise!Next
<1>2. CASE ReleaseLane(b)
  <2>1. /\ stage[b] = "appended" /\ stage' = [stage EXCEPT ![b] = "ended"]
        /\ UNCHANGED Aside /\ how' = how
        BY <1>2, Zenon DEF ReleaseLane, Move
  <2>2. cfg' = cfg /\ exit' = exit BY <2>1 DEF Aside
  <2>3. Selected' = Selected /\ Lanes' = Lanes BY <2>2 DEF Selected, Lanes
  <2>4. b \in InLane /\ InLane' = InLane \ {b} BY <2>1 DEF InLane, StageTypes, LaneStages
  <2>5. EndOf(b, how[b]) \in Promise!Endings
    <3>1. how[b] \in Kinds \ {"panic"} BY <2>1 DEF EndsKnown
    <3> QED BY <3>1, OutcomeOf
  <2>6. Ending(b)' = EndOf(b, how[b]) BY <2>1, <2>2 DEF Ending, EndOf, StageTypes
  <2>7. \A c \in Beds \ {b} : Ending(c)' = Ending(c) BY <2>1, <2>2 DEF Ending, EndOf, StageTypes
  <2>8. [c \in Beds |-> Ending(c)'] = [[c \in Beds |-> Ending(c)] EXCEPT ![b] = EndOf(b, how[b])]
        BY <2>6, <2>7
  <2>9. Promise!End(b) BY <2>2, <2>3, <2>4, <2>5, <2>8 DEF Promise!End
  <2> QED BY <2>9 DEF Promise!Next
<1>3. ASSUME NEW to \in LaneStages, NEW k, stage[b] \in LaneStages,
             stage' = [stage EXCEPT ![b] = to], how' = [how EXCEPT ![b] = k], UNCHANGED Aside
      PROVE  UNCHANGED Promise!vars
  <2>1. UNCHANGED <<cfg, exit>> BY <1>3 DEF Aside
  <2> QED BY <1>3, <2>1, MovesUnseen
<1> USE DEF LaneStages
<1>4. CASE SetupFails(b)
  <2>1. /\ stage[b] = "setup" /\ stage' = [stage EXCEPT ![b] = "returned"]
        /\ how' = [how EXCEPT ![b] = "setup"] /\ UNCHANGED Aside
        BY <1>4, Zenon DEF SetupFails, Move
  <2> QED BY <1>3, <2>1
<1>5. CASE BeginBedVerdict(b)
  <2>1. /\ stage[b] = "setup" /\ stage' = [stage EXCEPT ![b] = "begun"] /\ how' = how
        /\ UNCHANGED Aside
        BY <1>5, Zenon DEF BeginBedVerdict, Move
  <2> QED BY <1>3, <1>0, <2>1
<1>6. CASE EnterBody(b)
  <2>1. /\ stage[b] = "begun" /\ stage' = [stage EXCEPT ![b] = "body"] /\ how' = how
        /\ UNCHANGED Aside
        BY <1>6, Zenon DEF EnterBody, Move
  <2> QED BY <1>3, <1>0, <2>1
<1>7. ASSUME NEW k \in cfg.kinds, BodyReturns(b, k) PROVE UNCHANGED Promise!vars
  <2>1. /\ stage[b] = "body" /\ stage' = [stage EXCEPT ![b] = "recorded"]
        /\ how' = [how EXCEPT ![b] = k] /\ UNCHANGED Aside
        BY <1>7, Zenon DEF BodyReturns, Move
  <2>2. UNCHANGED <<cfg, exit>> BY <2>1 DEF Aside
  <2> QED BY <2>1, <2>2, MovesUnseen
<1>8. CASE EndBedVerdict(b)
  <2>1. stage[b] = "recorded" /\ UNCHANGED <<cfg, bookkeeping, exit, how>>
        BY <1>8 DEF EndBedVerdict
  <2>2. CASE how[b] = "panic"
    <3>1. stage' = stage BY <1>8, <2>2 DEF EndBedVerdict
    <3> QED BY <2>1, <3>1, Unseen
  <2>3. CASE how[b] # "panic"
    <3>1. stage' = [stage EXCEPT ![b] = "returned"] /\ process' = process
          BY <1>8, <2>3 DEF EndBedVerdict
    <3>2. UNCHANGED <<cfg, exit>> /\ how' = [how EXCEPT ![b] = how[b]] BY <1>0, <2>1
    <3> QED BY <2>1, <3>1, <3>2, MovesUnseen
  <2> QED BY <2>2, <2>3
<1>9. CASE AppendOutcome(b)
  <2>1. /\ stage[b] = "returned" /\ stage' = [stage EXCEPT ![b] = "appended"] /\ how' = how
        /\ UNCHANGED Aside
        BY <1>9, Zenon DEF AppendOutcome, Move
  <2> QED BY <1>3, <1>0, <2>1
<1>10. CASE StartCapture(b) \/ CloseCapture(b)
  <2>1. UNCHANGED <<Aside, stage, how>> BY <1>10, Zenon DEF StartCapture, CloseCapture
  <2>2. UNCHANGED <<cfg, stage, how, exit>> BY <2>1 DEF Aside
  <2> QED BY <2>2, Unseen
<1> QED BY <1>1, <1>2, <1>4, <1>5, <1>6, <1>7, <1>8, <1>9, <1>10 DEF Progress

LEMMA PromiseStep == StageInv /\ [Next]_vars => [Promise!Next]_(Promise!vars)
<1> SUFFICES ASSUME StageInv, [Next]_vars PROVE Promise!Next \/ UNCHANGED Promise!vars
    OBVIOUS
<1>1. CASE Conclude
  <2>1. /\ Alive /\ \A b \in Selected : stage[b] = "ended"
        /\ exit' = AggregateRoster(outcomes) /\ UNCHANGED <<cfg, stage, how>>
        BY <1>1, Zenon DEF Conclude
  <2>2. exit = 9 BY <2>1 DEF StageInv, ExitOpen, Alive
  <2>3. Selected' = Selected /\ Lanes' = Lanes /\ InLane' = InLane BY <2>1 DEF Selected, Lanes, InLane
  <2>4. \A c \in Beds : Ending(c)' = Ending(c) BY <2>1 DEF Ending, EndOf
  <2>5. Selected \subseteq Beds BY SelectedBeds DEF StageInv, ChainsInv, ChainTypes
  <2> DEFINE end == [b \in Beds |-> Ending(b)]
  <2>6. \A b \in Selected : end[b] = EndOf(b, how[b]) BY <2>1, <2>5 DEF Ending
  <2>7. \A b \in Selected : EndOf(b, how[b]) \in Promise!Endings
    <3> TAKE b \in Selected
    <3>1. b \in Beds /\ how[b] \in Kinds \ {"panic"} BY <2>1, <2>5 DEF StageInv, EndsKnown
    <3> QED BY <3>1, OutcomeOf
  <2>8. \A b \in Selected : end[b] # "none" BY <2>6, <2>7 DEF Promise!Endings
  <2>9. exit' = Promise!ExitOf({end[b] : b \in Selected})
    <3>1. {end[b] : b \in Selected} = {EndOf(b, how[b]) : b \in Selected} BY <2>6
    <3> QED BY <2>1, <3>1, ExitCode
  <2>10. Promise!Conclude BY <2>1, <2>2, <2>3, <2>4, <2>8, <2>9 DEF Promise!Conclude
  <2> QED BY <2>10 DEF Promise!Next
<1>2. CASE BuildRosterChains \/ OnBedShutdown \/ Signal \/ UNCHANGED vars
  <2>1. UNCHANGED <<cfg, stage, how, exit>>
        BY <1>2, Zenon
           DEF BuildRosterChains, UnionChains, ChainBed, Launch, OnBedShutdown, Signal, vars
  <2> QED BY <2>1, Unseen
<1>3. ASSUME Drains \/ \E b \in Beds : BodyWrites(b) PROVE UNCHANGED Promise!vars
  <2>1. UNCHANGED <<Aside, stage, how>> BY <1>3, Zenon DEF Drains, BodyWrites
  <2>2. UNCHANGED <<cfg, stage, how, exit>> BY <2>1 DEF Aside
  <2> QED BY <2>2, Unseen
<1> QED BY <1>1, <1>2, <1>3, ProgressKeepsPromise DEF Next, Over

\* Every run of a roster is a run of its promise: beds that share a resource token never run
\* together, the lanes bound the beds in flight, every bed runs at most once and the exit code
\* says how all of them ended (roster.go).
THEOREM PromiseIsKept == Spec => ImplementsPromise
<1>1. Init => Promise!Init BY PromiseStarts
<1>2. StageInv /\ [Next]_vars => [Promise!Next]_(Promise!vars) BY PromiseStep
<1> QED BY <1>1, <1>2, Invariance, PTL DEF Spec, ImplementsPromise, Promise!Spec

=============================================================================
