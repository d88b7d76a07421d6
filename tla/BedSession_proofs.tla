--------------------------- MODULE BedSession_proofs ---------------------------
(***************************************************************************)
(* The sessions of concurrent bed runs, for every set of runs, processes,  *)
(* beds, domains and tokens.  IInv ties the place a run has reached to the *)
(* handles it holds; it is inductive, and the properties of BedSession are *)
(* read off it.  So is, with the stop command beside them, that of         *)
(* CheckStop.                                                              *)
(***************************************************************************)
EXTENDS CheckStop, TLAPS

InBody(r) == pc[r] = "running" \/ (pc[r] = "rel-lease" /\ r \notin rolled)

\* The two kinds of flock are exclusive.
FlocksInv ==
    /\ \A q, r \in bedHeld : BedOf[q] = BedOf[r] => q = r
    /\ \A q, r \in Runs : q # r => domHeld[q] \cap domHeld[r] = {}

\* What a run holds at each place of bedSetup and release.
HandlesInv ==
    \A r \in Runs :
        /\ pc[r] = "domains" \/ InBody(r) => r \in bedHeld
        /\ pc[r] \in {"idle", "loading"} \cup Final => r \notin bedHeld
        /\ pc[r] \in {"idle", "loading"} \cup Final => domHeld[r] = {}
        /\ domHeld[r] \subseteq DomainsOf[BedOf[r]]
        /\ InBody(r) => domHeld[r] = DomainsOf[BedOf[r]]
        /\ r \in rolled => pc[r] \in Releasing \cup Final

\* A claim belongs to the bed of the run that is under it, and its marker is up.
LeaseInv ==
    /\ \A r \in marker : pc[r] \in {"running", "rel-lease", "dead"} /\ r \notin rolled
    /\ \A r \in Runs : InBody(r) => \A t \in TokensOf[BedOf[r]] : ledger[t] = BedOf[r]
    /\ \A t \in Tokens : ledger[t] # NoBed =>
            \E r \in marker \cup slipped : BedOf[r] = ledger[t]

\* The overlay directory outlives the timers registered in it.
OverlayInv ==
    \A r \in Runs :
        /\ pc[r] \in {"idle", "rel-locks", "ended"} \/ r \in Outer => r \notin dirs
        /\ pc[r] \in Acquiring \cup {"running"} /\ r \notin Outer => r \in dirs
        /\ r \in armed => /\ r \notin Outer /\ r \notin rolled
                          /\ pc[r] \in {"running", "dead", "ended"} \cup Releasing
                          /\ r \in dirs \cup slipped
                          /\ pc[r] \in {"rel-config", "rel-locks", "ended"} => r \in slipped

IInv == TypeOK /\ FlocksInv /\ HandlesInv /\ LeaseInv /\ OverlayInv

LEMMA InitIInv == Init => IInv
<1> USE BedSessionAssumption
<1> QED BY DEF Init, IInv, TypeOK, FlocksInv, HandlesInv, LeaseInv, OverlayInv, InBody, Final,
              Acquiring, Releasing

LEMMA SetupStep ==
    ASSUME IInv, NEW r \in Runs, Setup(r)
    PROVE  IInv'
<1> USE BedSessionAssumption DEF IInv, InBody, Acquiring, Releasing, Final, Goto
<1>1. CASE StartRun(r)
  <2>1. TypeOK' BY <1>1 DEF StartRun, TypeOK
  <2>2. FlocksInv' BY <1>1 DEF StartRun, TypeOK, FlocksInv
  <2>3. HandlesInv' BY <1>1 DEF StartRun, TypeOK, HandlesInv
  <2>4. LeaseInv' BY <1>1 DEF StartRun, TypeOK, LeaseInv
  <2>5. OverlayInv' BY <1>1 DEF StartRun, TypeOK, OverlayInv
  <2> QED BY <2>1, <2>2, <2>3, <2>4, <2>5
<1>2. CASE LoadFails(r)
  <2>1. TypeOK' BY <1>2 DEF LoadFails, TypeOK
  <2>2. FlocksInv' BY <1>2 DEF LoadFails, TypeOK, FlocksInv
  <2>3. HandlesInv' BY <1>2 DEF LoadFails, TypeOK, HandlesInv
  <2>4. LeaseInv' BY <1>2 DEF LoadFails, TypeOK, LeaseInv
  <2>5. OverlayInv' BY <1>2 DEF LoadFails, TypeOK, OverlayInv
  <2> QED BY <2>1, <2>2, <2>3, <2>4, <2>5
<1>3. CASE TakeBedLock(r)
  <2>1. TypeOK' BY <1>3 DEF TakeBedLock, TypeOK
  <2>2. FlocksInv' BY <1>3 DEF TakeBedLock, LockBusy, LockFile, TypeOK, FlocksInv
  <2>3. HandlesInv' BY <1>3 DEF TakeBedLock, TypeOK, HandlesInv
  <2>4. LeaseInv' BY <1>3 DEF TakeBedLock, TypeOK, LeaseInv
  <2>5. OverlayInv' BY <1>3 DEF TakeBedLock, TypeOK, OverlayInv
  <2> QED BY <2>1, <2>2, <2>3, <2>4, <2>5
<1>4. CASE TakeDomain(r)
  <2>1. TypeOK' BY <1>4 DEF TakeDomain, Wanted, TypeOK
  <2>2. FlocksInv' BY <1>4 DEF TakeDomain, DomainBusy, TypeOK, FlocksInv
  <2>3. HandlesInv' BY <1>4 DEF TakeDomain, Wanted, TypeOK, HandlesInv
  <2>4. LeaseInv' BY <1>4 DEF TakeDomain, TypeOK, LeaseInv
  <2>5. OverlayInv' BY <1>4 DEF TakeDomain, TypeOK, OverlayInv
  <2> QED BY <2>1, <2>2, <2>3, <2>4, <2>5
<1>5. CASE AcquireLease(r)
  <2>1. TypeOK' BY <1>5 DEF AcquireLease, Claimant, TypeOK
  <2>2. FlocksInv' BY <1>5 DEF AcquireLease, TypeOK, FlocksInv
  <2>0. domHeld[r] = DomainsOf[BedOf[r]] BY <1>5 DEF AcquireLease, Wanted, HandlesInv
  <2>3. HandlesInv' BY <1>5, <2>0 DEF AcquireLease, TypeOK, HandlesInv
  <2>4. LeaseInv'
        BY <1>5 DEF AcquireLease, MarkerSet, Granted, Claimant, TypeOK, HandlesInv, LeaseInv
  <2>5. OverlayInv' BY <1>5 DEF AcquireLease, TypeOK, OverlayInv
  <2> QED BY <2>1, <2>2, <2>3, <2>4, <2>5
<1>6. CASE RefuseRun(r) \/ SetupFails(r)
  <2> pc[r] \in Acquiring /\ StartRollback(r) BY <1>6 DEF RefuseRun, SetupFails
  <2>1. TypeOK' BY DEF StartRollback, TypeOK
  <2>2. FlocksInv' BY DEF StartRollback, TypeOK, FlocksInv
  <2>3. HandlesInv' BY DEF StartRollback, TypeOK, HandlesInv
  <2>4. LeaseInv' BY DEF StartRollback, TypeOK, LeaseInv
  <2>5. OverlayInv' BY DEF StartRollback, TypeOK, OverlayInv
  <2> QED BY <2>1, <2>2, <2>3, <2>4, <2>5
<1> QED BY <1>1, <1>2, <1>3, <1>4, <1>5, <1>6 DEF Setup

\* The body's steps and the five of bedSession.release.
LEMMA ReleaseStep ==
    ASSUME IInv, NEW r \in Runs, ArmTimer(r) \/ FinishRun(r) \/ Release(r)
    PROVE  IInv'
<1> USE BedSessionAssumption DEF IInv, InBody, Acquiring, Releasing, Final, Goto
<1>1. CASE ArmTimer(r)
  <2>1. TypeOK' BY <1>1 DEF ArmTimer, OverlayOf, TypeOK
  <2>2. FlocksInv' BY <1>1 DEF ArmTimer, OverlayOf, TypeOK, FlocksInv
  <2>3. HandlesInv' BY <1>1 DEF ArmTimer, OverlayOf, TypeOK, HandlesInv
  <2>4. LeaseInv' BY <1>1 DEF ArmTimer, OverlayOf, TypeOK, LeaseInv
  <2>5. OverlayInv' BY <1>1 DEF ArmTimer, OverlayOf, TypeOK, HandlesInv, OverlayInv
  <2> QED BY <2>1, <2>2, <2>3, <2>4, <2>5
<1>2. CASE FinishRun(r)
  <2>1. TypeOK' BY <1>2 DEF FinishRun, TypeOK
  <2>2. FlocksInv' BY <1>2 DEF FinishRun, TypeOK, FlocksInv
  <2>3. HandlesInv' BY <1>2 DEF FinishRun, TypeOK, HandlesInv
  <2>4. LeaseInv' BY <1>2 DEF FinishRun, TypeOK, LeaseInv
  <2>5. OverlayInv' BY <1>2 DEF FinishRun, TypeOK, OverlayInv
  <2> QED BY <2>1, <2>2, <2>3, <2>4, <2>5
<1>3. CASE ReleaseLease(r)
  <2>1. TypeOK' BY <1>3 DEF ReleaseLease, Claimant, TypeOK
  <2>2. FlocksInv' BY <1>3 DEF ReleaseLease, Claimant, TypeOK, FlocksInv
  <2>3. HandlesInv' BY <1>3 DEF ReleaseLease, Claimant, TypeOK, HandlesInv
  <2>4. LeaseInv' BY <1>3 DEF ReleaseLease, Claimant, TypeOK, FlocksInv, HandlesInv, LeaseInv
  <2>5. OverlayInv' BY <1>3 DEF ReleaseLease, Claimant, TypeOK, OverlayInv
  <2> QED BY <2>1, <2>2, <2>3, <2>4, <2>5
<1>4. CASE CancelTimers(r)
  <2>1. TypeOK' BY <1>4 DEF CancelTimers, LoadedOverlay, TypeOK
  <2>2. FlocksInv' BY <1>4 DEF CancelTimers, LoadedOverlay, TypeOK, FlocksInv
  <2>3. HandlesInv' BY <1>4 DEF CancelTimers, LoadedOverlay, TypeOK, HandlesInv
  <2>4. LeaseInv' BY <1>4 DEF CancelTimers, LoadedOverlay, TypeOK, LeaseInv
  <2>5. OverlayInv' BY <1>4 DEF CancelTimers, LoadedOverlay, TypeOK, OverlayInv
  <2> QED BY <2>1, <2>2, <2>3, <2>4, <2>5
<1>5. CASE RemoveConfig(r)
  <2>1. TypeOK' BY <1>5 DEF RemoveConfig, TypeOK
  <2>2. FlocksInv' BY <1>5 DEF RemoveConfig, TypeOK, FlocksInv
  <2>3. HandlesInv' BY <1>5 DEF RemoveConfig, TypeOK, HandlesInv
  <2>4. LeaseInv' BY <1>5 DEF RemoveConfig, TypeOK, LeaseInv
  <2>5. OverlayInv' BY <1>5 DEF RemoveConfig, TypeOK, OverlayInv
  <2> QED BY <2>1, <2>2, <2>3, <2>4, <2>5
<1>6. CASE ReleaseDomain(r)
  <2>1. TypeOK' BY <1>6 DEF ReleaseDomain, TypeOK
  <2>2. FlocksInv' BY <1>6 DEF ReleaseDomain, TypeOK, FlocksInv
  <2>3. HandlesInv' BY <1>6 DEF ReleaseDomain, TypeOK, HandlesInv
  <2>4. LeaseInv' BY <1>6 DEF ReleaseDomain, TypeOK, LeaseInv
  <2>5. OverlayInv' BY <1>6 DEF ReleaseDomain, TypeOK, OverlayInv
  <2> QED BY <2>1, <2>2, <2>3, <2>4, <2>5
<1>7. CASE ReleaseBedLock(r)
  <2>1. TypeOK' BY <1>7 DEF ReleaseBedLock, TypeOK
  <2>2. FlocksInv' BY <1>7 DEF ReleaseBedLock, TypeOK, FlocksInv
  <2>3. HandlesInv' BY <1>7 DEF ReleaseBedLock, TypeOK, HandlesInv
  <2>4. LeaseInv' BY <1>7 DEF ReleaseBedLock, TypeOK, LeaseInv
  <2>5. OverlayInv' BY <1>7 DEF ReleaseBedLock, TypeOK, OverlayInv
  <2> QED BY <2>1, <2>2, <2>3, <2>4, <2>5
<1> QED BY <1>1, <1>2, <1>3, <1>4, <1>5, <1>6, <1>7 DEF Release

LEMMA EnvironmentStep ==
    ASSUME IInv, Environment
    PROVE  IInv'
<1> USE BedSessionAssumption DEF IInv, InBody, Acquiring, Releasing, Final, Goto
<1>1. ASSUME NEW p \in Procs, Crash(p) PROVE IInv'
  <2>1. TypeOK' BY <1>1 DEF Crash, RunsIn, TypeOK
  <2>2. FlocksInv' BY <1>1 DEF Crash, RunsIn, TypeOK, FlocksInv
  <2>3. HandlesInv' BY <1>1 DEF Crash, RunsIn, TypeOK, HandlesInv
  <2>4. LeaseInv' BY <1>1 DEF Crash, RunsIn, TypeOK, LeaseInv
  <2>5. OverlayInv' BY <1>1 DEF Crash, RunsIn, TypeOK, OverlayInv
  <2> QED BY <2>1, <2>2, <2>3, <2>4, <2>5
<1>2. ASSUME NEW b \in Beds, Reconcile(b) PROVE IInv'
  <2>1. TypeOK' BY <1>2 DEF Reconcile, TypeOK
  <2>2. FlocksInv' BY <1>2 DEF Reconcile, TypeOK, FlocksInv
  <2>3. HandlesInv' BY <1>2 DEF Reconcile, TypeOK, HandlesInv
  <2>4. LeaseInv' BY <1>2 DEF Reconcile, TypeOK, LeaseInv
  <2>5. OverlayInv' BY <1>2 DEF Reconcile, TypeOK, OverlayInv
  <2> QED BY <2>1, <2>2, <2>3, <2>4, <2>5
<1>3. ASSUME NEW o \in armed, FireTimer(o) PROVE IInv'
  <2>1. TypeOK' BY <1>3 DEF FireTimer, TypeOK
  <2>2. FlocksInv' BY <1>3 DEF FireTimer, TypeOK, FlocksInv
  <2>3. HandlesInv' BY <1>3 DEF FireTimer, TypeOK, HandlesInv
  <2>4. LeaseInv' BY <1>3 DEF FireTimer, TypeOK, LeaseInv
  <2>5. OverlayInv' BY <1>3 DEF FireTimer, TypeOK, OverlayInv
  <2> QED BY <2>1, <2>2, <2>3, <2>4, <2>5
<1> QED BY <1>1, <1>2, <1>3 DEF Environment

LEMMA IInvStep == IInv /\ [Next]_vars => IInv'
<1> SUFFICES ASSUME IInv, [Next]_vars PROVE IInv' OBVIOUS
<1>1. CASE Environment BY <1>1, EnvironmentStep
<1>2. ASSUME NEW r \in Runs, Run(r) PROVE IInv'
    BY <1>2, SetupStep, ReleaseStep DEF Run
<1>3. CASE UNCHANGED vars
    BY <1>3 DEF vars, IInv, TypeOK, FlocksInv, HandlesInv, LeaseInv, OverlayInv, InBody
<1> QED BY <1>1, <1>2, <1>3 DEF Next, Done

\* In every reachable state, whatever the number of runs and the hosts they are on, the
\* handles of a session agree with the place that its run has reached.
THEOREM Invariance == Spec => []IInv
<1> QED BY InitIInv, IInvStep, PTL DEF Spec

\* Every variable keeps its type.
THEOREM TypesKept == Spec => []TypeOK
<1>1. IInv => TypeOK BY DEF IInv
<1> QED BY <1>1, Invariance, PTL

\* A run in its body holds its bed lock, its domain locks and its claims: HoldsItsClaims.
THEOREM ClaimsAreHeld == Spec => []HoldsItsClaims
<1>1. IInv => HoldsItsClaims
    BY DEF IInv, TypeOK, HandlesInv, LeaseInv, InBody, HoldsItsClaims
<1> QED BY <1>1, Invariance, PTL

\* A reaper that is still armed finds its overlay, crashes included: TimersKeepOverlay.
THEOREM TimersHaveOverlay == Spec => []TimersKeepOverlay
<1>1. IInv => TimersKeepOverlay
    BY DEF IInv, TypeOK, OverlayInv, TimersKeepOverlay
<1> QED BY <1>1, Invariance, PTL

\* An ended session left nothing behind, and no claim is an orphan: NothingLeaks.
THEOREM NothingIsLeaked == Spec => []NothingLeaks
<1>1. IInv => NothingLeaks
  <2> SUFFICES ASSUME IInv PROVE NothingLeaks OBVIOUS
  <2>1. ASSUME NEW r \in Runs, pc[r] = "ended"
        PROVE  /\ r \notin bedHeld \cup dirs \cup marker
               /\ domHeld[r] = {}
               /\ r \in armed => r \in slipped
      BY <2>1 DEF IInv, TypeOK, HandlesInv, LeaseInv, OverlayInv, Final
  <2>2. ASSUME NEW t \in Tokens, ledger[t] # NoBed
        PROVE  \E r \in Runs : /\ BedOf[r] = ledger[t]
                               /\ \/ pc[r] \in {"running", "rel-lease", "dead"}
                                  \/ r \in slipped
      BY <2>2 DEF IInv, TypeOK, LeaseInv
  <2> QED BY <2>1, <2>2 DEF NothingLeaks
<1> QED BY <1>1, Invariance, PTL

-----------------------------------------------------------------------------
(* The refinement. *)

Bodies == {r \in Runs : pc[r] = "running"}

\* A run enters its body beside runs that it does not collide with: the same bed is kept
\* out by the bed lock, a shared domain by its flock, a shared token by the arbiter.
LEMMA EntersAlone ==
    ASSUME IInv, NEW r \in Runs, AcquireLease(r), NEW q \in Bodies
    PROVE  <<q, r>> \notin Conflict
<1> USE BedSessionAssumption
<1>1. q \in Runs /\ pc[q] = "running" /\ pc[r] = "domains" /\ q # r
    BY DEF AcquireLease, Bodies
<1>2. q \in bedHeld /\ r \in bedHeld
    BY <1>1 DEF IInv, HandlesInv, InBody
<1>3. BedOf[q] # BedOf[r]
    BY <1>1, <1>2 DEF IInv, FlocksInv
<1>4. DomainsOf[BedOf[q]] \cap DomainsOf[BedOf[r]] = {}
  <2>1. domHeld[q] = DomainsOf[BedOf[q]] BY <1>1 DEF IInv, HandlesInv, InBody
  <2>2. DomainsOf[BedOf[r]] \subseteq domHeld[r] BY DEF AcquireLease, Wanted
  <2>3. domHeld[q] \cap domHeld[r] = {} BY <1>1 DEF IInv, FlocksInv
  <2> QED BY <2>1, <2>2, <2>3
<1>5. TokensOf[BedOf[q]] \cap TokensOf[BedOf[r]] = {}
  <2> SUFFICES ASSUME NEW t \in TokensOf[BedOf[q]], t \in TokensOf[BedOf[r]] PROVE FALSE
      OBVIOUS
  <2>1. ledger[t] = BedOf[q] BY <1>1 DEF IInv, LeaseInv, InBody
  <2>2. ~MarkerSet(r) BY <1>1 DEF IInv, LeaseInv, MarkerSet
  <2>3. Granted(r) BY <2>2 DEF AcquireLease
  <2> QED BY <1>1, <1>3, <2>1, <2>3 DEF Granted, Claimant
<1> QED BY <1>3, <1>4, <1>5 DEF Conflict, Collide

LEMMA BodiesStep ==
    ASSUME IInv, [Next]_vars
    PROVE  [Abstract!Next]_Bodies
<1> USE BedSessionAssumption DEF IInv, TypeOK, Goto
<1> DEFINE Left == Bodies' \subseteq Bodies
<1>1. Left => [Abstract!Next]_Bodies
  <2> SUFFICES ASSUME Left PROVE Abstract!Leave BY DEF Abstract!Next, Bodies
  <2>1. Bodies' = Bodies \ (Bodies \ Bodies') OBVIOUS
  <2> QED BY <2>1 DEF Abstract!Leave, Bodies
<1>2. CASE Environment
  <2>1. ASSUME NEW p \in Procs, Crash(p) PROVE Left BY <2>1 DEF Crash, Bodies
  <2>2. ASSUME NEW b \in Beds, Reconcile(b) PROVE Left BY <2>2 DEF Reconcile, Bodies
  <2>3. ASSUME NEW o \in armed, FireTimer(o) PROVE Left BY <2>3 DEF FireTimer, Bodies
  <2> QED BY <1>1, <1>2, <2>1, <2>2, <2>3 DEF Environment
<1>3. ASSUME NEW r \in Runs, Run(r) PROVE [Abstract!Next]_Bodies
  <2>1. CASE AcquireLease(r)
    <3>1. Bodies' = Bodies \cup {r} /\ r \notin Bodies
        BY <2>1 DEF AcquireLease, Bodies
    <3>2. \A q \in Bodies : <<q, r>> \notin Conflict BY <2>1, EntersAlone
    <3> QED BY <3>1, <3>2 DEF Abstract!Next, Abstract!Enter, Bodies
  <2>2. CASE Setup(r) /\ ~AcquireLease(r)
    <3>1. Left
        BY <2>2 DEF Setup, StartRun, LoadFails, TakeBedLock, TakeDomain, RefuseRun, SetupFails,
                    StartRollback, Bodies
    <3> QED BY <1>1, <3>1
  <2>3. CASE ArmTimer(r) \/ FinishRun(r) \/ Release(r)
    <3>1. Left
        BY <2>3 DEF ArmTimer, FinishRun, Release, ReleaseLease, CancelTimers, RemoveConfig,
                    ReleaseDomain, ReleaseBedLock, Bodies
    <3> QED BY <1>1, <3>1
  <2> QED BY <1>3, <2>1, <2>2, <2>3 DEF Run
<1>4. CASE UNCHANGED vars
  <2>1. Left BY <1>4 DEF vars, Bodies
  <2> QED BY <1>1, <2>1
<1> QED BY <1>2, <1>3, <1>4 DEF Next, Done

\* Two runs that would collide on a bed, a VM domain or a resource token are never in their
\* bodies together, in whatever processes they are: the sessions implement BedExclusion.
THEOREM SessionsExclude == Spec => ImplementsExclusion
<1>1. Init => Abstract!Init BY DEF Init, Abstract!Init
<1>2. IInv /\ [Next]_vars => [Abstract!Next]_{r \in Runs : pc[r] = "running"}
    BY BodiesStep DEF Bodies
<1> QED BY <1>1, <1>2, Invariance, PTL DEF Spec, Abstract!Spec, ImplementsExclusion

--------------------------------------------------------------------------------
(* The stop command beside any number of sessions: it adds nothing to what *)
(* the sessions do but crashes, and the run it found is gone when it       *)
(* returns.                                                                *)

\* The runs the command found are of its bed, and past the point where the lock is taken.
StopInv ==
    /\ stop \in [at : {"idle", "polling", "done", "failed"}, seen : SUBSET Runs]
    /\ \A r \in stop.seen : BedOf[r] = StopBed /\ pc[r] \notin {"idle", "loading"}
    /\ stop.at = "done" => stop.seen \cap bedHeld = {}

SInv == IInv /\ StopInv

\* A process that dies keeps the invariant of the sessions.
LEMMA CrashStep ==
    ASSUME IInv, NEW p \in Procs, Crash(p)
    PROVE  IInv'
<1> QED BY EnvironmentStep DEF Environment

\* No step of a session puts a run that has passed "loading" back under its lock.
LEMMA SessionsKeepStop ==
    ASSUME SInv, [Next]_vars, UNCHANGED stop
    PROVE  StopInv'
<1> USE BedSessionAssumption DEF SInv, IInv, TypeOK, StopInv, Goto
<1>1. ASSUME NEW r \in Runs, pc[r] \notin {"idle", "loading"}
      PROVE  /\ pc'[r] \notin {"idle", "loading"}
             /\ r \in bedHeld' => r \in bedHeld
  <2>1. CASE Environment
    BY <1>1, <2>1 DEF Environment, Crash, RunsIn, Reconcile, FireTimer
  <2>2. ASSUME NEW q \in Runs, Setup(q)
        PROVE  /\ pc'[r] \notin {"idle", "loading"}
               /\ r \in bedHeld' => r \in bedHeld
    BY <1>1, <2>2 DEF Setup, StartRun, LoadFails, TakeBedLock, TakeDomain, AcquireLease,
                      RefuseRun, SetupFails, StartRollback
  <2>3. ASSUME NEW q \in Runs, ArmTimer(q) \/ FinishRun(q) \/ Release(q)
        PROVE  /\ pc'[r] \notin {"idle", "loading"}
               /\ r \in bedHeld' => r \in bedHeld
    BY <1>1, <2>3 DEF ArmTimer, FinishRun, Release, ReleaseLease, CancelTimers, RemoveConfig,
                      ReleaseDomain, ReleaseBedLock
  <2>4. CASE UNCHANGED vars BY <1>1, <2>4 DEF vars
  <2> QED BY <2>1, <2>2, <2>3, <2>4 DEF Next, Run, Done
<1> QED BY <1>1

LEMMA StopStep ==
    ASSUME SInv, Stop
    PROVE  SInv'
<1> USE BedSessionAssumption, StopAssumption DEF SInv, IInv, TypeOK, StopInv
<1>1. ASSUME UNCHANGED vars PROVE IInv'
    BY <1>1, IInvStep
<1>2. CASE StopFindsNone
  <2>1. stop.seen \cap bedHeld = {} BY <1>2 DEF StopFindsNone, HoldersOf, LockFile
  <2>2. StopInv' BY <1>2, <2>1 DEF StopFindsNone, vars
  <2> QED BY <1>1, <1>2, <2>2 DEF StopFindsNone
<1>3. CASE StopSignals
  <2>1. \A r \in HoldersOf(StopBed) : BedOf[r] = StopBed /\ pc[r] \notin {"idle", "loading"}
      BY DEF HoldersOf, LockFile, HandlesInv
  <2>2. StopInv' BY <1>3, <2>1 DEF StopSignals, HoldersOf, vars
  <2> QED BY <1>1, <1>3, <2>2 DEF StopSignals
<1>7. CASE StopSignalFails \/ StopEscalationFails
  <2>1. StopInv' BY <1>7 DEF StopSignalFails, StopEscalationFails, vars
  <2> QED BY <1>1, <1>7, <2>1 DEF StopSignalFails, StopEscalationFails
<1>4. CASE StopSeesExit
  <2>1. stop.seen \cap bedHeld = {} BY <1>4 DEF StopSeesExit, HoldersOf, LockFile
  <2>2. StopInv' BY <1>4, <2>1 DEF StopSeesExit, vars
  <2> QED BY <1>1, <1>4, <2>2 DEF StopSeesExit
<1>5. CASE StopEscalates
  <2>1. CASE HolderProcs(StopBed) = {}
    <3>0. \A r \in HoldersOf(StopBed) : ProcOf[r] \in HolderProcs(StopBed)
        BY DEF HolderProcs
    <3>1. stop.seen \cap bedHeld = {}
        BY <2>1, <3>0 DEF HoldersOf, LockFile
    <3>2. StopInv' BY <1>5, <2>1, <3>1 DEF StopEscalates, vars
    <3> QED BY <1>1, <1>5, <2>1, <3>2 DEF StopEscalates
  <2>2. CASE HolderProcs(StopBed) # {}
    <3>0. PICK p \in HolderProcs(StopBed) : Crash(p)
        BY <1>5, <2>2 DEF StopEscalates
    <3>1. PICK h \in HoldersOf(StopBed) : p = ProcOf[h]
        BY DEF HolderProcs
    <3>2. h \in bedHeld /\ BedOf[h] = StopBed /\ h \in RunsIn(ProcOf[h])
        BY <3>1 DEF HoldersOf, LockFile, RunsIn, HandlesInv
    <3>3. \A r \in stop.seen \cap bedHeld : r = h
        BY <3>2 DEF FlocksInv
    <3>4. stop.seen \cap bedHeld' = {}
        BY <3>0, <3>1, <3>2, <3>3 DEF Crash
    <3>5. StopInv'
        BY <1>5, <2>2, <3>0, <3>4 DEF StopEscalates, Crash
    <3> QED BY <3>0, <3>1, <3>2, <3>5, CrashStep
  <2> QED BY <2>1, <2>2
<1>6. ASSUME NEW p \in Procs, TermExits(p) PROVE SInv'
  <2>1. Crash(p) /\ UNCHANGED stop BY <1>6 DEF TermExits
  <2>2. IInv' BY <2>1, CrashStep
  <2>3. StopInv' BY <2>1, SessionsKeepStop DEF Next, Environment
  <2> QED BY <2>2, <2>3
<1> QED BY <1>2, <1>3, <1>4, <1>5, <1>6, <1>7 DEF Stop

LEMMA SInvStep == SInv /\ [StopNext]_allVars => SInv'
<1> SUFFICES ASSUME SInv, [StopNext]_allVars PROVE SInv' OBVIOUS
<1>1. CASE Stop BY <1>1, StopStep
<1>2. CASE [Next]_vars /\ UNCHANGED stop
    BY <1>2, IInvStep, SessionsKeepStop DEF SInv
<1> QED BY <1>1, <1>2 DEF StopNext, allVars

\* When the command reports success, the run it found no longer holds the bed: StopEndsTheRun,
\* whether it obeyed the signal, ended by itself or had to be killed.
THEOREM StoppedRunIsGone == StopSpec => []StopEndsTheRun
<1>1. StopInit => SInv
    BY InitIInv DEF StopInit, SInv, StopInv
<1>2. SInv => StopEndsTheRun
    BY DEF SInv, StopInv, StopEndsTheRun
<1> QED BY <1>1, <1>2, SInvStep, PTL DEF StopSpec
================================================================================
