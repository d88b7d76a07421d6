----------------------------- MODULE BedSession -----------------------------
(***************************************************************************)
(* The sessions of concurrent bed runs (candy/plugin-check/bed_session.go):*)
(* bedSetup's acquire order, bedSession.release, and what a process that   *)
(* dies leaves behind.  A process may host several runs (a roster runs its *)
(* beds as goroutines), and the same bed may be started from two           *)
(* processes.  A run's body is the single state "running"; BedRun has it   *)
(* in full.                                                                *)
(***************************************************************************)
EXTENDS Naturals, FiniteSets

CONSTANTS
    Runs,       \* the runs, each started at most once
    Procs,      \* the charly processes
    Beds,       \* the bed names
    Domains,    \* the libvirt domains, numbered in the order they sort
    Tokens,     \* the exclusive resource tokens
    BedOf,      \* the bed of a run
    ProcOf,     \* the process of a run
    DomainsOf,  \* the VM domains of a bed (external: lock.BedVmDomains)
    TokensOf,   \* a bed's requires_exclusive tokens
    Outer,      \* the runs whose process has an operator's CHARLY_DEPLOY_CONFIG
    Operator,   \* the operator's own deploy overlay
    Ephemeral,  \* the runs whose bed registers an ephemeral target with a TTL
    Flaky,      \* bound: the runs that may meet a failing external call
    NoBed       \* no claimant

ASSUME BedSessionAssumption ==
    /\ Domains \subseteq Nat
    /\ BedOf \in [Runs -> Beds]
    /\ ProcOf \in [Runs -> Procs]
    /\ DomainsOf \in [Beds -> SUBSET Domains]
    /\ TokensOf \in [Beds -> SUBSET Tokens]
    /\ Outer \subseteq Runs
    /\ Ephemeral \subseteq Runs
    /\ Flaky \subseteq Runs
    /\ Operator \notin Runs
    /\ NoBed \notin Beds

VARIABLES
    pc,       \* where bedSetup, the body or release is, per run
    rolled,   \* the runs whose release is bedSetup's rollback
    bedHeld,  \* the runs that hold the flock on their bed's lock file
    domHeld,  \* the domain flocks a run holds
    marker,   \* the runs whose RunEnv says that they own a lease (leaseActive)
    ledger,   \* the arbiter's claimant of every token
    dirs,     \* the runs whose temp overlay directory exists
    armed,    \* the overlays with a registered and armed TTL reaper timer
    slipped   \* history: the runs whose lease release or timer stop failed

vars == <<pc, rolled, bedHeld, domHeld, marker, ledger, dirs, armed, slipped>>

Acquiring == {"loading", "domains"}
Releasing == {"rel-lease", "rel-timers", "rel-config", "rel-locks"}
Final == {"ended", "dead"}

Init ==
    /\ pc = [r \in Runs |-> "idle"]
    /\ rolled = {}
    /\ bedHeld = {}
    /\ domHeld = [r \in Runs |-> {}]
    /\ marker = {}
    /\ ledger = [t \in Tokens |-> NoBed]
    /\ dirs = {}
    /\ armed = {Operator}
    /\ slipped = {}

Goto(r, where) == pc' = [pc EXCEPT ![r] = where]

-----------------------------------------------------------------------------
(* bedSetup. *)

\* The temp overlay comes first, unless the operator's is honoured.
StartRun(r) ==
    /\ pc[r] = "idle"
    /\ dirs' = IF r \in Outer THEN dirs ELSE dirs \cup {r}
    /\ Goto(r, "loading")
    /\ UNCHANGED <<rolled, bedHeld, domHeld, marker, ledger, armed, slipped>>

\* A load error, an unknown bed or a missing prerequisite: no session exists yet,
\* the deferred guard removes the directory.
LoadFails(r) ==
    /\ pc[r] = "loading" /\ r \in Flaky
    /\ dirs' = dirs \ {r}
    /\ Goto(r, "ended")
    /\ UNCHANGED <<rolled, bedHeld, domHeld, marker, ledger, armed, slipped>>

\* Mutation: the lock file under the invoking project's directory.
ProjectLockFile(r) == <<ProcOf[r], BedOf[r]>>

\* bedRunLockPath: the user-scoped lock file is named by the bed alone.
LockFile(r) == BedOf[r]

LockBusy(r) == \E q \in bedHeld : LockFile(q) = LockFile(r)

\* Loaded and resolved, the bed has a session; under its lock goes the run directory.
TakeBedLock(r) ==
    /\ pc[r] = "loading"
    /\ ~LockBusy(r)
    /\ bedHeld' = bedHeld \cup {r}
    /\ Goto(r, "domains")
    /\ UNCHANGED <<rolled, domHeld, marker, ledger, dirs, armed, slipped>>

Wanted(r) == DomainsOf[BedOf[r]] \ domHeld[r]

DomainBusy(d) == \E q \in Runs : d \in domHeld[q]

\* Mutation: in the order a Go map yields them.
AnyNext(r, d) == TRUE

\* Sorted, so that two beds meet on their domains in the same order.
NextDomain(r, d) == \A e \in Wanted(r) : d <= e

\* The flock on a domain blocks until its holder is gone.
TakeDomain(r) ==
    /\ pc[r] = "domains"
    /\ \E d \in Wanted(r) :
            /\ NextDomain(r, d)
            /\ ~DomainBusy(d)
            /\ domHeld' = [domHeld EXCEPT ![r] = @ \cup {d}]
    /\ UNCHANGED <<pc, rolled, bedHeld, marker, ledger, dirs, armed, slipped>>

\* The arbiter keys a lease by its claimant, the bed.
Claimant(r) == BedOf[r]

Granted(r) == \A t \in TokensOf[BedOf[r]] : ledger[t] \in {NoBed, Claimant(r)}

\* Mutation: the marker in the process environment, seen by every run of the process.
MarkerInProcess(r) == \E q \in marker : ProcOf[q] = ProcOf[r]

\* arbiterAcquire skips when the run's own RunEnv carries the lease marker.
MarkerSet(r) == r \in marker

\* The lease is the last fallible step; the marker goes up with an active claim.
AcquireLease(r) ==
    /\ pc[r] = "domains" /\ Wanted(r) = {}
    /\ IF MarkerSet(r) \/ TokensOf[BedOf[r]] = {}
       THEN UNCHANGED <<ledger, marker>>
       ELSE /\ Granted(r)
            /\ ledger' = [t \in Tokens |->
                            IF t \in TokensOf[BedOf[r]] THEN Claimant(r) ELSE ledger[t]]
            /\ marker' = marker \cup {r}
    /\ Goto(r, "running")
    /\ UNCHANGED <<rolled, bedHeld, domHeld, dirs, armed, slipped>>

StartRollback(r) ==
    /\ rolled' = rolled \cup {r}
    /\ Goto(r, "rel-lease")
    /\ UNCHANGED <<bedHeld, domHeld, marker, ledger, dirs, armed, slipped>>

\* A duplicate run of the bed fails fast, and so does a claim on a token another
\* bed holds; all that was taken is rolled back.
RefuseRun(r) ==
    /\ \/ pc[r] = "loading" /\ LockBusy(r)
       \/ pc[r] = "domains" /\ Wanted(r) = {} /\ ~Granted(r)
    /\ StartRollback(r)

\* An error of the lock file, the run directory, a domain lock or the arbiter.
SetupFails(r) ==
    /\ pc[r] \in Acquiring /\ r \in Flaky
    /\ StartRollback(r)

-----------------------------------------------------------------------------
(* The body, as far as the session can see it. *)

OverlayOf(r) == IF r \in Outer THEN Operator ELSE r

\* An ephemeral target registers itself in the overlay and arms its reaper.
ArmTimer(r) ==
    /\ pc[r] = "running" /\ r \in Ephemeral
    /\ OverlayOf(r) \notin armed
    /\ armed' = armed \cup {OverlayOf(r)}
    /\ UNCHANGED <<pc, rolled, bedHeld, domHeld, marker, ledger, dirs, slipped>>

FinishRun(r) ==
    /\ pc[r] = "running"
    /\ Goto(r, "rel-lease")
    /\ UNCHANGED <<rolled, bedHeld, domHeld, marker, ledger, dirs, armed, slipped>>

-----------------------------------------------------------------------------
(* bedSession.release: lease, timers, overlay, domain locks, bed lock.  The  *)
(* errors of each step are dropped.                                          *)

ReleaseLease(r) ==
    /\ pc[r] = "rel-lease"
    /\ \/ /\ ledger' = [t \in Tokens |->
                    IF r \in marker /\ ledger[t] = Claimant(r) THEN NoBed ELSE ledger[t]]
          /\ UNCHANGED slipped
       \/ /\ r \in marker \cap Flaky
          /\ slipped' = slipped \cup {r}
          /\ UNCHANGED ledger
    /\ marker' = marker \ {r}
    /\ Goto(r, "rel-timers")
    /\ UNCHANGED <<rolled, bedHeld, domHeld, dirs, armed>>

\* Mutation: the loader never sees the RunEnv of the run.
OperatorsOverlay(r) == Operator

\* The overlay cancelBedEphemeralTimers loads: the one of its context.  The body's
\* context carries the RunEnv, the rollback's is bedSetup's own argument.
LoadedOverlay(r) == IF r \in rolled THEN Operator ELSE r

\* With an operator's overlay there is no temp directory and nothing is cancelled.
CancelTimers(r) ==
    /\ pc[r] = "rel-timers"
    /\ IF r \in Outer
       THEN UNCHANGED <<armed, slipped>>
       ELSE \/ /\ armed' = armed \ {LoadedOverlay(r)}
               /\ UNCHANGED slipped
            \/ /\ r \in Flaky /\ LoadedOverlay(r) \in armed
               /\ slipped' = slipped \cup {r}
               /\ UNCHANGED armed
    /\ Goto(r, "rel-config")
    /\ UNCHANGED <<rolled, bedHeld, domHeld, marker, ledger, dirs>>

\* Mutation: the release as it once was, with the overlay removed and the timers left.
RemoveConfigOnly(r) ==
    /\ pc[r] = "rel-timers"
    /\ dirs' = dirs \ {r}
    /\ Goto(r, "rel-locks")
    /\ UNCHANGED <<rolled, bedHeld, domHeld, marker, ledger, armed, slipped>>

RemoveConfig(r) ==
    /\ pc[r] = "rel-config"
    /\ dirs' = dirs \ {r}
    /\ Goto(r, "rel-locks")
    /\ UNCHANGED <<rolled, bedHeld, domHeld, marker, ledger, armed, slipped>>

\* In reverse order of the taking.
ReleaseDomain(r) ==
    /\ pc[r] = "rel-locks"
    /\ \E d \in domHeld[r] :
            /\ \A e \in domHeld[r] : e <= d
            /\ domHeld' = [domHeld EXCEPT ![r] = @ \ {d}]
    /\ UNCHANGED <<pc, rolled, bedHeld, marker, ledger, dirs, armed, slipped>>

\* A refused duplicate has no unlock function and leaves its peer's lock alone.
ReleaseBedLock(r) ==
    /\ pc[r] = "rel-locks" /\ domHeld[r] = {}
    /\ bedHeld' = bedHeld \ {r}
    /\ Goto(r, "ended")
    /\ UNCHANGED <<rolled, domHeld, marker, ledger, dirs, armed, slipped>>

-----------------------------------------------------------------------------
(* What the environment does. *)

RunsIn(p) == {r \in Runs : ProcOf[r] = p /\ pc[r] \notin Final}

\* The process dies and its deferred functions never run: the kernel drops the
\* flocks; the lease, the temp overlay and the timers stay.
Crash(p) ==
    /\ RunsIn(p) # {}
    /\ pc' = [r \in Runs |-> IF r \in RunsIn(p) THEN "dead" ELSE pc[r]]
    /\ bedHeld' = bedHeld \ RunsIn(p)
    /\ domHeld' = [r \in Runs |-> IF r \in RunsIn(p) THEN {} ELSE domHeld[r]]
    /\ UNCHANGED <<rolled, marker, ledger, dirs, armed, slipped>>

\* External: the arbiter reconciles a lease whose claimant is gone.
Reconcile(b) ==
    /\ \E t \in Tokens : ledger[t] = b
    /\ ~\E r \in Runs : BedOf[r] = b /\ pc[r] \in {"running", "rel-lease"}
    /\ ledger' = [t \in Tokens |-> IF ledger[t] = b THEN NoBed ELSE ledger[t]]
    /\ UNCHANGED <<pc, rolled, bedHeld, domHeld, marker, dirs, armed, slipped>>

\* External: a TTL expires, and the unit is spent.
FireTimer(o) ==
    /\ o \in armed
    /\ armed' = armed \ {o}
    /\ UNCHANGED <<pc, rolled, bedHeld, domHeld, marker, ledger, dirs, slipped>>

Setup(r) ==
    \/ StartRun(r) \/ LoadFails(r) \/ TakeBedLock(r) \/ TakeDomain(r)
    \/ AcquireLease(r) \/ RefuseRun(r) \/ SetupFails(r)

Release(r) ==
    \/ ReleaseLease(r) \/ CancelTimers(r) \/ RemoveConfig(r)
    \/ ReleaseDomain(r) \/ ReleaseBedLock(r)

Run(r) == Setup(r) \/ ArmTimer(r) \/ FinishRun(r) \/ Release(r)

Environment ==
    \/ \E p \in Procs : Crash(p)
    \/ \E b \in Beds : Reconcile(b)
    \/ \E o \in armed : FireTimer(o)

AllOver == \A r \in Runs : pc[r] \in Final

Done == AllOver /\ UNCHANGED vars

Next == Environment \/ Done \/ \E r \in Runs : Run(r)

Spec == Init /\ [][Next]_vars

\* The steps that take a started run to its end, errors of the host not among them.
Advance(r) ==
    \/ LoadFails(r) \/ TakeBedLock(r) \/ TakeDomain(r) \/ AcquireLease(r)
    \/ RefuseRun(r) \/ FinishRun(r) \/ Release(r)

\* A run that can go on goes on: its body ends, and a domain lock that stays free
\* is taken by the run the kernel wakes.
FairSpec == Spec /\ \A r \in Runs : WF_vars(Advance(r))

-----------------------------------------------------------------------------
(* The properties. *)

\* Every variable keeps its type.
TypeOK ==
    /\ pc \in [Runs -> {"idle", "running"} \cup Acquiring \cup Releasing \cup Final]
    /\ rolled \subseteq Runs
    /\ bedHeld \subseteq Runs
    /\ domHeld \in [Runs -> SUBSET Domains]
    /\ marker \subseteq Runs
    /\ ledger \in [Tokens -> Beds \cup {NoBed}]
    /\ dirs \subseteq Runs
    /\ armed \subseteq Runs \cup {Operator}
    /\ slipped \subseteq Runs

\* A run in its body, and until it gives up the lease, holds its bed lock, the lock of
\* every domain of the bed and the claim on every token, whatever the other runs of its
\* own process do.
HoldsItsClaims ==
    \A r \in Runs : pc[r] \in {"running", "rel-lease"} /\ r \notin rolled =>
        /\ r \in bedHeld
        /\ domHeld[r] = DomainsOf[BedOf[r]]
        /\ \A t \in TokensOf[BedOf[r]] : ledger[t] = BedOf[r]

Collide(q, r) ==
    \/ BedOf[q] = BedOf[r]
    \/ DomainsOf[BedOf[q]] \cap DomainsOf[BedOf[r]] # {}
    \/ TokensOf[BedOf[q]] \cap TokensOf[BedOf[r]] # {}

Conflict == {p \in Runs \X Runs : Collide(p[1], p[2])}

Abstract == INSTANCE BedExclusion WITH running <- {r \in Runs : pc[r] = "running"}

\* The sessions implement the exclusion they exist for.
ImplementsExclusion == Abstract!Spec

\* A session that ended, by rollback or by teardown, left no lock, no overlay directory
\* and no marker, and unless its own release failed, no armed timer; a claim still in the
\* ledger belongs to a run that holds it, died with it or failed to give it up.
NothingLeaks ==
    /\ \A r \in Runs : pc[r] = "ended" =>
            /\ r \notin bedHeld \cup dirs \cup marker
            /\ domHeld[r] = {}
            /\ r \in armed => r \in slipped
    /\ \A t \in Tokens : ledger[t] # NoBed =>
            \E r \in Runs : /\ BedOf[r] = ledger[t]
                           /\ \/ pc[r] \in {"running", "rel-lease", "dead"}
                              \/ r \in slipped

\* A reaper that is still armed finds the overlay it was registered in, also when the
\* process dies between the two: the timers are cancelled before the directory goes.
TimersKeepOverlay == \A r \in Runs : r \in armed => r \in dirs \/ r \in slipped

\* Every started run ends: runs that meet on their domain locks never wait on each other
\* in a circle, and a duplicate is refused instead of queued.
SessionsEnd == <>[](\A r \in Runs : pc[r] \in Final \cup {"idle"})

-----------------------------------------------------------------------------
(* What a comment of the code promises and a run refutes. *)

\* The loader "sees exactly this bed's registrations and no peer's": a session cancels
\* its own timers only.
CancelsOwnTimersOnly ==
    [][\A r \in Runs : CancelTimers(r) => armed \ armed' \subseteq {r}]_vars
=============================================================================
