------------------------------- MODULE Reconcile -------------------------------
(***************************************************************************)
(* The sidecar's serialized reconcile chain (apps/sidecar/src/fleet.ts) and *)
(* the driver of Organization settings edits that rebuilds through it       *)
(* (organization-lifecycle.ts).                                             *)
(*                                                                          *)
(* An admission is the pair of the tracked Organizations and the dormant    *)
(* sessions, abstracted to the classes of rows it admits: a row class is an *)
(* Organization's rows, or a session's owner-less rows.  A store is the     *)
(* admission its walk ran under.  A pass's awaits (load, discard, unlink, a *)
(* rebuild's walk) are interleaving points; the repair, whose own           *)
(* interleavings OrganizationRepair has, is one step here.                  *)
(***************************************************************************)
EXTENDS Naturals, Sequences

CONSTANTS
    Classes,        \* row classes an admission is about
    Unruled,        \* the null tracked set: nothing is excluded
    NoStore,        \* no such store, and no marker
    MaxSettings, MaxToggles, MaxMismatches, \* bounds on what starts work
    MaxThrows       \* bound on passes that throw

ASSUME ReconcileAssumption ==
    /\ NoStore # Unruled /\ \A a \in SUBSET Classes : a \notin {NoStore, Unruled}
    /\ MaxThrows \in Nat

VARIABLES
    tracked,            \* the admission right now
    changes,            \* the driver's queue, the change being applied first
    driver,             \* "idle", "waiting" for its rebuild, or "resumed"
    wanted, replica,    \* replicaWanted(); whether a replica is attached
    pass,               \* where the reconcile pass is, "idle" when none runs
    pendingReconcile, pendingResync, pendingRebuild, pendingRelease,
    live, fresh, retained,  \* the engine store, a rebuild's, the report view's
    suspended,          \* event-sync waits for its resync
    hub,                \* classes with rows of this machine on the Hub
    marker,             \* the repair's durable key and done list
    left                \* what the bounds leave of edits, toggles, mismatches, faults

requestVars == <<pendingReconcile, pendingResync, pendingRebuild, pendingRelease>>
storeVars == <<live, fresh, retained>>
repairVars == <<hub, marker>>
reconcileVars == <<tracked, changes, driver, wanted, replica, pass, requestVars, storeVars,
          suspended, repairVars, left>>

Admissions == {Unruled} \cup SUBSET Classes
Admits(admission) == IF admission = Unruled THEN Classes ELSE admission
WalkPasses == {"detachWalk", "resyncWalk", "walk"}
Awaits == WalkPasses \cup {"attach", "discard", "unlink"}

ReconcileInit ==
    /\ tracked \in Admissions /\ live = tracked
    /\ changes = <<>> /\ driver = "idle"
    /\ wanted = TRUE /\ replica = TRUE /\ pass = "idle"
    /\ pendingReconcile = FALSE /\ pendingResync = FALSE
    /\ pendingRebuild = FALSE /\ pendingRelease = FALSE
    /\ fresh = NoStore /\ retained = NoStore /\ suspended = FALSE
    /\ hub = Admits(tracked)
    /\ marker = [key |-> tracked, done |-> Classes \ Admits(tracked)]
    /\ left = [edits |-> MaxSettings, toggles |-> MaxToggles,
               mismatches |-> MaxMismatches, faults |-> MaxThrows]

Spend(what) == left[what] > 0 /\ left' = [left EXCEPT ![what] = @ - 1]

-------------------------------------------------------------------------------
(* classifyTrackedChange, over the admission pair *)

Additive(change) ==
    /\ change.from # change.to
    /\ Unruled \notin {change.from, change.to} /\ change.from \subseteq change.to
Restrictive(change) == change.from # change.to /\ ~Additive(change)

-------------------------------------------------------------------------------
(* The chain *)

\* Mutant: a request that lands on a running pass is lost.
ScheduleUnqueued ==
    /\ pass' = IF pass = "idle" THEN "queued" ELSE pass
    /\ UNCHANGED pendingReconcile

\* scheduleReconcile: start the chain, or ask the running one for another pass.
Schedule ==
    IF pass = "idle" THEN pass' = "queued" /\ UNCHANGED pendingReconcile
    ELSE pendingReconcile' = TRUE /\ UNCHANGED pass

\* A pass ends: another follows if one was asked for, else the chain settles
\* and whoever awaits it resumes.
EndPass ==
    IF pendingReconcile THEN pass' = "queued" /\ UNCHANGED driver
    ELSE pass' = "idle" /\ driver' = IF driver = "waiting" THEN "resumed" ELSE driver

\* The chain's catch. Mutant: its rejection reaches nobody.
SettleChainSilent == pass' = "idle" /\ UNCHANGED driver
SettleChain == pass' = "idle" /\ driver' = IF driver = "waiting" THEN "resumed" ELSE driver

\* The settings or the Hub's configuration flip whether a replica is wanted.
Toggle ==
    /\ Spend("toggles")
    /\ wanted' = ~wanted
    /\ Schedule
    /\ UNCHANGED <<tracked, changes, driver, replica, pendingResync, pendingRebuild,
                   pendingRelease, storeVars, suspended, repairVars>>

\* onEpochMismatch: event-sync suspended itself and asks for a resync, once.
OnEpochMismatch ==
    /\ replica /\ ~suspended /\ Spend("mismatches")
    /\ suspended' = TRUE /\ pendingResync' = TRUE
    /\ Schedule
    /\ UNCHANGED <<tracked, changes, driver, wanted, replica, pendingRebuild,
                   pendingRelease, storeVars, repairVars>>

\* reconcileOnce's first part: bring the replica into line with the toggles.
BeginPass ==
    /\ pass = "queued"
    /\ pendingReconcile' = FALSE
    /\ replica' = wanted
    /\ pass' = CASE wanted /\ ~replica -> "attach"
                 [] ~wanted /\ replica -> "discard"
                 [] OTHER -> "second"
    /\ retained' = IF ~wanted /\ replica THEN NoStore ELSE retained
    /\ UNCHANGED <<tracked, changes, driver, wanted, pendingResync, pendingRebuild,
                   pendingRelease, live, fresh, suspended, repairVars, left>>

\* The attached replica was loaded and fed to the engine; the pull is kicked.
Attached ==
    /\ pass = "attach" /\ pass' = "second"
    /\ UNCHANGED <<tracked, changes, driver, wanted, replica, requestVars, storeVars,
                   suspended, repairVars, left>>

\* rebuildEngine starts: createStore reads the admission now, then walks.
StartWalk(walk) == fresh' = tracked /\ pass' = walk

\* The detached cache, or the mismatched one, is off the disk.
Removed ==
    /\ \/ pass = "discard" /\ StartWalk("detachWalk")
       \/ pass = "unlink" /\ StartWalk("resyncWalk")
    /\ UNCHANGED <<tracked, changes, driver, wanted, replica, requestVars, live, retained,
                   suspended, repairVars, left>>

\* Mutant: a resync keeps the view over a rebuild that asked for none.
ResyncViewKept == IF ~replica THEN NoStore ELSE IF retained = NoStore THEN live ELSE retained

\* What reports show while a resync reseeds: the store it replaces, unless a
\* rebuild coalesced into it.
ResyncView ==
    IF ~replica \/ pendingRebuild THEN NoStore
    ELSE IF retained = NoStore THEN live ELSE retained

\* reconcileOnce's second part: the resync, else the rebuild, else nothing.
SecondPart ==
    /\ pass = "second"
    /\ pendingResync' = FALSE /\ pendingRebuild' = FALSE
    /\ suspended' = (suspended \/ pendingResync)
    /\ \/ /\ pendingResync
          /\ retained' = ResyncView /\ pendingRelease' = FALSE
          /\ IF replica THEN pass' = "unlink" /\ UNCHANGED fresh ELSE StartWalk("resyncWalk")
          /\ UNCHANGED driver
       \/ /\ ~pendingResync /\ pendingRebuild
          /\ retained' = IF pendingRelease THEN NoStore ELSE retained
          /\ pendingRelease' = FALSE
          /\ StartWalk("walk") /\ UNCHANGED driver
       \/ /\ ~pendingResync /\ ~pendingRebuild
          /\ EndPass /\ UNCHANGED <<retained, fresh, pendingRelease>>
    /\ UNCHANGED <<tracked, changes, wanted, replica, pendingReconcile, live, repairVars,
                   left>>

\* A rebuild ends with the swap; a resync then resumes event-sync.
SwapStore ==
    /\ pass \in WalkPasses
    /\ live' = fresh /\ fresh' = NoStore
    /\ suspended' = (suspended /\ pass # "resyncWalk")
    /\ IF pass = "detachWalk" THEN pass' = "second" /\ UNCHANGED driver ELSE EndPass
    /\ UNCHANGED <<tracked, changes, wanted, replica, requestVars, retained, repairVars, left>>

\* A pass throws at one of its awaits (the disk): what it had taken is taken,
\* what it had not stays pending, and the follow-up it owed does not run.
PassThrows ==
    /\ pass \in Awaits /\ Spend("faults")
    /\ fresh' = NoStore
    /\ SettleChain
    /\ UNCHANGED <<tracked, changes, wanted, replica, requestVars, live, retained,
                   suspended, repairVars>>

\* onSeedProgress(null): the replacement is complete, so the view goes.
SeedCompletes ==
    /\ replica /\ ~suspended /\ retained # NoStore
    /\ retained' = NoStore
    /\ UNCHANGED <<tracked, changes, driver, wanted, replica, pass, requestVars, live,
                   fresh, suspended, repairVars, left>>

-------------------------------------------------------------------------------
(* The driver of settings edits *)

\* A settings edit or an assertion install moves the admission, and queues the
\* change with both its sides; a restrictive one releases the view at arrival.
Edit(next) ==
    /\ Spend("edits")
    /\ LET change == [from |-> tracked, to |-> next]
       IN  /\ changes' = Append(changes, change)
           /\ retained' = IF Restrictive(change) THEN NoStore ELSE retained
    /\ tracked' = next
    /\ UNCHANGED <<driver, wanted, replica, pass, requestVars, live, fresh, suspended,
                   repairVars>>

\* requestRebuild: release wins, now and when the pass gets to it.
RequestRebuild(keep) ==
    /\ retained' = IF keep THEN retained ELSE NoStore
    /\ pendingRelease' = (pendingRelease \/ ~keep)
    /\ pendingRebuild' = TRUE
    /\ Schedule

\* applyChange up to its rebuild; a change that moved nothing ends at once.
Apply ==
    /\ driver = "idle" /\ changes # <<>>
    /\ IF Head(changes).from = Head(changes).to
       THEN /\ changes' = Tail(changes)
            /\ UNCHANGED <<driver, pass, requestVars, retained>>
       ELSE /\ RequestRebuild(Additive(Head(changes)))
            /\ driver' = "waiting"
            /\ UNCHANGED <<changes, pendingResync>>
    /\ UNCHANGED <<tracked, wanted, replica, live, fresh, suspended, repairVars, left>>

\* organizationRepair.reset: the marker wiped, nothing forgotten.
ResetRepair == marker' = [key |-> tracked, done |-> {}] /\ UNCHANGED hub

\* organizationRepair.run, the Hub reachable: forget what the live store
\* excludes and the marker does not list, under the admission read live.
Repair ==
    LET done == IF marker.key = tracked THEN marker.done ELSE {}
        foreign == IF tracked = Unruled THEN {} ELSE Classes \ Admits(live)
    IN  /\ hub' = hub \ (foreign \ done)
        /\ marker' = [key |-> tracked, done |-> done \cup foreign]

\* applyChange after its rebuild: repair, unless a later change moved the
\* admission under the walk.
Settle ==
    /\ driver = "resumed"
    /\ IF tracked = Head(changes).to THEN Repair ELSE ResetRepair
    /\ changes' = Tail(changes) /\ driver' = "idle"
    /\ UNCHANGED <<tracked, wanted, replica, pass, requestVars, storeVars, suspended, left>>

\* Event-sync offers the live store's contributions.
PushContributions ==
    /\ ~suspended /\ ~(Admits(live) \subseteq hub)
    /\ hub' = hub \cup Admits(live)
    /\ UNCHANGED <<tracked, changes, driver, wanted, replica, pass, requestVars, storeVars,
                   suspended, marker, left>>

\* What follows an await on the same turn of the event loop: no arrival, and no
\* other await's end, comes between (ingestion has settled).
Continuation == BeginPass \/ SecondPart \/ Apply \/ Settle
TurnEnded ==
    /\ pass \notin {"queued", "second"}
    /\ driver = "waiting" \/ (driver = "idle" /\ changes = <<>>)

Work == Continuation \/ (TurnEnded /\ (Attached \/ Removed \/ SwapStore))

Arrival ==
    \/ Toggle \/ OnEpochMismatch \/ PassThrows \/ SeedCompletes \/ PushContributions
    \/ \E next \in Admissions : Edit(next)

ReconcileNext == Work \/ (TurnEnded /\ Arrival)

ReconcileSpec == ReconcileInit /\ [][ReconcileNext]_reconcileVars

\* The promise chains run their links; nothing else is owed a step.
ReconcileFairSpec == ReconcileSpec /\ WF_reconcileVars(Work)

-------------------------------------------------------------------------------
ReconcileTypeOK ==
    /\ {tracked, live} \subseteq Admissions
    /\ {fresh, retained} \subseteq {NoStore} \cup Admissions
    /\ changes \in Seq([from : Admissions, to : Admissions])
    /\ driver \in {"idle", "waiting", "resumed"} /\ (driver # "idle" => changes # <<>>)
    /\ {wanted, replica, suspended, pendingReconcile, pendingResync, pendingRebuild,
        pendingRelease} \subseteq BOOLEAN
    /\ pass \in Awaits \cup {"idle", "queued", "second"}
    /\ (fresh # NoStore) = (pass \in WalkPasses)
    /\ hub \subseteq Classes
    /\ marker \in [key : Admissions, done : SUBSET Classes]

\* The retained report view shows no row the admission excludes, unless a
\* restrictive change is still queued whose own rebuild request, which releases
\* the view, has not been made (requestRebuild, reconcileOnce).
RetainedIsAdmitted ==
    retained # NoStore /\ ~(Admits(retained) \subseteq Admits(tracked))
    => \E i \in DOMAIN changes : Restrictive(changes[i]) /\ (i > 1 \/ driver = "idle")

\* Once every edit has settled, the Hub holds rows of admitted classes only: no
\* exclusion goes missing to a skipped repair or to a done list of an earlier
\* exclusion (applyChange, resetRepair).
ExcludedLeavesHub == changes = <<>> /\ pass = "idle" => hub \subseteq Admits(tracked)

\* A pass that threw left the follow-up it owed undone, and a rebuild it had taken.
NoneThrew == left.faults = MaxThrows

\* Until a pass throws, the retained report view was built for the admission it
\* answers, and what the admission excludes leaves the Hub.
AdmissionHolds == ReconcileTypeOK /\ (NoneThrew => RetainedIsAdmitted /\ ExcludedLeavesHub)

\* Whatever order toggles, mismatches and edits land in, the chain ends with
\* the replica as last wanted, the engine under the admission last set, and
\* event-sync resumed (scheduleReconcile's follow-up pass).
AsLastWanted == live = tracked /\ replica = wanted /\ ~suspended
SettlesOnTheLast == <>[]AsLastWanted

\* A pass that throws strands no edit behind it (the chain and the driver's
\* tail never reject).
EditsSettle == <>[](changes = <<>>)

\* What the driver says of its check before the repair: the store the repair
\* reads agrees with the admission, so it forgets no row that is admitted.
RepairForgetsNothingTracked ==
    driver = "resumed" /\ tracked = Head(changes).to /\ tracked # Unruled
    => hub \cap tracked \subseteq Admits(live)

\* What requestRebuild says of its await: the chain in hand ran its rebuild.
ChainCoversRequest == driver = "resumed" => ~pendingRebuild

\* What event-sync asks of its mismatch signal: a resync follows it.
MismatchIsResynced == suspended ~> ~suspended
===============================================================================
