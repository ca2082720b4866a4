---------------------------- MODULE MCChangesLive -----------------------------
(***************************************************************************)
(* What a change comes to: walks (ScanGate), edits of the roots            *)
(* (WatcherRestarts), appended lines (TailReader), reconciles (Reconcile)  *)
(* and repairs (OrganizationRepair), each under the fairness its module    *)
(* states. One of the five moves, the others rest.                         *)
(***************************************************************************)
EXTENDS Naturals

CONSTANTS app1, home, mount, parent, sub, c1, p1, NULL, Unruled, NoStore, NoHome, NoMarker

VARIABLES
    part,           \* the component that moves, on which instance
    (* ScanGate *)
    walks, gChain, queued, gestures, disk, gStore, holds, rebuild, outrun,
    (* WatcherRestarts *)
    wWanted, watchers, current, currentRoots, recheckOwed, lossOwed, running, closed, wPc,
    restart, incidentRestarts, exhausted, quiet, degraded, recovered, edits, wFaults,
    quiets,
    (* TailReader *)
    file, cut, events, timer, tChain, head, offsets, cursorAtEnd, tStore, spawned,
    crossed, thrown, tChanges, tFaults,
    (* Reconcile *)
    tracked, cChanges, cDriver, cWanted, replica, pass, pendingReconcile, pendingResync,
    pendingRebuild, pendingRelease, live, cFresh, retained, suspended, hub, cMarker, cLeft,
    (* OrganizationRepair *)
    adm, walked, hubT, hubB, arch, up, epoch, oDriver, oFresh, owed, oMarker, gen,
    diskGen, ops, inflight, rerun, retry, invalidated, oPc, r, oLeft

-------------------------------------------------------------------------------
\* One owner, four walks, one rebuild.
Gate == INSTANCE ScanGate WITH
    Keys <- {app1}, MaxWalks <- 4, MaxGestures <- 3, MaxChanges <- 1, MaxSwaps <- 1,
    chain <- gChain, store <- gStore

\* Two sets of roots that share one, three edits, losses and no late ready.
Restarts == INSTANCE WatcherRestarts WITH
    Roots <- {{home}, {home, mount}}, RecoveryLimit <- 2, MaxWatchers <- 5, MaxEdits <- 3,
    MaxFaults <- 0, MaxQuiets <- 1, MaxLates <- 0,
    wantedRoots <- wWanted, pc <- wPc, faults <- wFaults

\* One line of each file's life, two lives, three changes, one failure.
Reader == INSTANCE TailReader WITH
    NoPath <- NULL, MaxHalves <- 2, MaxGens <- 2, MaxFileOps <- 3, MaxIoErrors <- 1,
    notices <- events, reads <- tChain, landed <- tStore, fileOps <- tChanges,
    ioErrors <- tFaults

\* Two edits, the replica turned off and on, one epoch mismatch; no pass throws,
\* for one that does leaves what was coalesced with it undone (fleet.ts 739).
Chain == INSTANCE Reconcile WITH
    Classes <- {c1}, MaxSettings <- 2, MaxToggles <- 2, MaxMismatches <- 1, MaxThrows <- 0,
    changes <- cChanges, driver <- cDriver, wanted <- cWanted, fresh <- cFresh,
    marker <- cMarker, left <- cLeft

\* A boot's repair, an edit, another Hub, a failure of it and a crash; none of
\* the repair's own writes fails, for then only the next run goes on.
Driver == INSTANCE OrganizationRepair WITH
    Pairs <- {p1}, Booting <- TRUE, MaxEdits <- 1, MaxEvidence <- 0, MaxHubs <- 2,
    MaxHubFaults <- 1, MaxWriteFaults <- 0, MaxCrashes <- 1,
    driver <- oDriver, fresh <- oFresh, marker <- oMarker, pc <- oPc, left <- oLeft

-------------------------------------------------------------------------------
scanGateVars == <<walks, gChain, queued, gestures, disk, gStore, holds, rebuild, outrun>>
watcherRestartsVars == <<wWanted, watchers, current, currentRoots, recheckOwed, lossOwed,
    running, closed, wPc, restart, incidentRestarts, exhausted, quiet, degraded, recovered,
    edits, wFaults, quiets>>
tailReaderVars == <<file, cut, events, timer, tChain, head, offsets, cursorAtEnd, tStore,
    spawned, crossed, thrown, tChanges, tFaults>>
reconcileVars == <<tracked, cChanges, cDriver, cWanted, replica, pass, pendingReconcile,
    pendingResync, pendingRebuild, pendingRelease, live, cFresh, retained, suspended, hub,
    cMarker, cLeft>>
organizationRepairVars == <<adm, walked, hubT, hubB, arch, up, epoch, oDriver, oFresh, owed,
    oMarker, gen, diskGen, ops, inflight, rerun, retry, invalidated, oPc, r, oLeft>>

allVars == <<part, scanGateVars, watcherRestartsVars, tailReaderVars, reconcileVars,
           organizationRepairVars>>

SuiteInit ==
    /\ part \in {"gate", "restarts", "tail", "chain", "repair"}
    /\ Gate!Init
    /\ Restarts!WatcherInit
    /\ part # "restarts" => wWanted = {home}
    /\ Reader!TailInit
    /\ Chain!ReconcileInit
    /\ part # "chain" => tracked = Unruled
    /\ Driver!Init
    /\ part # "repair" => oMarker # NoMarker /\ adm.ex = NoHome /\ arch = {p1}

\* One component moves and the rest stay as they are.
GateMoves ==
    /\ part = "gate"
    /\ UNCHANGED <<part, watcherRestartsVars, tailReaderVars, reconcileVars,
                    organizationRepairVars>>
RestartsMoves ==
    /\ part = "restarts"
    /\ UNCHANGED <<part, scanGateVars, tailReaderVars, reconcileVars, organizationRepairVars>>
ReaderMoves ==
    /\ part = "tail"
    /\ UNCHANGED <<part, scanGateVars, watcherRestartsVars, reconcileVars,
                    organizationRepairVars>>
ChainMoves ==
    /\ part = "chain"
    /\ UNCHANGED <<part, scanGateVars, watcherRestartsVars, tailReaderVars,
                    organizationRepairVars>>
DriverMoves ==
    /\ part = "repair"
    /\ UNCHANGED <<part, scanGateVars, watcherRestartsVars, tailReaderVars, reconcileVars>>

SuiteNext ==
    \/ GateMoves /\ Gate!Next
    \/ RestartsMoves /\ Restarts!WatcherNext
    \/ ReaderMoves /\ Reader!TailNext
    \/ ChainMoves /\ Chain!ReconcileNext
    \/ DriverMoves /\ Driver!Next

SuiteSpec == SuiteInit /\ [][SuiteNext]_allVars

\* The fairness of each component, as its own FairSpec states it;
\* `part` never changes, so a strong condition of several components is one.
SuiteFairSpec ==
    /\ SuiteSpec
    /\ WF_scanGateVars(part = "gate" /\ \E w \in DOMAIN walks : Gate!Start(w))
    /\ WF_scanGateVars(/\ part = "gate"
              /\ \E w \in DOMAIN walks : \/ Gate!Again(w) \/ Gate!End(w)
                                        \/ Gate!FreshEnd(w) \/ Gate!Fail(w))
    /\ WF_watcherRestartsVars(part = "restarts" /\ \E w \in DOMAIN watchers : Restarts!Report(w))
    /\ WF_watcherRestartsVars(/\ part = "restarts"
              /\ \/ Restarts!Take \/ Restarts!LoopEnds \/ Restarts!ResolveToRoots
                 \/ Restarts!ResolveToRecovery \/ Restarts!ResolveExhausted
                 \/ Restarts!ResolveToNothing \/ Restarts!CloseFirst
                 \/ \E timedOut \in BOOLEAN : Restarts!Create(timedOut))
    /\ \A p \in Reader!Paths :
         /\ WF_tailReaderVars(part = "tail" /\ Reader!Deliver(p))
         /\ WF_tailReaderVars(part = "tail" /\ Reader!Fire(p))
         /\ WF_tailReaderVars(/\ part = "tail"
                   /\ \/ Reader!StatSample(p) \/ Reader!StatResume(p)
                      \/ Reader!SliceSample(p) \/ Reader!Finish(p))
    /\ WF_reconcileVars(part = "chain" /\ Chain!Work)
    /\ WF_organizationRepairVars(part = "repair" /\ Driver!Continuation)
    /\ WF_organizationRepairVars(part = "repair" /\ Driver!Answer)
    /\ WF_organizationRepairVars(part = "repair" /\ Driver!DriverSteps)
    /\ WF_organizationRepairVars(part = "repair" /\ ~Driver!Turn /\ Driver!HubFails /\ ~up)
    /\ SF_organizationRepairVars(part = "repair" /\ ~Driver!Turn /\ Driver!Connect)
    /\ SF_organizationRepairVars(part = "repair" /\ ~Driver!Turn /\ Driver!RetryTimer)

-------------------------------------------------------------------------------
\* No walk waits forever, whichever failed before it; the last edit of the roots
\* takes effect and a loss that was heard is answered for; and what a file holds is
\* read, however events, debounces and reads interleave.
CorpusIsRead ==
    <>[](/\ part = "gate" => Gate!AllSettled
         /\ part = "restarts" => Restarts!LastEditLanded
         /\ part = "tail" => Reader!AllLanded)

\* An edit of the homes takes effect.  The engine and the replica follow the last
\* one, through toggles and an epoch mismatch, while no pass of the reconcile chain
\* throws; and what it excludes is repaired away, through a Hub that fails once, is
\* lost or is another, and a restart, while the repair's own writes succeed.
EditsTakeEffect ==
    <>[](/\ part = "chain" => Chain!AsLastWanted
         /\ part = "repair" => Driver!AsAdmitted)

===============================================================================
