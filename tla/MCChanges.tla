------------------------------ MODULE MCChanges -------------------------------
(***************************************************************************)
(* How a change reaches the engine. Of the corpus: the gate one walk       *)
(* passes at a time (ScanGate), the restarts of the watcher                *)
(* (WatcherRestarts), and the reading of what was appended to the files    *)
(* (TailReader). Of the organization's homes: the coordinator's reconcile  *)
(* chain (Reconcile) and the driver's repairs of the Local archive and of  *)
(* the Hub (OrganizationRepair). Of the reports: the cache that answers    *)
(* them from what the change feed left (ReportCache). One of the six       *)
(* moves, the others rest.                                                 *)
(***************************************************************************)
EXTENDS ScanGate, Reconcile, WatcherRestarts, ReportCache, TailReader, TLC

CONSTANTS home, mount, app1, app2, c1, c2, p1, NoHome,
          NoMarker

VARIABLES
    part,           \* the component that moves, on which instance
    (* OrganizationRepair *)
    adm, walked, hubT, hubB, arch, up, epoch, oDriver, oFresh, owed, oMarker, gen,
    diskGen, ops, inflight, rerun, retry, invalidated, oPc, r, oLeft

\* The reports of two keys; a new version of the first moves to another bucket.
K1 == [key |-> app1, ver |-> 1]
K1Moved == [key |-> app1, ver |-> 2]
K2 == [key |-> app2, ver |-> 1]
Buckets == (K1 :> 1) @@ (K1Moved :> 2) @@ (K2 :> 1)
\* Two sets of roots that share one.
RootSets == {{home}, {home, mount}}
AllRows == DOMAIN Buckets
Filters == {"all", "narrow"}
Admitted == [all |-> AllRows, narrow |-> {K1, K1Moved}]

-------------------------------------------------------------------------------
\* Three edits at rest, nothing goes wrong.
Edits == INSTANCE OrganizationRepair WITH
    Pairs <- {p1}, Booting <- FALSE, MaxEdits <- 3, MaxEvidence <- 0, MaxHubs <- 1,
    MaxHubFaults <- 0, MaxWriteFaults <- 0, MaxCrashes <- 0,
    driver <- oDriver, fresh <- oFresh, marker <- oMarker, pc <- oPc, left <- oLeft

\* A boot's repair, an edit, evidence, another Hub, a failure of it and a crash.
Boot == INSTANCE OrganizationRepair WITH
    Pairs <- {p1}, Booting <- TRUE, MaxEdits <- 1, MaxEvidence <- 1, MaxHubs <- 2,
    MaxHubFaults <- 1, MaxWriteFaults <- 0, MaxCrashes <- 1,
    driver <- oDriver, fresh <- oFresh, marker <- oMarker, pc <- oPc, left <- oLeft

\* The same, and of the failures a write's.
Strike == INSTANCE OrganizationRepair WITH
    Pairs <- {p1}, Booting <- TRUE, MaxEdits <- 1, MaxEvidence <- 1, MaxHubs <- 2,
    MaxHubFaults <- 0, MaxWriteFaults <- 1, MaxCrashes <- 1,
    driver <- oDriver, fresh <- oFresh, marker <- oMarker, pc <- oPc, left <- oLeft

-------------------------------------------------------------------------------
organizationRepairVars == <<adm, walked, hubT, hubB, arch, up, epoch, oDriver, oFresh, owed,
    oMarker, gen, diskGen, ops, inflight, rerun, retry, invalidated, oPc, r, oLeft>>

allVars == <<part, vars, watcherVars, tailVars, reconcileVars,
           organizationRepairVars, reportCacheVars>>

SuiteInit ==
    /\ part \in {"gate", "restarts", "tail", "chain", "edits", "boot", "strike",
             "swapped reports", "reports"}
    /\ Init
    /\ WatcherInit
    /\ part # "restarts" => wantedRoots = {home}
    /\ TailInit
    /\ ReconcileInit
    /\ part # "chain" => tracked = Unruled
    /\ CASE part = "boot" -> Boot!Init
         [] part = "strike" -> Strike!Init
         [] OTHER -> Edits!Init
    /\ part \notin {"edits", "boot", "strike"} => oMarker # NoMarker /\ adm.ex = NoHome /\ arch = {p1}
    /\ CacheInit
    /\ part \notin {"swapped reports", "reports"} => storeRows = {}

\* One component moves and the rest stay as they are.
GateMove ==
    /\ part = "gate"
    /\ UNCHANGED <<part, watcherVars, tailVars, reconcileVars,
                    organizationRepairVars, reportCacheVars>>
RestartsMoves ==
    /\ part = "restarts"
    /\ UNCHANGED <<part, vars, tailVars, reconcileVars, organizationRepairVars,
                    reportCacheVars>>
ReaderMoves ==
    /\ part = "tail"
    /\ UNCHANGED <<part, vars, watcherVars, reconcileVars, organizationRepairVars,
                    reportCacheVars>>
ChainMoves ==
    /\ part = "chain"
    /\ UNCHANGED <<part, vars, watcherVars, tailVars, organizationRepairVars,
                    reportCacheVars>>
EditsMoves ==
    /\ part = "edits"
    /\ UNCHANGED <<part, vars, watcherVars, tailVars, reconcileVars,
                    reportCacheVars>>
BootMoves ==
    /\ part = "boot"
    /\ UNCHANGED <<part, vars, watcherVars, tailVars, reconcileVars,
                    reportCacheVars>>
StrikeMoves ==
    /\ part = "strike"
    /\ UNCHANGED <<part, vars, watcherVars, tailVars, reconcileVars,
                    reportCacheVars>>
\* One change, and a swap of the store or of the prices.
SwappedMoves ==
    /\ part = "swapped reports"
    /\ UNCHANGED <<part, vars, watcherVars, tailVars, reconcileVars,
                    organizationRepairVars>>
\* Two changes and no swap.
FedMoves ==
    /\ part = "reports"
    /\ UNCHANGED <<part, vars, watcherVars, tailVars, reconcileVars,
                    organizationRepairVars>>

SuiteNext ==
    \/ GateMove /\ Next
    \/ RestartsMoves /\ WatcherNext
    \/ ReaderMoves /\ TailNext
    \/ ChainMoves /\ ReconcileNext
    \/ EditsMoves /\ Edits!Next
    \/ BootMoves /\ Boot!Next
    \/ StrikeMoves /\ Strike!Next
    \/ SwappedMoves /\ CacheNext /\ feeds' <= 1
    \/ FedMoves /\ CacheNext /\ rebinds' = 0

SuiteSpec == SuiteInit /\ [][SuiteNext]_allVars

-------------------------------------------------------------------------------
\* A repair rests only when nothing is left to repair, and what its marker says
\* is done has been, unless a run doubts it.
RepairHolds ==
    /\ part \in {"boot", "strike"} => Strike!OrganizationRepairTypeOK
    /\ part # "strike" => Edits!RestsOnlyWhenClean
    /\ part = "strike" => Strike!DoneIsTrueOrDoubted

===============================================================================
