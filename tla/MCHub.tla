-------------------------------- MODULE MCHub ---------------------------------
(***************************************************************************)
(* The Hub: its archive of record (HubArchive), under every request and on *)
(* the smaller instance whose backups are restored; the purge of a machine *)
(* from its three files (HubMachines); a backup placed in an empty data    *)
(* dir (RestoreStaging); and what it polls of the usage limits (PollSet).  *)
(* One of them moves, the others rest.                                     *)
(***************************************************************************)
EXTENDS HubArchive, HubMachines, PollSet, RestoreStaging, TLC

CONSTANTS k1, namesFile

VARIABLE part       \* the component that moves, on which instance

\* No definition picks a machine or an operation by name or order.
Symmetry == Permutations(Machines) \cup Permutations(Ops)

\* The requests take one fault, and neither a backup nor a restore; the second
\* key has one total.
Requests ==
    /\ epoch' = epoch /\ backup' = backup /\ faults' + 1 >= MaxFaults
    /\ \A k \in Present(rows') : k = k1 \/ rows'[k].total = 1

\* The instance with a restore keeps to one key, one total and one pinned snapshot.
Restores ==
    /\ \A k \in Present(rows') : k = k1 /\ rows'[k].total = 1
    /\ Cardinality(snapshots') <= 1

\* The order in which three files are renamed.
Files == <<namesFile, archiveFile, hubFile>>

-------------------------------------------------------------------------------
pollVars == <<pollSetVars, onHub>>

allVars == <<part, hubVars, purgeVars, stagingVars, pollVars>>

SuiteInit ==
    /\ part \in {"requests", "restores", "purge", "staging", "poll set"}
    /\ HubInit
    /\ PurgeInit
    /\ StagingInit
    /\ PollSetInit

\* One component moves and the rest stay as they are.
RequestsMove ==
    /\ part = "requests"
    /\ UNCHANGED <<part, purgeVars, stagingVars, pollVars>>
RestoresMove ==
    /\ part = "restores"
    /\ UNCHANGED <<part, purgeVars, stagingVars, pollVars>>
PurgeMoves == part = "purge" /\ UNCHANGED <<part, hubVars, stagingVars, pollVars>>
StagingMoves == part = "staging" /\ UNCHANGED <<part, hubVars, purgeVars, pollVars>>
PollMoves ==
    /\ part = "poll set"
    /\ UNCHANGED <<part, hubVars, purgeVars, stagingVars>>

SuiteNext ==
    \/ RequestsMove /\ HubNext /\ Requests
    \/ RestoresMove /\ HubNext /\ Restores
    \/ PurgeMoves /\ PurgeNext
    \/ StagingMoves /\ StagingNext
    \/ PollMoves /\ PollSetNext

SuiteSpec == SuiteInit /\ [][SuiteNext]_allVars

===============================================================================
