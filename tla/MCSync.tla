-------------------------------- MODULE MCSync --------------------------------
(***************************************************************************)
(* The event sync of one client at a time, `rep` with a replica or `shr`   *)
(* without one, and a peer seen only by its pushes.  `part` names the      *)
(* fleet of a behaviour; each fleet narrows Next to what it makes plenty   *)
(* of.                                                                     *)
(***************************************************************************)
EXTENDS MCEventSync

CONSTANT Fleets     \* the fleets of a run

VARIABLE part       \* the fleet

\* The client without a replica contributes a partial line, then the final one.
ProducesAll == [c \in Clients |-> IF c = shr THEN {<<k1, Low>>, <<k1, High>>} ELSE {<<k1, High>>}]

-------------------------------------------------------------------------------
ClientState(c) == <<sync[c], reply[c], replica[c], engine[c], local[c], disk[c], recovery[c]>>

\* No other client moves, nor is a fault spent on one that is as it began.
Alone(c) ==
    /\ \A d \in Clients \ {c} : ClientState(d)' = ClientState(d)
    /\ faults' # faults => <<archiveVars, snapshots, backup, ClientState(c)>>'
                             # <<archiveVars, snapshots, backup, ClientState(c)>>

AtMostFaults(n) == faults' >= MaxFaults - n
OneArchive == epoch' = epoch /\ backup' = backup
RowsOf(machines, totals) ==
    \A k \in Keys : rows'[k] # NoRow => rows'[k].machine \in machines /\ rows'[k].total \in totals
NoDeletion == operations' = operations
DeletionsOf(machines) ==
    \A op \in Ops : operations'[op] # NoReceipt => operations'[op].scope.machine \in machines

\* Two keys to replicate: snapshots of two pages, and three changes.
Pull == AtMostFaults(1)

\* One key, and two faults for the feed of the engine to meet.
Fed1 == rows'[k2] = NoRow

\* A key of two totals, and a Hub restored from a backup or started empty; the
\* backup is the one fault.
Restored == Alone(rep) /\ NoDeletion /\ disk' = disk /\ cursor' < MaxCursor /\ AtMostFaults(1)
              /\ (faults' # faults => backup' # backup)

\* The client without a replica contributes.
Pushes == Alone(shr) /\ OneArchive /\ RowsOf({shr}, Totals) /\ DeletionsOf({shr})

\* The client with a replica contributes; a peer's rows are there only while
\* nothing failed.
Both == Alone(rep) /\ sync'[rep].share /\ OneArchive /\ RowsOf({rep, peer}, {2})
          /\ DeletionsOf({rep, peer}) /\ AtMostFaults(1) /\ (RowsOf({rep}, {2}) \/ AtMostFaults(0))

SuiteNext ==
    /\ Next
    /\ UNCHANGED part
    /\ part = "pull" => Pull
    /\ part = "feed" => Fed1
    /\ part = "restored" => Restored
    /\ part = "push" => Pushes
    /\ part = "both" => Both

SuiteInit == part \in Fleets /\ Init
suiteVars == <<part, vars>>

SuiteSpec == SuiteInit /\ [][SuiteNext]_suiteVars
===============================================================================
