------------------------------ MODULE MCSyncLive ------------------------------
(***************************************************************************)
(* The event sync under fairness, in two fleets: one whose rows an         *)
(* operation deletes, and one whose Hub is restored or started empty.      *)
(***************************************************************************)
EXTENDS MCEventSync

VARIABLE part       \* the fleet

\* One archive, and no backup of it.
Deletes == epoch' = epoch /\ backup' = backup

\* No operation deletes.
Restores == operations' = operations

SuiteNext ==
    /\ Next
    /\ UNCHANGED part
    /\ part = "deletes" => Deletes
    /\ part = "restores" => Restores

SuiteInit == part \in {"deletes", "restores"} /\ Init
suiteVars == <<part, vars>>

SuiteFairSpec == SuiteInit /\ [][SuiteNext]_suiteVars /\ Fairness

===============================================================================
