------------------------------- MODULE MCMerge --------------------------------
(***************************************************************************)
(* The merge rule (FleetMerge): three stores of one key and every copy of  *)
(* two totals, and no tag or one of two. And the Event engine's store      *)
(* (EngineStore), which applies the rule to counted, own and excluded      *)
(* copies: of one key in two pairs, the second one dormant, with tag 2     *)
(* outside the tracked set. One of the two moves, the other rests.         *)
(***************************************************************************)
EXTENDS FleetMerge, EngineStore, TLC

VARIABLES part           \* the component that moves

Symmetry == Permutations(Stores)

-------------------------------------------------------------------------------
allVars == <<part, mergeVars, vars>>

SuiteInit ==
    /\ part \in {"merge", "engine"}
    /\ MergeInit
    /\ Init

\* One component moves and the rest stay as they are.
MergeMove == part = "merge" /\ UNCHANGED <<part, vars>>
EngineMove == part = "engine" /\ UNCHANGED <<part, mergeVars>>

SuiteNext ==
    \/ MergeMove /\ MergeNext
    \/ EngineMove /\ Next

SuiteSpec == SuiteInit /\ [][SuiteNext]_allVars

===============================================================================
