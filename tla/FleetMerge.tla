------------------------------ MODULE FleetMerge ------------------------------
(***************************************************************************)
(* One dedup key across the stores that keep it: the engine's `upsert`,    *)
(* the Hub's `push`, the Local archive's `append`.  Copies reach a store   *)
(* from transcripts in any order, more than once, and from another store,  *)
(* which passes on only the copy it holds.                                 *)
(***************************************************************************)
EXTENDS FleetDedup

CONSTANTS
    Stores,     \* the stores that keep a copy of the key
    NoCopy      \* the store has none

ASSUME MergeAssumption == NoCopy \notin [total : Nat, tag : Nat, session : Sessions]

VARIABLES
    held,       \* the copy each store keeps
    seen        \* auxiliary: the copies each store was given, itself or through another

mergeVars == <<held, seen>>

MergeTypeOK ==
    /\ held \in [Stores -> Copies \cup {NoCopy}]
    /\ seen \in [Stores -> SUBSET Copies]

MergeInit ==
    /\ held = [s \in Stores |-> NoCopy]
    /\ seen = [s \in Stores |-> {}]

\* Mutant: of two equal totals the later copy wins, whatever its tag.
KeptLatest(incumbent, candidate) ==
    IF incumbent = NoCopy \/ candidate.total >= incumbent.total THEN candidate ELSE incumbent

\* The one merge rule: what a store that holds `incumbent` keeps of `candidate`.
Kept(incumbent, candidate) ==
    IF incumbent = NoCopy \/ Supersedes(candidate, incumbent) THEN candidate ELSE incumbent

\* A transcript line reaches a store.
Offer(s, copy) ==
    /\ held' = [held EXCEPT ![s] = Kept(@, copy)]
    /\ seen' = [seen EXCEPT ![s] = @ \cup {copy}]

\* A store passes on the copy it holds: a push, a pull, a seed.
Relay(s, t) ==
    /\ held[s] # NoCopy
    /\ held' = [held EXCEPT ![t] = Kept(@, held[s])]
    /\ seen' = [seen EXCEPT ![t] = @ \cup seen[s]]

MergeNext ==
    \/ \E s \in Stores, copy \in Copies : Offer(s, copy)
    \/ \E s, t \in Stores : Relay(s, t)

MergeSpec == MergeInit /\ [][MergeNext]_mergeVars

-------------------------------------------------------------------------------

\* A store keeps one of the copies that reached it, and none of them is fuller,
\* although the copies that lost at another store were never passed on.
HeldIsFullest ==
    \A s \in Stores :
        IF held[s] = NoCopy THEN seen[s] = {}
        ELSE held[s] \in seen[s] /\ \A copy \in seen[s] : AtLeast(held[s], copy)

\* Two stores that the same copies reached, in whatever order and by whatever
\* way, keep copies of the same total and the same Organization: the order is
\* total on what it reads, so no tie is left to arrival (fleet-dedup.ts, #374).
StoresAgree ==
    \A s, t \in Stores :
        seen[s] = seen[t] /\ held[s] # NoCopy /\ held[t] # NoCopy
            => SameFullness(held[s], held[t])
===============================================================================
