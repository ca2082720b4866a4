---------------------------- MODULE ContributionView ----------------------------
(***************************************************************************)
(* What a push pass reads (apps/sidecar/src/eligible-contribution-view.ts) *)
(* and puts back (packages/usage-core/src/event-sync.ts): the live store's *)
(* contributions, whole or by the keys written since the last pass, less   *)
(* the pairs a pending Forget bars.  Stores are swapped, contributions     *)
(* replaced, the view opens late, passes are cut short, and the Hub        *)
(* deletes rows, which moves the fence a push is sent under.               *)
(***************************************************************************)
EXTENDS Integers, FiniteSets

CONSTANTS
    ViewKeys, ViewPairs,    \* the keys a pass may see, and their pairs
    ViewPairOf,         \* the pair of each key
    MaxFullness,        \* bound on a contribution's fullness; 0 is none
    ChangedKeysMax,     \* PUSH_CHANGED_KEYS_MAX
    BatchMax,           \* rows of a push
    MaxSwaps, MaxIntents, MaxFences, MaxLosses    \* bounds on what happens

ASSUME ViewAssumption == MaxFullness \in Nat \ {0} /\ ChangedKeysMax \in Nat

VARIABLES
    installed, contributions,   \* the live store, and its contributions' fullness
    ingestible, bars, revision, \* ingestion settled; the pairs of the intent
    current,                    \* the eligibility object in hand, and its identity
    tracked, seen, changed, wholesale,  \* the view: store, eligibility, keys, all
    fullPass, dirty,            \* the push loop's
    fence, source, pushed,      \* the Hub's fence, the sources', the rows it holds
    pass, full, todo, acked,    \* the pass under way; what the Hub acknowledged
    losses                      \* removals and cuts so far

storeVars == <<installed, contributions>>
gateVars == <<ingestible, bars, revision>>
viewVars == <<current, tracked, seen, changed, wholesale>>
hubVars == <<fence, pushed>>
passVars == <<fullPass, dirty, source, pass, full, todo, acked>>
contributionVars == <<storeVars, gateVars, viewVars, hubVars, passVars, losses>>

NoTotals == [k \in ViewKeys |-> 0]
Contributions == [ViewKeys -> 0 .. MaxFullness]

ViewInit ==
    /\ installed = 0 /\ contributions \in [ViewKeys -> 0 .. 1]
    /\ ingestible = FALSE /\ bars = {} /\ revision = 0
    /\ current = [open |-> FALSE, barred |-> {}, written |-> 0, id |-> 0]
    /\ tracked = -1 /\ seen = -1 /\ changed = {} /\ wholesale = TRUE
    /\ fullPass = TRUE /\ dirty = {}
    /\ fence = 0 /\ source = -1 /\ pushed = NoTotals
    /\ pass = "idle" /\ full = FALSE /\ todo = {} /\ acked = NoTotals /\ losses = 0

-------------------------------------------------------------------------------
(* The view *)

\* onWrite of a key: it joins the changed ones, or all are to be read.
OnWrite(k) ==
    IF tracked # installed \/ wholesale THEN UNCHANGED <<changed, wholesale>>
    ELSE IF Cardinality(changed) < ChangedKeysMax
         THEN changed' = changed \cup {k} /\ UNCHANGED wholesale
         ELSE changed' = {} /\ wholesale' = TRUE

\* onWrite of a removal or a wholesale replacement.
OnReplace ==
    IF tracked # installed THEN UNCHANGED <<changed, wholesale>>
    ELSE changed' = {} /\ wholesale' = TRUE

\* Mutant: an eligibility is known by whether it is open.
EligibilityByGate ==
    IF current.open = ingestible THEN current
    ELSE [open |-> ingestible, barred |-> bars, written |-> revision, id |-> current.id + 1]

\* createContributionEligibility: one object while neither gate nor intent moves.
Eligibility ==
    IF current.open = ingestible /\ current.written = revision THEN current
    ELSE [open |-> ingestible, barred |-> bars, written |-> revision, id |-> current.id + 1]

\* all, get: what of `of` a pass may send under the eligibility.
Sendable(e, of) ==
    IF ~e.open THEN {} ELSE {k \in ViewKeys : of[k] > 0 /\ ViewPairOf[k] \notin e.barred}

\* take: another store than the feed's, another eligibility, or a removal.
Wholesale(e) == wholesale \/ tracked # installed \/ e.id # seen

-------------------------------------------------------------------------------
(* The store and the gates *)

Write(k, total) ==
    /\ total > contributions[k]
    /\ contributions' = [contributions EXCEPT ![k] = total]
    /\ OnWrite(k)
    /\ UNCHANGED <<installed, gateVars, current, tracked, seen, hubVars, passVars, losses>>

\* An exclusion's eviction, or a Forget's.
Evict(k) ==
    /\ contributions[k] > 0 /\ losses < MaxLosses /\ losses' = losses + 1
    /\ contributions' = [contributions EXCEPT ![k] = 0]
    /\ OnReplace
    /\ UNCHANGED <<installed, gateVars, current, tracked, seen, hubVars, passVars>>

\* A rebuild installs another store, with what its walk found.
Swap(next) ==
    /\ installed < MaxSwaps /\ installed' = installed + 1
    /\ contributions' = next
    /\ UNCHANGED <<gateVars, viewVars, hubVars, passVars, losses>>

Ingested ==
    /\ ~ingestible /\ ingestible' = TRUE
    /\ UNCHANGED <<storeVars, bars, revision, viewVars, hubVars, passVars, losses>>

\* A Forget writes its intent, rewrites it with a receipt, or clears it.
WriteIntent(pairs) ==
    /\ revision < MaxIntents /\ revision' = revision + 1
    /\ bars' = pairs
    /\ UNCHANGED <<storeVars, ingestible, viewVars, hubVars, passVars, losses>>

\* Another machine's Forget, or a purge: the Hub loses rows and its fence moves.
FleetDeletes(keys) ==
    /\ fence < MaxFences /\ fence' = fence + 1
    /\ pushed' = [k \in ViewKeys |-> IF k \in keys THEN 0 ELSE pushed[k]]
    /\ UNCHANGED <<storeVars, gateVars, viewVars, passVars, losses>>

-------------------------------------------------------------------------------
(* A push pass *)

Unstamped(keys, acks) == {k \in keys : contributions[k] > acks[k]}

NoAcks == NoTotals

\* Mutant: the keys a cut pass did not send are not put back.
PutBackFullOnly(left) ==
    /\ fullPass' = (fullPass \/ (left # {} /\ full))
    /\ UNCHANGED dirty
    /\ pass' = "idle" /\ todo' = {} /\ full' = FALSE

\* The pass is cut short: what the Hub did not acknowledge waits for the next.
PutBack(left) ==
    /\ fullPass' = (fullPass \/ (left # {} /\ full))
    /\ dirty' = IF left # {} /\ ~full THEN dirty \cup left ELSE dirty
    /\ pass' = "idle" /\ todo' = {} /\ full' = FALSE

\* The pass takes the changes and examines them; nothing awaits in between.
Examine(refenced, wiped) ==
    LET e == Eligibility
        whole == fullPass \/ refenced \/ Wholesale(e)
                 \/ Cardinality(dirty \cup changed) > ChangedKeysMax
        acks == IF wiped THEN NoTotals
                ELSE IF whole THEN [k \in ViewKeys |-> IF k \in Sendable(e, contributions)
                                                   THEN acked[k] ELSE 0]
                     ELSE acked
        looked == IF whole THEN Sendable(e, contributions)
                  ELSE (dirty \cup changed) \cap Sendable(e, contributions)
    IN  /\ current' = e /\ seen' = e.id /\ tracked' = installed
        /\ changed' = {} /\ wholesale' = FALSE
        /\ fullPass' = FALSE /\ dirty' = {} /\ full' = whole
        /\ acked' = acks
        /\ todo' = {[key |-> k, total |-> contributions[k]] : k \in Unstamped(looked, acks)}
        /\ pass' = IF todo' = {} THEN "idle" ELSE "sending"

\* Nothing moved the fence since the sources were prepared.
PassUnderFence ==
    /\ pass = "idle" /\ source = fence
    /\ Examine(FALSE, FALSE)
    /\ UNCHANGED <<storeVars, gateVars, hubVars, source, losses>>

\* The process's first fence: the boot's walk prepared the sources.
FirstPass ==
    /\ pass = "idle" /\ source = -1
    /\ source' = fence
    /\ Examine(TRUE, TRUE)
    /\ UNCHANGED <<storeVars, gateVars, hubVars, losses>>

\* A moved fence asks for a walk, which takes a while.
StartPrepare ==
    /\ pass = "idle" /\ source \notin {-1, fence}
    /\ pass' = "prepare" /\ todo' = {} /\ full' = FALSE
    /\ UNCHANGED <<storeVars, gateVars, viewVars, hubVars, fullPass, dirty, source, acked,
                   losses>>

\* prepareContributions replaces the contributions by those of the walk.
Prepared(next) ==
    /\ pass = "prepare"
    /\ contributions' = next
    /\ LET e == Eligibility
           looked == Sendable(e, next)
       IN  /\ current' = e /\ seen' = e.id /\ tracked' = installed
           /\ changed' = {} /\ wholesale' = FALSE
           /\ todo' = {[key |-> k, total |-> next[k]] : k \in looked}
           /\ pass' = IF looked = {} THEN "idle" ELSE "sending"
    /\ source' = fence /\ acked' = NoAcks
    /\ fullPass' = FALSE /\ dirty' = {} /\ full' = TRUE
    /\ UNCHANGED <<installed, gateVars, hubVars, losses>>

\* Disconnected, or suspended by a Forget, before its walk ended.
PrepareCut ==
    /\ pass = "prepare" /\ losses < MaxLosses /\ losses' = losses + 1
    /\ pass' = "idle"
    /\ UNCHANGED <<storeVars, gateVars, viewVars, hubVars, fullPass, dirty, source, full, todo,
                   acked>>

\* Totals with a batch of rows taken in where it is fuller.
Raised(totals, batch) ==
    [k \in ViewKeys |-> IF \E row \in batch : row.key = k /\ row.total > totals[k]
                        THEN (CHOOSE row \in batch : row.key = k).total ELSE totals[k]]

\* The first BatchMax rows reach the Hub, which keeps the fuller, and says so.
Acknowledged(batch) ==
    /\ pass = "sending" /\ source = fence
    /\ pushed' = Raised(pushed, batch) /\ acked' = Raised(acked, batch)
    /\ todo' = todo \ batch
    /\ IF todo' = {} THEN pass' = "idle" /\ full' = FALSE ELSE UNCHANGED <<pass, full>>
    /\ UNCHANGED <<storeVars, gateVars, viewVars, fence, fullPass, dirty, source, losses>>

\* A 409: the Hub's fence has moved since.
Refused ==
    /\ pass = "sending" /\ source # fence
    /\ PutBack({row.key : row \in todo})
    /\ source' = -2
    /\ UNCHANGED <<storeVars, gateVars, viewVars, hubVars, acked, losses>>

\* An error or a disconnect; the batch may have reached the Hub all the same.
Cut(batch) ==
    /\ pass = "sending" /\ losses < MaxLosses /\ losses' = losses + 1
    /\ \/ UNCHANGED pushed
       \/ source = fence
          /\ pushed' = Raised(pushed, batch)
    /\ PutBack({row.key : row \in todo})
    /\ UNCHANGED <<storeVars, gateVars, viewVars, fence, source, acked>>

FirstRows == {batch \in SUBSET todo :
                 Cardinality(batch) = IF Cardinality(todo) < BatchMax
                                      THEN Cardinality(todo) ELSE BatchMax}

Pass ==
    \/ PassUnderFence \/ FirstPass \/ StartPrepare \/ Refused
    \/ \E next \in {f \in Contributions : \A k \in ViewKeys : f[k] \in {0, contributions[k]}} :
          Prepared(next)
    \/ \E batch \in FirstRows : Acknowledged(batch)

ViewNext ==
    \/ Pass
    \/ \E k \in ViewKeys : Evict(k) \/ \E total \in 1 .. MaxFullness : Write(k, total)
    \/ \E next \in Contributions : Swap(next)
    \/ Ingested
    \/ \E pairs \in SUBSET ViewPairs : WriteIntent(pairs)
    \/ \E keys \in SUBSET ViewKeys : FleetDeletes(keys)
    \/ PrepareCut
    \/ \E batch \in FirstRows : Cut(batch)

ViewSpec == ViewInit /\ [][ViewNext]_contributionVars

\* Ingestion settles; every change, poke and sweep kicks a pass, and it ends.
ViewFairSpec == ViewSpec /\ WF_contributionVars(Ingested) /\ WF_contributionVars(Pass)

-------------------------------------------------------------------------------
ContributionViewTypeOK ==
    /\ contributions \in Contributions /\ pushed \in Contributions /\ acked \in Contributions
    /\ changed \cup dirty \subseteq ViewKeys /\ (wholesale => changed = {})
    /\ Cardinality(changed) <= ChangedKeysMax
    /\ (todo # {}) = (pass = "sending")
    /\ \A row, other \in todo : row.key = other.key => row = other

MayBeSent(k) == ingestible /\ contributions[k] > 0 /\ ViewPairOf[k] \notin bars

\* At rest, with nothing in the feed, nothing put back and neither store,
\* eligibility nor fence moved since a pass looked, every eligible contribution
\* is on the Hub: no write, swap, eligibility, removal, refusal or cut loses one.
NothingUnsent ==
    /\ pass = "idle" /\ ~fullPass /\ dirty = {} /\ changed = {} /\ source = fence
    /\ ~Wholesale(Eligibility)
    => \A k \in ViewKeys : MayBeSent(k) => pushed[k] >= contributions[k]

\* An acknowledgement never outlives what it stands for: while the sources are
\* of the Hub's fence, the Hub holds what the loop would not send again.
AckedIsHeld == source = fence => \A k \in ViewKeys : acked[k] <= pushed[k]

\* At rest every eligible contribution is on the Hub, and an acknowledged one is.
PushIsComplete == ContributionViewTypeOK /\ NothingUnsent /\ AckedIsHeld

\* Every contribution is on the Hub, or barred, or gone.
AllOnHub == \A k \in ViewKeys : MayBeSent(k) => pushed[k] >= contributions[k]

===============================================================================
