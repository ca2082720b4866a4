-------------------------- MODULE FleetClient_proofs --------------------------
(***************************************************************************)
(* What a client keeps and what it pushes.  The Local archive, for any     *)
(* number of keys and pairs, links of its chain, failures of its disk and  *)
(* deletions: what was forgotten stays out of the file and of every store  *)
(* seeded by it, and the file loses rows to a forget alone and gains none  *)
(* the Hub is not known to hold.  The contribution view, for any feed      *)
(* limit, batch size and number of swaps, intents, deletions and losses:   *)
(* no contribution is lost between the view and the push loop.  The Hub    *)
(* client, for any number of samples, failures and changes of the          *)
(* settings: one attempt, stream or retry is under way, and no sample owed *)
(* is forgotten.                                                           *)
(***************************************************************************)
EXTENDS LocalArchive, ContributionView, HubClient, SequenceTheorems, FiniteSetTheorems,
        WellFoundedInduction, TLAPS

USE LocalArchiveAssumption

-------------------------------------------------------------------------------
(* Rows by key *)

Rows == [Keys -> Fullness]

LEMMA LargerIs ==
    ASSUME NEW a \in Fullness, NEW b \in Fullness
    PROVE  Larger(a, b) \in {a, b} /\ Larger(a, b) \in Fullness /\ a <= Larger(a, b)
BY DEF Larger, Fullness

LEMMA RowsAre ==
    ASSUME NEW f \in Rows, NEW g \in Rows, NEW gone
    PROVE  /\ Nothing \in Rows
           /\ Fuller(f, g) \in Rows /\ Without(f, gone) \in Rows
           /\ \A k \in Keys : /\ f[k] <= Fuller(f, g)[k] /\ Fuller(f, g)[k] \in {f[k], g[k]}
                              /\ Without(f, gone)[k] = IF k \in gone THEN 0 ELSE f[k]
<1>1. 0 \in Fullness
  BY DEF Fullness
<1>2. Nothing \in Rows /\ Without(f, gone) \in Rows
      /\ \A k \in Keys : Without(f, gone)[k] = IF k \in gone THEN 0 ELSE f[k]
  BY <1>1 DEF Nothing, Without, Rows
<1>3. \A k \in Keys : f[k] \in Fullness /\ g[k] \in Fullness
  BY DEF Rows
<1>4. \A k \in Keys : Larger(f[k], g[k]) \in {f[k], g[k]} /\ Larger(f[k], g[k]) \in Fullness
                      /\ f[k] <= Larger(f[k], g[k])
  BY <1>3, LargerIs
<1>5. Fuller(f, g) \in Rows /\ \A k \in Keys : Fuller(f, g)[k] = Larger(f[k], g[k])
  BY <1>4 DEF Fuller, Rows
<1> QED
  BY <1>2, <1>4, <1>5

\* What a batch may write is of what it brought, is not forgotten, and is this
\* machine's own or held by the Hub while no deletion is pending.
LEMMA WantedIs ==
    ASSUME NEW rows \in Rows, NEW local \in Rows
    PROVE  /\ Wanted(rows, local) \in Rows
           /\ \A k \in Keys : Wanted(rows, local)[k] # 0 =>
                 /\ ~Forgotten(k) /\ Wanted(rows, local)[k] = rows[k]
                 /\ rows[k] <= local[k] \/ MayArchiveFleet(k, rows[k])
<1>1. 0 \in Fullness
  BY DEF Fullness
<1> QED
  BY <1>1 DEF Wanted, Rows, Eligible

LEMMA ReplayedIs ==
    ASSUME file \in Rows, NEW pairs, NEW excludedPairs
    PROVE  /\ Replayed(pairs, excludedPairs) \in Rows
           /\ \A k \in Keys : Replayed(pairs, excludedPairs)[k] =
                 IF PairOf[k] \in pairs \/ (PairOf[k] \in excludedPairs /\ k \in excluded)
                 THEN 0 ELSE file[k]
<1> DEFINE gone == OfPairs(pairs) \cup ExcludedOf(excludedPairs)
<1>1. /\ Without(file, gone) \in Rows
      /\ \A k \in Keys : Without(file, gone)[k] = IF k \in gone THEN 0 ELSE file[k]
  BY RowsAre
<1>2. \A k \in Keys : k \in gone <=>
         PairOf[k] \in pairs \/ (PairOf[k] \in excludedPairs /\ k \in excluded)
  BY DEF OfPairs, ExcludedOf
<1> QED
  BY <1>1, <1>2 DEF Replayed

-------------------------------------------------------------------------------
(* The chain *)

Links == [kind : {"append", "retry", "forget", "forgetExcluded"}, pair : Pairs \cup {NoPair},
          rows : Rows]
Deletes(l) == l.kind \in {"forget", "forgetExcluded"}

\* A link that deletes is the forget under way, and of a kind with it; `forgotten`
\* are the pairs that are barred.
LinkOK(l, c, forgotten) ==
    /\ Deletes(l) => /\ c.at = "chain" /\ c.pair = l.pair
                     /\ c.mode = "pair" <=> l.kind = "forget"
    /\ l.kind = "forget" => l.pair \in forgotten

Linked(q, c, forgotten) ==
    /\ \A i \in DOMAIN q : LinkOK(q[i], c, forgotten)
    /\ \A i, j \in DOMAIN q : Deletes(q[i]) /\ Deletes(q[j]) => i = j

DeletesNothing(q) == \A i \in DOMAIN q : ~Deletes(q[i])

LEMMA NothingLinked ==
    ASSUME NEW q, DeletesNothing(q), NEW c, NEW forgotten
    PROVE  Linked(q, c, forgotten)
BY DEF DeletesNothing, Linked, LinkOK, Deletes

LEMMA NotOnChain ==
    ASSUME NEW q, NEW c, NEW forgotten, Linked(q, c, forgotten), c.at # "chain"
    PROVE  DeletesNothing(q)
BY DEF DeletesNothing, Linked, LinkOK

LEMMA MoreForgotten ==
    ASSUME NEW q, NEW c, NEW forgotten, NEW more, Linked(q, c, forgotten), forgotten \subseteq more
    PROVE  Linked(q, c, more)
BY DEF Linked, LinkOK

\* A link of another kind joins the chain.
LEMMA Joined ==
    ASSUME NEW q \in Seq(Links), NEW l \in Links, ~Deletes(l)
    PROVE  /\ Append(q, l) \in Seq(Links)
           /\ \A c, forgotten : Linked(q, c, forgotten) => Linked(Append(q, l), c, forgotten)
           /\ DeletesNothing(q) => DeletesNothing(Append(q, l))
<1>1. Append(q, l) \in Seq(Links) /\ DOMAIN Append(q, l) = 1 .. Len(q) + 1
      /\ DOMAIN q = 1 .. Len(q) /\ Len(q) \in Nat
      /\ \A i \in 1 .. Len(q) + 1 : Append(q, l)[i] = IF i <= Len(q) THEN q[i] ELSE l
  BY AppendProperties, LenProperties
<1>2. \A i \in DOMAIN Append(q, l) :
         Append(q, l)[i] = l \/ (i \in DOMAIN q /\ Append(q, l)[i] = q[i])
  BY <1>1
<1>3. l.kind # "forget"
  BY DEF Deletes
<1> QED
  BY <1>1, <1>2, <1>3 DEF Linked, LinkOK, DeletesNothing

\* A forget's delete joins a chain that holds none.
LEMMA DeleteJoins ==
    ASSUME NEW q \in Seq(Links), NEW l \in Links, DeletesNothing(q),
           NEW c, NEW forgotten, LinkOK(l, c, forgotten)
    PROVE  Append(q, l) \in Seq(Links) /\ Linked(Append(q, l), c, forgotten)
<1>1. Append(q, l) \in Seq(Links) /\ DOMAIN Append(q, l) = 1 .. Len(q) + 1
      /\ DOMAIN q = 1 .. Len(q) /\ Len(q) \in Nat
      /\ \A i \in 1 .. Len(q) + 1 : Append(q, l)[i] = IF i <= Len(q) THEN q[i] ELSE l
  BY AppendProperties, LenProperties
<1>2. \A i \in DOMAIN Append(q, l) : i # Len(q) + 1 =>
         i \in DOMAIN q /\ Append(q, l)[i] = q[i]
  BY <1>1
<1>3. \A i \in DOMAIN Append(q, l) : i # Len(q) + 1 => ~Deletes(Append(q, l)[i])
  BY <1>2 DEF DeletesNothing
<1>4. Append(q, l)[Len(q) + 1] = l
  BY <1>1
<1>5. \A i \in DOMAIN Append(q, l) : LinkOK(Append(q, l)[i], c, forgotten)
  BY <1>3, <1>4 DEF LinkOK, Deletes
<1> QED
  BY <1>1, <1>3, <1>5 DEF Linked

\* The first link leaves; when it deletes, none that remains does.
LEMMA HeadLeaves ==
    ASSUME NEW q \in Seq(Links), q # <<>>, NEW c, NEW forgotten, Linked(q, c, forgotten)
    PROVE  /\ Head(q) \in Links /\ LinkOK(Head(q), c, forgotten) /\ Tail(q) \in Seq(Links)
           /\ Linked(Tail(q), c, forgotten)
           /\ Deletes(Head(q)) => DeletesNothing(Tail(q))
<1>1. Tail(q) \in Seq(Links) /\ Head(q) = q[1] /\ 1 \in DOMAIN q /\ q[1] \in Links
      /\ \A i \in DOMAIN Tail(q) : i + 1 \in DOMAIN q /\ Tail(q)[i] = q[i + 1] /\ i + 1 # 1
                                   /\ i \in Nat
  BY HeadTailProperties, LenProperties, ElementOfSeq
<1>2. \A i, j \in DOMAIN Tail(q) : i + 1 = j + 1 => i = j
  BY <1>1
<1> QED
  BY <1>1, <1>2 DEF Linked, DeletesNothing

\* What a caller offers is filtered, and joins the chain or does not.
LEMMA EnqueuedIs ==
    ASSUME NEW q \in Seq(Links), NEW rows \in Rows, NEW local \in Rows
    PROVE  /\ Enqueued(q, rows, local) \in Seq(Links)
           /\ \A c, forgotten : Linked(q, c, forgotten) =>
                 Linked(Enqueued(q, rows, local), c, forgotten)
<1> DEFINE l == Link("append", NoPair, Wanted(rows, local))
<1>1. l \in Links /\ ~Deletes(l)
  BY WantedIs DEF Link, Links, Deletes
<1>2. Enqueued(q, rows, local) \in {q, Append(q, l)}
  BY DEF Enqueued
<1> HIDE DEF l
<1> QED
  BY <1>1, <1>2, Joined
-------------------------------------------------------------------------------
(* The inductive invariant *)

Modes == {"pair", "excluded"}

FilesOK == file \in Rows /\ scripts \in Rows

ProcessOK ==
    /\ disk \in {"ok", "broken"} /\ faults \in 0 .. MaxFaults
    /\ booted \in BOOLEAN /\ open \in BOOLEAN /\ stopped \in {"no", "draining", "closed"}

EngineOK == live \in Rows /\ own \in Rows /\ excluded \subseteq Keys

\* Only a copy of what was heard of counts as caught up.
FleetOK ==
    /\ hub \in Rows /\ heard \in Rows /\ copy \in Rows /\ caughtUp \in BOOLEAN
    /\ hubSteps \in 0 .. MaxHub
    /\ caughtUp => copy = heard

IntentOK ==
    /\ intent \in [pair : Pairs \cup {NoPair}, mode : Modes, localComplete : BOOLEAN]
    /\ intent # NoIntent => intent.pair \in Pairs

\* A forget runs behind its intent.
CallOK ==
    /\ call \in [pair : Pairs \cup {NoPair}, mode : Modes,
                 at : {"none", "sent", "chain", "deleted", "removed"}]
    /\ call.at = "none" => call = NoCall
    /\ call.at # "none" => call.pair \in Pairs /\ call.pair = intent.pair /\ call.mode = intent.mode

\* What is queued to be deleted is barred.
QueuesOK ==
    /\ forgottenPairs \subseteq Pairs /\ pendingForgets \subseteq forgottenPairs
    /\ pendingExcludedForgets \subseteq Pairs

ChainOK == chain \in Seq(Links) /\ Linked(chain, call, forgottenPairs)

\* The forget of k's pair has not yet taken its rows out of the store being seeded.
Unfinished(k) == intent.pair = PairOf[k] /\ intent.mode = "pair" /\ call.at # "removed"

\* A read skips what was forgotten before it began; at its end the rest goes.
FreshOK ==
    /\ fresh \in [phase : {"none", "reading", "seeded"}, rows : Rows, unread : SUBSET Keys,
                  before : SUBSET Pairs, excluded : SUBSET Keys]
    /\ fresh.phase = "reading" =>
          /\ fresh.before \subseteq forgottenPairs
          /\ \A k \in Keys : PairOf[k] \in fresh.before => fresh.rows[k] = 0
    /\ fresh.phase = "seeded" =>
          \A k \in Keys : Forgotten(k) /\ ~Unfinished(k) => fresh.rows[k] = 0

\* A row of a forgotten pair is about to be deleted: its delete is queued or on
\* the chain, or the file is never written again.
BarredOK ==
    \A k \in Keys : Forgotten(k) /\ file[k] # 0 =>
        \/ PairOf[k] \in pendingForgets
        \/ call.pair = PairOf[k] /\ call.at = "chain" /\ call.mode = "pair"
        \/ stopped # "no" /\ ~open

ArchiveInv ==
    /\ FilesOK /\ ProcessOK /\ EngineOK /\ FleetOK
    /\ IntentOK /\ CallOK /\ QueuesOK /\ ChainOK /\ FreshOK /\ BarredOK

LEMMA ArchiveStarts ==
    ASSUME ArchiveInit
    PROVE  ArchiveInv
<1>0. MaxHub \in Nat /\ MaxFaults \in Nat /\ 0 \in Fullness
  BY DEF Fullness
<1>1. Nothing \in Rows /\ MaxHub \in 0 .. MaxHub /\ MaxFaults \in 0 .. MaxFaults
  BY <1>0 DEF Nothing, Rows
<1>2. FilesOK /\ EngineOK /\ FleetOK /\ ProcessOK
  <2>1. FilesOK /\ EngineOK
    BY <1>1 DEF ArchiveInit, FilesOK, EngineOK
  <2>2. FleetOK
    BY <1>1, Zenon DEF ArchiveInit, FleetOK
  <2>3. ProcessOK
    BY <1>1, Zenon DEF ArchiveInit, ProcessOK
  <2> QED
    BY <2>1, <2>2, <2>3
<1>3. IntentOK /\ CallOK /\ QueuesOK
  BY DEF ArchiveInit, IntentOK, CallOK, QueuesOK, NoIntent, NoCall, Modes
<1>4. ChainOK
  <2>1. <<>> \in Seq(Links) /\ DOMAIN <<>> = {}
    OBVIOUS
  <2>2. Linked(<<>>, call, forgottenPairs)
    BY <2>1 DEF Linked
  <2> QED
    BY <2>1, <2>2 DEF ArchiveInit, ChainOK
<1>5. FreshOK
  BY <1>1 DEF ArchiveInit, FreshOK, NoFresh
<1>6. BarredOK
  BY DEF ArchiveInit, BarredOK, Forgotten
<1> QED
  BY <1>2, <1>3, <1>4, <1>5, <1>6 DEF ArchiveInv

-------------------------------------------------------------------------------
(* One lemma for each action *)

LEMMA OpensIs ==
    ASSUME ArchiveInv, NEW pairs, NEW excludedPairs, Opens(pairs, excludedPairs)
    PROVE  /\ file' \in Rows /\ EngineOK' /\ open' = TRUE
           /\ pendingForgets' = {} /\ pendingExcludedForgets' = {}
           /\ \A k \in Keys : file'[k] =
                 IF PairOf[k] \in pairs \/ (PairOf[k] \in excludedPairs /\ k \in excluded)
                 THEN 0 ELSE file[k]
<1>1. file \in Rows /\ live \in Rows /\ own \in Rows /\ excluded \subseteq Keys
  BY DEF ArchiveInv, FilesOK, EngineOK
<1>2. /\ file' \in Rows
      /\ \A k \in Keys : file'[k] =
            IF PairOf[k] \in pairs \/ (PairOf[k] \in excludedPairs /\ k \in excluded)
            THEN 0 ELSE file[k]
  BY <1>1, ReplayedIs DEF Opens
<1>3. Without(file', excluded) \in Rows
  BY <1>2, RowsAre
<1>4. Fuller(live, Without(file', excluded)) \in Rows /\ Fuller(own, Without(file', excluded)) \in Rows
  BY <1>1, <1>3, RowsAre
<1>5. EngineOK'
  BY <1>1, <1>4 DEF Opens, EngineOK
<1> QED
  BY <1>2, <1>5 DEF Opens

LEMMA TryOpenKeeps ==
    ASSUME ArchiveInv, TryOpen
    PROVE  ArchiveInv'
<1>1. CASE Writable
  <2>1. Opens(pendingForgets, pendingExcludedForgets)
    BY <1>1 DEF TryOpen
  <2>2. /\ FilesOK' /\ EngineOK' /\ open' = TRUE
        /\ pendingForgets' = {} /\ pendingExcludedForgets' = {}
        /\ \A k \in Keys : file'[k] # 0 => PairOf[k] \notin pendingForgets /\ file'[k] = file[k]
    BY <2>1, OpensIs DEF TryOpen, FilesOK, ArchiveInv
  <2>3. ProcessOK' /\ FleetOK'
    BY <2>2 DEF TryOpen, fleetVars, ArchiveInv, ProcessOK, FleetOK
  <2>4. IntentOK' /\ CallOK' /\ QueuesOK' /\ ChainOK' /\ FreshOK'
    BY <2>2 DEF TryOpen, ArchiveInv, IntentOK, CallOK, QueuesOK, ChainOK, FreshOK, Forgotten,
                Unfinished
  <2>5. BarredOK'
    BY <2>2 DEF TryOpen, ArchiveInv, BarredOK, Forgotten
  <2> QED
    BY <2>2, <2>3, <2>4, <2>5 DEF ArchiveInv
<1>2. CASE ~Writable
  <2>1. UNCHANGED <<file, open, queueVars, engineVars>>
    BY <1>2 DEF TryOpen
  <2>2. FilesOK' /\ EngineOK' /\ ProcessOK' /\ FleetOK'
    BY <2>1 DEF TryOpen, queueVars, engineVars, fleetVars, ArchiveInv, FilesOK, EngineOK,
                ProcessOK, FleetOK
  <2>3. IntentOK' /\ CallOK' /\ QueuesOK' /\ ChainOK' /\ FreshOK' /\ BarredOK'
    BY <2>1 DEF TryOpen, queueVars, ArchiveInv, IntentOK, CallOK, QueuesOK, ChainOK, FreshOK,
                BarredOK, Forgotten, Unfinished
  <2> QED
    BY <2>2, <2>3 DEF ArchiveInv
<1> QED
  BY <1>1, <1>2

LEMMA SweepKeeps ==
    ASSUME ArchiveInv, Sweep
    PROVE  ArchiveInv'
<1>1. chain \in Seq(Links) /\ live \in Rows /\ own \in Rows /\ Linked(chain, call, forgottenPairs)
  BY DEF ArchiveInv, ChainOK, EngineOK
<1>2. Nothing \in Rows
  BY <1>1, RowsAre
<1>3. Link("retry", NoPair, Nothing) \in Links /\ ~Deletes(Link("retry", NoPair, Nothing))
  BY <1>2 DEF Link, Links, Deletes
<1>4. chain' \in {Enqueued(chain, live, own), Append(chain, Link("retry", NoPair, Nothing))}
  BY DEF Sweep
<1>5. chain' \in Seq(Links) /\ Linked(chain', call, forgottenPairs)
  BY <1>1, <1>3, <1>4, EnqueuedIs, Joined
<1>6. ChainOK'
  BY <1>5 DEF Sweep, ChainOK
<1>7. FilesOK' /\ EngineOK' /\ ProcessOK' /\ FleetOK'
  BY DEF Sweep, engineVars, fleetVars, ArchiveInv, FilesOK, EngineOK, ProcessOK, FleetOK
<1>8. IntentOK' /\ CallOK' /\ QueuesOK' /\ FreshOK' /\ BarredOK'
  BY DEF Sweep, queueVars, ArchiveInv, IntentOK, CallOK, QueuesOK, FreshOK, BarredOK,
         Forgotten, Unfinished
<1> QED
  BY <1>6, <1>7, <1>8 DEF ArchiveInv

\* The first link leaves the chain whatever it does.
LEMMA RunIs ==
    ASSUME ArchiveInv, NEW kind, Run(kind)
    PROVE  /\ Head(chain) \in Links /\ Head(chain).kind = kind
           /\ LinkOK(Head(chain), call, forgottenPairs)
           /\ Tail(chain) \in Seq(Links) /\ Linked(Tail(chain), call, forgottenPairs)
           /\ Deletes(Head(chain)) => DeletesNothing(Tail(chain))
           /\ EngineOK' /\ FleetOK' /\ ProcessOK' /\ forgottenPairs' = forgottenPairs
           /\ stopped' = stopped /\ open' = open /\ scripts' = scripts
<1>1. EngineOK' /\ FleetOK' /\ ProcessOK'
  BY DEF Run, ArchiveInv, EngineOK, FleetOK, ProcessOK, engineVars, fleetVars
<1> QED
  BY <1>1, HeadLeaves DEF Run, ArchiveInv, ChainOK

LEMMA RunAppendKeeps ==
    ASSUME ArchiveInv, RunAppend
    PROVE  ArchiveInv'
<1>1. Run("append")
  BY DEF RunAppend
<1> DEFINE wanted == Wanted(Head(chain).rows, own)
<1>2. Head(chain).rows \in Rows /\ own \in Rows /\ file \in Rows
  BY <1>1, RunIs DEF Links, ArchiveInv, EngineOK, FilesOK
<1>3. wanted \in Rows /\ \A k \in Keys : wanted[k] # 0 => ~Forgotten(k)
  BY <1>2, WantedIs
<1>4. file' \in {file, Fuller(file, wanted)}
  BY DEF RunAppend
<1>5. file' \in Rows /\ \A k \in Keys : file'[k] # 0 => file[k] # 0 \/ ~Forgotten(k)
  <2> HIDE DEF wanted
  <2> QED
    BY <1>2, <1>3, <1>4, RowsAre
<1>6. FilesOK' /\ EngineOK' /\ FleetOK' /\ ProcessOK'
  BY <1>1, <1>5, RunIs DEF FilesOK, ArchiveInv
<1>7. ChainOK'
  BY <1>1, RunIs DEF RunAppend, ChainOK
<1>8. IntentOK' /\ CallOK' /\ QueuesOK' /\ BarredOK'
  BY <1>1, <1>5, RunIs DEF RunAppend, queueVars, ArchiveInv, IntentOK, CallOK, QueuesOK, BarredOK,
                           Forgotten
<1>9. FreshOK'
  <2>1. FreshOK
    BY DEF ArchiveInv
  <2>2. fresh' = fresh \/ \E S \in SUBSET Keys : fresh' = [fresh EXCEPT !.unread = @ \cup S]
    BY DEF RunAppend
  <2>3. UNCHANGED <<intent, call, forgottenPairs>>
    BY <1>1, RunIs DEF RunAppend
  <2> QED
    BY <2>1, <2>2, <2>3 DEF FreshOK, Forgotten, Unfinished
<1> QED
  BY <1>6, <1>7, <1>8, <1>9 DEF ArchiveInv
LEMMA RunRetryKeeps ==
    ASSUME ArchiveInv, RunRetry
    PROVE  ArchiveInv'
<1>1. Run("retry")
  BY DEF RunRetry
<1>2. /\ FilesOK' /\ pendingForgets' \subseteq pendingForgets
      /\ pendingExcludedForgets' \subseteq pendingExcludedForgets
      /\ \A k \in Keys : file'[k] # 0 =>
            file[k] # 0 /\ (PairOf[k] \in pendingForgets => PairOf[k] \in pendingForgets')
  <2>1. CASE Writable
    <3>1. file \in Rows
      BY DEF ArchiveInv, FilesOK
    <3>2. /\ file' \in Rows
          /\ \A k \in Keys : file'[k] # 0 => file[k] # 0 /\ PairOf[k] \notin pendingForgets
      BY <2>1, <3>1, ReplayedIs DEF RunRetry
    <3> QED
      BY <1>1, <2>1, <3>2, RunIs DEF RunRetry, ArchiveInv, FilesOK
  <2>2. CASE ~Writable
    BY <1>1, <2>2, RunIs DEF RunRetry, ArchiveInv, FilesOK, queueVars
  <2> QED
    BY <2>1, <2>2
<1>3. ChainOK'
  <2>1. live \in Rows /\ own \in Rows /\ Tail(chain) \in Seq(Links)
        /\ Linked(Tail(chain), call, forgottenPairs)
    BY <1>1, RunIs DEF ArchiveInv, EngineOK
  <2>2. chain' \in {Tail(chain), Enqueued(Tail(chain), live, own)}
    BY DEF RunRetry
  <2>3. chain' \in Seq(Links) /\ Linked(chain', call, forgottenPairs)
    BY <2>1, <2>2, EnqueuedIs
  <2> QED
    BY <1>1, <2>3, RunIs DEF RunRetry, ChainOK
<1>4. IntentOK' /\ CallOK' /\ FreshOK'
  BY <1>1, RunIs DEF RunRetry, ArchiveInv, IntentOK, CallOK, FreshOK, Forgotten, Unfinished
<1>5. QueuesOK' /\ BarredOK'
  BY <1>1, <1>2, RunIs DEF RunRetry, ArchiveInv, QueuesOK, BarredOK, Forgotten
<1> QED
  BY <1>1, <1>2, <1>3, <1>4, <1>5, RunIs DEF ArchiveInv

\* A delete answers the forget that waits for it, or fails and ends it.
LEMMA DeleteRuns ==
    ASSUME ArchiveInv, NEW kind \in {"forget", "forgetExcluded"}, Run(kind),
           chain' = Tail(chain),
           \/ /\ intent' = [intent EXCEPT !.localComplete = TRUE]
              /\ call' = [call EXCEPT !.at = "deleted"]
           \/ intent' = intent /\ call' = NoCall
    PROVE  /\ IntentOK' /\ CallOK' /\ ChainOK'
           /\ intent'.pair = intent.pair /\ intent'.mode = intent.mode
           /\ Head(chain).pair \in Pairs /\ call.at = "chain"
           /\ call.pair = Head(chain).pair /\ intent.pair = call.pair
           /\ call.mode = "pair" <=> kind = "forget"
           /\ kind = "forget" => Head(chain).pair \in forgottenPairs
           /\ call'.at # "removed"
<1>1. LinkOK(Head(chain), call, forgottenPairs) /\ Deletes(Head(chain))
      /\ Head(chain).kind = kind /\ DeletesNothing(Tail(chain)) /\ Tail(chain) \in Seq(Links)
      /\ forgottenPairs' = forgottenPairs
  BY RunIs DEF Deletes
<1>2. /\ call.at = "chain" /\ call.pair = Head(chain).pair
      /\ call.mode = "pair" <=> kind = "forget"
      /\ kind = "forget" => Head(chain).pair \in forgottenPairs
  BY <1>1 DEF LinkOK
<1>3. CallOK /\ IntentOK
  BY DEF ArchiveInv
<1>4. call.pair \in Pairs /\ call.pair = intent.pair /\ call.mode = intent.mode
  BY <1>2, <1>3 DEF CallOK
<1>5. IntentOK'
  BY <1>3, <1>4 DEF IntentOK, NoIntent
<1>6. CallOK' /\ call'.at # "removed" /\ intent'.pair = intent.pair /\ intent'.mode = intent.mode
  BY <1>3, <1>4 DEF CallOK, IntentOK, NoCall, Modes
<1>7. ChainOK'
  BY <1>1, NothingLinked DEF ChainOK
<1> QED
  BY <1>2, <1>4, <1>5, <1>6, <1>7

LEMMA RunForgetKeeps ==
    ASSUME ArchiveInv, RunForget
    PROVE  ArchiveInv'
<1> DEFINE p == Head(chain).pair
<1>1. Run("forget") /\ chain' = Tail(chain)
      /\ \/ /\ intent' = [intent EXCEPT !.localComplete = TRUE]
            /\ call' = [call EXCEPT !.at = "deleted"]
         \/ intent' = intent /\ call' = NoCall
  BY DEF RunForget
<1>2. /\ IntentOK' /\ CallOK' /\ ChainOK' /\ p \in forgottenPairs /\ call.pair = p
      /\ call.at = "chain"
      /\ intent'.pair = intent.pair /\ intent'.mode = intent.mode /\ call'.at # "removed"
  BY <1>1, DeleteRuns
<1>3. EngineOK' /\ FleetOK' /\ ProcessOK' /\ forgottenPairs' = forgottenPairs
      /\ stopped' = stopped /\ open' = open /\ scripts' = scripts
  BY <1>1, RunIs
<1>4. file \in Rows /\ QueuesOK /\ BarredOK /\ FreshOK /\ scripts \in Rows
  BY DEF ArchiveInv, FilesOK
<1>5. FreshOK'
  BY <1>2, <1>3, <1>4 DEF RunForget, FreshOK, Forgotten, Unfinished
<1>6. CASE Writable
  <2>1. file' = Without(file, OfPairs({p})) /\ pendingForgets' = pendingForgets \ {p}
        /\ pendingExcludedForgets' = pendingExcludedForgets
    BY <1>6 DEF RunForget
  <2>2. file' \in Rows /\ \A k \in Keys : file'[k] # 0 => file[k] # 0 /\ PairOf[k] # p
    BY <1>4, <2>1, RowsAre DEF OfPairs
  <2>3. BarredOK'
    BY <1>2, <1>3, <1>4, <2>1, <2>2 DEF BarredOK, Forgotten
  <2>4. QueuesOK' /\ FilesOK'
    BY <1>3, <1>4, <2>1, <2>2 DEF QueuesOK, FilesOK
  <2> QED
    BY <1>2, <1>3, <1>5, <2>3, <2>4 DEF ArchiveInv
<1>7. CASE ~Writable
  <2>1. file' = file /\ pendingForgets' = pendingForgets \cup {p}
        /\ pendingExcludedForgets' = pendingExcludedForgets
    BY <1>7 DEF RunForget
  <2>2. BarredOK'
    BY <1>2, <1>3, <1>4, <2>1 DEF BarredOK, Forgotten
  <2>3. QueuesOK' /\ FilesOK'
    BY <1>2, <1>3, <1>4, <2>1 DEF QueuesOK, FilesOK
  <2> QED
    BY <1>2, <1>3, <1>5, <2>2, <2>3 DEF ArchiveInv
<1> QED
  BY <1>6, <1>7

LEMMA RunForgetExcludedKeeps ==
    ASSUME ArchiveInv, RunForgetExcluded
    PROVE  ArchiveInv'
<1> DEFINE p == Head(chain).pair
<1>1. Run("forgetExcluded") /\ chain' = Tail(chain)
      /\ \/ /\ intent' = [intent EXCEPT !.localComplete = TRUE]
            /\ call' = [call EXCEPT !.at = "deleted"]
         \/ intent' = intent /\ call' = NoCall
  BY DEF RunForgetExcluded
<1>2. /\ IntentOK' /\ CallOK' /\ ChainOK' /\ p \in Pairs /\ call.mode # "pair"
      /\ intent'.pair = intent.pair /\ intent'.mode = intent.mode /\ call'.at # "removed"
  BY <1>1, DeleteRuns
<1>3. EngineOK' /\ FleetOK' /\ ProcessOK' /\ forgottenPairs' = forgottenPairs
      /\ stopped' = stopped /\ open' = open /\ scripts' = scripts
  BY <1>1, RunIs
<1>4. file \in Rows /\ QueuesOK /\ BarredOK /\ FreshOK /\ scripts \in Rows
  BY DEF ArchiveInv, FilesOK
<1>5. FreshOK'
  BY <1>2, <1>3, <1>4 DEF RunForgetExcluded, FreshOK, Forgotten, Unfinished
<1>6. file' \in {file, Without(file, ExcludedOf({p}))} /\ pendingForgets' = pendingForgets
      /\ pendingExcludedForgets' \subseteq pendingExcludedForgets \cup {p}
  BY DEF RunForgetExcluded
<1>7. file' \in Rows /\ \A k \in Keys : file'[k] # 0 => file[k] # 0
  BY <1>4, <1>6, RowsAre
<1>8. BarredOK'
  BY <1>2, <1>3, <1>4, <1>6, <1>7 DEF BarredOK, Forgotten
<1>9. QueuesOK' /\ FilesOK'
  BY <1>2, <1>3, <1>4, <1>6, <1>7 DEF QueuesOK, FilesOK
<1> QED
  BY <1>2, <1>3, <1>5, <1>8, <1>9 DEF ArchiveInv
\* Between forgets, or before the archive's half of one, the chain deletes nothing.
LEMMA ChainIsFree ==
    ASSUME ArchiveInv, call.at # "chain"
    PROVE  chain \in Seq(Links) /\ DeletesNothing(chain)
BY NotOnChain DEF ArchiveInv, ChainOK

LEMMA BeginForgetKeeps ==
    ASSUME ArchiveInv, NEW p \in Pairs, NEW mode \in Modes, BeginForget(p, mode)
    PROVE  ArchiveInv'
<1>1. call = NoCall /\ call.at = "none"
  BY DEF BeginForget, NoCall
<1>2. IntentOK /\ CallOK /\ QueuesOK /\ FreshOK /\ BarredOK /\ FleetOK
  BY DEF ArchiveInv
<1>3. /\ IntentOK' /\ intent'.pair = p /\ intent'.mode = mode
      /\ intent # NoIntent => intent'.pair = intent.pair /\ intent'.mode = intent.mode
  BY <1>2 DEF BeginForget, IntentOK, NoIntent, Modes
<1>4. CallOK' /\ call'.at \in {"sent", "deleted"}
  BY <1>3 DEF BeginForget, CallOK, Modes
<1>5. ChainOK'
  <2>1. chain' = chain
    BY DEF BeginForget
  <2> QED
    BY <1>1, <2>1, ChainIsFree, NothingLinked DEF ChainOK
<1>6. hub \in Rows => Without(hub, OfPairs({p})) \in Rows
  BY RowsAre
<1>7. FleetOK'
  <2>1. hubSteps - 1 \in 0 .. MaxHub
    BY <1>2 DEF BeginForget, FleetOK
  <2> QED
    BY <1>2, <1>6, <2>1 DEF BeginForget, FleetOK
<1>8. FilesOK' /\ EngineOK' /\ ProcessOK' /\ QueuesOK'
  BY DEF BeginForget, queueVars, engineVars, ArchiveInv, FilesOK, EngineOK, ProcessOK, QueuesOK
<1>9. FreshOK'
  <2>1. \A k \in Keys : Unfinished(k) => Unfinished(k)'
    <3>1. ASSUME NEW k \in Keys, Unfinished(k) PROVE intent # NoIntent
      BY <3>1 DEF Unfinished, NoIntent
    <3> QED
      BY <1>3, <1>4, <3>1 DEF Unfinished
  <2>2. UNCHANGED <<fresh, forgottenPairs>>
    BY DEF BeginForget
  <2> QED
    BY <1>2, <2>1, <2>2 DEF FreshOK, Forgotten
<1>10. BarredOK'
  BY <1>1, <1>2 DEF BeginForget, queueVars, BarredOK, Forgotten
<1> QED
  BY <1>3, <1>4, <1>5, <1>7, <1>8, <1>9, <1>10 DEF ArchiveInv

\* What a forget asks of the archive joins its chain, is dropped after a stop, or
\* is rejected.
LEMMA OutcomeIs ==
    ASSUME ArchiveInv, NEW kind \in {"forget", "forgetExcluded"}, call.at = "sent",
           call.mode = "pair" <=> kind = "forget", LocalOutcome(kind, call.pair),
           forgottenPairs \subseteq forgottenPairs',
           kind = "forget" => call.pair \in forgottenPairs'
    PROVE  /\ IntentOK' /\ CallOK' /\ ChainOK'
           /\ intent'.pair = call.pair /\ intent'.mode = call.mode
           /\ intent.pair = call.pair /\ intent.mode = call.mode
           /\ call.pair \in Pairs /\ call'.at # "removed"
           /\ open' => call'.at = "chain" /\ call'.pair = call.pair /\ call'.mode = call.mode
<1>1. IntentOK /\ CallOK
  BY DEF ArchiveInv
<1>2. call.pair \in Pairs /\ call.pair = intent.pair /\ call.mode = intent.mode
  BY <1>1 DEF CallOK
<1>3. chain \in Seq(Links) /\ DeletesNothing(chain)
  BY ChainIsFree
<1>4. CASE open'
  <2>1. call' = [call EXCEPT !.at = "chain"] /\ intent' = intent
        /\ chain' = Append(chain, Link(kind, call.pair, Nothing))
    BY <1>4 DEF LocalOutcome
  <2>2. CallOK' /\ call'.at = "chain" /\ call'.pair = call.pair /\ call'.mode = call.mode
    BY <1>1, <1>2, <2>1 DEF CallOK
  <2>3. Nothing \in Rows
    BY RowsAre DEF ArchiveInv, FilesOK
  <2> DEFINE l == Link(kind, call.pair, Nothing)
  <2>4. l \in Links /\ LinkOK(l, call', forgottenPairs')
    BY <1>2, <2>2, <2>3 DEF Link, Links, LinkOK, Deletes
  <2>5. chain' \in Seq(Links) /\ Linked(chain', call', forgottenPairs')
    <3> HIDE DEF l
    <3> QED
      BY <1>3, <2>1, <2>4, DeleteJoins DEF l
  <2> QED
    BY <1>1, <1>2, <2>1, <2>2, <2>5 DEF IntentOK, ChainOK
<1>5. CASE ~open'
  <2>1. chain' = chain
        /\ \/ /\ intent' = [intent EXCEPT !.localComplete = TRUE]
              /\ call' = [call EXCEPT !.at = "deleted"]
           \/ intent' = intent /\ call' = NoCall
    BY <1>5 DEF LocalOutcome
  <2>2. CallOK' /\ call'.at # "removed" /\ intent'.pair = intent.pair /\ intent'.mode = intent.mode
    BY <1>1, <1>2, <2>1 DEF CallOK, IntentOK, NoCall, Modes
  <2>3. IntentOK'
    BY <1>1, <1>2, <2>1 DEF IntentOK, NoIntent
  <2>4. ChainOK'
    BY <1>3, <2>1, NothingLinked DEF ChainOK
  <2> QED
    BY <1>2, <1>5, <2>2, <2>3, <2>4
<1> QED
  BY <1>4, <1>5

LEMMA ForgetSessionsKeeps ==
    ASSUME ArchiveInv, ForgetSessions
    PROVE  ArchiveInv'
<1> DEFINE p == call.pair
<1>1. call.at = "sent" /\ call.mode = "pair" /\ LocalOutcome("forget", p)
      /\ forgottenPairs' = forgottenPairs \cup {p}
      /\ UNCHANGED <<scripts, disk, faults, booted, stopped, fresh, fleetVars>>
  BY DEF ForgetSessions, Local
<1>2. /\ IntentOK' /\ CallOK' /\ ChainOK'
      /\ intent'.pair = p /\ intent'.mode = "pair" /\ intent.pair = p /\ intent.mode = "pair"
      /\ p \in Pairs /\ call'.at # "removed"
      /\ open' => call'.at = "chain" /\ call'.pair = p /\ call'.mode = "pair"
  BY <1>1, OutcomeIs
<1>3. QueuesOK /\ BarredOK /\ FreshOK /\ EngineOK /\ FilesOK /\ ProcessOK /\ FleetOK
  BY DEF ArchiveInv
<1>4. FleetOK'
  BY <1>1, <1>3 DEF fleetVars, FleetOK
<1>5. FreshOK'
  <2>1. \A k \in Keys : (Forgotten(k) /\ ~Unfinished(k))' => Forgotten(k) /\ ~Unfinished(k)
    BY <1>1, <1>2 DEF Forgotten, Unfinished
  <2>2. fresh' = fresh /\ forgottenPairs \subseteq forgottenPairs'
    BY <1>1
  <2> QED
    BY <1>3, <2>1, <2>2 DEF FreshOK
<1>6. /\ FilesOK' /\ EngineOK' /\ open' \in BOOLEAN
      /\ QueuesOK' /\ BarredOK'
  <2>1. CASE open /\ UNCHANGED <<file, open, queueVars, engineVars>>
    <3>1. FilesOK' /\ EngineOK' /\ open' \in BOOLEAN /\ QueuesOK'
      BY <1>1, <1>2, <1>3, <2>1 DEF queueVars, engineVars, FilesOK, EngineOK, QueuesOK, ProcessOK
    <3>2. BarredOK'
      BY <1>1, <1>2, <1>3, <2>1 DEF queueVars, BarredOK, Forgotten
    <3> QED
      BY <3>1, <3>2
  <2>2. CASE ~open /\ stopped = "no" /\ Opens(pendingForgets \cup {p}, pendingExcludedForgets)
    <3>1. /\ file' \in Rows /\ EngineOK' /\ open' = TRUE
          /\ pendingForgets' = {} /\ pendingExcludedForgets' = {}
          /\ \A k \in Keys : file'[k] # 0 => file[k] # 0 /\ PairOf[k] \notin pendingForgets \cup {p}
      BY <2>2, OpensIs
    <3>2. BarredOK'
      BY <1>1, <1>2, <1>3, <2>2, <3>1 DEF BarredOK, Forgotten
    <3> QED
      BY <1>1, <1>2, <1>3, <3>1, <3>2 DEF FilesOK, QueuesOK
  <2>3. CASE /\ ~open /\ UNCHANGED <<file, open, pendingExcludedForgets, engineVars>>
             /\ pendingForgets' = IF stopped = "no" THEN pendingForgets \cup {p} ELSE pendingForgets
    <3>1. FilesOK' /\ EngineOK' /\ open' \in BOOLEAN /\ QueuesOK'
      BY <1>1, <1>2, <1>3, <2>3 DEF engineVars, FilesOK, EngineOK, QueuesOK, ProcessOK
    <3>2. BarredOK'
      BY <1>1, <1>2, <1>3, <2>3 DEF BarredOK, Forgotten
    <3> QED
      BY <3>1, <3>2
  <2> QED
    BY <2>1, <2>2, <2>3 DEF ForgetSessions
<1>7. ProcessOK'
  BY <1>1, <1>3, <1>6 DEF ProcessOK
<1> QED
  BY <1>2, <1>4, <1>5, <1>6, <1>7 DEF ArchiveInv

LEMMA ForgetExcludedKeysKeeps ==
    ASSUME ArchiveInv, ForgetExcludedKeys
    PROVE  ArchiveInv'
<1> DEFINE p == call.pair
<1>1. call.at = "sent" /\ call.mode = "excluded" /\ LocalOutcome("forgetExcluded", p)
      /\ forgottenPairs' = forgottenPairs
      /\ UNCHANGED <<scripts, disk, faults, booted, stopped, fresh, fleetVars>>
  BY DEF ForgetExcludedKeys, Local
<1>2. /\ IntentOK' /\ CallOK' /\ ChainOK'
      /\ intent'.pair = intent.pair /\ intent'.mode = intent.mode
      /\ p \in Pairs /\ call'.at # "removed"
  BY <1>1, OutcomeIs
<1>3. QueuesOK /\ BarredOK /\ FreshOK /\ EngineOK /\ FilesOK /\ ProcessOK /\ FleetOK
  BY DEF ArchiveInv
<1>4. FleetOK'
  BY <1>1, <1>3 DEF fleetVars, FleetOK
<1>5. FreshOK'
  BY <1>1, <1>2, <1>3 DEF FreshOK, Forgotten, Unfinished
<1>6. /\ FilesOK' /\ EngineOK' /\ open' \in BOOLEAN
      /\ QueuesOK' /\ BarredOK'
  <2>1. CASE open /\ UNCHANGED <<file, open, queueVars, engineVars>>
    <3>1. FilesOK' /\ EngineOK' /\ open' \in BOOLEAN /\ QueuesOK'
      BY <1>1, <1>2, <1>3, <2>1 DEF queueVars, engineVars, FilesOK, EngineOK, QueuesOK, ProcessOK
    <3>2. BarredOK'
      BY <1>1, <1>2, <1>3, <2>1 DEF queueVars, BarredOK, Forgotten
    <3> QED
      BY <3>1, <3>2
  <2>2. CASE ~open /\ stopped = "no" /\ Opens(pendingForgets, pendingExcludedForgets \cup {p})
    <3>1. /\ file' \in Rows /\ EngineOK' /\ open' = TRUE
          /\ pendingForgets' = {} /\ pendingExcludedForgets' = {}
          /\ \A k \in Keys : file'[k] # 0 => file[k] # 0 /\ PairOf[k] \notin pendingForgets
      BY <2>2, OpensIs
    <3>2. BarredOK'
      BY <1>1, <1>2, <1>3, <2>2, <3>1 DEF BarredOK, Forgotten
    <3> QED
      BY <1>1, <1>2, <1>3, <3>1, <3>2 DEF FilesOK, QueuesOK
  <2>3. CASE /\ ~open /\ UNCHANGED <<file, open, pendingForgets, engineVars>>
             /\ pendingExcludedForgets' \subseteq pendingExcludedForgets \cup {p}
    <3>1. FilesOK' /\ EngineOK' /\ open' \in BOOLEAN /\ QueuesOK'
      BY <1>1, <1>2, <1>3, <2>3 DEF engineVars, FilesOK, EngineOK, QueuesOK, ProcessOK
    <3>2. BarredOK'
      BY <1>1, <1>2, <1>3, <2>3 DEF BarredOK, Forgotten
    <3> QED
      BY <3>1, <3>2
  <2> QED
    BY <2>1, <2>2, <2>3 DEF ForgetExcludedKeys
<1>7. ProcessOK'
  BY <1>1, <1>3, <1>6 DEF ProcessOK
<1> QED
  BY <1>2, <1>4, <1>5, <1>6, <1>7 DEF ArchiveInv
LEMMA RemoveFromEngineKeeps ==
    ASSUME ArchiveInv, RemoveFromEngine
    PROVE  ArchiveInv'
<1> DEFINE gone == OfPairs({call.pair})
<1>1. IntentOK /\ CallOK /\ FreshOK /\ live \in Rows /\ own \in Rows
  BY DEF ArchiveInv, EngineOK
<1>2. call.at = "deleted" /\ call' = [call EXCEPT !.at = "removed"]
  BY DEF RemoveFromEngine
<1>3. call.pair \in Pairs /\ call.pair = intent.pair /\ call.mode = intent.mode
  BY <1>1, <1>2 DEF CallOK
<1>4. CallOK'
  BY <1>1, <1>2, <1>3 DEF RemoveFromEngine, CallOK
<1>5. ChainOK'
  BY <1>2, ChainIsFree, NothingLinked DEF RemoveFromEngine, ChainOK
<1>6. Without(live, gone) \in Rows /\ Without(own, gone) \in Rows
  BY <1>1, RowsAre
<1>7. EngineOK'
  BY <1>6 DEF RemoveFromEngine, ArchiveInv, EngineOK
<1>8. FreshOK'
  <2>1. fresh.rows \in Rows
    BY <1>1 DEF FreshOK
  <2>2. /\ Without(fresh.rows, gone) \in Rows
        /\ \A k \in Keys : Without(fresh.rows, gone)[k] =
              IF PairOf[k] = call.pair THEN 0 ELSE fresh.rows[k]
    <3>1. /\ Without(fresh.rows, gone) \in Rows
          /\ \A k \in Keys : Without(fresh.rows, gone)[k] = IF k \in gone THEN 0 ELSE fresh.rows[k]
      BY <2>1, RowsAre
    <3>2. \A k \in Keys : k \in gone <=> PairOf[k] = call.pair
      BY DEF OfPairs
    <3> QED
      BY <3>1, <3>2
  <2>3. UNCHANGED <<intent, forgottenPairs>>
    BY DEF RemoveFromEngine
  <2>4. CASE call.mode = "pair" /\ fresh.phase = "seeded"
    <3>1. fresh' = [fresh EXCEPT !.rows = Without(fresh.rows, gone)]
      BY <2>4 DEF RemoveFromEngine
    <3>2. \A k \in Keys : Forgotten(k)' => Forgotten(k) /\ (PairOf[k] # call.pair => ~Unfinished(k))
      BY <1>3, <2>3 DEF Forgotten, Unfinished
    <3> HIDE DEF gone
    <3> QED
      BY <1>1, <2>2, <2>3, <2>4, <3>1, <3>2 DEF FreshOK
  <2>5. CASE ~(call.mode = "pair" /\ fresh.phase = "seeded")
    <3>1. fresh' = fresh
      BY <2>5 DEF RemoveFromEngine
    <3>2. CASE fresh.phase # "seeded"
      BY <1>1, <2>3, <3>1, <3>2 DEF FreshOK
    <3>3. CASE call.mode # "pair"
      <4>1. \A k \in Keys : ~Unfinished(k)
        BY <1>3, <3>3 DEF Unfinished
      <4> QED
        BY <1>1, <2>3, <3>1, <4>1 DEF FreshOK, Forgotten
    <3> QED
      BY <2>5, <3>2, <3>3
  <2> QED
    BY <2>4, <2>5
<1>9. FilesOK' /\ ProcessOK' /\ FleetOK' /\ IntentOK' /\ QueuesOK'
  BY DEF RemoveFromEngine, queueVars, fleetVars, ArchiveInv, FilesOK, ProcessOK, FleetOK,
         IntentOK, QueuesOK
<1>10. BarredOK'
  BY <1>2 DEF RemoveFromEngine, queueVars, ArchiveInv, BarredOK, Forgotten
<1> QED
  BY <1>4, <1>5, <1>7, <1>8, <1>9, <1>10 DEF ArchiveInv

LEMMA FinishForgetKeeps ==
    ASSUME ArchiveInv, FinishForget
    PROVE  ArchiveInv'
<1>1. call.at = "removed" /\ call' = NoCall /\ intent' = NoIntent
      /\ UNCHANGED <<fresh, forgottenPairs, chain>>
  BY DEF FinishForget
<1>2. IntentOK' /\ CallOK'
  BY <1>1 DEF IntentOK, CallOK, NoIntent, NoCall, Modes
<1>3. ChainOK'
  BY <1>1, ChainIsFree, NothingLinked DEF ChainOK
<1>4. EngineOK'
  <2>1. live \in Rows /\ own \in Rows /\ copy \in Rows /\ excluded \subseteq Keys
    BY DEF ArchiveInv, EngineOK, FleetOK
  <2>2. \A k \in Keys : live[k] \in Fullness /\ Larger(live[k], copy[k]) \in Fullness
    BY <2>1, LargerIs DEF Rows
  <2>3. live' \in Rows
    BY <2>2 DEF FinishForget, Rows
  <2> QED
    BY <2>1, <2>3 DEF FinishForget, EngineOK
<1>5. FreshOK'
  <2>1. \A k \in Keys : ~Unfinished(k)
    BY <1>1 DEF Unfinished
  <2> QED
    BY <1>1, <2>1 DEF ArchiveInv, FreshOK, Forgotten
<1>6. FilesOK' /\ ProcessOK' /\ FleetOK' /\ QueuesOK'
  BY DEF FinishForget, queueVars, fleetVars, ArchiveInv, FilesOK, ProcessOK, FleetOK, QueuesOK
<1>7. BarredOK'
  BY <1>1 DEF FinishForget, queueVars, ArchiveInv, BarredOK, Forgotten
<1> QED
  BY <1>2, <1>3, <1>4, <1>5, <1>6, <1>7 DEF ArchiveInv

\* What a step leaves alone but for the store being seeded and the Hub's bound.
LEMMA RestKeeps ==
    ASSUME ArchiveInv, FreshOK', FleetOK',
           UNCHANGED <<file, scripts, intent, disk, faults, booted, open, stopped, chain,
                       queueVars, forgottenPairs, call, engineVars>>
    PROVE  ArchiveInv'
<1>1. FilesOK' /\ ProcessOK' /\ EngineOK' /\ IntentOK' /\ CallOK' /\ QueuesOK' /\ ChainOK'
  BY DEF queueVars, engineVars, ArchiveInv, FilesOK, ProcessOK, EngineOK, IntentOK, CallOK,
         QueuesOK, ChainOK
<1>2. BarredOK'
  BY DEF queueVars, ArchiveInv, BarredOK, Forgotten
<1> QED
  BY <1>1, <1>2 DEF ArchiveInv

LEMMA StartRebuildKeeps ==
    ASSUME ArchiveInv, NEW out \in SUBSET Keys, StartRebuild(out)
    PROVE  ArchiveInv'
<1>1. FleetOK'
  <2>1. hubSteps - 1 \in 0 .. MaxHub
    BY DEF StartRebuild, ArchiveInv, FleetOK
  <2> QED
    BY <2>1 DEF StartRebuild, ArchiveInv, FleetOK
<1>2. FreshOK'
  <2>1. Nothing \in Rows /\ \A k \in Keys : Nothing[k] = 0
    BY RowsAre DEF Nothing, ArchiveInv, FilesOK
  <2>2. forgottenPairs' = forgottenPairs /\ forgottenPairs \subseteq Pairs
    BY DEF StartRebuild, ArchiveInv, QueuesOK
  <2> QED
    BY <2>1, <2>2 DEF StartRebuild, FreshOK
<1>3. UNCHANGED <<file, scripts, intent, disk, faults, booted, open, stopped, chain,
                  queueVars, forgottenPairs, call, engineVars>>
  BY DEF StartRebuild
<1> QED
  BY <1>1, <1>2, <1>3, RestKeeps

LEMMA ReadChunkKeeps ==
    ASSUME ArchiveInv, ReadChunk
    PROVE  ArchiveInv'
<1>1. FleetOK'
  BY DEF ReadChunk, fleetVars, ArchiveInv, FleetOK
<1>2. UNCHANGED <<file, scripts, intent, disk, faults, booted, open, stopped, chain,
                  queueVars, forgottenPairs, call, engineVars>>
  BY DEF ReadChunk
<1>3. FreshOK'
  <2>1. FreshOK /\ file \in Rows /\ fresh.phase = "reading"
    BY DEF ArchiveInv, FilesOK, ReadChunk
  <2>2. PICK k \in fresh.unread :
           fresh' = [fresh EXCEPT !.unread = @ \ {k},
                                  !.rows[k] = IF Forgotten(k) \/ k \in fresh.excluded
                                              THEN @ ELSE Larger(@, file[k])]
    BY DEF ReadChunk
  <2>3. k \in Keys /\ fresh.rows \in Rows
    BY <2>1 DEF FreshOK
  <2> DEFINE row == IF Forgotten(k) \/ k \in fresh.excluded
                    THEN fresh.rows[k] ELSE Larger(fresh.rows[k], file[k])
  <2>4. row \in Fullness /\ Forgotten(k) => row = fresh.rows[k]
    BY <2>1, <2>3, LargerIs DEF Rows
  <2>5. [fresh.rows EXCEPT ![k] = row] \in Rows
    BY <2>1, <2>3, LargerIs DEF Rows
  <2>6. fresh' = [fresh EXCEPT !.unread = @ \ {k}, !.rows = [fresh.rows EXCEPT ![k] = row]]
    BY <2>2
  <2>7. Forgotten(k) => row = fresh.rows[k]
    OBVIOUS
  <2> HIDE DEF row
  <2>8. fresh'.phase = "reading" /\ fresh'.before = fresh.before
        /\ \A j \in Keys : fresh'.rows[j] = IF j = k THEN row ELSE fresh.rows[j]
    BY <2>1, <2>3, <2>6 DEF FreshOK, Rows
  <2>9. fresh' \in [phase : {"none", "reading", "seeded"}, rows : Rows, unread : SUBSET Keys,
                    before : SUBSET Pairs, excluded : SUBSET Keys]
    BY <2>1, <2>5, <2>6 DEF FreshOK
  <2>10. ASSUME NEW j \in Keys, PairOf[j] \in fresh.before PROVE fresh'.rows[j] = 0
    BY <2>1, <2>7, <2>8, <2>10 DEF FreshOK, Forgotten
  <2> QED
    BY <1>2, <2>1, <2>8, <2>9, <2>10 DEF FreshOK
<1> QED
  BY <1>1, <1>2, <1>3, RestKeeps

LEMMA SeedEndsKeeps ==
    ASSUME ArchiveInv, SeedEnds
    PROVE  ArchiveInv'
<1>1. FleetOK'
  BY DEF SeedEnds, fleetVars, ArchiveInv, FleetOK
<1>2. UNCHANGED <<file, scripts, intent, disk, faults, booted, open, stopped, chain,
                  queueVars, forgottenPairs, call, engineVars>>
  BY DEF SeedEnds
<1>3. FreshOK'
  <2>1. FreshOK /\ fresh.phase = "reading" /\ fresh.rows \in Rows
    BY DEF ArchiveInv, SeedEnds, FreshOK
  <2> DEFINE rows == Without(fresh.rows, OfPairs(forgottenPairs \ fresh.before))
  <2>2. /\ rows \in Rows
        /\ \A k \in Keys : Forgotten(k) => rows[k] = 0
    <3> DEFINE gone == OfPairs(forgottenPairs \ fresh.before)
    <3>1. /\ rows \in Rows
          /\ \A k \in Keys : rows[k] = IF k \in gone THEN 0 ELSE fresh.rows[k]
      BY <2>1, RowsAre
    <3>2. \A k \in Keys : Forgotten(k) => k \in gone \/ PairOf[k] \in fresh.before
      BY DEF OfPairs, Forgotten
    <3> HIDE DEF rows, gone
    <3> QED
      BY <2>1, <3>1, <3>2 DEF FreshOK
  <2>3. fresh' = [fresh EXCEPT !.phase = "seeded", !.rows = rows]
    BY DEF SeedEnds
  <2> HIDE DEF rows
  <2> QED
    BY <1>2, <2>1, <2>2, <2>3 DEF FreshOK, Forgotten
<1> QED
  BY <1>1, <1>2, <1>3, RestKeeps
LEMMA SwapStoreKeeps ==
    ASSUME ArchiveInv, SwapStore
    PROVE  ArchiveInv'
<1>1. FreshOK /\ scripts \in Rows /\ copy \in Rows
  BY DEF ArchiveInv, FilesOK, FleetOK
<1>2. fresh.rows \in Rows /\ fresh.excluded \subseteq Keys
  BY <1>1 DEF FreshOK
<1>3. Without(scripts, fresh.excluded) \in Rows /\ Without(copy, fresh.excluded) \in Rows
  <2>1. Without(scripts, fresh.excluded) \in Rows
    BY <1>1, RowsAre
  <2>2. Without(copy, fresh.excluded) \in Rows
    BY <1>1, RowsAre
  <2> QED
    BY <2>1, <2>2
<1>4. own' \in Rows
  BY <1>2, <1>3, RowsAre DEF SwapStore
<1>5. live' \in Rows
  BY <1>3, <1>4, RowsAre DEF SwapStore
<1>6. EngineOK'
  BY <1>2, <1>4, <1>5 DEF SwapStore, EngineOK
<1>7. FreshOK'
  <2>1. Nothing \in Rows
    BY <1>1, RowsAre
  <2> QED
    BY <2>1 DEF SwapStore, FreshOK, NoFresh
<1>8. FilesOK' /\ ProcessOK' /\ FleetOK' /\ IntentOK' /\ CallOK' /\ QueuesOK' /\ ChainOK'
  BY DEF SwapStore, queueVars, fleetVars, ArchiveInv, FilesOK, ProcessOK, FleetOK, IntentOK,
         CallOK, QueuesOK, ChainOK
<1>9. BarredOK'
  BY DEF SwapStore, queueVars, ArchiveInv, BarredOK, Forgotten
<1> QED
  BY <1>6, <1>7, <1>8, <1>9 DEF ArchiveInv

\* What a step leaves alone that changes the engine and the fleet's view, and
\* offers the chain what it changed.
LEMMA OfferKeeps ==
    ASSUME ArchiveInv, EngineOK', FleetOK', scripts' \in Rows, chain' \in Seq(Links),
           Linked(chain', call, forgottenPairs),
           UNCHANGED <<file, intent, disk, faults, booted, open, stopped, queueVars,
                       forgottenPairs, call, fresh>>
    PROVE  ArchiveInv'
<1>1. FilesOK' /\ ProcessOK' /\ IntentOK' /\ CallOK' /\ QueuesOK'
  BY DEF queueVars, ArchiveInv, FilesOK, ProcessOK, IntentOK, CallOK, QueuesOK
<1>2. FreshOK' /\ BarredOK'
  BY DEF queueVars, ArchiveInv, FreshOK, BarredOK, Forgotten, Unfinished
<1>3. ChainOK'
  BY DEF ChainOK
<1> QED
  BY <1>1, <1>2, <1>3 DEF ArchiveInv

LEMMA LocalWriteKeeps ==
    ASSUME ArchiveInv, NEW k \in Keys, NEW v \in 1 .. MaxTotal, LocalWrite(k, v)
    PROVE  ArchiveInv'
<1>1. scripts \in Rows /\ own \in Rows /\ live \in Rows /\ excluded \subseteq Keys
      /\ chain \in Seq(Links) /\ Linked(chain, call, forgottenPairs)
  BY DEF ArchiveInv, FilesOK, EngineOK, ChainOK
<1>2. v \in Fullness /\ live[k] \in Fullness /\ 0 \in Fullness
  BY <1>1 DEF Fullness, Rows
<1>3. Larger(live[k], v) \in Fullness
  BY <1>2, LargerIs
<1>4. scripts' \in Rows /\ own' \in Rows /\ live' \in Rows /\ [Nothing EXCEPT ![k] = v] \in Rows
  BY <1>1, <1>2, <1>3 DEF LocalWrite, Rows, Nothing
<1>5. EngineOK'
  BY <1>1, <1>4 DEF LocalWrite, EngineOK
<1>6. FleetOK'
  BY DEF LocalWrite, fleetVars, ArchiveInv, FleetOK
<1> DEFINE row == [Nothing EXCEPT ![k] = v]
           local == own'
<1>7. chain' \in {chain, Enqueued(chain, row, local)} /\ row \in Rows /\ local \in Rows
  BY <1>4 DEF LocalWrite
<1>8. chain' \in Seq(Links) /\ Linked(chain', call, forgottenPairs)
  <2> HIDE DEF row, local
  <2>1. Enqueued(chain, row, local) \in Seq(Links)
        /\ Linked(Enqueued(chain, row, local), call, forgottenPairs)
    BY <1>1, <1>7, EnqueuedIs
  <2> QED
    BY <1>1, <1>7, <2>1
<1>9. UNCHANGED <<file, intent, disk, faults, booted, open, stopped, queueVars,
                  forgottenPairs, call, fresh>>
  BY DEF LocalWrite
<1> QED
  BY <1>4, <1>5, <1>6, <1>8, <1>9, OfferKeeps

LEMMA DrainKeeps ==
    ASSUME ArchiveInv, Drain
    PROVE  ArchiveInv'
<1>1. scripts \in Rows /\ own \in Rows /\ live \in Rows /\ hub \in Rows /\ excluded \subseteq Keys
      /\ chain \in Seq(Links) /\ Linked(chain, call, forgottenPairs)
  BY DEF ArchiveInv, FilesOK, EngineOK, ChainOK, FleetOK
<1>2. \A k \in Keys : /\ live[k] \in Fullness /\ own[k] \in Fullness
                      /\ Larger(live[k], hub[k]) \in Fullness /\ 0 \in Fullness
  BY <1>1, LargerIs DEF Rows, Fullness
<1>3. live' \in Rows
  BY <1>2 DEF Drain, Rows
<1> DEFINE arrived == [k \in Keys |-> IF live'[k] # live[k] THEN live'[k] ELSE 0]
<1>4. arrived \in Rows
  BY <1>2, <1>3 DEF Rows
<1>5. chain' = Enqueued(chain, arrived, own)
  BY DEF Drain
<1>6. chain' \in Seq(Links) /\ Linked(chain', call, forgottenPairs)
  <2> HIDE DEF arrived
  <2> QED
    BY <1>1, <1>4, <1>5, EnqueuedIs
<1>7. EngineOK' /\ scripts' \in Rows
  BY <1>1, <1>3 DEF Drain, EngineOK
<1>8. FleetOK'
  BY <1>1 DEF Drain, ArchiveInv, FleetOK
<1>9. UNCHANGED <<file, intent, disk, faults, booted, open, stopped, queueVars,
                  forgottenPairs, call, fresh>>
  BY DEF Drain
<1> QED
  BY <1>6, <1>7, <1>8, <1>9, OfferKeeps

LEMMA TranscriptPrunedKeeps ==
    ASSUME ArchiveInv, NEW k \in Keys, TranscriptPruned(k)
    PROVE  ArchiveInv'
<1>1. scripts \in Rows /\ 0 \in Fullness /\ ChainOK
  BY DEF ArchiveInv, FilesOK, Fullness
<1>2. scripts' \in Rows
  BY <1>1 DEF TranscriptPruned, Rows
<1>3. EngineOK' /\ FleetOK'
  BY DEF TranscriptPruned, engineVars, fleetVars, ArchiveInv, EngineOK, FleetOK
<1>4. chain' \in Seq(Links) /\ Linked(chain', call, forgottenPairs)
  BY <1>1 DEF TranscriptPruned, processVars, ChainOK
<1>5. UNCHANGED <<file, intent, disk, faults, booted, open, stopped, queueVars,
                  forgottenPairs, call, fresh>>
  BY DEF TranscriptPruned, processVars
<1> QED
  BY <1>2, <1>3, <1>4, <1>5, OfferKeeps

LEMMA HubChangesKeeps ==
    ASSUME ArchiveInv, NEW k \in Keys, NEW v \in Fullness, HubChanges(k, v)
    PROVE  ArchiveInv'
<1>1. FleetOK /\ FreshOK
  BY DEF ArchiveInv
<1>2. FleetOK'
  <2>1. hubSteps - 1 \in 0 .. MaxHub
    BY <1>1 DEF HubChanges, FleetOK
  <2>2. hub' \in Rows
    BY <1>1 DEF HubChanges, FleetOK, Rows
  <2> QED
    BY <1>1, <2>1, <2>2 DEF HubChanges, FleetOK
<1>3. UNCHANGED <<file, scripts, intent, disk, faults, booted, open, stopped, chain,
                  queueVars, forgottenPairs, call, engineVars>> /\ fresh' = fresh
  BY DEF HubChanges, processVars
<1>4. FreshOK'
  BY <1>1, <1>3 DEF FreshOK, Forgotten, Unfinished
<1> QED
  BY <1>2, <1>3, <1>4, RestKeeps

LEMMA HubHeardKeeps ==
    ASSUME ArchiveInv, HubHeard
    PROVE  ArchiveInv'
<1>1. FleetOK /\ FreshOK
  BY DEF ArchiveInv
<1>2. FleetOK'
  BY <1>1 DEF HubHeard, FleetOK
<1>3. UNCHANGED <<file, scripts, intent, disk, faults, booted, open, stopped, chain,
                  queueVars, forgottenPairs, call, engineVars>> /\ fresh' = fresh
  BY DEF HubHeard, processVars
<1>4. FreshOK'
  BY <1>1, <1>3 DEF FreshOK, Forgotten, Unfinished
<1> QED
  BY <1>2, <1>3, <1>4, RestKeeps
\* The disk and the process change, and nothing they hold does.
LEMMA FaultKeeps ==
    ASSUME ArchiveInv, DiskFails \/ DiskHeals \/ Stop \/ StopCloses
    PROVE  ArchiveInv'
<1>1. /\ UNCHANGED <<file, scripts, intent, booted, open, chain, queueVars, forgottenPairs,
                     call, fresh, engineVars, fleetVars>>
      /\ disk' \in {"ok", "broken"} /\ stopped' \in {"no", "draining", "closed"}
      /\ faults' = faults \/ (faults > 0 /\ faults' = faults - 1)
      /\ stopped # "no" => stopped' # "no"
  BY DEF DiskFails, DiskHeals, Stop, StopCloses, processVars, ArchiveInv, ProcessOK
<1>2. faults' \in 0 .. MaxFaults
  <2>1. faults \in 0 .. MaxFaults
    BY DEF ArchiveInv, ProcessOK
  <2> QED
    BY <1>1, <2>1
<1>3. ProcessOK'
  BY <1>1, <1>2 DEF ArchiveInv, ProcessOK
<1>4. FilesOK' /\ EngineOK' /\ FleetOK' /\ IntentOK' /\ CallOK' /\ QueuesOK' /\ ChainOK'
  BY <1>1 DEF queueVars, engineVars, fleetVars, ArchiveInv, FilesOK, EngineOK, FleetOK,
              IntentOK, CallOK, QueuesOK, ChainOK
<1>5. FreshOK' /\ BarredOK'
  BY <1>1 DEF queueVars, ArchiveInv, FreshOK, BarredOK, Forgotten, Unfinished
<1> QED
  BY <1>3, <1>4, <1>5 DEF ArchiveInv

LEMMA RestartKeeps ==
    ASSUME ArchiveInv, NEW out \in SUBSET Keys, Restart(out)
    PROVE  ArchiveInv'
<1>1. FilesOK /\ FleetOK /\ IntentOK /\ ProcessOK
  BY DEF ArchiveInv
<1>2. Without(scripts, out) \in Rows
  BY <1>1, RowsAre DEF FilesOK
<1>3. Without(copy, out) \in Rows
  BY <1>1, RowsAre DEF FilesOK, FleetOK
<1>4. own' \in Rows /\ Fuller(own', Without(copy, out)) \in Rows
  <2>1. own' = Without(scripts, out)
    BY DEF Restart
  <2>2. Fuller(Without(scripts, out), Without(copy, out)) \in Rows
    BY <1>2, <1>3, RowsAre
  <2> QED
    BY <1>2, <2>1, <2>2
<1>5. EngineOK'
  BY <1>4 DEF Restart, EngineOK
<1>6. FilesOK' /\ FleetOK' /\ IntentOK' /\ CallOK' /\ QueuesOK'
  BY <1>1 DEF Restart, FilesOK, FleetOK, IntentOK, CallOK, QueuesOK, NoCall, Modes
<1>7. ProcessOK'
  <2>1. faults' \in 0 .. MaxFaults
    BY <1>1 DEF Restart, ProcessOK
  <2> QED
    BY <1>1, <2>1 DEF Restart, ProcessOK
<1>8. ChainOK'
  <2>1. <<>> \in Seq(Links) /\ DeletesNothing(<<>>)
    BY DEF DeletesNothing
  <2> QED
    BY <2>1, NothingLinked DEF Restart, ChainOK
<1>9. FreshOK'
  <2>1. Nothing \in Rows
    BY <1>1, RowsAre DEF FilesOK
  <2> QED
    BY <2>1 DEF Restart, FreshOK, NoFresh
<1>10. BarredOK'
  BY DEF Restart, BarredOK, Forgotten
<1> QED
  BY <1>5, <1>6, <1>7, <1>8, <1>9, <1>10 DEF ArchiveInv

LEMMA ArchiveStep ==
    ASSUME ArchiveInv, [ArchiveNext]_archiveVars
    PROVE  ArchiveInv'
<1>1. CASE UNCHANGED archiveVars
  <2>1. FreshOK' /\ FleetOK'
    BY <1>1 DEF archiveVars, processVars, fleetVars, ArchiveInv, FreshOK, FleetOK, Forgotten,
                Unfinished
  <2> QED
    BY <1>1, <2>1, RestKeeps DEF archiveVars, processVars
<1>2. CASE TryOpen \/ Sweep
  BY <1>2, TryOpenKeeps, SweepKeeps
<1>3. CASE RunAppend \/ RunRetry \/ RunForget \/ RunForgetExcluded
  BY <1>3, RunAppendKeeps, RunRetryKeeps, RunForgetKeeps, RunForgetExcludedKeeps
<1>4. CASE \E p \in Pairs, mode \in {"pair", "excluded"} : BeginForget(p, mode)
  BY <1>4, BeginForgetKeeps DEF Modes
<1>5. CASE ForgetSessions \/ ForgetExcludedKeys \/ RemoveFromEngine \/ FinishForget
  BY <1>5, ForgetSessionsKeeps, ForgetExcludedKeysKeeps, RemoveFromEngineKeeps,
     FinishForgetKeeps
<1>6. CASE \E out \in SUBSET Keys : StartRebuild(out) \/ Restart(out)
  BY <1>6, StartRebuildKeeps, RestartKeeps
<1>7. CASE ReadChunk \/ SeedEnds \/ SwapStore
  BY <1>7, ReadChunkKeeps, SeedEndsKeeps, SwapStoreKeeps
<1>8. CASE \E k \in Keys, v \in 1 .. MaxTotal : LocalWrite(k, v)
  BY <1>8, LocalWriteKeeps
<1>9. CASE \E k \in Keys : TranscriptPruned(k)
  BY <1>9, TranscriptPrunedKeeps
<1>10. CASE \E k \in Keys, v \in Fullness : HubChanges(k, v)
  BY <1>10, HubChangesKeeps
<1>11. CASE HubHeard \/ Drain
  BY <1>11, HubHeardKeeps, DrainKeeps
<1>12. CASE DiskFails \/ DiskHeals \/ Stop \/ StopCloses
  BY <1>12, FaultKeeps
<1> QED
  BY <1>1, <1>2, <1>3, <1>4, <1>5, <1>6, <1>7, <1>8, <1>9, <1>10, <1>11, <1>12 DEF ArchiveNext

\* The inductive invariant: what is forgotten is barred, queued, on the chain or
\* gone, and the one delete on the chain is the forget's that waits for it.
THEOREM ArchiveInvariant == ArchiveSpec => []ArchiveInv
<1>1. ArchiveInit => ArchiveInv
  BY ArchiveStarts
<1>2. ArchiveInv /\ [ArchiveNext]_archiveVars => ArchiveInv'
  BY ArchiveStep
<1> QED
  BY <1>1, <1>2, PTL DEF ArchiveSpec
-------------------------------------------------------------------------------
(* What follows *)

LEMMA TypeFollows ==
    ASSUME ArchiveInv
    PROVE  LocalArchiveTypeOK
<1>1. file \in Rows /\ scripts \in Rows /\ live \in Rows /\ own \in Rows /\ excluded \subseteq Keys
      /\ hub \in Rows /\ heard \in Rows /\ copy \in Rows /\ caughtUp \in BOOLEAN
      /\ hubSteps \in 0 .. MaxHub
  BY DEF ArchiveInv, FilesOK, EngineOK, FleetOK
<1>2. ProcessOK /\ IntentOK /\ CallOK /\ FreshOK
  BY DEF ArchiveInv
<1>3. forgottenPairs \in SUBSET Pairs /\ pendingForgets \in SUBSET Pairs
      /\ pendingExcludedForgets \in SUBSET Pairs
  BY DEF ArchiveInv, QueuesOK
<1>4. \A i \in DOMAIN chain : chain[i] \in Links
  <2>1. \A q \in Seq(Links) : \A i \in DOMAIN q : q[i] \in Links
    OBVIOUS
  <2> QED
    BY <2>1 DEF ArchiveInv, ChainOK
<1> QED
  BY <1>1, <1>2, <1>3, <1>4 DEF LocalArchiveTypeOK, ProcessOK, IntentOK, CallOK, FreshOK, Links,
     Rows, Modes

LEMMA BarsFollow ==
    ASSUME ArchiveInv
    PROVE  BarredIsGone /\ SeedHoldsNothingForgotten
<1>1. BarredIsGone
  <2>1. \A k \in Keys : file[k] > 0 => file[k] # 0
    BY DEF ArchiveInv, FilesOK, Rows, Fullness
  <2> QED
    BY <2>1 DEF ArchiveInv, BarredOK, BarredIsGone
<1>2. SeedHoldsNothingForgotten
  BY DEF ArchiveInv, FreshOK, SeedHoldsNothingForgotten, Unfinished
<1> QED
  BY <1>1, <1>2

\* Once a forget has answered, the file and every store seeded by it are without
\* the pair's rows, through batches that were queued before it, opens, failed
\* deletes and chunked reads (local-archive.ts 227, 366, 514).
THEOREM ForgottenStaysOutHolds == ArchiveSpec => []ForgottenStaysOut
<1>1. ArchiveInv => ForgottenStaysOut
  BY TypeFollows, BarsFollow DEF ForgottenStaysOut
<1> QED
  BY <1>1, ArchiveInvariant, PTL

LEMMA OpensDrops ==
    ASSUME ArchiveInv, NEW pairs, NEW excludedPairs, Opens(pairs, excludedPairs), NEW k \in Keys,
           file'[k] # file[k]
    PROVE  /\ file'[k] = 0
           /\ PairOf[k] \in pairs \/ (PairOf[k] \in excludedPairs /\ k \in excluded)
<1>1. file'[k] = IF PairOf[k] \in pairs \/ (PairOf[k] \in excludedPairs /\ k \in excluded)
                 THEN 0 ELSE file[k]
  BY OpensIs
<1> QED
  BY <1>1

\* Rows leave the file by what was queued or asked to be deleted.
LEMMA DeletionIs ==
    ASSUME ArchiveInv, [ArchiveNext]_archiveVars, NEW k \in Keys, file'[k] < file[k]
    PROVE  /\ file'[k] = 0
           /\ \/ PairOf[k] \in forgottenPairs'
              \/ /\ k \in excluded
                 /\ PairOf[k] \in pendingExcludedForgets \cup {intent.pair}
<1>1. file \in Rows /\ own \in Rows /\ file[k] \in Nat /\ pendingForgets \subseteq forgottenPairs
  BY DEF ArchiveInv, FilesOK, EngineOK, QueuesOK, Rows, Fullness
<1>2. file' # file
  BY <1>1
<1> DEFINE Goal == /\ file'[k] = 0
                   /\ \/ PairOf[k] \in forgottenPairs'
                      \/ /\ k \in excluded
                         /\ PairOf[k] \in pendingExcludedForgets \cup {intent.pair}
<1>3. CASE TryOpen
  <2>1. Opens(pendingForgets, pendingExcludedForgets) /\ forgottenPairs' = forgottenPairs
    BY <1>2, <1>3 DEF TryOpen
  <2>2. file'[k] # file[k] /\ file[k] \in Nat
    BY <1>1
  <2> QED
    BY <1>1, <2>1, <2>2, OpensDrops
<1>4. CASE RunAppend
  <2> DEFINE wanted == Wanted(Head(chain).rows, own)
  <2>1. Head(chain).rows \in Rows
    BY <1>4, RunIs DEF RunAppend, Links
  <2>2. wanted \in Rows
    BY <1>1, <2>1, WantedIs
  <2>3. file' \in {file, Fuller(file, wanted)}
    BY <1>4 DEF RunAppend
  <2> HIDE DEF wanted
  <2>4. file[k] <= Fuller(file, wanted)[k] /\ Fuller(file, wanted)[k] \in Nat
    BY <1>1, <2>2, RowsAre DEF Rows, Fullness
  <2> QED
    BY <1>1, <2>3, <2>4
<1>5. CASE RunRetry
  <2>1. file' = Replayed(pendingForgets, pendingExcludedForgets) /\ forgottenPairs' = forgottenPairs
    BY <1>2, <1>5 DEF RunRetry, Run
  <2> QED
    BY <1>1, <2>1, ReplayedIs
<1>6. CASE RunForget
  <2> DEFINE p == Head(chain).pair
             gone == OfPairs({p})
  <2>1. /\ Run("forget") /\ chain' = Tail(chain)
        /\ \/ /\ intent' = [intent EXCEPT !.localComplete = TRUE]
              /\ call' = [call EXCEPT !.at = "deleted"]
           \/ intent' = intent /\ call' = NoCall
    BY <1>6 DEF RunForget
  <2>2. p \in forgottenPairs /\ forgottenPairs' = forgottenPairs
    BY <2>1, DeleteRuns, RunIs
  <2>3. file' = Without(file, gone)
    BY <1>2, <1>6 DEF RunForget
  <2>4. k \in gone => PairOf[k] = p
    BY DEF OfPairs
  <2> HIDE DEF gone
  <2>5. file'[k] = IF k \in gone THEN 0 ELSE file[k]
    BY <1>1, <2>3, RowsAre
  <2> QED
    BY <1>1, <2>2, <2>4, <2>5
<1>7. CASE RunForgetExcluded
  <2> DEFINE p == Head(chain).pair
             gone == ExcludedOf({p})
  <2>1. /\ Run("forgetExcluded") /\ chain' = Tail(chain)
        /\ \/ /\ intent' = [intent EXCEPT !.localComplete = TRUE]
              /\ call' = [call EXCEPT !.at = "deleted"]
           \/ intent' = intent /\ call' = NoCall
    BY <1>7 DEF RunForgetExcluded
  <2>2. p = intent.pair
    BY <2>1, DeleteRuns
  <2>3. file' = Without(file, gone)
    BY <1>2, <1>7 DEF RunForgetExcluded
  <2>4. k \in gone => PairOf[k] = p /\ k \in excluded
    BY DEF ExcludedOf, OfPairs
  <2> HIDE DEF gone
  <2>5. file'[k] = IF k \in gone THEN 0 ELSE file[k]
    BY <1>1, <2>3, RowsAre
  <2> QED
    BY <1>1, <2>2, <2>4, <2>5
<1>8. CASE ForgetSessions
  <2>1. /\ Opens(pendingForgets \cup {call.pair}, pendingExcludedForgets)
        /\ forgottenPairs' = forgottenPairs \cup {call.pair}
    BY <1>2, <1>8 DEF ForgetSessions
  <2>2. file'[k] # file[k] /\ file[k] \in Nat
    BY <1>1
  <2> QED
    BY <1>1, <2>1, <2>2, OpensDrops
<1>9. CASE ForgetExcludedKeys
  <2>1. /\ Opens(pendingForgets, pendingExcludedForgets \cup {call.pair})
        /\ forgottenPairs' = forgottenPairs
    BY <1>2, <1>9 DEF ForgetExcludedKeys
  <2>2. call.pair = intent.pair
    BY <1>9 DEF ForgetExcludedKeys, Local, ArchiveInv, CallOK
  <2> QED
    <3>1. file'[k] # file[k]
      BY <1>1
    <3> QED
      BY <1>1, <2>1, <2>2, <3>1, OpensDrops
<1> QED
  BY <1>2, <1>3, <1>4, <1>5, <1>6, <1>7, <1>8, <1>9
     DEF ArchiveNext, archiveVars, Sweep, BeginForget, RemoveFromEngine, FinishForget,
         StartRebuild, Restart, ReadChunk, SeedEnds, SwapStore, LocalWrite, TranscriptPruned,
         HubChanges, HubHeard, Drain, DiskFails, DiskHeals, Stop, StopCloses

\* Only a batch adds rows, as it is filtered when it runs.
LEMMA AdditionIs ==
    ASSUME ArchiveInv, [ArchiveNext]_archiveVars, NEW k \in Keys, file'[k] > file[k]
    PROVE  \/ file'[k] <= own[k]
           \/ file'[k] = heard[k] /\ PairOf[k] # intent.pair
<1>1. file \in Rows /\ own \in Rows /\ file[k] \in Nat
  BY DEF ArchiveInv, FilesOK, EngineOK, Rows, Fullness
<1>2. file' # file
  BY <1>1
<1>3. CASE RunAppend
  <2> DEFINE wanted == Wanted(Head(chain).rows, own)
  <2>1. Head(chain).rows \in Rows
    BY <1>3, RunIs DEF RunAppend, Links
  <2>2. /\ wanted \in Rows
        /\ wanted[k] # 0 => /\ wanted[k] = Head(chain).rows[k]
                            /\ wanted[k] <= own[k] \/ MayArchiveFleet(k, wanted[k])
    BY <1>1, <2>1, WantedIs
  <2>3. file' = Fuller(file, wanted)
    BY <1>2, <1>3 DEF RunAppend
  <2> HIDE DEF wanted
  <2>4. Fuller(file, wanted)[k] \in {file[k], wanted[k]}
    BY <1>1, <2>2, RowsAre
  <2>5. file'[k] = wanted[k] /\ wanted[k] # 0
    BY <1>1, <2>3, <2>4
  <2>6. CASE MayArchiveFleet(k, wanted[k])
    <3>1. intent = NoIntent /\ copy[k] = wanted[k] /\ copy = heard
      BY <2>6 DEF MayArchiveFleet, ArchiveInv, FleetOK
    <3>2. intent.pair \notin Pairs /\ PairOf[k] \in Pairs
      BY <3>1 DEF NoIntent
    <3> QED
      BY <2>5, <3>1, <3>2
  <2> QED
    BY <2>2, <2>5, <2>6
<1>4. CASE TryOpen
  <2>1. Opens(pendingForgets, pendingExcludedForgets)
    BY <1>2, <1>4 DEF TryOpen
  <2>2. file'[k] # file[k] /\ file[k] \in Nat
    BY <1>1
  <2> QED
    BY <1>1, <2>1, <2>2, OpensDrops
<1>5. CASE RunRetry
  <2>1. file' = Replayed(pendingForgets, pendingExcludedForgets)
    BY <1>2, <1>5 DEF RunRetry
  <2> QED
    BY <1>1, <2>1, ReplayedIs
<1>6. CASE RunForget \/ RunForgetExcluded
  <2>1. PICK gone : file' = Without(file, gone)
    BY <1>2, <1>6 DEF RunForget, RunForgetExcluded
  <2>2. file'[k] \in {0, file[k]}
    BY <1>1, <2>1, RowsAre
  <2> QED
    BY <1>1, <2>2
<1>7. CASE ForgetSessions \/ ForgetExcludedKeys
  <2>1. \E pairs, excludedPairs : Opens(pairs, excludedPairs)
    BY <1>2, <1>7 DEF ForgetSessions, ForgetExcludedKeys
  <2>2. file'[k] # file[k] /\ file[k] \in Nat
    BY <1>1
  <2> QED
    BY <1>1, <2>1, <2>2, OpensDrops
<1> QED
  BY <1>2, <1>3, <1>4, <1>5, <1>6, <1>7
     DEF ArchiveNext, archiveVars, Sweep, BeginForget, RemoveFromEngine, FinishForget,
         StartRebuild, Restart, ReadChunk, SeedEnds, SwapStore, LocalWrite, TranscriptPruned,
         HubChanges, HubHeard, Drain, DiskFails, DiskHeals, Stop, StopCloses

\* The archive drops a row for its pair's forget or for a repair of a key that
\* is excluded, and takes beyond this machine's own only what the Hub is last
\* known to hold while no deletion is pending (local-archive.ts 275, fleet.ts 2124).
THEOREM ArchiveIsTrueHolds == ArchiveSpec => ArchiveIsTrue
<1>1. ArchiveInv /\ [ArchiveNext]_archiveVars =>
        [\A k \in Keys : file'[k] < file[k] =>
         /\ file'[k] = 0
         /\ \/ PairOf[k] \in forgottenPairs'
            \/ /\ k \in excluded
               /\ PairOf[k] \in pendingExcludedForgets \cup {intent.pair}]_archiveVars
  BY DeletionIs
<1>2. ArchiveInv /\ [ArchiveNext]_archiveVars =>
        [\A k \in Keys : file'[k] > file[k] =>
         \/ file'[k] <= own[k]
         \/ file'[k] = heard[k] /\ PairOf[k] # intent.pair]_archiveVars
  BY AdditionIs
<1> QED
  BY <1>1, <1>2, ArchiveInvariant, PTL
     DEF ArchiveSpec, ArchiveIsTrue, OnlyAForgetDeletes, ArchivesOnlyWhatTheHubHolds

USE ViewAssumption

-------------------------------------------------------------------------------
(* The contribution view, and its inductive invariant *)

SentRows == [key : ViewKeys, total : 0 .. MaxFullness]
OneEach(rows) == \A row, other \in rows : row.key = other.key => row = other

ContentsOK ==
    contributions \in Contributions /\ pushed \in Contributions /\ acked \in Contributions

\* The feed holds no more keys than it may, and is of a store installed so far.
FeedOK ==
    /\ installed \in Int /\ tracked \in Int /\ tracked <= installed
    /\ changed \subseteq ViewKeys /\ IsFiniteSet(changed)
    /\ Cardinality(changed) <= ChangedKeysMax
    /\ wholesale \in BOOLEAN /\ (wholesale => changed = {})

\* The eligibility in hand was right when it was made.
GateOK ==
    /\ ingestible \in BOOLEAN /\ revision \in Int
    /\ current = [open |-> current.open, barred |-> current.barred,
                  written |-> current.written, id |-> current.id]
    /\ current.open \in BOOLEAN /\ current.written \in Int /\ current.id \in Nat
    /\ current.open => ingestible
    /\ current.written <= revision
    /\ current.written = revision => current.barred = bars
    /\ seen = current.id \/ (seen = -1 /\ current.id = 0)

\* Sources are never of a later fence, and a walk runs for a fence that moved.
FenceOK ==
    /\ fence \in Nat /\ source \in Int /\ source <= fence
    /\ pass \in {"idle", "prepare", "sending"}
    /\ pass = "prepare" => source # fence

\* A pass sends one row of a key, and ends with its last.
PassOK ==
    /\ todo \subseteq SentRows /\ OneEach(todo)
    /\ (todo # {}) = (pass = "sending")
    /\ dirty \subseteq ViewKeys /\ fullPass \in BOOLEAN

\* No store, eligibility or removal has come since a pass looked.
Watched ==
    /\ ~wholesale /\ tracked = installed /\ seen = current.id
    /\ current.open = ingestible /\ current.written = revision

\* A key's contribution is on the Hub, or the loop still has it before it.
Accounted(k) ==
    \/ pushed[k] >= contributions[k]
    \/ k \in changed \cup dirty
    \/ \E row \in todo : row.key = k /\ row.total = contributions[k]

NothingMissed ==
    source = fence /\ ~fullPass /\ Watched => \A k \in ViewKeys : MayBeSent(k) => Accounted(k)

ViewInv ==
    ContentsOK /\ FeedOK /\ GateOK /\ FenceOK /\ PassOK /\ AckedIsHeld /\ NothingMissed

-------------------------------------------------------------------------------
(* The operators *)

\* Taking rows in only raises totals, to each row's at least, and keeps an order.
LEMMA RaisedIs ==
    ASSUME NEW a \in Contributions, NEW rows \in SUBSET SentRows, OneEach(rows)
    PROVE  /\ Raised(a, rows) \in Contributions
           /\ \A k \in ViewKeys : a[k] <= Raised(a, rows)[k]
           /\ \A row \in rows : row.total <= Raised(a, rows)[row.key]
           /\ \A b \in Contributions :
                (\A k \in ViewKeys : b[k] <= a[k])
                  => \A k \in ViewKeys : Raised(b, rows)[k] <= Raised(a, rows)[k]
<1> DEFINE The(k) == CHOOSE row \in rows : row.key = k
<1>1. \A row \in rows : The(row.key) = row
  BY DEF OneEach
<1>2. \A row \in rows : row.key \in ViewKeys /\ row.total \in 0 .. MaxFullness
  BY DEF SentRows
<1> HIDE DEF The
<1>3. \A c \in Contributions, k \in ViewKeys :
        Raised(c, rows)[k] = IF \E row \in rows : row.key = k /\ row.total > c[k]
                             THEN The(k).total ELSE c[k]
  BY DEF Raised, The
<1>4. \A c \in Contributions, k \in ViewKeys : c[k] \in 0 .. MaxFullness
  BY DEF Contributions
<1>5. \A c \in Contributions, k \in ViewKeys :
        /\ Raised(c, rows)[k] \in 0 .. MaxFullness /\ c[k] <= Raised(c, rows)[k]
        /\ \A row \in rows : row.key = k => row.total <= Raised(c, rows)[k]
        /\ \/ Raised(c, rows)[k] = c[k]
           \/ \E row \in rows : row.key = k /\ Raised(c, rows)[k] = row.total
  BY <1>1, <1>2, <1>3, <1>4
<1>6. Raised(a, rows) \in Contributions
  BY <1>5 DEF Contributions, Raised
<1>7. ASSUME NEW b \in Contributions, \A k \in ViewKeys : b[k] <= a[k], NEW k \in ViewKeys
      PROVE  Raised(b, rows)[k] <= Raised(a, rows)[k]
  BY <1>2, <1>4, <1>5, <1>7
<1> QED
  BY <1>2, <1>5, <1>6, <1>7

\* The rows of some keys and their totals.
RowsOf(keys, of) == {[key |-> k, total |-> of[k]] : k \in keys}

LEMMA RowsOfAre ==
    ASSUME NEW of \in Contributions, NEW keys \in SUBSET ViewKeys
    PROVE  /\ RowsOf(keys, of) \in SUBSET SentRows /\ OneEach(RowsOf(keys, of))
           /\ \A k \in keys : \E row \in RowsOf(keys, of) : row.key = k /\ row.total = of[k]
           /\ RowsOf(keys, of) = {} <=> keys = {}
<1>1. \A k \in keys : k \in ViewKeys /\ of[k] \in 0 .. MaxFullness
  BY DEF Contributions
<1>2. RowsOf(keys, of) \in SUBSET SentRows
  BY <1>1 DEF RowsOf, SentRows
<1>3. OneEach(RowsOf(keys, of))
  BY DEF OneEach, RowsOf
<1>4. /\ \A k \in keys : \E row \in RowsOf(keys, of) : row.key = k /\ row.total = of[k]
      /\ RowsOf(keys, of) = {} <=> keys = {}
  <2>1. \A k \in keys : [key |-> k, total |-> of[k]] \in RowsOf(keys, of)
    BY DEF RowsOf
  <2>2. ASSUME keys = {} PROVE RowsOf(keys, of) = {}
    BY <2>2 DEF RowsOf
  <2> QED
    BY <2>1, <2>2
<1> QED
  BY <1>2, <1>3, <1>4

\* An empty feed is within every limit.
LEMMA NoFeed ==
    IsFiniteSet({}) /\ Cardinality({}) <= ChangedKeysMax
BY FS_EmptySet

\* The eligibility of a moment says what the gate and the intent say at it.
LEMMA EligibilityIs ==
    ASSUME GateOK
    PROVE  /\ Eligibility = [open |-> ingestible, barred |-> bars, written |-> revision,
                             id |-> Eligibility.id]
           /\ Eligibility.id \in Nat
           /\ ~Wholesale(Eligibility) => Watched
<1>1. CASE current.open = ingestible /\ current.written = revision
  BY <1>1 DEF Eligibility, GateOK, Wholesale, Watched
<1>2. CASE ~(current.open = ingestible /\ current.written = revision)
  <2>1. Eligibility = [open |-> ingestible, barred |-> bars, written |-> revision,
                       id |-> current.id + 1]
    BY <1>2 DEF Eligibility
  <2>2. current.id + 1 \in Nat /\ current.id + 1 # seen
    BY DEF GateOK
  <2> QED
    BY <2>1, <2>2 DEF Wholesale
<1> QED
  BY <1>1, <1>2

\* What is sendable now.
LEMMA SendableIs ==
    ASSUME GateOK, NEW of
    PROVE  Sendable(Eligibility, of)
             = {k \in ViewKeys : ingestible /\ of[k] > 0 /\ ViewPairOf[k] \notin bars}
BY EligibilityIs DEF Sendable

-------------------------------------------------------------------------------
(* The store and the gates *)

LEMMA ViewInitHolds == ViewInit => ViewInv
<1> SUFFICES ASSUME ViewInit PROVE ViewInv
  OBVIOUS
<1>1. ContentsOK
  <2>1. 0 .. 1 \subseteq 0 .. MaxFullness /\ 0 \in 0 .. MaxFullness
    OBVIOUS
  <2> QED
    BY <2>1 DEF ViewInit, ContentsOK, Contributions, NoTotals
<1>2. FeedOK
  BY NoFeed DEF ViewInit, FeedOK
<1>3. GateOK
  <2>1. /\ current.open = FALSE /\ current.barred = bars /\ current.written = revision
        /\ current.id = 0 /\ seen = -1
        /\ current = [open |-> current.open, barred |-> current.barred,
                      written |-> current.written, id |-> current.id]
    BY DEF ViewInit
  <2>2. ingestible = FALSE /\ revision = 0
    BY DEF ViewInit
  <2>3. current.written \in Int /\ current.id \in Nat /\ current.written <= revision
        /\ revision \in Int
    BY <2>1, <2>2
  <2> QED
    BY <2>1, <2>2, <2>3, Zenon DEF GateOK
<1>4. FenceOK /\ PassOK /\ AckedIsHeld /\ NothingMissed
  BY DEF ViewInit, FenceOK, PassOK, OneEach, AckedIsHeld, NothingMissed
<1> QED
  BY <1>1, <1>2, <1>3, <1>4 DEF ViewInv

LEMMA WriteKeeps ==
    ASSUME ViewInv, NEW k \in ViewKeys, NEW total \in 1 .. MaxFullness, Write(k, total)
    PROVE  ViewInv'
<1> USE DEF ViewInv
<1>0. UNCHANGED <<installed, gateVars, current, tracked, seen, hubVars, passVars>>
  BY DEF Write
<1>1. ContentsOK'
  <2>1. contributions' \in Contributions
    BY DEF Write, ContentsOK, Contributions
  <2> QED
    BY <1>0, <2>1 DEF ContentsOK, hubVars, passVars
<1>2. FeedOK'
  <2>1. CASE UNCHANGED <<changed, wholesale>>
    BY <1>0, <2>1 DEF FeedOK
  <2>2. CASE changed' = {} /\ wholesale' = TRUE
    BY <1>0, <2>2, NoFeed DEF FeedOK
  <2>3. CASE Cardinality(changed) < ChangedKeysMax /\ changed' = changed \cup {k}
             /\ UNCHANGED wholesale /\ ~wholesale
    <3>1. IsFiniteSet(changed) /\ Cardinality(changed) \in Nat
      BY FS_CardinalityType DEF FeedOK
    <3>2. IsFiniteSet(changed \cup {k})
          /\ Cardinality(changed \cup {k})
               = IF k \in changed THEN Cardinality(changed) ELSE Cardinality(changed) + 1
      BY <3>1, FS_AddElement
    <3>3. Cardinality(changed \cup {k}) <= ChangedKeysMax
      BY <2>3, <3>1, <3>2
    <3> QED
      BY <1>0, <2>3, <3>2, <3>3 DEF FeedOK
  <2> QED
    BY <2>1, <2>2, <2>3 DEF Write, OnWrite
<1>3. GateOK' /\ FenceOK' /\ PassOK' /\ AckedIsHeld'
  BY <1>0 DEF GateOK, gateVars, FenceOK, PassOK, passVars, AckedIsHeld, hubVars
<1>4. NothingMissed'
  <2> SUFFICES ASSUME (source = fence /\ ~fullPass /\ Watched)',
                      NEW j \in ViewKeys, MayBeSent(j)'
               PROVE  Accounted(j)'
    BY DEF NothingMissed
  <2>1. Watched /\ source = fence /\ ~fullPass /\ changed \subseteq changed' /\ k \in changed'
    BY <1>0 DEF Write, OnWrite, Watched, gateVars, hubVars, passVars
  <2>2. CASE j = k
    BY <2>1, <2>2 DEF Accounted
  <2>3. CASE j # k
    <3>1. contributions'[j] = contributions[j]
      BY <2>3 DEF Write, ContentsOK, Contributions
    <3>2. Accounted(j)
      BY <1>0, <2>1, <3>1 DEF NothingMissed, MayBeSent, gateVars
    <3> QED
      BY <1>0, <2>1, <3>1, <3>2 DEF Accounted, hubVars, passVars
  <2> QED
    BY <2>2, <2>3
<1> QED
  BY <1>1, <1>2, <1>3, <1>4

\* A removal makes the next pass read everything.
LEMMA EvictKeeps ==
    ASSUME ViewInv, NEW k \in ViewKeys, Evict(k)
    PROVE  ViewInv'
<1> USE DEF ViewInv
<1>0. UNCHANGED <<installed, gateVars, current, tracked, seen, hubVars, passVars>>
  BY DEF Evict
<1>1. ContentsOK'
  <2>1. contributions' \in Contributions
    BY DEF Evict, ContentsOK, Contributions
  <2> QED
    BY <1>0, <2>1 DEF ContentsOK, hubVars, passVars
<1>2. FeedOK'
  <2>1. CASE UNCHANGED <<changed, wholesale>>
    BY <1>0, <2>1 DEF FeedOK
  <2>2. CASE changed' = {} /\ wholesale' = TRUE
    BY <1>0, <2>2, NoFeed DEF FeedOK
  <2> QED
    BY <2>1, <2>2 DEF Evict, OnReplace
<1>3. GateOK' /\ FenceOK' /\ PassOK' /\ AckedIsHeld'
  BY <1>0 DEF GateOK, gateVars, FenceOK, PassOK, passVars, AckedIsHeld, hubVars
<1>4. NothingMissed'
  BY <1>0 DEF Evict, OnReplace, NothingMissed, Watched
<1> QED
  BY <1>1, <1>2, <1>3, <1>4

\* The view notices that its feed is of another store.
LEMMA SwapKeeps ==
    ASSUME ViewInv, NEW next \in Contributions, Swap(next)
    PROVE  ViewInv'
<1> USE DEF ViewInv
<1>0. UNCHANGED <<gateVars, viewVars, hubVars, passVars>>
  BY DEF Swap
<1>1. ContentsOK' /\ FeedOK'
  BY <1>0 DEF Swap, ContentsOK, FeedOK, hubVars, passVars, viewVars
<1>2. GateOK' /\ FenceOK' /\ PassOK' /\ AckedIsHeld'
  BY <1>0 DEF GateOK, gateVars, viewVars, FenceOK, PassOK, passVars, AckedIsHeld, hubVars
<1>3. NothingMissed'
  BY <1>0 DEF Swap, NothingMissed, Watched, FeedOK, viewVars
<1> QED
  BY <1>1, <1>2, <1>3

\* The view notices that the gate or the intent moved.
LEMMA GateKeeps ==
    ASSUME ViewInv, Ingested \/ \E pairs \in SUBSET ViewPairs : WriteIntent(pairs)
    PROVE  ViewInv'
<1> USE DEF ViewInv
<1>0. UNCHANGED <<storeVars, viewVars, hubVars, passVars>>
  BY DEF Ingested, WriteIntent
<1>1. ContentsOK' /\ FeedOK' /\ FenceOK' /\ PassOK' /\ AckedIsHeld'
  BY <1>0 DEF ContentsOK, FeedOK, FenceOK, PassOK, AckedIsHeld, storeVars, viewVars, hubVars,
              passVars
<1>2. GateOK' /\ ~Watched'
  <2>1. current' = current /\ seen' = seen
    BY <1>0 DEF viewVars
  <2>2. CASE Ingested
    <3>1. ~ingestible /\ ingestible' = TRUE /\ bars' = bars /\ revision' = revision
      BY <2>2 DEF Ingested
    <3>2. current.open = FALSE
      BY <3>1 DEF GateOK
    <3> QED
      BY <2>1, <3>1, <3>2 DEF GateOK, Watched
  <2>3. ASSUME NEW pairs, WriteIntent(pairs)
        PROVE  GateOK' /\ ~Watched'
    <3>1. revision' = revision + 1 /\ ingestible' = ingestible
      BY <2>3 DEF WriteIntent
    <3>2. current.written < revision' /\ revision' \in Int
      BY <3>1 DEF GateOK
    <3> QED
      BY <2>1, <3>1, <3>2 DEF GateOK, Watched
  <2> QED
    BY <2>2, <2>3
<1> QED
  BY <1>1, <1>2 DEF NothingMissed

\* A deletion elsewhere moves the fence away from the sources.
LEMMA FleetDeletesKeeps ==
    ASSUME ViewInv, NEW keys \in SUBSET ViewKeys, FleetDeletes(keys)
    PROVE  ViewInv'
<1> USE DEF ViewInv
<1>0. UNCHANGED <<storeVars, gateVars, viewVars, passVars>>
  BY DEF FleetDeletes
<1>1. ContentsOK'
  <2>1. pushed' \in Contributions
    <3>1. 0 \in 0 .. MaxFullness
      OBVIOUS
    <3> QED
      BY <3>1 DEF FleetDeletes, ContentsOK, Contributions
  <2> QED
    BY <1>0, <2>1 DEF ContentsOK, storeVars, passVars
<1>2. FeedOK' /\ GateOK' /\ PassOK'
  BY <1>0 DEF FeedOK, GateOK, PassOK, storeVars, gateVars, viewVars, passVars
<1>3. FenceOK' /\ AckedIsHeld' /\ NothingMissed'
  BY <1>0 DEF FleetDeletes, FenceOK, AckedIsHeld, NothingMissed, passVars
<1> QED
  BY <1>1, <1>2, <1>3

-------------------------------------------------------------------------------
(* A pass *)

\* Looking at the changed keys is enough where everything was looked at before.
LEMMA ExamineKeeps ==
    ASSUME ViewInv, pass = "idle", NEW refenced \in BOOLEAN, NEW wiped \in BOOLEAN,
           Examine(refenced, wiped), wiped => refenced,
           UNCHANGED <<storeVars, gateVars, hubVars>>,
           source' = fence, ~refenced => source = fence, refenced => wiped
    PROVE  ViewInv'
<1> USE DEF ViewInv
<1> DEFINE e == Eligibility
           whole == fullPass \/ refenced \/ Wholesale(e)
                    \/ Cardinality(dirty \cup changed) > ChangedKeysMax
           acks == IF wiped THEN NoTotals
                   ELSE IF whole THEN [k \in ViewKeys |-> IF k \in Sendable(e, contributions)
                                                          THEN acked[k] ELSE 0]
                   ELSE acked
           looked == IF whole THEN Sendable(e, contributions)
                     ELSE (dirty \cup changed) \cap Sendable(e, contributions)
<1>1. /\ current' = e /\ seen' = e.id /\ tracked' = installed
      /\ changed' = {} /\ wholesale' = FALSE
      /\ fullPass' = FALSE /\ dirty' = {}
      /\ acked' = acks
      /\ todo' = {[key |-> k, total |-> contributions[k]] : k \in Unstamped(looked, acks)}
      /\ pass' = IF todo' = {} THEN "idle" ELSE "sending"
  BY DEF Examine
<1>2. /\ e = [open |-> ingestible, barred |-> bars, written |-> revision, id |-> e.id]
      /\ e.id \in Nat /\ (~Wholesale(e) => Watched)
      /\ Sendable(e, contributions) = {k \in ViewKeys : MayBeSent(k)}
  <2>1. GateOK
    OBVIOUS
  <2>2. Sendable(Eligibility, contributions)
          = {k \in ViewKeys : /\ ingestible /\ contributions[k] > 0
                              /\ ViewPairOf[k] \notin bars}
    BY <2>1, SendableIs
  <2>3. {k \in ViewKeys : ingestible /\ contributions[k] > 0 /\ ViewPairOf[k] \notin bars}
          = {k \in ViewKeys : MayBeSent(k)}
    BY DEF MayBeSent
  <2> QED
    BY <2>1, <2>2, <2>3, EligibilityIs
<1> HIDE DEF e
<1>3. looked \subseteq ViewKeys /\ \A k \in looked : MayBeSent(k)
  BY <1>2
<1>4. acks \in Contributions
  <2>1. 0 \in 0 .. MaxFullness
    OBVIOUS
  <2> QED
    BY <2>1 DEF ContentsOK, Contributions, NoTotals
<1>5. source = fence \/ wiped
  OBVIOUS
<1>6. \A k \in ViewKeys : acks[k] <= pushed[k]
  <2>1. \A k \in ViewKeys : pushed[k] \in Nat /\ acked[k] \in Nat
    BY DEF ContentsOK, Contributions
  <2>2. CASE wiped
    BY <2>1, <2>2 DEF NoTotals
  <2>3. CASE ~wiped
    <3>1. \A k \in ViewKeys : acked[k] <= pushed[k]
      BY <1>5, <2>3 DEF AckedIsHeld
    <3> QED
      BY <2>1, <2>3, <3>1
  <2> QED
    BY <2>2, <2>3
<1>7. ~whole => source = fence /\ ~fullPass /\ Watched
  BY <1>2
<1> HIDE DEF acks, whole
<1>8. todo' \subseteq SentRows /\ OneEach(todo')
  <2> DEFINE unsent == Unstamped(looked, acks)
  <2>1. unsent \in SUBSET ViewKeys /\ contributions \in Contributions
    BY <1>3 DEF Unstamped, ContentsOK
  <2>2. todo' = RowsOf(unsent, contributions)
    BY <1>1 DEF RowsOf
  <2> HIDE DEF unsent
  <2> QED
    BY <2>1, <2>2, RowsOfAre
<1>9. ContentsOK'
  BY <1>1, <1>4 DEF ContentsOK, storeVars, hubVars
<1>10. FeedOK'
  <2>1. IsFiniteSet(changed') /\ Cardinality(changed') <= ChangedKeysMax
    BY <1>1, NoFeed
  <2>2. installed' = installed /\ tracked' = installed /\ changed' = {} /\ wholesale' = FALSE
    BY <1>1 DEF storeVars
  <2>3. installed \in Int /\ installed <= installed
    BY DEF FeedOK
  <2>4. changed' \subseteq ViewKeys /\ tracked' <= installed'
    BY <2>2, <2>3
  <2> QED
    BY <2>1, <2>2, <2>3, <2>4 DEF FeedOK
<1>11. GateOK'
  <2>1. /\ current'.open = ingestible /\ current'.barred = bars /\ current'.written = revision
        /\ current'.id = e.id /\ seen' = e.id
        /\ current' = [open |-> current'.open, barred |-> current'.barred,
                       written |-> current'.written, id |-> current'.id]
    BY <1>1, <1>2
  <2> QED
    BY <1>2, <2>1 DEF GateOK, gateVars
<1>12. FenceOK' /\ PassOK' /\ AckedIsHeld'
  <2>1. FenceOK'
    BY <1>1 DEF FenceOK, hubVars
  <2>2. PassOK'
    BY <1>1, <1>8 DEF PassOK
  <2>3. AckedIsHeld'
    BY <1>1, <1>6 DEF AckedIsHeld, hubVars
  <2> QED
    BY <2>1, <2>2, <2>3
<1>13. ASSUME NEW k \in ViewKeys, MayBeSent(k)
       PROVE  pushed[k] >= contributions[k] \/ k \in Unstamped(looked, acks)
  <2>1. pushed[k] \in Nat /\ contributions[k] \in Nat /\ acks[k] \in Nat
    BY <1>4 DEF ContentsOK, Contributions
  <2>2. CASE k \in looked
    BY <1>6, <2>1, <2>2 DEF Unstamped
  <2>3. CASE k \notin looked
    <3>1. ~whole /\ k \notin dirty \cup changed
      BY <1>2, <1>13, <2>3
    <3>2. Accounted(k)
      BY <1>7, <1>13, <3>1 DEF NothingMissed
    <3>3. todo = {}
      BY DEF PassOK
    <3> QED
      BY <3>1, <3>2, <3>3 DEF Accounted
  <2> QED
    BY <2>2, <2>3
<1>14. NothingMissed'
  <2> SUFFICES ASSUME NEW k \in ViewKeys, MayBeSent(k)'
               PROVE  Accounted(k)'
    BY DEF NothingMissed
  <2>1. MayBeSent(k)
    BY DEF MayBeSent, storeVars, gateVars
  <2>2. CASE pushed[k] >= contributions[k]
    BY <2>2 DEF Accounted, storeVars, hubVars
  <2>3. CASE k \in Unstamped(looked, acks)
    <3>1. [key |-> k, total |-> contributions[k]] \in todo'
      BY <1>1, <2>3
    <3> QED
      BY <3>1 DEF Accounted, storeVars
  <2> QED
    BY <1>13, <2>1, <2>2, <2>3
<1> QED
  BY <1>9, <1>10, <1>11, <1>12, <1>14

LEMMA PassStarts ==
    ASSUME ViewInv, PassUnderFence \/ FirstPass \/ StartPrepare
    PROVE  ViewInv'
<1>1. CASE PassUnderFence
  BY <1>1, ExamineKeeps DEF PassUnderFence
<1>2. CASE FirstPass
  BY <1>2, ExamineKeeps DEF FirstPass
<1>3. CASE StartPrepare
  <2> USE DEF ViewInv
  <2>0. /\ UNCHANGED <<storeVars, gateVars, viewVars, hubVars, fullPass, dirty, source, acked>>
        /\ source # fence /\ pass' = "prepare" /\ todo' = {}
    BY <1>3 DEF StartPrepare
  <2>1. ContentsOK' /\ FeedOK' /\ GateOK' /\ FenceOK' /\ AckedIsHeld'
    BY <2>0 DEF ContentsOK, FeedOK, GateOK, FenceOK, AckedIsHeld, storeVars, gateVars,
                viewVars, hubVars
  <2>2. PassOK' /\ NothingMissed'
    BY <2>0 DEF PassOK, OneEach, NothingMissed, hubVars
  <2> QED
    BY <2>1, <2>2
<1> QED
  BY <1>1, <1>2, <1>3

\* After a walk everything sendable is sent, whatever was acknowledged before.
LEMMA PreparedKeeps ==
    ASSUME ViewInv, NEW next \in Contributions, Prepared(next)
    PROVE  ViewInv'
<1> USE DEF ViewInv
<1> DEFINE e == Eligibility
           looked == Sendable(e, next)
<1>1. /\ contributions' = next /\ current' = e /\ seen' = e.id /\ tracked' = installed
      /\ changed' = {} /\ wholesale' = FALSE
      /\ todo' = {[key |-> k, total |-> next[k]] : k \in looked}
      /\ pass' = IF looked = {} THEN "idle" ELSE "sending"
      /\ source' = fence /\ acked' = NoTotals
      /\ fullPass' = FALSE /\ dirty' = {}
      /\ UNCHANGED <<installed, gateVars, hubVars>>
  BY DEF Prepared, NoAcks
<1>2. /\ e = [open |-> ingestible, barred |-> bars, written |-> revision, id |-> e.id]
      /\ e.id \in Nat
      /\ looked = {k \in ViewKeys : ingestible /\ next[k] > 0 /\ ViewPairOf[k] \notin bars}
  BY EligibilityIs, SendableIs
<1> HIDE DEF e, looked
<1>3. ContentsOK'
  <2>1. NoTotals \in Contributions
    <3>1. 0 \in 0 .. MaxFullness
      OBVIOUS
    <3> QED
      BY <3>1 DEF NoTotals, Contributions
  <2> QED
    BY <1>1, <2>1 DEF ContentsOK, hubVars
<1>4. FeedOK'
  <2>1. IsFiniteSet(changed') /\ Cardinality(changed') <= ChangedKeysMax
    BY <1>1, NoFeed
  <2>2. installed' = installed /\ tracked' = installed /\ changed' = {} /\ wholesale' = FALSE
    BY <1>1
  <2>3. installed \in Int /\ installed <= installed
    BY DEF FeedOK
  <2>4. changed' \subseteq ViewKeys /\ tracked' <= installed'
    BY <2>2, <2>3
  <2> QED
    BY <2>1, <2>2, <2>3, <2>4 DEF FeedOK
<1>5. GateOK'
  <2>1. /\ current'.open = ingestible /\ current'.barred = bars /\ current'.written = revision
        /\ current'.id = e.id /\ seen' = e.id
        /\ current' = [open |-> current'.open, barred |-> current'.barred,
                       written |-> current'.written, id |-> current'.id]
    BY <1>1, <1>2
  <2> QED
    BY <1>1, <1>2, <2>1 DEF GateOK, gateVars
<1>6. FenceOK'
  BY <1>1 DEF FenceOK, hubVars
<1>7. PassOK'
  <2>1. looked \in SUBSET ViewKeys
    BY <1>2
  <2>2. todo' = RowsOf(looked, next)
    BY <1>1 DEF RowsOf
  <2>3. todo' \in SUBSET SentRows /\ OneEach(todo') /\ (todo' = {} <=> looked = {})
    BY <2>1, <2>2, RowsOfAre
  <2> QED
    BY <1>1, <2>3 DEF PassOK
<1>8. AckedIsHeld'
  <2>1. \A k \in ViewKeys : pushed[k] \in Nat
    BY DEF ContentsOK, Contributions
  <2> QED
    BY <1>1, <2>1 DEF AckedIsHeld, hubVars, NoTotals
<1>9. NothingMissed'
  <2> SUFFICES ASSUME NEW k \in ViewKeys, MayBeSent(k)'
               PROVE  Accounted(k)'
    BY DEF NothingMissed
  <2>1. k \in looked
    BY <1>1, <1>2 DEF MayBeSent, gateVars
  <2>2. [key |-> k, total |-> next[k]] \in todo'
    BY <1>1, <2>1
  <2> QED
    BY <1>1, <2>2 DEF Accounted
<1> QED
  BY <1>3, <1>4, <1>5, <1>6, <1>7, <1>8, <1>9

LEMMA PrepareCutKeeps ==
    ASSUME ViewInv, PrepareCut
    PROVE  ViewInv'
<1> USE DEF ViewInv
<1>0. /\ UNCHANGED <<storeVars, gateVars, viewVars, hubVars, fullPass, dirty, source, todo,
                     acked>>
      /\ pass = "prepare" /\ pass' = "idle"
  BY DEF PrepareCut
<1>1. ContentsOK' /\ FeedOK' /\ GateOK' /\ FenceOK' /\ AckedIsHeld'
  BY <1>0 DEF ContentsOK, FeedOK, GateOK, FenceOK, AckedIsHeld, storeVars, gateVars,
              viewVars, hubVars
<1>2. PassOK' /\ NothingMissed'
  BY <1>0 DEF PassOK, NothingMissed, FenceOK, hubVars
<1> QED
  BY <1>1, <1>2

\* What the Hub has of a batch is at least each of its rows.
LEMMA AcknowledgedKeeps ==
    ASSUME ViewInv, NEW batch \in SUBSET todo, Acknowledged(batch)
    PROVE  ViewInv'
<1> USE DEF ViewInv
<1>0. /\ UNCHANGED <<storeVars, gateVars, viewVars, fence, fullPass, dirty, source>>
      /\ pass = "sending" /\ source = fence
      /\ pushed' = Raised(pushed, batch) /\ acked' = Raised(acked, batch)
      /\ todo' = todo \ batch
      /\ pass' = IF todo' = {} THEN "idle" ELSE pass
  BY DEF Acknowledged
<1>1. batch \in SUBSET SentRows /\ OneEach(batch)
  BY DEF PassOK, OneEach
<1>2. /\ pushed' \in Contributions /\ acked' \in Contributions
      /\ \A k \in ViewKeys : pushed[k] <= pushed'[k]
      /\ \A row \in batch : row.total <= pushed'[row.key]
      /\ \A k \in ViewKeys : acked'[k] <= pushed'[k]
  <2>1. \A k \in ViewKeys : acked[k] <= pushed[k]
    BY <1>0 DEF AckedIsHeld
  <2>2. pushed \in Contributions /\ acked \in Contributions
    BY DEF ContentsOK
  <2>3. Raised(acked, batch) \in Contributions
    BY <1>1, <2>2, RaisedIs
  <2> QED
    BY <1>0, <1>1, <2>1, <2>2, <2>3, RaisedIs
<1>3. ContentsOK' /\ FeedOK' /\ GateOK'
  BY <1>0, <1>2 DEF ContentsOK, FeedOK, GateOK, storeVars, gateVars, viewVars
<1>4. FenceOK' /\ AckedIsHeld'
  BY <1>0, <1>2 DEF FenceOK, AckedIsHeld
<1>5. PassOK'
  BY <1>0 DEF PassOK, OneEach
<1>6. NothingMissed'
  <2> SUFFICES ASSUME (source = fence /\ ~fullPass /\ Watched)',
                      NEW k \in ViewKeys, MayBeSent(k)'
               PROVE  Accounted(k)'
    BY DEF NothingMissed
  <2>1. Accounted(k)
    <3>1. Watched /\ ~fullPass
      BY <1>0 DEF Watched, storeVars, gateVars, viewVars
    <3>2. MayBeSent(k)
      BY <1>0 DEF MayBeSent, storeVars, gateVars
    <3> QED
      BY <1>0, <3>1, <3>2 DEF NothingMissed
  <2>2. contributions[k] \in Nat /\ pushed[k] \in Nat /\ pushed'[k] \in Nat
    BY <1>2 DEF ContentsOK, Contributions
  <2>3. CASE pushed[k] >= contributions[k]
    <3>1. pushed'[k] >= contributions[k]
      BY <1>2, <2>2, <2>3
    <3> QED
      BY <1>0, <3>1 DEF Accounted, storeVars
  <2>4. CASE k \in changed \cup dirty
    BY <1>0, <2>4 DEF Accounted, viewVars
  <2>5. ASSUME NEW row \in todo, row.key = k, row.total = contributions[k]
        PROVE  Accounted(k)'
    <3>1. CASE row \in batch
      <4>1. pushed'[k] >= contributions[k]
        BY <1>2, <2>2, <2>5, <3>1
      <4> QED
        BY <1>0, <4>1 DEF Accounted, storeVars
    <3>2. CASE row \notin batch
      <4>1. row \in todo'
        BY <1>0, <2>5, <3>2
      <4> QED
        BY <1>0, <2>5, <4>1 DEF Accounted, storeVars
    <3> QED
      BY <3>1, <3>2
  <2> QED
    BY <2>1, <2>3, <2>4, <2>5 DEF Accounted
<1> QED
  BY <1>3, <1>4, <1>5, <1>6

\* The keys of a pass that ends early wait for the next, one by one or all of them.
LEMMA PutBackKeeps ==
    ASSUME ViewInv, pass = "sending", PutBack({row.key : row \in todo}),
           UNCHANGED <<storeVars, gateVars, viewVars, fence, acked>>,
           source' = source \/ source' = -2,
           pushed' \in Contributions, \A k \in ViewKeys : pushed[k] <= pushed'[k]
    PROVE  ViewInv'
<1> USE DEF ViewInv
<1>0. /\ todo' = {} /\ pass' = "idle"
      /\ fullPass' = (fullPass \/ ({row.key : row \in todo} # {} /\ full))
      /\ dirty' = IF {row.key : row \in todo} # {} /\ ~full
                  THEN dirty \cup {row.key : row \in todo} ELSE dirty
  BY DEF PutBack
<1>1. ContentsOK' /\ FeedOK' /\ GateOK'
  BY DEF ContentsOK, FeedOK, GateOK, storeVars, gateVars, viewVars
<1>2. FenceOK'
  BY <1>0 DEF FenceOK
<1>3. PassOK'
  <2>1. {row.key : row \in todo} \subseteq ViewKeys
    BY DEF PassOK, SentRows
  <2> QED
    BY <1>0, <2>1 DEF PassOK, OneEach
<1>4. source' = fence' => source = fence
  BY DEF FenceOK
<1>5. \A k \in ViewKeys : pushed[k] \in Nat /\ pushed'[k] \in Nat /\ acked[k] \in Nat
                          /\ contributions[k] \in Nat
  BY DEF ContentsOK, Contributions
<1>6. AckedIsHeld'
  <2> SUFFICES ASSUME source' = fence', NEW k \in ViewKeys PROVE acked[k] <= pushed'[k]
    BY DEF AckedIsHeld
  <2>1. acked[k] <= pushed[k]
    BY <1>4 DEF AckedIsHeld
  <2> QED
    BY <1>5, <2>1
<1>7. NothingMissed'
  <2> SUFFICES ASSUME (source = fence /\ ~fullPass /\ Watched)',
                      NEW k \in ViewKeys, MayBeSent(k)'
               PROVE  Accounted(k)'
    BY DEF NothingMissed
  <2>1. Accounted(k)
    <3>1. Watched
      BY DEF Watched, storeVars, gateVars, viewVars
    <3>2. MayBeSent(k)
      BY DEF MayBeSent, storeVars, gateVars
    <3>3. ~fullPass
      BY <1>0
    <3> QED
      BY <1>4, <3>1, <3>2, <3>3 DEF NothingMissed
  <2>2. CASE pushed[k] >= contributions[k]
    <3>1. pushed'[k] >= contributions[k]
      BY <1>5, <2>2
    <3> QED
      BY <3>1 DEF Accounted, storeVars
  <2>3. CASE k \in changed \cup dirty
    BY <1>0, <2>3 DEF Accounted, viewVars
  <2>4. ASSUME NEW row \in todo, row.key = k
        PROVE  Accounted(k)'
    <3>1. k \in {r.key : r \in todo}
      BY <2>4
    <3>2. k \in dirty'
      BY <1>0, <3>1
    <3> QED
      BY <3>2 DEF Accounted
  <2> QED
    BY <2>1, <2>2, <2>3, <2>4 DEF Accounted
<1> QED
  BY <1>1, <1>2, <1>3, <1>6, <1>7

LEMMA PassEnds ==
    ASSUME ViewInv, Refused \/ \E batch \in SUBSET todo : Cut(batch)
    PROVE  ViewInv'
<1>1. \A k \in ViewKeys : pushed[k] \in Nat
  BY DEF ViewInv, ContentsOK, Contributions
<1>2. CASE Refused
  <2>1. pushed' = pushed /\ pushed \in Contributions
    BY <1>2 DEF Refused, hubVars, ViewInv, ContentsOK
  <2>2. \A k \in ViewKeys : pushed[k] <= pushed'[k]
    BY <1>1, <2>1
  <2>3. /\ pass = "sending" /\ PutBack({row.key : row \in todo}) /\ source' = -2
        /\ UNCHANGED <<storeVars, gateVars, viewVars, fence, acked>>
    BY <1>2 DEF Refused, hubVars
  <2> QED
    BY <2>1, <2>2, <2>3, PutBackKeeps
<1>3. ASSUME NEW batch \in SUBSET todo, Cut(batch)
      PROVE  ViewInv'
  <2>1. batch \in SUBSET SentRows /\ OneEach(batch) /\ pushed \in Contributions
    BY DEF ViewInv, PassOK, OneEach, ContentsOK
  <2>2. pushed' \in Contributions /\ \A k \in ViewKeys : pushed[k] <= pushed'[k]
    <3>1. CASE UNCHANGED pushed
      BY <1>1, <2>1, <3>1
    <3>2. CASE pushed' = Raised(pushed, batch)
      BY <2>1, <3>2, RaisedIs
    <3> QED
      BY <1>3, <3>1, <3>2 DEF Cut
  <2>3. /\ pass = "sending" /\ PutBack({row.key : row \in todo}) /\ source' = source
        /\ UNCHANGED <<storeVars, gateVars, viewVars, fence, acked>>
    BY <1>3 DEF Cut
  <2> QED
    BY <2>2, <2>3, PutBackKeeps
<1> QED
  BY <1>2, <1>3

-------------------------------------------------------------------------------
(* The theorems *)

\* The view, the push loop and the Hub, of every reachable state: no contribution
\* is between them unaccounted for.
THEOREM ViewInvariant == ViewSpec => []ViewInv
<1>1. ViewInit => ViewInv
  BY ViewInitHolds
<1>2. ViewInv /\ [ViewNext]_contributionVars => ViewInv'
  <2> SUFFICES ASSUME ViewInv, [ViewNext]_contributionVars
               PROVE  ViewInv'
    OBVIOUS
  <2>1. CASE Pass
    <3>1. ASSUME NEW next \in Contributions, Prepared(next) PROVE ViewInv'
      BY <3>1, PreparedKeeps
    <3>2. ASSUME NEW batch \in FirstRows, Acknowledged(batch) PROVE ViewInv'
      BY <3>2, AcknowledgedKeeps DEF FirstRows
    <3> QED
      BY <2>1, <3>1, <3>2, PassStarts, PassEnds DEF Pass
  <2>2. ASSUME NEW k \in ViewKeys, Evict(k) \/ \E total \in 1 .. MaxFullness : Write(k, total)
        PROVE  ViewInv'
    BY <2>2, EvictKeeps, WriteKeeps
  <2>3. ASSUME NEW next \in Contributions, Swap(next) PROVE ViewInv'
    BY <2>3, SwapKeeps
  <2>4. CASE Ingested \/ \E pairs \in SUBSET ViewPairs : WriteIntent(pairs)
    BY <2>4, GateKeeps
  <2>5. ASSUME NEW keys \in SUBSET ViewKeys, FleetDeletes(keys) PROVE ViewInv'
    BY <2>5, FleetDeletesKeeps
  <2>6. CASE PrepareCut
    BY <2>6, PrepareCutKeeps
  <2>7. ASSUME NEW batch \in FirstRows, Cut(batch) PROVE ViewInv'
    BY <2>7, PassEnds DEF FirstRows
  <2>8. CASE UNCHANGED contributionVars
    <3>1. UNCHANGED <<storeVars, gateVars, viewVars, hubVars, passVars>>
      BY <2>8 DEF contributionVars
    <3>2. ContentsOK' /\ FeedOK' /\ GateOK' /\ FenceOK' /\ PassOK' /\ AckedIsHeld'
      BY <3>1 DEF ViewInv, ContentsOK, FeedOK, GateOK, FenceOK, PassOK, AckedIsHeld,
                  storeVars, gateVars, viewVars, hubVars, passVars
    <3>3. NothingMissed'
      BY <3>1 DEF ViewInv, NothingMissed, Watched, MayBeSent, Accounted,
                  storeVars, gateVars, viewVars, hubVars, passVars
    <3> QED
      BY <3>2, <3>3 DEF ViewInv
  <2> QED
    BY <2>1, <2>2, <2>3, <2>4, <2>5, <2>6, <2>7, <2>8 DEF ViewNext
<1> QED
  BY <1>1, <1>2, PTL DEF ViewSpec

\* At rest every eligible contribution is on the Hub, and what the loop counts as
\* acknowledged is there too: no write, swap, bar, late gate, removal, deletion,
\* refusal or cut, in any order with a pass, loses one.
THEOREM PushIsCompleteHolds == ViewSpec => []PushIsComplete
<1>1. ViewInv => PushIsComplete
  <2> SUFFICES ASSUME ViewInv PROVE PushIsComplete
    OBVIOUS
  <2>1. ContributionViewTypeOK
    BY DEF ViewInv, ContributionViewTypeOK, ContentsOK, FeedOK, PassOK, OneEach
  <2>2. AckedIsHeld
    BY DEF ViewInv
  <2>3. NothingUnsent
    <3> SUFFICES ASSUME pass = "idle", ~fullPass, dirty = {}, changed = {}, source = fence,
                        ~Wholesale(Eligibility), NEW k \in ViewKeys, MayBeSent(k)
                 PROVE  pushed[k] >= contributions[k]
      BY DEF NothingUnsent
    <3>1. Watched
      BY EligibilityIs DEF ViewInv
    <3>2. Accounted(k)
      BY <3>1 DEF ViewInv, NothingMissed
    <3>3. todo = {}
      BY DEF ViewInv, PassOK
    <3> QED
      BY <3>2, <3>3 DEF Accounted
  <2> QED
    BY <2>1, <2>2, <2>3 DEF PushIsComplete
<1> QED
  BY <1>1, ViewInvariant, PTL

USE HubClientAssumption

-------------------------------------------------------------------------------
(* The inductive invariant of the connection *)

Instants == 0 .. clock

AttemptRecords ==
    [epoch : 0 .. epoch, phase : {"status", "samples", "answered", "pushing"},
     from : Instants, since : Instants, cutoff : Instants,
     got : SUBSET (1 .. clock), todo : SUBSET (1 .. clock)]
StreamRecords ==
    [epoch : 0 .. epoch, aborted : BOOLEAN, open : BOOLEAN, frames : Seq(Instants),
     swept : BOOLEAN, hole : BOOLEAN, from : Instants]
SupplementRecords ==
    [epoch : 0 .. epoch, since : Instants, got : SUBSET (1 .. clock), answered : BOOLEAN,
     of : Instants]

\* What is captured here is held here, and nothing is of a time to come.
SamplesType ==
    /\ clock \in 0 .. MaxTime
    /\ atClient \subseteq 1 .. clock /\ atHub \subseteq 1 .. clock
    /\ captured \subseteq atClient /\ owed \subseteq captured
    /\ pushUpFloor \in {NoFloor} \cup Instants

FlightType ==
    /\ epoch \in Nat
    /\ conns \subseteq AttemptRecords /\ streams \subseteq StreamRecords
    /\ supplements \subseteq SupplementRecords

\* The state says which of an attempt, a stream and a retry is under way.
WayOK ==
    /\ config \in BOOLEAN /\ retryTimer \in BOOLEAN
    /\ pollerSuspended \in BOOLEAN /\ remote \in BOOLEAN
    /\ state \in {"off", "connecting", "connected", "fallback"}
    /\ config <=> state # "off"
    /\ retryTimer <=> state = "fallback"
    /\ state = "connecting" <=> \E c \in conns : ~Stale(c)
    /\ state = "connected" <=> \E s \in streams : ~Dead(s)
    /\ \A c, d \in conns : ~Stale(c) /\ ~Stale(d) => c = d
    /\ \A s, t \in streams : ~Dead(s) /\ ~Dead(t) => s = t
    /\ state \in {"off", "fallback"} => ~pollerSuspended /\ ~remote
    /\ state = "connected" => pollerSuspended /\ remote

\* While a push is under way, it takes along all that is owed.
PushOK ==
    \A c \in conns : ~Stale(c) /\ c.phase = "pushing" =>
        /\ c.todo # {} /\ c.todo \subseteq atClient
        /\ owed \ midPush \subseteq atHub \cup c.todo

\* Of what the Hub captured after t, all is held here up to the newest held.
Whole(t) ==
    Before(captured, t) = {} => \A x \in atClient, y \in atHub : t < y /\ y <= x => y \in atClient

\* No supplement still out was asked from a sample later than t.
AskedBy(t) == \A b \in supplements : ~Stale(b) => b.since <= t

BackfillOK ==
    \A c \in conns : ~Stale(c) /\ c.phase \in {"answered", "pushing"} =>
        /\ Whole(c.from) /\ AskedBy(c.from)
        /\ c.phase = "answered" => c.got \subseteq 1 .. c.from

\* What a supplement answered leaves out below its newest sample, is held here.
SupplementsOK ==
    \A b \in supplements : ~Stale(b) /\ b.answered =>
        \A x \in b.got, y \in atHub : b.since < y /\ y <= x => y \in b.got \cup atClient

\* The sample y of the Hub is held, in a frame, or in a supplement to come.
Coming(s, y) ==
    \/ y \in atClient
    \/ \E i \in DOMAIN s.frames : s.frames[i] = y
    \/ \E b \in supplements :
         /\ b.epoch = s.epoch /\ b.of = s.from
         /\ IF b.answered THEN y \in b.got ELSE b.since < y

StreamsOK ==
    \A s \in streams : ~Dead(s) =>
        /\ s.swept \/ s.frames # <<>> => s.open
        /\ ~s.swept => Whole(s.from) /\ AskedBy(s.from)
        /\ s.swept /\ ~s.hole /\ Before(captured, s.from) = {} =>
             \A y \in atHub : s.from < y => Coming(s, y)

ClientOK ==
    /\ SamplesType /\ FlightType /\ WayOK /\ PushOK /\ FallbackIsOwed
    /\ BackfillOK /\ SupplementsOK /\ StreamsOK

-------------------------------------------------------------------------------
(* Times *)

\* A set of numbers that is not empty has a least element.
LEMMA LeastTime ==
    ASSUME NEW S \in SUBSET Nat, S # {}
    PROVE  \E least \in S : \A n \in S : least <= n
<1> DEFINE R == {ss \in Nat \X Nat : ss[1] < ss[2]}
<1>1. R = OpToRel(<, Nat)
  BY DEF OpToRel
<1>2. IsWellFoundedOn(R, Nat)
  BY <1>1, NatLessThanWellFounded
<1>3. \E least \in S : \A n \in S : ~(<<n, least>> \in R)
  <2> HIDE DEF R
  <2> QED
    BY <1>2, WFMin
<1>4. \E least \in S : \A n \in S : ~(n < least)
  BY <1>3
<1> QED
  BY <1>4

LEMMA MinIs ==
    ASSUME NEW S \in SUBSET Nat, S # {}
    PROVE  Min(S) \in S /\ \A x \in S : Min(S) <= x
BY LeastTime DEF Min

\* The newest of the samples, or zero.
LEMMA TipIs ==
    ASSUME NEW n \in Nat, NEW S \in SUBSET (1 .. n)
    PROVE  Tip(S) \in S \cup {0} /\ Tip(S) \in 0 .. n /\ \A x \in S : x <= Tip(S)
<1> DEFINE T == {n - x : x \in S \cup {0}}
<1>1. T \in SUBSET Nat /\ T # {}
  OBVIOUS
<1>2. PICK least \in T : \A t \in T : least <= t
  BY <1>1, LeastTime
<1>3. PICK m \in S \cup {0} : least = n - m
  BY <1>2
<1>4. ASSUME NEW x \in S \cup {0} PROVE m >= x
  <2>1. n - x \in T
    OBVIOUS
  <2>2. least <= n - x
    BY <2>1, <1>2
  <2> QED
    BY <2>2, <1>3
<1>5. Tip(S) \in S \cup {0} /\ \A x \in S \cup {0} : Tip(S) >= x
  BY <1>4 DEF Tip, Max
<1> HIDE DEF T
<1>6. Tip(S) \in 0 .. n
  <2>1. \A x \in S \cup {0} : x \in 0 .. n
    OBVIOUS
  <2> QED
    BY <2>1, <1>5
<1>7. \A x \in S : x <= Tip(S)
  BY <1>5, <1>6
<1> QED
  BY <1>5, <1>6, <1>7

LEMMA TipsAre ==
    ASSUME SamplesType
    PROVE  /\ Tip(atClient) \in atClient \cup {0} /\ Tip(atClient) \in Instants
           /\ \A x \in atClient : x <= Tip(atClient)
           /\ Tip(atHub) \in Instants /\ \A x \in atHub : x <= Tip(atHub)
<1>1. clock \in Nat
  BY DEF SamplesType
<1>2. atClient \in SUBSET (1 .. clock) /\ atHub \in SUBSET (1 .. clock)
  BY DEF SamplesType
<1> QED
  BY <1>1, <1>2, TipIs DEF Instants

\* What is of some time and epoch still is at a later one.
LEMMA Later ==
    ASSUME clock \in Nat, epoch \in Nat, clock' \in Nat, epoch' \in Nat, clock <= clock',
           epoch <= epoch'
    PROVE  /\ AttemptRecords \subseteq AttemptRecords'
           /\ StreamRecords \subseteq StreamRecords'
           /\ SupplementRecords \subseteq SupplementRecords'
<1>1. 0 .. epoch \subseteq 0 .. epoch' /\ 0 .. clock \subseteq 0 .. clock'
      /\ SUBSET (1 .. clock) \subseteq SUBSET (1 .. clock')
  OBVIOUS
<1>2. Seq(Instants) \subseteq Seq(Instants')
  BY <1>1 DEF Instants
<1>3. AttemptRecords \subseteq AttemptRecords'
  BY <1>1 DEF AttemptRecords, Instants
<1>4. StreamRecords \subseteq StreamRecords'
  BY <1>1, <1>2 DEF StreamRecords, Instants
<1>5. SupplementRecords \subseteq SupplementRecords'
  BY <1>1 DEF SupplementRecords, Instants
<1> QED
  BY <1>3, <1>4, <1>5

-------------------------------------------------------------------------------
(* Attempts *)

\* An attempt of an earlier configuration ends.
LEMMA UnwindOK ==
    ASSUME ClientOK, NEW c \in conns, Unwind(c)
    PROVE  ClientOK'
<1> USE DEF ClientOK
<1>0. /\ Stale(c) /\ conns' = conns \ {c}
      /\ UNCHANGED <<link, polling, streams, supplements, samplesHeld, aux>>
  BY DEF Unwind
<1> USE DEF link, polling, samplesHeld, aux
<1>1. (SamplesType /\ FallbackIsOwed /\ SupplementsOK /\ StreamsOK)'
  BY <1>0 DEF SamplesType, Instants, FallbackIsOwed, SupplementsOK, StreamsOK, Stale, Dead,
              Whole, AskedBy, Coming, Before
<1>2. FlightType'
  BY <1>0 DEF FlightType, AttemptRecords, StreamRecords, SupplementRecords, Instants
<1>3. WayOK'
  BY <1>0 DEF WayOK, Stale, Dead
<1>4. (PushOK /\ BackfillOK)'
  BY <1>0 DEF PushOK, BackfillOK, Stale, Whole, AskedBy, Before
<1> QED
  BY <1>1, <1>2, <1>3, <1>4

\* The status is read.
LEMMA StatusReadOK ==
    ASSUME ClientOK, NEW c \in conns, StatusRead(c)
    PROVE  ClientOK'
<1> USE DEF ClientOK
<1> DEFINE d == [c EXCEPT !.phase = "samples", !.since = Tip(atClient), !.cutoff = Tip(atHub)]
<1>0. /\ ~Stale(c) /\ conns' = (conns \ {c}) \cup {d}
      /\ UNCHANGED <<link, polling, streams, supplements, samplesHeld, aux>>
  BY DEF StatusRead, Moved
<1>1. c \in AttemptRecords
  BY DEF FlightType
<1>2. d \in AttemptRecords /\ d.phase = "samples" /\ d.epoch = c.epoch
  BY <1>1, TipsAre DEF AttemptRecords
<1> HIDE DEF d
<1> USE DEF link, polling, samplesHeld, aux
<1>3. (SamplesType /\ FallbackIsOwed /\ SupplementsOK /\ StreamsOK)'
  BY <1>0 DEF SamplesType, Instants, FallbackIsOwed, SupplementsOK, StreamsOK, Stale, Dead,
              Whole, AskedBy, Coming, Before
<1>4. FlightType'
  <2>1. AttemptRecords' = AttemptRecords /\ StreamRecords' = StreamRecords
        /\ SupplementRecords' = SupplementRecords
    BY <1>0 DEF AttemptRecords, StreamRecords, SupplementRecords, Instants
  <2> QED
    BY <1>0, <1>2, <2>1 DEF FlightType
<1>5. WayOK'
  BY <1>0, <1>2 DEF WayOK, Stale, Dead
<1>6. (PushOK /\ BackfillOK)'
  BY <1>0, <1>2 DEF PushOK, BackfillOK, Stale, Whole, AskedBy, Before
<1> QED
  BY <1>3, <1>4, <1>5, <1>6

\* The Hub answers with what it holds.
LEMMA HubAnswersOK ==
    ASSUME ClientOK, NEW c \in conns, HubAnswers(c)
    PROVE  ClientOK'
<1> USE DEF ClientOK
<1> DEFINE d == [c EXCEPT !.phase = "answered", !.got = Before(atHub, c.since), !.from = clock]
<1>0. /\ c.phase = "samples" /\ conns' = (conns \ {c}) \cup {d}
      /\ UNCHANGED <<link, polling, streams, supplements, samplesHeld, aux>>
  BY DEF HubAnswers, Moved
<1>1. c \in AttemptRecords /\ clock \in Instants
  BY DEF FlightType, SamplesType, Instants
<1>2. Before(atHub, c.since) \in SUBSET (1 .. clock)
  BY DEF Before, SamplesType
<1>3. /\ d \in AttemptRecords /\ d.phase = "answered" /\ d.epoch = c.epoch
      /\ d.from = clock /\ d.got \subseteq 1 .. clock
  BY <1>1, <1>2 DEF AttemptRecords
<1> HIDE DEF d
<1> USE DEF link, polling, samplesHeld, aux
<1>4. (SamplesType /\ FallbackIsOwed /\ SupplementsOK /\ StreamsOK)'
  BY <1>0 DEF SamplesType, Instants, FallbackIsOwed, SupplementsOK, StreamsOK, Stale, Dead,
              Whole, AskedBy, Coming, Before
<1>5. FlightType'
  <2>1. AttemptRecords' = AttemptRecords /\ StreamRecords' = StreamRecords
        /\ SupplementRecords' = SupplementRecords
    BY <1>0 DEF AttemptRecords, StreamRecords, SupplementRecords, Instants
  <2> QED
    BY <1>0, <1>3, <2>1 DEF FlightType
<1>6. WayOK'
  BY <1>0, <1>3 DEF WayOK, Stale, Dead
<1>7. PushOK'
  BY <1>0, <1>3 DEF PushOK, Stale
<1>8. BackfillOK'
  <2>1. Whole(clock) /\ AskedBy(clock)
    <3>1. \A y \in atHub : ~(clock < y)
      BY DEF SamplesType
    <3>2. \A b \in supplements : b.since <= clock
      BY DEF FlightType, SupplementRecords, Instants
    <3> QED
      BY <3>1, <3>2 DEF Whole, AskedBy
  <2> QED
    BY <1>0, <1>3, <2>1 DEF BackfillOK, Stale, Whole, AskedBy, Before
<1> QED
  BY <1>4, <1>5, <1>6, <1>7, <1>8

\* The settings change: what is in flight is of an earlier epoch.
LEMMA ConfigureOK ==
    ASSUME ClientOK, NEW on \in BOOLEAN, Configure(on)
    PROVE  ClientOK'
<1> USE DEF ClientOK
<1> DEFINE aborted == {[s EXCEPT !.aborted = TRUE] : s \in streams}
           first == Attempt(epoch + 1)
<1>0. /\ epoch' = epoch + 1 /\ config' = on /\ streams' = aborted /\ retryTimer' = FALSE
      /\ on => /\ state' = "connecting" /\ conns' = conns \cup {first}
               /\ UNCHANGED <<pollerSuspended, remote>>
      /\ ~on => /\ state' = "off" /\ UNCHANGED conns
                /\ pollerSuspended' = FALSE /\ remote' = FALSE
      /\ UNCHANGED <<pushUpFloor, supplements, atClient, atHub, clock, captured, owed, midPush>>
  BY DEF Configure, Connecting, RetryCleared, polling, samplesHeld, aux
<1>1. epoch \in Nat /\ epoch' \in Nat /\ clock \in Nat
  BY <1>0 DEF FlightType, SamplesType
<1>2. /\ \A x \in conns \cup supplements \cup streams : x.epoch \in 0 .. epoch
      /\ conns \subseteq AttemptRecords' /\ supplements \subseteq SupplementRecords'
  <2>1. \A x \in conns \cup supplements \cup streams : x.epoch \in 0 .. epoch
    BY DEF FlightType, AttemptRecords, SupplementRecords, StreamRecords
  <2>2. AttemptRecords \subseteq AttemptRecords' /\ SupplementRecords \subseteq SupplementRecords'
    BY <1>0, <1>1, Later
  <2> QED
    BY <2>1, <2>2 DEF FlightType
<1>3. \A s \in aborted : s \in StreamRecords' /\ s.aborted = TRUE
  <2>1. ASSUME NEW s \in streams
        PROVE  LET t == [s EXCEPT !.aborted = TRUE]
               IN  t \in StreamRecords /\ t.aborted = TRUE
    <3>1. s \in StreamRecords
      BY DEF FlightType
    <3> QED
      BY <3>1 DEF StreamRecords
  <2>2. StreamRecords \subseteq StreamRecords'
    BY <1>0, <1>1, Later
  <2> QED
    BY <2>1, <2>2
<1>4. first \in AttemptRecords' /\ first.epoch = epoch' /\ first.phase = "status"
  BY <1>0, <1>1 DEF Attempt, AttemptRecords, Instants
<1> HIDE DEF aborted, first
<1>5. (SamplesType /\ FallbackIsOwed)'
  BY <1>0 DEF SamplesType, Instants, FallbackIsOwed
<1>6. FlightType'
  BY <1>0, <1>1, <1>2, <1>3, <1>4 DEF FlightType
<1>7. \A s \in streams' : Dead(s)'
  BY <1>0, <1>3 DEF Dead
<1>8. /\ \A c \in conns' : c.epoch # epoch' \/ c = first
      /\ \A b \in supplements' : b.epoch # epoch'
  <2>1. \A x \in conns \cup supplements : x.epoch # epoch'
    BY <1>0, <1>1, <1>2
  <2>2. conns' \subseteq conns \cup {first}
    BY <1>0
  <2> QED
    BY <1>0, <2>1, <2>2
<1>9. WayOK'
  <2>1. CASE on
    BY <1>0, <1>4, <1>7, <1>8, <2>1 DEF WayOK, Stale
  <2>2. CASE ~on
    <3>1. \A x \in conns : x.epoch # epoch'
      BY <1>0, <1>1, <1>2, <2>2
    <3> QED
      BY <1>0, <1>7, <2>2, <3>1 DEF WayOK, Stale
  <2> QED
    BY <2>1, <2>2
<1>10. (PushOK /\ BackfillOK /\ SupplementsOK /\ StreamsOK)'
  BY <1>4, <1>7, <1>8 DEF PushOK, BackfillOK, SupplementsOK, StreamsOK, Stale
<1> QED
  BY <1>5, <1>6, <1>9, <1>10

\* The retry timer fires.
LEMMA RetryOK ==
    ASSUME ClientOK, Retry
    PROVE  ClientOK'
<1> USE DEF ClientOK
<1> DEFINE first == Attempt(epoch)
<1>0. /\ retryTimer /\ retryTimer' = FALSE /\ state' = "connecting" /\ config
      /\ conns' = conns \cup {first}
      /\ UNCHANGED <<config, epoch, pushUpFloor, pollerSuspended, remote, streams, supplements,
                     atClient, atHub, clock, captured, owed, midPush>>
  BY DEF Retry, Connecting, polling, samplesHeld, aux
<1>1. first \in AttemptRecords /\ first.epoch = epoch /\ first.phase = "status"
  BY DEF Attempt, AttemptRecords, Instants, FlightType, SamplesType
<1> HIDE DEF first
<1>2. (SamplesType /\ FallbackIsOwed /\ SupplementsOK /\ StreamsOK)'
  BY <1>0 DEF SamplesType, Instants, FallbackIsOwed, SupplementsOK, StreamsOK, Stale, Dead,
              Whole, AskedBy, Coming, Before
<1>3. FlightType'
  <2>1. AttemptRecords' = AttemptRecords /\ StreamRecords' = StreamRecords
        /\ SupplementRecords' = SupplementRecords
    BY <1>0 DEF AttemptRecords, StreamRecords, SupplementRecords, Instants
  <2> QED
    BY <1>0, <1>1, <2>1 DEF FlightType
<1>4. WayOK'
  BY <1>0, <1>1 DEF WayOK, Stale, Dead
<1>5. (PushOK /\ BackfillOK)'
  BY <1>0, <1>1 DEF PushOK, BackfillOK, Stale, Whole, AskedBy, Before
<1> QED
  BY <1>2, <1>3, <1>4, <1>5

\* A fall keeps the floor beneath all that is owed.
LEMMA FloorFalls ==
    ASSUME SamplesType, FallbackIsOwed
    PROVE  /\ FloorAfterFall \in {NoFloor} \cup Instants
           /\ \A s \in owed \ midPush :
                s \in atHub \/ (FloorAfterFall # NoFloor /\ FloorAfterFall < s)
<1>1. Tip(atClient) \in Instants /\ \A t \in Instants : t # NoFloor /\ t \in Nat
  BY TipsAre DEF SamplesType, Instants
<1>2. CASE Settled = "fallback" \/ pushUpFloor = NoFloor
  <2>1. FloorAfterFall = pushUpFloor \/ pushUpFloor = NoFloor
    BY <1>2 DEF FloorAfterFall
  <2>2. FloorAfterFall = pushUpFloor \/ FloorAfterFall = Tip(atClient)
    BY <1>2 DEF FloorAfterFall
  <2> QED
    BY <1>1, <2>1, <2>2 DEF FallbackIsOwed, SamplesType
<1>3. CASE Settled # "fallback" /\ pushUpFloor # NoFloor
  <2> DEFINE both == {pushUpFloor, Tip(atClient)}
  <2>1. both \in SUBSET Nat /\ both # {} /\ both \subseteq Instants /\ pushUpFloor \in both
    BY <1>1, <1>3 DEF SamplesType
  <2> HIDE DEF both
  <2>2. Min(both) \in both /\ Min(both) <= pushUpFloor
    BY <2>1, MinIs
  <2>3. FloorAfterFall = Min(both)
    BY <1>3 DEF FloorAfterFall, both
  <2>4. FloorAfterFall \in Instants /\ FloorAfterFall # NoFloor /\ pushUpFloor \in Nat
    BY <1>1, <2>1, <2>2, <2>3
  <2>5. ASSUME NEW s \in owed \ midPush, s \notin atHub
        PROVE  FloorAfterFall < s
    <3>1. pushUpFloor < s /\ s \in Nat
      BY <1>3, <2>5 DEF FallbackIsOwed, SamplesType
    <3> QED
      BY <1>1, <2>2, <2>3, <2>4, <3>1
  <2> QED
    BY <2>4, <2>5
<1> QED
  BY <1>2, <1>3

\* A request of an attempt fails.
LEMMA ConnectFailsOK ==
    ASSUME ClientOK, NEW c \in conns, ConnectFails(c)
    PROVE  ClientOK'
<1> USE DEF ClientOK
<1> DEFINE aborted == {[s EXCEPT !.aborted = TRUE] : s \in streams}
<1>0. /\ ~Stale(c) /\ conns' = conns \ {c} /\ state' = "fallback" /\ retryTimer' = TRUE
      /\ pollerSuspended' = FALSE /\ remote' = FALSE /\ pushUpFloor' = FloorAfterFall
      /\ streams' = aborted
      /\ UNCHANGED <<config, epoch, supplements, atClient, atHub, clock, captured, owed, midPush>>
  BY DEF ConnectFails, Fail, samplesHeld, aux
<1>1. \A s \in aborted : s \in StreamRecords /\ s.aborted = TRUE
  <2>1. ASSUME NEW s \in streams
        PROVE  LET t == [s EXCEPT !.aborted = TRUE]
               IN  t \in StreamRecords /\ t.aborted = TRUE
    <3>1. s \in StreamRecords
      BY DEF FlightType
    <3> QED
      BY <3>1 DEF StreamRecords
  <2> QED
    BY <2>1
<1> HIDE DEF aborted
<1>2. \A s \in streams' : Dead(s)'
  BY <1>0, <1>1 DEF Dead
<1>3. (SamplesType /\ FallbackIsOwed)'
  BY <1>0, FloorFalls DEF SamplesType, Instants, FallbackIsOwed
<1>4. FlightType'
  <2>1. AttemptRecords' = AttemptRecords /\ StreamRecords' = StreamRecords
        /\ SupplementRecords' = SupplementRecords
    BY <1>0 DEF AttemptRecords, StreamRecords, SupplementRecords, Instants
  <2> QED
    BY <1>0, <1>1, <2>1 DEF FlightType
<1>5. WayOK'
  BY <1>0, <1>2 DEF WayOK, Stale
<1>6. (PushOK /\ BackfillOK /\ SupplementsOK /\ StreamsOK)'
  BY <1>0, <1>2 DEF PushOK, BackfillOK, SupplementsOK, StreamsOK, Stale, Whole, AskedBy, Before
<1> QED
  BY <1>3, <1>4, <1>5, <1>6

\* The stream a connection opens.
StreamOf(c) == [epoch |-> epoch, aborted |-> FALSE, open |-> FALSE, frames |-> <<>>,
                swept |-> FALSE, hole |-> FALSE, from |-> c.from]

\* An attempt ends connected: its stream is the only thing under way.
LEMMA Connects ==
    ASSUME ClientOK, NEW c \in conns, ~Stale(c), Connected(c),
           UNCHANGED <<config, epoch, retryTimer>>
    PROVE  /\ WayOK' /\ conns' \subseteq conns /\ \A d \in conns' : Stale(d)'
           /\ StreamOf(c) \in StreamRecords /\ streams' = streams \cup {StreamOf(c)}
           /\ \A s \in streams : Dead(s)'
<1> USE DEF ClientOK
<1> DEFINE new == StreamOf(c)
<1>0. /\ state' = "connected" /\ pollerSuspended' = TRUE /\ remote' = TRUE
      /\ streams' = streams \cup {new} /\ conns' = conns \ {c}
  BY DEF Connected, HandPolling, StreamOf
<1>1. new \in StreamRecords /\ ~new.aborted /\ new.epoch = epoch
  <2>1. c.from \in Instants /\ epoch \in 0 .. epoch /\ <<>> \in Seq(Instants)
    BY DEF FlightType, AttemptRecords
  <2> QED
    BY <2>1 DEF StreamOf, StreamRecords
<1> HIDE DEF new
<1>2. \A s \in streams : Dead(s)'
  BY DEF WayOK, Dead, Stale
<1>3. \A d \in conns' : Stale(d)'
  BY <1>0 DEF WayOK, Stale
<1>4. WayOK'
  BY <1>0, <1>1, <1>2, <1>3 DEF WayOK, Dead, Stale
<1> QED
  BY <1>0, <1>1, <1>2, <1>3, <1>4 DEF new

\* A connection that opens has asked for what the Hub captured until its backfill.
LEMMA ConnectedOK ==
    ASSUME ClientOK, NEW c \in conns, ~Stale(c), Connected(c),
           UNCHANGED <<config, epoch, retryTimer, clock, supplements>>,
           SamplesType', FallbackIsOwed', SupplementsOK', Whole(c.from)', AskedBy(c.from)
    PROVE  ClientOK'
<1> USE DEF ClientOK
<1>1. /\ WayOK' /\ conns' \subseteq conns /\ \A d \in conns' : Stale(d)'
      /\ StreamOf(c) \in StreamRecords /\ streams' = streams \cup {StreamOf(c)}
      /\ \A s \in streams : Dead(s)'
  BY Connects
<1>2. StreamOf(c).swept = FALSE /\ StreamOf(c).frames = <<>> /\ StreamOf(c).from = c.from
  BY DEF StreamOf
<1>3. FlightType'
  <2>1. AttemptRecords' = AttemptRecords /\ StreamRecords' = StreamRecords
        /\ SupplementRecords' = SupplementRecords
    BY DEF AttemptRecords, StreamRecords, SupplementRecords, Instants
  <2> QED
    BY <1>1, <2>1 DEF FlightType
<1>4. (PushOK /\ BackfillOK)'
  BY <1>1 DEF PushOK, BackfillOK
<1>5. StreamsOK'
  <2>1. AskedBy(c.from)'
    BY DEF AskedBy, Stale
  <2>2. ASSUME NEW s \in streams', ~Dead(s)'
        PROVE  s.swept = FALSE /\ s.frames = <<>> /\ Whole(s.from)' /\ AskedBy(s.from)'
    BY <1>1, <1>2, <2>1, <2>2
  <2> QED
    BY <2>2 DEF StreamsOK
<1> QED
  BY <1>1, <1>3, <1>4, <1>5

\* The push takes along all that is owed.
LEMMA TodoIsOwed ==
    ASSUME SamplesType, FallbackIsOwed, NEW c \in AttemptRecords, NEW got
    PROVE  owed \ midPush \subseteq atHub \cup Before(atClient \cup got, Cutoff(c))
<1> SUFFICES ASSUME NEW s \in owed \ midPush, s \notin atHub
             PROVE  s \in Before(atClient \cup got, Cutoff(c))
  OBVIOUS
<1>1. s \in atClient /\ s \in Nat /\ pushUpFloor # NoFloor /\ pushUpFloor < s
  BY DEF SamplesType, FallbackIsOwed
<1>2. pushUpFloor \in Nat /\ c.cutoff \in Nat
  BY <1>1 DEF SamplesType, Instants, AttemptRecords
<1> DEFINE both == {c.cutoff, pushUpFloor}
<1>3. both \in SUBSET Nat /\ both # {} /\ pushUpFloor \in both
  BY <1>2
<1> HIDE DEF both
<1>4. Min(both) \in Nat /\ Min(both) <= pushUpFloor
  BY <1>3, MinIs
<1>5. Cutoff(c) = Min(both)
  BY <1>1 DEF Cutoff, both
<1>6. s > Cutoff(c)
  BY <1>1, <1>2, <1>4, <1>5
<1> QED
  BY <1>1, <1>6 DEF Before

\* The backfill is merged.
LEMMA BackfilledOK ==
    ASSUME ClientOK, NEW c \in conns, Backfilled(c)
    PROVE  ClientOK'
<1> USE DEF ClientOK
<1> DEFINE lacking == Before(atClient \cup c.got, Cutoff(c))
           d == [c EXCEPT !.phase = "pushing", !.todo = lacking]
<1>0. /\ ~Stale(c) /\ c.phase = "answered" /\ atClient' = atClient \cup c.got
      /\ \/ lacking = {} /\ Connected(c)
         \/ /\ lacking # {} /\ conns' = (conns \ {c}) \cup {d}
            /\ UNCHANGED <<state, pollerSuspended, remote, streams>>
      /\ UNCHANGED <<config, epoch, retryTimer, pushUpFloor, supplements, atHub, clock, captured,
                     owed, midPush>>
  BY DEF Backfilled, Moved, polling, aux
<1>1. c \in AttemptRecords /\ c.got \subseteq 1 .. clock /\ c.got \subseteq 1 .. c.from
      /\ c.from \in Nat
  BY <1>0 DEF FlightType, AttemptRecords, BackfillOK, Instants
<1>2. lacking \subseteq atClient' /\ lacking \in SUBSET (1 .. clock)
  BY <1>0, <1>1 DEF Before, SamplesType
<1>3. owed \ midPush \subseteq atHub \cup lacking
  BY <1>1, TodoIsOwed
<1>4. d \in AttemptRecords /\ d.phase = "pushing" /\ d.epoch = c.epoch /\ d.from = c.from
      /\ d.todo = lacking
  BY <1>1, <1>2 DEF AttemptRecords
<1> HIDE DEF lacking, d
<1>5. SamplesType'
  BY <1>0, <1>1 DEF SamplesType, Instants
<1>6. (FallbackIsOwed /\ SupplementsOK)'
  BY <1>0 DEF FallbackIsOwed, SupplementsOK, Stale
<1>7. ASSUME NEW t \in Nat, c.from <= t, Whole(t) PROVE Whole(t)'
  <2> SUFFICES ASSUME Before(captured, t)' = {}, NEW x \in atClient', NEW y \in atHub', t < y,
                      y <= x
               PROVE  y \in atClient'
    BY DEF Whole
  <2>1. CASE x \in atClient
    BY <1>0, <1>7, <2>1 DEF Whole, Before
  <2>2. CASE x \in c.got
    BY <1>0, <1>1, <1>7, <2>2 DEF SamplesType
  <2> QED
    BY <1>0, <2>1, <2>2
<1>8. Whole(c.from) /\ AskedBy(c.from) /\ Whole(c.from)'
  BY <1>0, <1>1, <1>7 DEF BackfillOK
<1>9. CASE Connected(c)
  BY <1>0, <1>5, <1>6, <1>8, <1>9, ConnectedOK
<1>10. CASE /\ lacking # {} /\ conns' = (conns \ {c}) \cup {d}
            /\ UNCHANGED <<state, pollerSuspended, remote, streams>>
  <2>1. FlightType'
    <3>1. AttemptRecords' = AttemptRecords /\ StreamRecords' = StreamRecords
          /\ SupplementRecords' = SupplementRecords
      BY <1>0 DEF AttemptRecords, StreamRecords, SupplementRecords, Instants
    <3> QED
      BY <1>0, <1>4, <1>10, <3>1 DEF FlightType
  <2>2. \A e \in conns' : Stale(e)' \/ e = d
    BY <1>0, <1>10 DEF WayOK, Stale
  <2>3. \A s \in streams' : Dead(s)'
    BY <1>0, <1>10 DEF WayOK, Dead, Stale
  <2>4. WayOK'
    BY <1>0, <1>4, <1>10, <2>3 DEF WayOK, Stale, Dead
  <2>5. PushOK'
    BY <1>0, <1>2, <1>3, <1>4, <1>10, <2>2 DEF PushOK
  <2>6. BackfillOK'
    <3>1. AskedBy(c.from)'
      BY <1>0, <1>8 DEF AskedBy, Stale
    <3> QED
      BY <1>4, <1>8, <2>2, <3>1 DEF BackfillOK
  <2>7. StreamsOK'
    BY <2>3 DEF StreamsOK
  <2> QED
    BY <1>5, <1>6, <2>1, <2>4, <2>5, <2>6, <2>7
<1> QED
  BY <1>0, <1>9, <1>10

\* What a push puts on the Hub is held here.
LEMMA PushedKeeps ==
    ASSUME ClientOK, NEW s \in atClient, atHub' \subseteq atHub \cup {s},
           UNCHANGED <<epoch, atClient, captured, supplements>>
    PROVE  /\ SupplementsOK'
           /\ \A t \in Nat : Whole(t) => Whole(t)' /\ (AskedBy(t) => AskedBy(t)')
<1> USE DEF ClientOK
<1>1. SupplementsOK'
  BY DEF SupplementsOK, Stale
<1>2. ASSUME NEW t \in Nat, Whole(t) PROVE Whole(t)'
  BY <1>2 DEF Whole, Before
<1>3. ASSUME NEW t \in Nat, AskedBy(t) PROVE AskedBy(t)'
  BY <1>3 DEF AskedBy, Stale
<1> QED
  BY <1>1, <1>2, <1>3

\* The oldest batch of a push is acknowledged.
LEMMA PushAckedOK ==
    ASSUME ClientOK, NEW c \in conns, PushAcked(c)
    PROVE  ClientOK'
<1> USE DEF ClientOK
<1> DEFINE first == Min(c.todo)
           rest == c.todo \ {first}
           d == [c EXCEPT !.todo = rest]
<1>0. /\ ~Stale(c) /\ c.phase = "pushing" /\ atHub' = atHub \cup {first}
      /\ pushUpFloor' = IF rest = {} THEN NoFloor ELSE first
      /\ \/ c.todo = {first} /\ Connected(c)
         \/ /\ c.todo # {first} /\ conns' = (conns \ {c}) \cup {d}
            /\ UNCHANGED <<state, pollerSuspended, remote, streams>>
      /\ UNCHANGED <<config, epoch, retryTimer, supplements, atClient, clock, captured, owed,
                     midPush>>
  BY Zenon DEF PushAcked, FloorAfter, Moved, polling, aux
<1>1. c \in AttemptRecords /\ c.todo \in SUBSET (1 .. clock) /\ c.from \in Nat /\ clock \in Nat
  BY DEF FlightType, AttemptRecords, Instants, SamplesType
<1>2. c.todo # {} /\ c.todo \subseteq atClient /\ owed \ midPush \subseteq atHub \cup c.todo
  BY <1>0 DEF PushOK
<1>3. first \in c.todo /\ \A x \in c.todo : first <= x
  <2>1. c.todo \in SUBSET Nat
    BY <1>1
  <2> QED
    BY <1>2, <2>1, MinIs
<1>4. d \in AttemptRecords /\ d.phase = c.phase /\ d.epoch = c.epoch /\ d.from = c.from
      /\ d.todo = rest
  BY <1>1 DEF AttemptRecords
<1> HIDE DEF first, d
<1>5. SamplesType'
  <2>1. first \in 1 .. clock /\ first \in Instants
    BY <1>1, <1>3 DEF Instants
  <2>2. pushUpFloor' \in {NoFloor} \cup Instants
    BY <1>0, <2>1
  <2> QED
    BY <1>0, <2>1, <2>2 DEF SamplesType, Instants
<1>6. FallbackIsOwed'
  <2> SUFFICES ASSUME NEW x \in owed \ midPush, x \notin atHub, x # first
               PROVE  rest # {} /\ first # NoFloor /\ first < x
    BY <1>0 DEF FallbackIsOwed
  <2>1. x \in c.todo /\ x \in rest
    BY <1>2
  <2>2. first <= x /\ first \in 1 .. clock /\ x \in 1 .. clock
    BY <1>1, <1>3, <2>1
  <2>3. first # NoFloor
    BY <2>2 DEF SamplesType
  <2> QED
    BY <2>1, <2>2, <2>3
<1>7. /\ SupplementsOK'
      /\ \A t \in Nat : Whole(t) => Whole(t)' /\ (AskedBy(t) => AskedBy(t)')
  <2>1. first \in atClient /\ atHub' \subseteq atHub \cup {first}
    BY <1>0, <1>2, <1>3
  <2> QED
    BY <1>0, <2>1, PushedKeeps
<1>8. Whole(c.from) /\ AskedBy(c.from)
  BY <1>0 DEF BackfillOK
<1>9. Whole(c.from)' /\ AskedBy(c.from)'
  BY <1>1, <1>7, <1>8
<1>10. CASE Connected(c)
  BY <1>0, <1>5, <1>6, <1>7, <1>8, <1>9, <1>10, ConnectedOK
<1>11. CASE /\ c.todo # {first} /\ conns' = (conns \ {c}) \cup {d}
            /\ UNCHANGED <<state, pollerSuspended, remote, streams>>
  <2>1. FlightType'
    <3>1. AttemptRecords' = AttemptRecords /\ StreamRecords' = StreamRecords
          /\ SupplementRecords' = SupplementRecords
      BY <1>0 DEF AttemptRecords, StreamRecords, SupplementRecords, Instants
    <3> QED
      BY <1>0, <1>4, <1>11, <3>1 DEF FlightType
  <2>2. \A e \in conns' : Stale(e)' \/ e = d
    BY <1>0, <1>11 DEF WayOK, Stale
  <2>3. \A s \in streams' : Dead(s)'
    BY <1>0, <1>11 DEF WayOK, Dead, Stale
  <2>4. WayOK'
    BY <1>0, <1>4, <1>11, <2>3 DEF WayOK, Stale, Dead
  <2>5. PushOK'
    BY <1>0, <1>2, <1>3, <1>4, <1>11, <2>2 DEF PushOK
  <2>6. BackfillOK'
    BY <1>0, <1>4, <1>9, <2>2 DEF BackfillOK
  <2>7. StreamsOK'
    BY <2>3 DEF StreamsOK
  <2> QED
    BY <1>5, <1>6, <1>7, <2>1, <2>4, <2>5, <2>6, <2>7
<1> QED
  BY <1>0, <1>10, <1>11

\* A batch is refused, or its answer is lost.
LEMMA PushFailsOK ==
    ASSUME ClientOK, NEW c \in conns, PushFails(c)
    PROVE  ClientOK'
<1> USE DEF ClientOK
<1> DEFINE first == Min(c.todo)
<1>0. /\ ~Stale(c) /\ c.phase = "pushing" /\ Connected(c)
      /\ atHub' \in {atHub, atHub \cup {first}}
      /\ UNCHANGED <<config, epoch, retryTimer, pushUpFloor, supplements, atClient, clock, captured,
                     owed, midPush>>
  BY DEF PushFails, aux
<1>1. c.todo \in SUBSET (1 .. clock) /\ c.from \in Nat /\ clock \in Nat
  BY DEF FlightType, AttemptRecords, Instants, SamplesType
<1>2. c.todo # {} /\ c.todo \subseteq atClient
  BY <1>0 DEF PushOK
<1>3. first \in c.todo
  <2>1. c.todo \in SUBSET Nat
    BY <1>1
  <2> QED
    BY <1>2, <2>1, MinIs
<1> HIDE DEF first
<1>4. (SamplesType /\ FallbackIsOwed)'
  BY <1>0, <1>1, <1>3 DEF SamplesType, FallbackIsOwed, Instants
<1>5. /\ SupplementsOK'
      /\ \A t \in Nat : Whole(t) => Whole(t)' /\ (AskedBy(t) => AskedBy(t)')
  <2>1. first \in atClient /\ atHub' \subseteq atHub \cup {first}
    BY <1>0, <1>2, <1>3
  <2> QED
    BY <1>0, <2>1, PushedKeeps
<1>6. Whole(c.from) /\ AskedBy(c.from) /\ Whole(c.from)'
  BY <1>0, <1>1, <1>5 DEF BackfillOK
<1> QED
  BY <1>0, <1>4, <1>5, <1>6, ConnectedOK

-------------------------------------------------------------------------------
(* Streams *)

\* A stream of an earlier configuration, or aborted, ends.
LEMMA StreamUnwindsOK ==
    ASSUME ClientOK, NEW s \in streams, StreamUnwinds(s)
    PROVE  ClientOK'
<1> USE DEF ClientOK
<1>0. /\ Dead(s) /\ streams' = streams \ {s}
      /\ UNCHANGED <<link, polling, conns, supplements, samplesHeld, aux>>
  BY DEF StreamUnwinds
<1> USE DEF link, polling, samplesHeld, aux
<1>1. (SamplesType /\ FallbackIsOwed /\ SupplementsOK /\ PushOK /\ BackfillOK)'
  BY <1>0 DEF SamplesType, Instants, FallbackIsOwed, SupplementsOK, PushOK, BackfillOK, Stale,
              Whole, AskedBy, Before
<1>2. FlightType'
  BY <1>0 DEF FlightType, AttemptRecords, StreamRecords, SupplementRecords, Instants
<1>3. WayOK'
  BY <1>0 DEF WayOK, Stale, Dead
<1>4. StreamsOK'
  BY <1>0 DEF StreamsOK, Dead, Stale, Whole, AskedBy, Coming, Before
<1> QED
  BY <1>1, <1>2, <1>3, <1>4

\* The live stream is lost.
LEMMA StreamLostOK ==
    ASSUME ClientOK, NEW s \in streams, StreamLost(s)
    PROVE  ClientOK'
<1> USE DEF ClientOK
<1>0. /\ ~Dead(s) /\ streams' = streams \ {s} /\ state' = "fallback" /\ retryTimer' = TRUE
      /\ pollerSuspended' = FALSE /\ remote' = FALSE /\ pushUpFloor' = FloorAfterFall
      /\ UNCHANGED <<config, epoch, conns, supplements, atClient, atHub, clock, captured, owed,
                     midPush>>
  BY DEF StreamLost, Fail, Dead, samplesHeld, aux
<1>1. (SamplesType /\ FallbackIsOwed)'
  BY <1>0, FloorFalls DEF SamplesType, Instants, FallbackIsOwed
<1>2. FlightType'
  BY <1>0 DEF FlightType, AttemptRecords, StreamRecords, SupplementRecords, Instants
<1>3. WayOK'
  BY <1>0 DEF WayOK, Stale, Dead
<1>4. (PushOK /\ BackfillOK /\ SupplementsOK)'
  BY <1>0 DEF PushOK, BackfillOK, SupplementsOK, Stale, Whole, AskedBy, Before
<1>5. StreamsOK'
  BY <1>0 DEF StreamsOK, WayOK, Dead, Stale
<1> QED
  BY <1>1, <1>2, <1>3, <1>4, <1>5

\* The Hub subscribes a stream.
LEMMA StreamOpensOK ==
    ASSUME ClientOK, NEW s \in streams, StreamOpens(s)
    PROVE  ClientOK'
<1> USE DEF ClientOK
<1> DEFINE t == [s EXCEPT !.open = TRUE, !.frames = <<0>>]
<1>0. /\ ~s.open /\ streams' = (streams \ {s}) \cup {t}
      /\ UNCHANGED <<link, polling, conns, supplements, samplesHeld, aux>>
  BY DEF StreamOpens, Replaced
<1>1. s \in StreamRecords /\ <<0>> \in Seq(Instants)
  BY DEF FlightType, SamplesType, Instants
<1>2. /\ t \in StreamRecords /\ t.epoch = s.epoch /\ t.aborted = s.aborted /\ t.open = TRUE
      /\ t.swept = s.swept /\ t.from = s.from /\ t.hole = s.hole
  BY <1>1 DEF StreamRecords
<1> HIDE DEF t
<1> USE DEF link, polling, samplesHeld, aux
<1>3. (SamplesType /\ FallbackIsOwed /\ SupplementsOK /\ PushOK /\ BackfillOK)'
  BY <1>0 DEF SamplesType, Instants, FallbackIsOwed, SupplementsOK, PushOK, BackfillOK, Stale,
              Whole, AskedBy, Before
<1>4. FlightType'
  <2>1. AttemptRecords' = AttemptRecords /\ StreamRecords' = StreamRecords
        /\ SupplementRecords' = SupplementRecords
    BY <1>0 DEF AttemptRecords, StreamRecords, SupplementRecords, Instants
  <2> QED
    BY <1>0, <1>2, <2>1 DEF FlightType
<1>5. WayOK'
  BY <1>0, <1>2 DEF WayOK, Stale, Dead
<1>6. StreamsOK'
  <2>1. ASSUME NEW u \in streams', ~Dead(u)'
        PROVE  (u \in streams /\ ~Dead(u)) \/ (u = t /\ ~Dead(s) /\ s.swept = FALSE)
    <3>1. CASE u \in streams
      BY <1>0, <2>1, <3>1 DEF Dead, Stale
    <3>2. CASE u = t
      <4>1. ~Dead(s)
        BY <1>0, <1>2, <2>1, <3>2 DEF Dead, Stale
      <4> QED
        BY <1>0, <1>1, <3>2, <4>1 DEF StreamsOK, StreamRecords
    <3> QED
      BY <1>0, <3>1, <3>2
  <2>2. \A n : Whole(n)' = Whole(n) /\ AskedBy(n)' = AskedBy(n)
    BY <1>0 DEF Whole, AskedBy, Stale, Before
  <2>3. \A u, y : Coming(u, y) => Coming(u, y)'
    BY <1>0 DEF Coming
  <2> QED
    BY <1>0, <1>2, <2>1, <2>2, <2>3 DEF StreamsOK, Before
<1> QED
  BY <1>3, <1>4, <1>5, <1>6

\* A frame of the live stream is handled.
LEMMA FrameOK ==
    ASSUME ClientOK, NEW s \in streams, Frame(s)
    PROVE  ClientOK'
<1> USE DEF ClientOK
<1> DEFINE f == Head(s.frames)
           t == [s EXCEPT !.frames = Tail(@), !.swept = TRUE]
           sweep == [epoch |-> epoch, since |-> Tip(atClient), got |-> {}, answered |-> FALSE,
                     of |-> s.from]
<1>0. /\ ~Dead(s) /\ s.frames # <<>>
      /\ atClient' = (IF f = 0 THEN atClient ELSE atClient \cup {f}) /\ remote' = (remote \/ f = 0)
      /\ supplements' = supplements \cup (IF s.swept THEN {} ELSE {sweep})
      /\ streams' = (streams \ {s}) \cup {t}
      /\ UNCHANGED <<link, pollerSuspended, conns, atHub, clock, aux>>
  BY DEF Frame, Resweep, Replaced
<1>1. /\ s \in StreamRecords /\ s.frames \in Seq(Instants) /\ s.from \in Instants
      /\ s.epoch \in 0 .. epoch /\ clock \in Nat
  BY DEF FlightType, SamplesType, StreamRecords
<1>2. /\ f \in Instants /\ Tail(s.frames) \in Seq(Instants)
      /\ \A i \in DOMAIN s.frames :
           s.frames[i] = f \/ \E j \in DOMAIN Tail(s.frames) : Tail(s.frames)[j] = s.frames[i]
  <2>1. /\ f \in Instants /\ Tail(s.frames) \in Seq(Instants) /\ f = s.frames[1]
        /\ Len(Tail(s.frames)) = Len(s.frames) - 1
        /\ \A j \in 1 .. Len(s.frames) - 1 : Tail(s.frames)[j] = s.frames[j + 1]
    BY <1>0, <1>1, HeadTailProperties
  <2>2. ASSUME NEW i \in DOMAIN s.frames, i # 1
        PROVE  \E j \in DOMAIN Tail(s.frames) : Tail(s.frames)[j] = s.frames[i]
    <3>1. DOMAIN s.frames = 1 .. Len(s.frames) /\ Len(s.frames) \in Nat
          /\ DOMAIN Tail(s.frames) = 1 .. Len(Tail(s.frames))
      BY <1>1, <2>1, LenProperties
    <3>2. i - 1 \in 1 .. Len(s.frames) - 1 /\ i - 1 \in DOMAIN Tail(s.frames)
      BY <2>1, <2>2, <3>1
    <3>3. Tail(s.frames)[i - 1] = s.frames[(i - 1) + 1] /\ (i - 1) + 1 = i
      BY <2>1, <3>1, <3>2
    <3> QED
      BY <3>2, <3>3
  <2> QED
    BY <2>1, <2>2
<1>3. /\ t \in StreamRecords /\ t.epoch = s.epoch /\ t.aborted = s.aborted /\ t.open = s.open
      /\ t.swept = TRUE /\ t.from = s.from /\ t.hole = s.hole /\ t.frames = Tail(s.frames)
  BY <1>1, <1>2 DEF StreamRecords
<1>4. sweep \in SupplementRecords
  BY <1>1, TipsAre DEF SupplementRecords, FlightType
<1>5. /\ sweep.epoch = epoch /\ sweep.of = s.from /\ sweep.answered = FALSE
      /\ sweep.since = Tip(atClient)
  OBVIOUS
<1> HIDE DEF f, t, sweep
<1>6. state = "connected" /\ s.epoch = epoch /\ s.open /\ \A c \in conns : Stale(c)
  BY <1>0 DEF WayOK, Dead, Stale, StreamsOK
<1> USE DEF link, samplesHeld, aux
<1>7. atClient \subseteq atClient' /\ atClient' \subseteq 1 .. clock /\ (f # 0 => f \in atClient')
  <2>1. f # 0 => f \in 1 .. clock
    BY <1>1, <1>2 DEF Instants
  <2>2. atClient \subseteq 1 .. clock
    BY DEF SamplesType
  <2> QED
    BY <1>0, <2>1, <2>2
<1>8. (SamplesType /\ FallbackIsOwed)'
  BY <1>0, <1>7 DEF SamplesType, Instants, FallbackIsOwed
<1>9. FlightType'
  <2>1. AttemptRecords' = AttemptRecords /\ StreamRecords' = StreamRecords
        /\ SupplementRecords' = SupplementRecords
    BY <1>0 DEF AttemptRecords, StreamRecords, SupplementRecords, Instants
  <2> QED
    BY <1>0, <1>3, <1>4, <2>1 DEF FlightType
<1>10. remote' = TRUE /\ pollerSuspended' = TRUE
  BY <1>0, <1>6 DEF WayOK
<1>11. WayOK'
  BY <1>0, <1>3, <1>6, <1>10 DEF WayOK, Stale, Dead
<1>12. (PushOK /\ BackfillOK)'
  BY <1>0, <1>6 DEF PushOK, BackfillOK, Stale
<1>13. SupplementsOK'
  BY <1>0, <1>5, <1>7 DEF SupplementsOK, Stale
<1>14. StreamsOK'
  <2>1. \A u \in streams' : Dead(u)' \/ u = t
    BY <1>0 DEF WayOK, Dead, Stale
  <2> SUFFICES ASSUME ~t.hole, Before(captured, t.from) = {}, NEW y \in atHub, t.from < y
               PROVE  Coming(t, y)'
    BY <1>0, <1>3, <1>6, <2>1 DEF StreamsOK, Before
  <2>2. CASE y \in atClient
    BY <1>7, <2>2 DEF Coming
  <2>3. CASE y \notin atClient /\ ~s.swept
    <3>1. Tip(atClient) \in atClient \cup {0} /\ Tip(atClient) \in Instants
      BY TipsAre
    <3>2. Tip(atClient) < y
      <4>1. CASE Tip(atClient) \in atClient
        BY <1>0, <1>3, <2>3, <3>1, <4>1 DEF StreamsOK, Whole, SamplesType, Instants
      <4>2. CASE Tip(atClient) = 0
        BY <4>2 DEF SamplesType
      <4> QED
        BY <3>1, <4>1, <4>2
    <3>3. sweep \in supplements'
      BY <1>0, <2>3
    <3> QED
      BY <1>3, <1>5, <1>6, <3>2, <3>3 DEF Coming
  <2>4. CASE y \notin atClient /\ s.swept
    <3>1. Coming(s, y)
      BY <1>0, <1>3, <2>4 DEF StreamsOK
    <3>2. CASE \E i \in DOMAIN s.frames : s.frames[i] = y
      <4>1. y # 0
        BY DEF SamplesType
      <4> QED
        BY <1>2, <1>3, <1>7, <3>2, <4>1 DEF Coming
    <3>3. CASE \E b \in supplements : /\ b.epoch = s.epoch /\ b.of = s.from
                                      /\ IF b.answered THEN y \in b.got ELSE b.since < y
      BY <1>0, <1>3, <3>3 DEF Coming
    <3> QED
      BY <2>4, <3>1, <3>2, <3>3 DEF Coming
  <2> QED
    BY <2>2, <2>3, <2>4
<1> QED
  BY <1>8, <1>9, <1>11, <1>12, <1>13, <1>14

-------------------------------------------------------------------------------
(* Supplements *)

\* The Hub answers a supplement with what it holds.
LEMMA SupplementAnsweredOK ==
    ASSUME ClientOK, NEW b \in supplements, SupplementAnswered(b)
    PROVE  ClientOK'
<1> USE DEF ClientOK
<1> DEFINE a == [b EXCEPT !.answered = TRUE, !.got = Before(atHub, b.since)]
<1>0. /\ ~b.answered /\ supplements' = (supplements \ {b}) \cup {a}
      /\ UNCHANGED <<link, polling, conns, streams, samplesHeld, aux>>
  BY DEF SupplementAnswered
<1>1. b \in SupplementRecords /\ Before(atHub, b.since) \in SUBSET (1 .. clock)
  BY DEF FlightType, SamplesType, Before
<1>2. /\ a \in SupplementRecords /\ a.epoch = b.epoch /\ a.of = b.of /\ a.since = b.since
      /\ a.answered = TRUE /\ a.got = Before(atHub, b.since)
  BY <1>1 DEF SupplementRecords
<1> HIDE DEF a
<1> USE DEF link, polling, samplesHeld, aux
<1>3. (SamplesType /\ FallbackIsOwed /\ PushOK)'
  BY <1>0 DEF SamplesType, Instants, FallbackIsOwed, PushOK, Stale
<1>4. FlightType'
  <2>1. AttemptRecords' = AttemptRecords /\ StreamRecords' = StreamRecords
        /\ SupplementRecords' = SupplementRecords
    BY <1>0 DEF AttemptRecords, StreamRecords, SupplementRecords, Instants
  <2> QED
    BY <1>0, <1>2, <2>1 DEF FlightType
<1>5. WayOK'
  BY <1>0 DEF WayOK, Stale, Dead
<1>6. \A n : Whole(n)' = Whole(n) /\ (AskedBy(n) => AskedBy(n)')
  BY <1>0, <1>2 DEF Whole, AskedBy, Stale, Before
<1>7. BackfillOK'
  BY <1>0, <1>6 DEF BackfillOK, Stale
<1>8. SupplementsOK'
  BY <1>0, <1>2 DEF SupplementsOK, Stale, Before
<1>9. ASSUME NEW s, NEW y \in atHub, Coming(s, y) PROVE Coming(s, y)'
  <2>1. a \in supplements' /\ \A o \in supplements : o = b \/ o \in supplements'
    BY <1>0
  <2>2. b.since < y => y \in a.got
    BY <1>1, <1>2 DEF Before, SupplementRecords, Instants, SamplesType
  <2> QED
    BY <1>0, <1>2, <1>9, <2>1, <2>2 DEF Coming
<1>10. StreamsOK'
  BY <1>0, <1>6, <1>9 DEF StreamsOK, Dead, Stale, Before
<1> QED
  BY <1>3, <1>4, <1>5, <1>7, <1>8, <1>10

\* The answer of a supplement is merged, unless it is of an earlier configuration.
LEMMA SupplementReadOK ==
    ASSUME ClientOK, NEW b \in supplements, SupplementRead(b)
    PROVE  ClientOK'
<1> USE DEF ClientOK
<1>0. /\ b.answered /\ supplements' = supplements \ {b}
      /\ atClient' = IF Stale(b) THEN atClient ELSE atClient \cup b.got
      /\ UNCHANGED <<link, polling, conns, streams, atHub, clock, aux>>
  BY DEF SupplementRead
<1>1. b \in SupplementRecords /\ b.got \subseteq 1 .. clock /\ b.since \in Nat
  BY DEF FlightType, SupplementRecords, Instants
<1> USE DEF link, polling, samplesHeld, aux
<1>2. (SamplesType /\ FallbackIsOwed /\ PushOK)'
  BY <1>0, <1>1 DEF SamplesType, Instants, FallbackIsOwed, PushOK, Stale
<1>3. FlightType'
  BY <1>0 DEF FlightType, AttemptRecords, StreamRecords, SupplementRecords, Instants
<1>4. WayOK'
  BY <1>0 DEF WayOK, Stale, Dead
<1>5. ASSUME NEW n \in Instants, Whole(n), AskedBy(n) PROVE Whole(n)' /\ AskedBy(n)'
  <2>1. AskedBy(n)'
    BY <1>0, <1>5 DEF AskedBy, Stale
  <2>2. ASSUME Before(captured, n) = {}, NEW x \in atClient', NEW y \in atHub, n < y, y <= x
        PROVE  y \in atClient'
    <3>1. CASE x \in atClient
      BY <1>0, <1>5, <2>2, <3>1 DEF Whole
    <3>2. CASE x \in b.got /\ ~Stale(b)
      <4>1. b.since < y
        <5>1. b.since <= n
          BY <1>5, <3>2 DEF AskedBy
        <5>2. n \in Nat /\ y \in Nat
          BY DEF Instants, SamplesType
        <5> QED
          BY <1>1, <2>2, <5>1, <5>2
      <4> QED
        BY <1>0, <2>2, <3>2, <4>1 DEF SupplementsOK
    <3> QED
      BY <1>0, <2>2, <3>1, <3>2
  <2> QED
    BY <1>0, <2>1, <2>2 DEF Whole, Before
<1>6. BackfillOK'
  <2>1. \A c \in conns : c.from \in Instants
    BY DEF FlightType, AttemptRecords
  <2> QED
    BY <1>0, <1>5, <2>1 DEF BackfillOK, Stale
<1>7. SupplementsOK'
  BY <1>0 DEF SupplementsOK, Stale
<1>8. ASSUME NEW s \in streams, ~Dead(s), NEW y, Coming(s, y) PROVE Coming(s, y)'
  <2>1. b.epoch = s.epoch => ~Stale(b)
    BY <1>8 DEF Dead, Stale
  <2> QED
    BY <1>0, <1>8, <2>1 DEF Coming
<1>9. StreamsOK'
  <2>1. \A s \in streams : s.from \in Instants
    BY DEF FlightType, StreamRecords
  <2> QED
    BY <1>0, <1>5, <1>8, <2>1 DEF StreamsOK, Dead, Stale, Before
<1> QED
  BY <1>2, <1>3, <1>4, <1>6, <1>7, <1>9

\* A supplement fails: it is gone, and its stream has a hole.
LEMMA SupplementFailsOK ==
    ASSUME ClientOK, NEW b \in supplements, SupplementFails(b)
    PROVE  ClientOK'
<1> USE DEF ClientOK
<1> DEFINE Now(s) == IF s.epoch = b.epoch /\ s.from = b.of THEN [s EXCEPT !.hole = TRUE] ELSE s
<1>0. /\ supplements' = supplements \ {b} /\ streams' = {Now(s) : s \in streams}
      /\ UNCHANGED <<link, polling, conns, samplesHeld, aux>>
  BY DEF SupplementFails
<1>1. ASSUME NEW s \in streams
      PROVE  /\ Now(s) \in StreamRecords /\ Now(s).epoch = s.epoch /\ Now(s).open = s.open
             /\ Now(s).aborted = s.aborted /\ Now(s).swept = s.swept /\ Now(s).from = s.from
             /\ Now(s).frames = s.frames
             /\ ~Now(s).hole => ~s.hole /\ ~(s.epoch = b.epoch /\ s.from = b.of)
  <2>1. s \in StreamRecords
    BY DEF FlightType
  <2> QED
    BY <2>1 DEF StreamRecords
<1> HIDE DEF Now
<1> USE DEF link, polling, samplesHeld, aux
<1>2. (SamplesType /\ FallbackIsOwed /\ PushOK)'
  BY <1>0 DEF SamplesType, Instants, FallbackIsOwed, PushOK, Stale
<1>3. FlightType'
  <2>1. AttemptRecords' = AttemptRecords /\ StreamRecords' = StreamRecords
        /\ SupplementRecords' = SupplementRecords
    BY <1>0 DEF AttemptRecords, StreamRecords, SupplementRecords, Instants
  <2> QED
    BY <1>0, <1>1, <2>1 DEF FlightType
<1>4. WayOK'
  BY <1>0, <1>1 DEF WayOK, Stale, Dead
<1>5. \A n : Whole(n)' = Whole(n) /\ (AskedBy(n) => AskedBy(n)')
  BY <1>0 DEF Whole, AskedBy, Stale, Before
<1>6. (BackfillOK /\ SupplementsOK)'
  BY <1>0, <1>5 DEF BackfillOK, SupplementsOK, Stale
<1>7. StreamsOK'
  <2> SUFFICES ASSUME NEW s \in streams, ~Dead(Now(s))'
               PROVE  /\ s.swept \/ s.frames # <<>> => s.open
                      /\ ~s.swept => Whole(s.from)' /\ AskedBy(s.from)'
                      /\ s.swept /\ ~Now(s).hole /\ Before(captured, s.from) = {} =>
                           \A y \in atHub : s.from < y => Coming(Now(s), y)'
    BY <1>0, <1>1 DEF StreamsOK, Before
  <2>1. ~Dead(s)
    BY <1>0, <1>1 DEF Dead, Stale
  <2>2. ASSUME NEW y, Coming(s, y), ~Now(s).hole PROVE Coming(Now(s), y)'
    BY <1>0, <1>1, <2>2 DEF Coming
  <2> QED
    BY <1>0, <1>1, <1>5, <2>1, <2>2 DEF StreamsOK
<1> QED
  BY <1>2, <1>3, <1>4, <1>6, <1>7

-------------------------------------------------------------------------------
(* Pollers *)

\* The local poller captures a sample: no stream is live.
LEMMA LocalPollOK ==
    ASSUME ClientOK, LocalPoll
    PROVE  ClientOK'
<1> USE DEF ClientOK
<1> DEFINE pushing == \E c \in conns : ~Stale(c) /\ c.phase = "pushing"
<1>0. /\ ~pollerSuspended /\ ~remote /\ clock < MaxTime /\ clock' = clock + 1
      /\ atClient' = atClient \cup {clock + 1} /\ captured' = captured \cup {clock + 1}
      /\ owed' = (IF pushUpFloor # NoFloor THEN owed \cup {clock + 1} ELSE owed)
      /\ midPush' = (IF pushing THEN midPush \cup {clock + 1} ELSE midPush)
      /\ UNCHANGED <<link, polling, conns, streams, supplements, atHub>>
  BY DEF LocalPoll, Tick
<1>1. clock \in Nat /\ clock' \in 0 .. MaxTime /\ epoch \in Nat /\ epoch' = epoch
  BY <1>0 DEF SamplesType, FlightType, link
<1> HIDE DEF pushing
<1> USE DEF link, polling
<1>2. SamplesType'
  <2>1. Instants \subseteq Instants' /\ clock + 1 \in 1 .. clock'
    BY <1>0, <1>1 DEF Instants
  <2>2. 1 .. clock \subseteq 1 .. clock'
    BY <1>0, <1>1
  <2>3. captured' \subseteq atClient' /\ owed' \subseteq captured'
    BY <1>0 DEF SamplesType
  <2> QED
    BY <1>0, <1>1, <2>1, <2>2, <2>3 DEF SamplesType
<1>3. FlightType'
  <2>1. /\ AttemptRecords \subseteq AttemptRecords' /\ StreamRecords \subseteq StreamRecords'
        /\ SupplementRecords \subseteq SupplementRecords'
    BY <1>0, <1>1, Later
  <2> QED
    BY <1>0, <2>1 DEF FlightType
<1>4. WayOK'
  BY <1>0 DEF WayOK, Stale, Dead
<1>5. \A s \in streams' : Dead(s)'
  BY <1>0 DEF WayOK, Dead, Stale
<1>6. PushOK'
  <2> SUFFICES ASSUME NEW c \in conns, ~Stale(c), c.phase = "pushing"
               PROVE  owed' \ midPush' \subseteq owed \ midPush
    BY <1>0 DEF PushOK, Stale
  <2>1. midPush' = midPush \cup {clock + 1}
    BY <1>0 DEF pushing
  <2> QED
    BY <1>0, <2>1
<1>7. FallbackIsOwed'
  <2> SUFFICES ASSUME NEW s \in owed' \ midPush', s \notin atHub
               PROVE  pushUpFloor # NoFloor /\ pushUpFloor < s
    BY <1>0 DEF FallbackIsOwed
  <2>1. CASE s \in owed
    BY <1>0, <2>1 DEF FallbackIsOwed
  <2>2. CASE s = clock + 1 /\ pushUpFloor # NoFloor
    BY <1>1, <2>2 DEF SamplesType, Instants
  <2> QED
    BY <1>0, <2>1, <2>2
<1>8. BackfillOK'
  <2>1. ASSUME NEW n \in Instants PROVE Whole(n)'
    <3>1. clock + 1 \in Before(captured, n)'
      BY <1>0, <1>1 DEF Before, Instants
    <3> QED
      BY <3>1 DEF Whole
  <2>2. \A c \in conns : c.from \in Instants
    BY DEF FlightType, AttemptRecords
  <2> QED
    BY <1>0, <2>1, <2>2 DEF BackfillOK, AskedBy, Stale
<1>9. SupplementsOK'
  BY <1>0 DEF SupplementsOK, Stale
<1>10. StreamsOK'
  BY <1>5 DEF StreamsOK
<1> QED
  BY <1>2, <1>3, <1>4, <1>6, <1>7, <1>8, <1>9, <1>10

\* The Hub's poller captures a sample: a frame of it for each open stream.
LEMMA HubPollOK ==
    ASSUME ClientOK, HubPoll
    PROVE  ClientOK'
<1> USE DEF ClientOK
<1> DEFINE new == clock + 1
           Now(s) == IF s.open THEN [s EXCEPT !.frames = Append(@, new)] ELSE s
<1>0. /\ clock < MaxTime /\ clock' = new /\ atHub' = atHub \cup {new}
      /\ streams' = {Now(s) : s \in streams}
      /\ UNCHANGED <<link, polling, conns, supplements, atClient, aux>>
  BY DEF HubPoll, Tick
<1>1. clock \in Nat /\ clock' \in 0 .. MaxTime /\ epoch \in Nat /\ epoch' = epoch
      /\ new \in Nat /\ clock < new /\ new \in Instants' /\ new \in 1 .. clock'
  BY <1>0 DEF SamplesType, FlightType, link, Instants
<1>2. /\ AttemptRecords \subseteq AttemptRecords' /\ StreamRecords \subseteq StreamRecords'
      /\ SupplementRecords \subseteq SupplementRecords'
  BY <1>0, <1>1, Later
<1>3. ASSUME NEW s \in streams
      PROVE  /\ Now(s) \in StreamRecords' /\ Now(s).epoch = s.epoch /\ Now(s).open = s.open
             /\ Now(s).aborted = s.aborted /\ Now(s).swept = s.swept /\ Now(s).from = s.from
             /\ Now(s).hole = s.hole
             /\ s.frames # <<>> => Now(s).frames # <<>>
             /\ ~s.open => Now(s).frames = s.frames
             /\ s.open => \E i \in DOMAIN Now(s).frames : Now(s).frames[i] = new
             /\ \A i \in DOMAIN s.frames :
                  i \in DOMAIN Now(s).frames /\ Now(s).frames[i] = s.frames[i]
  <2>1. s \in StreamRecords' /\ s.frames \in Seq(Instants')
    <3>1. s \in StreamRecords'
      BY <1>2 DEF FlightType
    <3> QED
      BY <3>1 DEF StreamRecords
  <2>2. CASE ~s.open
    BY <2>1, <2>2
  <2>3. CASE s.open
    <3> DEFINE q == Append(s.frames, new)
    <3>1. /\ q \in Seq(Instants') /\ Len(q) = Len(s.frames) + 1 /\ q[Len(s.frames) + 1] = new
          /\ \A i \in 1 .. Len(s.frames) : q[i] = s.frames[i]
      BY <1>1, <2>1, AppendProperties
    <3>2. DOMAIN s.frames = 1 .. Len(s.frames) /\ DOMAIN q = 1 .. Len(q) /\ Len(s.frames) \in Nat
      BY <2>1, <3>1, LenProperties
    <3> HIDE DEF q
    <3>3. Now(s) = [s EXCEPT !.frames = q]
      BY <2>3 DEF q
    <3>4. /\ Now(s) \in StreamRecords' /\ Now(s).epoch = s.epoch /\ Now(s).open = s.open
          /\ Now(s).aborted = s.aborted /\ Now(s).swept = s.swept /\ Now(s).from = s.from
          /\ Now(s).hole = s.hole /\ Now(s).frames = q
      <4> HIDE DEF Now, new
      <4> QED
        BY <2>1, <3>1, <3>3 DEF StreamRecords
    <3>5. Len(s.frames) + 1 \in DOMAIN q /\ DOMAIN s.frames \subseteq DOMAIN q
      BY <3>1, <3>2
    <3>6. q # <<>>
      BY <3>2, <3>5
    <3> HIDE DEF Now, new
    <3> QED
      BY <2>3, <3>1, <3>2, <3>4, <3>5, <3>6
  <2> QED
    BY <2>2, <2>3
<1> HIDE DEF Now, new
<1> USE DEF link, polling, aux
<1>4. SamplesType'
  <2>1. Instants \subseteq Instants' /\ 1 .. clock \subseteq 1 .. clock'
    BY <1>0, <1>1 DEF Instants
  <2> QED
    BY <1>0, <1>1, <2>1 DEF SamplesType
<1>5. FlightType'
  BY <1>0, <1>1, <1>2, <1>3 DEF FlightType
<1>6. WayOK'
  BY <1>0, <1>3 DEF WayOK, Stale, Dead
<1>7. (PushOK /\ FallbackIsOwed)'
  BY <1>0 DEF PushOK, FallbackIsOwed, Stale
<1>8. ASSUME NEW n, Whole(n) PROVE Whole(n)'
  <2>1. \A x \in atClient : ~(new <= x)
    BY <1>0, <1>1 DEF SamplesType
  <2> QED
    BY <1>0, <1>8, <2>1 DEF Whole, Before
<1>9. \A n : AskedBy(n) => AskedBy(n)'
  BY <1>0 DEF AskedBy, Stale
<1>10. BackfillOK'
  BY <1>0, <1>8, <1>9 DEF BackfillOK, Stale
<1>11. SupplementsOK'
  <2>1. \A b \in supplements : \A x \in b.got : ~(new <= x)
    <3>1. \A b \in supplements : b.got \subseteq 1 .. clock
      BY DEF FlightType, SupplementRecords
    <3> QED
      BY <1>1, <3>1
  <2> QED
    BY <1>0, <2>1 DEF SupplementsOK, Stale
<1>12. StreamsOK'
  <2> SUFFICES ASSUME NEW s \in streams, NEW u, u = Now(s), ~Dead(u)'
               PROVE  /\ s.swept \/ u.frames # <<>> => s.open
                      /\ ~s.swept => Whole(s.from)' /\ AskedBy(s.from)'
                      /\ s.swept /\ ~s.hole /\ Before(captured, s.from) = {} =>
                           \A y \in atHub' : s.from < y => Coming(u, y)'
    BY <1>0, <1>3 DEF StreamsOK, Before
  <2>1. ~Dead(s)
    BY <1>0, <1>3 DEF Dead, Stale
  <2>2. ASSUME NEW y, Coming(s, y) PROVE Coming(u, y)'
    BY <1>0, <1>3, <2>2 DEF Coming
  <2>3. ASSUME NEW y, y = new, s.open PROVE Coming(u, y)'
    BY <1>3, <2>3 DEF Coming
  <2> QED
    BY <1>0, <1>3, <1>8, <1>9, <2>1, <2>2, <2>3 DEF StreamsOK
<1> QED
  BY <1>4, <1>5, <1>6, <1>7, <1>10, <1>11, <1>12

-------------------------------------------------------------------------------
(* The connection *)

LEMMA ClientStarts ==
    ASSUME HubClientInit
    PROVE  ClientOK
<1> USE DEF HubClientInit
<1>1. SamplesType
  BY DEF SamplesType, Instants
<1>2. FlightType
  BY DEF FlightType
<1>3. WayOK
  BY DEF WayOK
<1>4. PushOK /\ FallbackIsOwed /\ BackfillOK /\ SupplementsOK /\ StreamsOK
  BY DEF PushOK, FallbackIsOwed, BackfillOK, SupplementsOK, StreamsOK
<1> QED
  BY <1>1, <1>2, <1>3, <1>4 DEF ClientOK

LEMMA ClientRests ==
    ASSUME ClientOK, UNCHANGED hubClientVars
    PROVE  ClientOK'
<1> USE DEF hubClientVars, link, polling, samplesHeld, aux, limits
<1>1. (SamplesType /\ FlightType)'
  BY DEF ClientOK, SamplesType, FlightType, AttemptRecords, StreamRecords, SupplementRecords,
         Instants
<1>2. (WayOK /\ PushOK /\ FallbackIsOwed)'
  BY DEF ClientOK, WayOK, PushOK, FallbackIsOwed, Stale, Dead
<1>3. (BackfillOK /\ SupplementsOK /\ StreamsOK)'
  BY DEF ClientOK, BackfillOK, SupplementsOK, StreamsOK, Stale, Dead, Whole, AskedBy, Coming,
         Before
<1> QED
  BY <1>1, <1>2, <1>3 DEF ClientOK

LEMMA ClientSteps ==
    ASSUME ClientOK, [HubClientNext]_hubClientVars
    PROVE  ClientOK'
<1>1. ASSUME NEW on \in BOOLEAN, Configure(on) PROVE ClientOK'
  BY <1>1, ConfigureOK
<1>2. CASE Retry \/ LocalPoll \/ HubPoll
  BY <1>2, RetryOK, LocalPollOK, HubPollOK
<1>3. ASSUME NEW c \in conns, Unwind(c) \/ ConnectFails(c) \/ StatusRead(c) \/ HubAnswers(c)
      PROVE  ClientOK'
  BY <1>3, UnwindOK, ConnectFailsOK, StatusReadOK, HubAnswersOK
<1>4. ASSUME NEW c \in conns, Backfilled(c) \/ PushAcked(c) \/ PushFails(c)
      PROVE  ClientOK'
  BY <1>4, BackfilledOK, PushAckedOK, PushFailsOK
<1>5. ASSUME NEW s \in streams,
             StreamOpens(s) \/ StreamLost(s) \/ StreamUnwinds(s) \/ Frame(s)
      PROVE  ClientOK'
  BY <1>5, StreamOpensOK, StreamLostOK, StreamUnwindsOK, FrameOK
<1>6. ASSUME NEW b \in supplements,
             SupplementAnswered(b) \/ SupplementRead(b) \/ SupplementFails(b)
      PROVE  ClientOK'
  BY <1>6, SupplementAnsweredOK, SupplementReadOK, SupplementFailsOK
<1>7. CASE UNCHANGED hubClientVars
  BY <1>7, ClientRests
<1> QED
  BY <1>1, <1>2, <1>3, <1>4, <1>5, <1>6, <1>7 DEF HubClientNext

\* The state of a connection says what is under way for it, a push under way
\* takes along all that is owed, and what a stream leaves out is in a supplement
\* (connect, fail, openStream and supplementalBackfill of hub-client.ts).
THEOREM ClientConnects == HubClientSpec => []ClientOK
<1>1. HubClientInit => ClientOK
  BY ClientStarts
<1>2. ClientOK /\ [HubClientNext]_hubClientVars => ClientOK'
  BY ClientSteps
<1> QED
  BY <1>1, <1>2, PTL DEF HubClientSpec

\* One attempt, one stream or one retry is under way for a configured client.
LEMMA OneIsUnderWay ==
    ASSUME ClientOK
    PROVE  OneWayOn
<1> DEFINE C == {c \in conns : ~Stale(c)}
           S == {s \in streams : ~Dead(s)}
<1>1. /\ state = "connecting" <=> C # {}
      /\ state = "connected" <=> S # {}
      /\ \A c, d \in C : c = d
      /\ \A s, t \in S : s = t
  BY DEF ClientOK, WayOK
<1>2. ASSUME NEW T, \A x, y \in T : x = y
      PROVE  Cardinality(T) = IF T = {} THEN 0 ELSE 1
  <2>1. CASE T = {}
    BY <2>1, FS_EmptySet
  <2>2. CASE T # {}
    <3>1. PICK x : x \in T
      BY <2>2
    <3>2. T = {x}
      BY <1>2, <3>1
    <3> QED
      BY <2>2, <3>2, FS_Singleton
  <2> QED
    BY <2>1, <2>2
<1>3. Cardinality(C) = IF C = {} THEN 0 ELSE 1
  BY <1>1, <1>2
<1>4. Cardinality(S) = IF S = {} THEN 0 ELSE 1
  BY <1>1, <1>2
<1>5. config => Cardinality(C) + Cardinality(S) + (IF retryTimer THEN 1 ELSE 0) = 1
  <2> HIDE DEF C, S
  <2> QED
    BY <1>1, <1>3, <1>4 DEF ClientOK, WayOK
<1> QED
  BY <1>5 DEF ClientOK, WayOK, OneWayOn

\* Whatever is captured, whatever fails and however often the settings change:
\* one attempt, one live stream or one retry is under way for a configured client
\* and one side polls; a sample captured under a floor is on the Hub or above
\* the floor of the next push; and a live stream whose supplement was answered
\* misses none of the Hub's samples (connect, fail and supplementalBackfill).
THEOREM SamplesAreOwedHolds == HubClientSpec => []SamplesAreOwed
<1>1. ASSUME ClientOK PROVE SamplesAreOwed
  <2>1. OneWayOn
    BY <1>1, OneIsUnderWay
  <2>2. NoSilentHole
    <3> SUFFICES ASSUME NEW s \in streams, ~Dead(s), s.swept, s.frames = <<>>, ~s.hole,
                        \A b \in supplements : b.epoch # s.epoch \/ b.of # s.from,
                        Before(captured, s.from) = {}, NEW y \in atHub, y > s.from
                 PROVE  y \in atClient
      BY DEF NoSilentHole, Before
    <3>1. s.from < y
      BY <1>1 DEF ClientOK, FlightType, StreamRecords, Instants, SamplesType
    <3>2. Coming(s, y)
      BY <1>1, <3>1 DEF ClientOK, StreamsOK
    <3> QED
      BY <3>2 DEF Coming
  <2> QED
    BY <1>1, <2>1, <2>2 DEF ClientOK, SamplesAreOwed
<1> QED
  BY <1>1, ClientConnects, PTL

===============================================================================
