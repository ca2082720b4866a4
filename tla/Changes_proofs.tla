----------------------------- MODULE Changes_proofs -----------------------------
(***************************************************************************)
(* How a change reaches the engine, proved for every value of the          *)
(* constants.  Of the corpus-walk gate (ScanGate): one walk runs at a      *)
(* time, a rescan's answer is of a disk no older than the rescan, at most  *)
(* one rescan of an app waits, and what a walk read the installed store    *)
(* keeps, whatever rebuild replaces it.  Of the reconcile chain and the driver of settings edits         *)
(* (Reconcile): until a pass throws, the report view in hand is admitted   *)
(* and what is excluded leaves the Hub.  Of the watcher's restarts         *)
(* (WatcherRestarts): the installed watcher alone is open, recoveries stay *)
(* within their limit, and until a late `ready` a deaf watcher is being    *)
(* replaced or says so.  Of the report cache (ReportCache): a report is    *)
(* one state of the store between its question and its answer.             *)
(***************************************************************************)
EXTENDS ScanGate, Reconcile, WatcherRestarts, ReportCache, FiniteSetTheorems,
        SequenceTheorems, WellFoundedInduction, TLAPS

-------------------------------------------------------------------------------
(* The inductive invariant *)

Walks == [key : Keys \cup {NULL}, fresh : BOOLEAN, after : Nat,
          state : {"queued", "running"} \cup Settled, read : Int, of : Int]

\* The chain is all the walks, in the order they were put on it.
ChainOK ==
    /\ walks \in Seq(Walks) /\ chain = Len(walks)
    /\ \A w \in DOMAIN walks : walks[w].after = w - 1

\* A walk starts when all before it have settled.
InOrder ==
    \A v, w \in DOMAIN walks : v < w /\ walks[w].state # "queued" => walks[v].state \in Settled

\* What waits under a key is a walk of this key that has not started, and
\* each such walk waits there.
SlotsOK ==
    /\ queued = [k \in Keys |-> queued[k]]
    /\ \A k \in Keys : queued[k] # 0 =>
          /\ queued[k] \in DOMAIN walks /\ walks[queued[k]].key = k
          /\ walks[queued[k]].state = "queued"
    /\ \A w \in DOMAIN walks :
          walks[w].key \in Keys /\ walks[w].state = "queued" => queued[walks[w].key] = w

\* What a rescan was asked for of, its walk has not read past, or has read.
GestureOK(g) ==
    /\ g.walk \in DOMAIN walks /\ g.disk \in 0 .. disk
    /\ walks[g.walk].state # "queued" => walks[g.walk].read >= g.disk

GesturesOK ==
    /\ gestures \in Seq([walk : Nat, disk : Nat])
    /\ \A n \in DOMAIN gestures : GestureOK(gestures[n])

GateInv == disk \in Nat /\ store \in Nat /\ ChainOK /\ InOrder /\ SlotsOK /\ GesturesOK

LEMMA GateInit ==
    ASSUME Init
    PROVE  GateInv
BY DEF Init, GateInv, ChainOK, InOrder, SlotsOK, GesturesOK

-------------------------------------------------------------------------------
(* A walk is put on the chain *)

LEMMA QueueShape ==
    ASSUME GateInv, NEW key \in Keys \cup {NULL}, NEW building \in BOOLEAN,
           Queue(key, building)
    PROVE  LET n == Len(walks) + 1
           IN  /\ ChainOK' /\ InOrder' /\ n \in Nat \ {0} /\ n \notin DOMAIN walks
               /\ DOMAIN walks' = DOMAIN walks \cup {n} /\ DOMAIN walks \subseteq Nat \ {0}
               /\ \A w \in DOMAIN walks : walks'[w] = walks[w]
               /\ walks'[n].key = key /\ walks'[n].state = "queued"
               /\ walks'[n].fresh = building /\ walks'[n].read = -1
<1> DEFINE n == Len(walks) + 1
           new == [key |-> key, fresh |-> building, after |-> chain, state |-> "queued",
                   read |-> -1, of |-> -1]
<1>1. /\ walks \in Seq(Walks) /\ Len(walks) \in Nat /\ chain = Len(walks)
      /\ DOMAIN walks = 1 .. Len(walks)
      /\ walks' = Append(walks, new) /\ chain' = n
  BY DEF GateInv, ChainOK, Queue, ChainAfter
<1>2. new \in Walks /\ new.after = n - 1
  BY <1>1 DEF Walks
<1>3. /\ walks' \in Seq(Walks) /\ Len(walks') = n /\ DOMAIN walks' = 1 .. n
      /\ \A w \in 1 .. Len(walks) : walks'[w] = walks[w]
      /\ walks'[n] = new
  BY <1>1, <1>2
<1>4. new.key = key /\ new.state = "queued" /\ new.fresh = building /\ new.read = -1
  OBVIOUS
<1> HIDE DEF new
<1>5. ChainOK'
  BY <1>1, <1>2, <1>3 DEF ChainOK, GateInv
<1>6. InOrder'
  BY <1>1, <1>3, <1>4 DEF InOrder, GateInv
<1> QED
  BY <1>1, <1>3, <1>4, <1>5, <1>6

\* A walk of the roots or of a rebuild: no rescan waits for it.
LEMMA UnkeyedKeeps ==
    ASSUME GateInv, NEW building \in BOOLEAN, Queue(NULL, building),
           UNCHANGED <<queued, gestures, disk, store>>
    PROVE  GateInv'
<1> DEFINE n == Len(walks) + 1
<1>1. /\ ChainOK' /\ InOrder' /\ n \in Nat \ {0} /\ n \notin DOMAIN walks
      /\ DOMAIN walks' = DOMAIN walks \cup {n}
      /\ \A w \in DOMAIN walks : walks'[w] = walks[w]
      /\ walks'[n].key = NULL /\ walks'[n].state = "queued"
  BY QueueShape
<1> HIDE DEF n
<1>2. SlotsOK'
  BY <1>1, ScanGateAssumption DEF GateInv, SlotsOK
<1>3. GesturesOK'
  BY <1>1 DEF GateInv, GesturesOK, GestureOK
<1> QED
  BY <1>1, <1>2, <1>3 DEF GateInv

\* A gesture asked for of the present disk, of a walk that has not started.
LEMMA AskedShape ==
    ASSUME GateInv, NEW w \in Nat, w \in DOMAIN walks', walks'[w].state = "queued", Asked(w),
           DOMAIN walks \subseteq DOMAIN walks', \A v \in DOMAIN walks : walks'[v] = walks[v],
           disk' = disk
    PROVE  GesturesOK'
<1> DEFINE g == [walk |-> w, disk |-> disk]
<1>1. /\ gestures' = Append(gestures, g) /\ gestures \in Seq([walk : Nat, disk : Nat])
      /\ disk \in Nat
  BY DEF Asked, GateInv, GesturesOK
<1>2. g \in [walk : Nat, disk : Nat] /\ g.walk = w /\ g.disk = disk
  BY <1>1
<1> HIDE DEF g
<1>3. /\ gestures' \in Seq([walk : Nat, disk : Nat])
      /\ \A n \in DOMAIN gestures' : \/ gestures'[n] = g
                                     \/ n \in DOMAIN gestures /\ gestures'[n] = gestures[n]
  BY <1>1, <1>2
<1>4. ASSUME NEW n \in DOMAIN gestures'
      PROVE  /\ gestures'[n].walk \in DOMAIN walks' /\ gestures'[n].disk \in 0 .. disk'
             /\ walks'[gestures'[n].walk].state # "queued"
                  => walks'[gestures'[n].walk].read >= gestures'[n].disk
  <2>1. CASE gestures'[n] = g
    BY <1>1, <1>2, <2>1
  <2>2. CASE n \in DOMAIN gestures /\ gestures'[n] = gestures[n]
    <3>1. /\ gestures[n].walk \in DOMAIN walks /\ gestures[n].disk \in 0 .. disk
          /\ walks[gestures[n].walk].state # "queued"
               => walks[gestures[n].walk].read >= gestures[n].disk
      BY <2>2 DEF GateInv, GesturesOK, GestureOK
    <3> QED
      BY <2>2, <3>1
  <2> QED
    BY <1>3, <2>1, <2>2
<1> QED
  BY <1>3, <1>4 DEF GesturesOK, GestureOK

LEMMA JoinKeeps ==
    ASSUME GateInv, NEW key \in Keys, Join(key)
    PROVE  GateInv'
<1>1. queued[key] # 0 /\ Asked(queued[key]) /\ UNCHANGED <<walks, chain, queued, disk, store>>
  BY DEF Join, installVars
<1>2. queued[key] \in DOMAIN walks /\ walks[queued[key]].state = "queued" /\ queued[key] \in Nat
  BY <1>1 DEF GateInv, SlotsOK, ChainOK
<1>3. GesturesOK'
  BY <1>1, <1>2, AskedShape
<1> QED
  BY <1>1, <1>3 DEF GateInv, ChainOK, InOrder, SlotsOK

LEMMA RescanKeeps ==
    ASSUME GateInv, NEW key \in Keys, Rescan(key)
    PROVE  GateInv'
<1> DEFINE n == Len(walks) + 1
<1>1. /\ Queue(key, FALSE) /\ queued[key] = 0 /\ queued' = [queued EXCEPT ![key] = n]
      /\ Asked(n) /\ UNCHANGED <<disk, store>>
  BY DEF Rescan, Slot, installVars
<1>2. /\ ChainOK' /\ InOrder' /\ n \in Nat \ {0} /\ n \notin DOMAIN walks
      /\ DOMAIN walks' = DOMAIN walks \cup {n} /\ DOMAIN walks \subseteq Nat \ {0}
      /\ \A w \in DOMAIN walks : walks'[w] = walks[w]
      /\ walks'[n].key = key /\ walks'[n].state = "queued"
  BY <1>1, QueueShape
<1> HIDE DEF n
<1>3. SlotsOK'
  BY <1>1, <1>2 DEF GateInv, SlotsOK
<1>4. GesturesOK'
  BY <1>1, <1>2, AskedShape
<1> QED
  BY <1>1, <1>2, <1>3, <1>4 DEF GateInv

-------------------------------------------------------------------------------
(* A walk starts, goes on and ends *)

LEMMA WalkTypes ==
    ASSUME GateInv
    PROVE  \A w \in DOMAIN walks : walks[w] \in Walks /\ walks[w].read \in Int
<1>1. \A w \in DOMAIN walks : walks[w] \in Walks
  BY DEF GateInv, ChainOK
<1> QED
  BY <1>1 DEF Walks

\* The walk that starts.
LEMMA StartShape ==
    ASSUME GateInv, NEW w \in DOMAIN walks, Start(w)
    PROVE  \E walk \in Walks :
             /\ walks' = [walks EXCEPT ![w] = walk]
             /\ walk.state = "running" /\ walk.read = disk /\ walk.fresh = walks[w].fresh
             /\ walk.key = walks[w].key /\ walk.after = walks[w].after
<1>1. PICK of : of = IF walks[w].fresh THEN store + 1 ELSE store
  OBVIOUS
<1>2. disk \in Int /\ of \in Int /\ walks[w] \in Walks
  BY <1>1, WalkTypes DEF GateInv
<1> DEFINE walk == [walks[w] EXCEPT !.state = "running", !.read = disk, !.of = of]
<1>3. /\ walk \in Walks /\ walk.state = "running" /\ walk.read = disk
      /\ walk.fresh = walks[w].fresh /\ walk.key = walks[w].key
      /\ walk.after = walks[w].after
  BY <1>2 DEF Walks
<1>4. walks' = [walks EXCEPT ![w] = walk]
  BY <1>1 DEF Start
<1> HIDE DEF walk
<1> QED
  BY <1>3, <1>4

\* One walk changes, which is not queued, or becomes it no more.
LEMMA WalkMoves ==
    ASSUME GateInv, NEW w \in DOMAIN walks, NEW walk \in Walks, walk.state # "queued",
           walks' = [walks EXCEPT ![w] = walk], UNCHANGED <<chain, gestures, disk, store>>,
           walk.key = walks[w].key, walk.after = walks[w].after,
           walks[w].state # "queued" \/ RunsAfter(w), walks[w].state \notin Settled,
           queued' = SlotReleased(w) \/ (walks[w].state # "queued" /\ queued' = queued),
           walk.read = disk \/ (walks[w].state # "queued" /\ walk.read = walks[w].read)
    PROVE  GateInv'
<1>1. /\ walks \in Seq(Walks) /\ DOMAIN walks = 1 .. Len(walks) /\ Len(walks) \in Nat
      /\ chain = Len(walks) /\ w \in Nat \ {0} /\ walks[w].after = w - 1
  BY DEF GateInv, ChainOK
<1>2. /\ walks' \in Seq(Walks) /\ Len(walks') = Len(walks) /\ DOMAIN walks' = DOMAIN walks
      /\ walks'[w] = walk
      /\ \A v \in DOMAIN walks : v # w => walks'[v] = walks[v]
  BY <1>1
<1>3. ChainOK'
  BY <1>1, <1>2 DEF GateInv, ChainOK
<1>4. ASSUME NEW v \in DOMAIN walks, v < w PROVE walks[v].state \in Settled
  <2>1. CASE walks[w].state # "queued"
    BY <1>4, <2>1 DEF GateInv, InOrder
  <2>2. CASE RunsAfter(w)
    <3>1. w - 1 \in DOMAIN walks /\ walks[w - 1].state \in Settled
      BY <1>1, <1>4, <2>2 DEF RunsAfter
    <3>2. CASE v = w - 1
      BY <3>1, <3>2
    <3>3. CASE v < w - 1
      BY <3>1, <3>3 DEF GateInv, InOrder, Settled
    <3> QED
      BY <1>1, <1>4, <3>2, <3>3
  <2> QED
    BY <2>1, <2>2
<1>5. InOrder'
  <2> SUFFICES ASSUME NEW v \in DOMAIN walks, NEW u \in DOMAIN walks, v < u,
                      walks'[u].state # "queued"
               PROVE  walks'[v].state \in Settled
    BY <1>2 DEF InOrder
  <2>1. CASE v = w
    <3>1. walks[u].state # "queued"
      BY <1>1, <1>2, <2>1
    <3>2. walks[w].state \in Settled
      BY <2>1, <3>1 DEF GateInv, InOrder
    <3> QED
      BY <3>2
  <2>2. CASE v # w /\ u = w
    BY <1>2, <1>4, <2>2
  <2>3. CASE v # w /\ u # w
    BY <1>2, <2>3 DEF GateInv, InOrder
  <2> QED
    BY <2>1, <2>2, <2>3
<1>6. SlotsOK'
  <2>1. CASE queued' = SlotReleased(w)
    BY <1>1, <1>2, <2>1 DEF GateInv, SlotsOK, SlotReleased
  <2>2. CASE walks[w].state # "queued" /\ queued' = queued
    BY <1>1, <1>2, <2>2 DEF GateInv, SlotsOK
  <2> QED
    BY <2>1, <2>2
<1>7. GesturesOK'
  <2>1. gestures' = gestures /\ gestures \in Seq([walk : Nat, disk : Nat]) /\ disk' = disk
    BY DEF GateInv, GesturesOK
  <2>2. ASSUME NEW n \in DOMAIN gestures PROVE GestureOK(gestures[n])'
    <3> DEFINE g == gestures[n]
    <3>1. GestureOK(g) /\ g.disk \in Nat /\ disk \in Nat
      BY <2>1 DEF GateInv, GesturesOK, GestureOK
    <3> HIDE DEF g
    <3>2. CASE g.walk # w
      BY <1>2, <2>1, <3>1, <3>2 DEF GestureOK, g
    <3>3. CASE g.walk = w
      BY <1>2, <2>1, <3>1, <3>3 DEF GestureOK, g
    <3> QED
      BY <3>2, <3>3
  <2> QED
    BY <2>1, <2>2 DEF GesturesOK
<1> QED
  BY <1>3, <1>5, <1>6, <1>7 DEF GateInv

LEMMA StartKeeps ==
    ASSUME GateInv, NEW w \in DOMAIN walks, Start(w)
    PROVE  GateInv'
<1>1. PICK walk \in Walks :
        /\ walks' = [walks EXCEPT ![w] = walk]
        /\ walk.state = "running" /\ walk.read = disk /\ walk.fresh = walks[w].fresh
        /\ walk.key = walks[w].key /\ walk.after = walks[w].after
  BY StartShape
<1> QED
  BY <1>1, WalkMoves DEF Start, Settled, installVars

LEMMA AgainKeeps ==
    ASSUME GateInv, NEW w \in DOMAIN walks, Again(w)
    PROVE  GateInv'
<1> DEFINE walk == [walks[w] EXCEPT !.read = disk, !.of = store]
<1>1. disk \in Int /\ store \in Int /\ walks[w] \in Walks /\ walks[w].state = "running"
  BY DEF GateInv, ChainOK, Again
<1>2. /\ walk \in Walks /\ walk.state = "running" /\ walk.read = disk
      /\ walk.key = walks[w].key /\ walk.after = walks[w].after
  BY <1>1 DEF Walks
<1>3. walks' = [walks EXCEPT ![w] = walk]
  BY DEF Again
<1> HIDE DEF walk
<1> QED
  BY <1>1, <1>2, <1>3, WalkMoves DEF Again, Settled, installVars

\* A walk ends, however.
LEMMA SettlesKeeps ==
    ASSUME GateInv, NEW w \in DOMAIN walks, NEW state \in Settled, walks[w].state = "running",
           walks' = [walks EXCEPT ![w].state = state],
           UNCHANGED <<chain, queued, gestures, disk, store>>
    PROVE  GateInv'
<1> DEFINE walk == [walks[w] EXCEPT !.state = state]
<1>1. walks[w] \in Walks
  BY DEF GateInv, ChainOK
<1>2. /\ walk \in Walks /\ walk.state = state /\ walk.read = walks[w].read
      /\ walk.key = walks[w].key /\ walk.after = walks[w].after
  BY <1>1 DEF Walks
<1>3. walks' = [walks EXCEPT ![w] = walk]
  OBVIOUS
<1> HIDE DEF walk
<1> QED
  BY <1>2, <1>3, WalkMoves DEF Settled

-------------------------------------------------------------------------------
(* The gate *)

LEMMA GateStep ==
    ASSUME GateInv, [Next]_vars
    PROVE  GateInv'
<1>1. CASE Walk \/ Rebuild
  BY <1>1, UnkeyedKeeps DEF Walk, Rebuild, installVars
<1>2. ASSUME NEW key \in Keys, Join(key) PROVE GateInv'
  BY <1>2, JoinKeeps
<1>3. ASSUME NEW key \in Keys, Rescan(key) PROVE GateInv'
  BY <1>3, RescanKeeps
<1>4. ASSUME NEW w \in DOMAIN walks, Start(w) PROVE GateInv'
  BY <1>4, StartKeeps
<1>5. ASSUME NEW w \in DOMAIN walks, Again(w) PROVE GateInv'
  BY <1>5, AgainKeeps
<1>6. ASSUME NEW w \in DOMAIN walks, End(w) \/ FreshEnd(w) PROVE GateInv'
  BY <1>6, SettlesKeeps DEF End, FreshEnd, Settled
<1>7. ASSUME NEW w \in DOMAIN walks, Fail(w) PROVE GateInv'
  BY <1>7, SettlesKeeps DEF Fail, Settled
<1>8. CASE Change
  <2>1. disk' = disk + 1 /\ disk \in Nat /\ UNCHANGED <<walks, chain, queued, gestures, store>>
    BY <1>8 DEF Change, GateInv, gateVars, installVars
  <2>2. GesturesOK'
    BY <2>1 DEF GateInv, GesturesOK, GestureOK
  <2> QED
    BY <2>1, <2>2 DEF GateInv, ChainOK, InOrder, SlotsOK
<1>9. CASE Swap \/ SeedFails \/ UNCHANGED vars
  <2>1. /\ UNCHANGED <<walks, chain, queued, gestures, disk>> /\ store' \in Nat
    BY <1>9 DEF Swap, SeedFails, GateInv, vars, gateVars
  <2> QED
    BY <2>1 DEF GateInv, ChainOK, InOrder, SlotsOK, GesturesOK, GestureOK
<1> QED
  BY <1>1, <1>2, <1>3, <1>4, <1>5, <1>6, <1>7, <1>8, <1>9 DEF Next

\* The walks are settled, but for the last that started, in the order of the
\* chain; a slot holds the one walk that waits under its key (`run` and
\* `runCoalesced` of scan-gate.ts).
THEOREM GateInvariant == Spec => []GateInv
<1>1. GateInv /\ [Next]_vars => GateInv'
  BY GateStep
<1> QED
  BY <1>1, GateInit, PTL DEF Spec

\* A set whose members are all one is of at most one.
LEMMA AtMostOne ==
    ASSUME NEW S, \A x, y \in S : x = y
    PROVE  Cardinality(S) <= 1
<1>1. CASE S = {}
  BY <1>1, FS_EmptySet
<1>2. CASE S # {}
  <2>1. PICK x : x \in S
    BY <1>2
  <2>2. S = {x}
    BY <2>1
  <2> QED
    BY <2>2, FS_Singleton
<1> QED
  BY <1>1, <1>2

\* Two walks never run together (`run` of scan-gate.ts): a second would read
\* the same files and append the same lines.
THEOREM OneAtATimeHolds == Spec => []OneAtATime
<1>1. GateInv => OneAtATime
  <2> SUFFICES ASSUME GateInv PROVE OneAtATime
    OBVIOUS
  <2> DEFINE S == {w \in DOMAIN walks : walks[w].state = "running"}
  <2>1. ASSUME NEW v \in S, NEW w \in S PROVE v = w
    <3>1. ~(v < w) /\ ~(w < v)
      BY DEF GateInv, InOrder, Settled
    <3>2. v \in Nat /\ w \in Nat
      BY DEF GateInv, ChainOK
    <3> QED
      BY <3>1, <3>2
  <2> HIDE DEF S
  <2>2. Cardinality(S) <= 1
    BY <2>1, AtMostOne
  <2> QED
    BY <2>2 DEF OneAtATime, S
<1> QED
  BY <1>1, GateInvariant, PTL

\* A rescan that joins a queued walk still gets what was on the disk when it
\* was asked for (`runCoalesced`: only a walk that has not started is joined).
THEOREM AnswerIsNotOlderHolds == Spec => []AnswerIsNotOlder
<1>1. GateInv => AnswerIsNotOlder
  BY DEF GateInv, GesturesOK, GestureOK, AnswerIsNotOlder
<1> QED
  BY <1>1, GateInvariant, PTL

\* However many rescans an app asks for, one of them waits (`runCoalesced`).
THEOREM OneWaitsPerKeyHolds == Spec => []OneWaitsPerKey
<1>1. GateInv => OneWaitsPerKey
  <2> SUFFICES ASSUME GateInv, NEW k \in Keys
               PROVE  Cardinality({w \in DOMAIN walks : walks[w].key = k
                                                        /\ walks[w].state = "queued"}) <= 1
    BY DEF OneWaitsPerKey
  <2> DEFINE S == {w \in DOMAIN walks : walks[w].key = k /\ walks[w].state = "queued"}
  <2>1. ASSUME NEW v \in S, NEW w \in S PROVE v = w
    BY DEF GateInv, SlotsOK
  <2> HIDE DEF S
  <2>2. Cardinality(S) <= 1
    BY <2>1, AtMostOne
  <2> QED
    BY <2>2 DEF S
<1> QED
  BY <1>1, GateInvariant, PTL

-------------------------------------------------------------------------------
(* What a walk read, the installed store keeps *)

\* A rebuild waits for one walk, and no other walk is a rebuild's.
RebuildOK ==
    /\ rebuild \in [pc : {"none", "walking", "seeding"}, walk : Nat, read : Int, caught : Int]
    /\ \A w \in DOMAIN walks :
          walks[w].fresh /\ walks[w].state \notin Settled
            => rebuild.pc = "walking" /\ rebuild.walk = w

\* Nothing holds or has read more than the disk had.
ReadsOK ==
    /\ holds \in Int /\ holds <= disk /\ rebuild.read <= disk /\ rebuild.caught <= disk
    /\ \A w \in DOMAIN walks : walks[w].read <= disk

\* What a store in the making has read or heard covers the installed one, from
\* the start of the rebuild's walk to the swap.
CoversOK ==
    /\ \A w \in DOMAIN walks :
          walks[w].fresh /\ walks[w].state = "running"
            => holds <= walks[w].read \/ holds <= rebuild.caught
    /\ rebuild.pc = "seeding" => holds <= rebuild.read \/ holds <= rebuild.caught

InstallInv == RebuildOK /\ ReadsOK /\ CoversOK /\ ReadingsStay

LEMMA InstallInit ==
    ASSUME Init
    PROVE  InstallInv
BY DEF Init, InstallInv, RebuildOK, ReadsOK, CoversOK, ReadingsStay, NoRebuild

\* A walk is put on the chain, of a rebuild or not.
LEMMA QueueInstalls ==
    ASSUME GateInv, InstallInv, NEW key \in Keys \cup {NULL}, NEW building \in BOOLEAN,
           Queue(key, building), UNCHANGED <<disk, store, holds, outrun>>,
           \/ ~building /\ rebuild' = rebuild
           \/ /\ building /\ rebuild.pc = "none"
              /\ rebuild' = [NoRebuild EXCEPT !.pc = "walking", !.walk = Len(walks) + 1]
    PROVE  InstallInv'
<1> DEFINE n == Len(walks) + 1
<1>1. /\ n \in Nat /\ n \notin DOMAIN walks /\ DOMAIN walks' = DOMAIN walks \cup {n}
      /\ \A w \in DOMAIN walks : walks'[w] = walks[w]
      /\ walks'[n].state = "queued" /\ walks'[n].fresh = building /\ walks'[n].read = -1
  BY QueueShape
<1>2. disk \in Nat /\ disk' = disk /\ holds' = holds /\ outrun' = outrun
  BY DEF GateInv
<1>3. building => /\ rebuild'.pc = "walking" /\ rebuild'.walk = n /\ rebuild'.read = -1
                  /\ rebuild'.caught = -1
                  /\ rebuild' \in [pc : {"none", "walking", "seeding"}, walk : Nat,
                                   read : Int, caught : Int]
  <2> SUFFICES ASSUME building
               PROVE  /\ rebuild'.pc = "walking" /\ rebuild'.walk = n /\ rebuild'.read = -1
                      /\ rebuild'.caught = -1
                      /\ rebuild' \in [pc : {"none", "walking", "seeding"}, walk : Nat,
                                       read : Int, caught : Int]
    OBVIOUS
  <2>1. rebuild' = [pc |-> "walking", walk |-> n, read |-> -1, caught |-> -1]
    BY DEF NoRebuild
  <2> HIDE DEF n
  <2> QED
    BY <1>1, <2>1
<1>4. building => \A w \in DOMAIN walks : walks[w].fresh => walks[w].state \in Settled
  BY DEF InstallInv, RebuildOK
<1> HIDE DEF n
<1>5. RebuildOK'
  BY <1>1, <1>3, <1>4 DEF InstallInv, RebuildOK
<1>6. ReadsOK'
  BY <1>1, <1>2, <1>3 DEF InstallInv, ReadsOK
<1>7. CoversOK'
  BY <1>1, <1>2, <1>3, <1>4 DEF InstallInv, CoversOK, Settled
<1>8. ReadingsStay'
  BY <1>1, <1>2 DEF InstallInv, ReadingsStay
<1> QED
  BY <1>5, <1>6, <1>7, <1>8 DEF InstallInv

\* A walk starts or goes round again: it has read the disk as it is.
LEMMA ReadsInstalls ==
    ASSUME GateInv, InstallInv, NEW w \in DOMAIN walks, NEW walk \in Walks,
           walks[w].state \in {"queued", "running"}, walk.state = "running",
           walk.fresh = walks[w].fresh, walk.read = disk,
           walks' = [walks EXCEPT ![w] = walk], UNCHANGED <<disk, installVars>>
    PROVE  InstallInv'
<1>1. /\ DOMAIN walks' = DOMAIN walks /\ walks'[w] = walk
      /\ \A v \in DOMAIN walks : v # w => walks'[v] = walks[v]
  BY DEF GateInv, ChainOK
<1>2. /\ disk' = disk /\ holds' = holds /\ outrun' = outrun /\ rebuild' = rebuild /\ disk \in Nat
  BY DEF GateInv, installVars
<1>3. RebuildOK'
  BY <1>1, <1>2 DEF InstallInv, RebuildOK, Settled
<1>4. ReadsOK'
  BY <1>1, <1>2 DEF InstallInv, ReadsOK
<1>5. CoversOK'
  BY <1>1, <1>2 DEF InstallInv, CoversOK, ReadsOK
<1>6. ReadingsStay'
  BY <1>1, <1>2 DEF InstallInv, ReadingsStay
<1> QED
  BY <1>3, <1>4, <1>5, <1>6 DEF InstallInv

\* A walk settles: its reading is as it was.
LEMMA SettledShape ==
    ASSUME GateInv, NEW w \in DOMAIN walks, NEW state \in Settled,
           walks' = [walks EXCEPT ![w].state = state]
    PROVE  /\ DOMAIN walks' = DOMAIN walks
           /\ walks'[w].state = state /\ walks'[w].fresh = walks[w].fresh
           /\ walks'[w].key = walks[w].key /\ walks'[w].read = walks[w].read
           /\ \A v \in DOMAIN walks : v # w => walks'[v] = walks[v]
           /\ \A v \in DOMAIN walks : walks'[v].read = walks[v].read /\ walks[v].read \in Int
<1>1. walks \in Seq(Walks) /\ walks[w] \in Walks
  BY DEF GateInv, ChainOK
<1>2. \A v \in DOMAIN walks : walks[v].read \in Int
  BY WalkTypes
<1> QED
  BY <1>1, <1>2 DEF Walks

\* A walk of the installed store has fed it, and the rebuild that listens; a
\* walk of a store replaced meanwhile is a rescan's.
LEMMA EndInstalls ==
    ASSUME GateInv, InstallInv, NEW w \in DOMAIN walks, End(w)
    PROVE  InstallInv'
<1>1. /\ walks[w].state = "running" /\ ~walks[w].fresh /\ ~WalksAgain(w)
      /\ walks' = [walks EXCEPT ![w].state = "ok"] /\ Lands(w) /\ disk' = disk
  BY DEF End
<1>2. /\ DOMAIN walks' = DOMAIN walks
      /\ walks'[w].state = "ok" /\ walks'[w].fresh = walks[w].fresh
      /\ walks'[w].key = walks[w].key /\ walks'[w].read = walks[w].read
      /\ \A v \in DOMAIN walks : v # w => walks'[v] = walks[v]
      /\ \A v \in DOMAIN walks : walks'[v].read = walks[v].read /\ walks[v].read \in Int
  BY <1>1, SettledShape DEF Settled
<1>3. CASE walks[w].of = store
  <2> DEFINE read == walks[w].read
  <2>1. /\ holds' = Larger(holds, read) /\ rebuild' = Caught(read) /\ outrun' = outrun
        /\ holds \in Int /\ read \in Int /\ holds <= disk /\ read <= disk /\ disk \in Nat
    BY <1>1, <1>2, <1>3 DEF Lands, InstallInv, ReadsOK, GateInv
  <2>2. /\ rebuild'.pc = rebuild.pc /\ rebuild'.walk = rebuild.walk
        /\ rebuild'.read = rebuild.read /\ rebuild.caught \in Int /\ rebuild.read \in Int
        /\ rebuild.pc # "none" => rebuild'.caught = Larger(rebuild.caught, read)
        /\ rebuild.pc = "none" => rebuild'.caught = rebuild.caught
        /\ rebuild' \in [pc : {"none", "walking", "seeding"}, walk : Nat, read : Int, caught : Int]
    BY <2>1 DEF Caught, InstallInv, RebuildOK, Larger
  <2> HIDE DEF read
  <2>3. holds' \in Int /\ holds <= holds' /\ read <= holds' /\ holds' <= disk
    BY <2>1 DEF Larger
  <2>4. RebuildOK'
    BY <1>1, <1>2, <2>2 DEF InstallInv, RebuildOK, Settled
  <2>5. ReadsOK'
    <3>1. rebuild'.caught <= disk
      BY <2>1, <2>2 DEF InstallInv, ReadsOK, Larger
    <3> QED
      BY <1>1, <1>2, <2>2, <2>3, <3>1 DEF InstallInv, ReadsOK
  <2>6. CoversOK'
    <3>1. ASSUME NEW v \in DOMAIN walks, walks'[v].fresh, walks'[v].state = "running"
          PROVE  holds' <= walks'[v].read \/ holds' <= rebuild'.caught
      <4>1. /\ v # w /\ walks[v].fresh /\ walks[v].state = "running" /\ walks[v].read \in Int
            /\ walks'[v].read = walks[v].read
        BY <1>1, <1>2, <3>1
      <4>2. rebuild.pc # "none" /\ (holds <= walks[v].read \/ holds <= rebuild.caught)
        BY <4>1 DEF InstallInv, RebuildOK, CoversOK, Settled
      <4> QED
        BY <2>1, <2>2, <4>1, <4>2 DEF Larger
    <3>2. ASSUME rebuild'.pc = "seeding"
          PROVE  holds' <= rebuild'.read \/ holds' <= rebuild'.caught
      <4>1. rebuild.pc = "seeding" /\ (holds <= rebuild.read \/ holds <= rebuild.caught)
        BY <2>2, <3>2 DEF InstallInv, CoversOK
      <4> QED
        BY <2>1, <2>2, <4>1 DEF Larger
    <3> QED
      BY <1>2, <3>1, <3>2 DEF CoversOK
  <2>7. ReadingsStay'
    <3> SUFFICES ASSUME NEW v \in DOMAIN walks, walks'[v].state = "ok", ~walks'[v].fresh,
                        walks'[v].key = NULL \/ v \notin outrun'
                 PROVE  holds' >= walks'[v].read
      BY <1>2 DEF ReadingsStay
    <3>1. CASE v = w
      BY <1>2, <2>3, <3>1 DEF read
    <3>2. CASE v # w
      <4>1. holds >= walks[v].read /\ walks'[v].read = walks[v].read /\ walks[v].read \in Int
        BY <1>2, <2>1, <3>2 DEF InstallInv, ReadingsStay
      <4> QED
        BY <2>1, <2>3, <4>1
    <3> QED
      BY <3>1, <3>2
  <2> QED
    BY <2>4, <2>5, <2>6, <2>7 DEF InstallInv
<1>4. CASE walks[w].of # store
  <2>1. holds' = holds /\ rebuild' = rebuild /\ outrun' = outrun \cup {w} /\ walks[w].key # NULL
    BY <1>1, <1>4 DEF Lands, WalksAgain
  <2>2. RebuildOK'
    BY <1>1, <1>2, <2>1 DEF InstallInv, RebuildOK, Settled
  <2>3. ReadsOK'
    BY <1>1, <1>2, <2>1 DEF InstallInv, ReadsOK
  <2>4. CoversOK'
    BY <1>1, <1>2, <2>1 DEF InstallInv, CoversOK
  <2>5. ReadingsStay'
    BY <1>1, <1>2, <2>1 DEF InstallInv, ReadingsStay
  <2> QED
    BY <2>2, <2>3, <2>4, <2>5 DEF InstallInv
<1> QED
  BY <1>3, <1>4

\* The store in the making has read what its walk read.
LEMMA FreshEndInstalls ==
    ASSUME GateInv, InstallInv, NEW w \in DOMAIN walks, FreshEnd(w)
    PROVE  InstallInv'
<1>1. /\ walks[w].state = "running" /\ walks[w].fresh
      /\ walks' = [walks EXCEPT ![w].state = "ok"]
      /\ rebuild' = [rebuild EXCEPT !.pc = "seeding", !.read = walks[w].read]
      /\ disk' = disk /\ holds' = holds /\ outrun' = outrun
  BY DEF FreshEnd
<1>2. /\ DOMAIN walks' = DOMAIN walks
      /\ walks'[w].state = "ok" /\ walks'[w].fresh = walks[w].fresh
      /\ walks'[w].key = walks[w].key /\ walks'[w].read = walks[w].read
      /\ \A v \in DOMAIN walks : v # w => walks'[v] = walks[v]
      /\ \A v \in DOMAIN walks : walks'[v].read = walks[v].read /\ walks[v].read \in Int
  BY <1>1, SettledShape DEF Settled
<1>3. /\ rebuild'.pc = "seeding" /\ rebuild'.read = walks[w].read
      /\ rebuild'.caught = rebuild.caught
      /\ rebuild' \in [pc : {"none", "walking", "seeding"}, walk : Nat, read : Int, caught : Int]
  BY <1>1, <1>2 DEF InstallInv, RebuildOK
<1>4. \A v \in DOMAIN walks : v # w /\ walks[v].fresh => walks[v].state \in Settled
  BY <1>1 DEF InstallInv, RebuildOK, Settled
<1>5. RebuildOK'
  BY <1>2, <1>3, <1>4 DEF RebuildOK, Settled
<1>6. ReadsOK'
  BY <1>1, <1>2, <1>3 DEF InstallInv, ReadsOK
<1>7. CoversOK'
  BY <1>1, <1>2, <1>3, <1>4 DEF InstallInv, CoversOK, Settled
<1>8. ReadingsStay'
  BY <1>1, <1>2 DEF InstallInv, ReadingsStay
<1> QED
  BY <1>5, <1>6, <1>7, <1>8 DEF InstallInv

LEMMA FailInstalls ==
    ASSUME GateInv, InstallInv, NEW w \in DOMAIN walks, Fail(w)
    PROVE  InstallInv'
<1>1. /\ walks[w].state = "running" /\ walks' = [walks EXCEPT ![w].state = "failed"]
      /\ rebuild' = IF walks[w].fresh THEN NoRebuild ELSE rebuild
      /\ disk' = disk /\ holds' = holds /\ outrun' = outrun /\ disk \in Nat
  BY DEF Fail, GateInv
<1>2. /\ DOMAIN walks' = DOMAIN walks
      /\ walks'[w].state = "failed" /\ walks'[w].fresh = walks[w].fresh
      /\ \A v \in DOMAIN walks : v # w => walks'[v] = walks[v]
      /\ \A v \in DOMAIN walks : walks'[v].read = walks[v].read /\ walks[v].read \in Int
  BY <1>1, SettledShape DEF Settled
<1>3. /\ NoRebuild.pc = "none" /\ NoRebuild.read = -1 /\ NoRebuild.caught = -1
      /\ NoRebuild \in [pc : {"none", "walking", "seeding"}, walk : Nat, read : Int, caught : Int]
  BY DEF NoRebuild
<1>4. walks[w].fresh => \A v \in DOMAIN walks : v # w /\ walks[v].fresh
                                                  => walks[v].state \in Settled
  BY <1>1 DEF InstallInv, RebuildOK, Settled
<1>5. RebuildOK'
  BY <1>1, <1>2, <1>3, <1>4 DEF InstallInv, RebuildOK, Settled
<1>6. ReadsOK'
  BY <1>1, <1>2, <1>3 DEF InstallInv, ReadsOK
<1>7. CoversOK'
  BY <1>1, <1>2, <1>3, <1>4 DEF InstallInv, CoversOK, Settled
<1>8. ReadingsStay'
  BY <1>1, <1>2 DEF InstallInv, ReadingsStay
<1> QED
  BY <1>5, <1>6, <1>7, <1>8 DEF InstallInv

\* The store swapped in holds what the one it replaces held.
LEMMA SwapInstalls ==
    ASSUME GateInv, InstallInv, Swap
    PROVE  InstallInv'
<1>1. /\ rebuild.pc = "seeding" /\ holds' = Larger(rebuild.read, rebuild.caught)
      /\ rebuild' = NoRebuild /\ walks' = walks /\ disk' = disk /\ outrun' = outrun
      /\ disk \in Nat
  BY DEF Swap, TakenAlong, gateVars, GateInv
<1>2. /\ rebuild.read \in Int /\ rebuild.caught \in Int /\ holds \in Int
      /\ rebuild.read <= disk /\ rebuild.caught <= disk
      /\ holds <= rebuild.read \/ holds <= rebuild.caught
  BY <1>1 DEF InstallInv, RebuildOK, ReadsOK, CoversOK
<1>3. holds' \in Int /\ holds' <= disk /\ holds <= holds'
  BY <1>1, <1>2 DEF Larger
<1>4. /\ NoRebuild.pc = "none" /\ NoRebuild.read = -1 /\ NoRebuild.caught = -1
      /\ NoRebuild \in [pc : {"none", "walking", "seeding"}, walk : Nat, read : Int, caught : Int]
  BY DEF NoRebuild
<1>5. \A w \in DOMAIN walks : walks[w].fresh => walks[w].state \in Settled
  BY <1>1 DEF InstallInv, RebuildOK
<1>6. RebuildOK'
  BY <1>1, <1>4, <1>5 DEF RebuildOK
<1>7. ReadsOK'
  BY <1>1, <1>3, <1>4 DEF InstallInv, ReadsOK
<1>8. CoversOK'
  BY <1>1, <1>4, <1>5 DEF CoversOK, Settled
<1>9. ReadingsStay'
  <2>1. \A w \in DOMAIN walks : walks[w].read \in Int
    BY WalkTypes
  <2> QED
    BY <1>1, <1>2, <1>3, <2>1 DEF InstallInv, ReadingsStay
<1> QED
  BY <1>6, <1>7, <1>8, <1>9 DEF InstallInv

LEMMA SeedFailsInstalls ==
    ASSUME GateInv, InstallInv, SeedFails
    PROVE  InstallInv'
<1>1. /\ rebuild.pc = "seeding" /\ rebuild' = NoRebuild /\ walks' = walks /\ disk' = disk
      /\ holds' = holds /\ outrun' = outrun /\ disk \in Nat
  BY DEF SeedFails, gateVars, GateInv
<1>2. /\ NoRebuild.pc = "none" /\ NoRebuild.read = -1 /\ NoRebuild.caught = -1
      /\ NoRebuild \in [pc : {"none", "walking", "seeding"}, walk : Nat, read : Int, caught : Int]
  BY DEF NoRebuild
<1>3. \A w \in DOMAIN walks : walks[w].fresh => walks[w].state \in Settled
  BY <1>1 DEF InstallInv, RebuildOK
<1>4. RebuildOK'
  BY <1>1, <1>2, <1>3 DEF RebuildOK
<1>5. ReadsOK'
  BY <1>1, <1>2 DEF InstallInv, ReadsOK
<1>6. CoversOK'
  BY <1>1, <1>2, <1>3 DEF CoversOK, Settled
<1>7. ReadingsStay'
  BY <1>1 DEF InstallInv, ReadingsStay
<1> QED
  BY <1>4, <1>5, <1>6, <1>7 DEF InstallInv

LEMMA ChangeInstalls ==
    ASSUME GateInv, InstallInv, Change
    PROVE  InstallInv'
<1>1. /\ disk' = disk + 1 /\ disk \in Nat /\ walks' = walks /\ holds' = holds
      /\ rebuild' = rebuild /\ outrun' = outrun
  BY DEF Change, GateInv, gateVars, installVars
<1>2. ReadsOK'
  <2>1. /\ holds \in Int /\ rebuild.read \in Int /\ rebuild.caught \in Int
        /\ \A w \in DOMAIN walks : walks[w].read \in Int
    BY WalkTypes DEF InstallInv, RebuildOK, ReadsOK
  <2> QED
    BY <1>1, <2>1 DEF InstallInv, ReadsOK
<1> QED
  BY <1>1, <1>2 DEF InstallInv, RebuildOK, CoversOK, ReadingsStay

LEMMA InstallStep ==
    ASSUME GateInv, InstallInv, [Next]_vars
    PROVE  InstallInv'
<1>1. CASE Walk \/ Rebuild
  BY <1>1, QueueInstalls DEF Walk, Rebuild, installVars
<1>2. ASSUME NEW key \in Keys, Join(key) PROVE InstallInv'
  BY <1>2 DEF Join, installVars, InstallInv, RebuildOK, ReadsOK, CoversOK, ReadingsStay
<1>3. ASSUME NEW key \in Keys, Rescan(key) PROVE InstallInv'
  BY <1>3, QueueInstalls DEF Rescan, installVars
<1>4. ASSUME NEW w \in DOMAIN walks, Start(w) PROVE InstallInv'
  <2>1. PICK walk \in Walks :
          /\ walks' = [walks EXCEPT ![w] = walk]
          /\ walk.state = "running" /\ walk.read = disk /\ walk.fresh = walks[w].fresh
          /\ walk.key = walks[w].key /\ walk.after = walks[w].after
    BY <1>4, StartShape
  <2> QED
    BY <1>4, <2>1, ReadsInstalls DEF Start
<1>5. ASSUME NEW w \in DOMAIN walks, Again(w) PROVE InstallInv'
  <2> DEFINE walk == [walks[w] EXCEPT !.read = disk, !.of = store]
  <2>1. disk \in Int /\ store \in Int /\ walks[w] \in Walks /\ walks[w].state = "running"
    BY <1>5 DEF GateInv, ChainOK, Again
  <2>2. /\ walk \in Walks /\ walk.state = "running" /\ walk.read = disk
        /\ walk.fresh = walks[w].fresh
    BY <2>1 DEF Walks
  <2>3. walks' = [walks EXCEPT ![w] = walk] /\ UNCHANGED <<disk, installVars>>
    BY <1>5 DEF Again
  <2> HIDE DEF walk
  <2> QED
    BY <2>1, <2>2, <2>3, ReadsInstalls
<1>6. CASE UNCHANGED vars
  BY <1>6 DEF vars, InstallInv, RebuildOK, ReadsOK, CoversOK, ReadingsStay
<1> QED
  BY <1>1, <1>2, <1>3, <1>4, <1>5, <1>6, EndInstalls, FreshEndInstalls, FailInstalls,
     SwapInstalls, SeedFailsInstalls, ChangeInstalls DEF Next

\* What a walk of the roots or of a recovery read, and what a rescan read into
\* a store that was not replaced meanwhile, the installed store never loses:
\* `scanAndPoke` walks again when its store was replaced, and a rebuild takes
\* along what the store it replaces heard since before the rebuild's own walk
\* (`rebuildEngine`), whatever rebuild fails, and when.
THEOREM ReadingsStayHolds == Spec => []ReadingsStay
<1>1. Init => InstallInv
  BY InstallInit
<1>2. GateInv /\ InstallInv /\ [Next]_vars => InstallInv'
  BY InstallStep
<1>3. InstallInv => ReadingsStay
  BY DEF InstallInv
<1> QED
  BY <1>1, <1>2, <1>3, GateInvariant, PTL DEF Spec

-------------------------------------------------------------------------------
(* The reconcile chain *)

USE ReconcileAssumption

-------------------------------------------------------------------------------
(* The inductive invariant of the chain and its driver *)

SettingsChanges == [from : Admissions, to : Admissions]
Moves(change) == change.from # change.to

\* The driver has not asked for the rebuild of change i yet.
Unasked(i) == i > 1 \/ driver = "idle"

LeftOK ==
    /\ left = [edits |-> left.edits, toggles |-> left.toggles,
               mismatches |-> left.mismatches, faults |-> left.faults]
    /\ left.faults \in 0 .. MaxThrows

QueueType == changes \in Seq(SettingsChanges) /\ (driver # "idle" => changes # <<>>)

ChainType ==
    /\ tracked \in Admissions /\ live \in Admissions
    /\ fresh \in {NoStore} \cup Admissions /\ retained \in {NoStore} \cup Admissions
    /\ QueueType /\ driver \in {"idle", "waiting", "resumed"}
    /\ wanted \in BOOLEAN /\ replica \in BOOLEAN /\ suspended \in BOOLEAN
    /\ pendingReconcile \in BOOLEAN /\ pendingResync \in BOOLEAN
    /\ pendingRebuild \in BOOLEAN /\ pendingRelease \in BOOLEAN
    /\ pass \in Awaits \cup {"idle", "queued", "second"}
    /\ fresh # NoStore <=> pass \in WalkPasses
    /\ hub \subseteq Classes
    /\ marker \in [key : Admissions, done : SUBSET Classes]
    /\ LeftOK

\* What is pending keeps the chain running, and the driver's turn comes after it.
TurnsOK ==
    /\ pendingReconcile => pass # "idle"
    /\ pendingRebuild =>
         pass \in {"queued", "second", "attach", "discard", "detachWalk"} \/ pendingReconcile
    /\ driver = "waiting" => pass # "idle"
    /\ driver = "resumed" => pass = "idle"

\* The queue leads to the admission in force, each change from where those before left.
QueueOK ==
    /\ \A i \in DOMAIN changes :
         changes[i].to = tracked
         \/ \E j \in DOMAIN changes : j > i /\ Moves(changes[j]) /\ changes[j].to = tracked
    /\ \A m, i \in DOMAIN changes : m < i =>
         changes[i].from = changes[m].to
         \/ \E j \in DOMAIN changes : /\ m < j /\ j < i /\ Moves(changes[j])
                                      /\ changes[j].to = changes[i].from

\* A store is of the admission in force, or a rebuild is still to be asked for.
Fits(s) ==
    /\ s = tracked \/ \E i \in DOMAIN changes : Moves(changes[i]) /\ Unasked(i)
    /\ \/ Admits(s) \subseteq Admits(tracked)
       \/ \E i \in DOMAIN changes : Restrictive(changes[i]) /\ Unasked(i)

StoresOK ==
    ~pendingRebuild => /\ pass \notin {"unlink", "walk", "resyncWalk"} => Fits(live)
                       /\ fresh # NoStore => Fits(fresh)

\* A change away from the admission in force is queued: its end resets the repair.
Doubted == \E i \in DOMAIN changes : Moves(changes[i]) /\ changes[i].to # tracked

\* What the done list names is off the Hub, and nothing brings it back.
DoneOK ==
    marker.key = tracked /\ ~Doubted =>
        /\ marker.done \cap (hub \cup Admits(tracked) \cup Admits(live)) = {}
        /\ fresh # NoStore => marker.done \cap Admits(fresh) = {}

\* With no change queued, all is of the admission in force.
SettledOK ==
    (\A i \in DOMAIN changes : ~Moves(changes[i])) =>
        /\ marker.key = tracked /\ hub \subseteq Admits(tracked) /\ live = tracked
        /\ fresh # NoStore => fresh = tracked

PassesOK == TurnsOK /\ QueueOK /\ StoresOK /\ DoneOK /\ SettledOK /\ RetainedIsAdmitted

ReconcileInv == ChainType /\ (NoneThrew => PassesOK)

-------------------------------------------------------------------------------
(* The queue *)

LEMMA QueueAppended ==
    ASSUME NEW S, NEW q \in Seq(S), NEW e \in S
    PROVE  /\ DOMAIN q = 1 .. Len(q) /\ Len(q) \in Nat
           /\ DOMAIN Append(q, e) = DOMAIN q \cup {Len(q) + 1}
           /\ \A i \in DOMAIN q : Append(q, e)[i] = q[i] /\ q[i] \in S /\ i < Len(q) + 1
           /\ Append(q, e)[Len(q) + 1] = e
<1>1. /\ Append(q, e) \in Seq(S) /\ Len(Append(q, e)) = Len(q) + 1
      /\ Append(q, e)[Len(q) + 1] = e
      /\ \A i \in 1 .. Len(q) : Append(q, e)[i] = q[i]
  BY AppendProperties
<1>2. Len(q) \in Nat /\ DOMAIN q = 1 .. Len(q) /\ \A i \in 1 .. Len(q) : q[i] \in S
  BY LenProperties, ElementOfSeq
<1>3. DOMAIN Append(q, e) = 1 .. Len(q) + 1
  BY <1>1, LenProperties
<1> QED
  BY <1>1, <1>2, <1>3

LEMMA QueueShifted ==
    ASSUME NEW S, NEW q \in Seq(S), q # <<>>
    PROVE  /\ Tail(q) \in Seq(S) /\ 1 \in DOMAIN q /\ Head(q) = q[1]
           /\ \A i \in DOMAIN q : i \in Nat \ {0} /\ q[i] \in S
           /\ \A i \in DOMAIN Tail(q) :
                i \in Nat \ {0} /\ i + 1 \in DOMAIN q /\ Tail(q)[i] = q[i + 1]
           /\ \A i \in DOMAIN q : i > 1 => i - 1 \in DOMAIN Tail(q) /\ Tail(q)[i - 1] = q[i]
<1>1. Len(q) \in Nat /\ DOMAIN q = 1 .. Len(q) /\ (\A i \in 1 .. Len(q) : q[i] \in S)
      /\ Len(q) # 0
  BY LenProperties, ElementOfSeq, EmptySeq
<1>2. /\ Tail(q) \in Seq(S) /\ Head(q) = q[1] /\ Len(Tail(q)) = Len(q) - 1
      /\ \A i \in 1 .. Len(Tail(q)) : Tail(q)[i] = q[i + 1]
  BY HeadTailProperties
<1>3. DOMAIN Tail(q) = 1 .. Len(q) - 1
  BY <1>2, LenProperties
<1> QED
  BY <1>1, <1>2, <1>3

-------------------------------------------------------------------------------
(* Types *)

LEMMA AdmitsIs ==
    ASSUME NEW a \in Admissions
    PROVE  /\ Admits(a) \subseteq Classes
           /\ a = Unruled => Admits(a) = Classes
           /\ a # Unruled => Admits(a) = a
BY DEF Admits, Admissions

LEMMA NoStoreIsNone == NoStore \notin Admissions /\ Unruled \in Admissions
BY DEF Admissions

LEMMA SpendIs ==
    ASSUME LeftOK, NEW what \in {"edits", "toggles", "mismatches", "faults"}, Spend(what)
    PROVE  /\ LeftOK' /\ (NoneThrew' => NoneThrew)
           /\ what = "faults" => ~NoneThrew'
<1>1. CASE what = "edits"
  BY <1>1 DEF Spend, LeftOK, NoneThrew
<1>2. CASE what = "toggles"
  BY <1>2 DEF Spend, LeftOK, NoneThrew
<1>3. CASE what = "mismatches"
  BY <1>3 DEF Spend, LeftOK, NoneThrew
<1>4. CASE what = "faults"
  <2>1. /\ left.faults > 0
        /\ left' = [edits |-> left.edits, toggles |-> left.toggles,
                    mismatches |-> left.mismatches, faults |-> left.faults - 1]
    BY <1>4 DEF Spend, LeftOK
  <2>2. left'.faults = left.faults - 1 /\ left.faults \in 0 .. MaxThrows
    BY <2>1 DEF LeftOK
  <2> QED
    BY <1>4, <2>1, <2>2 DEF LeftOK, NoneThrew
<1> QED
  BY <1>1, <1>2, <1>3, <1>4

LEMMA ChainTypeHolds ==
    ASSUME ChainType
    PROVE  ReconcileTypeOK
<1>1. /\ {tracked, live} \subseteq Admissions
      /\ {fresh, retained} \subseteq {NoStore} \cup Admissions
      /\ {wanted, replica, suspended, pendingReconcile, pendingResync, pendingRebuild,
          pendingRelease} \subseteq BOOLEAN
  BY Zenon DEF ChainType
<1>2. (fresh # NoStore) = (pass \in WalkPasses)
  BY DEF ChainType
<1>3. changes \in Seq([from : Admissions, to : Admissions]) /\ (driver # "idle" => changes # <<>>)
  BY DEF ChainType, QueueType, SettingsChanges
<1> QED
  BY <1>1, <1>2, <1>3 DEF ChainType, ReconcileTypeOK

LEMMA ArrivalTypes ==
    ASSUME ChainType,
           Toggle \/ OnEpochMismatch \/ PassThrows \/ SeedCompletes \/ PushContributions
    PROVE  ChainType' /\ (NoneThrew' => NoneThrew)
<1> USE DEF ChainType, storeVars, requestVars, repairVars, Awaits, WalkPasses
<1>1. CASE Toggle
  <2>1. LeftOK' /\ (NoneThrew' => NoneThrew)
    BY <1>1, SpendIs DEF Toggle
  <2>2. QueueType'
    BY <1>1 DEF Toggle, QueueType
  <2>3. wanted' \in BOOLEAN
    BY <1>1, Zenon DEF Toggle
  <2>4. /\ UNCHANGED <<tracked, changes, driver, replica, pendingResync, pendingRebuild,
                       pendingRelease, storeVars, suspended, repairVars>>
        /\ Schedule
    BY <1>1, Zenon DEF Toggle
  <2>5. /\ pass' \in Awaits \cup {"idle", "queued", "second"} /\ pendingReconcile' \in BOOLEAN
        /\ pass' \in WalkPasses <=> pass \in WalkPasses
    BY <2>4 DEF Schedule
  <2> HIDE DEF Awaits, WalkPasses
  <2> QED
    BY <2>1, <2>2, <2>3, <2>4, <2>5, Zenon
<1>2. CASE OnEpochMismatch
  <2>1. LeftOK' /\ (NoneThrew' => NoneThrew)
    BY <1>2, SpendIs DEF OnEpochMismatch
  <2>2. QueueType'
    BY <1>2 DEF OnEpochMismatch, QueueType
  <2> QED
    BY <1>2, <2>1, <2>2 DEF OnEpochMismatch, Schedule
<1>3. CASE PassThrows
  <2>1. LeftOK' /\ (NoneThrew' => NoneThrew)
    BY <1>3, SpendIs DEF PassThrows
  <2>2. QueueType'
    BY <1>3 DEF PassThrows, SettleChain, QueueType
  <2> QED
    BY <1>3, <2>1, <2>2 DEF PassThrows, SettleChain
<1>4. CASE SeedCompletes
  <2>1. LeftOK' /\ QueueType' /\ (NoneThrew' => NoneThrew)
    BY <1>4 DEF SeedCompletes, LeftOK, QueueType, NoneThrew
  <2> QED
    BY <1>4, <2>1 DEF SeedCompletes
<1>5. CASE PushContributions
  <2>1. LeftOK' /\ QueueType' /\ (NoneThrew' => NoneThrew)
    BY <1>5 DEF PushContributions, LeftOK, QueueType, NoneThrew
  <2> QED
    BY <1>5, <2>1, AdmitsIs DEF PushContributions
<1> QED
  BY <1>1, <1>2, <1>3, <1>4, <1>5

LEMMA EditType ==
    ASSUME ChainType, NEW next \in Admissions, Edit(next)
    PROVE  ChainType' /\ (NoneThrew' => NoneThrew)
<1> USE DEF ChainType, requestVars, repairVars
<1>1. LeftOK' /\ (NoneThrew' => NoneThrew)
  BY SpendIs DEF Edit
<1> DEFINE change == [from |-> tracked, to |-> next]
<1>2. change \in SettingsChanges
  BY DEF SettingsChanges
<1>3. changes' = Append(changes, change)
  BY DEF Edit
<1> HIDE DEF change
<1>4. changes' \in Seq(SettingsChanges) /\ changes' # <<>>
  BY <1>2, <1>3, QueueAppended, AppendProperties, EmptySeq DEF QueueType
<1>5. QueueType'
  BY <1>4 DEF QueueType
<1> QED
  BY <1>1, <1>5 DEF Edit

LEMMA PassTypes ==
    ASSUME ChainType, BeginPass \/ Attached \/ Removed \/ SecondPart \/ SwapStore
    PROVE  ChainType' /\ (NoneThrew' => NoneThrew)
<1> USE NoStoreIsNone DEF ChainType, storeVars, requestVars, repairVars, Awaits, WalkPasses
<1>1. LeftOK' /\ (NoneThrew' => NoneThrew)
  BY DEF BeginPass, Attached, Removed, SecondPart, SwapStore, LeftOK, NoneThrew
<1>2. QueueType'
  BY DEF BeginPass, Attached, Removed, SecondPart, SwapStore, EndPass, QueueType
<1>3. CASE BeginPass
  BY <1>1, <1>2, <1>3 DEF BeginPass
<1>4. CASE Attached
  BY <1>1, <1>2, <1>4 DEF Attached
<1>5. CASE Removed
  BY <1>1, <1>2, <1>5 DEF Removed, StartWalk
<1>6. CASE SecondPart
  BY <1>1, <1>2, <1>6 DEF SecondPart, StartWalk, EndPass, ResyncView
<1>7. CASE SwapStore
  BY <1>1, <1>2, <1>7 DEF SwapStore, EndPass
<1> QED
  BY <1>3, <1>4, <1>5, <1>6, <1>7

LEMMA DriverTypes ==
    ASSUME ChainType, Apply \/ Settle
    PROVE  ChainType' /\ (NoneThrew' => NoneThrew)
<1> USE NoStoreIsNone DEF ChainType, storeVars, requestVars, Awaits, WalkPasses
<1>1. LeftOK' /\ (NoneThrew' => NoneThrew)
  BY DEF Apply, Settle, LeftOK, NoneThrew
<1>q. changes \in Seq(SettingsChanges)
  BY DEF QueueType
<1>2. QueueType'
  <2>1. CASE Settle
    <3>1. changes # <<>> /\ changes' = Tail(changes) /\ driver' = "idle"
      BY <2>1 DEF Settle, QueueType
    <3> QED
      BY <1>q, <3>1, QueueShifted DEF QueueType
  <2>2. CASE Apply
    <3>1. /\ driver = "idle" /\ changes # <<>>
          /\ \/ changes' = Tail(changes) /\ driver' = "idle"
             \/ changes' = changes
      BY <2>2 DEF Apply
    <3>2. Tail(changes) \in Seq(SettingsChanges)
      BY <1>q, <3>1, QueueShifted
    <3> QED
      BY <1>q, <3>1, <3>2, Zenon DEF QueueType
  <2> QED
    BY <2>1, <2>2
<1>3. CASE Apply
  BY <1>1, <1>2, <1>3 DEF Apply, RequestRebuild, Schedule, repairVars
<1>4. CASE Settle
  <2>1. hub' \subseteq Classes /\ marker' \in [key : Admissions, done : SUBSET Classes]
    BY <1>4, AdmitsIs DEF Settle, Repair, ResetRepair
  <2> QED
    BY <1>1, <1>2, <1>4, <2>1 DEF Settle
<1> QED
  BY <1>3, <1>4

-------------------------------------------------------------------------------
(* What arrives *)

LEMMA RequestKeeps ==
    ASSUME ChainType, PassesOK, Toggle \/ OnEpochMismatch, TurnEnded
    PROVE  PassesOK'
<1> USE DEF PassesOK
<1>0. /\ UNCHANGED <<tracked, changes, driver, pendingRebuild, live, fresh, retained, hub,
                     marker>>
      /\ Schedule /\ driver # "resumed"
  BY Zenon DEF Toggle, OnEpochMismatch, TurnEnded, storeVars, repairVars
<1>1. TurnsOK'
  BY <1>0 DEF TurnsOK, Schedule
<1>2. (QueueOK /\ DoneOK /\ SettledOK /\ RetainedIsAdmitted)'
  BY <1>0 DEF QueueOK, DoneOK, Doubted, SettledOK, RetainedIsAdmitted, Moves, Restrictive,
              Additive
<1>3. StoresOK'
  BY <1>0 DEF StoresOK, Fits, Unasked, Moves, Restrictive, Additive, Schedule
<1> QED
  BY <1>1, <1>2, <1>3

LEMMA SeedCompletesKeeps ==
    ASSUME ChainType, PassesOK, SeedCompletes
    PROVE  PassesOK'
<1> USE DEF PassesOK
<1>0. /\ UNCHANGED <<tracked, changes, driver, pass, pendingReconcile, pendingRebuild, live,
                     fresh, hub, marker>>
      /\ retained' = NoStore
  BY DEF SeedCompletes, requestVars, repairVars
<1>1. RetainedIsAdmitted'
  BY <1>0 DEF RetainedIsAdmitted
<1>2. (TurnsOK /\ QueueOK /\ DoneOK /\ SettledOK /\ StoresOK)'
  BY <1>0 DEF TurnsOK, QueueOK, DoneOK, Doubted, SettledOK, StoresOK, Fits, Unasked, Moves,
              Restrictive, Additive
<1> QED
  BY <1>1, <1>2

LEMMA PushKeeps ==
    ASSUME ChainType, PassesOK, PushContributions
    PROVE  PassesOK'
<1> USE DEF PassesOK
<1>0. /\ UNCHANGED <<tracked, changes, driver, pass, pendingReconcile, pendingRebuild, live,
                     fresh, retained, marker>>
      /\ hub' = hub \cup Admits(live)
  BY DEF PushContributions, requestVars, storeVars
<1>1. (TurnsOK /\ QueueOK /\ StoresOK /\ RetainedIsAdmitted)'
  BY <1>0 DEF TurnsOK, QueueOK, StoresOK, Fits, Unasked, Moves, Restrictive, Additive,
              RetainedIsAdmitted
<1>2. DoneOK'
  BY <1>0 DEF DoneOK, Doubted, Moves
<1>3. SettledOK'
  BY <1>0 DEF SettledOK, Moves
<1> QED
  BY <1>1, <1>2, <1>3

LEMMA EditKeeps ==
    ASSUME ChainType, PassesOK, NEW next \in Admissions, Edit(next)
    PROVE  PassesOK'
<1> USE DEF PassesOK
<1> DEFINE change == [from |-> tracked, to |-> next]
           n == Len(changes) + 1
<1>0. /\ UNCHANGED <<driver, pass, pendingReconcile, pendingRebuild, live, fresh, hub, marker>>
      /\ changes' = Append(changes, change) /\ tracked' = next
      /\ retained' = IF Restrictive(change) THEN NoStore ELSE retained
  BY DEF Edit, requestVars, repairVars
<1>1. change \in SettingsChanges /\ change.from = tracked /\ change.to = next
  BY DEF ChainType, SettingsChanges
<1> HIDE DEF change
<1>2. /\ DOMAIN changes = 1 .. Len(changes) /\ Len(changes) \in Nat
      /\ DOMAIN changes' = DOMAIN changes \cup {n}
      /\ \A i \in DOMAIN changes : changes'[i] = changes[i] /\ i < n
      /\ changes'[n] = change /\ n \in Nat
  BY <1>0, <1>1, QueueAppended DEF ChainType, QueueType
<1>3. n > 1 \/ driver = "idle"
  BY <1>2, EmptySeq DEF ChainType, QueueType
<1> HIDE DEF n
<1>4. tracked # next => Moves(change)
  BY <1>1 DEF Moves
<1>5. Restrictive(change) \/ Admits(tracked) \subseteq Admits(next)
  BY <1>1, AdmitsIs DEF Restrictive, Additive, ChainType
<1>6. TurnsOK'
  BY <1>0 DEF TurnsOK
<1>7. QueueOK'
  <2>1. \A i \in DOMAIN changes' :
          changes'[i].to = tracked'
          \/ \E j \in DOMAIN changes' : j > i /\ Moves(changes'[j]) /\ changes'[j].to = tracked'
    BY <1>0, <1>1, <1>2, <1>4 DEF QueueOK
  <2>2. \A m, i \in DOMAIN changes' : m < i =>
          changes'[i].from = changes'[m].to
          \/ \E j \in DOMAIN changes' : /\ m < j /\ j < i /\ Moves(changes'[j])
                                        /\ changes'[j].to = changes'[i].from
    BY <1>1, <1>2 DEF QueueOK
  <2> QED
    BY <2>1, <2>2 DEF QueueOK, Moves
<1>8. ASSUME NEW s, Fits(s)
      PROVE  /\ s = tracked' \/ \E i \in DOMAIN changes' : Moves(changes'[i]) /\ Unasked(i)'
             /\ \/ Admits(s) \subseteq Admits(tracked')
                \/ \E i \in DOMAIN changes' : Restrictive(changes'[i]) /\ Unasked(i)'
  BY <1>0, <1>2, <1>3, <1>4, <1>5, <1>8 DEF Fits, Unasked
<1>9. StoresOK'
  BY <1>0, <1>8 DEF StoresOK, Fits, Moves, Restrictive, Additive, Admits
<1>10. RetainedIsAdmitted'
  BY <1>0, <1>2, <1>3, <1>5 DEF RetainedIsAdmitted, Restrictive, Additive, Admits
<1>11. DoneOK'
  BY <1>0, <1>1, <1>2, <1>4 DEF DoneOK, Doubted, QueueOK, SettledOK, Moves, Admits
<1>12. SettledOK'
  BY <1>0, <1>1, <1>2, <1>4 DEF SettledOK, Moves, Admits
<1> QED
  BY <1>6, <1>7, <1>9, <1>10, <1>11, <1>12

-------------------------------------------------------------------------------
(* The pass *)

\* What a step of the pass leaves alone beside the stores.
PassFrame == UNCHANGED <<tracked, changes, hub, marker>> /\ (driver' = "idle" <=> driver = "idle")

LEMMA PassFrameKeeps ==
    ASSUME PassesOK, PassFrame
    PROVE  /\ QueueOK' /\ (Doubted' <=> Doubted)
           /\ \A s : (s = tracked' \/ \E i \in DOMAIN changes' : Moves(changes'[i]) /\ Unasked(i)')
                     <=> (s = tracked \/ \E i \in DOMAIN changes : Moves(changes[i]) /\ Unasked(i))
           /\ \A s : (\/ Admits(s) \subseteq Admits(tracked')
                      \/ \E i \in DOMAIN changes' : Restrictive(changes'[i]) /\ Unasked(i)')
                     <=> \/ Admits(s) \subseteq Admits(tracked)
                         \/ \E i \in DOMAIN changes : Restrictive(changes[i]) /\ Unasked(i)
BY DEF PassFrame, PassesOK, QueueOK, Doubted, Unasked

LEMMA BeginPassKeeps ==
    ASSUME ChainType, PassesOK, BeginPass
    PROVE  PassesOK'
<1> USE DEF PassesOK
<1>0. /\ UNCHANGED <<tracked, changes, driver, pendingRebuild, live, fresh, hub, marker>>
      /\ retained' \in {NoStore, retained}
      /\ pass = "queued" /\ pass' \in {"attach", "discard", "second"}
      /\ pendingReconcile' = FALSE
  BY DEF BeginPass, repairVars
<1>1. TurnsOK'
  BY <1>0 DEF TurnsOK
<1>2. StoresOK'
  BY <1>0 DEF StoresOK, Fits, Unasked, Moves, Restrictive, Additive
<1>3. (QueueOK /\ DoneOK /\ SettledOK)'
  BY <1>0 DEF QueueOK, DoneOK, Doubted, SettledOK, Moves
<1>4. RetainedIsAdmitted'
  BY <1>0 DEF RetainedIsAdmitted, Restrictive, Additive
<1> QED
  BY <1>1, <1>2, <1>3, <1>4

LEMMA AttachedKeeps ==
    ASSUME ChainType, PassesOK, Attached
    PROVE  PassesOK'
<1> USE DEF PassesOK
<1>0. /\ UNCHANGED <<tracked, changes, driver, pendingReconcile, pendingRebuild, live, fresh,
                     retained, hub, marker>>
      /\ pass = "attach" /\ pass' = "second"
  BY DEF Attached, repairVars, storeVars, requestVars
<1>1. TurnsOK'
  BY <1>0 DEF TurnsOK
<1>2. StoresOK'
  BY <1>0 DEF StoresOK, Fits, Unasked, Moves, Restrictive, Additive
<1>3. (QueueOK /\ DoneOK /\ SettledOK /\ RetainedIsAdmitted)'
  BY <1>0 DEF QueueOK, DoneOK, Doubted, SettledOK, Moves, RetainedIsAdmitted, Restrictive,
              Additive
<1> QED
  BY <1>1, <1>2, <1>3

LEMMA RemovedKeeps ==
    ASSUME ChainType, PassesOK, Removed
    PROVE  PassesOK'
<1> USE DEF PassesOK
<1>0. /\ UNCHANGED <<tracked, changes, driver, pendingReconcile, pendingRebuild, live,
                     retained, hub, marker>>
      /\ \/ pass = "discard" /\ pass' = "detachWalk"
         \/ pass = "unlink" /\ pass' = "resyncWalk"
      /\ fresh' = tracked
  BY DEF Removed, StartWalk, repairVars, requestVars
<1>1. TurnsOK'
  BY <1>0 DEF TurnsOK
<1>2. StoresOK'
  BY <1>0 DEF StoresOK, Fits, Unasked, Moves, Restrictive, Additive
<1>3. (QueueOK /\ RetainedIsAdmitted)'
  BY <1>0 DEF QueueOK, Moves, RetainedIsAdmitted, Restrictive, Additive
<1>4. (DoneOK /\ SettledOK)'
  BY <1>0 DEF DoneOK, Doubted, SettledOK, Moves
<1> QED
  BY <1>1, <1>2, <1>3, <1>4

LEMMA SecondPartKeeps ==
    ASSUME ChainType, PassesOK, SecondPart
    PROVE  PassesOK'
<1> USE DEF PassesOK
<1>0. /\ UNCHANGED <<tracked, changes, pendingReconcile, live, hub, marker>>
      /\ pass = "second" /\ pendingRebuild' = FALSE /\ driver # "resumed"
      /\ driver' = driver \/ (driver = "waiting" /\ driver' = "resumed")
      /\ \/ /\ driver' = driver
            /\ \/ pass' = "unlink" /\ fresh' = fresh
               \/ pass' \in {"walk", "resyncWalk"} /\ fresh' = tracked
         \/ /\ fresh' = fresh /\ pendingRebuild = FALSE
            /\ \/ pass' = "queued" /\ driver' = driver
               \/ pass' = "idle" /\ driver' # "waiting" /\ ~pendingReconcile
      /\ fresh = NoStore
      /\ retained' \in {NoStore, retained} \/ (retained' = live /\ ~pendingRebuild)
  <2>1. fresh = NoStore /\ pass = "second" /\ driver # "resumed"
    BY DEF SecondPart, ChainType, WalkPasses, TurnsOK
  <2> QED
    BY <2>1 DEF SecondPart, StartWalk, EndPass, ResyncView, repairVars, ChainType
<1>1. TurnsOK'
  BY <1>0 DEF TurnsOK
<1>2. PassFrame
  BY <1>0 DEF PassFrame
<1>3. StoresOK'
  <2>1. /\ pass' \notin {"unlink", "walk", "resyncWalk"} => Fits(live)
        /\ fresh' # NoStore => Fits(fresh')
    BY <1>0 DEF StoresOK, Fits
  <2> QED
    BY <1>0, <1>2, <2>1, PassFrameKeeps DEF StoresOK, Fits
<1>4. RetainedIsAdmitted'
  <2>1. Admits(retained') \subseteq Admits(tracked) \/ retained' = NoStore
        \/ \E i \in DOMAIN changes : Restrictive(changes[i]) /\ Unasked(i)
    BY <1>0 DEF RetainedIsAdmitted, StoresOK, Fits, Unasked
  <2> QED
    BY <1>0, <2>1 DEF RetainedIsAdmitted, Unasked
<1>5. DoneOK' /\ SettledOK'
  BY <1>0 DEF DoneOK, Doubted, SettledOK
<1> QED
  BY <1>1, <1>2, <1>3, <1>4, <1>5, PassFrameKeeps

LEMMA SwapStoreKeeps ==
    ASSUME ChainType, PassesOK, SwapStore
    PROVE  PassesOK'
<1> USE DEF PassesOK
<1>0. /\ UNCHANGED <<tracked, changes, pendingReconcile, pendingRebuild, retained, hub, marker>>
      /\ live' = fresh /\ fresh' = NoStore /\ fresh # NoStore /\ driver # "resumed"
      /\ driver' = driver \/ (driver = "waiting" /\ driver' = "resumed")
      /\ \/ pass = "detachWalk" /\ pass' = "second" /\ driver' = driver
         \/ /\ pass \in {"walk", "resyncWalk"}
            /\ \/ pass' = "queued" /\ driver' = driver
               \/ pass' = "idle" /\ driver' # "waiting" /\ ~pendingReconcile
  <2>1. fresh # NoStore /\ driver # "resumed"
    BY DEF SwapStore, ChainType, WalkPasses, TurnsOK
  <2> QED
    BY <2>1 DEF SwapStore, EndPass, repairVars, requestVars, ChainType, WalkPasses
<1>1. TurnsOK'
  BY <1>0 DEF TurnsOK
<1>2. PassFrame
  BY <1>0 DEF PassFrame
<1>3. StoresOK'
  BY <1>0, <1>2, PassFrameKeeps DEF StoresOK, Fits
<1>4. RetainedIsAdmitted'
  BY <1>0 DEF RetainedIsAdmitted
<1>5. DoneOK' /\ SettledOK'
  BY <1>0 DEF DoneOK, Doubted, SettledOK
<1> QED
  BY <1>1, <1>2, <1>3, <1>4, <1>5, PassFrameKeeps

-------------------------------------------------------------------------------
(* The driver *)

\* The head of the queue is settled, or moved nothing.
LEMMA ShiftKeeps ==
    ASSUME ChainType, PassesOK, changes # <<>>, changes' = Tail(changes), driver' = "idle",
           tracked' = tracked,
           driver = "resumed" \/ (driver = "idle" /\ ~Moves(changes[1]))
    PROVE  /\ QueueOK'
           /\ (\E i \in DOMAIN changes : Moves(changes[i]) /\ Unasked(i))
                => \E i \in DOMAIN changes' : Moves(changes'[i]) /\ Unasked(i)'
           /\ (\E i \in DOMAIN changes : Restrictive(changes[i]) /\ Unasked(i))
                => \E i \in DOMAIN changes' : Restrictive(changes'[i]) /\ Unasked(i)'
           /\ 1 \in DOMAIN changes
           /\ \A i \in DOMAIN changes' : i \in Nat \ {0} /\ i + 1 \in DOMAIN changes
                                         /\ changes'[i] = changes[i + 1]
           /\ \A i \in DOMAIN changes : i \in Nat \ {0} /\
                (i > 1 => i - 1 \in DOMAIN changes' /\ changes'[i - 1] = changes[i])
<1>1. /\ 1 \in DOMAIN changes
      /\ \A i \in DOMAIN changes' : i \in Nat \ {0} /\ i + 1 \in DOMAIN changes
                                    /\ changes'[i] = changes[i + 1]
      /\ \A i \in DOMAIN changes : i \in Nat \ {0} /\
           (i > 1 => i - 1 \in DOMAIN changes' /\ changes'[i - 1] = changes[i])
  BY QueueShifted DEF ChainType, QueueType
<1>2. ASSUME NEW i \in DOMAIN changes, Unasked(i), Moves(changes[i])
      PROVE  i > 1
  BY <1>1, <1>2 DEF Unasked
<1>3. ASSUME NEW c, Restrictive(c) PROVE Moves(c)
  BY <1>3 DEF Restrictive, Moves
<1>4. QueueOK'
  <2>1. \A i \in DOMAIN changes' :
          changes'[i].to = tracked
          \/ \E j \in DOMAIN changes' : j > i /\ Moves(changes'[j]) /\ changes'[j].to = tracked
    <3> SUFFICES ASSUME NEW i \in DOMAIN changes', changes'[i].to # tracked
                 PROVE  \E j \in DOMAIN changes' : /\ j > i /\ Moves(changes'[j])
                                                   /\ changes'[j].to = tracked
      OBVIOUS
    <3>1. PICK j \in DOMAIN changes : j > i + 1 /\ Moves(changes[j]) /\ changes[j].to = tracked
      BY <1>1 DEF PassesOK, QueueOK
    <3>2. j - 1 \in DOMAIN changes' /\ changes'[j - 1] = changes[j] /\ j - 1 > i
      BY <1>1, <3>1
    <3> QED
      BY <3>1, <3>2
  <2>2. \A m, i \in DOMAIN changes' : m < i =>
          changes'[i].from = changes'[m].to
          \/ \E j \in DOMAIN changes' : /\ m < j /\ j < i /\ Moves(changes'[j])
                                        /\ changes'[j].to = changes'[i].from
    <3> SUFFICES ASSUME NEW m \in DOMAIN changes', NEW i \in DOMAIN changes', m < i,
                        changes'[i].from # changes'[m].to
                 PROVE  \E j \in DOMAIN changes' : /\ m < j /\ j < i /\ Moves(changes'[j])
                                                   /\ changes'[j].to = changes'[i].from
      OBVIOUS
    <3>0. /\ m + 1 \in DOMAIN changes /\ i + 1 \in DOMAIN changes /\ m + 1 < i + 1
          /\ changes[i + 1].from # changes[m + 1].to
      BY <1>1
    <3>1. PICK j \in DOMAIN changes : /\ m + 1 < j /\ j < i + 1 /\ Moves(changes[j])
                                      /\ changes[j].to = changes[i + 1].from
      BY <3>0 DEF PassesOK, QueueOK
    <3>2. /\ j - 1 \in DOMAIN changes' /\ changes'[j - 1] = changes[j]
          /\ m < j - 1 /\ j - 1 < i
      BY <1>1, <3>1
    <3> QED
      BY <1>1, <3>1, <3>2
  <2> QED
    BY <2>1, <2>2 DEF QueueOK, Moves
<1> QED
  BY <1>1, <1>2, <1>3, <1>4 DEF Unasked

LEMMA ApplyKeeps ==
    ASSUME ChainType, PassesOK, Apply
    PROVE  PassesOK'
<1> USE DEF PassesOK
<1>q. changes # <<>> /\ Head(changes) = changes[1] /\ driver = "idle" /\ 1 \in DOMAIN changes
  BY QueueShifted DEF Apply, ChainType, QueueType
<1>1. CASE ~Moves(changes[1])
  <2>0. /\ UNCHANGED <<tracked, driver, pass, pendingReconcile, pendingRebuild, live, fresh,
                       retained, hub, marker>>
        /\ changes' = Tail(changes)
    BY <1>q, <1>1 DEF Apply, Moves, requestVars, repairVars
  <2>1. /\ QueueOK'
        /\ (\E i \in DOMAIN changes : Moves(changes[i]) /\ Unasked(i))
             => \E i \in DOMAIN changes' : Moves(changes'[i]) /\ Unasked(i)'
        /\ (\E i \in DOMAIN changes : Restrictive(changes[i]) /\ Unasked(i))
             => \E i \in DOMAIN changes' : Restrictive(changes'[i]) /\ Unasked(i)'
        /\ \A i \in DOMAIN changes : i \in Nat \ {0} /\
             (i > 1 => i - 1 \in DOMAIN changes' /\ changes'[i - 1] = changes[i])
    BY <1>q, <1>1, <2>0, ShiftKeeps
  <2>2. TurnsOK'
    BY <2>0 DEF TurnsOK
  <2>3. StoresOK'
    BY <2>0, <2>1 DEF StoresOK, Fits
  <2>4. RetainedIsAdmitted'
    BY <2>0, <2>1 DEF RetainedIsAdmitted, Unasked
  <2>5. DoneOK'
    <3>1. Doubted => Doubted'
      <4> SUFFICES ASSUME NEW i \in DOMAIN changes, Moves(changes[i]), changes[i].to # tracked
                   PROVE  \E j \in DOMAIN changes' : Moves(changes'[j]) /\ changes'[j].to # tracked
        BY <2>0 DEF Doubted, Moves
      <4>1. i > 1
        BY <1>1, <2>1
      <4> QED
        BY <2>1, <4>1
    <3> QED
      BY <2>0, <3>1 DEF DoneOK, Admits
  <2>6. SettledOK'
    <3> SUFFICES ASSUME \A i \in DOMAIN changes' : ~Moves(changes'[i])
                 PROVE  \A i \in DOMAIN changes : ~Moves(changes[i])
      BY <2>0 DEF SettledOK, Moves, Admits
    <3>1. ASSUME NEW i \in DOMAIN changes, i > 1 PROVE ~Moves(changes[i])
      BY <2>1, <3>1
    <3>2. ASSUME NEW i \in DOMAIN changes, ~(i > 1) PROVE i = 1
      BY <2>1, <3>2
    <3> QED
      BY <1>1, <3>1, <3>2
  <2> QED
    BY <2>1, <2>2, <2>3, <2>4, <2>5, <2>6
<1>2. CASE Moves(changes[1])
  <2>0. /\ UNCHANGED <<tracked, changes, live, fresh, hub, marker>>
        /\ pendingRebuild' = TRUE /\ driver' = "waiting" /\ Schedule
        /\ retained' = IF Additive(changes[1]) THEN retained ELSE NoStore
    BY <1>q, <1>2 DEF Apply, Moves, RequestRebuild, repairVars
  <2>1. TurnsOK'
    BY <2>0 DEF TurnsOK, Schedule
  <2>2. StoresOK'
    BY <2>0 DEF StoresOK
  <2>3. RetainedIsAdmitted'
    <3>1. retained' = NoStore \/ ~Restrictive(changes[1])
      BY <2>0 DEF Restrictive
    <3>2. \A i \in DOMAIN changes : i \in Nat \ {0}
      BY QueueShifted, <1>q DEF ChainType, QueueType
    <3> QED
      BY <1>q, <2>0, <3>1, <3>2 DEF RetainedIsAdmitted
  <2>4. (QueueOK /\ DoneOK /\ SettledOK)'
    BY <2>0 DEF QueueOK, DoneOK, Doubted, SettledOK
  <2> QED
    BY <2>1, <2>2, <2>3, <2>4
<1> QED
  BY <1>1, <1>2

LEMMA SettleKeeps ==
    ASSUME ChainType, PassesOK, Settle
    PROVE  PassesOK'
<1> USE DEF PassesOK
<1>q. changes # <<>> /\ Head(changes) = changes[1] /\ driver = "resumed"
  BY QueueShifted DEF Settle, ChainType, QueueType
<1>0. /\ UNCHANGED <<tracked, pass, pendingReconcile, pendingRebuild, live, fresh, retained>>
      /\ changes' = Tail(changes) /\ driver' = "idle"
      /\ IF tracked = changes[1].to THEN Repair ELSE ResetRepair
  BY <1>q DEF Settle, requestVars, storeVars
<1>p. pass = "idle" /\ ~pendingRebuild /\ fresh = NoStore
  BY <1>q DEF TurnsOK, ChainType, WalkPasses
<1>1. /\ QueueOK'
      /\ (\E i \in DOMAIN changes : Moves(changes[i]) /\ Unasked(i))
           => \E i \in DOMAIN changes' : Moves(changes'[i]) /\ Unasked(i)'
      /\ (\E i \in DOMAIN changes : Restrictive(changes[i]) /\ Unasked(i))
           => \E i \in DOMAIN changes' : Restrictive(changes'[i]) /\ Unasked(i)'
      /\ 1 \in DOMAIN changes
      /\ \A i \in DOMAIN changes' : i \in Nat \ {0} /\ i + 1 \in DOMAIN changes
                                    /\ changes'[i] = changes[i + 1]
      /\ \A i \in DOMAIN changes : i \in Nat \ {0} /\
           (i > 1 => i - 1 \in DOMAIN changes' /\ changes'[i - 1] = changes[i])
  BY <1>q, <1>0, ShiftKeeps
<1>2. TurnsOK'
  BY <1>0, <1>p DEF TurnsOK
<1>3. StoresOK'
  BY <1>0, <1>1 DEF StoresOK, Fits
<1>4. RetainedIsAdmitted'
  BY <1>0, <1>1 DEF RetainedIsAdmitted, Unasked
<1>5. CASE tracked # changes[1].to
  <2>1. marker'.key = tracked /\ marker'.done = {} /\ hub' = hub
    BY <1>0, <1>5 DEF ResetRepair
  <2>2. DoneOK'
    BY <1>0, <2>1 DEF DoneOK
  <2>3. \E i \in DOMAIN changes' : Moves(changes'[i])
    BY <1>1, <1>5 DEF QueueOK
  <2>4. SettledOK'
    BY <1>0, <2>3 DEF SettledOK
  <2> QED
    BY <1>1, <1>2, <1>3, <1>4, <2>2, <2>4
<1>6. CASE tracked = changes[1].to
  <2> DEFINE done == IF marker.key = tracked THEN marker.done ELSE {}
             foreign == IF tracked = Unruled THEN {} ELSE Classes \ Admits(live)
  <2>1. /\ hub' = hub \ (foreign \ done)
        /\ marker'.key = tracked /\ marker'.done = done \cup foreign
    BY <1>0, <1>6 DEF Repair
  \* Unless a change away is still queued, every change left moves nothing.
  <2>2. ~Doubted' => \A i \in DOMAIN changes' : ~Moves(changes'[i])
    <3> SUFFICES ASSUME NEW i \in DOMAIN changes', Moves(changes'[i]), changes'[i].to = tracked
                 PROVE  \E j \in DOMAIN changes' : Moves(changes'[j]) /\ changes'[j].to # tracked
      BY <1>0 DEF Doubted
    <3>1. changes[i + 1].from # tracked /\ i + 1 \in DOMAIN changes /\ 1 < i + 1
      BY <1>1 DEF Moves
    <3>2. PICK j \in DOMAIN changes : /\ 1 < j /\ j < i + 1 /\ Moves(changes[j])
                                      /\ changes[j].to = changes[i + 1].from
      BY <1>1, <1>6, <3>1 DEF QueueOK
    <3> QED
      BY <1>1, <3>1, <3>2
  <2>3. ASSUME ~Doubted'
        PROVE  /\ live = tracked /\ done \cap (hub \cup Admits(tracked)) = {}
    <3>1. ~Doubted
      <4> SUFFICES ASSUME NEW i \in DOMAIN changes, Moves(changes[i]), changes[i].to # tracked
                   PROVE  FALSE
        BY DEF Doubted
      <4>1. i > 1
        BY <1>1, <1>6
      <4> QED
        BY <1>1, <2>2, <2>3, <4>1
    <3>2. ~\E i \in DOMAIN changes : Moves(changes[i]) /\ Unasked(i)
      BY <1>q, <1>1, <2>2, <2>3 DEF Unasked
    <3>3. live = tracked
      BY <1>p, <3>2 DEF StoresOK, Fits
    <3> QED
      BY <3>1, <3>3 DEF DoneOK
  <2>4. foreign = IF tracked = Unruled THEN {} ELSE Classes \ Admits(live)
    OBVIOUS
  <2>5. tracked \in Admissions /\ hub \subseteq Classes /\ (tracked = Unruled => Admits(tracked) = Classes)
    BY AdmitsIs DEF ChainType
  <2> HIDE DEF done, foreign
  <2>6. DoneOK'
    BY <1>0, <1>p, <2>1, <2>3, <2>4 DEF DoneOK, Admits
  <2>7. SettledOK'
    <3> SUFFICES ASSUME \A i \in DOMAIN changes' : ~Moves(changes'[i])
                 PROVE  hub' \subseteq Admits(tracked) /\ live = tracked
      BY <1>0, <1>p, <2>1 DEF SettledOK, Moves, Admits
    <3>1. ~Doubted'
      BY DEF Doubted, Moves
    <3> QED
      BY <2>1, <2>3, <2>4, <2>5, <3>1
  <2> QED
    BY <1>1, <1>2, <1>3, <1>4, <2>6, <2>7
<1> QED
  BY <1>5, <1>6
-------------------------------------------------------------------------------
(* The theorems *)

LEMMA ReconcileInitOK ==
    ASSUME ReconcileInit
    PROVE  ReconcileInv
<1> USE DEF ReconcileInit
<1>1. LeftOK
  BY DEF LeftOK
<1>2. changes = <<>> /\ QueueType /\ \A i \in DOMAIN changes : FALSE
  BY EmptySeq DEF QueueType
<1>3. ChainType
  BY <1>1, <1>2, AdmitsIs, NoStoreIsNone DEF ChainType, WalkPasses
<1>4. TurnsOK /\ QueueOK /\ RetainedIsAdmitted
  BY <1>2 DEF TurnsOK, QueueOK, RetainedIsAdmitted
<1>5. StoresOK
  BY DEF StoresOK, Fits
<1>6. DoneOK /\ SettledOK
  BY DEF DoneOK, SettledOK
<1> QED
  BY <1>3, <1>4, <1>5, <1>6 DEF ReconcileInv, PassesOK

LEMMA ReconcileStep ==
    ASSUME ReconcileInv, ReconcileNext
    PROVE  ReconcileInv'
<1>1. CASE TurnEnded /\ PassThrows
  <2>1. ChainType' /\ ~NoneThrew'
    BY <1>1, ArrivalTypes, SpendIs DEF ReconcileInv, ChainType, PassThrows
  <2> QED
    BY <2>1 DEF ReconcileInv
<1>2. CASE TurnEnded /\ (Toggle \/ OnEpochMismatch)
  <2>1. ChainType' /\ (NoneThrew' => NoneThrew)
    BY <1>2, ArrivalTypes DEF ReconcileInv
  <2> QED
    BY <1>2, <2>1, RequestKeeps DEF ReconcileInv
<1>3. CASE SeedCompletes \/ PushContributions
  <2>1. ChainType' /\ (NoneThrew' => NoneThrew)
    BY <1>3, ArrivalTypes DEF ReconcileInv
  <2> QED
    BY <1>3, <2>1, SeedCompletesKeeps, PushKeeps DEF ReconcileInv
<1>4. ASSUME NEW next \in Admissions, Edit(next) PROVE ReconcileInv'
  BY <1>4, EditType, EditKeeps DEF ReconcileInv
<1>5. CASE BeginPass \/ Attached \/ Removed \/ SecondPart \/ SwapStore
  <2>1. ChainType' /\ (NoneThrew' => NoneThrew)
    BY <1>5, PassTypes DEF ReconcileInv
  <2> QED
    BY <1>5, <2>1, BeginPassKeeps, AttachedKeeps, RemovedKeeps, SecondPartKeeps, SwapStoreKeeps
    DEF ReconcileInv
<1>6. CASE Apply \/ Settle
  <2>1. ChainType' /\ (NoneThrew' => NoneThrew)
    BY <1>6, DriverTypes DEF ReconcileInv
  <2> QED
    BY <1>6, <2>1, ApplyKeeps, SettleKeeps DEF ReconcileInv
<1> QED
  BY <1>1, <1>2, <1>3, <1>4, <1>5, <1>6 DEF ReconcileNext, Work, Continuation, Arrival

LEMMA ReconcileStutters ==
    ASSUME ReconcileInv, UNCHANGED reconcileVars
    PROVE  ReconcileInv'
<1>0. /\ UNCHANGED <<tracked, changes, driver, wanted, replica, pass, pendingReconcile,
                     pendingResync, pendingRebuild, pendingRelease, live, fresh, retained>>
      /\ UNCHANGED <<suspended, hub, marker, left>>
  BY DEF reconcileVars, requestVars, storeVars, repairVars
<1>1. ChainType' /\ NoneThrew' = NoneThrew
  BY <1>0 DEF ReconcileInv, ChainType, QueueType, LeftOK, NoneThrew
<1>2. PassesOK => PassesOK'
  BY <1>0 DEF PassesOK, TurnsOK, QueueOK, StoresOK, Fits, Unasked, Moves, Restrictive, Additive,
              DoneOK, Doubted, SettledOK, RetainedIsAdmitted
<1> QED
  BY <1>1, <1>2 DEF ReconcileInv

\* The turns of the chain and its driver, the queue of changes, the stores, the
\* done list and the Hub's rows agree until a pass throws (scheduleReconcile,
\* applyChange).
THEOREM ReconcileInvariant == ReconcileSpec => []ReconcileInv
<1>1. ReconcileInv /\ [ReconcileNext]_reconcileVars => ReconcileInv'
  BY ReconcileStep, ReconcileStutters
<1> QED
  BY <1>1, ReconcileInitOK, PTL DEF ReconcileSpec

\* Until a pass throws, the retained report view shows no row the admission
\* excludes unless its release is queued, and the Hub of a client with no edit
\* queued holds admitted rows only, whatever edits, toggles, mismatches and
\* pushes came in whatever order.
THEOREM AdmissionHoldsAlways == ReconcileSpec => []AdmissionHolds
<1>1. ReconcileInv => AdmissionHolds
  <2>1. ASSUME PassesOK, changes = <<>> PROVE hub \subseteq Admits(tracked)
    BY <2>1, EmptySeq DEF PassesOK, SettledOK
  <2> QED
    BY <2>1, ChainTypeHolds
    DEF ReconcileInv, AdmissionHolds, PassesOK, ExcludedLeavesHub
<1> QED
  BY <1>1, ReconcileInvariant, PTL

-------------------------------------------------------------------------------
(* The inductive invariant of the watcher's restarts *)

Watchers == [roots : Roots, state : {"live", "deaf", "mute", "closed"}, report : BOOLEAN,
             timedOut : BOOLEAN, late : BOOLEAN]

\* Every watcher but the installed one is closed.
WatchersOK ==
    /\ watchers \in Seq(Watchers)
    /\ \A w \in DOMAIN watchers : Open(w) => w = current
    /\ \A w \in DOMAIN watchers : watchers[w].late => watchers[w].timedOut

FlagsOK ==
    /\ {recheckOwed, running, closed, exhausted, quiet, degraded} \subseteq BOOLEAN
    /\ recovered \in Nat

Taken == [recheck : BOOLEAN, lost : Nat, next : {{}} \cup Roots,
          reason : {"none", "roots", "recovery"}, first : BOOLEAN]

\* What a restart took and has decided: an installed watcher that lost its watches
\* is closed before its replacement is built, and no recovery runs past the bound.
RestartOK ==
    /\ restart \in Taken /\ (pc = "loop" => restart = NoRestart)
    /\ restart.lost \in {0} \cup DOMAIN watchers
    /\ restart.first => restart.lost = current
    /\ pc \in {"close", "create"} =>
        /\ restart.next \in Roots /\ ~exhausted
        /\ restart.lost = current => restart.first
    /\ pc = "create" /\ restart.first => watchers[current].state = "closed"

\* The bound is met while it says so, and saying so raised the flag.
BoundOK ==
    /\ recovered <= RestartsHeard
    /\ exhausted => incidentRestarts >= RecoveryLimit /\ (ReadyCameLate \/ degraded)

WatcherInv ==
    /\ WatcherRestartsTypeOK /\ WatchersOK /\ FlagsOK /\ RestartOK /\ BoundOK
    /\ ReadyCameLate \/ DeafIsAnswered

LEMMA WatcherStarts ==
    ASSUME WatcherInit
    PROVE  WatcherInv
<1> USE DEF WatcherInit
<1>1. watchers \in Seq(Watchers) /\ DOMAIN watchers = {1} /\ watchers[1].state = "live"
      /\ watchers[1].roots = currentRoots /\ ~watchers[1].timedOut /\ ~watchers[1].late
  BY DEF Watchers
<1>2. WatcherRestartsTypeOK
  BY <1>1, WatcherRestartsAssumption DEF WatcherRestartsTypeOK
<1>3. WatchersOK
  BY <1>1 DEF WatchersOK, Open
<1>4. FlagsOK
  BY DEF FlagsOK
<1>5. RestartOK
  BY DEF RestartOK, Taken, NoRestart
<1>6. BoundOK
  BY DEF BoundOK, RestartsHeard
<1>7. DeafIsAnswered
  BY <1>1 DEF DeafIsAnswered
<1> QED
  BY <1>2, <1>3, <1>4, <1>5, <1>6, <1>7 DEF WatcherInv

-------------------------------------------------------------------------------
(* Requests *)

\* A change of one watcher that opens none keeps the watchers in order.
LEMMA WatcherChanges ==
    ASSUME WatcherInv, NEW w \in DOMAIN watchers, NEW x \in Watchers,
           x.roots = watchers[w].roots, x.state = "closed" \/ watchers[w].state # "closed",
           x.late => x.timedOut, x.timedOut = watchers[w].timedOut,
           x.late => watchers[w].late,
           watchers' = [watchers EXCEPT ![w] = x], current' = current
    PROVE  /\ WatchersOK' /\ DOMAIN watchers' = DOMAIN watchers
           /\ \A v \in DOMAIN watchers : watchers'[v] = IF v = w THEN x ELSE watchers[v]
           /\ watchers'[current].roots = watchers[current].roots
           /\ ReadyCameLate => ReadyCameLate'
<1> USE DEF WatcherInv, WatchersOK, WatcherRestartsTypeOK
<1>1. DOMAIN watchers' = DOMAIN watchers
      /\ \A v \in DOMAIN watchers : watchers'[v] = IF v = w THEN x ELSE watchers[v]
  OBVIOUS
<1>2. watchers' \in Seq(Watchers)
  OBVIOUS
<1>3. WatchersOK'
  BY <1>1, <1>2 DEF Open
<1>4. ReadyCameLate => ReadyCameLate'
  BY <1>1 DEF ReadyCameLate
<1> QED
  BY <1>1, <1>3, <1>4

LEMMA EditStep ==
    ASSUME WatcherInv, NEW roots \in Roots, EditRoots(roots)
    PROVE  WatcherInv'
<1> USE DEF WatcherInv
<1>0. UNCHANGED <<watchers, current, currentRoots, lossOwed, closed, pc, restart,
                  incidentRestarts, exhausted, quiet, recovered, degraded>>
      /\ wantedRoots' \in Roots /\ recheckOwed' \in BOOLEAN /\ running' \in BOOLEAN
      /\ (running => running')
  BY DEF EditRoots, boundVars, FlagsOK
<1>1. (WatcherRestartsTypeOK /\ FlagsOK)'
  BY <1>0 DEF WatcherRestartsTypeOK, FlagsOK
<1>2. (WatchersOK /\ RestartOK /\ BoundOK)'
  BY <1>0 DEF WatchersOK, RestartOK, BoundOK, Open, RestartsHeard, ReadyCameLate
<1>3. (ReadyCameLate \/ DeafIsAnswered)'
  BY <1>0 DEF ReadyCameLate, DeafIsAnswered
<1> QED
  BY <1>1, <1>2, <1>3

LEMMA LoseStep ==
    ASSUME WatcherInv, NEW w \in DOMAIN watchers, Lose(w)
    PROVE  WatcherInv'
<1> USE DEF WatcherInv
<1> DEFINE x == [watchers[w] EXCEPT !.state = "deaf", !.report = TRUE]
<1>0. UNCHANGED <<wantedRoots, current, currentRoots, recheckOwed, lossOwed, running, closed,
                  pc, restart, incidentRestarts, exhausted, quiet, recovered, degraded>>
      /\ watchers' = [watchers EXCEPT ![w] = x] /\ watchers[w].state = "live"
  BY DEF Lose, boundVars, owedVars, counters, WatchersOK
<1>1. watchers[w] \in Watchers /\ w = current
  BY <1>0 DEF WatchersOK, Open
<1>2. x \in Watchers /\ x.roots = watchers[w].roots /\ x.timedOut = watchers[w].timedOut
      /\ x.late = watchers[w].late /\ x.report
  BY <1>1 DEF Watchers
<1>3. x.late => x.timedOut
  BY <1>2 DEF WatchersOK
<1> HIDE DEF x
<1>4. /\ WatchersOK' /\ DOMAIN watchers' = DOMAIN watchers
      /\ \A v \in DOMAIN watchers : watchers'[v] = IF v = w THEN x ELSE watchers[v]
      /\ watchers'[current].roots = watchers[current].roots
      /\ ReadyCameLate => ReadyCameLate'
  BY <1>0, <1>2, <1>3, WatcherChanges
<1>5. (WatcherRestartsTypeOK /\ FlagsOK)'
  BY <1>0, <1>4 DEF WatcherRestartsTypeOK, FlagsOK
<1>6. pc # "create" \/ ~restart.first
  BY <1>0, <1>1 DEF RestartOK
<1>7. RestartOK'
  BY <1>0, <1>4, <1>6 DEF RestartOK
<1>8. BoundOK'
  BY <1>0, <1>4 DEF BoundOK, RestartsHeard
<1>9. DeafIsAnswered'
  BY <1>0, <1>1, <1>2, <1>4 DEF DeafIsAnswered, WatcherRestartsTypeOK
<1> QED
  BY <1>4, <1>5, <1>7, <1>8, <1>9

LEMMA ReportStep ==
    ASSUME WatcherInv, NEW w \in DOMAIN watchers, Report(w)
    PROVE  WatcherInv'
<1> USE DEF WatcherInv
<1> DEFINE x == [watchers[w] EXCEPT !.report = FALSE]
<1>0. UNCHANGED <<wantedRoots, current, currentRoots, recheckOwed, closed,
                  pc, restart, incidentRestarts, exhausted, quiet, recovered, degraded>>
      /\ watchers' = [watchers EXCEPT ![w] = x] /\ watchers[w].state # "closed"
      /\ IF closed THEN lossOwed' = lossOwed /\ running' = running
         ELSE lossOwed' = w /\ running' = TRUE
  BY DEF Report, boundVars, counters, Open
<1>1. watchers[w] \in Watchers /\ w = current
  BY <1>0 DEF WatchersOK, Open
<1>2. x \in Watchers /\ x.roots = watchers[w].roots /\ x.timedOut = watchers[w].timedOut
      /\ x.late = watchers[w].late /\ x.state = watchers[w].state
  BY <1>1 DEF Watchers
<1>3. x.late => x.timedOut
  BY <1>2 DEF WatchersOK
<1> HIDE DEF x
<1>4. /\ WatchersOK' /\ DOMAIN watchers' = DOMAIN watchers
      /\ \A v \in DOMAIN watchers : watchers'[v] = IF v = w THEN x ELSE watchers[v]
      /\ watchers'[current].roots = watchers[current].roots
      /\ ReadyCameLate => ReadyCameLate'
  BY <1>0, <1>2, <1>3, WatcherChanges
<1>5. (WatcherRestartsTypeOK /\ FlagsOK)'
  BY <1>0, <1>4 DEF WatcherRestartsTypeOK, FlagsOK
<1>7. RestartOK'
  BY <1>0, <1>2, <1>4 DEF RestartOK, WatcherRestartsTypeOK
<1>8. BoundOK'
  BY <1>0, <1>4 DEF BoundOK, RestartsHeard
<1>9. DeafIsAnswered'
  BY <1>0, <1>1, <1>2, <1>4 DEF DeafIsAnswered, WatcherRestartsTypeOK, FlagsOK
<1> QED
  BY <1>4, <1>5, <1>7, <1>8, <1>9

LEMMA LateReadyStep ==
    ASSUME WatcherInv, NEW w \in DOMAIN watchers, LateReady(w)
    PROVE  WatcherInv'
<1> USE DEF WatcherInv
<1> DEFINE x == [watchers[w] EXCEPT !.late = FALSE]
<1>0. UNCHANGED <<wantedRoots, current, currentRoots, recheckOwed, lossOwed, running, closed,
                  pc, restart, incidentRestarts, exhausted, quiet, recovered>>
      /\ watchers' = [watchers EXCEPT ![w] = x] /\ watchers[w].late
      /\ degraded' = (degraded /\ ~Open(w))
  BY DEF LateReady, boundVars, counters, owedVars
<1>1. watchers[w] \in Watchers
  BY DEF WatchersOK
<1>2. x \in Watchers /\ x.roots = watchers[w].roots /\ x.timedOut = watchers[w].timedOut
      /\ ~x.late /\ x.state = watchers[w].state /\ x.timedOut
  BY <1>0, <1>1 DEF Watchers, WatchersOK
<1>3. degraded' \in BOOLEAN
  BY <1>0
<1> HIDE DEF x
<1>4. /\ WatchersOK' /\ DOMAIN watchers' = DOMAIN watchers
      /\ \A v \in DOMAIN watchers : watchers'[v] = IF v = w THEN x ELSE watchers[v]
      /\ watchers'[current].roots = watchers[current].roots
      /\ ReadyCameLate => ReadyCameLate'
  BY <1>0, <1>2, WatcherChanges
<1>5. ReadyCameLate'
  BY <1>2, <1>4 DEF ReadyCameLate
<1>6. (WatcherRestartsTypeOK /\ FlagsOK)'
  BY <1>0, <1>3, <1>4 DEF WatcherRestartsTypeOK, FlagsOK
<1>7. RestartOK'
  BY <1>0, <1>2, <1>4 DEF RestartOK, WatcherRestartsTypeOK
<1>8. BoundOK'
  BY <1>0, <1>5 DEF BoundOK, RestartsHeard
<1> QED
  BY <1>4, <1>5, <1>6, <1>7, <1>8

LEMMA QuietStep ==
    ASSUME WatcherInv, QuietMinute
    PROVE  WatcherInv'
<1> USE DEF WatcherInv
<1>0. UNCHANGED <<wantedRoots, watchers, current, currentRoots, recheckOwed, lossOwed, running,
                  closed, pc, restart, incidentRestarts, exhausted, degraded>>
      /\ quiet' = TRUE /\ recovered' = 0
  BY DEF QuietMinute, owedVars
<1>1. (WatcherRestartsTypeOK /\ FlagsOK)'
  BY <1>0 DEF WatcherRestartsTypeOK, FlagsOK
<1>2. (WatchersOK /\ RestartOK)'
  BY <1>0 DEF WatchersOK, RestartOK, Open
<1>3. BoundOK'
  BY <1>0 DEF BoundOK, RestartsHeard, ReadyCameLate
<1>4. (ReadyCameLate \/ DeafIsAnswered)'
  BY <1>0 DEF ReadyCameLate, DeafIsAnswered
<1> QED
  BY <1>1, <1>2, <1>3, <1>4

LEMMA CloseStep ==
    ASSUME WatcherInv, Close
    PROVE  WatcherInv'
<1> USE DEF WatcherInv
<1>0. UNCHANGED <<wantedRoots, watchers, current, currentRoots, recheckOwed, lossOwed, running,
                  pc, restart, incidentRestarts, exhausted, quiet, recovered, degraded>>
      /\ closed' = TRUE
  BY DEF Close, boundVars
<1>1. (WatcherRestartsTypeOK /\ FlagsOK)'
  BY <1>0 DEF WatcherRestartsTypeOK, FlagsOK
<1>2. (WatchersOK /\ RestartOK /\ BoundOK)'
  BY <1>0 DEF WatchersOK, RestartOK, Open, BoundOK, RestartsHeard, ReadyCameLate
<1>3. DeafIsAnswered'
  BY <1>0 DEF DeafIsAnswered
<1> QED
  BY <1>1, <1>2, <1>3

-------------------------------------------------------------------------------
(* A restart *)

LEMMA TakeStep ==
    ASSUME WatcherInv, Take
    PROVE  WatcherInv'
<1> USE DEF WatcherInv
<1>0. UNCHANGED <<wantedRoots, watchers, current, currentRoots, running, closed,
                  incidentRestarts, exhausted, quiet, recovered, degraded>>
      /\ running /\ pc = "loop" /\ pc' = "resolve" /\ recheckOwed' = FALSE /\ lossOwed' = 0
      /\ restart' = [NoRestart EXCEPT !.recheck = recheckOwed, !.lost = lossOwed]
  BY DEF Take, boundVars
<1>1. lossOwed \in Nat /\ recheckOwed \in BOOLEAN /\ lossOwed \in {0} \cup DOMAIN watchers
  BY DEF WatcherRestartsTypeOK, FlagsOK, WatchersOK
<1>2. restart' \in Taken /\ restart'.lost = lossOwed /\ ~restart'.first
  BY <1>0, <1>1 DEF Taken, NoRestart
<1>3. (WatcherRestartsTypeOK /\ FlagsOK)'
  BY <1>0 DEF WatcherRestartsTypeOK, FlagsOK
<1>4. (WatchersOK /\ BoundOK)'
  BY <1>0 DEF WatchersOK, Open, BoundOK, RestartsHeard, ReadyCameLate
<1>5. RestartOK'
  BY <1>0, <1>1, <1>2 DEF RestartOK
<1>6. restart.lost = 0 /\ current # 0
  BY <1>0 DEF RestartOK, NoRestart, WatcherRestartsTypeOK, WatchersOK
<1>7. (ReadyCameLate \/ DeafIsAnswered)'
  BY <1>0, <1>2, <1>6 DEF ReadyCameLate, DeafIsAnswered
<1> QED
  BY <1>3, <1>4, <1>5, <1>7

LEMMA LoopEndsStep ==
    ASSUME WatcherInv, LoopEnds
    PROVE  WatcherInv'
<1> USE DEF WatcherInv
<1>0. UNCHANGED <<wantedRoots, watchers, current, currentRoots, recheckOwed, lossOwed, closed,
                  pc, restart, incidentRestarts, exhausted, quiet, recovered, degraded>>
      /\ running' = FALSE /\ pc = "loop"
  BY DEF LoopEnds, boundVars
<1>1. (WatcherRestartsTypeOK /\ FlagsOK)'
  BY <1>0 DEF WatcherRestartsTypeOK, FlagsOK
<1>2. (WatchersOK /\ RestartOK /\ BoundOK)'
  BY <1>0 DEF WatchersOK, RestartOK, Open, BoundOK, RestartsHeard, ReadyCameLate
<1>3. (ReadyCameLate \/ DeafIsAnswered)'
  BY <1>0 DEF ReadyCameLate, DeafIsAnswered
<1> QED
  BY <1>1, <1>2, <1>3

LEMMA ResolveToRootsStep ==
    ASSUME WatcherInv, ResolveToRoots
    PROVE  WatcherInv'
<1> USE DEF WatcherInv
<1>0. UNCHANGED <<wantedRoots, watchers, current, currentRoots, recheckOwed, lossOwed, running,
                  closed, quiet, degraded>>
      /\ pc = "resolve" /\ pc' = "close" /\ incidentRestarts' = 0 /\ exhausted' = FALSE
      /\ recovered' = 0
      /\ restart' = [restart EXCEPT !.next = wantedRoots, !.reason = "roots",
                                    !.first = ClosedFirst]
  BY DEF ResolveToRoots, owedVars, counters
<1>1. wantedRoots \in Roots /\ current # 0 /\ restart \in Taken
  BY DEF WatcherRestartsTypeOK, WatchersOK, RestartOK
<1>2. restart' \in Taken /\ restart'.lost = restart.lost /\ restart'.next = wantedRoots
      /\ (restart'.first <=> restart.lost = current)
  BY <1>0, <1>1 DEF Taken, ClosedFirst
<1>3. (WatcherRestartsTypeOK /\ FlagsOK)'
  <2>1. 0 \in 0 .. RecoveryLimit /\ running
    BY <1>0, WatcherRestartsAssumption DEF WatcherRestartsTypeOK
  <2>2. WatcherRestartsTypeOK'
    BY <1>0, <2>1 DEF WatcherRestartsTypeOK
  <2>3. FlagsOK'
    BY <1>0 DEF FlagsOK
  <2> QED
    BY <2>2, <2>3
<1>4. WatchersOK'
  BY <1>0 DEF WatchersOK, Open
<1>5. RestartOK'
  BY <1>0, <1>1, <1>2 DEF RestartOK
<1>6. BoundOK'
  BY <1>0 DEF BoundOK, RestartsHeard
<1>7. (ReadyCameLate \/ DeafIsAnswered)'
  BY <1>0, <1>2 DEF ReadyCameLate, DeafIsAnswered
<1> QED
  BY <1>3, <1>4, <1>5, <1>6, <1>7

LEMMA ResolveToRecoveryStep ==
    ASSUME WatcherInv, ResolveToRecovery
    PROVE  WatcherInv'
<1> USE DEF WatcherInv
<1>0. UNCHANGED <<wantedRoots, watchers, current, currentRoots, recheckOwed, lossOwed, running,
                  closed, degraded>>
      /\ pc = "resolve" /\ pc' = "close" /\ RestartsHeard < RecoveryLimit
      /\ incidentRestarts' = RestartsHeard + 1 /\ exhausted' = (exhausted /\ ~quiet)
      /\ quiet' = FALSE /\ recovered' = recovered + 1
      /\ restart' = [restart EXCEPT !.next = currentRoots, !.reason = "recovery",
                                    !.first = ClosedFirst]
  BY DEF ResolveToRecovery, owedVars, counters
<1>1. currentRoots \in Roots /\ current # 0 /\ restart \in Taken
      /\ recovered \in Nat /\ incidentRestarts \in Nat /\ quiet \in BOOLEAN
      /\ exhausted \in BOOLEAN
  BY WatcherRestartsAssumption DEF WatcherRestartsTypeOK, WatchersOK, RestartOK, FlagsOK
<1>2. restart' \in Taken /\ restart'.lost = restart.lost /\ restart'.next = currentRoots
      /\ (restart'.first <=> restart.lost = current)
  BY <1>0, <1>1 DEF Taken, ClosedFirst
<1>3. exhausted' = FALSE /\ incidentRestarts' \in 0 .. RecoveryLimit
      /\ recovered' \in Nat /\ recovered' <= incidentRestarts'
  <2>1. RestartsHeard \in Nat /\ recovered <= RestartsHeard
    BY <1>1 DEF BoundOK, RestartsHeard
  <2>2. ~quiet => RestartsHeard = incidentRestarts
    BY DEF RestartsHeard
  <2>3. exhausted => incidentRestarts >= RecoveryLimit
    BY DEF BoundOK
  <2>4. exhausted' = FALSE
    <3>1. CASE exhausted /\ ~quiet
      BY <1>0, <1>1, <2>2, <2>3, <3>1, WatcherRestartsAssumption
    <3> QED
      BY <1>0, <3>1
  <2>5. RestartsHeard + 1 \in 0 .. RecoveryLimit /\ recovered + 1 <= RestartsHeard + 1
    BY <1>0, <1>1, <2>1, WatcherRestartsAssumption
  <2> QED
    BY <1>0, <1>1, <2>4, <2>5
<1>4. (WatcherRestartsTypeOK /\ FlagsOK)'
  BY <1>0, <1>3 DEF WatcherRestartsTypeOK, FlagsOK
<1>5. WatchersOK'
  BY <1>0 DEF WatchersOK, Open
<1>6. RestartOK'
  BY <1>0, <1>1, <1>2, <1>3 DEF RestartOK
<1>7. BoundOK'
  BY <1>0, <1>3 DEF BoundOK, RestartsHeard
<1>8. (ReadyCameLate \/ DeafIsAnswered)'
  BY <1>0, <1>2 DEF ReadyCameLate, DeafIsAnswered
<1> QED
  BY <1>4, <1>5, <1>6, <1>7, <1>8

LEMMA NoRestartIsTaken == NoRestart \in Taken /\ ~NoRestart.first /\ NoRestart.lost = 0
BY DEF NoRestart, Taken

LEMMA ResolveExhaustedStep ==
    ASSUME WatcherInv, ResolveExhausted
    PROVE  WatcherInv'
<1> USE DEF WatcherInv
<1>0. UNCHANGED <<wantedRoots, watchers, current, currentRoots, recheckOwed, lossOwed, running,
                  closed, incidentRestarts, recovered>>
      /\ pc = "resolve" /\ pc' = "loop" /\ RestartsHeard >= RecoveryLimit
      /\ exhausted' = TRUE /\ quiet' = FALSE /\ degraded' = (degraded \/ ~exhausted)
      /\ restart' = NoRestart
  BY DEF ResolveExhausted, owedVars, counters
<1>1. recovered \in Nat /\ incidentRestarts \in Nat /\ quiet \in BOOLEAN /\ degraded' \in BOOLEAN
  BY <1>0, WatcherRestartsAssumption DEF WatcherRestartsTypeOK, FlagsOK
<1>2. incidentRestarts >= RecoveryLimit /\ recovered <= incidentRestarts
  BY <1>0, <1>1, WatcherRestartsAssumption DEF BoundOK, RestartsHeard
<1>3. ReadyCameLate \/ degraded'
  BY <1>0 DEF BoundOK
<1>4. (WatcherRestartsTypeOK /\ FlagsOK)'
  BY <1>0, <1>1 DEF WatcherRestartsTypeOK, FlagsOK
<1>5. WatchersOK'
  BY <1>0 DEF WatchersOK, Open
<1>6. RestartOK'
  BY <1>0, NoRestartIsTaken DEF RestartOK
<1>7. BoundOK'
  BY <1>0, <1>2, <1>3 DEF BoundOK, RestartsHeard, ReadyCameLate
<1>8. (ReadyCameLate \/ DeafIsAnswered)'
  BY <1>0, <1>3 DEF ReadyCameLate, DeafIsAnswered
<1> QED
  BY <1>4, <1>5, <1>6, <1>7, <1>8

LEMMA ResolveToNothingStep ==
    ASSUME WatcherInv, ResolveToNothing
    PROVE  WatcherInv'
<1> USE DEF WatcherInv
<1>0. UNCHANGED <<wantedRoots, watchers, current, currentRoots, recheckOwed, lossOwed, running,
                  closed, incidentRestarts, exhausted, quiet, recovered, degraded>>
      /\ pc = "resolve" /\ pc' = "loop" /\ restart.lost # current /\ restart' = NoRestart
  BY DEF ResolveToNothing, owedVars, boundVars, counters
<1>1. (WatcherRestartsTypeOK /\ FlagsOK)'
  BY <1>0 DEF WatcherRestartsTypeOK, FlagsOK
<1>2. (WatchersOK /\ BoundOK)'
  BY <1>0 DEF WatchersOK, Open, BoundOK, RestartsHeard, ReadyCameLate
<1>3. RestartOK'
  BY <1>0, NoRestartIsTaken DEF RestartOK
<1>4. (ReadyCameLate \/ DeafIsAnswered)'
  BY <1>0 DEF ReadyCameLate, DeafIsAnswered
<1> QED
  BY <1>1, <1>2, <1>3, <1>4

LEMMA CloseFirstStep ==
    ASSUME WatcherInv, CloseFirst
    PROVE  WatcherInv'
<1> USE DEF WatcherInv
<1> DEFINE x == [watchers[current] EXCEPT !.state = "closed", !.report = FALSE]
<1>0. UNCHANGED <<wantedRoots, current, currentRoots, recheckOwed, lossOwed, running, closed,
                  restart, incidentRestarts, exhausted, quiet, recovered, degraded>>
      /\ pc = "close" /\ pc' = "create"
      /\ IF restart.first THEN watchers' = [watchers EXCEPT ![current] = x]
         ELSE watchers' = watchers
  BY DEF CloseFirst, Closing, owedVars, boundVars, counters, WatchersOK, WatcherRestartsTypeOK
<1>1. CASE ~restart.first
  <2>0. watchers' = watchers
    BY <1>0, <1>1
  <2>1. (WatcherRestartsTypeOK /\ FlagsOK)'
    BY <1>0, <2>0 DEF WatcherRestartsTypeOK, FlagsOK
  <2>2. (WatchersOK /\ BoundOK)'
    BY <1>0, <2>0 DEF WatchersOK, Open, BoundOK, RestartsHeard, ReadyCameLate
  <2>3. RestartOK'
    BY <1>0, <1>1, <2>0 DEF RestartOK
  <2>4. (ReadyCameLate \/ DeafIsAnswered)'
    BY <1>0, <2>0 DEF ReadyCameLate, DeafIsAnswered
  <2> QED
    BY <2>1, <2>2, <2>3, <2>4
<1>2. CASE restart.first
  <2>0. watchers' = [watchers EXCEPT ![current] = x] /\ current \in DOMAIN watchers
    BY <1>0, <1>2 DEF WatcherRestartsTypeOK
  <2>1. x \in Watchers /\ x.roots = watchers[current].roots /\ x.state = "closed"
        /\ x.timedOut = watchers[current].timedOut /\ x.late = watchers[current].late
    <3>1. watchers[current] \in Watchers
      BY <2>0 DEF WatchersOK
    <3> QED
      BY <3>1 DEF Watchers
  <2>2. x.late => x.timedOut
    BY <2>0, <2>1 DEF WatchersOK
  <2> HIDE DEF x
  <2>3. /\ WatchersOK' /\ DOMAIN watchers' = DOMAIN watchers
        /\ \A v \in DOMAIN watchers : watchers'[v] = IF v = current THEN x ELSE watchers[v]
        /\ watchers'[current].roots = watchers[current].roots
        /\ ReadyCameLate => ReadyCameLate'
    BY <1>0, <2>0, <2>1, <2>2, WatcherChanges
  <2>4. (WatcherRestartsTypeOK /\ FlagsOK)'
    BY <1>0, <2>3 DEF WatcherRestartsTypeOK, FlagsOK
  <2>5. RestartOK'
    BY <1>0, <2>0, <2>1, <2>3 DEF RestartOK
  <2>6. BoundOK'
    BY <1>0, <2>3 DEF BoundOK, RestartsHeard
  <2>7. DeafIsAnswered'
    BY <1>0, <1>2 DEF DeafIsAnswered, RestartOK
  <2> QED
    BY <2>3, <2>4, <2>5, <2>6, <2>7
<1> QED
  BY <1>1, <1>2

LEMMA CreateStep ==
    ASSUME WatcherInv, NEW timedOut \in BOOLEAN, Create(timedOut)
    PROVE  WatcherInv'
<1> USE DEF WatcherInv
<1> DEFINE old == Superseded(watchers)
           x == [roots |-> restart.next, state |-> Born, report |-> FALSE,
                 timedOut |-> timedOut, late |-> timedOut]
           n == Len(watchers) + 1
<1>0. UNCHANGED <<wantedRoots, recheckOwed, lossOwed, running, closed,
                  incidentRestarts, exhausted, quiet, recovered>>
      /\ pc = "create" /\ pc' = "loop" /\ restart' = NoRestart
      /\ watchers' = Append(old, x) /\ current' = n /\ currentRoots' = restart.next
      /\ degraded' = timedOut
  BY DEF Create, OwedAfter, InstalledRoots, boundVars
<1>1. restart.next \in Roots /\ ~exhausted /\ current \in DOMAIN watchers
      /\ watchers \in Seq(Watchers)
  BY <1>0 DEF RestartOK, WatcherRestartsTypeOK, WatchersOK
<1>2. Born \in {"live", "mute"}
  <2>1. CASE restart.lost = current
    BY <1>0, <2>1 DEF Born, RestartOK, WatchersOK, Open
  <2>2. CASE restart.lost # current
    BY <2>2 DEF Born
  <2> QED
    BY <2>1, <2>2
<1>3. x \in Watchers /\ x.roots = restart.next /\ x.state # "deaf" /\ x.state # "closed"
      /\ (x.late => x.timedOut)
  BY <1>1, <1>2 DEF Watchers
<1>4. old \in Seq(Watchers) /\ DOMAIN old = DOMAIN watchers /\ Len(old) = Len(watchers)
      /\ \A w \in DOMAIN watchers :
           /\ old[w].state = "closed"
           /\ old[w].timedOut = watchers[w].timedOut /\ old[w].late = watchers[w].late
  <2>1. \A w \in DOMAIN watchers : watchers[w] \in Watchers
    BY <1>1
  <2>2. \A w \in DOMAIN watchers : w # current => watchers[w].state = "closed"
    BY DEF WatchersOK, Open
  <2>3. \A w \in DOMAIN watchers :
          old[w] = IF w = current
                   THEN [watchers[w] EXCEPT !.state = "closed", !.report = FALSE]
                   ELSE watchers[w]
    BY <1>1 DEF Superseded
  <2>4. \A w \in DOMAIN watchers : old[w] \in Watchers
    <3> SUFFICES ASSUME NEW w \in DOMAIN watchers PROVE old[w] \in Watchers
      OBVIOUS
    <3>1. [watchers[w] EXCEPT !.state = "closed", !.report = FALSE] \in Watchers
      BY <2>1 DEF Watchers
    <3>2. old[w] = [watchers[w] EXCEPT !.state = "closed", !.report = FALSE]
          \/ old[w] = watchers[w]
      BY <2>3
    <3> HIDE DEF old
    <3> QED
      BY <2>1, <3>1, <3>2
  <2>5. DOMAIN old = DOMAIN watchers /\ old \in Seq(Watchers) /\ Len(old) = Len(watchers)
    <3>1. old = [w \in DOMAIN watchers |-> old[w]]
      BY <1>1 DEF Superseded
    <3> HIDE DEF old
    <3>2. DOMAIN watchers = 1 .. Len(watchers) /\ Len(watchers) \in Nat
      BY <1>1
    <3> QED
      BY <2>4, <3>1, <3>2
  <2> QED
    BY <2>1, <2>2, <2>3, <2>5 DEF Watchers
<1> HIDE DEF old, x
<1>5. n \in Nat \ {0} /\ DOMAIN watchers = 1 .. Len(watchers) /\ n \notin DOMAIN watchers
  BY <1>1
<1>6. watchers' \in Seq(Watchers) /\ DOMAIN watchers' = DOMAIN watchers \cup {n}
      /\ watchers'[n] = x /\ \A w \in DOMAIN watchers : watchers'[w] = old[w]
  BY <1>0, <1>3, <1>4, <1>5, AppendProperties
<1> HIDE DEF n
<1>7. WatchersOK'
  BY <1>0, <1>3, <1>4, <1>6 DEF WatchersOK, Open
<1>8. ReadyCameLate => ReadyCameLate'
  BY <1>4, <1>6 DEF ReadyCameLate
<1>9. (WatcherRestartsTypeOK /\ FlagsOK)'
  BY <1>0, <1>1, <1>3, <1>6 DEF WatcherRestartsTypeOK, FlagsOK
<1>10. RestartOK'
  BY <1>0, NoRestartIsTaken DEF RestartOK
<1>11. BoundOK'
  BY <1>0, <1>1 DEF BoundOK, RestartsHeard
<1>12. DeafIsAnswered'
  BY <1>0, <1>3, <1>6 DEF DeafIsAnswered
<1> QED
  BY <1>7, <1>9, <1>10, <1>11, <1>12

LEMMA RestartFailsStep ==
    ASSUME WatcherInv, RestartFails
    PROVE  WatcherInv'
<1> USE DEF WatcherInv
<1>0. UNCHANGED <<wantedRoots, watchers, current, currentRoots, recheckOwed, lossOwed, running,
                  closed, incidentRestarts, exhausted, quiet, recovered>>
      /\ pc' = "loop" /\ restart' = NoRestart /\ degraded' = TRUE
  BY DEF RestartFails, OwedAfter, boundVars
<1>1. (WatcherRestartsTypeOK /\ FlagsOK)'
  BY <1>0 DEF WatcherRestartsTypeOK, FlagsOK
<1>2. (WatchersOK /\ BoundOK)'
  BY <1>0 DEF WatchersOK, Open, BoundOK, RestartsHeard, ReadyCameLate
<1>3. RestartOK'
  BY <1>0, NoRestartIsTaken DEF RestartOK
<1>4. DeafIsAnswered'
  BY <1>0 DEF DeafIsAnswered
<1> QED
  BY <1>1, <1>2, <1>3, <1>4

-------------------------------------------------------------------------------
LEMMA WatcherSteps ==
    ASSUME WatcherInv, [WatcherNext]_watcherVars
    PROVE  WatcherInv'
<1>1. CASE UNCHANGED watcherVars
  <2>0. UNCHANGED <<wantedRoots, watchers, current, currentRoots, recheckOwed, lossOwed,
                    running, closed, pc, restart, incidentRestarts, exhausted, quiet,
                    recovered, degraded>>
    BY <1>1 DEF watcherVars, owedVars, boundVars
  <2> QED
    BY <2>0 DEF WatcherInv, WatcherRestartsTypeOK, WatchersOK, FlagsOK, RestartOK, BoundOK,
        Open, RestartsHeard, ReadyCameLate, DeafIsAnswered
<1>2. CASE \E roots \in Roots : EditRoots(roots)
  BY <1>2, EditStep
<1>3. CASE \E w \in DOMAIN watchers : Lose(w)
  BY <1>3, LoseStep
<1>4. CASE \E w \in DOMAIN watchers : Report(w)
  BY <1>4, ReportStep
<1>5. CASE \E w \in DOMAIN watchers : LateReady(w)
  BY <1>5, LateReadyStep
<1>6. CASE \E timedOut \in BOOLEAN : Create(timedOut)
  BY <1>6, CreateStep
<1>7. CASE QuietMinute \/ Close \/ Take \/ LoopEnds
  BY <1>7, QuietStep, CloseStep, TakeStep, LoopEndsStep
<1>8. CASE ResolveToRoots \/ ResolveToRecovery \/ ResolveExhausted \/ ResolveToNothing
  BY <1>8, ResolveToRootsStep, ResolveToRecoveryStep, ResolveExhaustedStep,
     ResolveToNothingStep
<1>9. CASE CloseFirst \/ RestartFails
  BY <1>9, CloseFirstStep, RestartFailsStep
<1> QED
  BY <1>1, <1>2, <1>3, <1>4, <1>5, <1>6, <1>7, <1>8, <1>9 DEF WatcherNext

\* The inductive invariant of the watcher's restarts: what is open, what a restart
\* took, what the bound has counted, and who will answer for a deaf watcher.
THEOREM WatcherInvariant == WatcherSpec => []WatcherInv
<1>1. WatcherInit => WatcherInv
  BY WatcherStarts
<1>2. WatcherInv /\ [WatcherNext]_watcherVars => WatcherInv'
  BY WatcherSteps
<1> QED
  BY <1>1, <1>2, PTL DEF WatcherSpec

LEMMA WatcherInvHolds == WatcherInv => WatcherHolds
<1> SUFFICES ASSUME WatcherInv PROVE WatcherHolds
  OBVIOUS
<1>1. OnlyInstalledIsOpen
  BY DEF WatcherInv, WatchersOK, OnlyInstalledIsOpen
<1>2. RecoveriesAreBounded
  BY WatcherRestartsAssumption
  DEF WatcherInv, BoundOK, FlagsOK, WatcherRestartsTypeOK, RestartsHeard,
      RecoveriesAreBounded
<1> QED
  BY <1>1, <1>2 DEF WatcherInv, WatcherHolds

\* The watcher's restart path keeps its promises for any roots, recovery limit,
\* edits, losses, failures and late `ready`s: the installed watcher alone is open,
\* recoveries without a quiet minute stay within the limit, and until a late
\* `ready` a deaf watcher is being replaced or says so.
THEOREM WatcherHoldsAlways == WatcherSpec => []WatcherHolds
BY WatcherInvariant, WatcherInvHolds, PTL

-------------------------------------------------------------------------------
(* The inductive invariant of the report cache *)

Names == {BucketOf[r] : r \in Rows}
Priced == [row : Rows, prices : Nat]
BucketsOfRows == [events : SUBSET Rows, acc : SUBSET Priced, dirty : BOOLEAN]
BucketSets == UNION {[bs -> BucketsOfRows] : bs \in SUBSET Names}
Changes == [event : Rows \cup {None}, replaced : Rows \cup {None}]
Entries == [axis : Axes, built : BOOLEAN, building : BOOLEAN, pending : Seq(Changes),
            buckets : BucketSets]
Queries == [entry : Nat, axis : Axes,
            phase : {"queued", "build", "refold", "clean", "answered"},
            todo : SUBSET Rows, bucket : Names \cup {None}, folded : SUBSET Priced,
            answer : SUBSET Priced, seen : SUBSET SUBSET Rows, prices : Nat]

StoreOK ==
    /\ storeRows \subseteq Rows /\ oldRows \subseteq Rows /\ swapped \in BOOLEAN
    /\ \A a, b \in storeRows : a.key = b.key => a = b
    /\ prices \in Nat /\ boundPrices \in Nat /\ boundPrices <= prices

EntriesOK ==
    /\ DOMAIN entries \subseteq Nat /\ IsFiniteSet(DOMAIN entries)
    /\ entries \in [DOMAIN entries -> Entries]
    /\ family \in Seq(DOMAIN entries) /\ Len(family) <= MaxEntries

QueriesOK ==
    /\ asked \in Nat /\ DOMAIN queries \subseteq 1 .. asked
    /\ queries \in [DOMAIN queries -> Queries]

\* A query's entry is there, and the store's present rows are among those it may
\* be answered with.
QueryFits(n) ==
    LET q == queries[n]
    IN  /\ q.entry \in DOMAIN entries /\ entries[q.entry].axis = q.axis
        /\ q.prices <= prices
        /\ {Content(q.axis, storeRows), Content(q.axis, BoundRows)} \subseteq q.seen

QueriesFit == \A n \in DOMAIN queries : QueryFits(n)

\* The queries of an entry work one at a time.
InTurn ==
    \A m, n \in DOMAIN queries :
        m < n /\ queries[m].entry = queries[n].entry
        /\ queries[n].phase \in {"build", "refold", "clean"} => queries[m].phase = "answered"

\* The rows in all the buckets; the buckets are those of the rows.
Holds(bs) == UNION {bs[b].events : b \in DOMAIN bs}
Sorted(bs) ==
    \A b \in DOMAIN bs : bs[b].events # {} /\ \A r \in bs[b].events : BucketOf[r] = b
Unfolded(bs) == \A b \in DOMAIN bs : bs[b].acc = {} /\ bs[b].dirty

\* A change turns the admitted rows C into D, and changes lead there.
Out(c, axis) ==
    IF c.replaced # None /\ c.replaced \in AdmittedBy[axis] THEN {c.replaced} ELSE {}
In(c, axis) == IF c.event # None /\ c.event \in AdmittedBy[axis] THEN {c.event} ELSE {}
Turns(c, axis, C, D) ==
    /\ D = (C \ Out(c, axis)) \cup In(c, axis)
    /\ \A x \in C \ Out(c, axis), y \in In(c, axis) : x.key # y.key
Leads(cs, axis, C, D) ==
    \E path \in [0 .. Len(cs) -> SUBSET Rows] :
        /\ path[0] = C /\ path[Len(cs)] = D
        /\ \A i \in 1 .. Len(cs) : Turns(cs[i], axis, path[i - 1], path[i])

\* The rows C are what the entry should hold: the bound store's, while the feed
\* reaches it, and a state each of its queries has seen.
Waiting(q) == q.phase \in {"queued", "build", "refold"}
Serves(id, C) ==
    /\ InFamily(id) => C = Content(entries[id].axis, BoundRows)
    /\ \A n \in DOMAIN queries :
         queries[n].entry = id /\ Waiting(queries[n]) => C \in queries[n].seen

\* Each row once.
Once(fold) == \A x, y \in fold : x.row = y.row => x = y

\* The fold was made at prices the entry, and all its queries, may be answered with.
PricedFor(id, fold) ==
    /\ InFamily(id) => \A x \in fold : x.prices >= boundPrices
    /\ \A n \in DOMAIN queries : queries[n].entry = id =>
          \A x \in fold : x.prices >= queries[n].prices

BeingFolded(id, b) ==
    \E n \in DOMAIN queries :
        queries[n].entry = id /\ queries[n].phase = "refold" /\ queries[n].bucket = b

BuiltOK(id) ==
    LET bs == entries[id].buckets
    IN  /\ entries[id].pending = <<>>
        /\ Sorted(bs) /\ Serves(id, Holds(bs))
        /\ \A b \in DOMAIN bs :
             /\ PricedFor(id, bs[b].acc)
             /\ ~bs[b].dirty /\ ~BeingFolded(id, b) =>
                  RowsOf(bs[b].acc) = bs[b].events /\ Once(bs[b].acc)

EntryOK(id) ==
    LET e == entries[id]
    IN  /\ ~e.built /\ ~e.building => e.buckets = <<>> /\ e.pending = <<>>
        /\ e.building => ~e.built /\ \E n \in DOMAIN queries :
                                        queries[n].entry = id /\ queries[n].phase = "build"
        /\ e.built => BuiltOK(id)

\* What is partitioned, what is still to be, and what was buffered make up a state.
BuildOK(n) ==
    LET q == queries[n]  e == entries[q.entry]
    IN  /\ e.building /\ q.bucket = None
        /\ Sorted(e.buckets) /\ Unfolded(e.buckets)
        /\ \E D \in SUBSET Rows :
             Leads(e.pending, q.axis, Holds(e.buckets) \cup q.todo, D) /\ Serves(q.entry, D)

\* What is folded, and still to be, is what a bucket that nothing touched holds.
RefoldOK(n) ==
    LET q == queries[n]  e == entries[q.entry]
    IN  /\ e.built
        /\ q.bucket # None =>
             /\ q.todo # {} /\ RowsOf(q.folded) \cap q.todo = {}
             /\ Once(q.folded) /\ PricedFor(q.entry, q.folded)
             /\ q.bucket \in DOMAIN e.buckets /\ ~e.buckets[q.bucket].dirty
                => RowsOf(q.folded) \cup q.todo = e.buckets[q.bucket].events

\* An answer is a state the query has seen, each row once, at prices of its time.
Answers(n, fold) ==
    /\ RowsOf(fold) \in queries[n].seen /\ Once(fold)
    /\ \A x \in fold : x.prices >= queries[n].prices

QueryOK(n) ==
    /\ queries[n].phase = "queued" => queries[n].bucket = None
    /\ queries[n].phase = "build" => BuildOK(n)
    /\ queries[n].phase = "refold" => RefoldOK(n)
    /\ queries[n].phase = "clean" => Answers(n, queries[n].folded)
    /\ queries[n].phase = "answered" => Answers(n, queries[n].answer)

CacheInv ==
    /\ StoreOK /\ EntriesOK /\ QueriesOK /\ QueriesFit /\ InTurn
    /\ \A id \in DOMAIN entries : EntryOK(id)
    /\ \A n \in DOMAIN queries : QueryOK(n)

-------------------------------------------------------------------------------
(* Buckets and batches of changes *)

LEMMA BucketShape ==
    ASSUME NEW bs
    PROVE  bs \in BucketSets <=> DOMAIN bs \subseteq Names /\ bs \in [DOMAIN bs -> BucketsOfRows]
BY DEF BucketSets

LEMMA NoBuckets == <<>> \in BucketSets /\ Sorted(<<>>) /\ Holds(<<>>) = {} /\ Unfolded(<<>>)
<1>1. DOMAIN <<>> = {}
  OBVIOUS
<1>2. <<>> \in [{} -> BucketsOfRows]
  OBVIOUS
<1> QED
  BY <1>1, <1>2, BucketShape DEF Sorted, Holds, Unfolded

LEMMA WithShape ==
    ASSUME NEW bs \in BucketSets, NEW b \in Names, NEW v \in BucketsOfRows
    PROVE  /\ With(bs, b, v) \in BucketSets /\ DOMAIN With(bs, b, v) = DOMAIN bs \cup {b}
           /\ With(bs, b, v)[b] = v
           /\ \A x \in DOMAIN bs : x # b => With(bs, b, v)[x] = bs[x]
<1>1. DOMAIN bs \subseteq Names /\ bs \in [DOMAIN bs -> BucketsOfRows]
  BY BucketShape
<1>2. With(bs, b, v) \in [DOMAIN bs \cup {b} -> BucketsOfRows]
  BY <1>1 DEF With
<1> QED
  BY <1>1, <1>2, BucketShape DEF With

LEMMA WithoutShape ==
    ASSUME NEW bs \in BucketSets, NEW b
    PROVE  /\ Without(bs, b) \in BucketSets /\ DOMAIN Without(bs, b) = DOMAIN bs \ {b}
           /\ \A x \in DOMAIN bs : x # b => Without(bs, b)[x] = bs[x]
<1>1. DOMAIN bs \subseteq Names /\ bs \in [DOMAIN bs -> BucketsOfRows]
  BY BucketShape
<1>2. Without(bs, b) \in [DOMAIN bs \ {b} -> BucketsOfRows]
  BY <1>1 DEF Without
<1> QED
  BY <1>1, <1>2, BucketShape DEF Without

LEMMA TouchedType ==
    ASSUME NEW rows \in SUBSET Rows
    PROVE  /\ Touched(rows) \in BucketsOfRows /\ Touched(rows).events = rows
           /\ Touched(rows).dirty /\ Touched(rows).acc = {}
BY DEF Touched, BucketsOfRows

\* What is left of the old buckets is as it was, and the rest is to be folded.
Kept(new, old) ==
    \A b \in DOMAIN new :
        \/ b \in DOMAIN old /\ new[b] = old[b]
        \/ new[b].dirty /\ new[b].acc = {}

LEMMA RemovedShape ==
    ASSUME NEW bs \in BucketSets, Sorted(bs), NEW r \in Rows
    PROVE  LET new == RowRemoved(bs, r)
           IN  /\ new \in BucketSets /\ Sorted(new) /\ Kept(new, bs)
               /\ Holds(new) = Holds(bs) \ {r}
<1> DEFINE b == BucketOf[r]
           new == RowRemoved(bs, r)
<1>1. DOMAIN bs \subseteq Names /\ bs \in [DOMAIN bs -> BucketsOfRows] /\ b \in Names
  BY BucketShape DEF Names
<1>2. \A x \in DOMAIN bs : bs[x].events \subseteq Rows
  BY <1>1 DEF BucketsOfRows
<1>3. \A x \in DOMAIN bs : r \in bs[x].events => x = b
  BY DEF Sorted
<1>4. CASE b \notin DOMAIN bs \/ r \notin bs[b].events
  <2>1. new = bs
    BY <1>4 DEF RowRemoved
  <2>2. r \notin Holds(bs)
    BY <1>3, <1>4 DEF Holds
  <2> QED
    BY <2>1, <2>2 DEF Kept
<1>5. CASE b \in DOMAIN bs /\ bs[b].events = {r}
  <2>1. new = Without(bs, b)
    BY <1>5 DEF RowRemoved
  <2>2. /\ new \in BucketSets /\ DOMAIN new = DOMAIN bs \ {b}
        /\ \A x \in DOMAIN bs : x # b => new[x] = bs[x]
    <3>1. \A x : /\ Without(bs, x) \in BucketSets /\ DOMAIN Without(bs, x) = DOMAIN bs \ {x}
                 /\ \A y \in DOMAIN bs : y # x => Without(bs, x)[y] = bs[y]
      BY WithoutShape
    <3> HIDE DEF new, b
    <3> QED
      BY <2>1, <3>1
  <2> HIDE DEF new
  <2>3. Sorted(new) /\ Kept(new, bs)
    BY <2>2 DEF Sorted, Kept
  <2>4. Holds(new) = Holds(bs) \ {r}
    BY <1>3, <1>5, <2>2 DEF Holds
  <2> QED
    BY <2>2, <2>3, <2>4 DEF new
<1>6. CASE b \in DOMAIN bs /\ r \in bs[b].events /\ bs[b].events # {r}
  <2> DEFINE rest == bs[b].events \ {r}
  <2>1. new = With(bs, b, Touched(rest)) /\ rest # {} /\ rest \subseteq Rows
    BY <1>2, <1>6 DEF RowRemoved
  <2>2. /\ Touched(rest) \in BucketsOfRows /\ Touched(rest).events = rest
        /\ Touched(rest).dirty /\ Touched(rest).acc = {}
    BY <2>1, TouchedType
  <2>3. /\ new \in BucketSets /\ DOMAIN new = DOMAIN bs
        /\ new[b] = Touched(rest)
        /\ \A x \in DOMAIN bs : x # b => new[x] = bs[x]
    <3> DEFINE v == Touched(rest)
    <3>1. v \in BucketsOfRows
      BY <2>2
    <3> HIDE DEF new, b, v
    <3>2. new = With(bs, b, v)
      BY <2>1 DEF v
    <3>3. /\ With(bs, b, v) \in BucketSets /\ DOMAIN With(bs, b, v) = DOMAIN bs \cup {b}
          /\ With(bs, b, v)[b] = v
          /\ \A x \in DOMAIN bs : x # b => With(bs, b, v)[x] = bs[x]
      BY <1>1, <3>1, WithShape
    <3>4. DOMAIN bs \cup {b} = DOMAIN bs
      BY <1>6
    <3> QED
      BY <3>2, <3>3, <3>4 DEF v
  <2> HIDE DEF new
  <2>4. Sorted(new) /\ Kept(new, bs)
    <3> HIDE DEF b, rest
    <3>1. \A x \in DOMAIN new : x = b \/ (x \in DOMAIN bs /\ new[x] = bs[x])
      BY <2>3
    <3>2. \A x \in rest : BucketOf[x] = b
      BY <1>6 DEF Sorted, rest
    <3> QED
      BY <2>1, <2>2, <2>3, <3>1, <3>2 DEF Sorted, Kept
  <2>5. \A x \in DOMAIN bs : new[x].events = bs[x].events \ {r}
    BY <1>3, <2>2, <2>3
  <2>6. Holds(new) = Holds(bs) \ {r}
    BY <2>3, <2>5 DEF Holds
  <2> QED
    BY <2>3, <2>4, <2>6 DEF new
<1> QED
  BY <1>4, <1>5, <1>6

LEMMA InsertedShape ==
    ASSUME NEW bs \in BucketSets, Sorted(bs), NEW r \in Rows,
           \A x \in Holds(bs) : x.key # r.key
    PROVE  LET new == RowInserted(bs, r)
           IN  /\ new \in BucketSets /\ Sorted(new) /\ Kept(new, bs)
               /\ Holds(new) = Holds(bs) \cup {r}
<1> DEFINE b == BucketOf[r]
           new == RowInserted(bs, r)
           rows == IF b \in DOMAIN bs THEN bs[b].events \cup {r} ELSE {r}
<1>1. DOMAIN bs \subseteq Names /\ bs \in [DOMAIN bs -> BucketsOfRows] /\ b \in Names
  BY BucketShape DEF Names
<1>2. \A x \in DOMAIN bs : bs[x].events \subseteq Rows
  BY <1>1 DEF BucketsOfRows
<1>3. new = With(bs, b, Touched(rows)) /\ rows # {} /\ rows \subseteq Rows
  BY <1>2 DEF RowInserted, Holds
<1>4. \A x \in rows : BucketOf[x] = b
  BY DEF Sorted
<1>5. /\ Touched(rows) \in BucketsOfRows /\ Touched(rows).events = rows
      /\ Touched(rows).dirty /\ Touched(rows).acc = {}
  BY <1>3, TouchedType
<1>6. /\ new \in BucketSets /\ DOMAIN new = DOMAIN bs \cup {b}
      /\ new[b] = Touched(rows)
      /\ \A x \in DOMAIN bs : x # b => new[x] = bs[x]
  <2> DEFINE v == Touched(rows)
  <2>1. v \in BucketsOfRows
    BY <1>5
  <2> HIDE DEF new, b, v
  <2>2. new = With(bs, b, v)
    BY <1>3 DEF v
  <2>3. /\ With(bs, b, v) \in BucketSets /\ DOMAIN With(bs, b, v) = DOMAIN bs \cup {b}
        /\ With(bs, b, v)[b] = v
        /\ \A x \in DOMAIN bs : x # b => With(bs, b, v)[x] = bs[x]
    BY <1>1, <2>1, WithShape
  <2> QED
    BY <2>2, <2>3 DEF v
<1>7. Holds(new) = Holds(bs) \cup {r}
  <2> HIDE DEF new
  <2>1. Holds(new) = UNION {new[x].events : x \in DOMAIN bs \cup {b}}
    BY <1>6 DEF Holds
  <2>2. \A y \in Holds(new) : y \in Holds(bs) \cup {r}
    BY <1>5, <1>6, <2>1 DEF Holds
  <2>3. \A y \in Holds(bs) : y \in Holds(new)
    BY <1>5, <1>6, <2>1 DEF Holds
  <2>4. r \in Holds(new)
    BY <1>5, <1>6, <2>1
  <2> QED
    BY <2>2, <2>3, <2>4
<1> HIDE DEF new, rows, b
<1>8. Sorted(new) /\ Kept(new, bs)
  BY <1>3, <1>4, <1>5, <1>6 DEF Sorted, Kept
<1> QED
  BY <1>6, <1>7, <1>8 DEF new

LEMMA KeptThrough ==
    ASSUME NEW a, NEW b, NEW c, Kept(b, a), Kept(c, b)
    PROVE  Kept(c, a)
BY DEF Kept

\* One change applied to the buckets of C leaves those of what it turns C into.
LEMMA AppliedShape ==
    ASSUME NEW bs \in BucketSets, Sorted(bs), NEW axis, NEW c \in Changes, NEW D,
           Turns(c, axis, Holds(bs), D)
    PROVE  LET new == Applied(bs, axis, c)
           IN  new \in BucketSets /\ Sorted(new) /\ Kept(new, bs) /\ Holds(new) = D
<1> DEFINE out == IF c.replaced # None /\ c.replaced \in AdmittedBy[axis]
                  THEN RowRemoved(bs, c.replaced) ELSE bs
           new == Applied(bs, axis, c)
<1>1. c.replaced \in Rows \cup {None} /\ c.event \in Rows \cup {None}
  BY DEF Changes
<1>2. out \in BucketSets /\ Sorted(out) /\ Kept(out, bs)
      /\ Holds(out) = Holds(bs) \ Out(c, axis)
  <2>1. CASE c.replaced # None /\ c.replaced \in AdmittedBy[axis]
    BY <1>1, <2>1, RemovedShape DEF Out
  <2>2. CASE ~(c.replaced # None /\ c.replaced \in AdmittedBy[axis])
    BY <2>2 DEF Out, Kept
  <2> QED
    BY <2>1, <2>2
<1> HIDE DEF out
<1>3. new = IF c.event # None /\ c.event \in AdmittedBy[axis]
            THEN RowInserted(out, c.event) ELSE out
  BY DEF Applied, out
<1> HIDE DEF new
<1>4. CASE c.event # None /\ c.event \in AdmittedBy[axis]
  <2>1. c.event \in Rows /\ In(c, axis) = {c.event} /\ new = RowInserted(out, c.event)
    BY <1>1, <1>3, <1>4 DEF In
  <2>2. \A x \in Holds(out) : x.key # c.event.key
    BY <1>2, <2>1 DEF Turns
  <2>3. new \in BucketSets /\ Sorted(new) /\ Kept(new, out)
        /\ Holds(new) = Holds(out) \cup {c.event}
    BY <1>2, <2>1, <2>2, InsertedShape
  <2>4. Kept(new, bs)
    BY <1>2, <2>3, KeptThrough
  <2>5. Holds(new) = D
    BY <1>2, <2>1, <2>3 DEF Turns
  <2> QED
    BY <2>3, <2>4, <2>5 DEF new
<1>5. CASE ~(c.event # None /\ c.event \in AdmittedBy[axis])
  <2>1. new = out /\ In(c, axis) = {}
    BY <1>3, <1>5 DEF In
  <2> QED
    BY <1>2, <2>1 DEF Turns, new
<1> QED
  BY <1>4, <1>5

\* A property of no number before the first that lacks it, and kept by each step,
\* is one of all.
LEMMA NoFirst ==
    ASSUME NEW N \in Nat, NEW S \in SUBSET (0 .. N), S # {}
    PROVE  \E m \in S : \A n \in S : m <= n
<1> DEFINE R == {ss \in Nat \X Nat : ss[1] < ss[2]}
<1>1. R = OpToRel(<, Nat)
  BY DEF OpToRel
<1>2. IsWellFoundedOn(R, Nat)
  BY <1>1, NatLessThanWellFounded
<1>3. S \subseteq Nat
  OBVIOUS
<1>4. \E m \in S : \A n \in S : ~(<<n, m>> \in R)
  <2> HIDE DEF R
  <2> QED
    BY <1>2, <1>3, WFMin
<1>5. \E m \in S : \A n \in S : ~(n < m)
  BY <1>3, <1>4
<1> QED
  BY <1>3, <1>5

\* The batch's buckets after each of its changes.
Replayed(f, bs, axis, cs) ==
    f = [i \in 0 .. Len(cs) |-> IF i = 0 THEN bs ELSE Applied(f[i - 1], axis, cs[i])]

LEMMA ReplayDefined ==
    ASSUME NEW bs, NEW axis, NEW cs, Len(cs) \in Nat
    PROVE  \E f : Replayed(f, bs, axis, cs) /\ AppliedAll(bs, axis, cs) = f[Len(cs)]
<1> DEFINE N == Len(cs)
           Upto(f, n) == f = [i \in 0 .. n |->
                                IF i = 0 THEN bs ELSE Applied(f[i - 1], axis, cs[i])]
           Bad == {n \in 0 .. N : ~\E f : Upto(f, n)}
<1>1. Bad = {}
  <2>1. SUFFICES ASSUME Bad # {} PROVE FALSE
    OBVIOUS
  <2>2. PICK m \in Bad : \A n \in Bad : m <= n
    <3> HIDE DEF Bad
    <3>1. Bad \in SUBSET (0 .. N)
      BY DEF Bad
    <3> QED
      BY <2>1, <3>1, NoFirst
  <2>3. m # 0
    <3>1. Upto([i \in 0 .. 0 |-> bs], 0)
      OBVIOUS
    <3> QED
      BY <3>1
  <2>4. m - 1 \in 0 .. N /\ m - 1 \notin Bad
    <3>1. m \in 0 .. N
      BY DEF Bad
    <3> HIDE DEF Bad
    <3>2. m - 1 \in 0 .. N /\ ~(m <= m - 1)
      BY <2>3, <3>1
    <3> QED
      BY <2>2, <3>2
  <2>5. PICK f : Upto(f, m - 1)
    BY <2>4
  <2> DEFINE g == [i \in 0 .. m |->
                     IF i = m THEN Applied(f[m - 1], axis, cs[m]) ELSE f[i]]
  <2>6. Upto(g, m)
    <3>1. \A i \in 0 .. m : g[i] = IF i = 0 THEN bs ELSE Applied(g[i - 1], axis, cs[i])
      BY <2>2, <2>3, <2>5
    <3>2. g = [i \in 0 .. m |-> g[i]]
      OBVIOUS
    <3> HIDE DEF g
    <3> QED
      BY <3>1, <3>2
  <2> QED
    BY <2>2, <2>6
<1>2. \E f : Upto(f, N)
  BY <1>1
<1>3. Upto(CHOOSE f : Upto(f, N), N)
  BY <1>2
<1>4. AppliedAll(bs, axis, cs) = (CHOOSE f : Upto(f, N))[N]
  BY DEF AppliedAll
<1> QED
  BY <1>3, <1>4 DEF Replayed

\* A batch applied to the buckets of C leaves those of what it leads C to.
LEMMA ReplayShape ==
    ASSUME NEW bs \in BucketSets, Sorted(bs), NEW axis, NEW cs \in Seq(Changes), NEW D,
           Leads(cs, axis, Holds(bs), D)
    PROVE  LET new == AppliedAll(bs, axis, cs)
           IN  new \in BucketSets /\ Sorted(new) /\ Kept(new, bs) /\ Holds(new) = D
<1> DEFINE N == Len(cs)
<1>1. N \in Nat /\ \A i \in 1 .. N : cs[i] \in Changes
  OBVIOUS
<1>2. PICK f : Replayed(f, bs, axis, cs) /\ AppliedAll(bs, axis, cs) = f[N]
  BY <1>1, ReplayDefined
<1>3. PICK path \in [0 .. N -> SUBSET Rows] :
          /\ path[0] = Holds(bs) /\ path[N] = D
          /\ \A i \in 1 .. N : Turns(cs[i], axis, path[i - 1], path[i])
  BY DEF Leads
<1>4. f[0] = bs /\ \A i \in 1 .. N : f[i] = Applied(f[i - 1], axis, cs[i])
  BY <1>1, <1>2 DEF Replayed
<1> DEFINE Good(i) == /\ f[i] \in BucketSets /\ Sorted(f[i]) /\ Kept(f[i], bs)
                      /\ Holds(f[i]) = path[i]
           Bad == {i \in 0 .. N : ~Good(i)}
<1>5. Good(0)
  BY <1>3, <1>4 DEF Kept
<1>6. Bad = {}
  <2>1. SUFFICES ASSUME Bad # {} PROVE FALSE
    OBVIOUS
  <2>2. PICK m \in Bad : \A n \in Bad : m <= n
    <3> HIDE DEF Bad
    <3>1. Bad \in SUBSET (0 .. N)
      BY DEF Bad
    <3> QED
      BY <1>1, <2>1, <3>1, NoFirst
  <2>3. m \in 1 .. N
    BY <1>1, <1>5, <2>2
  <2>4. m - 1 \in 0 .. N /\ m - 1 \notin Bad
    <3> HIDE DEF Bad
    <3>1. m - 1 \in 0 .. N /\ ~(m <= m - 1)
      BY <1>1, <2>3
    <3> QED
      BY <2>2, <3>1
  <2>5. Good(m - 1)
    BY <2>4
  <2>6. Turns(cs[m], axis, Holds(f[m - 1]), path[m]) /\ cs[m] \in Changes
        /\ f[m] = Applied(f[m - 1], axis, cs[m])
    BY <1>1, <1>3, <1>4, <2>3, <2>5
  <2>7. f[m] \in BucketSets /\ Sorted(f[m]) /\ Kept(f[m], f[m - 1]) /\ Holds(f[m]) = path[m]
    BY <2>5, <2>6, AppliedShape
  <2>8. Good(m)
    BY <2>5, <2>7, KeptThrough
  <2> QED
    BY <2>2, <2>8
<1>7. Good(N)
  BY <1>1, <1>6
<1> QED
  BY <1>2, <1>3, <1>7

LEMMA UnfoldedKept ==
    ASSUME NEW new, NEW old, Kept(new, old), Unfolded(old)
    PROVE  Unfolded(new)
BY DEF Kept, Unfolded

\* No change leads nowhere, and one more leads on.
LEMMA LeadsNowhere ==
    ASSUME NEW axis, NEW C \in SUBSET Rows
    PROVE  Leads(<<>>, axis, C, C)
<1> DEFINE path == [i \in 0 .. 0 |-> C]
<1>1. path \in [0 .. Len(<<>>) -> SUBSET Rows] /\ path[0] = C /\ path[Len(<<>>)] = C
  OBVIOUS
<1>2. \A i \in 1 .. Len(<<>>) : FALSE
  OBVIOUS
<1> HIDE DEF path
<1> QED
  BY <1>1, <1>2 DEF Leads

LEMMA LeadsOn ==
    ASSUME NEW axis, NEW cs \in Seq(Changes), NEW C, NEW D, NEW E \in SUBSET Rows,
           Leads(cs, axis, C, D), NEW c \in Changes, Turns(c, axis, D, E)
    PROVE  Leads(Append(cs, c), axis, C, E)
<1> DEFINE N == Len(cs)
           more == Append(cs, c)
<1>1. PICK path \in [0 .. N -> SUBSET Rows] :
          /\ path[0] = C /\ path[N] = D
          /\ \A i \in 1 .. N : Turns(cs[i], axis, path[i - 1], path[i])
  BY DEF Leads
<1>2. N \in Nat /\ Len(more) = N + 1 /\ more[N + 1] = c
      /\ \A i \in 1 .. N : more[i] = cs[i]
  BY AppendProperties
<1> DEFINE next == [i \in 0 .. N + 1 |-> IF i = N + 1 THEN E ELSE path[i]]
<1>3. next \in [0 .. Len(more) -> SUBSET Rows] /\ next[0] = C /\ next[Len(more)] = E
  BY <1>1, <1>2
<1>4. ASSUME NEW i \in 1 .. Len(more)
      PROVE  Turns(more[i], axis, next[i - 1], next[i])
  <2>1. CASE i = N + 1
    <3>1. next[i - 1] = D /\ next[i] = E /\ more[i] = c
      BY <1>1, <1>2, <2>1
    <3> QED
      BY <3>1
  <2>2. CASE i \in 1 .. N
    <3>1. next[i - 1] = path[i - 1] /\ next[i] = path[i] /\ more[i] = cs[i]
      BY <1>1, <1>2, <2>2
    <3> QED
      BY <1>1, <2>2, <3>1
  <2> QED
    BY <1>2, <2>1, <2>2
<1> HIDE DEF next, more
<1> QED
  BY <1>3, <1>4 DEF Leads, more

-------------------------------------------------------------------------------
(* Steps that ask no question *)

\* Each query that is still there asks for the same, and has seen no less.
QueriesStay ==
    \A m \in DOMAIN queries' :
        /\ m \in DOMAIN queries
        /\ queries'[m].entry = queries[m].entry /\ queries'[m].prices = queries[m].prices
        /\ queries[m].seen \subseteq queries'[m].seen
        /\ Waiting(queries'[m]) => Waiting(queries[m])

LEMMA ServesStays ==
    ASSUME QueriesStay, family' = family, NEW id, BoundRows' = BoundRows \/ ~InFamily(id),
           NEW C,
           entries'[id].axis = entries[id].axis, Serves(id, C)
    PROVE  Serves(id, C)'
BY DEF QueriesStay, Serves, InFamily, Content

LEMMA PricedStays ==
    ASSUME QueriesStay, family' = family, boundPrices' = boundPrices, NEW id, NEW fold,
           PricedFor(id, fold)
    PROVE  PricedFor(id, fold)'
BY DEF QueriesStay, PricedFor, InFamily

LEMMA QueryTyped ==
    ASSUME CacheInv, NEW n \in DOMAIN queries
    PROVE  /\ n \in Nat /\ queries[n] \in Queries
           /\ queries[n].entry \in DOMAIN entries
           /\ entries[queries[n].entry] \in Entries
           /\ entries[queries[n].entry].axis = queries[n].axis
BY DEF CacheInv, QueriesOK, EntriesOK, QueriesFit, QueryFits

\* While one query of an entry works, the others wait to begin or are answered.
LEMMA OthersRest ==
    ASSUME CacheInv, NEW n \in DOMAIN queries, Runs(n), queries[n].phase # "answered"
    PROVE  \A m \in DOMAIN queries :
             m # n /\ queries[m].entry = queries[n].entry
             => queries[m].phase \in {"queued", "answered"}
<1> SUFFICES ASSUME NEW m \in DOMAIN queries, m # n, queries[m].entry = queries[n].entry,
                    queries[m].phase \notin {"queued", "answered"}
             PROVE  FALSE
  OBVIOUS
<1>1. m \in Nat /\ n \in Nat /\ queries[m] \in Queries
  BY QueryTyped
<1>2. queries[m].phase \in {"build", "refold", "clean"}
  BY <1>1 DEF Queries
<1>3. n <= m
  BY <1>2 DEF Runs
<1>4. n < m
  BY <1>1, <1>3
<1>5. InTurn
  BY DEF CacheInv
<1> QED
  BY <1>2, <1>4, <1>5 DEF InTurn

\* One query whose turn it is moves on, and its entry with it.
QueryMoves(n, e, q) ==
    LET id == queries[n].entry
    IN  /\ n \in DOMAIN queries /\ Runs(n) /\ queries[n].phase # "answered"
        /\ e \in Entries /\ e.axis = entries[id].axis
        /\ q \in Queries /\ q.entry = id /\ q.axis = queries[n].axis
        /\ q.seen = queries[n].seen /\ q.prices = queries[n].prices
        /\ Waiting(q) => Waiting(queries[n])
        /\ entries' = [entries EXCEPT ![id] = e] /\ queries' = [queries EXCEPT ![n] = q]
        /\ UNCHANGED <<storeRows, oldRows, swapped, prices, boundPrices, family, asked>>

LEMMA MoveFacts ==
    ASSUME CacheInv, NEW n, NEW e, NEW q, QueryMoves(n, e, q)
    PROVE  /\ queries[n].entry \in DOMAIN entries
           /\ entries[queries[n].entry] \in Entries /\ queries[n] \in Queries
           /\ entries' \in [DOMAIN entries -> Entries] /\ DOMAIN entries' = DOMAIN entries
           /\ queries' \in [DOMAIN queries -> Queries] /\ DOMAIN queries' = DOMAIN queries
           /\ entries'[queries[n].entry] = e /\ queries'[n] = q
           /\ \A id \in DOMAIN entries : id # queries[n].entry => entries'[id] = entries[id]
           /\ \A m \in DOMAIN queries : m # n => queries'[m] = queries[m]
           /\ \A id \in DOMAIN entries : entries'[id].axis = entries[id].axis
           /\ \A m \in DOMAIN queries : queries'[m].entry = queries[m].entry
           /\ BoundRows' = BoundRows /\ QueriesStay
<1> USE DEF QueryMoves
<1>1. n \in DOMAIN queries /\ queries[n] \in Queries /\ queries[n].entry \in DOMAIN entries
      /\ entries[queries[n].entry] \in Entries
  BY QueryTyped
<1>2. entries \in [DOMAIN entries -> Entries] /\ queries \in [DOMAIN queries -> Queries]
  BY DEF CacheInv, EntriesOK, QueriesOK
<1>3. /\ entries' \in [DOMAIN entries -> Entries] /\ DOMAIN entries' = DOMAIN entries
      /\ entries'[queries[n].entry] = e
      /\ \A id \in DOMAIN entries : id # queries[n].entry => entries'[id] = entries[id]
  BY <1>1, <1>2
<1>4. /\ queries' \in [DOMAIN queries -> Queries] /\ DOMAIN queries' = DOMAIN queries
      /\ queries'[n] = q
      /\ \A m \in DOMAIN queries : m # n => queries'[m] = queries[m]
  BY <1>1, <1>2
<1>5. BoundRows' = BoundRows
  BY DEF BoundRows
<1>6. QueriesStay
  BY <1>4 DEF QueriesStay
<1>7. \A id \in DOMAIN entries : entries'[id].axis = entries[id].axis
  BY <1>3
<1>8. \A m \in DOMAIN queries : queries'[m].entry = queries[m].entry
  BY <1>4
<1> QED
  BY <1>1, <1>3, <1>4, <1>5, <1>6, <1>7, <1>8

\* Nothing else has moved: what remains is the entry and the query.
LEMMA OneMoves ==
    ASSUME CacheInv, NEW n, NEW e, NEW q, QueryMoves(n, e, q),
           NEW at, at = queries[n].entry, EntryOK(at)', QueryOK(n)'
    PROVE  CacheInv'
<1>0. UNCHANGED <<storeRows, oldRows, swapped, prices, boundPrices, family, asked>>
      /\ n \in DOMAIN queries /\ Runs(n) /\ queries[n].phase # "answered"
      /\ q.entry = at /\ q.axis = queries[n].axis /\ q.seen = queries[n].seen
      /\ q.prices = queries[n].prices
  BY DEF QueryMoves
<1>1. /\ at \in DOMAIN entries
      /\ entries' \in [DOMAIN entries -> Entries] /\ DOMAIN entries' = DOMAIN entries
      /\ queries' \in [DOMAIN queries -> Queries] /\ DOMAIN queries' = DOMAIN queries
      /\ queries'[n] = q
      /\ \A id \in DOMAIN entries : id # at => entries'[id] = entries[id]
      /\ \A m \in DOMAIN queries : m # n => queries'[m] = queries[m]
      /\ \A id \in DOMAIN entries : entries'[id].axis = entries[id].axis
      /\ BoundRows' = BoundRows /\ QueriesStay
  BY MoveFacts
<1>2. \A m \in DOMAIN queries :
        m # n /\ queries[m].entry = at => queries[m].phase \in {"queued", "answered"}
  BY <1>0, OthersRest
<1>3. (StoreOK /\ EntriesOK /\ QueriesOK)'
  BY <1>0, <1>1 DEF CacheInv, StoreOK, EntriesOK, QueriesOK
<1>4. QueriesFit'
  <2> SUFFICES ASSUME NEW m \in DOMAIN queries PROVE QueryFits(m)'
    BY <1>1 DEF QueriesFit
  <2>1. QueryFits(m)
    BY DEF CacheInv, QueriesFit
  <2>2. /\ queries'[m].entry = queries[m].entry /\ queries'[m].axis = queries[m].axis
        /\ queries'[m].seen = queries[m].seen /\ queries'[m].prices = queries[m].prices
    BY <1>0, <1>1
  <2>3. entries'[queries[m].entry].axis = entries[queries[m].entry].axis
    BY <1>1, <2>1 DEF QueryFits
  <2> QED
    BY <1>0, <1>1, <2>1, <2>2, <2>3 DEF QueryFits, Content
<1>5. InTurn'
  <2> SUFFICES ASSUME NEW k \in DOMAIN queries, NEW m \in DOMAIN queries,
                      k < m, queries'[k].entry = queries'[m].entry,
                      queries'[m].phase \in {"build", "refold", "clean"}
               PROVE  queries'[k].phase = "answered"
    BY <1>1 DEF InTurn
  <2>0. k \in Nat /\ m \in Nat /\ n \in Nat /\ InTurn
    BY <1>0, QueryTyped DEF CacheInv
  <2>1. CASE m = n
    <3>1. k # n /\ queries[k].entry = queries[n].entry /\ ~(n <= k)
      BY <1>0, <1>1, <2>0, <2>1
    <3> QED
      BY <1>0, <1>1, <3>1 DEF Runs
  <2>2. CASE m # n /\ k = n
    <3>1. queries[m].entry = queries[n].entry
          /\ queries[m].phase \in {"build", "refold", "clean"}
      BY <1>0, <1>1, <2>2
    <3> QED
      BY <1>2, <2>2, <3>1
  <2>3. CASE m # n /\ k # n
    BY <1>1, <2>0, <2>3 DEF InTurn
  <2> QED
    BY <2>1, <2>2, <2>3
<1>6. ASSUME NEW id \in DOMAIN entries, id # at
      PROVE  EntryOK(id)'
  <2>1. EntryOK(id) /\ entries'[id] = entries[id]
    BY <1>1, <1>6 DEF CacheInv
  <2>2. \A m \in DOMAIN queries :
          queries[m].entry = id \/ queries'[m].entry = id => queries'[m] = queries[m]
    BY <1>0, <1>1, <1>6
  <2>3. \A b : BeingFolded(id, b) => BeingFolded(id, b)'
    BY <1>1, <2>2 DEF BeingFolded
  <2>4. \A fold : PricedFor(id, fold) => PricedFor(id, fold)'
    BY <1>0, <1>1, PricedStays
  <2>5. \A C : Serves(id, C) => Serves(id, C)'
    BY <1>0, <1>1, ServesStays
  <2>6. BuiltOK(id) => BuiltOK(id)'
    BY <2>1, <2>3, <2>4, <2>5 DEF BuiltOK
  <2> QED
    BY <1>1, <2>1, <2>2, <2>6 DEF EntryOK
<1>7. ASSUME NEW m \in DOMAIN queries, m # n
      PROVE  QueryOK(m)'
  <2>1. QueryOK(m) /\ queries'[m] = queries[m] /\ queries[m] \in Queries
    BY <1>1, <1>7, QueryTyped DEF CacheInv
  <2>2. CASE queries[m].entry = at
    BY <1>2, <1>7, <2>1, <2>2 DEF QueryOK, Answers
  <2>3. CASE queries[m].entry # at
    <3>1. entries'[queries[m].entry] = entries[queries[m].entry]
      BY <1>1, <2>3, QueryTyped
    <3>2. \A fold : PricedFor(queries[m].entry, fold)
            => PricedFor(queries[m].entry, fold)'
      <4> PICK id : id = queries[m].entry
        OBVIOUS
      <4>1. id = queries'[m].entry
        BY <2>1
      <4>2. \A fold : PricedFor(id, fold) => PricedFor(id, fold)'
        BY <1>0, <1>1, PricedStays
      <4> QED
        BY <4>1, <4>2
    <3>3. \A C : Serves(queries[m].entry, C) => Serves(queries[m].entry, C)'
      <4> PICK id : id = queries[m].entry
        OBVIOUS
      <4>1. id = queries'[m].entry /\ entries'[id].axis = entries[id].axis
        BY <2>1, <3>1
      <4>2. \A C : Serves(id, C) => Serves(id, C)'
        BY <1>0, <1>1, <4>1, ServesStays
      <4> QED
        BY <4>1, <4>2
    <3>4. BuildOK(m) => BuildOK(m)'
      BY <2>1, <3>1, <3>3 DEF BuildOK
    <3>5. RefoldOK(m) => RefoldOK(m)'
      BY <2>1, <3>1, <3>2 DEF RefoldOK
    <3> QED
      BY <2>1, <3>4, <3>5 DEF QueryOK, Answers
  <2> QED
    BY <2>2, <2>3
<1> QED
  BY <1>1, <1>3, <1>4, <1>5, <1>6, <1>7 DEF CacheInv

LEMMA NoneIsNoName == None \notin Names /\ None \notin Rows
BY ReportCacheAssumption DEF Names

LEMMA EntryStays ==
    ASSUME CacheInv, NEW n, NEW e, NEW q, QueryMoves(n, e, q),
           NEW at, at = queries[n].entry, e = entries[at], queries[n].phase # "build",
           queries[n].phase = "refold" /\ queries[n].bucket # None
           => q.phase = "refold" /\ q.bucket = queries[n].bucket
    PROVE  EntryOK(at)'
<1>1. /\ at \in DOMAIN entries /\ n \in DOMAIN queries
      /\ entries'[at] = e /\ queries'[n] = q /\ DOMAIN queries' = DOMAIN queries
      /\ \A m \in DOMAIN queries : m # n => queries'[m] = queries[m]
      /\ \A m \in DOMAIN queries : queries'[m].entry = queries[m].entry
      /\ BoundRows' = BoundRows /\ QueriesStay
  BY MoveFacts DEF QueryMoves
<1>2. EntryOK(at) /\ e \in Entries /\ family' = family /\ boundPrices' = boundPrices
  BY <1>1 DEF CacheInv, QueryMoves
<1>3. DOMAIN e.buckets \subseteq Names
  BY <1>2, BucketShape DEF Entries
<1>4. \A b \in DOMAIN e.buckets : BeingFolded(at, b) => BeingFolded(at, b)'
  <2> SUFFICES ASSUME NEW b \in DOMAIN e.buckets, BeingFolded(at, b) PROVE BeingFolded(at, b)'
    OBVIOUS
  <2>1. PICK m \in DOMAIN queries : queries[m].entry = at /\ queries[m].phase = "refold"
                                    /\ queries[m].bucket = b
    BY DEF BeingFolded
  <2>2. b # None
    BY <1>3, NoneIsNoName
  <2>3. queries'[m].entry = at /\ queries'[m].phase = "refold" /\ queries'[m].bucket = b
    BY <1>1, <2>1, <2>2
  <2> QED
    BY <1>1, <2>3 DEF BeingFolded
<1>5. \A fold : PricedFor(at, fold) => PricedFor(at, fold)'
  BY <1>1, <1>2, PricedStays
<1>6. \A C : Serves(at, C) => Serves(at, C)'
  BY <1>1, <1>2, ServesStays
<1>7. BuiltOK(at) => BuiltOK(at)'
  BY <1>1, <1>4, <1>5, <1>6 DEF BuiltOK
<1>8. e.building => \E m \in DOMAIN queries' : queries'[m].entry = at
                                               /\ queries'[m].phase = "build"
  BY <1>1, <1>2 DEF EntryOK
<1> QED
  BY <1>1, <1>2, <1>7, <1>8 DEF EntryOK

LEMMA BeginKeeps ==
    ASSUME CacheInv, NEW n, Begin(n)
    PROVE  CacheInv'
<1>0. n \in DOMAIN queries /\ Runs(n) /\ queries[n].phase = "queued" /\ Quiet
  BY DEF Begin, At
<1>1. PICK at : at = queries[n].entry
  OBVIOUS
<1>2. /\ queries[n] \in Queries /\ at \in DOMAIN entries /\ entries[at] \in Entries
      /\ entries[at].axis = queries[n].axis /\ EntryOK(at) /\ QueryOK(n)
  BY <1>0, <1>1, QueryTyped DEF CacheInv
<1>3. queries[n].bucket = None
  BY <1>0, <1>2 DEF QueryOK
<1>4. entries \in [DOMAIN entries -> Entries]
  BY DEF CacheInv, EntriesOK
<1>5. CASE entries[at].built
  <2>1. PICK e : e = entries[at]
    OBVIOUS
  <2>2. PICK q : q = [queries[n] EXCEPT !.phase = "refold"]
    OBVIOUS
  <2>3. /\ q \in Queries /\ q.phase = "refold" /\ q.bucket = None /\ q.entry = at
        /\ q.axis = queries[n].axis /\ q.seen = queries[n].seen /\ q.prices = queries[n].prices
    BY <1>1, <1>2, <1>3, <2>2 DEF Queries
  <2>4. entries' = [entries EXCEPT ![at] = e] /\ queries' = [queries EXCEPT ![n] = q]
    BY <1>1, <1>4, <1>5, <2>1, <2>2 DEF Begin, Mine, Query
  <2>5. QueryMoves(n, e, q)
    BY <1>0, <1>1, <1>2, <2>1, <2>3, <2>4 DEF QueryMoves, Waiting, Quiet, world
  <2>6. EntryOK(at)'
    BY <1>0, <1>1, <2>1, <2>5, EntryStays
  <2>7. QueryOK(n)'
    <3>1. queries'[n] = q /\ entries'[at] = e
      BY <1>1, <2>5, MoveFacts
    <3> QED
      BY <1>5, <2>1, <2>3, <3>1 DEF QueryOK, RefoldOK
  <2> QED
    BY <1>1, <2>5, <2>6, <2>7, OneMoves
<1>6. CASE ~entries[at].built
  <2>1. PICK e : e = [entries[at] EXCEPT !.building = TRUE]
    OBVIOUS
  <2>2. PICK q : q = [queries[n] EXCEPT !.phase = "build",
                                         !.todo = Content(queries[n].axis, BoundRows)]
    OBVIOUS
  <2>3. ~entries[at].building
    <3>1. SUFFICES ASSUME entries[at].building PROVE FALSE
      OBVIOUS
    <3>2. PICK m \in DOMAIN queries : queries[m].entry = at /\ queries[m].phase = "build"
      BY <1>2, <3>1 DEF EntryOK
    <3> QED
      BY <1>0, <1>1, <3>2, OthersRest
  <2>4. entries[at].buckets = <<>> /\ entries[at].pending = <<>>
    BY <1>2, <1>6, <2>3 DEF EntryOK
  <2>5. PICK C : C = Content(queries[n].axis, BoundRows)
    OBVIOUS
  <2>6. C \in SUBSET Rows
    BY <2>5 DEF Content, BoundRows, CacheInv, StoreOK
  <2>7. /\ q \in Queries /\ q.phase = "build" /\ q.bucket = None /\ q.entry = at /\ q.todo = C
        /\ q.axis = queries[n].axis /\ q.seen = queries[n].seen /\ q.prices = queries[n].prices
    BY <1>1, <1>2, <1>3, <2>2, <2>5, <2>6 DEF Queries
  <2>8. /\ e \in Entries /\ e.axis = entries[at].axis /\ e.built = FALSE /\ e.building
        /\ e.buckets = <<>> /\ e.pending = <<>>
    BY <1>2, <1>6, <2>1, <2>4 DEF Entries
  <2>9. entries' = [entries EXCEPT ![at] = e] /\ queries' = [queries EXCEPT ![n] = q]
    BY <1>1, <1>6, <2>1, <2>2 DEF Begin, Mine, Query, Entry
  <2>10. QueryMoves(n, e, q)
    BY <1>0, <1>1, <2>7, <2>8, <2>9 DEF QueryMoves, Waiting, Quiet, world
  <2>11. /\ queries'[n] = q /\ entries'[at] = e /\ n \in DOMAIN queries'
         /\ BoundRows' = BoundRows /\ QueriesStay /\ family' = family
    BY <1>0, <1>1, <2>10, MoveFacts DEF QueryMoves
  <2>12. EntryOK(at)'
    BY <2>7, <2>8, <2>11 DEF EntryOK
  <2>13. Serves(at, C)
    <3>1. \A m \in DOMAIN queries : queries[m].entry = at => C \in queries[m].seen
      BY <1>2, <2>5, QueryTyped DEF CacheInv, QueriesFit, QueryFits
    <3> QED
      BY <1>2, <2>5, <3>1 DEF Serves
  <2>14. Serves(at, C)'
    BY <2>8, <2>11, <2>13, ServesStays
  <2>15. Leads(<<>>, q.axis, C, C) /\ Holds(<<>>) \cup C = C
         /\ Sorted(<<>>) /\ Unfolded(<<>>)
    BY <2>6, LeadsNowhere, NoBuckets
  <2>16. BuildOK(n)'
    BY <2>6, <2>7, <2>8, <2>11, <2>14, <2>15 DEF BuildOK
  <2>17. QueryOK(n)'
    BY <2>7, <2>11, <2>16 DEF QueryOK
  <2> QED
    BY <1>1, <2>10, <2>12, <2>17, OneMoves
<1> QED
  BY <1>2, <1>5, <1>6 DEF Entries

LEMMA AssembleKeeps ==
    ASSUME CacheInv, NEW n, Assemble(n)
    PROVE  CacheInv'
<1>0. /\ n \in DOMAIN queries /\ Runs(n) /\ queries[n].phase = "clean" /\ Quiet
      /\ entries' = entries
  BY DEF Assemble, At
<1>1. PICK at : at = queries[n].entry
  OBVIOUS
<1>2. PICK e : e = entries[at]
  OBVIOUS
<1>3. PICK q : q = [queries[n] EXCEPT !.phase = "answered", !.answer = queries[n].folded]
  OBVIOUS
<1>4. /\ queries[n] \in Queries /\ at \in DOMAIN entries /\ e \in Entries /\ QueryOK(n)
      /\ entries \in [DOMAIN entries -> Entries]
  BY <1>0, <1>1, <1>2, QueryTyped DEF CacheInv, EntriesOK
<1>5. /\ q \in Queries /\ q.phase = "answered" /\ q.entry = at /\ q.answer = queries[n].folded
      /\ q.axis = queries[n].axis /\ q.seen = queries[n].seen /\ q.prices = queries[n].prices
  BY <1>1, <1>3, <1>4 DEF Queries
<1>6. entries' = [entries EXCEPT ![at] = e] /\ queries' = [queries EXCEPT ![n] = q]
  BY <1>0, <1>2, <1>3, <1>4 DEF Assemble, Query, Assembled
<1>7. QueryMoves(n, e, q)
  BY <1>0, <1>1, <1>2, <1>4, <1>5, <1>6 DEF QueryMoves, Waiting, Quiet, world
<1>8. EntryOK(at)'
  BY <1>0, <1>1, <1>2, <1>7, EntryStays
<1>9. QueryOK(n)'
  <2>1. queries'[n] = q
    BY <1>7, MoveFacts
  <2>2. Answers(n, queries[n].folded)
    BY <1>0, <1>4 DEF QueryOK
  <2> QED
    BY <1>5, <2>1, <2>2 DEF QueryOK, Answers
<1> QED
  BY <1>1, <1>7, <1>8, <1>9, OneMoves

LEMMA CleanPassKeeps ==
    ASSUME CacheInv, NEW n, CleanPass(n)
    PROVE  CacheInv'
<1>0. /\ n \in DOMAIN queries /\ Runs(n) /\ queries[n].phase = "refold" /\ Quiet
      /\ queries[n].bucket = None /\ entries' = entries
  BY DEF CleanPass, At
<1>1. PICK at : at = queries[n].entry
  OBVIOUS
<1>2. PICK e : e = entries[at]
  OBVIOUS
<1>3. PICK fold : fold = Folds(e.buckets)
  OBVIOUS
<1>4. PICK q : q = [queries[n] EXCEPT !.phase = "clean", !.folded = fold]
  OBVIOUS
<1>5. /\ queries[n] \in Queries /\ at \in DOMAIN entries /\ e \in Entries /\ QueryOK(n)
      /\ entries \in [DOMAIN entries -> Entries] /\ EntryOK(at)
  BY <1>0, <1>1, <1>2, QueryTyped DEF CacheInv, EntriesOK
<1>6. e.buckets \in [DOMAIN e.buckets -> BucketsOfRows] /\ DOMAIN e.buckets \subseteq Names
  BY <1>5, BucketShape DEF Entries
<1>7. fold \in SUBSET Priced
  BY <1>3, <1>6 DEF Folds, BucketsOfRows
<1>8. /\ q \in Queries /\ q.phase = "clean" /\ q.entry = at /\ q.folded = fold
      /\ q.axis = queries[n].axis /\ q.seen = queries[n].seen /\ q.prices = queries[n].prices
  BY <1>1, <1>4, <1>5, <1>7 DEF Queries
<1>9. entries' = [entries EXCEPT ![at] = e] /\ queries' = [queries EXCEPT ![n] = q]
      /\ \A b \in DOMAIN e.buckets : ~e.buckets[b].dirty
  BY <1>0, <1>1, <1>2, <1>3, <1>4, <1>5 DEF CleanPass, Query, Mine
<1>10. QueryMoves(n, e, q)
  BY <1>0, <1>1, <1>2, <1>5, <1>8, <1>9 DEF QueryMoves, Waiting, Quiet, world
<1>11. EntryOK(at)'
  BY <1>0, <1>1, <1>2, <1>10, EntryStays
<1>12. BuiltOK(at)
  BY <1>0, <1>1, <1>5 DEF QueryOK, RefoldOK, EntryOK
<1>13. \A b \in DOMAIN e.buckets :
         /\ RowsOf(e.buckets[b].acc) = e.buckets[b].events /\ Once(e.buckets[b].acc)
         /\ PricedFor(at, e.buckets[b].acc)
         /\ \A r \in e.buckets[b].events : BucketOf[r] = b
  <2> SUFFICES ASSUME NEW b \in DOMAIN e.buckets
               PROVE  /\ RowsOf(e.buckets[b].acc) = e.buckets[b].events
                      /\ Once(e.buckets[b].acc) /\ PricedFor(at, e.buckets[b].acc)
                      /\ \A r \in e.buckets[b].events : BucketOf[r] = b
    OBVIOUS
  <2>1. b # None
    BY <1>6, NoneIsNoName
  <2>2. ~BeingFolded(at, b)
    BY <1>0, <1>1, <2>1, OthersRest DEF BeingFolded
  <2> QED
    BY <1>2, <1>9, <1>12, <2>2 DEF BuiltOK, Sorted
<1>14. RowsOf(fold) = Holds(e.buckets)
  <2>1. ASSUME NEW r \in RowsOf(fold) PROVE r \in Holds(e.buckets)
    <3>1. PICK x \in fold : r = x.row
      BY DEF RowsOf
    <3>2. PICK b \in DOMAIN e.buckets : x \in e.buckets[b].acc
      BY <1>3, <3>1 DEF Folds
    <3>3. r \in e.buckets[b].events
      BY <1>13, <3>1, <3>2 DEF RowsOf
    <3> QED
      BY <3>3 DEF Holds
  <2>2. ASSUME NEW r \in Holds(e.buckets) PROVE r \in RowsOf(fold)
    <3>1. PICK b \in DOMAIN e.buckets : r \in e.buckets[b].events
      BY DEF Holds
    <3>2. PICK x \in e.buckets[b].acc : r = x.row
      BY <1>13, <3>1 DEF RowsOf
    <3> QED
      BY <1>3, <3>2 DEF Folds, RowsOf
  <2> QED
    BY <2>1, <2>2
<1>15. Once(fold)
  <2> SUFFICES ASSUME NEW x \in fold, NEW y \in fold, x.row = y.row PROVE x = y
    BY DEF Once
  <2>1. PICK b \in DOMAIN e.buckets : x \in e.buckets[b].acc
    BY <1>3 DEF Folds
  <2>2. PICK c \in DOMAIN e.buckets : y \in e.buckets[c].acc
    BY <1>3 DEF Folds
  <2>3. x.row \in e.buckets[b].events /\ y.row \in e.buckets[c].events
    BY <1>13, <2>1, <2>2 DEF RowsOf
  <2>4. b = c
    BY <1>13, <2>3
  <2> QED
    BY <1>13, <2>1, <2>2, <2>4 DEF Once
<1>16. Holds(e.buckets) \in queries[n].seen
  BY <1>0, <1>1, <1>2, <1>12 DEF BuiltOK, Serves, Waiting
<1>17. \A x \in fold : x.prices >= queries[n].prices
  BY <1>0, <1>1, <1>3, <1>13 DEF Folds, PricedFor
<1>18. QueryOK(n)'
  <2>1. queries'[n] = q
    BY <1>10, MoveFacts
  <2> QED
    BY <1>8, <1>14, <1>15, <1>16, <1>17, <2>1 DEF QueryOK, Answers
<1> QED
  BY <1>1, <1>10, <1>11, <1>18, OneMoves

LEMMA PartitionKeeps ==
    ASSUME CacheInv, NEW n, Partition(n)
    PROVE  CacheInv'
<1>0. /\ n \in DOMAIN queries /\ Runs(n) /\ queries[n].phase = "build" /\ Quiet
      /\ queries[n].todo # {}
  BY DEF Partition, At
<1>1. PICK at : at = queries[n].entry
  OBVIOUS
<1>2. PICK old : old = entries[at].buckets
  OBVIOUS
<1>3. PICK r : r = First(queries[n].todo)
  OBVIOUS
<1>4. PICK b : b = BucketOf[r]
  OBVIOUS
<1>5. PICK rows : rows = (IF b \in DOMAIN old THEN old[b].events ELSE {}) \cup {r}
  OBVIOUS
<1>6. PICK v : v = Touched(rows)
  OBVIOUS
<1>7. PICK bs : bs = With(old, b, v)
  OBVIOUS
<1>8. PICK e : e = [entries[at] EXCEPT !.buckets = bs]
  OBVIOUS
<1>9. PICK q : q = [queries[n] EXCEPT !.todo = @ \ {r}]
  OBVIOUS
<1>10. /\ queries[n] \in Queries /\ at \in DOMAIN entries /\ entries[at] \in Entries
       /\ QueryOK(n) /\ EntryOK(at) /\ old \in BucketSets
  BY <1>0, <1>1, <1>2, QueryTyped DEF CacheInv, Entries
<1>11. /\ entries[at].building /\ queries[n].bucket = None /\ Sorted(old) /\ Unfolded(old)
       /\ \E D \in SUBSET Rows :
            Leads(entries[at].pending, queries[n].axis, Holds(old) \cup queries[n].todo, D)
            /\ Serves(at, D)
  BY <1>0, <1>1, <1>2, <1>10 DEF QueryOK, BuildOK
<1>12. r \in queries[n].todo /\ queries[n].todo \subseteq Rows /\ r \in Rows /\ b \in Names
  BY <1>0, <1>3, <1>4, <1>10 DEF First, Queries, Names
<1>13. \A x \in DOMAIN old : old[x].events \subseteq Rows
  BY <1>10, BucketShape DEF BucketsOfRows
<1>14. rows \subseteq Rows /\ rows # {} /\ \A x \in rows : BucketOf[x] = b
  BY <1>4, <1>5, <1>11, <1>12, <1>13 DEF Sorted
<1>15. v \in BucketsOfRows /\ v.events = rows /\ v.dirty /\ v.acc = {}
  BY <1>6, <1>14, TouchedType
<1>16. /\ bs \in BucketSets /\ DOMAIN bs = DOMAIN old \cup {b} /\ bs[b] = v
       /\ \A x \in DOMAIN old : x # b => bs[x] = old[x]
  <2>1. old \in BucketSets /\ b \in Names /\ v \in BucketsOfRows
    BY <1>10, <1>12, <1>15
  <2>2. /\ With(old, b, v) \in BucketSets /\ DOMAIN With(old, b, v) = DOMAIN old \cup {b}
        /\ With(old, b, v)[b] = v
        /\ \A x \in DOMAIN old : x # b => With(old, b, v)[x] = old[x]
    BY <2>1, WithShape
  <2> QED
    BY <1>7, <2>2
<1>17. Sorted(bs) /\ Unfolded(bs)
  BY <1>11, <1>14, <1>15, <1>16 DEF Sorted, Unfolded
<1>18. Holds(bs) = Holds(old) \cup {r}
  <2>1. Holds(bs) = UNION {bs[x].events : x \in DOMAIN old \cup {b}}
    BY <1>16 DEF Holds
  <2>2. \A y \in Holds(bs) : y \in Holds(old) \cup {r}
    BY <1>5, <1>15, <1>16, <2>1 DEF Holds
  <2>3. \A y \in Holds(old) : y \in Holds(bs)
    BY <1>5, <1>15, <1>16, <2>1 DEF Holds
  <2>4. r \in Holds(bs)
    BY <1>5, <1>15, <1>16, <2>1
  <2> QED
    BY <2>2, <2>3, <2>4
<1>19. /\ q \in Queries /\ q.phase = "build" /\ q.bucket = None /\ q.entry = at
       /\ q.todo = queries[n].todo \ {r}
       /\ q.axis = queries[n].axis /\ q.seen = queries[n].seen /\ q.prices = queries[n].prices
  BY <1>0, <1>1, <1>9, <1>10, <1>11 DEF Queries
<1>20. /\ e \in Entries /\ e.axis = entries[at].axis /\ e.built = entries[at].built
       /\ e.building /\ e.buckets = bs /\ e.pending = entries[at].pending
  BY <1>8, <1>10, <1>11, <1>16 DEF Entries
<1>21. entries' = [entries EXCEPT ![at] = e] /\ queries' = [queries EXCEPT ![n] = q]
  BY <1>1, <1>2, <1>3, <1>4, <1>5, <1>6, <1>7, <1>8, <1>9
  DEF Partition, Mine, Query, Entry
<1>22. QueryMoves(n, e, q)
  BY <1>0, <1>1, <1>19, <1>20, <1>21 DEF QueryMoves, Waiting, Quiet, world
<1>23. /\ queries'[n] = q /\ entries'[at] = e /\ n \in DOMAIN queries'
       /\ BoundRows' = BoundRows /\ QueriesStay /\ family' = family
  BY <1>0, <1>1, <1>22, MoveFacts DEF QueryMoves
<1>24. EntryOK(at)'
  BY <1>10, <1>11, <1>19, <1>20, <1>23 DEF EntryOK
<1>25. PICK D \in SUBSET Rows :
          Leads(entries[at].pending, queries[n].axis, Holds(old) \cup queries[n].todo, D)
          /\ Serves(at, D)
  BY <1>11
<1>26. Serves(at, D)'
  BY <1>20, <1>23, <1>25, ServesStays
<1>27. Holds(bs) \cup q.todo = Holds(old) \cup queries[n].todo
  BY <1>12, <1>18, <1>19
<1>28. BuildOK(n)'
  BY <1>17, <1>19, <1>20, <1>23, <1>25, <1>26, <1>27 DEF BuildOK
<1>29. QueryOK(n)'
  BY <1>19, <1>23, <1>28 DEF QueryOK
<1> QED
  BY <1>1, <1>22, <1>24, <1>29, OneMoves

LEMMA NoFoldIsPriced == \A id : PricedFor(id, {}) /\ Once({}) /\ RowsOf({}) = {}
BY DEF PricedFor, Once, RowsOf

LEMMA BuiltKeeps ==
    ASSUME CacheInv, NEW n, Built(n)
    PROVE  CacheInv'
<1>0. /\ n \in DOMAIN queries /\ Runs(n) /\ queries[n].phase = "build" /\ Quiet
      /\ queries[n].todo = {}
  BY DEF Built, At
<1>1. PICK at : at = queries[n].entry
  OBVIOUS
<1>2. PICK old : old = entries[at]
  OBVIOUS
<1>3. PICK bs : bs = AppliedAll(old.buckets, old.axis, old.pending)
  OBVIOUS
<1>4. PICK e : e = [old EXCEPT !.built = TRUE, !.building = FALSE, !.pending = <<>>,
                               !.buckets = bs]
  OBVIOUS
<1>5. PICK q : q = [queries[n] EXCEPT !.phase = "refold"]
  OBVIOUS
<1>6. /\ queries[n] \in Queries /\ at \in DOMAIN entries /\ old \in Entries
      /\ QueryOK(n) /\ EntryOK(at) /\ old.buckets \in BucketSets /\ old.pending \in Seq(Changes)
      /\ old.axis = queries[n].axis
  BY <1>0, <1>1, <1>2, QueryTyped DEF CacheInv, Entries
<1>7. /\ queries[n].bucket = None /\ Sorted(old.buckets) /\ Unfolded(old.buckets)
      /\ \E D \in SUBSET Rows :
           Leads(old.pending, queries[n].axis, Holds(old.buckets) \cup queries[n].todo, D)
           /\ Serves(at, D)
  BY <1>0, <1>1, <1>2, <1>6 DEF QueryOK, BuildOK
<1>8. PICK D \in SUBSET Rows :
         Leads(old.pending, old.axis, Holds(old.buckets), D) /\ Serves(at, D)
  <2>1. Holds(old.buckets) \cup queries[n].todo = Holds(old.buckets)
    BY <1>0
  <2> QED
    BY <1>6, <1>7, <2>1
<1>9. bs \in BucketSets /\ Sorted(bs) /\ Kept(bs, old.buckets) /\ Holds(bs) = D
  BY <1>3, <1>6, <1>7, <1>8, ReplayShape
<1>10. Unfolded(bs)
  BY <1>7, <1>9, UnfoldedKept
<1>11. /\ q \in Queries /\ q.phase = "refold" /\ q.bucket = None /\ q.entry = at
       /\ q.axis = queries[n].axis /\ q.seen = queries[n].seen /\ q.prices = queries[n].prices
  BY <1>1, <1>5, <1>6, <1>7 DEF Queries
<1>12. /\ e \in Entries /\ e.axis = entries[at].axis /\ e.built /\ e.building = FALSE
       /\ e.buckets = bs /\ e.pending = <<>>
  <2>1. <<>> \in Seq(Changes)
    OBVIOUS
  <2> QED
    BY <1>2, <1>4, <1>6, <1>9, <2>1 DEF Entries
<1>13. entries' = [entries EXCEPT ![at] = e] /\ queries' = [queries EXCEPT ![n] = q]
  BY <1>1, <1>2, <1>3, <1>4, <1>5 DEF Built, Mine, Query, Entry
<1>14. QueryMoves(n, e, q)
  BY <1>0, <1>1, <1>11, <1>12, <1>13 DEF QueryMoves, Waiting, Quiet, world
<1>15. /\ queries'[n] = q /\ entries'[at] = e
       /\ BoundRows' = BoundRows /\ QueriesStay /\ family' = family
  BY <1>0, <1>1, <1>14, MoveFacts DEF QueryMoves
<1>16. Serves(at, D)'
  BY <1>8, <1>12, <1>15, ServesStays
<1>17. BuiltOK(at)'
  <2>1. \A b \in DOMAIN bs : PricedFor(at, bs[b].acc)'
    BY <1>10 DEF Unfolded, PricedFor
  <2> QED
    BY <1>9, <1>10, <1>12, <1>15, <1>16, <2>1 DEF BuiltOK, Unfolded
<1>18. EntryOK(at)'
  BY <1>12, <1>15, <1>17 DEF EntryOK
<1>19. QueryOK(n)'
  BY <1>11, <1>12, <1>15 DEF QueryOK, RefoldOK
<1> QED
  BY <1>1, <1>14, <1>18, <1>19, OneMoves

LEMMA TakeBucketKeeps ==
    ASSUME CacheInv, NEW n, TakeBucket(n)
    PROVE  CacheInv'
<1>0. /\ n \in DOMAIN queries /\ Runs(n) /\ queries[n].phase = "refold" /\ Quiet
      /\ queries[n].bucket = None
  BY DEF TakeBucket, At
<1>1. PICK at : at = queries[n].entry
  OBVIOUS
<1>2. PICK old : old = entries[at].buckets
  OBVIOUS
<1>3. PICK b \in DOMAIN old :
         /\ Entry(n, [entries[at] EXCEPT !.buckets = MarkedClean(old, b)])
         /\ Query(n, [queries[n] EXCEPT !.bucket = b, !.todo = old[b].events, !.folded = {}])
  BY <1>1, <1>2 DEF TakeBucket, Mine
<1>4. PICK v : v = [old[b] EXCEPT !.dirty = FALSE]
  OBVIOUS
<1>5. PICK bs : bs = MarkedClean(old, b)
  OBVIOUS
<1>6. PICK e : e = [entries[at] EXCEPT !.buckets = bs]
  OBVIOUS
<1>7. PICK q : q = [queries[n] EXCEPT !.bucket = b, !.todo = old[b].events, !.folded = {}]
  OBVIOUS
<1>8. /\ queries[n] \in Queries /\ at \in DOMAIN entries /\ entries[at] \in Entries
      /\ QueryOK(n) /\ EntryOK(at) /\ old \in BucketSets
  BY <1>0, <1>1, <1>2, QueryTyped DEF CacheInv, Entries
<1>9. entries[at].built /\ BuiltOK(at)
  BY <1>0, <1>1, <1>8 DEF QueryOK, RefoldOK, EntryOK
<1>10. DOMAIN old \subseteq Names /\ old \in [DOMAIN old -> BucketsOfRows]
  BY <1>8, BucketShape
<1>11. old[b] \in BucketsOfRows /\ v \in BucketsOfRows /\ v.dirty = FALSE
       /\ v.events = old[b].events /\ v.acc = old[b].acc
  BY <1>4, <1>10 DEF BucketsOfRows
<1>12. bs = [old EXCEPT ![b] = v]
  BY <1>4, <1>5 DEF MarkedClean
<1>13. /\ DOMAIN bs = DOMAIN old /\ bs \in [DOMAIN old -> BucketsOfRows] /\ bs[b] = v
       /\ \A x \in DOMAIN old : x # b => bs[x] = old[x]
  BY <1>10, <1>11, <1>12
<1>14. bs \in BucketSets
  BY <1>10, <1>13, BucketShape
<1>15. \A x \in DOMAIN old : bs[x].events = old[x].events /\ bs[x].acc = old[x].acc
  BY <1>11, <1>13
<1>16. Sorted(bs) /\ Holds(bs) = Holds(old)
  BY <1>2, <1>9, <1>13, <1>15 DEF BuiltOK, Sorted, Holds
<1>17. /\ q \in Queries /\ q.phase = "refold" /\ q.bucket = b /\ q.entry = at
       /\ q.todo = old[b].events /\ q.folded = {}
       /\ q.axis = queries[n].axis /\ q.seen = queries[n].seen /\ q.prices = queries[n].prices
  <2>1. old[b].events \in SUBSET Rows /\ b \in Names
    BY <1>10, <1>11 DEF BucketsOfRows
  <2> QED
    BY <1>0, <1>1, <1>7, <1>8, <2>1 DEF Queries
<1>18. /\ e \in Entries /\ e.axis = entries[at].axis /\ e.built /\ e.buckets = bs
       /\ e.building = entries[at].building /\ e.pending = entries[at].pending
  BY <1>6, <1>8, <1>9, <1>14 DEF Entries
<1>19. entries' = [entries EXCEPT ![at] = e] /\ queries' = [queries EXCEPT ![n] = q]
  BY <1>1, <1>3, <1>5, <1>6, <1>7 DEF Query, Entry
<1>20. QueryMoves(n, e, q)
  BY <1>0, <1>1, <1>17, <1>18, <1>19 DEF QueryMoves, Waiting, Quiet, world
<1>21. /\ queries'[n] = q /\ entries'[at] = e /\ n \in DOMAIN queries'
       /\ DOMAIN queries' = DOMAIN queries
       /\ \A m \in DOMAIN queries : m # n => queries'[m] = queries[m]
       /\ BoundRows' = BoundRows /\ QueriesStay /\ family' = family
       /\ boundPrices' = boundPrices
  BY <1>0, <1>1, <1>20, MoveFacts DEF QueryMoves
<1>22. \A C : Serves(at, C) => Serves(at, C)'
  BY <1>18, <1>21, ServesStays
<1>23. \A fold : PricedFor(at, fold) => PricedFor(at, fold)'
  BY <1>21, PricedStays
<1>24. BeingFolded(at, b)'
  BY <1>17, <1>21 DEF BeingFolded
<1>25. \A x \in DOMAIN old : BeingFolded(at, x) => BeingFolded(at, x)'
  <2> SUFFICES ASSUME NEW x \in DOMAIN old, BeingFolded(at, x) PROVE BeingFolded(at, x)'
    OBVIOUS
  <2>1. PICK m \in DOMAIN queries : queries[m].entry = at /\ queries[m].phase = "refold"
                                    /\ queries[m].bucket = x
    BY DEF BeingFolded
  <2>2. m # n
    BY <1>0, <1>10, <2>1, NoneIsNoName
  <2> QED
    BY <1>21, <2>1, <2>2 DEF BeingFolded
<1>26. BuiltOK(at)'
  <2>1. Serves(at, Holds(old))
    BY <1>2, <1>9 DEF BuiltOK
  <2>2. Serves(at, Holds(bs))'
    <3>1. PICK C : C = Holds(old)
      OBVIOUS
    <3>2. Serves(at, C)' /\ C = Holds(bs)
      BY <1>16, <1>22, <2>1, <3>1
    <3> QED
      BY <3>2
  <2>3. ASSUME NEW x \in DOMAIN bs
        PROVE  /\ PricedFor(at, bs[x].acc)'
               /\ ~bs[x].dirty /\ ~BeingFolded(at, x)' =>
                    RowsOf(bs[x].acc) = bs[x].events /\ Once(bs[x].acc)
    <3>1. PricedFor(at, old[x].acc)
      BY <1>2, <1>9, <1>13, <2>3 DEF BuiltOK
    <3>2. PricedFor(at, bs[x].acc)'
      <4>1. PICK fold : fold = old[x].acc
        OBVIOUS
      <4>2. PricedFor(at, fold)' /\ fold = bs[x].acc
        BY <1>13, <1>15, <1>23, <2>3, <3>1, <4>1
      <4> QED
        BY <4>2
    <3>3. CASE x = b
      BY <1>24, <3>2, <3>3
    <3>4. CASE x # b
      BY <1>2, <1>9, <1>13, <1>25, <2>3, <3>2, <3>4 DEF BuiltOK
    <3> QED
      BY <3>3, <3>4
  <2> QED
    BY <1>9, <1>16, <1>18, <1>21, <2>2, <2>3 DEF BuiltOK
<1>27. EntryOK(at)'
  BY <1>8, <1>9, <1>18, <1>21, <1>26 DEF EntryOK
<1>28. QueryOK(n)'
  <2>1. old[b].events # {}
    BY <1>2, <1>9 DEF BuiltOK, Sorted
  <2>2. RowsOf({}) = {} /\ Once({}) /\ PricedFor(at, {})'
    BY NoFoldIsPriced DEF PricedFor
  <2>3. RefoldOK(n)'
    BY <1>11, <1>13, <1>17, <1>18, <1>21, <2>1, <2>2 DEF RefoldOK
  <2> QED
    BY <1>17, <1>21, <2>3 DEF QueryOK
<1> QED
  BY <1>1, <1>20, <1>27, <1>28, OneMoves

LEMMA FoldKeeps ==
    ASSUME CacheInv, NEW n, Fold(n)
    PROVE  CacheInv'
<1>0. /\ n \in DOMAIN queries /\ Runs(n) /\ queries[n].phase = "refold" /\ Quiet
      /\ queries[n].bucket # None
  BY DEF Fold, At
<1>1. PICK at : at = queries[n].entry
  OBVIOUS
<1>2. PICK old : old = entries[at].buckets
  OBVIOUS
<1>3. PICK r : r = First(queries[n].todo)
  OBVIOUS
<1>4. PICK x : x = [row |-> r, prices |-> prices]
  OBVIOUS
<1>5. PICK acc : acc = queries[n].folded \cup {x}
  OBVIOUS
<1>6. PICK rest : rest = queries[n].todo \ {r}
  OBVIOUS
<1>7. PICK b : b = queries[n].bucket
  OBVIOUS
<1>8. /\ queries[n] \in Queries /\ at \in DOMAIN entries /\ entries[at] \in Entries
      /\ QueryOK(n) /\ EntryOK(at) /\ old \in BucketSets
      /\ entries \in [DOMAIN entries -> Entries] /\ prices \in Nat
  BY <1>0, <1>1, <1>2, QueryTyped DEF CacheInv, Entries, EntriesOK, StoreOK
<1>9. /\ entries[at].built /\ BuiltOK(at) /\ queries[n].todo # {}
      /\ RowsOf(queries[n].folded) \cap queries[n].todo = {}
      /\ Once(queries[n].folded) /\ PricedFor(at, queries[n].folded)
      /\ b \in DOMAIN old /\ ~old[b].dirty
         => RowsOf(queries[n].folded) \cup queries[n].todo = old[b].events
  BY <1>0, <1>1, <1>2, <1>7, <1>8 DEF QueryOK, RefoldOK, EntryOK
<1>10. r \in queries[n].todo /\ queries[n].todo \subseteq Rows /\ queries[n].folded \subseteq Priced
  BY <1>3, <1>8, <1>9 DEF First, Queries
<1>11. x \in Priced /\ x.row = r /\ x.prices = prices /\ acc \subseteq Priced /\ rest \subseteq Rows
  BY <1>4, <1>5, <1>6, <1>8, <1>10 DEF Priced
<1>12. RowsOf(acc) = RowsOf(queries[n].folded) \cup {r} /\ RowsOf(acc) \cap rest = {}
  <2>1. RowsOf(acc) = RowsOf(queries[n].folded) \cup {r}
    BY <1>5, <1>11 DEF RowsOf
  <2> QED
    BY <1>6, <1>9, <2>1
<1>13. Once(acc)
  <2>1. \A y \in queries[n].folded : y.row # r
    BY <1>9, <1>10 DEF RowsOf
  <2> QED
    BY <1>5, <1>9, <1>11, <2>1 DEF Once
<1>14. PricedFor(at, acc)
  <2>1. boundPrices <= prices /\ \A m \in DOMAIN queries : queries[m].prices <= prices
    BY DEF CacheInv, StoreOK, QueriesFit, QueryFits
  <2> QED
    BY <1>5, <1>9, <1>11, <2>1 DEF PricedFor
<1>15. b \in DOMAIN old /\ ~old[b].dirty => RowsOf(acc) \cup rest = old[b].events
  BY <1>6, <1>9, <1>10, <1>12
<1>16. CASE rest # {}
  <2>1. PICK e : e = entries[at]
    OBVIOUS
  <2>2. PICK q : q = [queries[n] EXCEPT !.todo = rest, !.folded = acc]
    OBVIOUS
  <2>3. /\ q \in Queries /\ q.phase = "refold" /\ q.bucket = b /\ q.entry = at
        /\ q.todo = rest /\ q.folded = acc
        /\ q.axis = queries[n].axis /\ q.seen = queries[n].seen /\ q.prices = queries[n].prices
    BY <1>0, <1>1, <1>7, <1>8, <1>11, <2>2 DEF Queries
  <2>4. entries' = [entries EXCEPT ![at] = e] /\ queries' = [queries EXCEPT ![n] = q]
    BY <1>3, <1>4, <1>5, <1>6, <1>8, <1>16, <2>1, <2>2 DEF Fold, Query
  <2>5. QueryMoves(n, e, q)
    BY <1>0, <1>1, <1>8, <2>1, <2>3, <2>4 DEF QueryMoves, Waiting, Quiet, world
  <2>6. EntryOK(at)'
    BY <1>0, <1>1, <1>7, <2>1, <2>3, <2>5, EntryStays
  <2>7. /\ queries'[n] = q /\ entries'[at] = e /\ QueriesStay /\ family' = family
        /\ boundPrices' = boundPrices
    BY <1>1, <2>5, MoveFacts DEF QueryMoves
  <2>8. PricedFor(at, acc)'
    BY <1>14, <2>7, PricedStays
  <2>9. RefoldOK(n)'
    BY <1>2, <1>9, <1>12, <1>13, <1>15, <1>16, <2>1, <2>3, <2>7, <2>8 DEF RefoldOK
  <2>10. QueryOK(n)'
    BY <2>3, <2>7, <2>9 DEF QueryOK
  <2> QED
    BY <1>1, <2>5, <2>6, <2>10, OneMoves
<1>17. CASE rest = {}
  <2>1. PICK bs : bs = Folded(old, b, acc)
    OBVIOUS
  <2>2. PICK e : e = [entries[at] EXCEPT !.buckets = bs]
    OBVIOUS
  <2>3. PICK q : q = [queries[n] EXCEPT !.todo = {}, !.folded = {}, !.bucket = None]
    OBVIOUS
  <2>4. DOMAIN old \subseteq Names /\ old \in [DOMAIN old -> BucketsOfRows]
    BY <1>8, BucketShape
  <2>5. /\ DOMAIN bs = DOMAIN old /\ bs \in [DOMAIN old -> BucketsOfRows]
        /\ \A y \in DOMAIN old : y # b => bs[y] = old[y]
        /\ \A y \in DOMAIN old : bs[y].events = old[y].events /\ bs[y].dirty = old[y].dirty
        /\ b \in DOMAIN old => bs[b].acc = acc
    <3>1. CASE b \in DOMAIN old
      <4>1. PICK v : v = [old[b] EXCEPT !.acc = acc]
        OBVIOUS
      <4>2. /\ v \in BucketsOfRows /\ v.acc = acc /\ v.events = old[b].events
            /\ v.dirty = old[b].dirty
        BY <1>11, <2>4, <3>1, <4>1 DEF BucketsOfRows
      <4>3. bs = [old EXCEPT ![b] = v]
        BY <2>1, <3>1, <4>1 DEF Folded
      <4> QED
        BY <2>4, <3>1, <4>2, <4>3
    <3>2. CASE b \notin DOMAIN old
      BY <2>1, <2>4, <3>2 DEF Folded
    <3> QED
      BY <3>1, <3>2
  <2>6. bs \in BucketSets
    BY <2>4, <2>5, BucketShape
  <2>7. Sorted(bs) /\ Holds(bs) = Holds(old)
    BY <1>2, <1>9, <2>5 DEF BuiltOK, Sorted, Holds
  <2>8. /\ q \in Queries /\ q.phase = "refold" /\ q.bucket = None /\ q.entry = at
        /\ q.axis = queries[n].axis /\ q.seen = queries[n].seen /\ q.prices = queries[n].prices
    BY <1>0, <1>1, <1>8, <2>3 DEF Queries
  <2>9. /\ e \in Entries /\ e.axis = entries[at].axis /\ e.built /\ e.buckets = bs
        /\ e.building = entries[at].building /\ e.pending = entries[at].pending
    BY <1>8, <1>9, <2>2, <2>6 DEF Entries
  <2>10. entries' = [entries EXCEPT ![at] = e] /\ queries' = [queries EXCEPT ![n] = q]
    BY <1>1, <1>2, <1>3, <1>4, <1>5, <1>6, <1>7, <1>17, <2>1, <2>2, <2>3
    DEF Fold, Query, Entry, Mine
  <2>11. QueryMoves(n, e, q)
    BY <1>0, <1>1, <2>8, <2>9, <2>10 DEF QueryMoves, Waiting, Quiet, world
  <2>12. /\ queries'[n] = q /\ entries'[at] = e
         /\ DOMAIN queries' = DOMAIN queries
         /\ \A m \in DOMAIN queries : m # n => queries'[m] = queries[m]
         /\ BoundRows' = BoundRows /\ QueriesStay /\ family' = family
         /\ boundPrices' = boundPrices
    BY <1>0, <1>1, <2>11, MoveFacts DEF QueryMoves
  <2>13. \A y \in DOMAIN old : y # b => (BeingFolded(at, y) => BeingFolded(at, y)')
    <3> SUFFICES ASSUME NEW y \in DOMAIN old, y # b, BeingFolded(at, y)
                 PROVE  BeingFolded(at, y)'
      OBVIOUS
    <3>1. PICK m \in DOMAIN queries : queries[m].entry = at /\ queries[m].phase = "refold"
                                      /\ queries[m].bucket = y
      BY DEF BeingFolded
    <3>2. m # n
      BY <1>7, <3>1
    <3> QED
      BY <2>12, <3>1, <3>2 DEF BeingFolded
  <2>14. BuiltOK(at)'
    <3>1. PICK C : C = Holds(old)
      OBVIOUS
    <3>2. Serves(at, C)' /\ C = Holds(bs)
      <4>1. Serves(at, C)
        BY <1>2, <1>9, <3>1 DEF BuiltOK
      <4> QED
        BY <2>7, <2>9, <2>12, <3>1, <4>1, ServesStays
    <3>3. ASSUME NEW y \in DOMAIN bs
          PROVE  /\ PricedFor(at, bs[y].acc)'
                 /\ ~bs[y].dirty /\ ~BeingFolded(at, y)' =>
                      RowsOf(bs[y].acc) = bs[y].events /\ Once(bs[y].acc)
      <4>1. PICK fold : fold = bs[y].acc
        OBVIOUS
      <4>2. PricedFor(at, fold)
        <5>1. CASE y = b
          BY <1>14, <2>5, <3>3, <4>1, <5>1
        <5>2. CASE y # b
          BY <1>2, <1>9, <2>5, <3>3, <4>1, <5>2 DEF BuiltOK
        <5> QED
          BY <5>1, <5>2
      <4>3. PricedFor(at, fold)'
        BY <2>12, <4>2, PricedStays
      <4>4. CASE y = b
        <5>1. ~bs[y].dirty => RowsOf(acc) = bs[y].events
          BY <1>15, <1>17, <2>5, <3>3, <4>4
        <5> QED
          BY <1>13, <2>5, <3>3, <4>1, <4>3, <4>4, <5>1
      <4>5. CASE y # b
        BY <1>2, <1>9, <2>5, <2>13, <3>3, <4>1, <4>3, <4>5 DEF BuiltOK
      <4> QED
        BY <4>4, <4>5
    <3> QED
      BY <1>9, <2>7, <2>9, <2>12, <3>2, <3>3 DEF BuiltOK
  <2>15. EntryOK(at)'
    BY <1>8, <1>9, <2>9, <2>12, <2>14 DEF EntryOK
  <2>16. QueryOK(n)'
    BY <2>8, <2>9, <2>12 DEF QueryOK, RefoldOK
  <2> QED
    BY <1>1, <2>11, <2>15, <2>16, OneMoves
<1> QED
  BY <1>16, <1>17

LEMMA ColdType ==
    ASSUME NEW axis \in Axes
    PROVE  /\ Cold(axis) \in Entries /\ Cold(axis).axis = axis /\ Cold(axis).built = FALSE
           /\ Cold(axis).building = FALSE /\ Cold(axis).buckets = <<>>
           /\ Cold(axis).pending = <<>>
<1>1. <<>> \in BucketSets
  BY NoBuckets
<1>2. <<>> \in Seq(Changes)
  OBVIOUS
<1> QED
  BY <1>1, <1>2 DEF Cold, Entries

\* A query that is answered is returned, or one whose turn it is is rejected and
\* its entry cold again.
LEMMA OneDrops ==
    ASSUME CacheInv, NEW n \in DOMAIN queries, NEW at, at = queries[n].entry, NEW e,
           queries' = Dropped(n),
           entries' = Reached([entries EXCEPT ![at] = e], family, Dropped(n)),
           UNCHANGED <<storeRows, oldRows, swapped, prices, boundPrices, family, asked>>,
           \/ queries[n].phase = "answered" /\ e = entries[at]
           \/ Runs(n) /\ queries[n].phase # "answered" /\ e = Cold(entries[at].axis)
    PROVE  CacheInv'
<1>1. DOMAIN queries' = DOMAIN queries \ {n}
      /\ \A m \in DOMAIN queries \ {n} : queries'[m] = queries[m]
  BY DEF Dropped
<1>2. /\ at \in DOMAIN entries /\ entries[at] \in Entries /\ entries[at].axis \in Axes
      /\ entries \in [DOMAIN entries -> Entries] /\ queries \in [DOMAIN queries -> Queries]
  BY QueryTyped DEF CacheInv, EntriesOK, QueriesOK, Entries
<1>3. e \in Entries /\ e.axis = entries[at].axis
  BY <1>2, ColdType
<1>4. PICK es : es = [entries EXCEPT ![at] = e]
  OBVIOUS
<1>5. /\ es \in [DOMAIN entries -> Entries] /\ es[at] = e /\ DOMAIN es = DOMAIN entries
      /\ \A id \in DOMAIN entries : id # at => es[id] = entries[id]
  BY <1>2, <1>3, <1>4
<1>6. /\ DOMAIN entries' \subseteq DOMAIN entries
      /\ entries' \in [DOMAIN entries' -> Entries]
      /\ \A id \in DOMAIN entries' : entries'[id] = es[id]
      /\ \A j \in 1 .. Len(family) : family[j] \in DOMAIN entries'
      /\ \A m \in DOMAIN queries' : queries'[m].entry \in DOMAIN entries'
  <2>1. entries' = [id \in {i \in DOMAIN es :
                               \/ \E j \in 1 .. Len(family) : family[j] = i
                               \/ \E m \in DOMAIN queries' : queries'[m].entry = i} |-> es[id]]
    BY <1>4 DEF Reached
  <2>2. \A j \in 1 .. Len(family) : family[j] \in DOMAIN entries
    BY DEF CacheInv, EntriesOK
  <2>3. \A m \in DOMAIN queries' : queries'[m].entry \in DOMAIN entries
    BY <1>1, QueryTyped
  <2> QED
    BY <1>5, <2>1, <2>2, <2>3
<1>7. BoundRows' = BoundRows
  BY DEF BoundRows
<1>8. QueriesStay
  BY <1>1 DEF QueriesStay
<1>9. \A id \in DOMAIN entries' : entries'[id].axis = entries[id].axis
  <2> SUFFICES ASSUME NEW id \in DOMAIN entries' PROVE entries'[id].axis = entries[id].axis
    OBVIOUS
  <2>1. id \in DOMAIN entries /\ entries'[id] = es[id]
    BY <1>6
  <2>2. id # at => es[id] = entries[id]
    BY <1>5, <2>1
  <2>3. id = at => es[id] = e
    BY <1>5
  <2> QED
    BY <1>3, <2>1, <2>2, <2>3
<1>10. EntriesOK'
  <2>1. IsFiniteSet(DOMAIN entries')
    BY <1>6, FS_Subset DEF CacheInv, EntriesOK
  <2>2. family' \in Seq(DOMAIN entries')
    <3>1. PICK fam : fam = family
      OBVIOUS
    <3>2. PICK S : S = DOMAIN entries'
      OBVIOUS
    <3>3. fam \in Seq(DOMAIN entries) /\ \A j \in 1 .. Len(fam) : fam[j] \in S
      BY <1>6, <3>1, <3>2 DEF CacheInv, EntriesOK
    <3>4. Len(fam) \in Nat /\ fam \in [1 .. Len(fam) -> S]
      BY <3>3
    <3>5. fam \in Seq(S)
      BY <3>4, SeqDef
    <3> QED
      BY <3>1, <3>2, <3>5
  <2> QED
    BY <1>6, <2>1, <2>2 DEF CacheInv, EntriesOK
<1>11. (StoreOK /\ QueriesOK /\ InTurn)'
  <2>1. StoreOK'
    BY DEF CacheInv, StoreOK
  <2>2. queries' \in [DOMAIN queries' -> Queries]
    <3>1. queries' = [m \in DOMAIN queries \ {n} |-> queries[m]]
      BY DEF Dropped
    <3> QED
      BY <1>2, <3>1
  <2>3. QueriesOK'
    BY <1>1, <2>2 DEF CacheInv, QueriesOK
  <2>4. InTurn'
    BY <1>1 DEF CacheInv, InTurn
  <2> QED
    BY <2>1, <2>3, <2>4
<1>12. QueriesFit'
  <2> SUFFICES ASSUME NEW m \in DOMAIN queries' PROVE QueryFits(m)'
    BY DEF QueriesFit
  <2>1. QueryFits(m) /\ queries'[m] = queries[m] /\ queries'[m].entry \in DOMAIN entries'
    BY <1>1, <1>6 DEF CacheInv, QueriesFit
  <2>2. entries'[queries'[m].entry].axis = entries[queries[m].entry].axis
    BY <1>9, <2>1
  <2> QED
    BY <1>7, <2>1, <2>2 DEF QueryFits, Content
<1>13. ASSUME NEW id \in DOMAIN entries', entries'[id] # entries[id]
       PROVE  id = at /\ Runs(n) /\ queries[n].phase # "answered"
              /\ entries'[id] = Cold(entries[at].axis)
  BY <1>5, <1>6, <1>13
<1>14. ASSUME NEW id \in DOMAIN entries', entries'[id] = entries[id],
              id # at \/ queries[n].phase = "answered"
       PROVE  EntryOK(id)'
  <2>1. EntryOK(id)
    BY <1>6 DEF CacheInv
  <2>2. \A b : BeingFolded(id, b) => BeingFolded(id, b)'
    BY <1>1, <1>14 DEF BeingFolded
  <2>3. \A fold : PricedFor(id, fold) => PricedFor(id, fold)'
    BY <1>8, PricedStays
  <2>4. \A C : Serves(id, C) => Serves(id, C)'
    BY <1>7, <1>8, <1>14, ServesStays
  <2>5. BuiltOK(id) => BuiltOK(id)'
    BY <1>14, <2>2, <2>3, <2>4 DEF BuiltOK
  <2> QED
    BY <1>1, <1>14, <2>1, <2>5 DEF EntryOK
<1>15. ASSUME NEW id \in DOMAIN entries'
       PROVE  EntryOK(id)'
  <2>1. CASE id # at \/ queries[n].phase = "answered"
    BY <1>13, <1>14, <2>1
  <2>2. CASE id = at /\ queries[n].phase # "answered"
    <3>1. entries'[id] = Cold(entries[at].axis)
      BY <1>5, <1>6, <2>2
    <3> QED
      BY <1>2, <3>1, ColdType DEF EntryOK
  <2> QED
    BY <2>1, <2>2
<1>16. ASSUME NEW m \in DOMAIN queries'
       PROVE  QueryOK(m)'
  <2>1. /\ QueryOK(m) /\ queries'[m] = queries[m] /\ m # n /\ m \in DOMAIN queries
        /\ queries'[m].entry \in DOMAIN entries'
    BY <1>1, <1>6 DEF CacheInv
  <2>2. PICK id : id = queries[m].entry
    OBVIOUS
  <2>3. CASE id = at /\ queries[n].phase # "answered"
    <3>1. queries[m].phase \in {"queued", "answered"}
      BY <2>1, <2>2, <2>3, OthersRest
    <3> QED
      BY <2>1, <3>1 DEF QueryOK, Answers
  <2>4. CASE id # at \/ queries[n].phase = "answered"
    <3>1. entries'[id] = entries[id] /\ id = queries'[m].entry
      BY <1>13, <2>1, <2>2, <2>4
    <3>2. \A fold : PricedFor(id, fold) => PricedFor(id, fold)'
      BY <1>8, PricedStays
    <3>3. \A C : Serves(id, C) => Serves(id, C)'
      BY <1>7, <1>8, <3>1, ServesStays
    <3>4. BuildOK(m) => BuildOK(m)'
      BY <2>1, <2>2, <3>1, <3>3 DEF BuildOK
    <3>5. RefoldOK(m) => RefoldOK(m)'
      BY <2>1, <2>2, <3>1, <3>2 DEF RefoldOK
    <3> QED
      BY <2>1, <3>4, <3>5 DEF QueryOK, Answers
  <2> QED
    BY <2>3, <2>4
<1> QED
  BY <1>10, <1>11, <1>12, <1>15, <1>16 DEF CacheInv

LEMMA ReturnKeeps ==
    ASSUME CacheInv, NEW n, Return(n)
    PROVE  CacheInv'
<1>1. PICK at : at = queries[n].entry
  OBVIOUS
<1>2. PICK e : e = entries[at]
  OBVIOUS
<1>3. n \in DOMAIN queries /\ queries[n].phase = "answered" /\ queries' = Dropped(n)
      /\ UNCHANGED <<storeRows, oldRows, swapped, prices, boundPrices, family, asked>>
  BY DEF Return, Quiet, world
<1>4. entries = [entries EXCEPT ![at] = e]
  BY <1>2 DEF CacheInv, EntriesOK
<1>5. entries' = Reached([entries EXCEPT ![at] = e], family, Dropped(n))
  BY <1>4 DEF Return
<1> QED
  BY <1>1, <1>2, <1>3, <1>5, OneDrops

LEMMA ThrowKeeps ==
    ASSUME CacheInv, NEW n, Throw(n)
    PROVE  CacheInv'
<1>1. PICK at : at = queries[n].entry
  OBVIOUS
<1>2. PICK e : e = Cold(entries[at].axis)
  OBVIOUS
<1>3. n \in DOMAIN queries /\ Runs(n) /\ queries[n].phase # "answered" /\ queries' = Dropped(n)
      /\ UNCHANGED <<storeRows, oldRows, swapped, prices, boundPrices, family, asked>>
  BY DEF Throw, At, Quiet, world
<1>4. at \in DOMAIN entries
  BY <1>1, <1>3, QueryTyped
<1>5. entries' = Reached([entries EXCEPT ![at] = e], family, Dropped(n))
  BY <1>1, <1>2, <1>4 DEF Throw, Reset, CacheInv, EntriesOK
<1> QED
  BY <1>1, <1>2, <1>3, <1>5, OneDrops

\* A question waits on, and has seen one more state at most.
SeenMore ==
    /\ queries' \in [DOMAIN queries -> Queries]
    /\ DOMAIN queries' = DOMAIN queries
    /\ \A m \in DOMAIN queries :
        /\ queries'[m].entry = queries[m].entry /\ queries'[m].axis = queries[m].axis
        /\ queries'[m].phase = queries[m].phase /\ queries'[m].todo = queries[m].todo
        /\ queries'[m].bucket = queries[m].bucket /\ queries'[m].folded = queries[m].folded
        /\ queries'[m].answer = queries[m].answer /\ queries'[m].prices = queries[m].prices
        /\ queries[m].seen \subseteq queries'[m].seen

LEMMA SeenFacts ==
    ASSUME CacheInv, storeRows' \subseteq Rows, queries' = Seen(storeRows')
    PROVE  SeenMore /\ \A m \in DOMAIN queries :
                         Content(queries[m].axis, storeRows') \in queries'[m].seen
<1>1. queries \in [DOMAIN queries -> Queries]
  BY DEF CacheInv, QueriesOK
<1>2. PICK rows : rows = storeRows'
  OBVIOUS
<1>3. queries' = [m \in DOMAIN queries |->
                    [queries[m] EXCEPT !.seen = @ \cup {Content(queries[m].axis, rows)}]]
  BY <1>2 DEF Seen
<1>4. ASSUME NEW m \in DOMAIN queries
      PROVE  /\ queries'[m] \in Queries
             /\ queries'[m].entry = queries[m].entry /\ queries'[m].axis = queries[m].axis
             /\ queries'[m].phase = queries[m].phase /\ queries'[m].todo = queries[m].todo
             /\ queries'[m].bucket = queries[m].bucket /\ queries'[m].folded = queries[m].folded
             /\ queries'[m].answer = queries[m].answer /\ queries'[m].prices = queries[m].prices
             /\ queries'[m].seen = queries[m].seen \cup {Content(queries[m].axis, rows)}
  <2>1. PICK seen : seen = queries[m].seen \cup {Content(queries[m].axis, rows)}
    OBVIOUS
  <2>2. queries[m] \in Queries
    BY <1>1
  <2>3. seen \in SUBSET SUBSET Rows
    BY <1>2, <2>1, <2>2 DEF Queries, Content
  <2>4. queries'[m] = [queries[m] EXCEPT !.seen = seen]
    BY <1>3, <2>1
  <2> QED
    BY <2>1, <2>2, <2>3, <2>4 DEF Queries
<1>5. DOMAIN queries' = DOMAIN queries /\ queries' \in [DOMAIN queries -> Queries]
  BY <1>3, <1>4
<1> QED
  BY <1>2, <1>4, <1>5 DEF SeenMore

LEMMA SeenStays == SeenMore => QueriesStay
BY DEF SeenMore, QueriesStay, Waiting

\* What the step leaves of an entry and of a query is in order.
LEMMA EntryKept ==
    ASSUME SeenMore, family' = family, boundPrices' = boundPrices, NEW id,
           BoundRows' = BoundRows \/ ~InFamily(id), entries'[id] = entries[id], EntryOK(id)
    PROVE  EntryOK(id)'
<1>1. QueriesStay
  BY SeenStays
<1>2. \A b : BeingFolded(id, b) => BeingFolded(id, b)'
  BY DEF BeingFolded, SeenMore
<1>3. \A fold : PricedFor(id, fold) => PricedFor(id, fold)'
  BY <1>1, PricedStays
<1>4. \A C : Serves(id, C) => Serves(id, C)'
  BY <1>1, ServesStays
<1>5. BuiltOK(id) => BuiltOK(id)'
  BY <1>2, <1>3, <1>4 DEF BuiltOK
<1> QED
  BY <1>5 DEF EntryOK, SeenMore

LEMMA QueryKept ==
    ASSUME SeenMore, family' = family, boundPrices' = boundPrices,
           NEW m \in DOMAIN queries, NEW id, id = queries[m].entry,
           BoundRows' = BoundRows \/ ~InFamily(id), entries'[id] = entries[id], QueryOK(m)
    PROVE  QueryOK(m)'
<1>1. QueriesStay
  BY SeenStays
<1>2. \A fold : PricedFor(id, fold) => PricedFor(id, fold)'
  BY <1>1, PricedStays
<1>3. \A C : Serves(id, C) => Serves(id, C)'
  BY <1>1, ServesStays
<1>4. /\ queries'[m].entry = id /\ queries'[m].axis = queries[m].axis
      /\ queries'[m].phase = queries[m].phase /\ queries'[m].todo = queries[m].todo
      /\ queries'[m].bucket = queries[m].bucket /\ queries'[m].folded = queries[m].folded
      /\ queries'[m].answer = queries[m].answer /\ queries'[m].prices = queries[m].prices
      /\ queries[m].seen \subseteq queries'[m].seen
  BY DEF SeenMore
<1>5. BuildOK(m) => BuildOK(m)'
  BY <1>3, <1>4 DEF BuildOK
<1>6. RefoldOK(m) => RefoldOK(m)'
  BY <1>2, <1>4 DEF RefoldOK
<1> QED
  BY <1>4, <1>5, <1>6 DEF QueryOK, Answers

LEMMA InstallStoreKeeps ==
    ASSUME CacheInv, InstallStore
    PROVE  CacheInv'
<1>0. /\ UNCHANGED <<prices, boundPrices, entries, family, asked>>
      /\ oldRows' = BoundRows /\ swapped' = TRUE /\ queries' = Seen(storeRows')
      /\ storeRows' \subseteq storeRows
  BY DEF InstallStore, cache
<1>1. StoreOK /\ EntriesOK /\ QueriesOK
  BY DEF CacheInv
<1>2. storeRows' \subseteq Rows /\ BoundRows \subseteq Rows
  BY <1>0, <1>1 DEF StoreOK, BoundRows
<1>3. StoreOK'
  BY <1>0, <1>1, <1>2 DEF StoreOK
<1>4. SeenMore /\ \A m \in DOMAIN queries :
                    Content(queries[m].axis, storeRows') \in queries'[m].seen
  BY <1>0, <1>2, SeenFacts
<1>5. (EntriesOK /\ QueriesOK)'
  BY <1>0, <1>1, <1>4 DEF EntriesOK, QueriesOK, SeenMore
<1>6. BoundRows' = BoundRows
  BY <1>0 DEF BoundRows
<1>7. QueriesFit'
  <2> SUFFICES ASSUME NEW m \in DOMAIN queries PROVE QueryFits(m)'
    BY <1>4 DEF QueriesFit, SeenMore
  <2>1. QueryFits(m)
    BY DEF CacheInv, QueriesFit
  <2>2. /\ queries'[m].entry = queries[m].entry /\ queries'[m].axis = queries[m].axis
        /\ queries'[m].prices = queries[m].prices /\ queries[m].seen \subseteq queries'[m].seen
    BY <1>4 DEF SeenMore
  <2>3. Content(queries[m].axis, storeRows') \in queries'[m].seen
        /\ Content(queries[m].axis, BoundRows) \in queries'[m].seen
    BY <1>4, <2>1, <2>2 DEF QueryFits
  <2> QED
    BY <1>0, <1>6, <2>1, <2>2, <2>3 DEF QueryFits, Content
<1>8. InTurn'
  BY <1>4 DEF CacheInv, InTurn, SeenMore
<1>9. \A id \in DOMAIN entries : EntryOK(id)'
  BY <1>0, <1>4, <1>6, EntryKept DEF CacheInv
<1>10. \A m \in DOMAIN queries : QueryOK(m)'
  BY <1>0, <1>4, <1>6, QueryKept DEF CacheInv
<1> QED
  BY <1>0, <1>3, <1>4, <1>5, <1>7, <1>8, <1>9, <1>10 DEF CacheInv, SeenMore

LEMMA InstallPricesKeeps ==
    ASSUME CacheInv, InstallPrices
    PROVE  CacheInv'
<1>0. /\ UNCHANGED <<storeRows, oldRows, swapped, boundPrices, entries, family, queries, asked>>
      /\ prices' = prices + 1
  BY DEF InstallPrices, cache
<1>1. StoreOK /\ EntriesOK /\ QueriesOK
  BY DEF CacheInv
<1>2. StoreOK' /\ prices <= prices'
  BY <1>0, <1>1 DEF StoreOK
<1>3. (EntriesOK /\ QueriesOK)'
  BY <1>0, <1>1 DEF EntriesOK, QueriesOK
<1>4. SeenMore
  BY <1>0, <1>1 DEF SeenMore, QueriesOK
<1>5. BoundRows' = BoundRows
  BY <1>0 DEF BoundRows
<1>6. QueriesFit'
  <2> SUFFICES ASSUME NEW m \in DOMAIN queries PROVE QueryFits(m)'
    BY <1>0 DEF QueriesFit
  <2>1. QueryFits(m) /\ queries[m] \in Queries
    BY QueryTyped DEF CacheInv, QueriesFit
  <2>2. queries[m].prices \in Nat /\ prices \in Nat
    BY <1>1, <2>1 DEF Queries, StoreOK
  <2> QED
    BY <1>0, <1>2, <1>5, <2>1, <2>2 DEF QueryFits, Content
<1>7. InTurn'
  BY <1>0 DEF CacheInv, InTurn
<1>8. \A id \in DOMAIN entries : EntryOK(id)'
  BY <1>0, <1>4, <1>5, EntryKept DEF CacheInv
<1>9. \A m \in DOMAIN queries : QueryOK(m)'
  BY <1>0, <1>4, <1>5, QueryKept DEF CacheInv
<1> QED
  BY <1>0, <1>2, <1>3, <1>6, <1>7, <1>8, <1>9 DEF CacheInv

-------------------------------------------------------------------------------
(* The feed *)

\* A change of the store: what it replaces is the row the key has.
StoreTurns(c) ==
    /\ c \in Changes
    /\ storeRows' = (storeRows \ {c.replaced}) \cup ({c.event} \ {None})
    /\ c.event # None => \A x \in storeRows \ {c.replaced} : x.key # c.event.key

LEMMA TurnsAdmitted ==
    ASSUME StoreOK, NEW c, StoreTurns(c), NEW axis
    PROVE  Turns(c, axis, Content(axis, storeRows), Content(axis, storeRows)')
<1>1. c.replaced \in Rows \cup {None} /\ c.event \in Rows \cup {None}
      /\ storeRows \subseteq Rows /\ None \notin storeRows
  BY NoneIsNoName DEF StoreTurns, Changes, StoreOK
<1> DEFINE C == Content(axis, storeRows)
           D == Content(axis, storeRows)'
<1>2. C = storeRows \cap AdmittedBy[axis] /\ D = storeRows' \cap AdmittedBy[axis]
  BY DEF Content
<1>3. C \ Out(c, axis) = (storeRows \ {c.replaced}) \cap AdmittedBy[axis]
  BY <1>1, <1>2 DEF Out
<1>4. In(c, axis) = ({c.event} \ {None}) \cap AdmittedBy[axis]
  BY <1>1 DEF In
<1>5. D = (C \ Out(c, axis)) \cup In(c, axis)
  BY <1>2, <1>3, <1>4 DEF StoreTurns
<1>6. \A x \in C \ Out(c, axis), y \in In(c, axis) : x.key # y.key
  BY <1>3, <1>4 DEF StoreTurns
<1> QED
  BY <1>5, <1>6 DEF Turns

\* An entry the feed reaches follows the store, and the query that works on it too.
LEMMA FedKeeps ==
    ASSUME CacheInv, NEW c, StoreTurns(c), SeenMore, NEW id \in DOMAIN entries,
           InFamily(id), BoundRows = storeRows, BoundRows' = storeRows',
           storeRows' \subseteq Rows, family' = family, boundPrices' = boundPrices,
           entries'[id] = Fed(entries[id], c),
           \A m \in DOMAIN queries : Content(queries[m].axis, storeRows') \in queries'[m].seen
    PROVE  /\ Fed(entries[id], c) \in Entries
           /\ Fed(entries[id], c).axis = entries[id].axis
           /\ EntryOK(id)'
           /\ \A m \in DOMAIN queries : queries[m].entry = id => QueryOK(m)'
<1>1. PICK old : old = entries[id]
  OBVIOUS
<1>2. PICK e : e = Fed(old, c)
  OBVIOUS
<1>3. /\ old \in Entries /\ EntryOK(id) /\ StoreOK /\ old.buckets \in BucketSets
      /\ old.pending \in Seq(Changes) /\ c \in Changes /\ entries'[id] = e
  BY <1>1, <1>2 DEF CacheInv, EntriesOK, Entries, StoreTurns
<1>4. PICK C : C = Content(old.axis, storeRows)
  OBVIOUS
<1>5. PICK D : D = Content(old.axis, storeRows')
  OBVIOUS
<1>6. Turns(c, old.axis, C, D) /\ C \in SUBSET Rows /\ D \in SUBSET Rows
  <2>1. \A axis : Turns(c, axis, Content(axis, storeRows), Content(axis, storeRows'))
    BY <1>3, TurnsAdmitted DEF Content
  <2> QED
    BY <1>3, <1>4, <1>5, <2>1 DEF Content, StoreOK
<1>7. QueriesStay
  BY SeenStays
<1>8. \A m \in DOMAIN queries :
        /\ queries[m].entry = id => D \in queries'[m].seen
        /\ queries'[m].entry = queries[m].entry /\ queries'[m].axis = queries[m].axis
        /\ queries'[m].phase = queries[m].phase /\ queries'[m].todo = queries[m].todo
        /\ queries'[m].bucket = queries[m].bucket /\ queries'[m].folded = queries[m].folded
        /\ queries'[m].answer = queries[m].answer /\ queries'[m].prices = queries[m].prices
        /\ queries[m].seen \subseteq queries'[m].seen
  BY <1>1, <1>5, QueryTyped DEF SeenMore
<1>9. e.axis = old.axis => Serves(id, D)'
  <2>1. \A m \in DOMAIN queries' : queries'[m].entry = id => D \in queries'[m].seen
    BY <1>8 DEF SeenMore
  <2> QED
    BY <1>3, <1>5, <2>1 DEF Serves, InFamily, Content
<1>10. \A fold : PricedFor(id, fold) => PricedFor(id, fold)'
  BY <1>7, PricedStays
<1>11. \A b : BeingFolded(id, b) => BeingFolded(id, b)'
  BY <1>8 DEF BeingFolded, SeenMore
<1>12. ASSUME NEW m \in DOMAIN queries, queries[m].entry = id,
              queries[m].phase \notin {"build", "refold"}
       PROVE  QueryOK(m)'
  <2>1. QueryOK(m)
    BY DEF CacheInv
  <2> QED
    BY <1>8, <1>12, <2>1 DEF QueryOK, Answers
<1>13. CASE old.built
  <2>1. PICK new : new = Applied(old.buckets, old.axis, c)
    OBVIOUS
  <2>2. BuiltOK(id)
    BY <1>1, <1>3, <1>13 DEF EntryOK
  <2>3. Holds(old.buckets) = C /\ Sorted(old.buckets)
    BY <1>1, <1>4, <2>2 DEF BuiltOK, Serves
  <2>4. new \in BucketSets /\ Sorted(new) /\ Kept(new, old.buckets) /\ Holds(new) = D
    BY <1>3, <1>6, <2>1, <2>3, AppliedShape
  <2>5. /\ e \in Entries /\ e.axis = old.axis /\ e.built /\ e.building = old.building
        /\ e.buckets = new /\ e.pending = old.pending
    <3>1. e = [old EXCEPT !.buckets = new]
      BY <1>2, <1>13, <2>1, <1>3 DEF Fed, Entries
    <3> QED
      BY <1>3, <1>13, <2>4, <3>1 DEF Entries
  <2>6. ASSUME NEW b \in DOMAIN new
        PROVE  /\ PricedFor(id, new[b].acc)'
               /\ ~new[b].dirty /\ ~BeingFolded(id, b)' =>
                    RowsOf(new[b].acc) = new[b].events /\ Once(new[b].acc)
    <3>1. CASE b \in DOMAIN old.buckets /\ new[b] = old.buckets[b]
      <4>1. PICK fold : fold = new[b].acc
        OBVIOUS
      <4>2. PricedFor(id, fold)
        BY <1>1, <2>2, <3>1, <4>1 DEF BuiltOK
      <4>3. PricedFor(id, fold)'
        BY <1>10, <4>2
      <4> QED
        BY <1>1, <1>11, <2>2, <3>1, <4>1, <4>3 DEF BuiltOK
    <3>2. CASE new[b].dirty /\ new[b].acc = {}
      BY <3>2 DEF PricedFor
    <3> QED
      BY <2>4, <2>6, <3>1, <3>2 DEF Kept
  <2>7. BuiltOK(id)'
    BY <1>1, <1>3, <1>9, <2>2, <2>4, <2>5, <2>6 DEF BuiltOK
  <2>8. EntryOK(id)'
    BY <1>1, <1>3, <1>13, <2>5, <2>7 DEF EntryOK
  <2>9. ASSUME NEW m \in DOMAIN queries, queries[m].entry = id
        PROVE  QueryOK(m)'
    <3>1. QueryOK(m)
      BY DEF CacheInv
    <3>2. queries[m].phase # "build"
      BY <1>1, <1>3, <1>13, <2>9, <3>1 DEF QueryOK, BuildOK, EntryOK
    <3>3. CASE queries[m].phase = "refold"
      <4>1. RefoldOK(m)
        BY <3>1, <3>3 DEF QueryOK
      <4>2. PICK fold : fold = queries[m].folded
        OBVIOUS
      <4>3. queries[m].bucket # None => PricedFor(id, fold)'
        BY <1>10, <2>9, <4>1, <4>2 DEF RefoldOK
      <4>4. queries[m].bucket \in DOMAIN new /\ ~new[queries[m].bucket].dirty
            => /\ queries[m].bucket \in DOMAIN old.buckets
               /\ new[queries[m].bucket] = old.buckets[queries[m].bucket]
        BY <2>4 DEF Kept
      <4>5. RefoldOK(m)'
        BY <1>1, <1>3, <1>8, <2>5, <2>9, <4>1, <4>2, <4>3, <4>4 DEF RefoldOK
      <4> QED
        BY <1>8, <3>3, <4>5 DEF QueryOK
    <3> QED
      BY <1>12, <2>9, <3>2, <3>3
  <2> QED
    BY <1>1, <1>2, <2>5, <2>8, <2>9
<1>14. CASE ~old.built /\ old.building
  <2>1. /\ e \in Entries /\ e.axis = old.axis /\ e.built = FALSE /\ e.building
        /\ e.buckets = old.buckets /\ e.pending = Append(old.pending, c)
    <3>1. e = [old EXCEPT !.pending = Append(old.pending, c)]
      BY <1>2, <1>14, <1>3 DEF Fed, Entries
    <3>2. Append(old.pending, c) \in Seq(Changes)
      BY <1>3, AppendProperties
    <3> QED
      BY <1>3, <1>14, <3>1, <3>2 DEF Entries
  <2>2. EntryOK(id)'
    <3>1. PICK m \in DOMAIN queries : queries[m].entry = id /\ queries[m].phase = "build"
      BY <1>1, <1>3, <1>14 DEF EntryOK
    <3>2. m \in DOMAIN queries' /\ queries'[m].entry = id /\ queries'[m].phase = "build"
      BY <1>8, <3>1 DEF SeenMore
    <3> QED
      BY <1>3, <2>1, <3>2 DEF EntryOK
  <2>3. ASSUME NEW m \in DOMAIN queries, queries[m].entry = id
        PROVE  QueryOK(m)'
    <3>1. QueryOK(m)
      BY DEF CacheInv
    <3>2. queries[m].phase # "refold"
      BY <1>1, <1>14, <2>3, <3>1 DEF QueryOK, RefoldOK
    <3>3. CASE queries[m].phase = "build"
      <4>1. /\ queries[m].bucket = None /\ Sorted(old.buckets) /\ Unfolded(old.buckets)
            /\ \E F \in SUBSET Rows :
                 Leads(old.pending, queries[m].axis, Holds(old.buckets) \cup queries[m].todo, F)
                 /\ Serves(id, F)
        BY <1>1, <2>3, <3>1, <3>3 DEF QueryOK, BuildOK
      <4>2. PICK B : B = Holds(old.buckets) \cup queries[m].todo
        OBVIOUS
      <4>3. queries[m].axis = old.axis
        BY <1>1, <2>3, QueryTyped
      <4>4. Leads(old.pending, old.axis, B, C)
        BY <1>1, <1>4, <4>1, <4>2, <4>3 DEF Serves
      <4>5. Leads(Append(old.pending, c), old.axis, B, D)
        BY <1>3, <1>6, <4>4, LeadsOn
      <4>6. Serves(id, D)'
        BY <1>9, <2>1
      <4>7. /\ queries'[m].entry = id /\ queries'[m].axis = old.axis
            /\ queries'[m].todo = queries[m].todo /\ queries'[m].bucket = None
        BY <1>8, <2>3, <4>1, <4>3
      <4>8. BuildOK(m)'
        BY <1>3, <1>6, <2>1, <4>1, <4>2, <4>5, <4>6, <4>7 DEF BuildOK
      <4> QED
        BY <1>8, <3>3, <4>1, <4>8 DEF QueryOK
    <3> QED
      BY <1>12, <2>3, <3>2, <3>3
  <2> QED
    BY <1>1, <1>2, <2>1, <2>2, <2>3
<1>15. CASE ~old.built /\ ~old.building
  <2>1. e = old
    BY <1>2, <1>15 DEF Fed
  <2>2. EntryOK(id)'
    BY <1>1, <1>3, <1>15, <2>1 DEF EntryOK
  <2>3. ASSUME NEW m \in DOMAIN queries, queries[m].entry = id
        PROVE  QueryOK(m)'
    <3>1. QueryOK(m)
      BY DEF CacheInv
    <3>2. queries[m].phase \notin {"build", "refold"}
      BY <1>1, <1>15, <2>3, <3>1 DEF QueryOK, BuildOK, RefoldOK
    <3> QED
      BY <1>12, <2>3, <3>2
  <2> QED
    BY <1>1, <1>2, <1>3, <2>1, <2>2, <2>3
<1> QED
  BY <1>13, <1>14, <1>15

LEMMA FeedKeeps ==
    ASSUME CacheInv, NEW k, Feed(k)
    PROVE  CacheInv'
<1>0. /\ UNCHANGED <<oldRows, swapped, prices, boundPrices, family, asked>>
      /\ queries' = Seen(storeRows')
  BY DEF Feed
<1>1. StoreOK /\ EntriesOK /\ QueriesOK
  BY DEF CacheInv
<1>2. PICK event \in {None} \cup {r \in Rows : r.key = k}, replaced \in StoredUnder(k) :
        /\ storeRows' = (storeRows \ {replaced}) \cup ({event} \ {None})
        /\ entries' = [id \in DOMAIN entries |->
                         IF InFamily(id) /\ ~swapped
                         THEN Fed(entries[id], [event |-> event, replaced |-> replaced])
                         ELSE entries[id]]
  BY DEF Feed
<1>3. PICK c : c = [event |-> event, replaced |-> replaced]
  OBVIOUS
<1>4. storeRows \subseteq Rows /\ None \notin storeRows
  BY <1>1, NoneIsNoName DEF StoreOK
<1>5. replaced \in Rows \cup {None}
  BY <1>2, <1>4 DEF StoredUnder
<1>6. \A x \in storeRows \ {replaced} : x.key # k
  <2> SUFFICES ASSUME NEW x \in storeRows, x # replaced, x.key = k PROVE FALSE
    OBVIOUS
  <2>1. replaced \in {r \in storeRows : r.key = k}
    BY <1>2 DEF StoredUnder
  <2> QED
    BY <1>1, <2>1 DEF StoreOK
<1>7. StoreTurns(c)
  <2>1. c \in Changes /\ c.event = event /\ c.replaced = replaced
    BY <1>2, <1>3, <1>5 DEF Changes
  <2>2. event # None => event.key = k
    BY <1>2
  <2> QED
    BY <1>2, <1>6, <2>1, <2>2 DEF StoreTurns
<1>8. StoreOK'
  <2>1. storeRows' \subseteq Rows
    BY <1>2, <1>4
  <2>2. \A a, b \in storeRows' : a.key = b.key => a = b
    BY <1>1, <1>2, <1>6 DEF StoreOK
  <2> QED
    BY <1>0, <1>1, <2>1, <2>2 DEF StoreOK
<1>9. SeenMore /\ \A m \in DOMAIN queries :
                    Content(queries[m].axis, storeRows') \in queries'[m].seen
  BY <1>0, <1>8, SeenFacts DEF StoreOK
<1>10. swapped => BoundRows' = BoundRows
  BY <1>0 DEF BoundRows
<1>11. ~swapped => BoundRows = storeRows /\ BoundRows' = storeRows'
  BY <1>0 DEF BoundRows
<1>12. DOMAIN entries' = DOMAIN entries
       /\ \A id \in DOMAIN entries :
            entries'[id] = IF InFamily(id) /\ ~swapped THEN Fed(entries[id], c) ELSE entries[id]
  BY <1>2, <1>3
<1>13. ASSUME NEW id \in DOMAIN entries
       PROVE  /\ entries'[id] \in Entries /\ entries'[id].axis = entries[id].axis
              /\ EntryOK(id)'
              /\ \A m \in DOMAIN queries : queries[m].entry = id => QueryOK(m)'
  <2>1. CASE InFamily(id) /\ ~swapped
    <3>1. entries'[id] = Fed(entries[id], c)
      BY <1>12, <2>1
    <3> QED
      BY <1>0, <1>7, <1>8, <1>9, <1>11, <2>1, <3>1, FedKeeps DEF StoreOK
  <2>2. CASE ~(InFamily(id) /\ ~swapped)
    <3>1. entries'[id] = entries[id] /\ (BoundRows' = BoundRows \/ ~InFamily(id))
      BY <1>10, <1>12, <2>2
    <3>2. entries[id] \in Entries /\ EntryOK(id)
      BY <1>1 DEF CacheInv, EntriesOK
    <3>3. EntryOK(id)'
      BY <1>0, <1>9, <3>1, <3>2, EntryKept
    <3>4. \A m \in DOMAIN queries : queries[m].entry = id => QueryOK(m)'
      BY <1>0, <1>9, <3>1, QueryKept DEF CacheInv
    <3> QED
      BY <3>1, <3>2, <3>3, <3>4
  <2> QED
    BY <2>1, <2>2
<1>14. EntriesOK'
  <2>1. entries' \in [DOMAIN entries -> Entries]
    BY <1>2, <1>12, <1>13
  <2> QED
    BY <1>0, <1>1, <1>12, <2>1 DEF EntriesOK
<1>15. QueriesOK'
  BY <1>0, <1>1, <1>9 DEF QueriesOK, SeenMore
<1>16. QueriesFit'
  <2> SUFFICES ASSUME NEW m \in DOMAIN queries PROVE QueryFits(m)'
    BY <1>9 DEF QueriesFit, SeenMore
  <2>1. QueryFits(m)
    BY DEF CacheInv, QueriesFit
  <2>2. entries'[queries[m].entry].axis = queries[m].axis
    BY <1>13, <2>1 DEF QueryFits
  <2>3. Content(queries[m].axis, BoundRows') \in queries'[m].seen
    BY <1>9, <1>10, <1>11, <2>1 DEF QueryFits, SeenMore
  <2>4. /\ queries'[m].entry = queries[m].entry /\ queries'[m].axis = queries[m].axis
        /\ queries'[m].prices = queries[m].prices
        /\ Content(queries[m].axis, storeRows') \in queries'[m].seen
    BY <1>9 DEF SeenMore
  <2> QED
    BY <1>0, <1>12, <2>1, <2>2, <2>3, <2>4 DEF QueryFits, Content
<1>17. InTurn'
  BY <1>9 DEF CacheInv, InTurn, SeenMore
<1>18. \A m \in DOMAIN queries : QueryOK(m)'
  BY <1>13, QueryTyped
<1> QED
  BY <1>8, <1>9, <1>12, <1>13, <1>14, <1>15, <1>16, <1>17, <1>18 DEF CacheInv, SeenMore

-------------------------------------------------------------------------------
(* A question *)

InFamilyOf == {i \in DOMAIN entries : InFamily(i)}

LEMMA AsksKeeps ==
    ASSUME CacheInv, NEW axis \in Axes, NEW id \in Nat, NEW e, NEW others,
           Asks(axis, id, e, others),
           others \in Seq(InFamilyOf), Len(others) < MaxEntries, Outdated => others = <<>>,
           \/ id \in InFamilyOf /\ ~Outdated /\ e = entries[id] /\ e.axis = axis
           \/ id \notin DOMAIN entries /\ e = Cold(axis)
    PROVE  CacheInv'
<1>0. StoreOK /\ EntriesOK /\ QueriesOK /\ MaxEntries \in Nat
  BY ReportCacheAssumption DEF CacheInv
<1>1. PICK new : new = asked + 1
  OBVIOUS
<1>2. PICK C : C = Content(axis, storeRows)
  OBVIOUS
<1>3. PICK q : q = [entry |-> id, axis |-> axis, phase |-> "queued", todo |-> {},
                    bucket |-> None, folded |-> {}, answer |-> {},
                    seen |-> {C}, prices |-> prices]
  OBVIOUS
<1>4. /\ q \in Queries /\ q.entry = id /\ q.axis = axis /\ q.phase = "queued"
      /\ q.bucket = None /\ q.seen = {C} /\ q.prices = prices
  <2>1. C \in SUBSET Rows /\ prices \in Nat
    BY <1>0, <1>2 DEF StoreOK, Content
  <2> QED
    BY <1>3, <2>1 DEF Queries
<1>5. PICK es : es = With(entries, id, e)
  OBVIOUS
<1>6. /\ asked' = new /\ boundPrices' = prices /\ swapped' = FALSE /\ oldRows' = {}
      /\ family' = Append(others, id) /\ queries' = With(queries, new, q)
      /\ entries' = Reached(es, family', queries')
      /\ storeRows' = storeRows /\ prices' = prices
  BY <1>1, <1>2, <1>3, <1>5 DEF Asks
<1>7. /\ new \in Nat /\ new \notin DOMAIN queries /\ DOMAIN queries \subseteq 1 .. asked
      /\ asked \in Nat /\ new = asked + 1
      /\ DOMAIN queries' = DOMAIN queries \cup {new} /\ queries'[new] = q
      /\ \A m \in DOMAIN queries : queries'[m] = queries[m]
  <2>1. new \in Nat /\ new \notin DOMAIN queries /\ DOMAIN queries \subseteq 1 .. asked
        /\ asked \in Nat
    BY <1>0, <1>1 DEF QueriesOK
  <2>2. queries' = [m \in DOMAIN queries \cup {new} |-> IF m = new THEN q ELSE queries[m]]
    BY <1>6 DEF With
  <2> QED
    BY <1>1, <1>6, <2>1, <2>2
<1>8. /\ DOMAIN es = DOMAIN entries \cup {id} /\ es[id] = e
      /\ \A i \in DOMAIN entries : es[i] = entries[i]
  <2>1. /\ DOMAIN es = DOMAIN entries \cup {id} /\ es[id] = e
        /\ \A i \in DOMAIN entries : i # id => es[i] = entries[i]
    BY <1>5 DEF With
  <2>2. id \in DOMAIN entries => e = entries[id]
    BY DEF InFamilyOf
  <2> QED
    BY <2>1, <2>2
<1>9. e \in Entries /\ e.axis = axis
  BY <1>0, ColdType DEF EntriesOK, InFamilyOf
<1>10. /\ Len(others) \in Nat /\ \A j \in 1 .. Len(others) : others[j] \in InFamilyOf
       /\ Len(family') = Len(others) + 1 /\ family'[Len(others) + 1] = id
       /\ \A j \in 1 .. Len(others) : family'[j] = others[j]
       /\ family' \in Seq(InFamilyOf \cup {id})
  <2>1. PICK S : S = InFamilyOf \cup {id}
    OBVIOUS
  <2>2. others \in Seq(S) /\ id \in S
    <3>1. InFamilyOf \subseteq S
      BY <2>1
    <3> QED
      BY <2>1, <3>1, SeqMonotonic
  <2>3. PICK fam : fam = Append(others, id)
    OBVIOUS
  <2>4. /\ fam \in Seq(S) /\ Len(fam) = Len(others) + 1 /\ fam[Len(others) + 1] = id
        /\ \A j \in 1 .. Len(others) : fam[j] = others[j]
    BY <2>2, <2>3, AppendProperties
  <2>5. Len(others) \in Nat /\ \A j \in 1 .. Len(others) : others[j] \in InFamilyOf
    OBVIOUS
  <2> QED
    BY <1>6, <2>1, <2>3, <2>4, <2>5
<1>11. \A i : InFamily(i)' => i = id \/ (InFamily(i) /\ ~Outdated)
  <2> SUFFICES ASSUME NEW j \in 1 .. Len(others) + 1
               PROVE  family'[j] = id \/ (InFamily(family'[j]) /\ ~Outdated)
    <3>1. \A i : InFamily(i)' => \E j \in 1 .. Len(others) + 1 : family'[j] = i
      BY <1>10 DEF InFamily
    <3>2. \A i, j : family'[j] = i /\ (i = id \/ (InFamily(family'[j]) /\ ~Outdated))
            => i = id \/ (InFamily(i) /\ ~Outdated)
      OBVIOUS
    <3> QED
      BY <3>1, <3>2
  <2>1. CASE j = Len(others) + 1
    BY <1>10, <2>1
  <2>2. CASE j \in 1 .. Len(others)
    <3>1. others # <<>>
      BY <2>2
    <3> QED
      BY <1>10, <2>2, <3>1 DEF InFamilyOf
  <2> QED
    BY <1>10, <2>1, <2>2
<1>12. \A i \in DOMAIN entries : InFamily(i)' => InFamily(i) /\ ~Outdated
  BY <1>11 DEF InFamilyOf
<1>13. ~Outdated => BoundRows = storeRows /\ boundPrices = prices
  BY <1>0 DEF Outdated, BoundRows, StoreOK
<1>14. BoundRows' = storeRows
  BY <1>6 DEF BoundRows
<1>15. /\ DOMAIN entries' \subseteq DOMAIN entries \cup {id}
       /\ \A i \in DOMAIN entries' : entries'[i] = es[i]
       /\ entries' = [i \in DOMAIN entries' |-> es[i]]
       /\ \A j \in 1 .. Len(family') : family'[j] \in DOMAIN entries'
       /\ \A m \in DOMAIN queries' : queries'[m].entry \in DOMAIN entries'
  <2>1. entries' = [i \in {i \in DOMAIN es :
                             \/ \E j \in 1 .. Len(family') : family'[j] = i
                             \/ \E m \in DOMAIN queries' : queries'[m].entry = i} |-> es[i]]
    BY <1>6 DEF Reached
  <2>2. \A j \in 1 .. Len(family') : family'[j] \in DOMAIN es
    BY <1>8, <1>10 DEF InFamilyOf
  <2>3. \A m \in DOMAIN queries' : queries'[m].entry \in DOMAIN es
    BY <1>4, <1>7, <1>8, QueryTyped
  <2> QED
    BY <1>8, <2>1, <2>2, <2>3
<1>16. id \in DOMAIN entries' /\ entries'[id] = e
  BY <1>4, <1>7, <1>8, <1>15
<1>17. \A i \in DOMAIN entries : i \in DOMAIN entries' => entries'[i] = entries[i]
  BY <1>8, <1>15
<1>18. ASSUME NEW i \in DOMAIN entries, i \in DOMAIN entries'
       PROVE  /\ \A F : Serves(i, F) => Serves(i, F)'
              /\ \A fold : PricedFor(i, fold) => PricedFor(i, fold)'
              /\ \A b : BeingFolded(i, b) => BeingFolded(i, b)'
  <2>1. i = id => InFamily(i) /\ ~Outdated /\ entries[i].axis = axis
    BY <1>18 DEF InFamilyOf
  <2>2. ASSUME NEW F, Serves(i, F) PROVE Serves(i, F)'
    <3>1. InFamily(i)' => F = Content(entries'[i].axis, BoundRows')
      BY <1>12, <1>13, <1>14, <1>17, <1>18, <2>2 DEF Serves
    <3>2. ASSUME NEW m \in DOMAIN queries, queries[m].entry = i, Waiting(queries[m])
          PROVE  F \in queries[m].seen
      BY <2>2, <3>2 DEF Serves
    <3>3. i = id => F = C
      BY <1>2, <1>13, <2>1, <2>2 DEF Serves
    <3>4. \A m \in DOMAIN queries' :
            queries'[m].entry = i /\ Waiting(queries'[m]) => F \in queries'[m].seen
      BY <1>4, <1>7, <3>2, <3>3
    <3> QED
      BY <3>1, <3>4 DEF Serves, Content
  <2>3. ASSUME NEW fold, PricedFor(i, fold) PROVE PricedFor(i, fold)'
    <3>1. InFamily(i)' => \A x \in fold : x.prices >= boundPrices'
      BY <1>6, <1>12, <1>13, <1>18, <2>3 DEF PricedFor
    <3>2. i = id => \A x \in fold : x.prices >= prices
      BY <1>13, <2>1, <2>3 DEF PricedFor
    <3>3. \A m \in DOMAIN queries : queries[m].entry = i =>
             \A x \in fold : x.prices >= queries[m].prices
      BY <2>3 DEF PricedFor
    <3>4. \A m \in DOMAIN queries' : queries'[m].entry = i =>
             \A x \in fold : x.prices >= queries'[m].prices
      BY <1>4, <1>7, <3>2, <3>3
    <3> QED
      BY <3>1, <3>4 DEF PricedFor
  <2>4. \A b : BeingFolded(i, b) => BeingFolded(i, b)'
    BY <1>7 DEF BeingFolded
  <2> QED
    BY <2>2, <2>3, <2>4
<1>19. EntriesOK'
  <2>1. IsFiniteSet(DOMAIN entries')
    <3>1. IsFiniteSet(DOMAIN entries \cup {id})
      BY <1>0, FS_AddElement DEF EntriesOK
    <3> QED
      BY <1>15, <3>1, FS_Subset
  <2>2. entries' \in [DOMAIN entries' -> Entries] /\ DOMAIN entries' \subseteq Nat
    <3>1. \A i \in DOMAIN es : es[i] \in Entries
      BY <1>0, <1>8, <1>9 DEF EntriesOK
    <3> QED
      BY <1>0, <1>8, <1>15, <3>1 DEF EntriesOK
  <2>3. family' \in Seq(DOMAIN entries')
    <3>1. PICK fam : fam = family'
      OBVIOUS
    <3>2. PICK S : S = DOMAIN entries'
      OBVIOUS
    <3>3. PICK T : T = InFamilyOf \cup {id}
      OBVIOUS
    <3>4. fam \in Seq(T) /\ \A j \in 1 .. Len(fam) : fam[j] \in S
      BY <1>10, <1>15, <3>1, <3>2, <3>3
    <3>5. Len(fam) \in Nat /\ fam \in [1 .. Len(fam) -> S]
      BY <3>4
    <3>6. fam \in Seq(S)
      BY <3>5, SeqDef
    <3> QED
      BY <3>1, <3>2, <3>6
  <2>4. Len(family') <= MaxEntries
    BY <1>0, <1>10
  <2> QED
    BY <2>1, <2>2, <2>3, <2>4 DEF EntriesOK
<1>20. QueriesOK'
  <2>1. queries' \in [DOMAIN queries' -> Queries]
    <3>1. \A m \in DOMAIN queries' : queries'[m] \in Queries
      BY <1>4, <1>7, QueryTyped
    <3>2. queries' = [m \in DOMAIN queries' |-> queries'[m]]
      <4>1. queries' = [m \in DOMAIN queries \cup {new} |->
                          IF m = new THEN q ELSE queries[m]]
        BY <1>6 DEF With
      <4> QED
        BY <1>7, <4>1
    <3> QED
      BY <3>1, <3>2
  <2> QED
    BY <1>6, <1>7, <2>1 DEF QueriesOK
<1>21. StoreOK'
  <2>1. prices \in Nat /\ storeRows \subseteq Rows
        /\ \A a, b \in storeRows : a.key = b.key => a = b
    BY <1>0 DEF StoreOK
  <2>2. FALSE \in BOOLEAN /\ {} \subseteq Rows /\ prices <= prices
    BY <2>1
  <2> QED
    BY <1>6, <2>1, <2>2 DEF StoreOK
<1>22. QueriesFit'
  <2> SUFFICES ASSUME NEW m \in DOMAIN queries' PROVE QueryFits(m)'
    BY DEF QueriesFit
  <2>1. CASE m = new
    <3>1. /\ queries'[m].entry = id /\ queries'[m].axis = axis
          /\ queries'[m].prices = prices /\ queries'[m].seen = {Content(axis, storeRows)}
      BY <1>2, <1>4, <1>7, <2>1
    <3>2. id \in DOMAIN entries' /\ entries'[id].axis = axis
      BY <1>9, <1>16
    <3>3. prices \in Nat /\ prices' = prices /\ prices <= prices
      BY <1>0, <1>6 DEF StoreOK
    <3>4. Content(axis, storeRows)' \in {Content(axis, storeRows)}
          /\ Content(axis, BoundRows)' \in {Content(axis, storeRows)}
      BY <1>6, <1>14 DEF Content
    <3> QED
      BY <3>1, <3>2, <3>3, <3>4 DEF QueryFits, Content
  <2>2. CASE m \in DOMAIN queries
    <3>1. QueryFits(m) /\ queries'[m] = queries[m]
      BY <1>7, <2>2 DEF CacheInv, QueriesFit
    <3>2. queries'[m].entry \in DOMAIN entries'
          /\ entries'[queries'[m].entry].axis = queries'[m].axis
      BY <1>15, <1>17, <3>1 DEF QueryFits
    <3> QED
      BY <1>6, <1>14, <3>1, <3>2 DEF QueryFits, Content
  <2> QED
    BY <1>7, <2>1, <2>2
<1>23. InTurn'
  <2> SUFFICES ASSUME NEW k \in DOMAIN queries', NEW m \in DOMAIN queries',
                      k < m, queries'[k].entry = queries'[m].entry,
                      queries'[m].phase \in {"build", "refold", "clean"}
               PROVE  queries'[k].phase = "answered"
    BY DEF InTurn
  <2>1. m \in DOMAIN queries
    BY <1>4, <1>7
  <2>2. k \in DOMAIN queries
    BY <1>7, <2>1
  <2> QED
    BY <1>7, <2>1, <2>2 DEF CacheInv, InTurn
<1>24. ASSUME NEW i \in DOMAIN entries'
       PROVE  EntryOK(i)'
  <2>1. CASE i \in DOMAIN entries
    <3>1. EntryOK(i) /\ entries'[i] = entries[i]
      BY <1>17, <2>1 DEF CacheInv
    <3>2. BuiltOK(i) => BuiltOK(i)'
      BY <1>18, <2>1, <3>1 DEF BuiltOK
    <3>3. entries[i].building => \E m \in DOMAIN queries' : queries'[m].entry = i
                                                           /\ queries'[m].phase = "build"
      BY <1>7, <3>1 DEF EntryOK
    <3> QED
      BY <3>1, <3>2, <3>3 DEF EntryOK
  <2>2. CASE i \notin DOMAIN entries
    <3>1. i = id /\ entries'[i] = Cold(axis)
      BY <1>15, <1>16, <2>2 DEF InFamilyOf
    <3> QED
      BY <3>1, ColdType DEF EntryOK
  <2> QED
    BY <2>1, <2>2
<1>25. ASSUME NEW m \in DOMAIN queries'
       PROVE  QueryOK(m)'
  <2>1. CASE m = new
    BY <1>4, <1>7, <2>1 DEF QueryOK
  <2>2. CASE m \in DOMAIN queries
    <3>1. QueryOK(m) /\ queries'[m] = queries[m]
      BY <1>7, <2>2 DEF CacheInv
    <3>2. PICK i : i = queries[m].entry
      OBVIOUS
    <3>3. /\ i \in DOMAIN entries /\ i \in DOMAIN entries' /\ entries'[i] = entries[i]
          /\ queries'[m].entry = i
      BY <1>15, <1>17, <2>2, <3>1, <3>2, QueryTyped
    <3>4. BuildOK(m) => BuildOK(m)'
      BY <1>18, <3>1, <3>2, <3>3 DEF BuildOK
    <3>5. RefoldOK(m) => RefoldOK(m)'
      BY <1>18, <3>1, <3>2, <3>3 DEF RefoldOK
    <3> QED
      BY <3>1, <3>4, <3>5 DEF QueryOK, Answers
  <2> QED
    BY <1>7, <2>1, <2>2
<1> QED
  BY <1>19, <1>20, <1>21, <1>22, <1>23, <1>24, <1>25 DEF CacheInv

LEMMA FamilyIsKnown ==
    ASSUME EntriesOK
    PROVE  Bound \in Seq(InFamilyOf) /\ Len(Bound) <= MaxEntries /\ (Outdated => Bound = <<>>)
<1>1. PICK fam : fam = family
  OBVIOUS
<1>2. PICK S : S = InFamilyOf
  OBVIOUS
<1>3. fam \in Seq(DOMAIN entries) /\ Len(fam) <= MaxEntries
  BY <1>1 DEF EntriesOK
<1>4. Len(fam) \in Nat /\ \A j \in 1 .. Len(fam) : fam[j] \in DOMAIN entries
  BY <1>3
<1>5. fam \in [1 .. Len(fam) -> S]
  BY <1>1, <1>2, <1>3, <1>4 DEF InFamilyOf, InFamily
<1>6. fam \in Seq(S)
  BY <1>4, <1>5, SeqDef
<1>7. <<>> \in Seq(S) /\ Len(<<>>) = 0
  OBVIOUS
<1> QED
  BY <1>1, <1>2, <1>3, <1>6, <1>7, ReportCacheAssumption DEF Bound

LEMMA AskHeldKeeps ==
    ASSUME CacheInv, NEW axis \in Axes, AskHeld(axis)
    PROVE  CacheInv'
<1>1. PICK i \in Held(axis) :
         Asks(axis, Bound[i], entries[Bound[i]], RemoveAt(Bound, i))
  BY DEF AskHeld
<1>2. PICK fam : fam = Bound
  OBVIOUS
<1>3. PICK S : S = InFamilyOf
  OBVIOUS
<1>4. /\ fam \in Seq(S) /\ Len(fam) <= MaxEntries /\ (Outdated => fam = <<>>)
      /\ DOMAIN entries \subseteq Nat /\ MaxEntries \in Nat
  BY <1>2, <1>3, FamilyIsKnown, ReportCacheAssumption DEF CacheInv, EntriesOK
<1>5. Len(fam) \in Nat /\ i \in 1 .. Len(fam) /\ entries[fam[i]].axis = axis
      /\ \A j \in 1 .. Len(fam) : fam[j] \in S
  <2>1. i \in DOMAIN fam /\ entries[fam[i]].axis = axis
    BY <1>1, <1>2 DEF Held
  <2>2. Len(fam) \in Nat /\ DOMAIN fam = 1 .. Len(fam)
        /\ \A j \in 1 .. Len(fam) : fam[j] \in S
    BY <1>4
  <2> QED
    BY <2>1, <2>2
<1>6. ~Outdated
  <2>1. Len(<<>>) = 0
    OBVIOUS
  <2>2. fam # <<>>
    BY <1>5, <2>1
  <2> QED
    BY <1>4, <2>2
<1>7. PICK others : others = RemoveAt(fam, i)
  OBVIOUS
<1>8. others \in Seq(S) /\ Len(others) = Len(fam) - 1
  <2>1. PICK front : front = SubSeq(fam, 1, i - 1)
    OBVIOUS
  <2>2. PICK back : back = SubSeq(fam, i + 1, Len(fam))
    OBVIOUS
  <2>3. i - 1 \in Int /\ i + 1 \in Int /\ 1 \in Int /\ Len(fam) \in Int
    BY <1>5
  <2>4. (\A j \in 1 .. i - 1 : fam[j] \in S) /\ (\A j \in i + 1 .. Len(fam) : fam[j] \in S)
    BY <1>5
  <2>5. front \in Seq(S) /\ Len(front) = IF 1 <= i - 1 THEN i - 1 - 1 + 1 ELSE 0
    BY <2>1, <2>3, <2>4, SubSeqProperties
  <2>6. back \in Seq(S)
        /\ Len(back) = IF i + 1 <= Len(fam) THEN Len(fam) - (i + 1) + 1 ELSE 0
    BY <2>2, <2>3, <2>4, SubSeqProperties
  <2>7. others = front \o back
    BY <1>7, <2>1, <2>2 DEF RemoveAt
  <2>8. others \in Seq(S) /\ Len(others) = Len(front) + Len(back)
    BY <2>5, <2>6, <2>7, ConcatProperties
  <2>9. Len(front) = i - 1 /\ Len(back) = Len(fam) - i
    BY <1>5, <2>5, <2>6
  <2> QED
    BY <1>5, <2>8, <2>9
<1>9. PICK id : id = fam[i]
  OBVIOUS
<1>10. id \in InFamilyOf /\ id \in Nat /\ Len(others) < MaxEntries
  <2>1. id \in InFamilyOf /\ InFamilyOf \subseteq DOMAIN entries
    BY <1>3, <1>5, <1>9 DEF InFamilyOf
  <2>2. Len(others) < MaxEntries
    BY <1>4, <1>5, <1>8
  <2> QED
    BY <1>4, <2>1, <2>2
<1>11. PICK e : e = entries[id]
  OBVIOUS
<1>12. Asks(axis, id, e, others)
  BY <1>1, <1>2, <1>7, <1>9, <1>11
<1> QED
  BY <1>3, <1>5, <1>6, <1>8, <1>9, <1>10, <1>11, <1>12, AsksKeeps

LEMMA FreshIsNew ==
    ASSUME IsFiniteSet(DOMAIN entries)
    PROVE  FreshId \in Nat /\ FreshId \notin DOMAIN entries
<1>1. PICK S : S = DOMAIN entries
  OBVIOUS
<1>2. PICK n : n = Cardinality(S) + 1
  OBVIOUS
<1>3. n \in Nat /\ IsFiniteSet(S) /\ Cardinality(S) \in Nat
  BY <1>1, <1>2, FS_CardinalityType
<1>4. Cardinality(1 .. n) = n
  <2>1. 1 \in Int /\ n \in Int /\ ~(1 > n)
    BY <1>2, <1>3
  <2>2. Cardinality(1 .. n) = IF 1 > n THEN 0 ELSE n - 1 + 1
    BY <2>1, FS_Interval
  <2> QED
    BY <1>3, <2>1, <2>2
<1>5. \E id \in 1 .. n : id \notin S
  <2>1. SUFFICES ASSUME 1 .. n \subseteq S PROVE FALSE
    OBVIOUS
  <2>2. Cardinality(1 .. n) <= Cardinality(S)
    BY <1>3, <2>1, FS_Subset
  <2> QED
    BY <1>2, <1>3, <1>4, <2>2
<1>6. FreshId = CHOOSE id \in 1 .. n : id \notin S
  BY <1>1, <1>2 DEF FreshId
<1>7. FreshId \in 1 .. n /\ FreshId \notin S
  BY <1>5, <1>6
<1> QED
  BY <1>1, <1>3, <1>7

LEMMA AskColdKeeps ==
    ASSUME CacheInv, NEW axis \in Axes, AskCold(axis)
    PROVE  CacheInv'
<1>1. PICK fam : fam = Bound
  OBVIOUS
<1>2. PICK S : S = InFamilyOf
  OBVIOUS
<1>3. /\ fam \in Seq(S) /\ Len(fam) <= MaxEntries /\ (Outdated => fam = <<>>)
      /\ MaxEntries \in Nat \ {0} /\ Len(fam) \in Nat
  BY <1>1, <1>2, FamilyIsKnown, ReportCacheAssumption DEF CacheInv
<1>4. PICK others : others = IF Len(fam) >= MaxEntries THEN Tail(fam) ELSE fam
  OBVIOUS
<1>5. others \in Seq(S) /\ Len(others) < MaxEntries /\ (Outdated => others = <<>>)
  <2>1. CASE Len(fam) >= MaxEntries
    <3>1. fam # <<>>
      BY <1>3, <2>1
    <3>2. Tail(fam) \in Seq(S) /\ Len(Tail(fam)) = Len(fam) - 1
      <4>1. fam \in Seq(S)
        BY <1>3
      <4> QED
        BY <3>1, <4>1, HeadTailProperties
    <3>3. others = Tail(fam) /\ ~Outdated
      BY <1>3, <1>4, <2>1, <3>1
    <3>4. Len(fam) - 1 < MaxEntries
      BY <1>3
    <3> QED
      BY <3>2, <3>3, <3>4
  <2>2. CASE ~(Len(fam) >= MaxEntries)
    <3>1. others = fam /\ Len(fam) < MaxEntries
      BY <1>3, <1>4, <2>2
    <3> QED
      BY <1>3, <3>1
  <2> QED
    BY <2>1, <2>2
<1>6. PICK id : id = FreshId
  OBVIOUS
<1>7. id \in Nat /\ id \notin DOMAIN entries
  BY <1>6, FreshIsNew DEF CacheInv, EntriesOK
<1>8. PICK e : e = Cold(axis)
  OBVIOUS
<1>9. Asks(axis, id, e, others)
  BY <1>1, <1>4, <1>6, <1>8 DEF AskCold
<1> QED
  BY <1>2, <1>5, <1>7, <1>8, <1>9, AsksKeeps

-------------------------------------------------------------------------------
(* The theorems of the report cache *)

LEMMA CacheStarts == CacheInit => CacheInv
<1> SUFFICES ASSUME CacheInit PROVE CacheInv
  OBVIOUS
<1> USE DEF CacheInit
<1>1. StoreOK
  <2>1. storeRows \subseteq Rows /\ \A a, b \in storeRows : a.key = b.key => a = b
    OBVIOUS
  <2>2. oldRows \subseteq Rows /\ swapped \in BOOLEAN
    OBVIOUS
  <2>3. prices \in Nat /\ boundPrices \in Nat /\ boundPrices <= prices
    OBVIOUS
  <2> HIDE DEF CacheInit
  <2> QED
    BY <2>1, <2>2, <2>3 DEF StoreOK
<1>2. DOMAIN entries = {} /\ DOMAIN queries = {}
  OBVIOUS
<1>3. IsFiniteSet({}) /\ MaxEntries \in Nat
  BY FS_EmptySet, ReportCacheAssumption
<1>4. EntriesOK
  <2>1. family \in Seq(DOMAIN entries) /\ Len(family) = 0
    OBVIOUS
  <2>2. entries \in [DOMAIN entries -> Entries]
    BY <1>2
  <2> QED
    BY <1>2, <1>3, <2>1, <2>2 DEF EntriesOK
<1>5. QueriesOK
  <2>1. queries \in [DOMAIN queries -> Queries]
    BY <1>2
  <2> QED
    BY <1>2, <2>1 DEF QueriesOK
<1>6. QueriesFit /\ InTurn
  BY <1>2 DEF QueriesFit, InTurn
<1> QED
  BY <1>1, <1>2, <1>4, <1>5, <1>6 DEF CacheInv

LEMMA CacheSteps == CacheInv /\ [CacheNext]_reportCacheVars => CacheInv'
<1> SUFFICES ASSUME CacheInv, [CacheNext]_reportCacheVars PROVE CacheInv'
  OBVIOUS
<1>1. CASE \E k \in DedupKeys : Feed(k)
  BY <1>1, FeedKeeps
<1>2. CASE InstallStore
  BY <1>2, InstallStoreKeeps
<1>3. CASE InstallPrices
  BY <1>3, InstallPricesKeeps
<1>4. CASE \E axis \in Axes : AskHeld(axis) \/ AskCold(axis)
  BY <1>4, AskHeldKeeps, AskColdKeeps
<1>5. CASE \E n \in 1 .. MaxAsks : Begin(n) \/ Partition(n) \/ Built(n)
  BY <1>5, BeginKeeps, PartitionKeeps, BuiltKeeps
<1>6. CASE \E n \in 1 .. MaxAsks : TakeBucket(n) \/ Fold(n) \/ CleanPass(n)
  BY <1>6, TakeBucketKeeps, FoldKeeps, CleanPassKeeps
<1>7. CASE \E n \in 1 .. MaxAsks : Assemble(n) \/ Return(n) \/ Throw(n)
  BY <1>7, AssembleKeeps, ReturnKeeps, ThrowKeeps
<1>8. CASE UNCHANGED reportCacheVars
  <2>1. /\ storeRows' = storeRows /\ oldRows' = oldRows /\ swapped' = swapped
        /\ prices' = prices /\ boundPrices' = boundPrices /\ entries' = entries
        /\ family' = family /\ queries' = queries /\ asked' = asked
    BY <1>8 DEF reportCacheVars, world, cache
  <2>2. (StoreOK /\ EntriesOK /\ QueriesOK /\ QueriesFit /\ InTurn)'
    BY <2>1 DEF CacheInv, StoreOK, EntriesOK, QueriesOK, QueriesFit, QueryFits, InTurn,
                BoundRows, Content
  <2>3. SeenMore /\ BoundRows' = BoundRows
    BY <2>1 DEF CacheInv, QueriesOK, SeenMore, BoundRows
  <2>4. \A id \in DOMAIN entries : EntryOK(id)'
    BY <2>1, <2>3, EntryKept DEF CacheInv
  <2>5. \A m \in DOMAIN queries : QueryOK(m)'
    BY <2>1, <2>3, QueryKept DEF CacheInv
  <2> QED
    BY <2>1, <2>2, <2>4, <2>5 DEF CacheInv
<1> QED
  BY <1>1, <1>2, <1>3, <1>4, <1>5, <1>6, <1>7, <1>8 DEF CacheNext

\* The inductive invariant of the report cache: what an entry's buckets hold, while
\* it is built, fed and refolded, and what each query may still be answered with.
THEOREM CacheInvariant == CacheSpec => []CacheInv
<1>1. CacheInit => CacheInv
  BY CacheStarts
<1>2. CacheInv /\ [CacheNext]_reportCacheVars => CacheInv'
  BY CacheSteps
<1> QED
  BY <1>1, <1>2, PTL DEF CacheSpec

\* A fold that has each row once has as many rows as entries.
LEMMA OnceCounts ==
    ASSUME NEW fold \in SUBSET Priced, Once(fold)
    PROVE  Cardinality(RowsOf(fold)) = Cardinality(fold)
<1>1. PICK T : T = RowsOf(fold)
  OBVIOUS
<1>2. T \subseteq Rows /\ IsFiniteSet(T)
  <2>1. T \subseteq Rows
    BY <1>1 DEF RowsOf, Priced
  <2> QED
    BY <2>1, FS_Subset, ReportCacheAssumption
<1>3. PICK f : f = [x \in fold |-> x.row]
  OBVIOUS
<1>4. f \in [fold -> T]
  BY <1>1, <1>3 DEF RowsOf
<1>5. \A a, b \in fold : f[a] = f[b] => a = b
  BY <1>3 DEF Once
<1>6. \A t \in T : \E x \in fold : f[x] = t
  BY <1>1, <1>3 DEF RowsOf
<1>7. f \in Injection(fold, T) /\ f \in Surjection(fold, T)
  BY <1>4, <1>5, <1>6 DEF Injection, Surjection, IsInjective
<1>8. Cardinality(fold) = Cardinality(T)
  BY <1>2, <1>7, FS_Injection
<1> QED
  BY <1>1, <1>8

LEMMA CacheInvHolds == CacheInv => ReportsHold
<1> SUFFICES ASSUME CacheInv PROVE ReportsHold
  OBVIOUS
<1>1. ReportCacheTypeOK
  <2>1. ASSUME NEW id \in DOMAIN entries
        PROVE  /\ entries[id].axis \in Axes
               /\ ~entries[id].building => entries[id].pending = <<>>
               /\ ~(entries[id].built /\ entries[id].building)
    <3>1. EntryOK(id) /\ entries[id] \in Entries
      BY DEF CacheInv, EntriesOK
    <3> QED
      BY <3>1 DEF EntryOK, BuiltOK, Entries
  <2> QED
    BY <2>1 DEF ReportCacheTypeOK, CacheInv, StoreOK, EntriesOK
<1>2. ASSUME NEW n \in DOMAIN queries, queries[n].phase = "answered"
      PROVE  /\ RowsOf(queries[n].answer) \in queries[n].seen
             /\ Cardinality(RowsOf(queries[n].answer)) = Cardinality(queries[n].answer)
             /\ \A x \in queries[n].answer : x.prices >= queries[n].prices
  <2>1. Answers(n, queries[n].answer)
    BY <1>2 DEF CacheInv, QueryOK
  <2>2. queries[n].answer \in SUBSET Priced
    BY QueryTyped DEF Queries
  <2> QED
    BY <2>1, <2>2, OnceCounts DEF Answers
<1>3. EntryIsTheStore
  <2> SUFFICES ASSUME NEW id \in DOMAIN entries, entries[id].built /\ InFamily(id)
               PROVE  LET bs == entries[id].buckets
                      IN /\ UNION {bs[b].events : b \in DOMAIN bs}
                              = Content(entries[id].axis, BoundRows)
                         /\ \A b \in DOMAIN bs : \A r \in bs[b].events : BucketOf[r] = b
                         /\ \A b \in DOMAIN bs :
                              /\ ~bs[b].dirty
                              /\ ~\E n \in DOMAIN queries : queries[n].entry = id
                                                            /\ queries[n].bucket = b
                              => RowsOf(bs[b].acc) = bs[b].events
    BY DEF EntryIsTheStore
  <2>1. BuiltOK(id)
    BY DEF CacheInv, EntryOK
  <2> QED
    BY <2>1 DEF BuiltOK, Serves, Holds, Sorted, BeingFolded
<1> QED
  BY <1>1, <1>2, <1>3 DEF ReportsHold, AnswerIsAState, PricedSinceAsked

\* Whatever lands between two rows of a build or a fold - changes, swaps of the
\* store and of the prices, errors, other questions - a report is one state of the
\* store between question and answer, priced no earlier than the question, and a
\* built entry the feed reaches holds the store's rows.
THEOREM ReportsHoldAlways == CacheSpec => []ReportsHold
BY CacheInvariant, CacheInvHolds, PTL

===============================================================================
