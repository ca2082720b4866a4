---------------------------- MODULE EventSync_proofs ----------------------------
(***************************************************************************)
(* The event sync, proved for every fleet.  The inductive invariant is the *)
(* Hub's own (HubInv and TimelineInv) with SyncInv: every page under way   *)
(* to a client is a true piece of the Hub's history, so a replica can only *)
(* ever be a copy of one state of one archive, or the first pages of one.  *)
(*                                                                         *)
(* First the pump's part of it, LoopOK, which says which awaits a pass may *)
(* be at and how the fences it knows, prepared for and walked at compare:  *)
(* what each function of the pump makes of the state of its closure.       *)
(***************************************************************************)
EXTENDS EventSync, HubArchive_proofs

-------------------------------------------------------------------------------
(* The state of a pump *)

Fences == [epoch : Nat, generation : Nat \cup {-1}]
Links == [epoch : Nat \ {0}, seq : Nat, generation : Nat, frame : Nat, live : BOOLEAN]
Parcels == UNION {[S -> Copies] : S \in SUBSET Keys}

LoopFields ==
    {"conn", "suspended", "degraded", "malformed", "share", "pending", "seeding", "caughtUp",
     "source", "acked", "full", "dirty", "pc", "stale", "reset", "through", "feed", "fence",
     "wholly", "todo", "sent", "scan", "scanAt", "walked"}

IsLoop(s) == s = [f \in LoopFields |-> s[f]]

\* What a change brings the engine.
FeedOK(feed) ==
    /\ feed = [n \in DOMAIN feed |-> feed[n]]
    /\ DOMAIN feed \subseteq Nat
    /\ \A n \in DOMAIN feed :
          /\ DOMAIN feed[n].upserts \subseteq Keys
          /\ \A k \in DOMAIN feed[n].upserts : feed[n].upserts[k] \in Rows

LoopType(s) ==
    /\ IsLoop(s)
    /\ s.conn = NoConn \/ s.conn \in Links
    /\ s.suspended \in BOOLEAN /\ s.degraded \in BOOLEAN /\ s.malformed \in BOOLEAN
    /\ s.share \in BOOLEAN /\ s.pending \in BOOLEAN /\ s.seeding \in BOOLEAN
    /\ s.caughtUp \in Nat /\ s.source \in Fences
    /\ s.acked \in Holdings /\ s.full \in BOOLEAN /\ s.dirty \subseteq Keys
    /\ s.pc \in Requests \cup {"idle", "feed", "prepare"}
    /\ s.stale \in BOOLEAN /\ s.reset \in BOOLEAN /\ s.through \subseteq Nat
    /\ FeedOK(s.feed)
    /\ s.fence \in Fences /\ s.wholly \in BOOLEAN
    /\ s.todo \in Parcels /\ s.sent \in Parcels
    /\ s.scan \in Holdings /\ s.scanAt \in Fences /\ s.walked \in Fences

\* A pass that waits for the Hub is current, and so is no pass gated.
LoopGate(s) ==
    /\ s.pc \in Requests => Runnable(s)
    /\ s.stale => Waiting(s)
    /\ s.suspended /\ Waiting(s) => s.stale
    /\ DOMAIN s.sent \subseteq DOMAIN s.todo
    /\ s.pc # "feed" => s.feed = None

\* Nothing a client knows or prepared for is past the Hub's fence `f`, and
\* what it walked last, it walked after the fence its sources count for.
LoopFence(s, f) ==
    /\ s.conn # NoConn => AtOrAfter(f, ConnFence(s))
    /\ AtOrAfter(f, s.source)
    /\ s.source.epoch = 0 => s.walked = NoSource
    /\ s.walked # NoSource => AtOrAfter(s.walked, s.source)
    /\ s.pc = "prepare" => /\ s.source.epoch # 0 /\ s.fence.epoch # 0
                           /\ AtOrAfter(f, s.fence)
                           /\ AtOrAfter(s.scanAt, s.fence) /\ AtOrAfter(s.scanAt, s.source)
    /\ s.pc = "push" /\ s.walked # NoSource => AtOrAfter(s.walked, s.fence)

LoopOK(s) == LoopType(s) /\ LoopGate(s) /\ LoopFence(s, Fence)

\* `t` is `s` but for some fields.
SameBut(s, t, changed) == IsLoop(t) /\ \A f \in LoopFields \ changed : t[f] = s[f]

\* What a pass leaves alone while its connection and gates are as they are.
SameLink(s, t) ==
    /\ t.conn = s.conn /\ t.suspended = s.suspended /\ t.degraded = s.degraded
    /\ t.caughtUp = s.caughtUp /\ t.share = s.share

\* A pass under way goes on, and a loop at rest may start one.
Continues(s, t) ==
    /\ s.pc # "idle" => t.pc = s.pc /\ t.feed = s.feed /\ t.stale = s.stale
    /\ s.pc = "idle" => t.pc \in {"idle", "status", "changes", "snapshot"}

\* No pass waits for the Hub any more; one that waits for the engine or for a
\* walk finds itself stale.
Stopped(s, t) ==
    IF Waiting(s) THEN t.pc = s.pc /\ t.feed = s.feed /\ t.stale = TRUE ELSE t.pc = "idle"

\* The state a push, or the refresh before one, starts from.
Ready(s) ==
    /\ LoopType(s) /\ LoopFence(s, Fence) /\ Current(s)
    /\ s.feed = None /\ DOMAIN s.sent \subseteq DOMAIN s.todo
    /\ s.pc \notin {"prepare", "push"}

-------------------------------------------------------------------------------
(* Fences, parcels and holdings *)

LEMMA AtOrAfterSelf ==
    ASSUME NEW f \in Fences
    PROVE  AtOrAfter(f, f)
BY DEF AtOrAfter, Fences

LEMMA AtOrAfterTrans ==
    ASSUME NEW f \in Fences, NEW g \in Fences, NEW h \in Fences, AtOrAfter(f, g), AtOrAfter(g, h)
    PROVE  AtOrAfter(f, h)
BY DEF AtOrAfter, Fences

LEMMA NoSourceFence == NoSource \in Fences /\ \A f \in Fences : AtOrAfter(f, NoSource)
BY DEF AtOrAfter, Fences, NoSource

\* A fence whose generation is forgotten is before all that were after it.
LEMMA LoweredFence ==
    ASSUME NEW f \in Fences, NEW g \in Fences, AtOrAfter(f, g)
    PROVE  AtOrAfter(f, [g EXCEPT !.generation = -1]) /\ [g EXCEPT !.generation = -1] \in Fences
BY DEF AtOrAfter, Fences

LEMMA NoneIsParcel == None \in Parcels /\ DOMAIN None = {} /\ FeedOK(None)
<1>1. None \in [{} -> Copies]
  BY DEF None
<1> QED
  BY <1>1 DEF Parcels, None, FeedOK

LEMMA ParcelOf ==
    ASSUME NEW S \in SUBSET Keys, NEW copy, \A k \in S : copy[k] \in Copies
    PROVE  [k \in S |-> copy[k]] \in Parcels /\ DOMAIN [k \in S |-> copy[k]] = S
<1>1. [k \in S |-> copy[k]] \in [S -> Copies]
  OBVIOUS
<1> QED
  BY <1>1 DEF Parcels

LEMMA ParcelParts ==
    ASSUME NEW todo \in Parcels
    PROVE  DOMAIN todo \in SUBSET Keys /\ \A k \in DOMAIN todo : todo[k] \in Copies
BY DEF Parcels

LEMMA NoCopiesHeld == NoCopies \in Holdings
BY DEF NoCopies, Holdings

\* A finite set has a subset of every size up to its own.
LEMMA SubsetOfSize ==
    ASSUME NEW S, IsFiniteSet(S), NEW n \in 0 .. Cardinality(S)
    PROVE  \E T \in SUBSET S : Cardinality(T) = n
<1> DEFINE sizes == {m \in Nat : m >= n /\ \E T \in SUBSET S : Cardinality(T) = m}
<1>1. Cardinality(S) \in sizes
  BY FS_CardinalityType
<1>2. PICK m \in sizes : \A p \in sizes : ~(p < m)
  <2>1. sizes \in SUBSET Nat /\ sizes # {}
    BY <1>1
  <2> HIDE DEF sizes
  <2> QED
    BY <2>1, LeastElement
<1>3. PICK T \in SUBSET S : Cardinality(T) = m
  BY <1>2
<1>4. CASE m = n
  BY <1>3, <1>4
<1>5. CASE m > n
  <2>1. IsFiniteSet(T)
    BY FS_Subset
  <2>2. PICK x \in T : TRUE
    BY <1>2, <1>3, <1>5, <2>1, FS_EmptySet
  <2>3. Cardinality(T \ {x}) = m - 1
    BY <1>3, <2>1, <2>2, FS_RemoveElement
  <2>4. m - 1 \in sizes
    <3>1. T \ {x} \in SUBSET S /\ m - 1 \in Nat /\ m - 1 >= n
      BY <1>2, <1>5
    <3> QED
      BY <2>3, <3>1
  <2> QED
    BY <1>2, <2>4
<1> QED
  BY <1>2, <1>4, <1>5

\* A push slice is part of what is left to send.
LEMMA BatchIsParcel ==
    ASSUME NEW todo \in Parcels
    PROVE  Batch(todo) \in Parcels /\ DOMAIN Batch(todo) \subseteq DOMAIN todo
<1> DEFINE n == IF Cardinality(DOMAIN todo) < BatchMax THEN Cardinality(DOMAIN todo) ELSE BatchMax
           S == CHOOSE T \in SUBSET DOMAIN todo : Cardinality(T) = n
<1>1. DOMAIN todo \in SUBSET Keys /\ \A k \in DOMAIN todo : todo[k] \in Copies
  BY ParcelParts
<1>2. IsFiniteSet(DOMAIN todo) /\ Cardinality(DOMAIN todo) \in Nat
  BY <1>1, HubAssumption, FS_Subset, FS_CardinalityType
<1>3. n \in 0 .. Cardinality(DOMAIN todo)
  BY <1>2, SyncAssumption
<1> HIDE DEF n
<1>4. S \in SUBSET DOMAIN todo
  BY <1>2, <1>3, SubsetOfSize
<1>5. Batch(todo) = [k \in S |-> todo[k]]
  BY DEF Batch, n
<1> HIDE DEF S
<1>6. S \in SUBSET Keys /\ \A k \in S : todo[k] \in Copies
  BY <1>1, <1>4
<1> QED
  BY <1>4, <1>5, <1>6, ParcelOf

-------------------------------------------------------------------------------
(* The end of a pass, and a push *)

\* The end of a pass leaves the connection and the sources as they are.
LEMMA RestFields ==
    ASSUME NEW s, IsLoop(s)
    PROVE  LET t == Rest(s)
           IN  /\ SameBut(s, t, {"pc", "stale", "reset", "through", "feed", "fence", "wholly",
                                 "todo", "sent", "scan", "scanAt", "full", "dirty"})
               /\ t.pc = "idle" /\ t.stale = FALSE /\ t.reset = FALSE
               /\ t.through = {} /\ t.feed = None /\ t.fence = NoSource
               /\ t.wholly = FALSE /\ t.todo = None /\ t.sent = None
               /\ t.scan = NoCopies /\ t.scanAt = NoSource
               /\ t.full = (s.full \/ (DOMAIN s.todo # {} /\ s.wholly))
               /\ t.dirty = IF DOMAIN s.todo # {} /\ ~s.wholly
                            THEN s.dirty \cup DOMAIN s.todo ELSE s.dirty
<1> DEFINE t == Rest(s)
<1>1. IsLoop(t)
  BY Zenon DEF IsLoop, Rest
<1>2. \A f \in LoopFields \ {"pc", "stale", "reset", "through", "feed", "fence", "wholly",
                             "todo", "sent", "scan", "scanAt", "full", "dirty"} : t[f] = s[f]
  BY Zenon DEF IsLoop, Rest
<1> USE DEF IsLoop, Rest, LoopFields
<1>3. /\ t.pc = "idle" /\ t.stale = FALSE /\ t.reset = FALSE
      /\ t.through = {} /\ t.feed = None /\ t.fence = NoSource
  BY SMT
<1>4. /\ t.wholly = FALSE /\ t.todo = None /\ t.sent = None
      /\ t.scan = NoCopies /\ t.scanAt = NoSource
  BY SMT
<1>5. t.full = (s.full \/ (DOMAIN s.todo # {} /\ s.wholly))
  BY SMT
<1>6. t.dirty = IF DOMAIN s.todo # {} /\ ~s.wholly
                THEN s.dirty \cup DOMAIN s.todo ELSE s.dirty
  BY SMT
<1> HIDE DEF IsLoop, Rest, LoopFields, t
<1> QED
  BY <1>1, <1>2, <1>3, <1>4, <1>5, <1>6 DEF SameBut, t

LEMMA RestOK ==
    ASSUME NEW s, LoopType(s), LoopFence(s, Fence)
    PROVE  /\ LoopOK(Rest(s)) /\ SameLink(s, Rest(s))
           /\ Rest(s).pc = "idle" /\ Rest(s).pending = s.pending
<1> DEFINE t == Rest(s)
<1>1. IsLoop(s) /\ DOMAIN s.todo \subseteq Keys
  BY ParcelParts DEF LoopType
<1>2. /\ SameBut(s, t, {"pc", "stale", "reset", "through", "feed", "fence", "wholly",
                        "todo", "sent", "scan", "scanAt", "full", "dirty"})
      /\ t.pc = "idle" /\ t.stale = FALSE /\ t.reset = FALSE
      /\ t.through = {} /\ t.feed = None /\ t.fence = NoSource
      /\ t.wholly = FALSE /\ t.todo = None /\ t.sent = None
      /\ t.scan = NoCopies /\ t.scanAt = NoSource
      /\ t.full = (s.full \/ (DOMAIN s.todo # {} /\ s.wholly))
      /\ t.dirty = IF DOMAIN s.todo # {} /\ ~s.wholly
                   THEN s.dirty \cup DOMAIN s.todo ELSE s.dirty
  BY <1>1, RestFields
<1> HIDE DEF t
<1>3. LoopType(t)
  BY <1>1, <1>2, NoneIsParcel, NoSourceFence, NoCopiesHeld DEF LoopType, SameBut, LoopFields
<1>4. LoopGate(t)
  BY <1>2 DEF LoopGate, Waiting, Requests
<1>5. SameLink(s, t) /\ t.pending = s.pending
  BY <1>2 DEF SameLink, SameBut, LoopFields
<1>6. LoopFence(t, Fence)
  BY <1>2 DEF LoopFence, ConnFence, SameBut, LoopFields
<1> QED
  BY <1>2, <1>3, <1>4, <1>5, <1>6 DEF LoopOK, t

\* The next slice goes out under the fence the pass prepared for, or the pass ends.
LEMMA SendNextOK ==
    ASSUME NEW s, LoopType(s), LoopFence(s, Fence), s.feed = None,
           s.walked # NoSource => AtOrAfter(s.walked, s.fence)
    PROVE  /\ LoopOK(SendNext(s)) /\ SameLink(s, SendNext(s))
           /\ SendNext(s).pc \in {"idle", "push"} /\ SendNext(s).pending = s.pending
<1> DEFINE t == [s EXCEPT !.pc = "push", !.sent = Batch(s.todo)]
<1>1. CASE DOMAIN s.todo = {} \/ ~s.share \/ ~Current(s)
  BY <1>1, RestOK DEF SendNext
<1>2. CASE ~(DOMAIN s.todo = {} \/ ~s.share \/ ~Current(s))
  <2>1. SendNext(s) = t
    BY <1>2 DEF SendNext
  <2>2. IsLoop(s) /\ s.todo \in Parcels /\ s.stale \in BOOLEAN
    BY DEF LoopType
  <2>3. IsLoop(t) /\ \A f \in LoopFields \ {"pc", "sent"} : t[f] = s[f]
    BY <2>2, Zenon DEF IsLoop
  <2>4. t.pc = "push" /\ t.sent = Batch(s.todo)
    BY <2>2, SMT DEF IsLoop, LoopFields
  <2>5. Batch(s.todo) \in Parcels /\ DOMAIN Batch(s.todo) \subseteq DOMAIN s.todo
    BY <2>2, BatchIsParcel
  <2> HIDE DEF t
  <2>6. SameBut(s, t, {"pc", "sent"})
    BY <2>3 DEF SameBut
  <2>7. LoopType(t)
    BY <2>4, <2>5, <2>6 DEF LoopType, SameBut, LoopFields, Requests
  <2>8. Runnable(s) /\ s.stale = FALSE
    BY <1>2, <2>2 DEF Current
  <2>9. LoopGate(t)
    BY <2>4, <2>5, <2>6, <2>8 DEF LoopGate, Waiting, Runnable, SameBut, LoopFields
  <2>10. LoopFence(t, Fence)
    BY <2>4, <2>6 DEF LoopFence, ConnFence, SameBut, LoopFields
  <2>11. SameLink(s, t) /\ t.pending = s.pending
    BY <2>6 DEF SameLink, SameBut, LoopFields
  <2> QED
    BY <2>1, <2>4, <2>7, <2>9, <2>10, <2>11 DEF LoopOK
<1> QED
  BY <1>1, <1>2

\* What is unstamped is sent.
LEMMA ExamineOK ==
    ASSUME NEW s, LoopType(s), LoopFence(s, Fence), NEW held, NEW own \in Holdings, s.feed = None,
           s.walked # NoSource => AtOrAfter(s.walked, s.fence)
    PROVE  LET t == Examine(s, held, own)
           IN  /\ LoopOK(t) /\ SameLink(s, t)
               /\ t.pc \in {"idle", "push"} /\ t.pending = s.pending
<1> DEFINE acked == IF s.full THEN [k \in Keys |-> IF own[k] = NoCopy THEN NoCopy ELSE s.acked[k]]
                    ELSE s.acked
           looked == IF s.full THEN Held(own) ELSE s.dirty \cap Held(own)
           t == [s EXCEPT !.acked = acked, !.wholly = s.full, !.full = FALSE, !.dirty = {}]
           S == {k \in looked : Unstamped(t, held, k, own[k])}
           todo == [k \in S |-> own[k]]
           u == [t EXCEPT !.todo = todo]
<1>1. Examine(s, held, own) = SendNext(u)
  BY DEF Examine
<1>2. IsLoop(s) /\ s.acked \in Holdings /\ s.full \in BOOLEAN
  BY DEF LoopType
<1>3. acked \in Holdings
  BY <1>2 DEF Holdings
<1>4. S \in SUBSET Keys /\ \A k \in S : own[k] \in Copies
  BY DEF Held, Holdings
<1>5. todo \in Parcels
  <2> HIDE DEF S
  <2> QED
    BY <1>4, ParcelOf
<1> HIDE DEF acked, todo
<1>6. IsLoop(t) /\ \A f \in LoopFields \ {"acked", "wholly", "full", "dirty"} : t[f] = s[f]
  BY <1>2, Zenon DEF IsLoop
<1>7. t.acked = acked /\ t.wholly = s.full /\ t.full = FALSE /\ t.dirty = {}
  BY <1>2, SMT DEF IsLoop, LoopFields
<1> HIDE DEF t
<1>8. IsLoop(u) /\ \A f \in LoopFields \ {"todo"} : u[f] = t[f]
  BY <1>6, Zenon DEF IsLoop
<1>9. u.todo = todo
  BY <1>6, SMT DEF IsLoop, LoopFields
<1> HIDE DEF u
<1>10. SameBut(s, u, {"acked", "wholly", "full", "dirty", "todo"})
  BY <1>6, <1>8 DEF SameBut
<1>11. u.acked = acked /\ u.wholly = s.full /\ u.full = FALSE /\ u.dirty = {}
  BY <1>7, <1>8 DEF LoopFields
<1>12. LoopType(u)
  BY <1>2, <1>3, <1>5, <1>9, <1>10, <1>11 DEF LoopType, SameBut, LoopFields
<1>13. /\ LoopFence(u, Fence) /\ u.feed = None
       /\ u.walked # NoSource => AtOrAfter(u.walked, u.fence)
  BY <1>10 DEF LoopFence, ConnFence, SameBut, LoopFields
<1>14. /\ LoopOK(SendNext(u)) /\ SameLink(u, SendNext(u))
       /\ SendNext(u).pc \in {"idle", "push"} /\ SendNext(u).pending = u.pending
  BY <1>12, <1>13, SendNextOK
<1>15. SameLink(s, u) /\ u.pending = s.pending
  BY <1>10 DEF SameLink, SameBut, LoopFields
<1> QED
  BY <1>1, <1>14, <1>15 DEF SameLink
\* The sources are prepared for the fence a push goes out under, or are
\* prepared now.
LEMMA PushUnderFenceOK ==
    ASSUME NEW c, NEW s, Ready(s), NEW held, NEW own \in Holdings,
           disk[c] \in Holdings, Fence \in Fences
    PROVE  LET t == PushUnderFence(c, s, held, own)
           IN  /\ LoopOK(t) /\ SameLink(s, t)
               /\ t.pc \in {"idle", "push", "prepare"} /\ t.pending = s.pending
<1> DEFINE fence == ConnFence(s)
           t == [s EXCEPT !.fence = fence]
<1>1. /\ LoopType(s) /\ LoopFence(s, Fence) /\ Runnable(s) /\ s.stale = FALSE
      /\ s.feed = None /\ DOMAIN s.sent \subseteq DOMAIN s.todo
      /\ s.pc \notin {"prepare", "push"} /\ IsLoop(s) /\ s.conn \in Links /\ s.source \in Fences
  BY DEF Ready, LoopType, Current, Runnable
<1>2. fence \in Fences /\ fence.epoch # 0 /\ AtOrAfter(Fence, fence)
  BY <1>1 DEF ConnFence, Links, Fences, LoopFence, Runnable
<1>3. SameBut(s, t, {"fence"})
  <2>1. IsLoop(t) /\ \A f \in LoopFields \ {"fence"} : t[f] = s[f]
    BY <1>1, Zenon DEF IsLoop
  <2> QED
    BY <2>1 DEF SameBut
<1>4. t.fence = fence
  BY <1>1, SMT DEF IsLoop, LoopFields
<1> HIDE DEF t
<1>5. LoopType(t)
  BY <1>1, <1>2, <1>3, <1>4 DEF LoopType, SameBut, LoopFields
<1>6. LoopFence(t, Fence) /\ t.feed = None
  BY <1>1, <1>3 DEF LoopFence, ConnFence, SameBut, LoopFields
<1>7. SameLink(s, t) /\ t.pending = s.pending
  BY <1>3 DEF SameLink, SameBut, LoopFields
<1>8. CASE s.source = fence
  <2>1. t.walked # NoSource => AtOrAfter(t.walked, t.fence)
    BY <1>1, <1>3, <1>4, <1>8 DEF LoopFence, SameBut, LoopFields
  <2>2. PushUnderFence(c, s, held, own) = Examine(t, held, own)
    BY <1>4, <1>8 DEF PushUnderFence, t
  <2>3. LET u == Examine(t, held, own)
        IN  /\ LoopOK(u) /\ SameLink(t, u)
            /\ u.pc \in {"idle", "push"} /\ u.pending = t.pending
    BY <1>5, <1>6, <2>1, ExamineOK
  <2> QED
    BY <1>7, <2>2, <2>3 DEF SameLink
<1>9. CASE s.source # fence /\ s.source.epoch # 0
  <2> DEFINE u == [t EXCEPT !.pc = "prepare", !.scan = disk[c], !.scanAt = Fence]
  <2>1. PushUnderFence(c, s, held, own) = u
    BY <1>4, <1>9 DEF PushUnderFence, t
  <2>2. IsLoop(t)
    BY <1>5 DEF LoopType
  <2>3. SameBut(t, u, {"pc", "scan", "scanAt"})
    <3>1. IsLoop(u) /\ \A f \in LoopFields \ {"pc", "scan", "scanAt"} : u[f] = t[f]
      BY <2>2, Zenon DEF IsLoop
    <3> QED
      BY <3>1 DEF SameBut
  <2>4. u.pc = "prepare" /\ u.scan = disk[c] /\ u.scanAt = Fence
    BY <2>2, SMT DEF IsLoop, LoopFields
  <2> HIDE DEF u
  <2>5. LoopType(u)
    BY <1>5, <2>3, <2>4 DEF LoopType, SameBut, LoopFields
  <2>6. LoopGate(u)
    BY <1>1, <1>3, <1>6, <2>3, <2>4 DEF LoopGate, Waiting, Runnable, Requests, SameBut, LoopFields
  <2>7. LoopFence(u, Fence)
    <3>1. /\ u.conn = s.conn /\ u.source = s.source /\ u.walked = s.walked /\ u.fence = fence
      BY <1>3, <1>4, <2>3 DEF SameBut, LoopFields
    <3>2. ConnFence(u) = fence
      BY <3>1 DEF ConnFence
    <3> QED
      BY <1>1, <1>2, <1>9, <2>4, <3>1, <3>2 DEF LoopFence
  <2>8. SameLink(t, u) /\ u.pending = t.pending
    BY <2>3 DEF SameLink, SameBut, LoopFields
  <2> QED
    BY <1>7, <2>1, <2>4, <2>5, <2>6, <2>7, <2>8 DEF LoopOK, SameLink
<1>10. CASE s.source # fence /\ s.source.epoch = 0
  <2> DEFINE u == [t EXCEPT !.source = fence, !.acked = NoCopies, !.full = TRUE]
  <2>1. PushUnderFence(c, s, held, own) = Examine(u, held, own)
    BY <1>4, <1>10 DEF PushUnderFence, t
  <2>2. IsLoop(t)
    BY <1>5 DEF LoopType
  <2>3. SameBut(t, u, {"source", "acked", "full"})
    <3>1. IsLoop(u) /\ \A f \in LoopFields \ {"source", "acked", "full"} : u[f] = t[f]
      BY <2>2, Zenon DEF IsLoop
    <3> QED
      BY <3>1 DEF SameBut
  <2>4. u.source = fence /\ u.acked = NoCopies /\ u.full = TRUE
    BY <2>2, SMT DEF IsLoop, LoopFields
  <2> HIDE DEF u
  <2>5. LoopType(u)
    BY <1>2, <1>5, <2>3, <2>4, NoCopiesHeld DEF LoopType, SameBut, LoopFields
  <2>6. /\ u.conn = s.conn /\ u.walked = s.walked /\ u.fence = fence /\ u.pc = s.pc
        /\ u.feed = None
    BY <1>3, <1>4, <1>6, <2>3 DEF SameBut, LoopFields
  <2>7. u.walked = NoSource
    BY <1>1, <1>10, <2>6 DEF LoopFence
  <2>8. LoopFence(u, Fence)
    <3>1. ConnFence(u) = fence
      BY <2>6 DEF ConnFence
    <3> QED
      BY <1>1, <1>2, <2>4, <2>6, <2>7, <3>1 DEF LoopFence
  <2>9. LET v == Examine(u, held, own)
        IN  /\ LoopOK(v) /\ SameLink(u, v)
            /\ v.pc \in {"idle", "push"} /\ v.pending = u.pending
    BY <2>5, <2>6, <2>7, <2>8, ExamineOK
  <2>10. SameLink(t, u) /\ u.pending = t.pending
    BY <2>3 DEF SameLink, SameBut, LoopFields
  <2> QED
    BY <1>7, <2>1, <2>9, <2>10 DEF SameLink
<1> QED
  BY <1>8, <1>9, <1>10

LEMMA StartPushOK ==
    ASSUME NEW c, NEW s, Ready(s), NEW held, NEW own \in Holdings,
           disk[c] \in Holdings, Fence \in Fences
    PROVE  LET t == StartPush(c, s, held, own)
           IN  /\ LoopOK(t) /\ SameLink(s, t)
               /\ t.pc \in {"idle", "push", "prepare", "status"} /\ t.pending = s.pending
               /\ c \notin Replicating => t.pc \in {"idle", "status"}
<1>1. CASE ~s.share
  BY <1>1, RestOK DEF StartPush, Ready
<1>2. CASE s.share /\ c \in Replicating
  BY <1>2, PushUnderFenceOK DEF StartPush
<1>3. CASE s.share /\ c \notin Replicating
  <2> DEFINE t == [s EXCEPT !.pc = "status"]
  <2>1. StartPush(c, s, held, own) = t
    BY <1>3 DEF StartPush
  <2>2. /\ LoopType(s) /\ LoopFence(s, Fence) /\ Runnable(s) /\ s.stale = FALSE /\ IsLoop(s)
        /\ s.feed = None /\ DOMAIN s.sent \subseteq DOMAIN s.todo
    BY DEF Ready, Current, LoopType
  <2>3. SameBut(s, t, {"pc"})
    <3>1. IsLoop(t) /\ \A f \in LoopFields \ {"pc"} : t[f] = s[f]
      BY <2>2, Zenon DEF IsLoop
    <3> QED
      BY <3>1 DEF SameBut
  <2>4. t.pc = "status"
    BY <2>2, SMT DEF IsLoop, LoopFields
  <2> HIDE DEF t
  <2>5. LoopType(t)
    BY <2>2, <2>3, <2>4 DEF LoopType, SameBut, LoopFields, Requests
  <2>6. LoopGate(t)
    BY <2>2, <2>3, <2>4 DEF LoopGate, Waiting, Runnable, SameBut, LoopFields
  <2>7. LoopFence(t, Fence)
    BY <2>2, <2>3, <2>4 DEF LoopFence, ConnFence, SameBut, LoopFields
  <2>8. SameLink(s, t) /\ t.pending = s.pending
    BY <2>3 DEF SameLink, SameBut, LoopFields
  <2> QED
    BY <1>3, <2>1, <2>4, <2>5, <2>6, <2>7, <2>8 DEF LoopOK
<1> QED
  BY <1>1, <1>2, <1>3

\* A pass begins at the replica's changes, at its snapshot, or at the status.
LEMMA StartPassOK ==
    ASSUME NEW c, NEW s, LoopOK(s), s.pc = "idle", Runnable(s), NEW own \in Holdings,
           disk[c] \in Holdings, Fence \in Fences
    PROVE  LET t == StartPass(c, s, own)
           IN  /\ LoopOK(t) /\ SameLink(s, t)
               /\ t.pc \in {"idle", "status", "changes", "snapshot"}
<1> DEFINE t == [s EXCEPT !.pending = FALSE, !.reset = FALSE]
<1>1. IsLoop(s) /\ s.stale \in BOOLEAN
  BY DEF LoopOK, LoopType
<1>2. SameBut(s, t, {"pending", "reset"})
  <2>1. IsLoop(t) /\ \A f \in LoopFields \ {"pending", "reset"} : t[f] = s[f]
    BY <1>1, Zenon DEF IsLoop
  <2> QED
    BY <2>1 DEF SameBut
<1>3. t.pending = FALSE /\ t.reset = FALSE
  BY <1>1, SMT DEF IsLoop, LoopFields
<1>4. StartPass(c, s, own) = IF c \notin Replicating THEN StartPush(c, t, NoRows, own)
                             ELSE IF replica[c].seeded THEN [t EXCEPT !.pc = "changes"]
                             ELSE [t EXCEPT !.pc = "snapshot", !.seeding = TRUE]
  BY DEF StartPass
<1> HIDE DEF t
<1>5. LoopType(t)
  BY <1>2, <1>3 DEF LoopOK, LoopType, SameBut, LoopFields
<1>6. LoopFence(t, Fence)
  BY <1>2 DEF LoopOK, LoopFence, ConnFence, SameBut, LoopFields
<1>7. SameLink(s, t) /\ Runnable(t)
  BY <1>2 DEF SameLink, SameBut, LoopFields, Runnable
<1>8. t.stale = FALSE /\ t.feed = None /\ DOMAIN t.sent \subseteq DOMAIN t.todo /\ t.pc = "idle"
  BY <1>1, <1>2 DEF LoopOK, LoopGate, Waiting, SameBut, LoopFields
<1>9. CASE c \notin Replicating
  <2>1. Ready(t)
    BY <1>5, <1>6, <1>7, <1>8 DEF Ready, Current
  <2> DEFINE u == StartPush(c, t, NoRows, own)
  <2>2. LoopOK(u) /\ SameLink(t, u) /\ u.pc \in {"idle", "status"}
    BY <1>9, <2>1, StartPushOK
  <2>3. StartPass(c, s, own) = u
    BY <1>4, <1>9
  <2> HIDE DEF u
  <2> QED
    BY <1>7, <2>2, <2>3 DEF SameLink
<1>10. ASSUME NEW u, NEW pc \in {"changes", "snapshot"},
              SameBut(t, u, {"pc", "seeding"}), u.pc = pc, u.seeding \in BOOLEAN
       PROVE  LoopOK(u) /\ SameLink(s, u)
  <2>1. LoopType(u)
    BY <1>5, <1>10 DEF LoopType, SameBut, LoopFields, Requests
  <2>2. LoopGate(u)
    BY <1>7, <1>8, <1>10 DEF LoopGate, Waiting, Runnable, SameBut, LoopFields
  <2>3. LoopFence(u, Fence)
    BY <1>6, <1>10 DEF LoopFence, ConnFence, SameBut, LoopFields
  <2>4. SameLink(t, u)
    BY <1>10 DEF SameLink, SameBut, LoopFields
  <2> QED
    BY <1>7, <2>1, <2>2, <2>3, <2>4 DEF LoopOK, SameLink
<1>11. IsLoop(t)
  BY <1>5 DEF LoopType
<1>12. CASE c \in Replicating /\ replica[c].seeded
  <2> DEFINE u == [t EXCEPT !.pc = "changes"]
  <2>1. SameBut(t, u, {"pc", "seeding"})
    <3>1. IsLoop(u) /\ \A f \in LoopFields \ {"pc"} : u[f] = t[f]
      BY <1>11, Zenon DEF IsLoop
    <3> QED
      BY <3>1 DEF SameBut
  <2>2. u.pc = "changes" /\ u.seeding = t.seeding
    BY <1>11, SMT DEF IsLoop, LoopFields
  <2>3. t.seeding \in BOOLEAN
    BY <1>5 DEF LoopType
  <2>4. StartPass(c, s, own) = u
    BY <1>4, <1>12
  <2> HIDE DEF u
  <2> QED
    BY <1>10, <2>1, <2>2, <2>3, <2>4
<1>13. CASE c \in Replicating /\ ~replica[c].seeded
  <2> DEFINE u == [t EXCEPT !.pc = "snapshot", !.seeding = TRUE]
  <2>1. SameBut(t, u, {"pc", "seeding"})
    <3>1. IsLoop(u) /\ \A f \in LoopFields \ {"pc", "seeding"} : u[f] = t[f]
      BY <1>11, Zenon DEF IsLoop
    <3> QED
      BY <3>1 DEF SameBut
  <2>2. u.pc = "snapshot" /\ u.seeding = TRUE
    BY <1>11, SMT DEF IsLoop, LoopFields
  <2>3. StartPass(c, s, own) = u
    BY <1>4, <1>13
  <2> HIDE DEF u
  <2> QED
    BY <1>10, <2>1, <2>2, <2>3
<1> QED
  BY <1>9, <1>12, <1>13

\* After a pass another one, if a kick came meanwhile and the loops may run.
LEMMA AgainOK ==
    ASSUME NEW c, NEW s, LoopOK(s), NEW own \in Holdings, disk[c] \in Holdings, Fence \in Fences
    PROVE  LoopOK(Again(c, s, own)) /\ SameLink(s, Again(c, s, own)) /\ Continues(s, Again(c, s, own))
<1>1. CASE s.pc = "idle" /\ s.pending /\ Runnable(s)
  BY <1>1, StartPassOK DEF Again, Continues
<1>2. CASE ~(s.pc = "idle" /\ s.pending /\ Runnable(s))
  BY <1>2 DEF Again, Continues, SameLink
<1> QED
  BY <1>1, <1>2

LEMMA KickOK ==
    ASSUME NEW c, NEW s, LoopOK(s), NEW own \in Holdings, disk[c] \in Holdings, Fence \in Fences
    PROVE  LoopOK(Kick(c, s, own)) /\ SameLink(s, Kick(c, s, own)) /\ Continues(s, Kick(c, s, own))
<1> DEFINE t == [s EXCEPT !.pending = TRUE]
<1>1. IsLoop(s)
  BY DEF LoopOK, LoopType
<1>2. SameBut(s, t, {"pending"})
  <2>1. IsLoop(t) /\ \A f \in LoopFields \ {"pending"} : t[f] = s[f]
    BY <1>1, Zenon DEF IsLoop
  <2> QED
    BY <2>1 DEF SameBut
<1>3. t.pending = TRUE
  BY <1>1, SMT DEF IsLoop, LoopFields
<1>4. Kick(c, s, own) = Again(c, t, own)
  BY DEF Kick
<1> HIDE DEF t
<1>5. LoopOK(t)
  BY <1>2, <1>3 DEF LoopOK, LoopType, LoopGate, LoopFence, ConnFence, Waiting, Runnable,
                    SameBut, LoopFields
<1>6. SameLink(s, t) /\ t.pc = s.pc /\ t.feed = s.feed /\ t.stale = s.stale
  BY <1>2 DEF SameLink, SameBut, LoopFields
<1>7. /\ LoopOK(Again(c, t, own)) /\ SameLink(t, Again(c, t, own))
      /\ Continues(t, Again(c, t, own))
  BY <1>5, AgainOK
<1> QED
  BY <1>4, <1>6, <1>7 DEF SameLink, Continues

-------------------------------------------------------------------------------
(* A pass is stopped, or the loops start over *)

LEMMA AbortOK ==
    ASSUME NEW s, LoopOK(s)
    PROVE  LoopOK(Abort(s)) /\ SameLink(s, Abort(s)) /\ Stopped(s, Abort(s))
<1>1. CASE Waiting(s)
  <2> DEFINE t == [s EXCEPT !.stale = TRUE]
  <2>1. Abort(s) = t
    BY <1>1 DEF Abort
  <2>2. IsLoop(s)
    BY DEF LoopOK, LoopType
  <2>3. SameBut(s, t, {"stale"})
    <3>1. IsLoop(t) /\ \A f \in LoopFields \ {"stale"} : t[f] = s[f]
      BY <2>2, Zenon DEF IsLoop
    <3> QED
      BY <3>1 DEF SameBut
  <2>4. t.stale = TRUE
    BY <2>2, SMT DEF IsLoop, LoopFields
  <2> HIDE DEF t
  <2>5. LoopType(t)
    BY <2>3, <2>4 DEF LoopOK, LoopType, SameBut, LoopFields
  <2>6. LoopGate(t)
    BY <1>1, <2>3, <2>4 DEF LoopOK, LoopGate, Waiting, Requests, Runnable, SameBut, LoopFields
  <2>7. LoopFence(t, Fence)
    BY <2>3 DEF LoopOK, LoopFence, ConnFence, SameBut, LoopFields
  <2>8. SameLink(s, t) /\ t.pc = s.pc /\ t.feed = s.feed
    BY <2>3 DEF SameLink, SameBut, LoopFields
  <2> QED
    BY <1>1, <2>1, <2>4, <2>5, <2>6, <2>7, <2>8 DEF LoopOK, Stopped
<1>2. CASE ~Waiting(s)
  <2>1. LoopOK(Rest(s)) /\ SameLink(s, Rest(s)) /\ Rest(s).pc = "idle"
    BY RestOK DEF LoopOK
  <2> QED
    BY <1>2, <2>1 DEF Abort, Stopped
<1> QED
  BY <1>1, <1>2

\* Loops gated once stay as they were: no request is out, and a pass that
\* waits is stale already.
LEMMA SuspendOK ==
    ASSUME NEW s, LoopOK(s)
    PROVE  LET t == Suspend(s)
           IN  /\ LoopOK(t) /\ Stopped(s, t)
               /\ t.suspended = TRUE /\ t.conn = s.conn /\ t.caughtUp = s.caughtUp
<1>1. CASE s.suspended
  <2>1. Suspend(s) = s
    BY <1>1 DEF Suspend
  <2>2. s.pc \notin Requests /\ (Waiting(s) => s.stale = TRUE) /\ s.suspended = TRUE
    BY <1>1 DEF LoopOK, LoopGate, LoopType, Runnable
  <2>3. ~Waiting(s) => s.pc = "idle"
    BY <2>2 DEF LoopOK, LoopType, Waiting
  <2> QED
    BY <2>1, <2>2, <2>3 DEF Stopped
<1>2. CASE ~s.suspended
  <2> DEFINE r == Abort(s)
             t == [r EXCEPT !.suspended = TRUE, !.reset = Waiting(s), !.pending = FALSE]
  <2>1. Suspend(s) = t
    BY <1>2 DEF Suspend
  <2>2. LoopOK(r) /\ SameLink(s, r) /\ Stopped(s, r)
    BY AbortOK
  <2> HIDE DEF r
  <2>3. IsLoop(r)
    BY <2>2 DEF LoopOK, LoopType
  <2>4. SameBut(r, t, {"suspended", "reset", "pending"})
    <3>1. IsLoop(t) /\ \A f \in LoopFields \ {"suspended", "reset", "pending"} : t[f] = r[f]
      BY <2>3, Zenon DEF IsLoop
    <3> QED
      BY <3>1 DEF SameBut
  <2>5. t.suspended = TRUE /\ t.reset = Waiting(s) /\ t.pending = FALSE
    <3> HIDE DEF Waiting
    <3> QED
      BY <2>3, SMT DEF IsLoop, LoopFields
  <2> HIDE DEF t
  <2>6. /\ t.pc = r.pc /\ t.stale = r.stale /\ t.conn = r.conn /\ t.feed = r.feed
        /\ t.caughtUp = r.caughtUp /\ t.sent = r.sent /\ t.todo = r.todo
    BY <2>4 DEF SameBut, LoopFields
  <2>7. LoopType(t)
    <3>1. Waiting(s) \in BOOLEAN
      BY DEF Waiting
    <3>2. t.reset \in BOOLEAN
      BY <2>5, <3>1, Zenon
    <3> QED
      BY <2>2, <2>4, <2>5, <3>2 DEF LoopOK, LoopType, SameBut, LoopFields
  <2>8. t.pc \notin Requests /\ (Waiting(t) => t.stale = TRUE)
    BY <2>2, <2>6 DEF Stopped, Requests, Waiting
  <2>9. LoopGate(t)
    BY <2>2, <2>6, <2>8 DEF LoopOK, LoopGate, Waiting
  <2>10. LoopFence(t, Fence)
    BY <2>2, <2>4 DEF LoopOK, LoopFence, ConnFence, SameBut, LoopFields
  <2>11. Stopped(s, t)
    BY <2>2, <2>6 DEF Stopped
  <2> QED
    BY <2>1, <2>2, <2>5, <2>6, <2>7, <2>9, <2>10, <2>11 DEF LoopOK, SameLink
<1> QED
  BY <1>1, <1>2

LEMMA DisconnectedOK ==
    ASSUME NEW s, LoopOK(s)
    PROVE  LoopOK(Disconnected(s)) /\ Stopped(s, Disconnected(s)) /\ Disconnected(s).conn = NoConn
<1> DEFINE r == Abort(s)
           t == [r EXCEPT !.conn = NoConn, !.pending = FALSE]
<1>1. Disconnected(s) = t
  BY DEF Disconnected
<1>2. LoopOK(r) /\ Stopped(s, r)
  BY AbortOK
<1> HIDE DEF r
<1>3. IsLoop(r)
  BY <1>2 DEF LoopOK, LoopType
<1>4. SameBut(r, t, {"conn", "pending"})
  <2>1. IsLoop(t) /\ \A f \in LoopFields \ {"conn", "pending"} : t[f] = r[f]
    BY <1>3, Zenon DEF IsLoop
  <2> QED
    BY <2>1 DEF SameBut
<1>5. t.conn = NoConn /\ t.pending = FALSE
  BY <1>3, SMT DEF IsLoop, LoopFields
<1> HIDE DEF t
<1>6. /\ t.pc = r.pc /\ t.stale = r.stale /\ t.feed = r.feed /\ t.sent = r.sent /\ t.todo = r.todo
      /\ t.suspended = r.suspended
  BY <1>4 DEF SameBut, LoopFields
<1>7. LoopType(t)
  BY <1>2, <1>4, <1>5 DEF LoopOK, LoopType, SameBut, LoopFields
<1>8. t.pc \notin Requests
  BY <1>2, <1>6 DEF Stopped, Requests, Waiting
<1>9. LoopGate(t)
  BY <1>2, <1>6, <1>8 DEF LoopOK, LoopGate, Waiting
<1>10. LoopFence(t, Fence)
  BY <1>2, <1>4, <1>5 DEF LoopOK, LoopFence, SameBut, LoopFields
<1>11. Stopped(s, t)
  BY <1>2, <1>6 DEF Stopped
<1> QED
  BY <1>1, <1>5, <1>7, <1>9, <1>10, <1>11 DEF LoopOK

\* After a rebuild a running pass goes on, and nothing counts as acknowledged,
\* prepared for or caught up with any more.
LEMMA ResyncedOK ==
    ASSUME NEW c, NEW s, LoopOK(s), NEW own \in Holdings, disk[c] \in Holdings, Fence \in Fences
    PROVE  LET t == Resynced(c, s, own)
           IN  LoopOK(t) /\ t.conn = s.conn /\ t.caughtUp = 0 /\ Continues(s, t)
<1> DEFINE source == [s.source EXCEPT !.generation = -1]
           r == [s EXCEPT !.reset = (s.pc # "idle"), !.suspended = FALSE, !.acked = NoCopies,
                          !.full = TRUE, !.source.generation = -1, !.caughtUp = 0,
                          !.seeding = FALSE]
<1>1. Resynced(c, s, own) = Kick(c, r, own)
  BY DEF Resynced
<1>2. IsLoop(s) /\ LoopType(s) /\ LoopGate(s) /\ LoopFence(s, Fence)
  BY DEF LoopOK, LoopType
<1>3. SameBut(s, r, {"reset", "suspended", "acked", "full", "source", "caughtUp", "seeding"})
  <2>1. /\ IsLoop(r)
        /\ \A f \in LoopFields \ {"reset", "suspended", "acked", "full", "source", "caughtUp",
                                  "seeding"} : r[f] = s[f]
    BY <1>2, Zenon DEF IsLoop
  <2> QED
    BY <2>1 DEF SameBut
<1>4. /\ r.reset = (s.pc # "idle") /\ r.suspended = FALSE /\ r.acked = NoCopies
      /\ r.full = TRUE /\ r.source = source /\ r.caughtUp = 0 /\ r.seeding = FALSE
  BY <1>2, SMT DEF IsLoop, LoopFields
<1> HIDE DEF r
<1>5. s.source \in Fences /\ s.walked \in Fences /\ s.scanAt \in Fences
  BY <1>2 DEF LoopType
<1>6. /\ source \in Fences /\ source.epoch = s.source.epoch
      /\ \A f \in Fences : AtOrAfter(f, s.source) => AtOrAfter(f, source)
  BY <1>5, LoweredFence DEF Fences
<1> HIDE DEF source
<1>7. LoopType(r)
  <2>1. r.reset \in BOOLEAN
    BY <1>4, Zenon
  <2>2. r.suspended \in BOOLEAN /\ r.full \in BOOLEAN /\ r.seeding \in BOOLEAN
    BY <1>4, Zenon
  <2>3. r.acked \in Holdings /\ r.source \in Fences
    BY <1>4, <1>6, NoCopiesHeld, Zenon
  <2>4. r.caughtUp \in Nat
    BY <1>4, SMT
  <2> QED
    BY <1>2, <1>3, <2>1, <2>2, <2>3, <2>4 DEF LoopType, SameBut, LoopFields
<1>8. LoopGate(r)
  BY <1>2, <1>3, <1>4 DEF LoopGate, Waiting, Runnable, SameBut, LoopFields
<1>9. LoopFence(r, Fence)
  <2>1. /\ r.conn = s.conn /\ r.walked = s.walked /\ r.pc = s.pc /\ r.fence = s.fence
        /\ r.scanAt = s.scanAt
    BY <1>3 DEF SameBut, LoopFields
  <2> QED
    BY <1>2, <1>4, <1>5, <1>6, <2>1 DEF LoopFence, ConnFence
<1>10. /\ LoopOK(Kick(c, r, own)) /\ SameLink(r, Kick(c, r, own))
       /\ Continues(r, Kick(c, r, own))
  BY <1>7, <1>8, <1>9, KickOK DEF LoopOK
<1>11. r.conn = s.conn /\ r.pc = s.pc /\ r.feed = s.feed /\ r.stale = s.stale
  BY <1>3 DEF SameBut, LoopFields
<1> QED
  BY <1>1, <1>4, <1>10, <1>11 DEF SameLink, Continues

-------------------------------------------------------------------------------
(* After a page *)

\* What a reply names of the Hub: a fence that a Hub at the fence `f` has reached.
Reached(page, f) ==
    /\ page.epoch \in Nat \ {0} /\ page.seq \in Nat /\ page.generation \in Nat
    /\ AtOrAfter(f, [epoch |-> page.epoch, generation |-> page.generation])

\* The drain goes on, or the pass pushes, or a newer deletion starts another.
LEMMA AfterPageOK ==
    ASSUME NEW c, NEW s, LoopType(s), LoopFence(s, Fence), s.feed = None,
           DOMAIN s.sent \subseteq DOMAIN s.todo, s.pc \notin {"prepare", "push"},
           NEW page, Reached(page, Fence), page.complete \in BOOLEAN,
           local[c] \in Holdings, disk[c] \in Holdings, Fence \in Fences
    PROVE  LET t == AfterPage(c, s, page)
           IN  /\ LoopOK(t) /\ t.pc # "feed"
               /\ t.suspended = s.suspended /\ (t.conn # NoConn => s.conn # NoConn)
               /\ t.caughtUp = s.caughtUp \/ (page.complete /\ t.caughtUp = page.seq)
<1> DEFINE same == s.conn.epoch = page.epoch
           conn == [s.conn EXCEPT !.epoch = page.epoch,
                                  !.seq = NumMax(page.seq, IF same THEN @ ELSE 0),
                                  !.generation = NumMax(page.generation, IF same THEN @ ELSE 0)]
           t == [s EXCEPT !.caughtUp = page.seq, !.conn = conn, !.seeding = FALSE]
           u == [s EXCEPT !.pc = "changes"]
           v == [t EXCEPT !.pending = TRUE]
           x == AfterPage(c, s, page)
<1>1. x = IF ~Current(s) THEN Rest(s)
          ELSE IF ~page.complete THEN u
          ELSE IF conn.generation > replica[c].generation THEN Rest(v)
          ELSE StartPush(c, t, replica[c].rows, local[c])
  BY DEF AfterPage
<1>2. IsLoop(s)
  BY DEF LoopType
<1> HIDE DEF x
<1>3. CASE ~Current(s)
  <2>1. LoopOK(Rest(s)) /\ SameLink(s, Rest(s)) /\ Rest(s).pc = "idle"
    BY RestOK
  <2>2. x = Rest(s)
    BY <1>1, <1>3
  <2> QED
    BY <2>1, <2>2 DEF SameLink, x
<1>4. ASSUME Current(s)
      PROVE  Runnable(s) /\ s.stale = FALSE /\ s.conn \in Links
  BY <1>4 DEF Current, Runnable, LoopType
<1>5. CASE Current(s) /\ ~page.complete
  <2>1. SameBut(s, u, {"pc"})
    <3>1. IsLoop(u) /\ \A f \in LoopFields \ {"pc"} : u[f] = s[f]
      BY <1>2, Zenon DEF IsLoop
    <3> QED
      BY <3>1 DEF SameBut
  <2>2. u.pc = "changes"
    BY <1>2, SMT DEF IsLoop, LoopFields
  <2>3. x = u
    BY <1>1, <1>5
  <2> HIDE DEF u
  <2>4. LoopType(u)
    BY <2>1, <2>2 DEF LoopType, SameBut, LoopFields, Requests
  <2>5. LoopGate(u)
    BY <1>4, <1>5, <2>1, <2>2 DEF LoopGate, Waiting, Runnable, SameBut, LoopFields
  <2>6. LoopFence(u, Fence)
    BY <2>1, <2>2 DEF LoopFence, ConnFence, SameBut, LoopFields
  <2>7. SameLink(s, u)
    BY <2>1 DEF SameLink, SameBut, LoopFields
  <2> QED
    BY <2>2, <2>3, <2>4, <2>5, <2>6, <2>7 DEF LoopOK, SameLink, x
<1>6. CASE Current(s) /\ page.complete
  <2>1. page.epoch \in Nat \ {0} /\ page.seq \in Nat /\ page.generation \in Nat
    BY DEF Reached
  <2> DEFINE q == NumMax(page.seq, IF same THEN s.conn.seq ELSE 0)
             g == NumMax(page.generation, IF same THEN s.conn.generation ELSE 0)
  <2>2. s.conn \in Links /\ s.conn.seq \in Nat /\ s.conn.generation \in Nat
    BY <1>4, <1>6 DEF Links
  <2>3. conn = [s.conn EXCEPT !.epoch = page.epoch, !.seq = q, !.generation = g]
    OBVIOUS
  <2>4. q \in Nat /\ g \in Nat
    BY <2>1, <2>2 DEF NumMax
  <2> HIDE DEF conn, q
  <2>5. conn \in Links /\ conn.epoch = page.epoch /\ conn.generation = g
    <3> HIDE DEF g
    <3> QED
      BY <2>1, <2>2, <2>3, <2>4 DEF Links
  <2>6. AtOrAfter(Fence, [epoch |-> conn.epoch, generation |-> conn.generation])
    <3>1. AtOrAfter(Fence, ConnFence(s))
      BY <1>4, <1>6 DEF LoopFence, Runnable
    <3>2. g = page.generation \/ (same /\ g = s.conn.generation)
      BY <2>1, <2>2 DEF NumMax
    <3> HIDE DEF g
    <3>3. CASE g = page.generation
      BY <2>5, <3>3 DEF Reached
    <3>4. CASE same /\ g = s.conn.generation
      BY <2>5, <3>1, <3>4 DEF ConnFence
    <3> QED
      BY <3>2, <3>3, <3>4
  <2> HIDE DEF g
  <2>7. SameBut(s, t, {"caughtUp", "conn", "seeding"})
    <3>1. IsLoop(t) /\ \A f \in LoopFields \ {"caughtUp", "conn", "seeding"} : t[f] = s[f]
      BY <1>2, Zenon DEF IsLoop
    <3> QED
      BY <3>1 DEF SameBut
  <2>8. t.caughtUp = page.seq /\ t.conn = conn /\ t.seeding = FALSE
    BY <1>2, SMT DEF IsLoop, LoopFields
  <2> HIDE DEF t
  <2>9. LoopType(t)
    BY <2>1, <2>5, <2>7, <2>8 DEF LoopType, SameBut, LoopFields
  <2>10. ConnFence(t) = [epoch |-> conn.epoch, generation |-> conn.generation]
    BY <2>8 DEF ConnFence
  <2>11. LoopFence(t, Fence)
    <3>1. /\ t.source = s.source /\ t.walked = s.walked /\ t.pc = s.pc
      BY <2>7 DEF SameBut, LoopFields
    <3> QED
      BY <2>6, <2>10, <3>1 DEF LoopFence
  <2>12. CASE conn.generation > replica[c].generation
    <3>1. IsLoop(t)
      BY <2>7 DEF SameBut
    <3>2. SameBut(t, v, {"pending"})
      <4>1. IsLoop(v) /\ \A f \in LoopFields \ {"pending"} : v[f] = t[f]
        BY <3>1, Zenon DEF IsLoop
      <4> QED
        BY <4>1 DEF SameBut
    <3>3. v.pending = TRUE
      BY <3>1, SMT DEF IsLoop, LoopFields
    <3>4. x = Rest(v)
      BY <1>1, <1>6, <2>12
    <3> HIDE DEF v
    <3>5. LoopType(v)
      BY <2>9, <3>2, <3>3 DEF LoopType, SameBut, LoopFields
    <3>6. LoopFence(v, Fence)
      BY <2>11, <3>2 DEF LoopFence, ConnFence, SameBut, LoopFields
    <3>7. LoopOK(Rest(v)) /\ SameLink(v, Rest(v)) /\ Rest(v).pc = "idle"
      BY <3>5, <3>6, RestOK
    <3>8. v.suspended = s.suspended /\ v.caughtUp = page.seq /\ s.conn # NoConn
      BY <1>4, <1>6, <2>7, <2>8, <3>2 DEF SameBut, LoopFields, Runnable
    <3> QED
      BY <1>6, <3>4, <3>7, <3>8 DEF SameLink, x
  <2>13. CASE ~(conn.generation > replica[c].generation)
    <3>1. x = StartPush(c, t, replica[c].rows, local[c])
      BY <1>1, <1>6, <2>13
    <3>2. /\ t.conn # NoConn /\ t.suspended = FALSE /\ t.degraded = FALSE /\ t.stale = FALSE
          /\ t.pc = s.pc /\ t.feed = None /\ t.sent = s.sent /\ t.todo = s.todo
          /\ t.suspended = s.suspended
      <4>1. NoConn # conn
        BY <2>5, SyncAssumption DEF Links
      <4> QED
        BY <1>4, <1>6, <2>7, <2>8, <4>1 DEF Runnable, SameBut, LoopFields, LoopType
    <3>3. Ready(t)
      BY <2>9, <2>11, <3>2 DEF Ready, Current, Runnable
    <3>4. /\ LoopOK(x) /\ SameLink(t, x) /\ x.pc \in {"idle", "push", "prepare", "status"}
      BY <3>1, <3>3, StartPushOK
    <3> QED
      BY <1>4, <1>6, <2>8, <3>2, <3>4 DEF SameLink, Runnable, x
  <2> QED
    BY <2>12, <2>13
<1> QED
  BY <1>3, <1>5, <1>6

-------------------------------------------------------------------------------
(* What the actions make of a loop *)

\* The Hub's fence only moves on.
LEMMA FenceLater ==
    ASSUME NEW s, LoopType(s), NEW f \in Fences, NEW g \in Fences, AtOrAfter(g, f), LoopFence(s, f)
    PROVE  LoopFence(s, g)
<1>1. s.source \in Fences /\ s.fence \in Fences
  BY DEF LoopType
<1>2. s.conn # NoConn => ConnFence(s) \in Fences
  BY DEF LoopType, ConnFence, Links, Fences
<1>3. s.conn # NoConn => AtOrAfter(g, ConnFence(s))
  BY <1>2, AtOrAfterTrans DEF LoopFence
<1>4. AtOrAfter(g, s.source)
  BY <1>1, AtOrAfterTrans DEF LoopFence
<1>5. s.pc = "prepare" => AtOrAfter(g, s.fence)
  BY <1>1, AtOrAfterTrans DEF LoopFence
<1> QED
  BY <1>3, <1>4, <1>5 DEF LoopFence

\* A new connection, a gate or what is left to look at leaves the pass alone.
LEMMA TouchedOK ==
    ASSUME NEW s, LoopOK(s), NEW t,
           SameBut(s, t, {"conn", "degraded", "malformed", "caughtUp", "full", "share", "dirty",
                          "scan", "pending"}),
           t.conn = NoConn \/ t.conn \in Links,
           t.degraded \in BOOLEAN, t.malformed \in BOOLEAN, t.caughtUp \in Nat, t.full \in BOOLEAN,
           t.share \in BOOLEAN, t.dirty \subseteq Keys, t.scan \in Holdings, t.pending \in BOOLEAN,
           t.conn # NoConn => AtOrAfter(Fence, ConnFence(t)),
           s.pc \in Requests => t.conn # NoConn /\ t.degraded = s.degraded
    PROVE  LoopOK(t) /\ t.pc = s.pc /\ t.feed = s.feed /\ t.stale = s.stale /\ t.suspended = s.suspended
<1>1. LoopType(t)
  BY DEF LoopOK, LoopType, SameBut, LoopFields
<1>2. LoopGate(t)
  BY DEF LoopOK, LoopGate, Waiting, Runnable, SameBut, LoopFields
<1>3. LoopFence(t, Fence)
  <2>1. /\ t.source = s.source /\ t.walked = s.walked /\ t.pc = s.pc /\ t.fence = s.fence
        /\ t.scanAt = s.scanAt
    BY DEF SameBut, LoopFields
  <2> QED
    BY <2>1 DEF LoopOK, LoopFence
<1>4. t.pc = s.pc /\ t.feed = s.feed /\ t.stale = s.stale /\ t.suspended = s.suspended
  BY DEF SameBut, LoopFields
<1> QED
  BY <1>1, <1>2, <1>3, <1>4 DEF LoopOK

\* The pass is over, whatever became of the loops' gates.
GivesUp(s, t) ==
    /\ LoopOK(t) /\ t.pc = "idle" /\ t.conn = s.conn /\ t.caughtUp = s.caughtUp
    /\ s.suspended => t.suspended

\* A pass that fails for now.
LEMMA GivenUp ==
    ASSUME NEW s, LoopType(s), LoopFence(s, Fence)
    PROVE  GivesUp(s, [Rest(s) EXCEPT !.pending = FALSE])
<1> DEFINE r == Rest(s)
           t == [r EXCEPT !.pending = FALSE]
<1>1. LoopOK(r) /\ SameLink(s, r) /\ r.pc = "idle"
  BY RestOK
<1> HIDE DEF r
<1>2. IsLoop(r)
  BY <1>1 DEF LoopOK, LoopType
<1>3. SameBut(r, t, {"pending"})
  <2>1. IsLoop(t) /\ \A f \in LoopFields \ {"pending"} : t[f] = r[f]
    BY <1>2, Zenon DEF IsLoop
  <2> QED
    BY <2>1 DEF SameBut
<1>4. t.pending = FALSE
  BY <1>2, SMT DEF IsLoop, LoopFields
<1> HIDE DEF t
<1>5. LoopOK(t)
  BY <1>1, <1>3, <1>4 DEF LoopOK, LoopType, LoopGate, LoopFence, ConnFence, Waiting, Runnable,
                          SameBut, LoopFields
<1>6. t.pc = "idle" /\ t.conn = s.conn /\ t.caughtUp = s.caughtUp /\ t.suspended = s.suspended
  BY <1>1, <1>3 DEF SameBut, LoopFields, SameLink
<1>7. GivesUp(s, t)
  BY <1>5, <1>6 DEF GivesUp
<1> QED
  BY <1>7 DEF t, r

LEMMA RestGivesUp ==
    ASSUME NEW s, LoopType(s), LoopFence(s, Fence)
    PROVE  GivesUp(s, Rest(s))
BY RestOK DEF GivesUp, SameLink

\* A recovery gates the loops.
LEMMA RecoverGivesUp ==
    ASSUME NEW s, NEW r, GivesUp(s, r)
    PROVE  GivesUp(s, Suspend(r))
<1> DEFINE t == Suspend(r)
<1>1. /\ LoopOK(t) /\ Stopped(r, t)
      /\ t.suspended = TRUE /\ t.conn = r.conn /\ t.caughtUp = r.caughtUp
  BY SuspendOK DEF GivesUp
<1> HIDE DEF t
<1>2. t.pc = "idle"
  BY <1>1 DEF Stopped, Waiting, GivesUp
<1>3. GivesUp(s, t)
  BY <1>1, <1>2 DEF GivesUp
<1> QED
  BY <1>3 DEF t

\* A malformed page ends in a recovery, or in loops shown as degraded.
LEMMA MalformedGivesUp ==
    ASSUME NEW s, LoopType(s), LoopFence(s, Fence)
    PROVE  LET t == [Rest(s) EXCEPT !.pending = FALSE, !.malformed = TRUE]
           IN  GivesUp(s, Suspend(t)) /\ GivesUp(s, [t EXCEPT !.degraded = TRUE])
<1> DEFINE r == Rest(s)
           t == [r EXCEPT !.pending = FALSE, !.malformed = TRUE]
           u == [t EXCEPT !.degraded = TRUE]
<1>1. LoopOK(r) /\ SameLink(s, r) /\ r.pc = "idle"
  BY RestOK
<1> HIDE DEF r
<1>2. IsLoop(r)
  BY <1>1 DEF LoopOK, LoopType
<1>3. SameBut(r, t, {"pending", "malformed"})
  <2>1. IsLoop(t) /\ \A f \in LoopFields \ {"pending", "malformed"} : t[f] = r[f]
    BY <1>2, Zenon DEF IsLoop
  <2> QED
    BY <2>1 DEF SameBut
<1>4. t.pending = FALSE /\ t.malformed = TRUE
  BY <1>2, SMT DEF IsLoop, LoopFields
<1> HIDE DEF t
<1>5. IsLoop(t)
  BY <1>3 DEF SameBut
<1>6. SameBut(t, u, {"degraded"})
  <2>1. IsLoop(u) /\ \A f \in LoopFields \ {"degraded"} : u[f] = t[f]
    BY <1>5, Zenon DEF IsLoop
  <2> QED
    BY <2>1 DEF SameBut
<1>7. u.degraded = TRUE
  BY <1>5, SMT DEF IsLoop, LoopFields
<1> HIDE DEF u
<1>8. LoopOK(t)
  <2>1. /\ IsLoop(t)
        /\ \A f \in LoopFields : f \notin {"pending", "malformed"} => t[f] = r[f]
    BY <1>3, <1>5 DEF SameBut
  <2>2. LoopType(t)
    BY <1>1, <1>4, <2>1 DEF LoopOK, LoopType, LoopFields
  <2>3. LoopGate(t)
    BY <1>1, <1>4, <2>1 DEF LoopOK, LoopGate, Waiting, Runnable, LoopFields
  <2>4. LoopFence(t, Fence)
    BY <1>1, <2>1 DEF LoopOK, LoopFence, ConnFence, LoopFields
  <2> QED
    BY <2>2, <2>3, <2>4 DEF LoopOK
<1>9. t.pc = "idle" /\ t.conn = s.conn /\ t.caughtUp = s.caughtUp /\ t.suspended = s.suspended
  BY <1>1, <1>3 DEF SameBut, LoopFields, SameLink
<1>10. GivesUp(s, Suspend(t))
  BY <1>8, <1>9, RecoverGivesUp DEF GivesUp
<1>11. u.pc = "idle" /\ u.conn = s.conn /\ u.caughtUp = s.caughtUp /\ u.suspended = s.suspended
  BY <1>6, <1>9 DEF SameBut, LoopFields
<1>12. LoopOK(u)
  <2>1. LoopType(u)
    BY <1>6, <1>7, <1>8 DEF LoopOK, LoopType, SameBut, LoopFields
  <2>2. LoopGate(u)
    BY <1>6, <1>8, <1>11 DEF LoopOK, LoopGate, Waiting, Requests, SameBut, LoopFields
  <2>3. LoopFence(u, Fence)
    BY <1>6, <1>8 DEF LoopOK, LoopFence, ConnFence, SameBut, LoopFields
  <2> QED
    BY <2>1, <2>2, <2>3 DEF LoopOK
<1>13. GivesUp(s, u)
  BY <1>11, <1>12 DEF GivesUp
<1> QED
  BY <1>10, <1>13 DEF u, t, r

\* A committed page is fed before the drain goes on.
LEMMA DrainOK ==
    ASSUME NEW s, LoopOK(s), s.pc \in {"snapshot", "feed"}, s.feed = None, Current(s),
           NEW pc \in {"feed", "changes", "snapshot"}
    PROVE  LET t == [s EXCEPT !.pc = pc]
           IN  /\ LoopOK(t) /\ SameLink(s, t)
               /\ t.pc = pc /\ t.feed = None /\ t.stale = FALSE
<1> DEFINE t == [s EXCEPT !.pc = pc]
<1>1. IsLoop(s) /\ Runnable(s) /\ s.stale = FALSE
  BY DEF LoopOK, LoopType, Current
<1>2. SameBut(s, t, {"pc"})
  <2>1. IsLoop(t) /\ \A f \in LoopFields \ {"pc"} : t[f] = s[f]
    BY <1>1, Zenon DEF IsLoop
  <2> QED
    BY <2>1 DEF SameBut
<1>3. t.pc = pc
  BY <1>1, SMT DEF IsLoop, LoopFields
<1> HIDE DEF t
<1>4. LoopType(t)
  BY <1>2, <1>3 DEF LoopOK, LoopType, SameBut, LoopFields, Requests
<1>5. LoopGate(t)
  BY <1>1, <1>2, <1>3 DEF LoopOK, LoopGate, Waiting, Runnable, SameBut, LoopFields
<1>6. LoopFence(t, Fence)
  BY <1>2, <1>3 DEF LoopOK, LoopFence, ConnFence, SameBut, LoopFields
<1>7. SameLink(s, t) /\ t.feed = None /\ t.stale = FALSE
  BY <1>1, <1>2 DEF SameLink, SameBut, LoopFields
<1> QED
  BY <1>3, <1>4, <1>5, <1>6, <1>7 DEF LoopOK, t

\* The boundary of a drain is set, and a page's changes are to be fed.
Bounded(s, n) == [s EXCEPT !.through = {n}]
Feeding(s, feed) == [s EXCEPT !.pc = "feed", !.feed = feed]

\* A page of changes sets the boundary of the drain, and brings what is fed.
LEMMA ThroughOK ==
    ASSUME NEW s, LoopOK(s), s.pc = "changes", NEW n \in Nat, NEW feed, FeedOK(feed)
    PROVE  LET t == Bounded(s, n)
               u == Feeding(t, feed)
           IN  /\ LoopType(t) /\ LoopFence(t, Fence) /\ t.feed = None /\ t.pc = "changes"
               /\ DOMAIN t.sent \subseteq DOMAIN t.todo /\ SameLink(s, t)
               /\ LoopOK(u) /\ SameLink(s, u) /\ u.pc = "feed" /\ u.feed = feed
<1> DEFINE t == [s EXCEPT !.through = {n}]
           u == [t EXCEPT !.pc = "feed", !.feed = feed]
<1>1. IsLoop(s) /\ s.stale = FALSE /\ Runnable(s)
  BY DEF LoopOK, LoopType, LoopGate, Waiting, Requests
<1>2. SameBut(s, t, {"through"})
  <2>1. IsLoop(t) /\ \A f \in LoopFields \ {"through"} : t[f] = s[f]
    BY <1>1, Zenon DEF IsLoop
  <2> QED
    BY <2>1 DEF SameBut
<1>3. t.through = {n}
  BY <1>1, SMT DEF IsLoop, LoopFields
<1> HIDE DEF t
<1>4. IsLoop(t)
  BY <1>2 DEF SameBut
<1>5. SameBut(t, u, {"pc", "feed"})
  <2>1. IsLoop(u) /\ \A f \in LoopFields \ {"pc", "feed"} : u[f] = t[f]
    BY <1>4, Zenon DEF IsLoop
  <2> QED
    BY <2>1 DEF SameBut
<1>6. u.pc = "feed" /\ u.feed = feed
  BY <1>4, SMT DEF IsLoop, LoopFields
<1> HIDE DEF u
<1>7. LoopType(t)
  BY <1>2, <1>3 DEF LoopOK, LoopType, SameBut, LoopFields
<1>8. LoopFence(t, Fence)
  BY <1>2 DEF LoopOK, LoopFence, ConnFence, SameBut, LoopFields
<1>9. /\ t.feed = None /\ t.pc = "changes" /\ DOMAIN t.sent \subseteq DOMAIN t.todo
      /\ SameLink(s, t) /\ t.stale = FALSE
  BY <1>1, <1>2 DEF LoopOK, LoopGate, SameBut, LoopFields, SameLink
<1>10. LoopType(u)
  BY <1>5, <1>6, <1>7 DEF LoopType, SameBut, LoopFields
<1>11. LoopGate(u)
  <2>1. u.suspended = FALSE
    BY <1>1, <1>2, <1>5 DEF Runnable, SameBut, LoopFields, LoopOK, LoopType
  <2> QED
    BY <1>5, <1>6, <1>9, <2>1 DEF LoopGate, Waiting, Requests, SameBut, LoopFields
<1>12. LoopFence(u, Fence)
  BY <1>5, <1>6, <1>8 DEF LoopFence, ConnFence, SameBut, LoopFields
<1>13. SameLink(s, u)
  BY <1>5, <1>9 DEF SameLink, SameBut, LoopFields
<1> QED
  BY <1>6, <1>7, <1>8, <1>9, <1>10, <1>11, <1>12, <1>13 DEF LoopOK, Bounded, Feeding, t, u

\* What was acknowledged of the keys that went is forgotten, and a change is fed.
Forgets(s, gone) == [s EXCEPT !.acked = [k \in Keys |-> IF k \in gone THEN NoCopy ELSE @[k]]]
FedTo(s, feed) == [s EXCEPT !.feed = feed]

\* A fed change forgets what was acknowledged of the keys it deleted; the
\* changes still to be fed wait their turn.
LEMMA ForgetOK ==
    ASSUME NEW s, LoopOK(s), s.pc = "feed", NEW gone, NEW feed, FeedOK(feed)
    PROVE  LET t == Forgets(s, gone)
               u == FedTo(t, feed)
           IN  /\ LoopOK(t) /\ SameLink(s, t) /\ t.pc = "feed" /\ t.stale = s.stale
               /\ LoopOK(u) /\ SameLink(s, u) /\ u.pc = "feed" /\ u.feed = feed
               /\ u.stale = s.stale
<1> DEFINE acked == [k \in Keys |-> IF k \in gone THEN NoCopy ELSE s.acked[k]]
           t == [s EXCEPT !.acked = [k \in Keys |-> IF k \in gone THEN NoCopy ELSE @[k]]]
           u == [t EXCEPT !.feed = feed]
<1>1. IsLoop(s) /\ s.acked \in Holdings
  BY DEF LoopOK, LoopType
<1>2. SameBut(s, t, {"acked"})
  <2>1. IsLoop(t) /\ \A f \in LoopFields \ {"acked"} : t[f] = s[f]
    BY <1>1, Zenon DEF IsLoop
  <2> QED
    BY <2>1 DEF SameBut
<1>3. t.acked = acked
  BY <1>1, SMT DEF IsLoop, LoopFields
<1>4. acked \in Holdings
  BY <1>1 DEF Holdings
<1> HIDE DEF t, acked
<1>5. IsLoop(t)
  BY <1>2 DEF SameBut
<1>6. SameBut(t, u, {"feed"})
  <2>1. IsLoop(u) /\ \A f \in LoopFields \ {"feed"} : u[f] = t[f]
    BY <1>5, Zenon DEF IsLoop
  <2> QED
    BY <2>1 DEF SameBut
<1>7. u.feed = feed
  BY <1>5, SMT DEF IsLoop, LoopFields
<1> HIDE DEF u
<1>8. LoopType(t)
  BY <1>2, <1>3, <1>4 DEF LoopOK, LoopType, SameBut, LoopFields
<1>9. LoopGate(t)
  BY <1>2 DEF LoopOK, LoopGate, Waiting, Runnable, SameBut, LoopFields
<1>10. LoopFence(t, Fence)
  BY <1>2 DEF LoopOK, LoopFence, ConnFence, SameBut, LoopFields
<1>11. SameLink(s, t) /\ t.pc = "feed" /\ t.stale = s.stale
  BY <1>2 DEF SameLink, SameBut, LoopFields
<1>12. LoopType(u)
  BY <1>6, <1>7, <1>8 DEF LoopType, SameBut, LoopFields
<1>13. SameLink(s, u) /\ u.pc = "feed" /\ u.stale = s.stale
  BY <1>6, <1>11 DEF SameLink, SameBut, LoopFields
<1>14. LoopGate(u)
  BY <1>6, <1>9, <1>13 DEF LoopGate, Waiting, Runnable, Requests, SameBut, LoopFields
<1>15. LoopFence(u, Fence)
  BY <1>6, <1>10 DEF LoopFence, ConnFence, SameBut, LoopFields
<1> QED
  BY <1>7, <1>8, <1>9, <1>10, <1>11, <1>12, <1>13, <1>14, <1>15 DEF LoopOK, Forgets, FedTo, t, u

\* The status a client without a replica reads is the fence it pushes under.
LEMMA StatusOK ==
    ASSUME NEW c, NEW s, LoopOK(s), s.pc = "status", NEW status, Reached(status, Fence),
           NEW held, NEW own \in Holdings, disk[c] \in Holdings, Fence \in Fences
    PROVE  LET t == [s EXCEPT !.conn.epoch = status.epoch, !.conn.seq = status.seq,
                              !.conn.generation = status.generation]
               u == PushUnderFence(c, t, held, own)
           IN  /\ LoopOK(u) /\ u.pc \in {"idle", "push", "prepare"}
               /\ u.caughtUp = s.caughtUp /\ u.suspended = s.suspended /\ s.conn # NoConn
<1> DEFINE conn == [s.conn EXCEPT !.epoch = status.epoch, !.seq = status.seq,
                                  !.generation = status.generation]
           t == [s EXCEPT !.conn.epoch = status.epoch, !.conn.seq = status.seq,
                          !.conn.generation = status.generation]
           u == PushUnderFence(c, t, held, own)
<1>1. IsLoop(s) /\ s.stale = FALSE /\ Runnable(s) /\ s.conn # NoConn /\ s.conn \in Links
  BY DEF LoopOK, LoopType, LoopGate, Waiting, Requests, Runnable
<1>2. status.epoch \in Nat \ {0} /\ status.seq \in Nat /\ status.generation \in Nat
  BY DEF Reached
<1>3. SameBut(s, t, {"conn"})
  <2>1. IsLoop(t) /\ \A f \in LoopFields \ {"conn"} : t[f] = s[f]
    BY <1>1, Zenon DEF IsLoop
  <2> QED
    BY <2>1 DEF SameBut
<1>4. t.conn = conn
  BY <1>1, SMT DEF IsLoop, LoopFields
<1>5. conn \in Links /\ conn.epoch = status.epoch /\ conn.generation = status.generation
  BY <1>1, <1>2 DEF Links
<1> HIDE DEF conn, t
<1>6. conn # NoConn
  BY <1>5, SyncAssumption DEF Links
<1>7. LoopType(t)
  BY <1>3, <1>4, <1>5 DEF LoopOK, LoopType, SameBut, LoopFields
<1>8. ConnFence(t) = [epoch |-> status.epoch, generation |-> status.generation]
  BY <1>4, <1>5 DEF ConnFence
<1>9. LoopFence(t, Fence)
  <2>1. t.source = s.source /\ t.walked = s.walked /\ t.pc = s.pc
    BY <1>3 DEF SameBut, LoopFields
  <2> QED
    BY <1>8, <2>1 DEF LoopOK, LoopFence, Reached
<1>10. Ready(t)
  BY <1>1, <1>3, <1>4, <1>6, <1>7, <1>9 DEF Ready, Current, Runnable, LoopOK, LoopGate,
                                            SameBut, LoopFields
<1>11. LoopOK(u) /\ SameLink(t, u) /\ u.pc \in {"idle", "push", "prepare"}
  BY <1>10, PushUnderFenceOK
<1> HIDE DEF u
<1>12. u.caughtUp = s.caughtUp /\ u.suspended = s.suspended
  BY <1>3, <1>11 DEF SameLink, SameBut, LoopFields
<1> QED
  BY <1>1, <1>11, <1>12 DEF u, t

\* The walk is over: it began at a fence no older than the one it was for.
LEMMA PreparedOK ==
    ASSUME NEW s, LoopOK(s), s.pc = "prepare", NEW held, NEW own \in Holdings
    PROVE  LET t == [s EXCEPT !.full = TRUE, !.walked = s.scanAt]
               u == Examine([t EXCEPT !.source = s.fence, !.acked = NoCopies], held, own)
           IN  /\ LoopOK(Rest(t)) /\ SameLink(s, Rest(t)) /\ Rest(t).pc = "idle"
               /\ LoopOK(u) /\ SameLink(s, u) /\ u.pc \in {"idle", "push"}
<1> DEFINE t == [s EXCEPT !.full = TRUE, !.walked = s.scanAt]
           v == [t EXCEPT !.source = s.fence, !.acked = NoCopies]
           u == Examine(v, held, own)
<1>1. IsLoop(s) /\ s.scanAt \in Fences /\ s.fence \in Fences /\ s.feed = None
  BY DEF LoopOK, LoopType, LoopGate
<1>2. SameBut(s, t, {"full", "walked"})
  <2>1. IsLoop(t) /\ \A f \in LoopFields \ {"full", "walked"} : t[f] = s[f]
    BY <1>1, Zenon DEF IsLoop
  <2> QED
    BY <2>1 DEF SameBut
<1>3. t.full = TRUE /\ t.walked = s.scanAt
  BY <1>1, SMT DEF IsLoop, LoopFields
<1> HIDE DEF t
<1>4. IsLoop(t)
  BY <1>2 DEF SameBut
<1>5. SameBut(t, v, {"source", "acked"})
  <2>1. IsLoop(v) /\ \A f \in LoopFields \ {"source", "acked"} : v[f] = t[f]
    BY <1>4, Zenon DEF IsLoop
  <2> QED
    BY <2>1 DEF SameBut
<1>6. v.source = s.fence /\ v.acked = NoCopies
  BY <1>4, SMT DEF IsLoop, LoopFields
<1> HIDE DEF v
<1>7. LoopType(t)
  BY <1>1, <1>2, <1>3 DEF LoopOK, LoopType, SameBut, LoopFields
<1>8. LoopType(v)
  BY <1>1, <1>5, <1>6, <1>7, NoCopiesHeld DEF LoopType, SameBut, LoopFields
<1>9. /\ s.source.epoch # 0 /\ s.fence.epoch # 0 /\ AtOrAfter(Fence, s.fence)
      /\ AtOrAfter(s.scanAt, s.fence) /\ AtOrAfter(s.scanAt, s.source)
      /\ AtOrAfter(Fence, s.source) /\ (s.conn # NoConn => AtOrAfter(Fence, ConnFence(s)))
  BY DEF LoopOK, LoopFence
<1>10. /\ t.conn = s.conn /\ t.source = s.source /\ t.pc = s.pc /\ t.fence = s.fence
       /\ t.scanAt = s.scanAt /\ t.feed = None
  BY <1>1, <1>2 DEF SameBut, LoopFields
<1>11. LoopFence(t, Fence)
  BY <1>3, <1>9, <1>10 DEF LoopFence, ConnFence
<1>12. /\ v.conn = s.conn /\ v.walked = s.scanAt /\ v.pc = s.pc /\ v.fence = s.fence
       /\ v.scanAt = s.scanAt /\ v.feed = None
  BY <1>3, <1>5, <1>10 DEF SameBut, LoopFields
<1>13. LoopFence(v, Fence)
  BY <1>6, <1>9, <1>12 DEF LoopFence, ConnFence
<1>14. LoopOK(Rest(t)) /\ SameLink(t, Rest(t)) /\ Rest(t).pc = "idle"
  BY <1>7, <1>11, RestOK
<1>15. LoopOK(u) /\ SameLink(v, u) /\ u.pc \in {"idle", "push"}
  BY <1>8, <1>9, <1>12, <1>13, ExamineOK
<1>16. SameLink(s, t) /\ SameLink(s, v)
  BY <1>2, <1>5 DEF SameLink, SameBut, LoopFields
<1> HIDE DEF u
<1>17. SameLink(s, Rest(t)) /\ SameLink(s, u)
  BY <1>14, <1>15, <1>16 DEF SameLink
<1> QED
  BY <1>14, <1>15, <1>17 DEF u, v, t

\* A refused push forgets what its sources were prepared for; a receipt
\* acknowledges the rows of its batch, and the next slice goes out.
LEMMA PushedOK ==
    ASSUME NEW s, LoopOK(s), s.pc = "push", Fence \in Fences
    PROVE  LET refused == [s EXCEPT !.source.generation = -1]
               taken == [s EXCEPT !.acked = [k \in Keys |->
                                               IF k \in DOMAIN s.sent THEN s.sent[k] ELSE @[k]],
                                  !.todo = [k \in DOMAIN s.todo \ DOMAIN s.sent |-> s.todo[k]]]
           IN  /\ LoopOK(Rest(refused)) /\ SameLink(s, Rest(refused)) /\ Rest(refused).pc = "idle"
               /\ LoopOK(SendNext(taken)) /\ SameLink(s, SendNext(taken))
               /\ SendNext(taken).pc \in {"idle", "push"}
<1> DEFINE source == [s.source EXCEPT !.generation = -1]
           refused == [s EXCEPT !.source.generation = -1]
           acked == [k \in Keys |-> IF k \in DOMAIN s.sent THEN s.sent[k] ELSE s.acked[k]]
           left == DOMAIN s.todo \ DOMAIN s.sent
           todo == [k \in left |-> s.todo[k]]
           taken == [s EXCEPT !.acked = [k \in Keys |->
                                           IF k \in DOMAIN s.sent THEN s.sent[k] ELSE @[k]],
                              !.todo = [k \in DOMAIN s.todo \ DOMAIN s.sent |-> s.todo[k]]]
<1>1. /\ IsLoop(s) /\ s.source \in Fences /\ s.acked \in Holdings /\ s.feed = None
      /\ s.sent \in Parcels /\ s.todo \in Parcels /\ s.walked \in Fences
  BY DEF LoopOK, LoopType, LoopGate
<1>2. SameBut(s, refused, {"source"})
  <2>1. IsLoop(refused) /\ \A f \in LoopFields \ {"source"} : refused[f] = s[f]
    BY <1>1, Zenon DEF IsLoop
  <2> QED
    BY <2>1 DEF SameBut
<1>3. refused.source = source
  BY <1>1, SMT DEF IsLoop, LoopFields
<1> HIDE DEF refused
<1>4. /\ source \in Fences /\ source.epoch = s.source.epoch
      /\ \A f \in Fences : AtOrAfter(f, s.source) => AtOrAfter(f, source)
  BY <1>1, LoweredFence DEF Fences
<1> HIDE DEF source
<1>5. SameBut(s, taken, {"acked", "todo"})
  <2>1. IsLoop(taken) /\ \A f \in LoopFields \ {"acked", "todo"} : taken[f] = s[f]
    BY <1>1, Zenon DEF IsLoop
  <2> QED
    BY <2>1 DEF SameBut
<1>6. taken.acked = acked /\ taken.todo = todo
  BY <1>1, SMT DEF IsLoop, LoopFields
<1> HIDE DEF taken
<1>7. acked \in Holdings
  BY <1>1, ParcelParts DEF Holdings
<1>8. todo \in Parcels
  <2>1. left \in SUBSET Keys /\ \A k \in left : s.todo[k] \in Copies
    BY <1>1, ParcelParts
  <2> HIDE DEF left
  <2> QED
    BY <2>1, ParcelOf
<1> HIDE DEF acked, todo
<1>9. LoopType(refused)
  BY <1>2, <1>3, <1>4 DEF LoopOK, LoopType, SameBut, LoopFields
<1>10. LoopFence(refused, Fence)
  <2>1. refused.conn = s.conn /\ refused.walked = s.walked /\ refused.pc = s.pc /\ refused.fence = s.fence
    BY <1>2 DEF SameBut, LoopFields
  <2> QED
    BY <1>1, <1>3, <1>4, <2>1 DEF LoopOK, LoopFence, ConnFence
<1>11. LoopType(taken)
  BY <1>5, <1>6, <1>7, <1>8 DEF LoopOK, LoopType, SameBut, LoopFields
<1>12. LoopFence(taken, Fence)
  BY <1>5 DEF LoopOK, LoopFence, ConnFence, SameBut, LoopFields
<1>13. taken.feed = None /\ (taken.walked # NoSource => AtOrAfter(taken.walked, taken.fence))
  BY <1>1, <1>5 DEF LoopOK, LoopFence, SameBut, LoopFields
<1>14. LoopOK(Rest(refused)) /\ SameLink(refused, Rest(refused)) /\ Rest(refused).pc = "idle"
  BY <1>9, <1>10, RestOK
<1>15. /\ LoopOK(SendNext(taken)) /\ SameLink(taken, SendNext(taken))
       /\ SendNext(taken).pc \in {"idle", "push"}
  BY <1>11, <1>12, <1>13, SendNextOK
<1>16. SameLink(s, refused) /\ SameLink(s, taken)
  BY <1>2, <1>5 DEF SameLink, SameBut, LoopFields
<1>17. SameLink(s, Rest(refused)) /\ SameLink(s, SendNext(taken))
  BY <1>14, <1>15, <1>16 DEF SameLink
<1> QED
  BY <1>14, <1>15, <1>17 DEF refused, taken, source


-------------------------------------------------------------------------------
(* The inductive invariant *)

ReplicaType(r) ==
    /\ r = [epoch |-> r.epoch, snapshot |-> r.snapshot, offset |-> r.offset,
            snapCursor |-> r.snapCursor, snapGeneration |-> r.snapGeneration,
            snapTotal |-> r.snapTotal, rows |-> r.rows, cursor |-> r.cursor,
            generation |-> r.generation, seeded |-> r.seeded]
    /\ r.epoch \in Nat /\ r.snapshot \in Nat /\ r.offset \in Nat /\ r.snapCursor \in Nat
    /\ r.snapGeneration \in Nat /\ r.snapTotal \in Nat
    /\ r.rows \in Corpus /\ r.cursor \in Nat /\ r.generation \in Nat /\ r.seeded \in BOOLEAN

\* The rows of a corpus that the pages before an offset brought.
PagesTo(pinned, n) == [k \in Keys |-> IF k \in Slice(pinned, 0, n) THEN pinned[k] ELSE NoRow]

\* A replica is a copy of one state of one archive, or the pages before its
\* offset of one such state, or empty.
ReplicaTrue(r, h) ==
    /\ r.seeded => /\ r.snapshot # 0
                   /\ r.epoch \in DOMAIN h /\ r.cursor \in DOMAIN h[r.epoch]
                   /\ h[r.epoch][r.cursor] = [rows |-> r.rows, generation |-> r.generation]
    /\ ~r.seeded => r.cursor = 0
    /\ ~r.seeded /\ r.snapshot = 0 => r.epoch = 0 /\ r.offset = 0 /\ r.rows = NoRows
    /\ ~r.seeded /\ r.snapshot # 0 =>
          /\ r.epoch \in DOMAIN h /\ r.snapCursor \in DOMAIN h[r.epoch]
          /\ r.rows = PagesTo(h[r.epoch][r.snapCursor].rows, r.offset)

\* A page of a snapshot is a page of one state an archive was in.
SnapshotPageTrue(page, h) ==
    /\ page.epoch \in DOMAIN h /\ page.seq \in DOMAIN h[page.epoch]
    /\ page.generation = h[page.epoch][page.seq].generation
    /\ page.snapshot \in Nat \ {0} /\ page.offset \in Nat /\ page.nextOffset \in Nat
    /\ page.total = Cardinality(Present(h[page.epoch][page.seq].rows))
    /\ page.complete = (page.nextOffset = page.total)
    /\ page.events = [k \in Slice(h[page.epoch][page.seq].rows, page.offset, page.nextOffset) |->
                        h[page.epoch][page.seq].rows[k]]

\* A page of changes is a run of the steps one archive went through.
ChangesPageTrue(page, h, f) ==
    /\ Reached(page, f) /\ page.complete \in BOOLEAN
    /\ page.epoch \in DOMAIN h
    /\ \E a, b \in Nat : DOMAIN page.changes = (a + 1) .. b
    /\ \A n \in DOMAIN page.changes :
          /\ IsChange(page.changes[n])
          /\ n \in DOMAIN h[page.epoch] /\ n - 1 \in DOMAIN h[page.epoch]
          /\ page.changes[n].generation = h[page.epoch][n].generation
          /\ h[page.epoch][n].rows = Applied(h[page.epoch][n - 1].rows, page.changes[n])

\* An answer is there only for the pass that awaits or feeds it, and is true.
ReplyTrue(s, r, answer, h, f) ==
    /\ answer # NoReply => s.pc \in Requests \cup {"feed"}
    /\ s.pc = "snapshot" /\ answer # NoReply /\ answer.status = "ok" =>
          SnapshotPageTrue(answer.body, h)
    /\ s.pc = "changes" /\ answer # NoReply /\ answer.status = "ok" =>
          ChangesPageTrue(answer.body, h, f)
    /\ s.pc = "status" /\ answer # NoReply => Reached(answer.body, f)
    /\ s.pc = "feed" /\ s.feed = None => SnapshotPageTrue(answer.body, h)
    /\ s.pc = "feed" /\ s.feed # None =>
          /\ ChangesPageTrue(answer.body, h, f)
          /\ ~s.stale /\ answer.body.complete => r.cursor = answer.body.seq

\* The drain counts as complete only up to the replica's own cursor.
LoopCaughtUp(s, r) == s.conn # NoConn /\ ~s.suspended => s.caughtUp <= r.cursor

ClientFine(s, r, answer, h, f) ==
    /\ LoopType(s) /\ LoopGate(s) /\ LoopFence(s, f)
    /\ ReplicaType(r) /\ ReplicaTrue(r, h)
    /\ LoopCaughtUp(s, r)
    /\ ReplyTrue(s, r, answer, h, f)

ClientOK(c) == ClientFine(sync[c], replica[c], reply[c], history, Fence)

StrayOK(q) == q.machine \in Clients /\ q.batch \in Parcels

\* One of everything per client, and holdings that are holdings.
PerClient ==
    /\ sync = [c \in Clients |-> sync[c]] /\ reply = [c \in Clients |-> reply[c]]
    /\ replica = [c \in Clients |-> replica[c]]
    /\ local \in [Clients -> Holdings] /\ disk \in [Clients -> Holdings]

SyncInv ==
    /\ PerClient
    /\ \A c \in Clients : ClientOK(c)
    /\ \A q \in strays : StrayOK(q)

-------------------------------------------------------------------------------
(* Pages of a pinned snapshot *)

LEMMA RankCounts ==
    ASSUME NEW corpus \in Corpus, NEW k \in Present(corpus)
    PROVE  Rank(corpus, k) \in 1 .. Cardinality(Present(corpus))
<1> DEFINE S == Present(corpus)
           T == {j \in S : corpus[j].seq <= corpus[k].seq}
<1>1. S \in SUBSET Keys /\ T \in SUBSET Keys /\ T \subseteq S
  BY DEF Present
<1>2. IsFiniteSet(S) /\ Cardinality(S) \in Nat /\ IsFiniteSet(T) /\ Cardinality(T) \in Nat
  BY <1>1, HubAssumption, FS_Subset, FS_CardinalityType
<1>3. Cardinality(T) <= Cardinality(S)
  <2> HIDE DEF S, T
  <2> QED
    BY <1>1, <1>2, FS_Subset
<1>4. k \in T
  <2>1. corpus[k] \in Rows
    BY DEF Present, Corpus
  <2> QED
    BY <2>1, RowParts
<1>5. Cardinality(T) # 0
  <2> HIDE DEF S, T
  <2> QED
    BY <1>2, <1>4, FS_EmptySet
<1> HIDE DEF S, T
<1>6. Cardinality(T) \in 1 .. Cardinality(S)
  BY <1>2, <1>3, <1>5
<1> QED
  BY <1>6 DEF S, T, Rank

\* Consecutive pages make up the pages before the later offset.
LEMMA PagesJoin ==
    ASSUME NEW corpus \in Corpus, NEW from \in Nat, NEW to \in Nat, from <= to
    PROVE  /\ Slice(corpus, 0, to) = Slice(corpus, 0, from) \cup Slice(corpus, from, to)
           /\ PagesTo(corpus, to) \in Corpus
<1>1. \A k \in Present(corpus) : Rank(corpus, k) \in Nat \ {0}
  <2> SUFFICES ASSUME NEW k \in Present(corpus) PROVE Rank(corpus, k) \in Nat \ {0}
    OBVIOUS
  <2>1. Rank(corpus, k) \in 1 .. Cardinality(Present(corpus))
    BY RankCounts
  <2>2. Cardinality(Present(corpus)) \in Nat
    BY KeysCount DEF Present
  <2> QED
    BY <2>1, <2>2
<1>2. Slice(corpus, 0, to) = Slice(corpus, 0, from) \cup Slice(corpus, from, to)
  BY <1>1 DEF Slice
<1>3. PagesTo(corpus, to) \in Corpus
  BY DEF PagesTo, Corpus
<1> QED
  BY <1>2, <1>3

\* The pages before the total are the whole.
LEMMA PagesAll ==
    ASSUME NEW corpus \in Corpus
    PROVE  PagesTo(corpus, Cardinality(Present(corpus))) = corpus
<1> DEFINE n == Cardinality(Present(corpus))
<1>1. \A k \in Present(corpus) : Rank(corpus, k) \in (0 + 1) .. n
  <2> SUFFICES ASSUME NEW k \in Present(corpus) PROVE Rank(corpus, k) \in (0 + 1) .. n
    OBVIOUS
  <2>1. Rank(corpus, k) \in 1 .. n
    BY RankCounts
  <2>2. 0 + 1 = 1
    OBVIOUS
  <2> QED
    BY <2>1, <2>2
<1> HIDE DEF n
<1>2. Slice(corpus, 0, n) = Present(corpus)
  BY <1>1, Zenon DEF Slice
<1>3. PagesTo(corpus, n) = corpus
  BY <1>2 DEF PagesTo, Present, Corpus
<1> QED
  BY <1>3 DEF n

LEMMA NoPages ==
    ASSUME NEW corpus
    PROVE  PagesTo(corpus, 0) = NoRows
BY DEF PagesTo, Slice, NoRows
\* The states of the archives, as the clients may rely on them.
StatesTrue(h) ==
    \A e \in DOMAIN h : \A n \in DOMAIN h[e] : h[e][n] \in ArchiveStates /\ n \in Nat /\ e \in Nat \ {0}

\* A page that fits continues the pages before it, and the last one completes
\* the copy (`applySnapshot`).
LEMMA SnapshotCommitted ==
    ASSUME NEW h, StatesTrue(h), NEW r, ReplicaType(r), ReplicaTrue(r, h),
           NEW page, SnapshotPageTrue(page, h), SnapshotFits(r, page)
    PROVE  LET t == SnapshotApplied(r, page)
           IN  /\ ReplicaType(t) /\ ReplicaTrue(t, h)
               /\ t.cursor >= r.cursor
<1> DEFINE pinned == h[page.epoch][page.seq].rows
           rows2 == [k \in Keys |-> IF k \in DOMAIN page.events THEN page.events[k] ELSE r.rows[k]]
           t == SnapshotApplied(r, page)
<1>1. /\ page.epoch \in DOMAIN h /\ page.seq \in DOMAIN h[page.epoch]
      /\ page.generation = h[page.epoch][page.seq].generation
      /\ page.snapshot \in Nat \ {0} /\ page.offset \in Nat /\ page.nextOffset \in Nat
      /\ page.total = Cardinality(Present(pinned))
      /\ page.complete = (page.nextOffset = page.total)
      /\ page.events = [k \in Slice(pinned, page.offset, page.nextOffset) |-> pinned[k]]
  BY DEF SnapshotPageTrue
<1>2. /\ page.epoch \in Nat \ {0} /\ page.seq \in Nat
      /\ h[page.epoch][page.seq] \in ArchiveStates
  BY <1>1 DEF StatesTrue
<1>3. /\ pinned \in Corpus /\ page.generation \in Nat
      /\ h[page.epoch][page.seq] = [rows |-> pinned, generation |-> page.generation]
  BY <1>1, <1>2 DEF ArchiveStates
<1>4. page.total \in Nat
  BY <1>1, KeysCount DEF Present
<1> HIDE DEF pinned
<1>5. /\ ~r.seeded /\ page.offset = r.offset /\ r.snapshot \in {0, page.snapshot}
      /\ page.nextOffset = page.offset + Cardinality(DOMAIN page.events)
      /\ r.epoch \in {0, page.epoch}
      /\ (r.snapshot # 0 => r.snapCursor = page.seq)
  BY DEF SnapshotFits
<1>6. /\ r.rows \in Corpus /\ r.cursor = 0
      /\ (r.snapshot = 0 => r.offset = 0 /\ r.rows = NoRows)
      /\ (r.snapshot # 0 => r.epoch \in DOMAIN h /\ r.rows = PagesTo(h[r.epoch][r.snapCursor].rows, r.offset))
  BY <1>5 DEF ReplicaTrue, ReplicaType
<1>7. r.rows = PagesTo(pinned, page.offset)
  <2>1. CASE r.snapshot = 0
    BY <1>5, <1>6, <2>1, NoPages
  <2>2. CASE r.snapshot # 0
    <3>1. r.epoch = page.epoch
      BY <1>5, <1>6, <2>2 DEF StatesTrue, ReplicaTrue
    <3> QED
      BY <1>5, <1>6, <2>2, <3>1 DEF pinned
  <2> QED
    BY <2>1, <2>2
<1>8. page.offset <= page.nextOffset
  <2>1. DOMAIN page.events \in SUBSET Keys
    BY <1>1 DEF Slice, Present
  <2>2. Cardinality(DOMAIN page.events) \in Nat
    BY <2>1, KeysCount
  <2> QED
    BY <1>1, <1>5, <2>2
<1>9. rows2 = PagesTo(pinned, page.nextOffset)
  <2>1. DOMAIN page.events = Slice(pinned, page.offset, page.nextOffset)
    BY <1>1
  <2>2. \A k \in DOMAIN page.events : page.events[k] = pinned[k]
    BY <1>1
  <2>3. Slice(pinned, 0, page.nextOffset) =
          Slice(pinned, 0, page.offset) \cup Slice(pinned, page.offset, page.nextOffset)
    BY <1>1, <1>3, <1>8, PagesJoin
  <2> QED
    BY <1>7, <2>1, <2>2, <2>3, Zenon DEF PagesTo
<1>10. rows2 \in Corpus
  BY <1>1, <1>3, <1>8, <1>9, PagesJoin
<1>11. page.complete => rows2 = pinned
  <2>1. PagesTo(pinned, page.total) = pinned
    BY <1>1, <1>3, PagesAll
  <2> QED
    BY <1>1, <1>9, <2>1
<1> HIDE DEF rows2
<1>12. t = [epoch |-> page.epoch, snapshot |-> page.snapshot, offset |-> page.nextOffset,
            snapCursor |-> page.seq, snapGeneration |-> page.generation,
            snapTotal |-> page.total, rows |-> rows2,
            cursor |-> IF page.complete THEN page.seq ELSE r.cursor,
            generation |-> IF page.complete THEN page.generation ELSE r.generation,
            seeded |-> page.complete]
  BY DEF SnapshotApplied, rows2
<1>13. /\ t.epoch = page.epoch /\ t.snapshot = page.snapshot /\ t.offset = page.nextOffset
       /\ t.snapCursor = page.seq /\ t.rows = rows2
       /\ t.cursor = (IF page.complete THEN page.seq ELSE 0)
       /\ t.generation = (IF page.complete THEN page.generation ELSE r.generation)
       /\ t.seeded = page.complete
  BY <1>6, <1>12
<1>14. page.complete \in BOOLEAN /\ r.generation \in Nat
  BY <1>1 DEF ReplicaType
<1>15. ReplicaType(t)
  <2> HIDE DEF t
  <2> QED
    BY <1>1, <1>2, <1>3, <1>4, <1>6, <1>10, <1>12, <1>14 DEF ReplicaType
<1> HIDE DEF t
<1>16. ReplicaTrue(t, h)
  <2>1. CASE page.complete
    BY <1>1, <1>3, <1>11, <1>13, <2>1 DEF ReplicaTrue
  <2>2. CASE ~page.complete
    BY <1>1, <1>9, <1>13, <2>2 DEF ReplicaTrue, pinned
  <2> QED
    BY <2>1, <2>2
<1>17. t.cursor >= r.cursor
  BY <1>2, <1>6, <1>13
<1> QED
  BY <1>15, <1>16, <1>17 DEF t

\* The changes of a page that are new, up to the last of them.
LEMMA NewsRun ==
    ASSUME NEW r, NEW page, r.cursor \in Nat, NEW a \in Nat, NEW b \in Nat,
           DOMAIN page.changes = (a + 1) .. b
    PROVE  /\ News(r, page) = {} => LastOf(r, page) = r.cursor
           /\ News(r, page) # {} => LastOf(r, page) \in News(r, page) /\ LastOf(r, page) > r.cursor
<1>1. CASE News(r, page) = {}
  BY <1>1 DEF LastOf
<1>2. CASE News(r, page) # {}
  <2>1. b \in News(r, page) /\ \A p \in News(r, page) : p <= b
    BY <1>2 DEF News
  <2>2. LastOf(r, page) = CHOOSE n \in News(r, page) : \A p \in News(r, page) : p <= n
    BY <1>2 DEF LastOf
  <2>3. LastOf(r, page) \in News(r, page)
    BY <2>1, <2>2
  <2> QED
    BY <1>2, <2>3 DEF News
<1> QED
  BY <1>1, <1>2

\* Changes that fit lead the copy to a later state of the same archive
\* (`applyChanges`), and what they bring the engine are rows.
LEMMA ChangesCommitted ==
    ASSUME NEW h, StatesTrue(h), NEW r, ReplicaType(r), ReplicaTrue(r, h),
           NEW page, NEW f, ChangesPageTrue(page, h, f), ChangesFit(r, page)
    PROVE  /\ LastOf(r, page) \in Nat /\ LastOf(r, page) >= r.cursor
           /\ News(r, page) # {} =>
                LET t == ChangesApplied(r, page)
                IN  /\ ReplicaType(t) /\ ReplicaTrue(t, h)
                    /\ t.cursor = LastOf(r, page) /\ t.cursor > r.cursor
                    /\ t.seeded /\ t.epoch = r.epoch
                    /\ FeedOK(FeedOf(r, page)) /\ FeedOf(r, page) # None
<1> DEFINE last == LastOf(r, page)
           news == News(r, page)
           st == h[page.epoch]
<1>1. PICK a \in Nat, b \in Nat : DOMAIN page.changes = (a + 1) .. b
  BY DEF ChangesPageTrue
<1>2. /\ r.cursor \in Nat /\ r.rows \in Corpus /\ r.generation \in Nat
      /\ page.epoch = r.epoch /\ r.seeded /\ news = (r.cursor + 1) .. last
  BY DEF ReplicaType, ChangesFit
<1>3. (news = {} => last = r.cursor) /\ (news # {} => last \in news /\ last > r.cursor)
  BY <1>1, <1>2, NewsRun
<1>4. news \subseteq DOMAIN page.changes /\ DOMAIN page.changes \subseteq Nat
  BY <1>1 DEF News
<1>5. last \in Nat /\ last >= r.cursor
  <2> HIDE DEF last, news
  <2>1. CASE news = {}
    BY <1>2, <1>3, <2>1
  <2>2. CASE news # {}
    BY <1>2, <1>3, <1>4, <2>2
  <2> QED
    BY <2>1, <2>2
<1>6. /\ r.cursor \in DOMAIN st
      /\ st[r.cursor] = [rows |-> r.rows, generation |-> r.generation]
      /\ r.snapshot # 0 /\ r.epoch \in DOMAIN h
  BY <1>2 DEF ReplicaTrue
<1>7. \A n \in news : /\ IsChange(page.changes[n]) /\ n \in DOMAIN st
                      /\ page.changes[n].generation = st[n].generation
                      /\ st[n].rows = Applied(st[n - 1].rows, page.changes[n])
  BY <1>4 DEF ChangesPageTrue
<1> HIDE DEF last
<1>8. ASSUME news # {}
      PROVE  /\ ReplicaType(ChangesApplied(r, page)) /\ ReplicaTrue(ChangesApplied(r, page), h)
             /\ ChangesApplied(r, page).cursor = last /\ ChangesApplied(r, page).seeded
             /\ ChangesApplied(r, page).epoch = r.epoch
  <2> DEFINE t == ChangesApplied(r, page)
             rows2 == Replay(r.rows, r.cursor, page.changes, last)[last]
  <2>1. \A n \in (r.cursor + 1) .. last : st[n].rows = Applied(st[n - 1].rows, page.changes[n])
    BY <1>2, <1>7
  <2>2. \A n \in r.cursor .. last :
            Replay(st[r.cursor].rows, r.cursor, page.changes, last)[n] = st[n].rows
    <3> DEFINE from == r.cursor
               run == page.changes
    <3>1. /\ from \in Nat /\ last \in Nat /\ from <= last
          /\ \A n \in (from + 1) .. last : st[n].rows = Applied(st[n - 1].rows, run[n])
      BY <1>2, <1>5, <2>1
    <3> HIDE DEF st, from, run
    <3>2. \A n \in from .. last : Replay(st[from].rows, from, run, last)[n] = st[n].rows
      BY <3>1, ReplayFollows, SMTT(30)
    <3> QED
      BY <3>2 DEF from, run
  <2>3. rows2 = st[last].rows
    <3>1. st[r.cursor].rows = r.rows
      BY <1>6
    <3>2. last \in r.cursor .. last
      BY <1>2, <1>5
    <3> HIDE DEF st
    <3> QED
      BY <2>2, <3>1, <3>2
  <2>4. last \in news /\ last # r.cursor
    BY <1>2, <1>3, <1>5, <1>8
  <2>5. st[last] \in ArchiveStates /\ last \in DOMAIN st
    BY <1>2, <1>6, <1>7, <2>4 DEF StatesTrue
  <2>6. page.changes[last].generation = st[last].generation
    BY <1>7, <2>4
  <2>7. st[last] = [rows |-> rows2, generation |-> st[last].generation] /\ rows2 \in Corpus
        /\ st[last].generation \in Nat
    BY <2>3, <2>5 DEF ArchiveStates
  <2> HIDE DEF rows2, st
  <2>8. t = [r EXCEPT !.rows = rows2, !.cursor = last,
                      !.generation = IF last = r.cursor THEN @ ELSE page.changes[last].generation]
    BY DEF ChangesApplied, rows2, last
  <2>9. t = [epoch |-> r.epoch, snapshot |-> r.snapshot, offset |-> r.offset,
             snapCursor |-> r.snapCursor, snapGeneration |-> r.snapGeneration,
             snapTotal |-> r.snapTotal, rows |-> rows2, cursor |-> last,
             generation |-> st[last].generation, seeded |-> r.seeded]
    BY <2>4, <2>6, <2>8 DEF ReplicaType
  <2> HIDE DEF t
  <2>10. ReplicaType(t)
    BY <1>5, <2>7, <2>9 DEF ReplicaType
  <2>11. /\ t.epoch = r.epoch /\ t.snapshot = r.snapshot /\ t.rows = rows2 /\ t.cursor = last
         /\ t.generation = st[last].generation /\ t.seeded = r.seeded
    BY <2>9
  <2>12. ReplicaTrue(t, h)
    <3>1. h[t.epoch][t.cursor] = [rows |-> t.rows, generation |-> t.generation]
      BY <1>2, <2>7, <2>11 DEF st
    <3>2. t.cursor \in DOMAIN h[t.epoch]
      BY <1>2, <2>5, <2>11 DEF st
    <3> QED
      BY <1>2, <1>6, <2>11, <3>1, <3>2 DEF ReplicaTrue
  <2> QED
    BY <1>2, <2>10, <2>11, <2>12 DEF t
<1>9. ASSUME news # {} PROVE FeedOK(FeedOf(r, page)) /\ FeedOf(r, page) # None
  <2> DEFINE feed == FeedOf(r, page)
             at == Replay(r.rows, r.cursor, page.changes, last)
             gone(n) == {k \in DOMAIN page.changes[n].deletes :
                           at[n - 1][k] # NoRow /\ at[n - 1][k].seq = page.changes[n].deletes[k]}
  <2>1. feed = [n \in news |-> [upserts |-> page.changes[n].upserts, deletes |-> gone(n)]]
    BY DEF FeedOf, last
  <2> HIDE DEF gone, feed, news
  <2>2. DOMAIN feed = news /\ feed = [n \in DOMAIN feed |-> feed[n]]
    BY <2>1
  <2>3. \A n \in news : feed[n].upserts = page.changes[n].upserts
    BY <2>1
  <2>4. \A n \in DOMAIN feed : /\ DOMAIN feed[n].upserts \subseteq Keys
                               /\ \A k \in DOMAIN feed[n].upserts : feed[n].upserts[k] \in Rows
    BY <1>7, <2>2, <2>3 DEF IsChange
  <2>5. DOMAIN feed \subseteq Nat
    BY <1>4, <2>2
  <2>6. FeedOK(feed)
    BY <2>2, <2>4, <2>5 DEF FeedOK
  <2>7. feed # None
    BY <1>9, <2>2 DEF None
  <2> QED
    BY <2>6, <2>7 DEF feed
<1> QED
  BY <1>3, <1>5, <1>8, <1>9 DEF last

-------------------------------------------------------------------------------
(* The Hub moves on *)

Grows(h, h2) ==
    \A e \in DOMAIN h : /\ e \in DOMAIN h2
                        /\ \A n \in DOMAIN h[e] : n \in DOMAIN h2[e] /\ h2[e][n] = h[e][n]

\* A step of the Hub, or none, seen from its clients.
HubMoves ==
    /\ HubInv /\ TimelineInv
    /\ HubInv' /\ TimelineInv'
    /\ HistoryGrows

\* The Hub's fence, and what it says of the states before it.
HubTrue ==
    /\ Fence \in Fences /\ Fence.epoch \in Nat \ {0}
    /\ epoch \in Nat /\ cursor \in Nat
    /\ DOMAIN history = 1 .. epoch /\ DOMAIN history[epoch] = 0 .. cursor
    /\ StatesTrue(history)
    /\ \A e \in DOMAIN history : \A n \in DOMAIN history[e] :
          AtOrAfter(Fence, [epoch |-> e, generation |-> history[e][n].generation])

LEMMA HubFence == HubInv /\ TimelineInv => HubTrue
<1> SUFFICES ASSUME HubInv, TimelineInv PROVE HubTrue
  OBVIOUS
<1>1. /\ epoch \in Nat \ {0} /\ generation \in Nat /\ cursor \in Nat
      /\ DOMAIN history = 1 .. epoch /\ DOMAIN history[epoch] = 0 .. cursor
      /\ history[epoch][cursor] = [rows |-> rows, generation |-> generation]
  <2>1. /\ epoch \in 1 .. MaxEpoch /\ epoch \in Nat /\ cursor \in Nat /\ generation \in Nat
        /\ history = [e \in 1 .. epoch |-> history[e]]
        /\ DOMAIN history[epoch] = 0 .. cursor
        /\ history[epoch][cursor] = [rows |-> rows, generation |-> generation]
    BY HubTypes
  <2>2. DOMAIN history = 1 .. epoch
    BY <2>1, Zenon
  <2> QED
    BY <2>1, <2>2, HubAssumption
<1>2. Fence \in Fences /\ Fence.epoch = epoch /\ Fence.generation = generation
  BY <1>1 DEF Fence, Fences
<1>3. StatesTrue(history)
  <2> SUFFICES ASSUME NEW e \in 1 .. epoch, NEW n \in DOMAIN history[e]
               PROVE  history[e][n] \in ArchiveStates /\ n \in Nat
    BY <1>1 DEF StatesTrue
  <2>1. IsHistory(history[e])
    BY DEF TimelineInv, PastOK
  <2>2. PICK m \in Nat : /\ history[e] = [p \in 0 .. m |-> history[e][p]]
                         /\ \A p \in 0 .. m : history[e][p] \in ArchiveStates
    BY <2>1, Zenon DEF IsHistory
  <2>3. n \in 0 .. m
    BY <2>2, Zenon
  <2> QED
    BY <2>2, <2>3
<1>4. ASSUME NEW e \in DOMAIN history, NEW n \in DOMAIN history[e]
      PROVE  AtOrAfter(Fence, [epoch |-> e, generation |-> history[e][n].generation])
  <2>1. CASE e # epoch
    BY <1>1, <1>2, <2>1 DEF AtOrAfter
  <2>2. CASE e = epoch
    <3>1. n \in 0 .. cursor /\ cursor \in 0 .. cursor /\ n <= cursor
      BY <1>1, <2>2
    <3>2. history[epoch][n].generation <= history[epoch][cursor].generation
          /\ history[epoch][n].generation \in Nat
      BY <3>1 DEF TimelineInv, TimelineOK, StatesOK
    <3> QED
      BY <1>1, <1>2, <2>2, <3>2 DEF AtOrAfter
  <2> QED
    BY <2>1, <2>2
<1> QED
  BY <1>1, <1>2, <1>3, <1>4 DEF HubTrue

\* The fence never falls back.
LEMMA FenceMoves ==
    ASSUME HubMoves
    PROVE  /\ Fence \in Fences /\ Fence' \in Fences /\ AtOrAfter(Fence', Fence)
           /\ Grows(history, history')
<1>1. /\ Fence \in Fences /\ DOMAIN history = 1 .. epoch
      /\ epoch \in Nat /\ cursor \in Nat /\ DOMAIN history[epoch] = 0 .. cursor
      /\ history[epoch][cursor] = [rows |-> rows, generation |-> generation]
  BY HubFence, HubTypes DEF HubMoves, HubTrue
<1>2. HubTrue'
  BY HubFence, PTL DEF HubMoves
<1>3. /\ Fence' \in Fences /\ DOMAIN history' = 1 .. epoch' /\ epoch' \in Nat
      /\ DOMAIN history'[epoch'] = 0 .. cursor'
      /\ \A e \in DOMAIN history' : \A n \in DOMAIN history'[e] :
            AtOrAfter(Fence', [epoch |-> e, generation |-> history'[e][n].generation])
  BY <1>2 DEF HubTrue
<1>4. /\ epoch <= epoch'
      /\ \A e \in 1 .. epoch : \A n \in DOMAIN history[e] :
            n \in DOMAIN history'[e] /\ history'[e][n] = history[e][n]
  BY DEF HubMoves, HistoryGrows
<1>5. Grows(history, history')
  BY <1>1, <1>3, <1>4 DEF Grows
<1>6. AtOrAfter(Fence', Fence)
  <2>1. epoch \in 1 .. epoch \/ epoch = 0
    BY <1>1
  <2>2. epoch # 0
    BY HubTypes DEF HubMoves
  <2>3. epoch \in DOMAIN history' /\ cursor \in DOMAIN history'[epoch]
        /\ history'[epoch][cursor].generation = generation
    BY <1>1, <1>3, <1>4, <2>1, <2>2
  <2>4. AtOrAfter(Fence', [epoch |-> epoch, generation |-> generation])
    BY <1>3, <2>3
  <2> QED
    BY <2>4 DEF Fence
<1> QED
  BY <1>1, <1>3, <1>5, <1>6

LEMMA ReachedLater ==
    ASSUME NEW page, NEW f \in Fences, NEW g \in Fences, AtOrAfter(g, f), Reached(page, f)
    PROVE  Reached(page, g)
<1>1. [epoch |-> page.epoch, generation |-> page.generation] \in Fences
  BY DEF Reached, Fences
<1> QED
  BY <1>1, AtOrAfterTrans DEF Reached

\* What is true of a client stays true of it while the Hub moves on.
LEMMA FineLater ==
    ASSUME NEW s, NEW r, NEW answer, NEW h, NEW h2, NEW f \in Fences, NEW g \in Fences,
           ClientFine(s, r, answer, h, f), Grows(h, h2), AtOrAfter(g, f)
    PROVE  ClientFine(s, r, answer, h2, g)
<1>1. LoopType(s) /\ LoopGate(s) /\ LoopFence(s, g)
  BY FenceLater DEF ClientFine
<1>2. ReplicaTrue(r, h2)
  <2>1. ReplicaTrue(r, h)
    BY DEF ClientFine
  <2> QED
    BY <2>1 DEF ReplicaTrue, Grows
<1>3. ASSUME NEW page, SnapshotPageTrue(page, h) PROVE SnapshotPageTrue(page, h2)
  <2>1. page.epoch \in DOMAIN h2 /\ page.seq \in DOMAIN h2[page.epoch]
        /\ h2[page.epoch][page.seq] = h[page.epoch][page.seq]
    BY <1>3 DEF SnapshotPageTrue, Grows
  <2> QED
    BY <1>3, <2>1, Zenon DEF SnapshotPageTrue
<1>4. ASSUME NEW page, ChangesPageTrue(page, h, f) PROVE ChangesPageTrue(page, h2, g)
  <2>1. Reached(page, g)
    BY <1>4, ReachedLater DEF ChangesPageTrue
  <2>2. page.epoch \in DOMAIN h /\ page.epoch \in DOMAIN h2
    BY <1>4 DEF ChangesPageTrue, Grows
  <2>3. \A n \in DOMAIN page.changes :
          /\ n \in DOMAIN h2[page.epoch] /\ n - 1 \in DOMAIN h2[page.epoch]
          /\ h2[page.epoch][n] = h[page.epoch][n] /\ h2[page.epoch][n - 1] = h[page.epoch][n - 1]
    BY <1>4, <2>2 DEF ChangesPageTrue, Grows
  <2> QED
    BY <1>4, <2>1, <2>2, <2>3, Zenon DEF ChangesPageTrue
<1>5. ReplyTrue(s, r, answer, h2, g)
  BY <1>3, <1>4, ReachedLater DEF ReplyTrue, ClientFine
<1> QED
  BY <1>1, <1>2, <1>5 DEF ClientFine

-------------------------------------------------------------------------------
(* A client acts *)

LEMMA NoAnswer ==
    ASSUME NEW t, t.pc # "feed", NEW r, NEW h, NEW f
    PROVE  ReplyTrue(t, r, NoReply, h, f)
BY DEF ReplyTrue

\* An answer still belongs to the pass it was asked for.
LEMMA AnswerKept ==
    ASSUME NEW s, NEW t, NEW r, NEW answer, NEW h, NEW f,
           ReplyTrue(s, r, answer, h, f), Continues(s, t)
    PROVE  ReplyTrue(t, r, answer, h, f)
<1>1. CASE s.pc # "idle"
  BY <1>1 DEF ReplyTrue, Continues
<1>2. CASE s.pc = "idle"
  <2>1. answer = NoReply /\ t.pc # "feed"
    BY <1>2 DEF ReplyTrue, Continues, Requests
  <2> QED
    BY <2>1, NoAnswer
<1> QED
  BY <1>1, <1>2

\* A pass that was stopped takes no answer, and whatever it feeds is stale.
LEMMA AnswerDropped ==
    ASSUME NEW s, NEW t, NEW r, NEW r2, NEW answer, NEW h, NEW f, LoopType(s),
           ReplyTrue(s, r, answer, h, f), Stopped(s, t)
    PROVE  ReplyTrue(t, r2, IF s.pc \in Requests THEN NoReply ELSE answer, h, f)
<1>1. CASE s.pc = "feed"
  BY <1>1 DEF ReplyTrue, Stopped, Waiting, Requests
<1>2. CASE s.pc # "feed"
  <2>1. t.pc # "feed"
    BY <1>2 DEF Stopped, Waiting
  <2>2. (IF s.pc \in Requests THEN NoReply ELSE answer) = NoReply
    BY <1>2 DEF ReplyTrue
  <2> QED
    BY <2>1, <2>2, NoAnswer
<1> QED
  BY <1>1, <1>2

LEMMA SameAt ==
    ASSUME NEW old, old = [d \in Clients |-> old[d]], NEW c \in Clients
    PROVE  old = [old EXCEPT ![c] = old[c]]
OBVIOUS

\* One client acts, the Hub moves or does not, and all is well for all.
LEMMA Acted ==
    ASSUME HubMoves, SyncInv, NEW c \in Clients, NEW s, NEW answer, NEW r,
           sync' = [sync EXCEPT ![c] = s], reply' = [reply EXCEPT ![c] = answer],
           replica' = [replica EXCEPT ![c] = r],
           local' \in [Clients -> Holdings], disk' \in [Clients -> Holdings],
           ClientFine(s, r, answer, history, Fence),
           \A q \in strays' : StrayOK(q)
    PROVE  SyncInv'
<1>1. /\ sync = [d \in Clients |-> sync[d]] /\ reply = [d \in Clients |-> reply[d]]
      /\ replica = [d \in Clients |-> replica[d]]
  BY DEF SyncInv, PerClient
<1>2. /\ sync' = [d \in Clients |-> sync'[d]] /\ reply' = [d \in Clients |-> reply'[d]]
      /\ replica' = [d \in Clients |-> replica'[d]]
      /\ sync'[c] = s /\ reply'[c] = answer /\ replica'[c] = r
      /\ \A d \in Clients : d # c => /\ sync'[d] = sync[d] /\ reply'[d] = reply[d]
                                     /\ replica'[d] = replica[d]
  BY <1>1
<1>3. /\ Fence \in Fences /\ Fence' \in Fences /\ AtOrAfter(Fence', Fence)
      /\ Grows(history, history')
  BY FenceMoves
<1>4. ASSUME NEW d \in Clients PROVE ClientFine(sync'[d], replica'[d], reply'[d], history', Fence')
  <2>1. ClientFine(sync'[d], replica'[d], reply'[d], history, Fence)
    <3>1. ClientFine(sync[d], replica[d], reply[d], history, Fence)
      BY DEF SyncInv, ClientOK
    <3> QED
      BY <1>2, <3>1
  <2> QED
    BY <1>3, <2>1, FineLater
<1>5. PerClient'
  BY <1>2 DEF PerClient
<1> QED
  BY <1>4, <1>5 DEF SyncInv, ClientOK, StrayOK

\* No client's loop, answer or replica changes.
LEMMA Still ==
    ASSUME HubMoves, SyncInv, UNCHANGED <<sync, reply, replica>>,
           local' \in [Clients -> Holdings], disk' \in [Clients -> Holdings],
           \A q \in strays' : StrayOK(q)
    PROVE  SyncInv'
<1>1. /\ Fence \in Fences /\ Fence' \in Fences /\ AtOrAfter(Fence', Fence)
      /\ Grows(history, history')
  BY FenceMoves
<1>2. ASSUME NEW d \in Clients PROVE ClientFine(sync'[d], replica'[d], reply'[d], history', Fence')
  <2>1. ClientFine(sync[d], replica[d], reply[d], history, Fence)
    BY DEF SyncInv, ClientOK
  <2> QED
    BY <1>1, <2>1, FineLater
<1> QED
  BY <1>2 DEF SyncInv, PerClient, ClientOK, StrayOK

\* What is known of a client before it acts.
LEMMA Acting ==
    ASSUME HubMoves, SyncInv, NEW c \in Clients
    PROVE  /\ LoopOK(sync[c]) /\ ReplicaType(replica[c]) /\ ReplicaTrue(replica[c], history)
           /\ LoopCaughtUp(sync[c], replica[c])
           /\ ReplyTrue(sync[c], replica[c], reply[c], history, Fence)
           /\ local[c] \in Holdings /\ disk[c] \in Holdings
           /\ local \in [Clients -> Holdings] /\ disk \in [Clients -> Holdings]
           /\ Fence \in Fences /\ Fence.epoch \in Nat \ {0}
           /\ StatesTrue(history)
           /\ sync = [sync EXCEPT ![c] = sync[c]] /\ reply = [reply EXCEPT ![c] = reply[c]]
           /\ replica = [replica EXCEPT ![c] = replica[c]]
           /\ \A q \in strays : StrayOK(q)
<1>1. ClientFine(sync[c], replica[c], reply[c], history, Fence)
  BY DEF SyncInv, ClientOK
<1>2. local[c] \in Holdings /\ disk[c] \in Holdings
  BY DEF SyncInv, PerClient
<1>3. Fence \in Fences /\ Fence.epoch \in Nat \ {0} /\ StatesTrue(history)
  BY HubFence DEF HubMoves, HubTrue
<1>4. /\ sync = [sync EXCEPT ![c] = sync[c]] /\ reply = [reply EXCEPT ![c] = reply[c]]
      /\ replica = [replica EXCEPT ![c] = replica[c]]
  BY SameAt DEF SyncInv, PerClient
<1> QED
  BY <1>1, <1>2, <1>3, <1>4 DEF SyncInv, PerClient, ClientFine, LoopOK

\* The same, in terms of what the pump's lemmas say.
LEMMA Acts ==
    ASSUME HubMoves, SyncInv, NEW c \in Clients, NEW s, NEW answer, NEW r,
           sync' = [sync EXCEPT ![c] = s], reply' = [reply EXCEPT ![c] = answer],
           replica' = [replica EXCEPT ![c] = r],
           local' \in [Clients -> Holdings], disk' \in [Clients -> Holdings],
           LoopOK(s), ReplicaType(r), ReplicaTrue(r, history),
           LoopCaughtUp(s, r), ReplyTrue(s, r, answer, history, Fence),
           \A q \in strays' : StrayOK(q)
    PROVE  SyncInv'
<1>1. ClientFine(s, r, answer, history, Fence)
  BY DEF ClientFine, LoopOK
<1> QED
  BY <1>1, Acted

\* The loop goes on, and its answer stays.
LEMMA GoesOn ==
    ASSUME HubMoves, SyncInv, NEW c \in Clients, NEW t,
           sync' = [sync EXCEPT ![c] = t], UNCHANGED <<reply, replica>>,
           local' \in [Clients -> Holdings], disk' \in [Clients -> Holdings],
           LoopOK(t), LoopCaughtUp(t, replica[c]), Continues(sync[c], t),
           \A q \in strays' : StrayOK(q)
    PROVE  SyncInv'
<1>1. /\ ReplicaType(replica[c]) /\ ReplicaTrue(replica[c], history)
      /\ ReplyTrue(sync[c], replica[c], reply[c], history, Fence)
      /\ reply = [reply EXCEPT ![c] = reply[c]] /\ replica = [replica EXCEPT ![c] = replica[c]]
  BY Acting
<1>2. ReplyTrue(t, replica[c], reply[c], history, Fence)
  BY <1>1, AnswerKept
<1> QED
  BY <1>1, <1>2, Acts

\* The loop has done with its answer.
LEMMA Consumes ==
    ASSUME HubMoves, SyncInv, NEW c \in Clients, NEW t,
           sync' = [sync EXCEPT ![c] = t], Consume(c), UNCHANGED replica,
           local' \in [Clients -> Holdings], disk' \in [Clients -> Holdings],
           LoopOK(t), LoopCaughtUp(t, replica[c]), t.pc # "feed",
           \A q \in strays' : StrayOK(q)
    PROVE  SyncInv'
<1>1. /\ ReplicaType(replica[c]) /\ ReplicaTrue(replica[c], history)
      /\ replica = [replica EXCEPT ![c] = replica[c]]
      /\ ReplyTrue(t, replica[c], NoReply, history, Fence)
      /\ reply' = [reply EXCEPT ![c] = NoReply]
  BY Acting, NoAnswer DEF Consume
<1> QED
  BY <1>1, Acts

\* A push its sender gave up on is still a machine's parcel.
LEMMA AbandonedOK ==
    ASSUME HubMoves, SyncInv, NEW c \in Clients, strays' = strays \cup Abandoned(c)
    PROVE  \A q \in strays' : StrayOK(q)
<1>1. sync[c].sent \in Parcels /\ \A q \in strays : StrayOK(q)
  BY Acting DEF LoopOK, LoopType
<1> QED
  BY <1>1 DEF Abandoned, StrayOK

\* The loop is stopped: no request of it is out any more.
LEMMA Halts ==
    ASSUME HubMoves, SyncInv, NEW c \in Clients, NEW t, NEW r,
           sync' = [sync EXCEPT ![c] = t], reply' = [reply EXCEPT ![c] = Drop(c)],
           replica' = [replica EXCEPT ![c] = r], UNCHANGED <<local, disk>>,
           LoopOK(t), Stopped(sync[c], t), LoopCaughtUp(t, r),
           ReplicaType(r), ReplicaTrue(r, history),
           strays' = strays \cup Abandoned(c)
    PROVE  SyncInv'
<1>1. /\ ReplyTrue(sync[c], replica[c], reply[c], history, Fence) /\ LoopType(sync[c])
      /\ local' \in [Clients -> Holdings] /\ disk' \in [Clients -> Holdings]
  BY Acting DEF LoopOK
<1>2. ReplyTrue(t, r, Drop(c), history, Fence)
  BY <1>1, AnswerDropped DEF Drop
<1>3. \A q \in strays' : StrayOK(q)
  BY AbandonedOK
<1> QED
  BY <1>1, <1>2, <1>3, Acts

\* The pass gives up.
LEMMA GaveUp ==
    ASSUME HubMoves, SyncInv, NEW c \in Clients, NEW t, GivesUp(sync[c], t),
           sync' = [sync EXCEPT ![c] = t], Consume(c), UNCHANGED <<replica, local, disk>>,
           \A q \in strays' : StrayOK(q)
    PROVE  SyncInv'
<1>1. /\ LoopCaughtUp(sync[c], replica[c])
      /\ local' \in [Clients -> Holdings] /\ disk' \in [Clients -> Holdings]
  BY Acting
<1>2. LoopOK(t) /\ LoopCaughtUp(t, replica[c]) /\ t.pc # "feed"
  BY <1>1 DEF GivesUp, LoopCaughtUp
<1> QED
  BY <1>1, <1>2, Consumes

LEMMA Recovers ==
    ASSUME HubMoves, SyncInv, NEW c \in Clients, Recover(c, Rest(sync[c])),
           Consume(c), UNCHANGED <<replica, local, disk>>, \A q \in strays' : StrayOK(q)
    PROVE  SyncInv'
<1>1. LoopType(sync[c]) /\ LoopFence(sync[c], Fence)
  BY Acting DEF LoopOK
<1>2. GivesUp(sync[c], Suspend(Rest(sync[c])))
  BY <1>1, RestGivesUp, RecoverGivesUp
<1>3. sync' = [sync EXCEPT ![c] = Suspend(Rest(sync[c]))]
  BY DEF Recover, SyncTo
<1> QED
  BY <1>2, <1>3, GaveUp

LEMMA MalformedKeeps ==
    ASSUME HubMoves, SyncInv, NEW c \in Clients, Malformed(c, sync[c]),
           Consume(c), UNCHANGED <<replica, local, disk>>, \A q \in strays' : StrayOK(q)
    PROVE  SyncInv'
<1> DEFINE t == [Rest(sync[c]) EXCEPT !.pending = FALSE, !.malformed = TRUE]
<1>1. LoopType(sync[c]) /\ LoopFence(sync[c], Fence)
  BY Acting DEF LoopOK
<1>2. GivesUp(sync[c], Suspend(t)) /\ GivesUp(sync[c], [t EXCEPT !.degraded = TRUE])
  BY <1>1, MalformedGivesUp
<1>3. \/ sync' = [sync EXCEPT ![c] = Suspend(t)]
      \/ sync' = [sync EXCEPT ![c] = [t EXCEPT !.degraded = TRUE]]
  BY DEF Malformed, Recover, SyncTo
<1> HIDE DEF t
<1>4. CASE sync' = [sync EXCEPT ![c] = Suspend(t)]
  BY <1>2, <1>4, GaveUp
<1>5. CASE sync' = [sync EXCEPT ![c] = [t EXCEPT !.degraded = TRUE]]
  BY <1>2, <1>5, GaveUp
<1> QED
  BY <1>3, <1>4, <1>5

-------------------------------------------------------------------------------
(* The Hub's answers *)

\* What is served of a pinned snapshot is a page of one state of the archive.
LEMMA ServeSnapshotKeeps ==
    ASSUME HubMoves, SyncInv, NEW c \in Clients, ServeSnapshot(c)
    PROVE  SyncInv'
<1> DEFINE s == sync[c]
           r == replica[c]
           id == IF r.snapshot = 0
                 THEN (CHOOSE p \in snapshots' : p.cursor = cursor).id ELSE r.snapshot
           page == SnapshotPage(snapshots', id, r.offset, PullLimit)
<1>1. /\ s.pc = "snapshot" /\ reply[c] = NoReply
      /\ UNCHANGED <<epoch, cursor, history>>
      /\ UNCHANGED <<sync, replica, local, disk, strays>>
  BY DEF ServeSnapshot, Asked, OthersUnchanged, archiveVars
<1>2. \/ /\ Pinned(snapshots', id, r.offset)
         /\ reply' = [reply EXCEPT ![c] = [status |-> "ok", body |-> page]]
      \/ reply' = [reply EXCEPT ![c] = [status |-> "gone", body |-> None]]
  BY Zenon DEF ServeSnapshot, Answer
<1>3. /\ LoopOK(s) /\ ReplicaType(r) /\ ReplicaTrue(r, history) /\ LoopCaughtUp(s, r)
      /\ local \in [Clients -> Holdings] /\ disk \in [Clients -> Holdings]
      /\ sync = [sync EXCEPT ![c] = s] /\ replica = [replica EXCEPT ![c] = r]
      /\ \A q \in strays : StrayOK(q)
  BY Acting
<1>4. ASSUME NEW answer, answer.status = "ok" => SnapshotPageTrue(answer.body, history)
      PROVE  ReplyTrue(s, r, answer, history, Fence)
  BY <1>1, <1>4 DEF ReplyTrue, Requests
<1>5. ASSUME Pinned(snapshots', id, r.offset) PROVE SnapshotPageTrue(page, history)
  <2> DEFINE snap == CHOOSE p \in snapshots' : p.id = id
             total == Cardinality(Present(snap.rows))
             next == IF total < r.offset + PullLimit THEN total ELSE r.offset + PullLimit
  <2>1. snap \in snapshots' /\ snap.id = id
    BY <1>5 DEF Pinned
  <2>2. page = [epoch |-> epoch, snapshot |-> id, seq |-> snap.cursor,
                generation |-> snap.generation, offset |-> r.offset, nextOffset |-> next,
                total |-> total,
                events |-> [k \in Slice(snap.rows, r.offset, next) |-> snap.rows[k]],
                complete |-> next = total]
    BY DEF SnapshotPage
  <2>3. SnapshotsOK'
    BY DEF HubMoves, HubInv
  <2> HIDE DEF snap, id
  <2>4. /\ snap.id \in 1 .. lastSnapshot' /\ lastSnapshot' \in Nat
        /\ snap.rows \in Corpus /\ snap.cursor \in 0 .. cursor
        /\ history[epoch][snap.cursor] = [rows |-> snap.rows, generation |-> snap.generation]
    BY <1>1, <2>1, <2>3 DEF SnapshotsOK
  <2>5. id \in Nat \ {0}
    BY <2>1, <2>4
  <2>6. total \in Nat
    BY <2>4, KeysCount DEF Present
  <2>7. r.offset \in Nat /\ next \in Nat
    BY <1>3, <2>6, SyncAssumption DEF ReplicaType
  <2>8. epoch \in DOMAIN history /\ snap.cursor \in DOMAIN history[epoch]
    <3>1. DOMAIN history = 1 .. epoch /\ epoch \in Nat \ {0} /\ DOMAIN history[epoch] = 0 .. cursor
      BY HubFence DEF HubMoves, HubTrue, Fence
    <3> QED
      BY <2>4, <3>1
  <2>9. history[epoch][snap.cursor].rows = snap.rows
        /\ history[epoch][snap.cursor].generation = snap.generation
    BY <2>4
  <2> DEFINE complete == next = total
             events == [k \in Slice(snap.rows, r.offset, next) |-> snap.rows[k]]
  <2>10. complete = (next = total)
         /\ events = [k \in Slice(snap.rows, r.offset, next) |-> snap.rows[k]]
         /\ total = Cardinality(Present(snap.rows))
    OBVIOUS
  <2> HIDE DEF total, next, complete, events, page
  <2>11. page = [epoch |-> epoch, snapshot |-> id, seq |-> snap.cursor,
                 generation |-> snap.generation, offset |-> r.offset, nextOffset |-> next,
                 total |-> total, events |-> events, complete |-> complete]
    BY <2>2 DEF complete, events
  <2>12. /\ page.epoch = epoch /\ page.snapshot = id /\ page.seq = snap.cursor
         /\ page.generation = snap.generation /\ page.offset = r.offset
         /\ page.nextOffset = next /\ page.total = total /\ page.events = events
         /\ page.complete = complete
    BY <2>11
  <2> DEFINE at == history[page.epoch][page.seq]
             pinned == at.rows
  <2>13. at = history[epoch][snap.cursor]
    BY <2>12
  <2>14. pinned = snap.rows /\ at.generation = snap.generation
    BY <2>9, <2>13
  <2> HIDE DEF pinned
  <2>15. page.events = [k \in Slice(pinned, page.offset, page.nextOffset) |-> pinned[k]]
    BY <2>10, <2>12, <2>14, Zenon
  <2>16. page.total = Cardinality(Present(pinned)) /\ page.complete = (page.nextOffset = page.total)
    BY <2>10, <2>12, <2>14, Zenon
  <2>17. page.epoch \in DOMAIN history /\ page.seq \in DOMAIN history[page.epoch]
    BY <2>8, <2>12, Zenon
  <2>18. page.snapshot \in Nat \ {0} /\ page.offset \in Nat /\ page.nextOffset \in Nat
    BY <2>5, <2>7, <2>12, Zenon
  <2> QED
    BY <2>12, <2>14, <2>15, <2>16, <2>17, <2>18, Zenon DEF SnapshotPageTrue, pinned
<1> HIDE DEF page, id, s, r
<1>6. CASE /\ Pinned(snapshots', id, r.offset)
           /\ reply' = [reply EXCEPT ![c] = [status |-> "ok", body |-> page]]
  <2>1. ReplyTrue(s, r, [status |-> "ok", body |-> page], history, Fence)
    BY <1>4, <1>5, <1>6
  <2> QED
    BY <1>1, <1>3, <1>6, <2>1, Acts
<1>7. CASE reply' = [reply EXCEPT ![c] = [status |-> "gone", body |-> None]]
  <2>1. ReplyTrue(s, r, [status |-> "gone", body |-> None], history, Fence)
    BY <1>4
  <2> QED
    BY <1>1, <1>3, <1>7, <2>1, Acts
<1> QED
  BY <1>2, <1>6, <1>7

\* What is served of the retained changes is a run of the archive's steps.
LEMMA ServeChangesKeeps ==
    ASSUME HubMoves, SyncInv, NEW c \in Clients, ServeChanges(c)
    PROVE  SyncInv'
<1> DEFINE s == sync[c]
           r == replica[c]
           through == IF s.through = {} THEN cursor ELSE CHOOSE n \in s.through : TRUE
           page == ChangesPage(r.cursor, through, ChangeLimit)
<1>1. /\ s.pc = "changes" /\ reply[c] = NoReply
      /\ UNCHANGED <<sync, replica, local, disk, strays>>
  BY DEF ServeChanges, Asked, OthersUnchanged
<1>2. \/ /\ PruneHistory /\ Servable(r.cursor, through)
         /\ reply' = [reply EXCEPT ![c] = [status |-> "ok", body |-> page]]
      \/ reply' = [reply EXCEPT ![c] = [status |-> "gone", body |-> None]]
  BY Zenon DEF ServeChanges, Answer
<1>3. /\ LoopOK(s) /\ ReplicaType(r) /\ ReplicaTrue(r, history) /\ LoopCaughtUp(s, r)
      /\ local \in [Clients -> Holdings] /\ disk \in [Clients -> Holdings]
      /\ sync = [sync EXCEPT ![c] = s] /\ replica = [replica EXCEPT ![c] = r]
      /\ \A q \in strays : StrayOK(q)
  BY Acting
<1>4. ASSUME NEW answer, answer.status = "ok" => ChangesPageTrue(answer.body, history, Fence)
      PROVE  ReplyTrue(s, r, answer, history, Fence)
  BY <1>1, <1>4 DEF ReplyTrue, Requests
<1>5. ASSUME PruneHistory, Servable(r.cursor, through) PROVE ChangesPageTrue(page, history, Fence)
  <2> DEFINE last == IF through < r.cursor + ChangeLimit THEN through ELSE r.cursor + ChangeLimit
             run == [n \in (r.cursor + 1) .. last |-> changes[n]]
             complete == last = through
  <2>1. page = [epoch |-> epoch, seq |-> through, generation |-> generation, floor |-> floor',
                changes |-> run, complete |-> complete]
    BY DEF ChangesPage
  <2>2. /\ cursor \in Nat /\ floor \in 0 .. cursor /\ epoch \in Nat \ {0} /\ generation \in Nat
        /\ DOMAIN history = 1 .. epoch /\ DOMAIN history[epoch] = 0 .. cursor
        /\ HubInv
    BY HubFence, HubTypes DEF HubMoves, HubTrue, Fence
  <2>3. floor' \in floor .. cursor
    BY <1>5, <2>2, PruneMovesFloor DEF PruneHistory
  <2>4. r.cursor \in Nat /\ s.through \subseteq Nat
    BY <1>3 DEF ReplicaType, LoopOK, LoopType
  <2>5. through \in Nat
    BY <2>2, <2>4
  <2>6. r.cursor >= floor' /\ r.cursor <= through /\ through <= cursor
    BY <1>5 DEF Servable
  <2> HIDE DEF through
  <2>7. last \in Nat /\ r.cursor <= last /\ last <= through
    BY <2>4, <2>5, <2>6, SyncAssumption
  <2>8. complete \in BOOLEAN
    OBVIOUS
  <2> HIDE DEF last, complete
  <2>9. \A n \in (r.cursor + 1) .. last :
          n \in (floor + 1) .. cursor /\ n \in 0 .. cursor /\ n - 1 \in 0 .. cursor
    BY <2>2, <2>3, <2>4, <2>5, <2>6, <2>7
  <2>10. \A n \in (floor + 1) .. cursor :
          /\ IsChange(changes[n])
          /\ changes[n].generation = history[epoch][n].generation
          /\ history[epoch][n].rows = Applied(history[epoch][n - 1].rows, changes[n])
    <3>1. HistoryOK(rows, cursor, generation, floor, changes, history[epoch])
      BY <2>2 DEF HubInv, FileOK
    <3>2. ChangesNamed(history[epoch], floor, cursor, changes)
      BY DEF HubMoves, TimelineInv, TimelineOK
    <3> QED
      BY <3>1, <3>2 DEF HistoryOK, ChangesNamed
  <2>11. DOMAIN run = (r.cursor + 1) .. last /\ \A n \in DOMAIN run : run[n] = changes[n]
    OBVIOUS
  <2> HIDE DEF run, page
  <2>12. /\ page.epoch = epoch /\ page.seq = through /\ page.generation = generation
         /\ page.changes = run /\ page.complete = complete
    BY <2>1
  <2>13. Reached(page, Fence)
    <3>1. Fence \in Fences /\ AtOrAfter(Fence, Fence)
      BY HubFence, AtOrAfterSelf DEF HubMoves, HubTrue
    <3> QED
      BY <2>2, <2>5, <2>12, <3>1 DEF Reached, Fence
  <2>14. \A n \in DOMAIN run :
           /\ IsChange(run[n])
           /\ n \in DOMAIN history[epoch] /\ n - 1 \in DOMAIN history[epoch]
           /\ run[n].generation = history[epoch][n].generation
           /\ history[epoch][n].rows = Applied(history[epoch][n - 1].rows, run[n])
    BY <2>2, <2>9, <2>10, <2>11
  <2> QED
    BY <2>2, <2>4, <2>7, <2>8, <2>11, <2>12, <2>13, <2>14 DEF ChangesPageTrue
<1> HIDE DEF page, through, s, r
<1>6. CASE /\ PruneHistory /\ Servable(r.cursor, through)
           /\ reply' = [reply EXCEPT ![c] = [status |-> "ok", body |-> page]]
  <2>1. ReplyTrue(s, r, [status |-> "ok", body |-> page], history, Fence)
    BY <1>4, <1>5, <1>6
  <2> QED
    BY <1>1, <1>3, <1>6, <2>1, Acts
<1>7. CASE reply' = [reply EXCEPT ![c] = [status |-> "gone", body |-> None]]
  <2>1. ReplyTrue(s, r, [status |-> "gone", body |-> None], history, Fence)
    BY <1>4
  <2> QED
    BY <1>1, <1>3, <1>7, <2>1, Acts
<1> QED
  BY <1>2, <1>6, <1>7

LEMMA ServeStatusKeeps ==
    ASSUME HubMoves, SyncInv, NEW c \in Clients, ServeStatus(c)
    PROVE  SyncInv'
<1> DEFINE body == [epoch |-> epoch, seq |-> cursor, generation |-> generation]
           answer == [status |-> "ok", body |-> body]
<1>1. /\ sync[c].pc = "status"
      /\ reply' = [reply EXCEPT ![c] = answer]
      /\ UNCHANGED <<sync, replica, local, disk, strays>>
  BY DEF ServeStatus, Asked, Answer, OthersUnchanged
<1>2. Reached(body, Fence)
  <2>1. /\ Fence \in Fences /\ AtOrAfter(Fence, Fence) /\ Fence.epoch \in Nat \ {0}
        /\ cursor \in Nat
    BY HubFence, AtOrAfterSelf DEF HubMoves, HubTrue
  <2>2. Fence = [epoch |-> body.epoch, generation |-> body.generation] /\ body.seq = cursor
    BY DEF Fence
  <2>3. body.epoch \in Nat \ {0} /\ body.generation \in Nat
    BY <2>1, HubTypes DEF HubMoves, Fence
  <2> QED
    BY <2>1, <2>2, <2>3 DEF Reached
<1> HIDE DEF body
<1>3. ReplyTrue(sync[c], replica[c], answer, history, Fence)
  BY <1>1, <1>2 DEF ReplyTrue, Requests
<1> QED
  BY <1>1, <1>3, Acting, Acts

LEMMA ServePushKeeps ==
    ASSUME HubMoves, SyncInv, NEW c \in Clients, ServePush(c)
    PROVE  SyncInv'
<1>1. /\ sync[c].pc = "push"
      /\ UNCHANGED <<sync, replica, local, disk, strays>>
  BY DEF ServePush, Asked, OthersUnchanged
<1>2. PICK answer : reply' = [reply EXCEPT ![c] = answer]
  BY DEF ServePush, Answer
<1>3. ReplyTrue(sync[c], replica[c], answer, history, Fence)
  BY <1>1 DEF ReplyTrue, Requests
<1> QED
  BY <1>1, <1>2, <1>3, Acting, Acts

-------------------------------------------------------------------------------
(* The pass goes on with an answer *)

\* A page of a snapshot is committed and goes to the engine, or is refused.
LEMMA ReceiveSnapshotKeeps ==
    ASSUME HubMoves, SyncInv, NEW c \in Clients, ReceiveSnapshot(c)
    PROVE  SyncInv'
<1> DEFINE s == sync[c]
           r == replica[c]
           page == reply[c].body
           t == [s EXCEPT !.pc = "feed"]
           r2 == SnapshotApplied(r, page)
<1>1. /\ s.pc = "snapshot" /\ reply[c] # NoReply
      /\ UNCHANGED <<local, disk, strays>>
  BY DEF ReceiveSnapshot
<1>2. \/ /\ reply[c].status = "ok" /\ SnapshotFits(r, page)
         /\ replica' = [replica EXCEPT ![c] = r2]
         /\ sync' = [sync EXCEPT ![c] = t]
         /\ UNCHANGED reply
      \/ Malformed(c, s) /\ Consume(c) /\ UNCHANGED replica
      \/ Recover(c, Rest(s)) /\ Consume(c) /\ UNCHANGED replica
  BY DEF ReceiveSnapshot, SyncTo
<1>3. /\ LoopOK(s) /\ ReplicaType(r) /\ ReplicaTrue(r, history) /\ LoopCaughtUp(s, r)
      /\ ReplyTrue(s, r, reply[c], history, Fence) /\ StatesTrue(history)
      /\ reply = [reply EXCEPT ![c] = reply[c]]
      /\ local' \in [Clients -> Holdings] /\ disk' \in [Clients -> Holdings]
      /\ \A q \in strays' : StrayOK(q)
  BY <1>1, Acting
<1>4. CASE /\ reply[c].status = "ok" /\ SnapshotFits(r, page)
           /\ replica' = [replica EXCEPT ![c] = r2]
           /\ sync' = [sync EXCEPT ![c] = t]
           /\ UNCHANGED reply
  <2>1. SnapshotPageTrue(page, history)
    BY <1>1, <1>3, <1>4 DEF ReplyTrue
  <2>2. ReplicaType(r2) /\ ReplicaTrue(r2, history) /\ r2.cursor >= r.cursor
    BY <1>3, <1>4, <2>1, SnapshotCommitted
  <2>3. Current(s) /\ s.feed = None
    BY <1>1, <1>3 DEF LoopOK, LoopGate, Requests, Current, Waiting
  <2>4. LoopOK(t) /\ SameLink(s, t) /\ t.pc = "feed" /\ t.feed = None
    BY <1>1, <1>3, <2>3, DrainOK
  <2> HIDE DEF t, r2, page, s, r
  <2>5. ReplyTrue(t, r2, reply[c], history, Fence)
    BY <2>1, <2>4 DEF ReplyTrue, page
  <2>6. LoopCaughtUp(t, r2)
    BY <1>3, <2>2, <2>4 DEF LoopCaughtUp, SameLink, LoopOK, LoopType, ReplicaType
  <2> QED
    BY <1>3, <1>4, <2>2, <2>4, <2>5, <2>6, Acts
<1>5. CASE Malformed(c, s) /\ Consume(c) /\ UNCHANGED replica
  BY <1>1, <1>3, <1>5, MalformedKeeps
<1>6. CASE Recover(c, Rest(s)) /\ Consume(c) /\ UNCHANGED replica
  BY <1>1, <1>3, <1>6, Recovers
<1> QED
  BY <1>2, <1>4, <1>5, <1>6

\* A page of changes is committed and goes to the engine, or ends the drain,
\* or is refused.
LEMMA ReceiveChangesKeeps ==
    ASSUME HubMoves, SyncInv, NEW c \in Clients, ReceiveChanges(c)
    PROVE  SyncInv'
<1> DEFINE s == sync[c]
           r == replica[c]
           page == reply[c].body
           t == Bounded(s, page.seq)
           feed == FeedOf(r, page)
           u == Feeding(t, feed)
           v == AfterPage(c, t, page)
           w == Again(c, v, local[c])
           r2 == ChangesApplied(r, page)
           refused == \/ Malformed(c, s) /\ Consume(c) /\ UNCHANGED replica
                      \/ Recover(c, Rest(s)) /\ Consume(c) /\ UNCHANGED replica
           ended == /\ News(r, page) = {} /\ page.complete
                    /\ sync' = [sync EXCEPT ![c] = w]
                    /\ Consume(c) /\ UNCHANGED replica
           taken == /\ News(r, page) # {}
                    /\ replica' = [replica EXCEPT ![c] = r2]
                    /\ sync' = [sync EXCEPT ![c] = u]
                    /\ UNCHANGED reply
<1>1. /\ s.pc = "changes" /\ reply[c] # NoReply
      /\ UNCHANGED <<local, disk, strays>>
  BY DEF ReceiveChanges
<1>2. \/ refused
      \/ reply[c].status = "ok" /\ ChangesFit(r, page) /\ (ended \/ taken)
  BY DEF ReceiveChanges, SyncTo, Bounded, Feeding
<1>3. /\ LoopOK(s) /\ ReplicaType(r) /\ ReplicaTrue(r, history) /\ LoopCaughtUp(s, r)
      /\ ReplyTrue(s, r, reply[c], history, Fence) /\ StatesTrue(history)
      /\ reply = [reply EXCEPT ![c] = reply[c]] /\ replica = [replica EXCEPT ![c] = r]
      /\ local[c] \in Holdings /\ disk[c] \in Holdings /\ Fence \in Fences
      /\ local' \in [Clients -> Holdings] /\ disk' \in [Clients -> Holdings]
      /\ \A q \in strays' : StrayOK(q)
  BY <1>1, Acting
<1>4. CASE refused
  BY <1>1, <1>3, <1>4, MalformedKeeps, Recovers
<1>5. ASSUME reply[c].status = "ok", ChangesFit(r, page), ended \/ taken PROVE SyncInv'
  <2>1. ChangesPageTrue(page, history, Fence)
    BY <1>1, <1>3, <1>5 DEF ReplyTrue
  <2>2. /\ LastOf(r, page) \in Nat
        /\ News(r, page) # {} => /\ ReplicaType(r2) /\ ReplicaTrue(r2, history)
                                 /\ r2.cursor = LastOf(r, page) /\ r2.cursor > r.cursor
                                 /\ FeedOK(feed) /\ feed # None
    BY <1>3, <1>5, <2>1, ChangesCommitted
  <2>3. page.complete => LastOf(r, page) = page.seq
    BY <1>5 DEF ChangesFit
  <2>4. Reached(page, Fence) /\ page.complete \in BOOLEAN /\ page.seq \in Nat
    BY <2>1 DEF ChangesPageTrue, Reached
  <2>5. CASE ended
    <3>1. FeedOK(None)
      BY NoneIsParcel
    <3>2. /\ LoopType(t) /\ LoopFence(t, Fence) /\ t.feed = None /\ t.pc = "changes"
          /\ DOMAIN t.sent \subseteq DOMAIN t.todo /\ SameLink(s, t)
      BY <1>1, <1>3, <2>4, <3>1, ThroughOK
    <3> HIDE DEF t
    <3>3. /\ LoopOK(v) /\ v.pc # "feed"
          /\ v.suspended = t.suspended /\ (v.conn # NoConn => t.conn # NoConn)
          /\ v.caughtUp = t.caughtUp \/ (page.complete /\ v.caughtUp = page.seq)
      BY <1>3, <2>4, <3>2, AfterPageOK
    <3> HIDE DEF v
    <3>4. LoopOK(w) /\ SameLink(v, w) /\ Continues(v, w)
      BY <1>3, <3>3, AgainOK
    <3> HIDE DEF w
    <3>5. w.pc # "feed"
      BY <3>3, <3>4 DEF Continues
    <3>6. page.seq = r.cursor
      BY <2>3, <2>5 DEF LastOf
    <3>7. LoopCaughtUp(w, r)
      <4>1. r.cursor <= r.cursor
        BY <1>3 DEF ReplicaType
      <4> HIDE DEF r, page, s
      <4> QED
        BY <1>3, <3>2, <3>3, <3>4, <3>6, <4>1 DEF LoopCaughtUp, SameLink
    <3> QED
      BY <1>3, <2>5, <3>4, <3>5, <3>7, Consumes
  <2>6. CASE taken
    <3>1. /\ ReplicaType(r2) /\ ReplicaTrue(r2, history)
          /\ r2.cursor = LastOf(r, page) /\ r2.cursor > r.cursor
          /\ FeedOK(feed) /\ feed # None
      BY <2>2, <2>6
    <3> HIDE DEF feed
    <3>2. LoopOK(u) /\ SameLink(s, u) /\ u.pc = "feed" /\ u.feed = feed
      BY <1>1, <1>3, <2>4, <3>1, ThroughOK
    <3> HIDE DEF u, r2, page, s, r
    <3>3. ReplyTrue(u, r2, reply[c], history, Fence)
      BY <2>1, <2>3, <3>1, <3>2 DEF ReplyTrue, page
    <3>4. LoopCaughtUp(u, r2)
      BY <1>3, <3>1, <3>2 DEF LoopCaughtUp, SameLink, LoopOK, LoopType, ReplicaType
    <3> QED
      BY <1>3, <2>6, <3>1, <3>2, <3>3, <3>4, Acts
  <2> QED
    BY <1>5, <2>5, <2>6
<1> QED
  BY <1>2, <1>4, <1>5

\* A committed page reaches the engine, one change at a time; after the last
\* the drain goes on or ends.
LEMMA FeedKeeps ==
    ASSUME HubMoves, SyncInv, NEW c \in Clients, Feed(c)
    PROVE  SyncInv'
<1> DEFINE s == sync[c]
           r == replica[c]
           page == reply[c].body
           n == CHOOSE p \in DOMAIN s.feed : \A q \in DOMAIN s.feed : p <= q
           gone == s.feed[n].deletes
           left == [p \in DOMAIN s.feed \ {n} |-> s.feed[p]]
           t == Forgets(s, gone)
           drain == [s EXCEPT !.pc = IF r.seeded THEN "changes" ELSE "snapshot"]
           more == FedTo(t, left)
           done == FedTo(t, None)
           after == AfterPage(c, done, page)
           goes(next) == /\ sync' = [sync EXCEPT ![c] = Again(c, next, local[c])]
                         /\ IF next.pc = "feed" THEN UNCHANGED reply ELSE Consume(c)
<1>1. s.pc = "feed" /\ UNCHANGED <<replica, local, disk, strays>>
  BY DEF Feed
<1>2. \/ s.feed = None /\ goes(Rest(s))
      \/ s.feed = None /\ Current(s) /\ goes(drain)
      \/ s.feed # None /\ goes(Rest(t))
      \/ s.feed # None /\ DOMAIN left # {} /\ goes(more)
      \/ s.feed # None /\ goes(after)
  BY Zenon DEF Feed, SyncTo, Forgets, FedTo
<1>3. /\ LoopOK(s) /\ LoopCaughtUp(s, r) /\ ReplicaType(r)
      /\ ReplyTrue(s, r, reply[c], history, Fence)
      /\ local[c] \in Holdings /\ disk[c] \in Holdings /\ Fence \in Fences
      /\ local' \in [Clients -> Holdings] /\ disk' \in [Clients -> Holdings]
      /\ reply = [reply EXCEPT ![c] = reply[c]] /\ replica' = [replica EXCEPT ![c] = r]
      /\ ReplicaTrue(r, history)
      /\ \A q \in strays' : StrayOK(q)
  BY <1>1, Acting
\* A pass that has done with the page.
<1>4. ASSUME NEW next, goes(next), LoopOK(next), next.pc # "feed", LoopCaughtUp(next, r)
      PROVE  SyncInv'
  <2> DEFINE w == Again(c, next, local[c])
  <2>1. LoopOK(w) /\ SameLink(next, w) /\ Continues(next, w)
    BY <1>3, <1>4, AgainOK
  <2>2. sync' = [sync EXCEPT ![c] = w] /\ Consume(c)
    BY <1>4
  <2> HIDE DEF w
  <2>3. w.pc # "feed"
    BY <1>4, <2>1 DEF Continues
  <2>4. LoopCaughtUp(w, r)
    BY <1>4, <2>1 DEF LoopCaughtUp, SameLink
  <2> QED
    BY <1>1, <1>3, <2>1, <2>2, <2>3, <2>4, Consumes
<1>5. LoopType(s) /\ LoopFence(s, Fence) /\ FeedOK(s.feed) /\ DOMAIN s.sent \subseteq DOMAIN s.todo
  BY <1>3 DEF LoopOK, LoopType, LoopGate
<1>6. FeedOK(None) /\ FeedOK(left)
  <2>1. DOMAIN left = DOMAIN s.feed \ {n} /\ \A p \in DOMAIN left : left[p] = s.feed[p]
    OBVIOUS
  <2>2. left = [p \in DOMAIN left |-> left[p]]
    OBVIOUS
  <2> HIDE DEF left, s, n
  <2>3. FeedOK(left)
    BY <1>5, <2>1, <2>2 DEF FeedOK
  <2> QED
    BY <2>3, NoneIsParcel
<1> HIDE DEF left, gone
<1>7. /\ LoopOK(t) /\ SameLink(s, t) /\ t.pc = "feed" /\ t.stale = s.stale
      /\ LoopOK(more) /\ SameLink(s, more) /\ more.pc = "feed" /\ more.feed = left
      /\ more.stale = s.stale
      /\ LoopOK(done) /\ SameLink(s, done) /\ done.pc = "feed" /\ done.feed = None
      /\ done.stale = s.stale
  BY <1>1, <1>3, <1>6, ForgetOK
<1> HIDE DEF t, more, done, after
<1>8. CASE s.feed = None /\ goes(Rest(s))
  <2>1. LoopOK(Rest(s)) /\ SameLink(s, Rest(s)) /\ Rest(s).pc = "idle"
    BY <1>5, RestOK
  <2>2. LoopCaughtUp(Rest(s), r)
    BY <1>3, <2>1 DEF LoopCaughtUp, SameLink
  <2> QED
    BY <1>4, <1>8, <2>1, <2>2
<1>9. CASE s.feed = None /\ Current(s) /\ goes(drain)
  <2> DEFINE pc == IF r.seeded THEN "changes" ELSE "snapshot"
  <2>1. pc \in {"feed", "changes", "snapshot"} /\ pc # "feed" /\ drain = [s EXCEPT !.pc = pc]
    OBVIOUS
  <2> HIDE DEF pc, drain, s
  <2>2. LoopOK(drain) /\ SameLink(s, drain) /\ drain.pc = pc
    BY <1>1, <1>3, <1>9, <2>1, DrainOK, Zenon
  <2>3. LoopCaughtUp(drain, r)
    BY <1>3, <2>2 DEF LoopCaughtUp, SameLink
  <2> QED
    BY <1>4, <1>9, <2>1, <2>2, <2>3
<1>10. CASE s.feed # None /\ goes(Rest(t))
  <2>1. LoopOK(Rest(t)) /\ SameLink(t, Rest(t)) /\ Rest(t).pc = "idle"
    BY <1>7, RestOK DEF LoopOK
  <2>2. LoopCaughtUp(Rest(t), r)
    BY <1>3, <1>7, <2>1 DEF LoopCaughtUp, SameLink
  <2> QED
    BY <1>4, <1>10, <2>1, <2>2
<1>11. CASE s.feed # None /\ DOMAIN left # {} /\ goes(more)
  <2>1. Again(c, more, local[c]) = more
    BY <1>7 DEF Again
  <2>2. sync' = [sync EXCEPT ![c] = more] /\ reply' = reply
    BY <1>7, <1>11, <2>1
  <2>3. left # None
    BY <1>11, NoneIsParcel
  <2>4. ReplyTrue(more, r, reply[c], history, Fence)
    <3> HIDE DEF s, r
    <3> QED
      BY <1>1, <1>3, <1>7, <1>11, <2>3 DEF ReplyTrue
  <2>5. LoopCaughtUp(more, r)
    BY <1>3, <1>7 DEF LoopCaughtUp, SameLink
  <2>6. reply' = [reply EXCEPT ![c] = reply[c]]
    BY <1>3, <2>2
  <2> QED
    BY <1>3, <1>7, <2>2, <2>4, <2>5, <2>6, Acts
<1>12. CASE s.feed # None /\ goes(after)
  <2>1. /\ ChangesPageTrue(page, history, Fence)
        /\ ~s.stale /\ page.complete => r.cursor = page.seq
    BY <1>1, <1>3, <1>12 DEF ReplyTrue
  <2>2. Reached(page, Fence) /\ page.complete \in BOOLEAN
    BY <2>1 DEF ChangesPageTrue
  <2>3. /\ LoopType(done) /\ LoopFence(done, Fence) /\ DOMAIN done.sent \subseteq DOMAIN done.todo
    BY <1>7 DEF LoopOK, LoopGate
  <2>4. /\ LoopOK(after) /\ after.pc # "feed"
        /\ after.suspended = done.suspended /\ (after.conn # NoConn => done.conn # NoConn)
        /\ after.caughtUp = done.caughtUp \/ (page.complete /\ after.caughtUp = page.seq)
    <3>1. done.feed = None /\ done.pc \notin {"prepare", "push"}
      BY <1>7
    <3> HIDE DEF page, s
    <3> QED
      BY <1>3, <2>2, <2>3, <3>1, AfterPageOK DEF after
  <2>5. LoopCaughtUp(after, r)
    <3>1. CASE Current(done)
      <4>1. s.stale = FALSE
        BY <1>7, <3>1, <1>5 DEF Current, LoopType
      <4>2. page.complete => r.cursor = page.seq
        BY <2>1, <4>1
      <4>3. r.cursor <= r.cursor
        BY <1>3 DEF ReplicaType
      <4> HIDE DEF page, r, s
      <4> QED
        BY <1>3, <1>7, <2>4, <4>2, <4>3 DEF LoopCaughtUp, SameLink
    <3>2. CASE ~Current(done)
      <4>1. after = Rest(done)
        BY <3>2 DEF AfterPage, after
      <4>2. SameLink(done, Rest(done))
        BY <2>3, RestOK
      <4> QED
        BY <1>3, <1>7, <4>1, <4>2 DEF LoopCaughtUp, SameLink
    <3> QED
      BY <3>1, <3>2
  <2> QED
    BY <1>4, <1>12, <2>4, <2>5
<1> QED
  BY <1>2, <1>8, <1>9, <1>10, <1>11, <1>12

LEMMA FeedFailsKeeps ==
    ASSUME HubMoves, SyncInv, NEW c \in Clients, FeedFails(c)
    PROVE  SyncInv'
<1> DEFINE s == sync[c]
<1>1. Consume(c) /\ UNCHANGED <<replica, local, disk, strays>>
  BY DEF FeedFails
<1>2. \/ Malformed(c, s) \/ Recover(c, Rest(s)) \/ sync' = [sync EXCEPT ![c] = Rest(s)]
  BY DEF FeedFails, SyncTo
<1>3. LoopType(s) /\ LoopFence(s, Fence) /\ \A q \in strays' : StrayOK(q)
  BY <1>1, Acting DEF LoopOK
<1>4. CASE sync' = [sync EXCEPT ![c] = Rest(s)]
  BY <1>1, <1>3, <1>4, RestGivesUp, GaveUp
<1> QED
  BY <1>1, <1>2, <1>3, <1>4, MalformedKeeps, Recovers

\* The Hub's status says which fence to push under.
LEMMA ReceiveStatusKeeps ==
    ASSUME HubMoves, SyncInv, NEW c \in Clients, ReceiveStatus(c)
    PROVE  SyncInv'
<1> DEFINE s == sync[c]
           r == replica[c]
           status == reply[c].body
           t == [s EXCEPT !.conn.epoch = status.epoch, !.conn.seq = status.seq,
                          !.conn.generation = status.generation]
           u == PushUnderFence(c, t, NoRows, local[c])
           w == Again(c, u, local[c])
<1>1. /\ s.pc = "status" /\ reply[c] # NoReply
      /\ sync' = [sync EXCEPT ![c] = w] /\ Consume(c)
      /\ UNCHANGED <<replica, local, disk, strays>>
  BY DEF ReceiveStatus, SyncTo
<1>2. /\ LoopOK(s) /\ LoopCaughtUp(s, r)
      /\ ReplyTrue(s, r, reply[c], history, Fence)
      /\ local[c] \in Holdings /\ disk[c] \in Holdings /\ Fence \in Fences
      /\ local' \in [Clients -> Holdings] /\ disk' \in [Clients -> Holdings]
      /\ \A q \in strays' : StrayOK(q)
  BY <1>1, Acting
<1>3. Reached(status, Fence)
  BY <1>1, <1>2 DEF ReplyTrue
<1>4. /\ LoopOK(u) /\ u.pc \in {"idle", "push", "prepare"}
      /\ u.caughtUp = s.caughtUp /\ u.suspended = s.suspended /\ s.conn # NoConn
  <2> HIDE DEF s, status
  <2> QED
    BY <1>1, <1>2, <1>3, StatusOK, Zenon
<1> HIDE DEF u
<1>5. LoopOK(w) /\ SameLink(u, w) /\ Continues(u, w)
  BY <1>2, <1>4, AgainOK
<1> HIDE DEF w
<1>6. w.pc # "feed" /\ LoopCaughtUp(w, r)
  BY <1>2, <1>4, <1>5 DEF Continues, LoopCaughtUp, SameLink
<1> QED
  BY <1>1, <1>2, <1>5, <1>6, Consumes

\* The walk's contributions take the place of the old ones.
LEMMA FinishPrepareKeeps ==
    ASSUME HubMoves, SyncInv, NEW c \in Clients, FinishPrepare(c)
    PROVE  SyncInv'
<1> DEFINE s == sync[c]
           r == replica[c]
           t == [s EXCEPT !.full = TRUE, !.walked = s.scanAt]
           v == [t EXCEPT !.source = s.fence, !.acked = NoCopies]
<1>1. s.pc = "prepare" /\ UNCHANGED <<reply, replica, disk, strays>>
  BY DEF FinishPrepare
<1>2. /\ LoopOK(s) /\ LoopCaughtUp(s, r) /\ s.scan \in Holdings
      /\ ReplyTrue(s, r, reply[c], history, Fence)
      /\ local[c] \in Holdings /\ disk[c] \in Holdings /\ Fence \in Fences
      /\ local \in [Clients -> Holdings] /\ disk' \in [Clients -> Holdings]
      /\ \A q \in strays' : StrayOK(q)
      /\ ReplicaType(r) /\ ReplicaTrue(r, history)
      /\ reply = [reply EXCEPT ![c] = reply[c]] /\ replica = [replica EXCEPT ![c] = r]
  BY <1>1, Acting DEF LoopOK, LoopType
<1>3. reply[c] = NoReply
  BY <1>1, <1>2 DEF ReplyTrue, Requests
<1>4. \E own \in Holdings, next \in {Rest(t), Examine(v, r.rows, local'[c])} :
         /\ own = local'[c]
         /\ local' = [local EXCEPT ![c] = own]
         /\ sync' = [sync EXCEPT ![c] = Again(c, next, own)]
  <2> DEFINE read(gone) == [k \in Keys |-> IF k \in gone THEN disk[c][k] ELSE s.scan[k]]
             swapped == s.reset /\ recovery[c] = "none"
  <2>1. PICK gone \in SUBSET {k \in Keys : s.scan[k] # disk[c][k]} :
           LET own == IF swapped THEN local[c] ELSE read(gone)
               next == IF Current(s) THEN Examine(v, r.rows, own) ELSE Rest(t)
           IN  /\ local' = [local EXCEPT ![c] = own]
               /\ sync' = [sync EXCEPT ![c] = Again(c, next, own)]
    BY Zenon DEF FinishPrepare, SyncTo
  <2> DEFINE own == IF swapped THEN local[c] ELSE read(gone)
             next == IF Current(s) THEN Examine(v, r.rows, own) ELSE Rest(t)
  <2>2. read(gone) \in Holdings
    BY <1>2 DEF Holdings
  <2>3. own \in Holdings
    BY <1>2, <2>2
  <2>4. local' = [local EXCEPT ![c] = own] /\ sync' = [sync EXCEPT ![c] = Again(c, next, own)]
    BY <2>1
  <2> HIDE DEF own, v, t
  <2>5. local'[c] = own
    BY <1>2, <2>4
  <2>6. next \in {Rest(t), Examine(v, r.rows, local'[c])}
    BY <2>5
  <2> HIDE DEF next
  <2> QED
    BY <2>3, <2>4, <2>5, <2>6
<1>5. PICK own \in Holdings, next \in {Rest(t), Examine(v, r.rows, local'[c])} :
         /\ own = local'[c]
         /\ local' = [local EXCEPT ![c] = own]
         /\ sync' = [sync EXCEPT ![c] = Again(c, next, own)]
  BY <1>4
<1>6. LoopOK(next) /\ SameLink(s, next) /\ next.pc \in {"idle", "push"}
  <2> DEFINE u == Examine(v, r.rows, own)
             held == r.rows
  <2>1. /\ LoopOK(Rest(t)) /\ SameLink(s, Rest(t)) /\ Rest(t).pc = "idle"
        /\ LoopOK(u) /\ SameLink(s, u) /\ u.pc \in {"idle", "push"}
    <3> HIDE DEF s, held
    <3> QED
      BY <1>1, <1>2, PreparedOK, Zenon
  <2>2. next = Rest(t) \/ next = u
    BY <1>5
  <2> HIDE DEF t, v, u
  <2> QED
    BY <2>1, <2>2
<1> DEFINE w == Again(c, next, own)
<1>7. LoopOK(w) /\ SameLink(next, w) /\ Continues(next, w)
  BY <1>2, <1>6, AgainOK
<1>8. sync' = [sync EXCEPT ![c] = w] /\ local' = [local EXCEPT ![c] = own]
  BY <1>5
<1> HIDE DEF w
<1>9. w.pc # "feed" /\ LoopCaughtUp(w, r)
  BY <1>2, <1>6, <1>7 DEF Continues, LoopCaughtUp, SameLink
<1>10. local' \in [Clients -> Holdings]
  BY <1>2, <1>8
<1>11. ReplyTrue(w, r, NoReply, history, Fence)
  BY <1>9, NoAnswer
<1> QED
  BY <1>1, <1>2, <1>3, <1>7, <1>8, <1>9, <1>10, <1>11, Acts

\* A receipt acknowledges its batch; a refusal ends the pass.
LEMMA ReceivePushKeeps ==
    ASSUME HubMoves, SyncInv, NEW c \in Clients, ReceivePush(c)
    PROVE  SyncInv'
<1> DEFINE s == sync[c]
           r == replica[c]
           refused == [s EXCEPT !.source.generation = -1]
           taken == [s EXCEPT !.acked = [k \in Keys |->
                                           IF k \in DOMAIN s.sent THEN s.sent[k] ELSE @[k]],
                              !.todo = [k \in DOMAIN s.todo \ DOMAIN s.sent |-> s.todo[k]]]
           next == IF reply[c].status = "conflict" THEN Rest(refused) ELSE SendNext(taken)
           w == Again(c, next, local[c])
<1>1. /\ s.pc = "push" /\ sync' = [sync EXCEPT ![c] = w] /\ Consume(c)
      /\ UNCHANGED <<replica, local, disk, strays>>
  BY DEF ReceivePush, SyncTo
<1>2. /\ LoopOK(s) /\ LoopCaughtUp(s, r)
      /\ local[c] \in Holdings /\ disk[c] \in Holdings /\ Fence \in Fences
      /\ local' \in [Clients -> Holdings] /\ disk' \in [Clients -> Holdings]
      /\ \A q \in strays' : StrayOK(q)
  BY <1>1, Acting
<1>3. /\ LoopOK(Rest(refused)) /\ SameLink(s, Rest(refused)) /\ Rest(refused).pc = "idle"
      /\ LoopOK(SendNext(taken)) /\ SameLink(s, SendNext(taken))
      /\ SendNext(taken).pc \in {"idle", "push"}
  <2> HIDE DEF s
  <2> QED
    BY <1>1, <1>2, PushedOK, Zenon
<1> HIDE DEF refused, taken
<1>4. LoopOK(next) /\ SameLink(s, next) /\ next.pc \in {"idle", "push"}
  BY <1>3
<1> HIDE DEF next
<1>5. LoopOK(w) /\ SameLink(next, w) /\ Continues(next, w)
  BY <1>2, <1>4, AgainOK
<1> HIDE DEF w
<1>6. w.pc # "feed" /\ LoopCaughtUp(w, r)
  BY <1>2, <1>4, <1>5 DEF Continues, LoopCaughtUp, SameLink
<1> QED
  BY <1>1, <1>2, <1>5, <1>6, Consumes

LEMMA RequestFailsKeeps ==
    ASSUME HubMoves, SyncInv, NEW c \in Clients, RequestFails(c)
    PROVE  SyncInv'
<1> DEFINE s == sync[c]
           t == [Rest(s) EXCEPT !.pending = FALSE]
<1>1. /\ sync' = [sync EXCEPT ![c] = t] /\ Consume(c) /\ UNCHANGED <<replica, local, disk>>
      /\ strays' = strays \cup Abandoned(c)
  BY DEF RequestFails, SyncTo
<1>2. LoopType(s) /\ LoopFence(s, Fence) /\ \A q \in strays' : StrayOK(q)
  BY <1>1, Acting, AbandonedOK DEF LoopOK
<1>3. GivesUp(s, t)
  BY <1>2, GivenUp
<1> HIDE DEF t
<1> QED
  BY <1>1, <1>2, <1>3, GaveUp

-------------------------------------------------------------------------------
(* The recovery, the connection, the timers and the machine's own work *)

LEMMA NewReplicaTrue ==
    ASSUME NEW h
    PROVE  ReplicaType(NewReplica) /\ ReplicaTrue(NewReplica, h)
<1>1. NoRows \in Corpus
  BY DEF NoRows, Corpus
<1> QED
  BY <1>1 DEF NewReplica, ReplicaType, ReplicaTrue

LEMMA NewLoopOK ==
    ASSUME NEW share \in BOOLEAN, Fence \in Fences
    PROVE  LET t == [NewSync EXCEPT !.share = share]
           IN  LoopOK(t) /\ t.conn = NoConn /\ t.pc = "idle"
<1> DEFINE t == [NewSync EXCEPT !.share = share]
<1>1. IsLoop(t)
  BY Zenon DEF IsLoop, NewSync, LoopFields
<1>2. /\ t.conn = NoConn /\ t.pc = "idle" /\ t.feed = None /\ t.todo = None /\ t.sent = None
      /\ t.source = NoSource /\ t.fence = NoSource /\ t.scanAt = NoSource /\ t.walked = NoSource
      /\ t.acked = NoCopies /\ t.scan = NoCopies /\ t.caughtUp = 0
      /\ t.dirty = {} /\ t.through = {} /\ t.share = share /\ t.stale = FALSE
  BY DEF NewSync
<1>3. /\ t.suspended = FALSE /\ t.degraded = FALSE /\ t.malformed = FALSE /\ t.pending = FALSE
      /\ t.seeding = FALSE /\ t.full = TRUE /\ t.reset = FALSE /\ t.wholly = FALSE
  BY DEF NewSync
<1> HIDE DEF t
<1>4. LoopType(t)
  <2>1. /\ t.suspended \in BOOLEAN /\ t.degraded \in BOOLEAN /\ t.malformed \in BOOLEAN
        /\ t.pending \in BOOLEAN /\ t.seeding \in BOOLEAN /\ t.full \in BOOLEAN
        /\ t.reset \in BOOLEAN /\ t.wholly \in BOOLEAN /\ t.stale \in BOOLEAN
        /\ t.share \in BOOLEAN
    BY <1>2, <1>3, Zenon
  <2>2. /\ t.caughtUp \in Nat /\ t.dirty \subseteq Keys /\ t.through \subseteq Nat
    BY <1>2
  <2>3. /\ t.source \in Fences /\ t.fence \in Fences /\ t.scanAt \in Fences /\ t.walked \in Fences
        /\ t.acked \in Holdings /\ t.scan \in Holdings
        /\ FeedOK(t.feed) /\ t.todo \in Parcels /\ t.sent \in Parcels
    BY <1>2, NoSourceFence, NoneIsParcel, NoCopiesHeld, Zenon
  <2> QED
    BY <1>1, <1>2, <2>1, <2>2, <2>3, Zenon DEF LoopType
<1>5. LoopGate(t)
  BY <1>2, <1>3 DEF LoopGate, Waiting, Requests
<1>6. LoopFence(t, Fence)
  BY <1>2, NoSourceFence DEF LoopFence
<1> QED
  BY <1>2, <1>4, <1>5, <1>6 DEF LoopOK, t

LEMMA ReconcileUnlinkKeeps ==
    ASSUME HubMoves, SyncInv, NEW c \in Clients, ReconcileUnlink(c)
    PROVE  SyncInv'
<1> DEFINE t == Suspend(sync[c])
<1>1. /\ sync' = [sync EXCEPT ![c] = t] /\ reply' = [reply EXCEPT ![c] = Drop(c)]
      /\ replica' = [replica EXCEPT ![c] = NewReplica] /\ UNCHANGED <<local, disk>>
      /\ strays' = strays \cup Abandoned(c)
  BY DEF ReconcileUnlink, SyncTo
<1>2. LoopOK(sync[c])
  BY Acting
<1>3. LoopOK(t) /\ Stopped(sync[c], t) /\ t.suspended = TRUE
  BY <1>2, SuspendOK
<1> HIDE DEF t
<1>4. LoopCaughtUp(t, NewReplica)
  BY <1>3 DEF LoopCaughtUp
<1> QED
  BY <1>1, <1>3, <1>4, NewReplicaTrue, Halts

LEMMA ReconcileFinishKeeps ==
    ASSUME HubMoves, SyncInv, NEW c \in Clients, ReconcileFinish(c)
    PROVE  SyncInv'
<1> DEFINE t == Resynced(c, sync[c], disk[c])
<1>1. /\ sync' = [sync EXCEPT ![c] = t] /\ UNCHANGED <<reply, replica>>
      /\ local' = [local EXCEPT ![c] = disk[c]] /\ UNCHANGED disk
      /\ UNCHANGED strays
  BY DEF ReconcileFinish, SyncTo
<1>2. /\ LoopOK(sync[c]) /\ disk[c] \in Holdings /\ Fence \in Fences /\ ReplicaType(replica[c])
      /\ local \in [Clients -> Holdings] /\ disk \in [Clients -> Holdings]
      /\ \A q \in strays : StrayOK(q)
  BY Acting
<1>3. LoopOK(t) /\ t.caughtUp = 0 /\ Continues(sync[c], t)
  BY <1>2, ResyncedOK
<1> HIDE DEF t
<1>4. LoopCaughtUp(t, replica[c])
  BY <1>2, <1>3 DEF LoopCaughtUp, ReplicaType
<1> QED
  BY <1>1, <1>2, <1>3, <1>4, GoesOn

\* A touched loop, kicked.
LEMMA KickedOK ==
    ASSUME NEW c, NEW s, NEW t, LoopOK(t), t.pc = s.pc, t.feed = s.feed, t.stale = s.stale,
           NEW own \in Holdings, disk[c] \in Holdings, Fence \in Fences
    PROVE  /\ Continues(s, t) /\ Continues(s, Kick(c, t, own))
           /\ LoopOK(Kick(c, t, own)) /\ SameLink(t, Kick(c, t, own))
<1>1. LoopOK(Kick(c, t, own)) /\ SameLink(t, Kick(c, t, own)) /\ Continues(t, Kick(c, t, own))
  BY KickOK
<1> QED
  BY <1>1 DEF Continues

LEMMA ConnectKeeps ==
    ASSUME HubMoves, SyncInv, NEW c \in Clients, Connect(c)
    PROVE  SyncInv'
<1> DEFINE s == sync[c]
           conn == [epoch |-> epoch, seq |-> cursor, generation |-> generation,
                    frame |-> cursor, live |-> TRUE]
           t == [s EXCEPT !.conn = conn, !.degraded = FALSE, !.malformed = FALSE, !.caughtUp = 0]
           u == Kick(c, t, local[c])
<1>1. /\ s.conn = NoConn /\ sync' = [sync EXCEPT ![c] = u]
      /\ UNCHANGED <<reply, replica, local, disk, strays>>
  BY DEF Connect, SyncTo
<1>2. /\ LoopOK(s) /\ local[c] \in Holdings /\ disk[c] \in Holdings /\ Fence \in Fences
      /\ ReplicaType(replica[c])
      /\ local' \in [Clients -> Holdings] /\ disk' \in [Clients -> Holdings]
      /\ \A q \in strays' : StrayOK(q)
  BY <1>1, Acting
<1>3. epoch \in Nat \ {0} /\ cursor \in Nat /\ generation \in Nat
  BY HubFence, HubTypes DEF HubMoves, HubTrue, Fence
<1>4. IsLoop(s) /\ s.pc \notin Requests
  BY <1>1, <1>2 DEF LoopOK, LoopType, LoopGate, Runnable
<1>5. /\ conn \in Links /\ conn.epoch = epoch /\ conn.generation = generation
  BY <1>3 DEF Links
<1> HIDE DEF conn, s
<1>6. SameBut(s, t, {"conn", "degraded", "malformed", "caughtUp"})
  <2>1. /\ IsLoop(t)
        /\ \A f \in LoopFields \ {"conn", "degraded", "malformed", "caughtUp"} : t[f] = s[f]
    BY <1>4, Zenon DEF IsLoop
  <2> QED
    BY <2>1 DEF SameBut
<1>7. t.conn = conn /\ t.degraded = FALSE /\ t.malformed = FALSE /\ t.caughtUp = 0
  BY <1>4, SMT DEF IsLoop, LoopFields
<1> HIDE DEF t
<1>8. ConnFence(t) = Fence
  BY <1>5, <1>7 DEF ConnFence, Fence
<1>9. /\ SameBut(s, t, {"conn", "degraded", "malformed", "caughtUp", "full", "share", "dirty",
                        "scan", "pending"})
      /\ t.full \in BOOLEAN /\ t.share \in BOOLEAN /\ t.dirty \subseteq Keys
      /\ t.scan \in Holdings /\ t.pending \in BOOLEAN
  BY <1>2, <1>6 DEF SameBut, LoopFields, LoopOK, LoopType
<1>10. LoopOK(t) /\ t.pc = s.pc /\ t.feed = s.feed /\ t.stale = s.stale
  <2>1. AtOrAfter(Fence, ConnFence(t))
    BY <1>2, <1>8, AtOrAfterSelf
  <2>2. t.conn \in Links /\ t.degraded \in BOOLEAN /\ t.malformed \in BOOLEAN
    BY <1>5, <1>7, Zenon
  <2>3. t.caughtUp \in Nat
    BY <1>7
  <2> QED
    BY <1>2, <1>4, <1>9, <2>1, <2>2, <2>3, TouchedOK
<1>11. Continues(s, u) /\ LoopOK(u) /\ SameLink(t, u)
  BY <1>2, <1>10, KickedOK
<1> HIDE DEF u
<1>12. LoopCaughtUp(u, replica[c])
  BY <1>2, <1>7, <1>11 DEF LoopCaughtUp, SameLink, ReplicaType
<1> QED
  BY <1>1, <1>2, <1>11, <1>12, GoesOn DEF s

LEMMA DisconnectKeeps ==
    ASSUME HubMoves, SyncInv, NEW c \in Clients, Disconnect(c)
    PROVE  SyncInv'
<1> DEFINE t == Disconnected(sync[c])
<1>1. /\ sync' = [sync EXCEPT ![c] = t] /\ reply' = [reply EXCEPT ![c] = Drop(c)]
      /\ UNCHANGED <<replica, local, disk>>
      /\ strays' = strays \cup Abandoned(c)
  BY DEF Disconnect, SyncTo
<1>2. /\ LoopOK(sync[c]) /\ ReplicaType(replica[c]) /\ ReplicaTrue(replica[c], history)
      /\ replica = [replica EXCEPT ![c] = replica[c]]
  BY Acting
<1>3. LoopOK(t) /\ Stopped(sync[c], t) /\ t.conn = NoConn
  BY <1>2, DisconnectedOK
<1> HIDE DEF t
<1>4. LoopCaughtUp(t, replica[c])
  BY <1>3 DEF LoopCaughtUp
<1> QED
  BY <1>1, <1>2, <1>3, <1>4, Halts

\* A frame names a state the archive went through.
LEMMA StatusFrameKeeps ==
    ASSUME HubMoves, SyncInv, NEW c \in Clients, StatusFrame(c)
    PROVE  SyncInv'
<1> DEFINE s == sync[c]
           r == replica[c]
           frame(n) == [epoch |-> epoch, seq |-> n, frame |-> n, live |-> TRUE,
                        generation |-> history[epoch][n].generation]
           told(n) == [s EXCEPT !.conn = frame(n)]
<1>1. /\ s.conn # NoConn /\ UNCHANGED <<replica, local, disk>>
  BY DEF StatusFrame
<1>2. PICK n \in (s.conn.frame + 1) .. cursor :
         \/ /\ sync' = [sync EXCEPT ![c] = Suspend(told(n))]
            /\ reply' = [reply EXCEPT ![c] = Drop(c)]
            /\ strays' = strays \cup Abandoned(c)
         \/ /\ \/ sync' = [sync EXCEPT ![c] = Kick(c, told(n), local[c])]
               \/ sync' = [sync EXCEPT ![c] = told(n)]
            /\ UNCHANGED <<reply, strays>>
  <2>1. PICK n \in (s.conn.frame + 1) .. cursor :
         LET t == told(n)
             elsewhere == c \in Replicating /\ replica[c].epoch \notin {0, epoch}
         IN  IF elsewhere
             THEN /\ Recover(c, t)
                  /\ reply' = [reply EXCEPT ![c] = Drop(c)]
                  /\ strays' = strays \cup Abandoned(c)
             ELSE /\ SyncTo(c, IF t.conn.seq > t.caughtUp \/ t.source # ConnFence(t)
                               THEN Kick(c, t, local[c]) ELSE t)
                  /\ UNCHANGED <<reply, recovery, strays>>
    BY Zenon DEF StatusFrame
  <2> HIDE DEF told
  <2> QED
    BY <2>1 DEF Recover, SyncTo
<1> DEFINE conn == frame(n)
           t == told(n)
<1>3. /\ LoopOK(s) /\ local[c] \in Holdings /\ disk[c] \in Holdings /\ Fence \in Fences
      /\ ReplicaType(r) /\ ReplicaTrue(r, history) /\ LoopCaughtUp(s, r)
      /\ local' \in [Clients -> Holdings] /\ disk' \in [Clients -> Holdings]
      /\ \A q \in strays : StrayOK(q)
      /\ replica' = [replica EXCEPT ![c] = r]
  BY <1>1, Acting
<1>4. IsLoop(s) /\ s.conn \in Links
  BY <1>1, <1>3 DEF LoopOK, LoopType
<1>5. n \in 0 .. cursor
  BY <1>4 DEF Links
<1>6. /\ epoch \in Nat \ {0} /\ epoch \in DOMAIN history /\ n \in DOMAIN history[epoch]
      /\ history[epoch][n] \in ArchiveStates /\ n \in Nat
      /\ AtOrAfter(Fence, [epoch |-> epoch, generation |-> history[epoch][n].generation])
  <2>1. HubTrue
    BY HubFence DEF HubMoves
  <2>2. epoch \in Nat \ {0} /\ DOMAIN history = 1 .. epoch /\ DOMAIN history[epoch] = 0 .. cursor
    BY <2>1 DEF HubTrue, Fence
  <2>3. epoch \in DOMAIN history /\ n \in DOMAIN history[epoch]
    BY <1>5, <2>2
  <2> QED
    BY <2>1, <2>2, <2>3 DEF HubTrue, StatesTrue
<1>7. /\ conn \in Links /\ conn.epoch = epoch /\ conn.generation = history[epoch][n].generation
  BY <1>6 DEF Links, ArchiveStates
<1>8. t = [s EXCEPT !.conn = conn]
  OBVIOUS
<1>9. conn # NoConn
  BY <1>7, SyncAssumption DEF Links
<1> HIDE DEF conn, s, told, t
<1>10. SameBut(s, t, {"conn"})
  <2>1. /\ IsLoop(t)
        /\ \A f \in LoopFields \ {"conn"} : t[f] = s[f]
    BY <1>4, <1>8, Zenon DEF IsLoop
  <2> QED
    BY <2>1 DEF SameBut
<1>11. t.conn = conn
  BY <1>4, <1>8, SMT DEF IsLoop, LoopFields
<1>12. /\ SameBut(s, t, {"conn", "degraded", "malformed", "caughtUp", "full", "share", "dirty",
                        "scan", "pending"})
       /\ t.full \in BOOLEAN /\ t.share \in BOOLEAN /\ t.dirty \subseteq Keys
       /\ t.scan \in Holdings /\ t.pending \in BOOLEAN
       /\ t.degraded \in BOOLEAN /\ t.malformed \in BOOLEAN /\ t.caughtUp \in Nat
       /\ t.degraded = s.degraded /\ t.caughtUp = s.caughtUp
  BY <1>3, <1>10 DEF SameBut, LoopFields, LoopOK, LoopType
<1>13. AtOrAfter(Fence, ConnFence(t))
  BY <1>6, <1>7, <1>11 DEF ConnFence
<1>14. LoopOK(t) /\ t.pc = s.pc /\ t.feed = s.feed /\ t.stale = s.stale /\ t.suspended = s.suspended
  BY <1>3, <1>7, <1>9, <1>11, <1>12, <1>13, TouchedOK
<1>15. LoopCaughtUp(t, r)
  BY <1>1, <1>3, <1>12, <1>14 DEF LoopCaughtUp, s
<1>16. CASE /\ sync' = [sync EXCEPT ![c] = Suspend(t)]
            /\ reply' = [reply EXCEPT ![c] = Drop(c)]
            /\ strays' = strays \cup Abandoned(c)
  <2> DEFINE u == Suspend(t)
  <2>1. LoopOK(u) /\ Stopped(t, u) /\ u.suspended = TRUE
    BY <1>14, SuspendOK
  <2> HIDE DEF u
  <2>2. Stopped(s, u) /\ LoopCaughtUp(u, r)
    BY <1>14, <2>1 DEF Stopped, Waiting, LoopCaughtUp
  <2>3. sync' = [sync EXCEPT ![c] = u]
    BY <1>16 DEF u
  <2> QED
    BY <1>1, <1>3, <1>16, <2>1, <2>2, <2>3, Halts DEF s
<1>17. CASE sync' = [sync EXCEPT ![c] = Kick(c, t, local[c])] /\ UNCHANGED <<reply, strays>>
  <2> DEFINE u == Kick(c, t, local[c])
  <2>1. LoopOK(u) /\ SameLink(t, u) /\ Continues(s, u)
    BY <1>3, <1>14, KickedOK
  <2>2. sync' = [sync EXCEPT ![c] = u]
    BY <1>17
  <2> HIDE DEF u
  <2>3. LoopCaughtUp(u, r)
    BY <1>15, <2>1 DEF LoopCaughtUp, SameLink
  <2> QED
    BY <1>1, <1>3, <1>17, <2>1, <2>2, <2>3, GoesOn DEF s
<1>18. CASE sync' = [sync EXCEPT ![c] = t] /\ UNCHANGED <<reply, strays>>
  <2>1. Continues(s, t)
    BY <1>3, <1>14, KickedOK
  <2> QED
    BY <1>1, <1>3, <1>14, <1>15, <1>18, <2>1, GoesOn DEF s
<1> QED
  BY <1>2, <1>16, <1>17, <1>18 DEF t

\* A loop's marks change, and nothing of what its pass or its link rests on.
Marks(s, t) ==
    /\ SameBut(s, t, {"full", "share", "dirty", "scan"})
    /\ t.full \in BOOLEAN /\ t.share \in BOOLEAN /\ t.dirty \subseteq Keys /\ t.scan \in Holdings

LEMMA MarkedKeeps ==
    ASSUME HubMoves, SyncInv, NEW c \in Clients, NEW t, Marks(sync[c], t), NEW own \in Holdings,
           sync' = [sync EXCEPT ![c] = Kick(c, t, own)] \/ sync' = [sync EXCEPT ![c] = t],
           UNCHANGED <<reply, replica, strays>>,
           local' \in [Clients -> Holdings], disk' \in [Clients -> Holdings]
    PROVE  SyncInv'
<1> DEFINE s == sync[c]
           u == Kick(c, t, own)
<1>1. /\ LoopOK(s) /\ LoopCaughtUp(s, replica[c]) /\ disk[c] \in Holdings /\ Fence \in Fences
      /\ \A q \in strays' : StrayOK(q)
  BY Acting
<1>2. Marks(s, t)
  OBVIOUS
<1> HIDE DEF s
<1>3. /\ SameBut(s, t, {"conn", "degraded", "malformed", "caughtUp", "full", "share", "dirty",
                        "scan", "pending"})
      /\ t.pending \in BOOLEAN /\ t.degraded \in BOOLEAN /\ t.malformed \in BOOLEAN
      /\ t.caughtUp \in Nat /\ (t.conn = NoConn \/ t.conn \in Links)
      /\ t.degraded = s.degraded /\ t.caughtUp = s.caughtUp /\ t.conn = s.conn
  BY <1>1, <1>2 DEF Marks, SameBut, LoopFields, LoopOK, LoopType
<1>4. t.conn # NoConn => AtOrAfter(Fence, ConnFence(t))
  BY <1>1, <1>3 DEF LoopOK, LoopFence, ConnFence
<1>5. s.pc \in Requests => t.conn # NoConn
  BY <1>1, <1>3 DEF LoopOK, LoopGate, Runnable
<1>6. LoopOK(t) /\ t.pc = s.pc /\ t.feed = s.feed /\ t.stale = s.stale /\ t.suspended = s.suspended
  BY <1>1, <1>2, <1>3, <1>4, <1>5, TouchedOK DEF Marks
<1>7. LoopCaughtUp(t, replica[c])
  BY <1>1, <1>3, <1>6 DEF LoopCaughtUp
<1>8. /\ Continues(s, t) /\ Continues(s, u) /\ LoopOK(u) /\ SameLink(t, u)
  BY <1>1, <1>6, KickedOK
<1>9. CASE sync' = [sync EXCEPT ![c] = t]
  BY <1>1, <1>6, <1>7, <1>8, <1>9, GoesOn DEF s
<1>10. CASE sync' = [sync EXCEPT ![c] = u]
  <2> HIDE DEF u
  <2>1. LoopCaughtUp(u, replica[c])
    BY <1>7, <1>8 DEF LoopCaughtUp, SameLink
  <2> QED
    BY <1>1, <1>8, <1>10, <2>1, GoesOn DEF s
<1> QED
  BY <1>9, <1>10

LEMMA EventsPokeKeeps ==
    ASSUME HubMoves, SyncInv, NEW c \in Clients, EventsPoke(c)
    PROVE  SyncInv'
<1>1. /\ sync' = [sync EXCEPT ![c] = Kick(c, sync[c], local[c])]
      /\ UNCHANGED <<reply, replica, strays, local, disk>>
  BY DEF EventsPoke, SyncTo
<1>2. /\ LoopOK(sync[c]) /\ local[c] \in Holdings
      /\ local' \in [Clients -> Holdings] /\ disk' \in [Clients -> Holdings]
  BY <1>1, Acting
<1>3. Marks(sync[c], sync[c])
  BY <1>2 DEF Marks, SameBut, LoopOK, LoopType
<1> QED
  BY <1>1, <1>2, <1>3, MarkedKeeps

LEMMA SweepKeeps ==
    ASSUME HubMoves, SyncInv, NEW c \in Clients, Sweep(c)
    PROVE  SyncInv'
<1> DEFINE s == sync[c]
           t == [s EXCEPT !.full = TRUE]
<1>1. /\ sync' = [sync EXCEPT ![c] = Kick(c, t, local[c])]
      /\ UNCHANGED <<reply, replica, strays, local, disk>>
  BY DEF Sweep, SyncTo
<1>2. /\ LoopOK(s) /\ local[c] \in Holdings
      /\ local' \in [Clients -> Holdings] /\ disk' \in [Clients -> Holdings]
  BY <1>1, Acting
<1>3. IsLoop(s)
  BY <1>2 DEF LoopOK, LoopType
<1>4. Marks(s, t)
  <2> HIDE DEF s
  <2>1. IsLoop(t) /\ \A f \in LoopFields \ {"full"} : t[f] = s[f]
    BY <1>3, Zenon DEF IsLoop
  <2>2. t.full = TRUE
    BY <1>3, SMT DEF IsLoop, LoopFields
  <2>3. t.full \in BOOLEAN
    BY <2>2, Zenon
  <2> HIDE DEF t
  <2> QED
    BY <1>2, <2>1, <2>3 DEF Marks, SameBut, LoopFields, LoopOK, LoopType
<1> HIDE DEF t
<1> QED
  BY <1>1, <1>2, <1>4, MarkedKeeps

LEMMA ToggleShareKeeps ==
    ASSUME HubMoves, SyncInv, NEW c \in Clients, ToggleShare(c)
    PROVE  SyncInv'
<1> DEFINE s == sync[c]
           off == [s EXCEPT !.share = FALSE]
           on == [s EXCEPT !.share = TRUE, !.full = TRUE]
<1>1. /\ \/ sync' = [sync EXCEPT ![c] = off]
         \/ sync' = [sync EXCEPT ![c] = Kick(c, on, local[c])]
      /\ UNCHANGED <<reply, replica, strays, local, disk>>
  BY DEF ToggleShare, SyncTo
<1>2. /\ LoopOK(s) /\ local[c] \in Holdings
      /\ local' \in [Clients -> Holdings] /\ disk' \in [Clients -> Holdings]
  BY <1>1, Acting
<1>3. IsLoop(s)
  BY <1>2 DEF LoopOK, LoopType
<1>4. Marks(s, off)
  <2> HIDE DEF s
  <2>1. IsLoop(off) /\ \A f \in LoopFields \ {"share"} : off[f] = s[f]
    BY <1>3, Zenon DEF IsLoop
  <2>2. off.share = FALSE
    BY <1>3, SMT DEF IsLoop, LoopFields
  <2>3. off.share \in BOOLEAN
    BY <2>2, Zenon
  <2> HIDE DEF off
  <2> QED
    BY <1>2, <2>1, <2>3 DEF Marks, SameBut, LoopFields, LoopOK, LoopType
<1>5. Marks(s, on)
  <2> HIDE DEF s
  <2>1. IsLoop(on) /\ \A f \in LoopFields \ {"share", "full"} : on[f] = s[f]
    BY <1>3, Zenon DEF IsLoop
  <2>2. on.share = TRUE /\ on.full = TRUE
    BY <1>3, SMT DEF IsLoop, LoopFields
  <2>3. on.share \in BOOLEAN /\ on.full \in BOOLEAN
    BY <2>2, Zenon
  <2> HIDE DEF on
  <2> QED
    BY <1>2, <2>1, <2>3 DEF Marks, SameBut, LoopFields, LoopOK, LoopType
<1> HIDE DEF off, on
<1> QED
  BY <1>1, <1>2, <1>4, <1>5, MarkedKeeps

LEMMA HoldingsTake ==
    ASSUME NEW own \in Holdings, NEW k \in Keys, NEW copy \in Copies
    PROVE  [own EXCEPT ![k] = copy] \in Holdings
BY DEF Holdings

\* A transcript's copy reaches the disk, the engine and a walk in progress.
LEMMA LocalWriteKeeps ==
    ASSUME HubMoves, SyncInv, NEW c \in Clients, LocalWrite(c)
    PROVE  SyncInv'
<1> DEFINE s == sync[c]
           own(w) == IF local[c][w[1]] = NoCopy \/ Supersedes(w[2], local[c][w[1]])
                     THEN [local[c] EXCEPT ![w[1]] = w[2]] ELSE local[c]
           marked(w) == [s EXCEPT !.dirty = @ \cup {w[1]},
                                  !.scan = IF s.pc = "prepare" THEN [@ EXCEPT ![w[1]] = w[2]] ELSE @]
<1>1. UNCHANGED <<reply, replica, strays>>
  BY DEF LocalWrite
<1>2. PICK w \in Produces[c] :
        /\ disk' = [disk EXCEPT ![c][w[1]] = w[2]]
        /\ local' = [local EXCEPT ![c] = own(w)]
        /\ sync' = [sync EXCEPT ![c] = Kick(c, marked(w), own(w))]
  BY Zenon DEF LocalWrite, Fresh, SyncTo
<1> DEFINE k == w[1]
           copy == w[2]
           held == own(w)
           t == marked(w)
<1>3. k \in Keys /\ copy \in Copies
  BY <1>2, SyncAssumption
<1>4. /\ LoopOK(s) /\ local[c] \in Holdings /\ disk[c] \in Holdings
      /\ local \in [Clients -> Holdings] /\ disk \in [Clients -> Holdings]
  BY Acting
<1>5. IsLoop(s) /\ s.scan \in Holdings /\ s.dirty \subseteq Keys
  BY <1>4 DEF LoopOK, LoopType
<1> HIDE DEF k, copy, s
<1>6. held \in Holdings
  BY <1>3, <1>4, HoldingsTake DEF k, copy
<1>7. local' \in [Clients -> Holdings]
  <2> HIDE DEF held
  <2> QED
    BY <1>2, <1>4, <1>6 DEF held
<1>8. disk' \in [Clients -> Holdings]
  <2>1. disk' = [disk EXCEPT ![c] = [disk[c] EXCEPT ![k] = copy]]
    BY <1>2, <1>4 DEF k, copy
  <2>2. [disk[c] EXCEPT ![k] = copy] \in Holdings
    BY <1>3, <1>4, HoldingsTake
  <2> QED
    BY <1>4, <2>1, <2>2
<1>9. Marks(s, t)
  <2> DEFINE dirty == s.dirty \cup {k}
             scan == IF s.pc = "prepare" THEN [s.scan EXCEPT ![k] = copy] ELSE s.scan
  <2>1. t = [s EXCEPT !.dirty = dirty, !.scan = scan]
    BY Zenon DEF k, copy
  <2>2. dirty \subseteq Keys /\ scan \in Holdings
    BY <1>3, <1>5, HoldingsTake
  <2> HIDE DEF t, dirty, scan
  <2>3. IsLoop(t) /\ \A f \in LoopFields \ {"dirty", "scan"} : t[f] = s[f]
    BY <1>5, <2>1, Zenon DEF IsLoop
  <2>4. t.dirty = dirty /\ t.scan = scan
    BY <1>5, <2>1, SMT DEF IsLoop, LoopFields
  <2> QED
    BY <1>4, <2>2, <2>3, <2>4 DEF Marks, SameBut, LoopFields, LoopOK, LoopType
<1> HIDE DEF t
<1>10. sync' = [sync EXCEPT ![c] = Kick(c, t, held)]
  BY <1>2 DEF t
<1> HIDE DEF held
<1> QED
  BY <1>1, <1>6, <1>7, <1>8, <1>9, <1>10, MarkedKeeps DEF s

LEMMA TranscriptGoneKeeps ==
    ASSUME HubMoves, SyncInv, NEW c \in Clients, TranscriptGone(c)
    PROVE  SyncInv'
<1>1. UNCHANGED <<sync, reply, replica, local, strays>>
  BY DEF TranscriptGone
<1>2. /\ local \in [Clients -> Holdings] /\ disk \in [Clients -> Holdings]
      /\ \A q \in strays : StrayOK(q)
  BY Acting
<1>3. disk' \in [Clients -> Holdings]
  <2>1. PICK k \in Keys : disk' = [disk EXCEPT ![c][k] = NoCopy]
    BY DEF TranscriptGone, Held
  <2> QED
    BY <1>2, <2>1 DEF Holdings
<1> QED
  BY <1>1, <1>2, <1>3, Still

\* The process starts again, over its replica or an empty one.
LEMMA RestartClientKeeps ==
    ASSUME HubMoves, SyncInv, NEW c \in Clients, RestartClient(c)
    PROVE  SyncInv'
<1> DEFINE share == sync[c].share
           t == [NewSync EXCEPT !.share = share]
<1>1. /\ sync' = [sync EXCEPT ![c] = t]
      /\ reply' = [reply EXCEPT ![c] = NoReply]
      /\ local' = [local EXCEPT ![c] = disk[c]]
      /\ UNCHANGED disk
      /\ strays' = strays \cup Abandoned(c)
  BY DEF RestartClient, SyncTo
<1>2. PICK opened \in {replica[c], NewReplica} : replica' = [replica EXCEPT ![c] = opened]
  BY DEF RestartClient
<1>3. /\ LoopOK(sync[c]) /\ disk[c] \in Holdings /\ Fence \in Fences
      /\ local \in [Clients -> Holdings] /\ disk \in [Clients -> Holdings]
      /\ ReplicaType(replica[c]) /\ ReplicaTrue(replica[c], history)
  BY Acting
<1>4. share \in BOOLEAN
  BY <1>3 DEF LoopOK, LoopType
<1> HIDE DEF share
<1>5. LoopOK(t) /\ t.conn = NoConn /\ t.pc = "idle"
  BY <1>3, <1>4, NewLoopOK
<1> HIDE DEF t
<1>6. ReplicaType(opened) /\ ReplicaTrue(opened, history)
  BY <1>2, <1>3, NewReplicaTrue
<1>7. LoopCaughtUp(t, opened) /\ ReplyTrue(t, opened, NoReply, history, Fence)
  BY <1>5, NoAnswer DEF LoopCaughtUp
<1>8. \A q \in strays' : StrayOK(q)
  BY <1>1, AbandonedOK
<1>9. local' \in [Clients -> Holdings] /\ disk' \in [Clients -> Holdings]
  BY <1>1, <1>3
<1> QED
  BY <1>1, <1>2, <1>5, <1>6, <1>7, <1>8, <1>9, Acts

\* Stopping the Hub closes the streams, and leaves the passes alone.
LEMMA HubStopsKeeps ==
    ASSUME HubMoves, SyncInv, HubStops
    PROVE  SyncInv'
<1> DEFINE closed(d) == IF sync[d].conn = NoConn THEN sync[d]
                        ELSE [sync[d] EXCEPT !.conn.live = FALSE]
<1>1. /\ sync' = [d \in Clients |-> closed(d)]
      /\ UNCHANGED <<reply, replica, local, disk, strays>>
  BY DEF HubStops
<1>2. /\ Fence \in Fences /\ Fence' \in Fences /\ AtOrAfter(Fence', Fence)
      /\ Grows(history, history')
  BY FenceMoves
<1>3. ASSUME NEW d \in Clients PROVE ClientFine(closed(d), replica[d], reply[d], history, Fence)
  <2> DEFINE s == sync[d]
             r == replica[d]
             t == closed(d)
  <2>1. /\ LoopOK(s) /\ ReplicaType(r) /\ ReplicaTrue(r, history) /\ LoopCaughtUp(s, r)
        /\ ReplyTrue(s, r, reply[d], history, Fence) /\ ClientFine(s, r, reply[d], history, Fence)
    BY Acting DEF SyncInv, ClientOK
  <2>2. CASE s.conn = NoConn
    BY <2>1, <2>2
  <2>3. CASE s.conn # NoConn
    <3> DEFINE conn == [s.conn EXCEPT !.live = FALSE]
    <3>1. t = [s EXCEPT !.conn = conn] /\ s.conn \in Links /\ IsLoop(s)
      <4>1. IsLoop(s) /\ s.conn \in Links
        BY <2>1, <2>3 DEF LoopOK, LoopType
      <4>2. t = [s EXCEPT !.conn.live = FALSE]
        BY <2>3
      <4> HIDE DEF t, s
      <4> QED
        BY <4>1, <4>2
    <3>2. conn \in Links /\ conn.epoch = s.conn.epoch /\ conn.generation = s.conn.generation
      BY <3>1 DEF Links
    <3> HIDE DEF conn, t, s
    <3>3. SameBut(s, t, {"conn"})
      <4>1. /\ IsLoop(t)
            /\ \A f \in LoopFields \ {"conn"} : t[f] = s[f]
        BY <3>1, Zenon DEF IsLoop
      <4> QED
        BY <4>1 DEF SameBut
    <3>4. t.conn = conn
      BY <3>1, SMT DEF IsLoop, LoopFields
    <3>5. conn # NoConn
      BY <3>2, SyncAssumption DEF Links
    <3>6. /\ SameBut(s, t, {"conn", "degraded", "malformed", "caughtUp", "full", "share", "dirty",
                            "scan", "pending"})
          /\ t.full \in BOOLEAN /\ t.share \in BOOLEAN /\ t.dirty \subseteq Keys
          /\ t.scan \in Holdings /\ t.pending \in BOOLEAN
          /\ t.degraded \in BOOLEAN /\ t.malformed \in BOOLEAN /\ t.caughtUp \in Nat
          /\ t.degraded = s.degraded /\ t.caughtUp = s.caughtUp
      BY <2>1, <3>3 DEF SameBut, LoopFields, LoopOK, LoopType
    <3>7. AtOrAfter(Fence, ConnFence(t))
      BY <2>1, <2>3, <3>2, <3>4 DEF LoopOK, LoopFence, ConnFence
    <3>8. LoopOK(t) /\ t.pc = s.pc /\ t.feed = s.feed /\ t.stale = s.stale /\ t.suspended = s.suspended
      BY <2>1, <3>2, <3>4, <3>5, <3>6, <3>7, TouchedOK
    <3>9. LoopCaughtUp(t, r)
      BY <2>1, <2>3, <3>6, <3>8 DEF LoopCaughtUp
    <3>10. ReplyTrue(t, r, reply[d], history, Fence)
      BY <2>1, <3>8 DEF ReplyTrue
    <3> QED
      BY <2>1, <3>8, <3>9, <3>10 DEF ClientFine, LoopOK, t
  <2> QED
    BY <2>2, <2>3
<1> HIDE DEF closed
<1>4. ASSUME NEW d \in Clients PROVE ClientFine(sync'[d], replica'[d], reply'[d], history', Fence')
  <2>1. ClientFine(closed(d), replica[d], reply[d], history', Fence')
    BY <1>2, <1>3, FineLater
  <2> QED
    BY <1>1, <2>1
<1>5. PerClient'
  BY <1>1 DEF SyncInv, PerClient
<1> QED
  BY <1>1, <1>4, <1>5 DEF SyncInv, ClientOK, StrayOK

-------------------------------------------------------------------------------
(* What the fleet's steps do to the Hub *)

\* A step of the Hub on its own, or a fault that is not the Hub's.
FaultElsewhere == SpendFault /\ UNCHANGED <<archiveVars, snapshots, lastSnapshot, backup, history>>
HubStep == [HubNext]_hubVars \/ FaultElsewhere

LEMMA HubKept ==
    ASSUME HubInv, TimelineInv, HubStep
    PROVE  HubMoves
<1>1. CASE [HubNext]_hubVars
  BY <1>1, HubStepInv, TimelineStep, HistoryStep DEF HubMoves
<1>2. CASE FaultElsewhere
  <2>1. /\ faults \in 0 .. MaxFaults /\ faults > 0 /\ faults' = faults - 1 /\ MaxFaults \in Nat
    BY <1>2, HubAssumption DEF FaultElsewhere, SpendFault, HubInv
  <2>2. faults' \in 0 .. MaxFaults
    BY <2>1
  <2>3. /\ UNCHANGED archiveVars /\ UNCHANGED <<snapshots, lastSnapshot, backup, history>>
    BY <1>2 DEF FaultElsewhere
  <2>4. FileOK' /\ BackupOK' /\ SnapshotsOK'
    BY <2>3 DEF HubInv, FileOK, BackupOK, SnapshotsOK, archiveVars
  <2>5. TimelineInv'
    <3>1. ReceiptsExact(operations', history[epoch], cursor)
      BY <2>3 DEF archiveVars, TimelineInv, TimelineOK
    <3> QED
      BY <2>3, <3>1, TimelineUnchanged DEF archiveVars
  <2>6. HistoryGrows
    BY <2>3, HubTypes DEF HistoryGrows, archiveVars
  <2> QED
    BY <2>2, <2>4, <2>5, <2>6 DEF HubInv, HubMoves
<1> QED
  BY <1>1, <1>2 DEF HubStep

\* A parcel pushed under any fence is a push of the Hub's own, or nothing.
LEMMA ParcelPushed ==
    ASSUME NEW m \in Machines, NEW fence, NEW batch \in Parcels, Push(m, fence, batch)
    PROVE  HubStep
<1>1. fence = Fence
  BY DEF Push
<1>2. CASE batch \in Batches
  BY <1>1, <1>2 DEF HubStep, HubNext
<1>3. CASE batch \notin Batches
  <2>1. PICK S \in SUBSET Keys : batch \in [S -> Copies]
    BY DEF Parcels
  <2>2. S = {}
    <3> SUFFICES ASSUME S # {} PROVE FALSE
      OBVIOUS
    <3>1. S \in (SUBSET Keys) \ {{}}
      BY <2>1
    <3>2. [S -> Copies] \in {[T -> Copies] : T \in (SUBSET Keys) \ {{}}}
      BY <3>1
    <3>3. batch \in UNION {[T -> Copies] : T \in (SUBSET Keys) \ {{}}}
      BY <2>1, <3>2, Zenon
    <3> QED
      BY <1>3, <3>3, Zenon DEF Batches
  <2>3. Winners(batch) = {}
    BY <2>1, <2>2 DEF Winners
  <2>4. UNCHANGED <<archiveVars, faults, history>> /\ UNCHANGED <<snapshots, lastSnapshot, backup>>
    BY <2>3 DEF Push
  <2> QED
    BY <2>4 DEF HubStep, hubVars
<1> QED
  BY <1>2, <1>3

\* What a client's step is to the Hub.
LEMMA ServeIsHubStep ==
    ASSUME SyncInv, NEW c \in Clients, Serve(c)
    PROVE  HubStep
<1>1. CASE ServeSnapshot(c)
  <2>1. \/ OpenSnapshot /\ UNCHANGED <<archiveVars, backup, faults, history>>
        \/ UNCHANGED <<snapshots, lastSnapshot>> /\ UNCHANGED <<archiveVars, backup, faults, history>>
    BY <1>1, Zenon DEF ServeSnapshot
  <2>2. CASE OpenSnapshot /\ UNCHANGED <<archiveVars, backup, faults, history>>
    BY <2>2 DEF HubStep, HubNext, SnapshotRequest
  <2>3. CASE UNCHANGED <<snapshots, lastSnapshot>> /\ UNCHANGED <<archiveVars, backup, faults, history>>
    BY <2>3 DEF HubStep, hubVars
  <2> QED
    BY <2>1, <2>2, <2>3
<1>2. CASE ServeChanges(c)
  <2>1. PruneHistory \/ UNCHANGED hubVars
    BY <1>2, Zenon DEF ServeChanges
  <2> QED
    BY <2>1 DEF HubStep, HubNext
<1>3. CASE ServeStatus(c)
  BY <1>3 DEF ServeStatus, HubStep
<1>4. CASE ServePush(c)
  <2>1. sync[c].sent \in Parcels /\ c \in Machines
    BY SyncAssumption DEF SyncInv, ClientOK, ClientFine, LoopType
  <2>2. Push(c, sync[c].fence, sync[c].sent) \/ UNCHANGED hubVars
    BY <1>4 DEF ServePush, PushConflict
  <2> QED
    BY <2>1, <2>2, ParcelPushed DEF HubStep
<1> QED
  BY <1>1, <1>2, <1>3, <1>4 DEF Serve

LEMMA ReceiveIsHubStep ==
    ASSUME NEW c \in Clients, Receive(c) \/ Work(c) \/ Fault(c)
    PROVE  HubStep
<1>1. UNCHANGED hubVars \/ FaultElsewhere
  <2>1. CASE Receive(c)
    BY <2>1 DEF Receive, ReceiveSnapshot, ReceiveChanges, ReceiveStatus, ReceivePush
  <2>2. CASE Work(c)
    BY <2>2 DEF Work, Feed, FinishPrepare, ReconcileUnlink, ReconcileFinish
  <2>3. CASE Fault(c)
    BY <2>3 DEF Fault, RequestFails, FeedFails, ReconcileFails, ToggleShare, TranscriptGone,
                RestartClient, FaultElsewhere
  <2> QED
    BY <2>1, <2>2, <2>3
<1> QED
  BY <1>1 DEF HubStep

LEMMA OtherIsHubStep ==
    ASSUME NEW c \in Clients,
           Connect(c) \/ Disconnect(c) \/ StatusFrame(c) \/ EventsPoke(c) \/ Sweep(c) \/ LocalWrite(c)
    PROVE  HubStep
<1>1. CASE Disconnect(c)
  <2>1. SpendFault \/ faults' = faults
    BY <1>1 DEF Disconnect
  <2>2. UNCHANGED <<archiveVars, snapshots, lastSnapshot, backup, history>>
    BY <1>1 DEF Disconnect
  <2> QED
    BY <2>1, <2>2 DEF HubStep, FaultElsewhere, hubVars
<1>2. CASE Connect(c) \/ StatusFrame(c) \/ EventsPoke(c) \/ Sweep(c) \/ LocalWrite(c)
  BY <1>2 DEF HubStep, Connect, StatusFrame, EventsPoke, Sweep, LocalWrite
<1> QED
  BY <1>1, <1>2

LEMMA HubOwnStep ==
    ASSUME SyncInv, ServeStray \/ PeerPush \/ Purge \/ Expire \/ HubStops
    PROVE  HubStep
<1>1. CASE ServeStray
  <2>1. PICK q \in strays : Push(q.machine, q.fence, q.batch) \/ UNCHANGED hubVars
    BY <1>1 DEF ServeStray
  <2>2. q.machine \in Machines /\ q.batch \in Parcels
    BY SyncAssumption DEF SyncInv, StrayOK
  <2> QED
    BY <2>1, <2>2, ParcelPushed DEF HubStep
<1>2. CASE PeerPush
  BY <1>2 DEF PeerPush, HubStep, HubNext
<1>3. CASE Purge
  <2>1. PICK op \in Ops, m \in Machines : Remove(op, [machine |-> m, sessions |-> Sessions])
    BY <1>3 DEF Purge
  <2>2. [machine |-> m, sessions |-> Sessions] \in Scopes
    <3>1. Sessions \in (SUBSET Sessions) \ {{}}
      BY SyncAssumption
    <3> QED
      BY <3>1 DEF Scopes
  <2> QED
    BY <2>1, <2>2 DEF HubStep, HubNext
<1>4. CASE Expire
  BY <1>4 DEF Expire, HubStep, HubNext
<1>5. CASE HubStops
  BY <1>5 DEF HubStops, HubStep, HubNext
<1> QED
  BY <1>1, <1>2, <1>3, <1>4, <1>5

LEMMA EveryStepMovesTheHub ==
    ASSUME HubInv, TimelineInv, SyncInv, [Next]_vars
    PROVE  HubMoves
<1>1. HubStep
  <2>1. CASE UNCHANGED vars
    BY <2>1 DEF vars, HubStep
  <2>2. ASSUME NEW c \in Clients,
               Serve(c) \/ Receive(c) \/ Work(c) \/ Fault(c) \/ Connect(c) \/ Disconnect(c)
                 \/ StatusFrame(c) \/ EventsPoke(c) \/ Sweep(c) \/ LocalWrite(c)
        PROVE  HubStep
    BY <2>2, ServeIsHubStep, ReceiveIsHubStep, OtherIsHubStep
  <2> QED
    BY <2>1, <2>2, HubOwnStep DEF Next
<1> QED
  BY <1>1, HubKept

-------------------------------------------------------------------------------
(* The invariant *)

LEMMA ServeStrayKeeps ==
    ASSUME HubMoves, SyncInv, ServeStray
    PROVE  SyncInv'
<1>1. UNCHANGED <<sync, reply, replica, local, disk>> /\ strays' \subseteq strays
  BY DEF ServeStray, OthersUnchanged
<1>2. local' \in [Clients -> Holdings] /\ disk' \in [Clients -> Holdings]
  BY <1>1 DEF SyncInv, PerClient
<1>3. \A q \in strays' : StrayOK(q)
  BY <1>1 DEF SyncInv
<1> QED
  BY <1>1, <1>2, <1>3, Still

\* Steps of which no client notices anything.
LEMMA UnseenKeeps ==
    ASSUME HubMoves, SyncInv, UNCHANGED <<sync, reply, replica, local, disk, strays>>
    PROVE  SyncInv'
<1>1. local' \in [Clients -> Holdings] /\ disk' \in [Clients -> Holdings]
      /\ \A q \in strays' : StrayOK(q)
  BY DEF SyncInv, PerClient
<1> QED
  BY <1>1, Still

LEMMA SyncStep ==
    ASSUME HubInv, TimelineInv, SyncInv, [Next]_vars
    PROVE  HubInv' /\ TimelineInv' /\ SyncInv'
<1>1. HubMoves
  BY EveryStepMovesTheHub
<1>2. ASSUME NEW c \in Clients, Serve(c) PROVE SyncInv'
  BY <1>1, <1>2, ServeSnapshotKeeps, ServeChangesKeeps, ServeStatusKeeps, ServePushKeeps DEF Serve
<1>3. ASSUME NEW c \in Clients, Receive(c) PROVE SyncInv'
  BY <1>1, <1>3, ReceiveSnapshotKeeps, ReceiveChangesKeeps, ReceiveStatusKeeps, ReceivePushKeeps
     DEF Receive
<1>4. ASSUME NEW c \in Clients, Work(c) PROVE SyncInv'
  BY <1>1, <1>4, FeedKeeps, FinishPrepareKeeps, ReconcileUnlinkKeeps, ReconcileFinishKeeps DEF Work
<1>5. ASSUME NEW c \in Clients, Fault(c) PROVE SyncInv'
  <2>1. CASE ReconcileFails(c)
    BY <1>1, <2>1, UnseenKeeps DEF ReconcileFails
  <2> QED
    BY <1>1, <1>5, <2>1, RequestFailsKeeps, FeedFailsKeeps, ToggleShareKeeps, TranscriptGoneKeeps,
       RestartClientKeeps DEF Fault
<1>6. ASSUME NEW c \in Clients,
             Connect(c) \/ Disconnect(c) \/ StatusFrame(c) \/ EventsPoke(c) \/ Sweep(c) \/ LocalWrite(c)
      PROVE  SyncInv'
  BY <1>1, <1>6, ConnectKeeps, DisconnectKeeps, StatusFrameKeeps, EventsPokeKeeps, SweepKeeps,
     LocalWriteKeeps
<1>7. ASSUME Purge \/ PeerPush \/ Expire \/ UNCHANGED vars PROVE SyncInv'
  BY <1>1, <1>7, UnseenKeeps DEF Purge, PeerPush, Expire, clientVars, vars
<1>8. SyncInv'
  BY <1>1, <1>2, <1>3, <1>4, <1>5, <1>6, <1>7, ServeStrayKeeps, HubStopsKeeps DEF Next
<1> QED
  BY <1>1, <1>8 DEF HubMoves

LEMMA SyncInitInv ==
    ASSUME Init
    PROVE  HubInv /\ TimelineInv /\ SyncInv
<1>1. HubInv /\ TimelineInv
  BY HubInitInv, TimelineInit DEF Init
<1>2. Fence \in Fences
  BY <1>1, HubFence DEF HubTrue
<1>3. LoopOK(NewSync) /\ NewSync.conn = NoConn /\ NewSync.pc = "idle"
  <2>1. NewSync = [NewSync EXCEPT !.share = TRUE]
    <3>1. IsLoop(NewSync)
      BY Zenon DEF IsLoop, NewSync, LoopFields
    <3>2. NewSync.share = TRUE
      BY DEF NewSync
    <3> QED
      BY <3>1, <3>2 DEF IsLoop
  <2>2. TRUE \in BOOLEAN
    OBVIOUS
  <2> QED
    BY <1>2, <2>1, <2>2, NewLoopOK
<1>4. /\ sync = [c \in Clients |-> NewSync] /\ reply = [c \in Clients |-> NoReply]
      /\ replica = [c \in Clients |-> NewReplica]
      /\ local = [c \in Clients |-> NoCopies] /\ disk = [c \in Clients |-> NoCopies]
      /\ strays = {}
  BY DEF Init
<1>5. ASSUME NEW c \in Clients PROVE ClientOK(c)
  <2>1. sync[c] = NewSync /\ reply[c] = NoReply /\ replica[c] = NewReplica
    BY <1>4
  <2>2. ReplyTrue(NewSync, NewReplica, NoReply, history, Fence) /\ LoopCaughtUp(NewSync, NewReplica)
    BY <1>3, NoAnswer DEF LoopCaughtUp
  <2> QED
    BY <1>3, <2>1, <2>2, NewReplicaTrue DEF ClientOK, ClientFine, LoopOK
<1>6. PerClient
  BY <1>4, NoCopiesHeld DEF PerClient
<1> QED
  BY <1>1, <1>4, <1>5, <1>6 DEF SyncInv

\* The inductive invariant of the Hub and its clients.
THEOREM SyncInvariant == Spec => [](HubInv /\ TimelineInv /\ SyncInv)
<1>1. (HubInv /\ TimelineInv /\ SyncInv) /\ [Next]_vars => (HubInv /\ TimelineInv /\ SyncInv)'
  BY SyncStep
<1> QED
  BY <1>1, SyncInitInv, PTL DEF Spec

-------------------------------------------------------------------------------
(* What the invariant says of the replicas and the pumps *)

\* A seeded replica is the archive as it was at the replica's cursor
\* (`applySnapshot`, `applyChanges`), whatever the fleet and its bounds.
THEOREM ReplicaIsPrefixHolds == Spec => []ReplicaIsPrefix
<1>1. SyncInv => ReplicaIsPrefix
  BY SyncAssumption DEF SyncInv, ClientOK, ClientFine, ReplicaTrue, ReplicaIsPrefix
<1> QED
  BY <1>1, SyncInvariant, PTL

\* A partial snapshot holds the pages before its offset of one pinned state,
\* also after the client disconnected or restarted (`applySnapshot`).
THEOREM PartialSeedIsSliceHolds == Spec => []PartialSeedIsSlice
<1>1. SyncInv => PartialSeedIsSlice
  <2> SUFFICES ASSUME SyncInv, NEW c \in Replicating,
                      ~replica[c].seeded, replica[c].snapshot # 0, NEW k \in Keys
               PROVE  LET r == replica[c]
                          pinned == history[r.epoch][r.snapCursor].rows
                      IN  r.rows[k] = IF k \in Slice(pinned, 0, r.offset) THEN pinned[k] ELSE NoRow
    BY DEF PartialSeedIsSlice
  <2> DEFINE r == replica[c]
             pinned == history[r.epoch][r.snapCursor].rows
  <2>1. r.rows = PagesTo(pinned, r.offset)
    BY SyncAssumption DEF SyncInv, ClientOK, ClientFine, ReplicaTrue
  <2> QED
    BY <2>1 DEF PagesTo
<1> QED
  BY <1>1, SyncInvariant, PTL

\* A client that reports itself caught up (`isCaughtUp`) holds a state of the
\* archive no older than what the Hub has advertised to it.
THEOREM CaughtUpIsProvenHolds == Spec => []CaughtUpIsProven
<1>1. SyncInv => CaughtUpIsProven
  <2> SUFFICES ASSUME SyncInv, NEW c \in Replicating, IsCaughtUp(c)
               PROVE  \E n \in DOMAIN history[sync[c].conn.epoch] :
                         /\ n >= sync[c].conn.seq
                         /\ replica[c].rows = history[sync[c].conn.epoch][n].rows
    BY DEF CaughtUpIsProven
  <2> DEFINE s == sync[c]
             r == replica[c]
  <2>1. /\ s.conn # NoConn /\ ~s.suspended /\ r.seeded
        /\ r.epoch = s.conn.epoch /\ s.caughtUp >= s.conn.seq
    BY DEF IsCaughtUp, Runnable
  <2>2. LoopType(s) /\ ReplicaType(r) /\ ReplicaTrue(r, history) /\ LoopCaughtUp(s, r)
    BY SyncAssumption DEF SyncInv, ClientOK, ClientFine
  <2>3. s.conn.seq \in Nat /\ s.caughtUp \in Nat /\ r.cursor \in Nat
    BY <2>1, <2>2 DEF LoopType, Links, ReplicaType
  <2>4. s.caughtUp <= r.cursor
    BY <2>1, <2>2 DEF LoopCaughtUp
  <2>5. /\ r.cursor \in DOMAIN history[r.epoch]
        /\ history[r.epoch][r.cursor] = [rows |-> r.rows, generation |-> r.generation]
    BY <2>1, <2>2 DEF ReplicaTrue
  <2>6. r.cursor >= s.conn.seq
    BY <2>1, <2>3, <2>4
  <2> QED
    BY <2>1, <2>5, <2>6
<1> QED
  BY <1>1, SyncInvariant, PTL

\* What a prepared client pushes was walked after the deletion that made the
\* fence it pushes under (`prepareContributions`, the fence of a push).
THEOREM PreparedAfterDeletionHolds == Spec => []PreparedAfterDeletion
<1>1. SyncInv => PreparedAfterDeletion
  BY DEF SyncInv, ClientOK, ClientFine, LoopFence, PreparedAfterDeletion
<1> QED
  BY <1>1, SyncInvariant, PTL

-------------------------------------------------------------------------------
(* A replica is a FleetCopy of the archives *)

CopyOf(r) ==
    IF r.seeded
    THEN [epoch |-> r.epoch, at |-> r.cursor,
          content |-> [rows |-> r.rows, generation |-> r.generation]]
    ELSE NoCopy

LEMMA CopiesAre == copies = [c \in Replicating |-> CopyOf(replica[c])]
BY DEF copies, CopyOf

LEMMA SeededCopy ==
    ASSUME NEW r, ReplicaType(r), r.seeded
    PROVE  CopyOf(r) # NoCopy /\ CopyOf(r).epoch = r.epoch /\ CopyOf(r).at = r.cursor
<1>1. CopyOf(r) = [epoch |-> r.epoch, at |-> r.cursor,
                   content |-> [rows |-> r.rows, generation |-> r.generation]]
  BY Zenon DEF CopyOf
<1>2. [rows |-> r.rows, generation |-> r.generation] \in [rows : Corpus, generation : Nat]
  BY DEF ReplicaType
<1>3. CopyOf(r) \in [epoch : Nat, at : Nat, content : [rows : Corpus, generation : Nat]]
  BY <1>1, <1>2 DEF ReplicaType
<1>4. CopyOf(r).epoch = r.epoch /\ CopyOf(r).at = r.cursor
  BY <1>1
<1>5. QED
  BY <1>3, <1>4, SyncAssumption

\* How one replica may change: dropped, taken whole, or moved forward.
ReplicaMoves(r, t) ==
    \/ ~t.seeded
    \/ ~r.seeded
    \/ r.seeded /\ t.seeded /\ t.epoch = r.epoch /\ t.cursor > r.cursor

LEMMA OneCopyMoves ==
    ASSUME SyncInv, NEW c \in Clients, NEW t, ReplicaType(t), ReplicaTrue(t, history),
           replica' = [replica EXCEPT ![c] = t], UNCHANGED history, ReplicaMoves(replica[c], t)
    PROVE  [Copy!Next]_(Copy!copyVars)
<1> DEFINE r == replica[c]
<1>1. /\ ReplicaType(r) /\ replica = [d \in Clients |-> replica[d]]
      /\ Replicating \subseteq Clients
  BY SyncAssumption DEF SyncInv, PerClient, ClientOK, ClientFine
<1>2. /\ replica'[c] = t /\ \A d \in Clients : d # c => replica'[d] = replica[d]
  BY <1>1
<1>3. copies = [d \in Replicating |-> CopyOf(replica[d])]
      /\ copies' = [d \in Replicating |-> CopyOf(replica'[d])]
  BY CopiesAre DEF CopyOf, copies
<1>4. CASE c \notin Replicating \/ CopyOf(t) = CopyOf(r)
  <2>1. \A d \in Replicating : CopyOf(replica'[d]) = CopyOf(replica[d])
    BY <1>1, <1>2, <1>4
  <2>2. copies' = copies
    BY <1>3, <2>1
  <2> QED
    BY <2>2 DEF Copy!copyVars
<1>5. CASE c \in Replicating /\ CopyOf(t) # CopyOf(r)
  <2>1. copies[c] = CopyOf(r)
    BY <1>3, <1>5
  <2>2. copies' = [copies EXCEPT ![c] = CopyOf(t)]
    BY <1>1, <1>2, <1>3, <1>5
  <2> HIDE DEF r
  <2>3. t.seeded => /\ t.epoch \in DOMAIN history /\ t.cursor \in DOMAIN history[t.epoch]
                    /\ CopyOf(t) = Copy!CopyAt(t.epoch, t.cursor)
    BY DEF ReplicaTrue, CopyOf, Copy!CopyAt
  <2>4. CASE ~t.seeded
    <3>1. CopyOf(t) = NoCopy /\ copies[c] # NoCopy
      BY <1>5, <2>1, <2>4 DEF CopyOf
    <3> QED
      BY <1>5, <2>2, <3>1 DEF Copy!Next, Copy!Drop
  <2>5. CASE t.seeded /\ ~r.seeded
    <3>1. copies[c] = NoCopy
      BY <2>1, <2>5 DEF CopyOf
    <3>2. Copy!Take(c)
      BY <2>2, <2>3, <2>5, <3>1, Zenon DEF Copy!Take
    <3> QED
      BY <1>5, <3>2, Zenon DEF Copy!Next
  <2>6. CASE t.seeded /\ r.seeded
    <3>1. t.epoch = r.epoch /\ t.cursor > r.cursor
      BY <2>6 DEF ReplicaMoves, r
    <3>2. copies[c] # NoCopy /\ copies[c].epoch = r.epoch /\ copies[c].at = r.cursor
      <4>1. ReplicaType(r)
        BY <1>1 DEF r
      <4>2. CopyOf(r) # NoCopy /\ CopyOf(r).epoch = r.epoch /\ CopyOf(r).at = r.cursor
        BY <4>1, <2>6, SeededCopy
      <4> QED
        BY <2>1, <4>2, Zenon
    <3>3. Copy!Advance(c)
      BY <2>2, <2>3, <2>6, <3>1, <3>2, Zenon DEF Copy!Advance
    <3> QED
      BY <1>5, <3>3, Zenon DEF Copy!Next
  <2> QED
    BY <2>4, <2>5, <2>6
<1> QED
  BY <1>4, <1>5

HasAllEpochs == DOMAIN history = 1 .. epoch

LEMMA HistoryDomain == HubInv => HasAllEpochs
BY HubTypes DEF HasAllEpochs

\* The archives change as FleetCopy has it: one state more, or one archive more.
LEMMA ArchiveMoves ==
    ASSUME HubInv, TimelineInv, HubStep, UNCHANGED copies
    PROVE  [Copy!Next]_(Copy!copyVars)
<1>1. /\ epoch \in Nat /\ cursor \in Nat /\ epoch \in 1 .. MaxEpoch
      /\ DOMAIN history = 1 .. epoch /\ DOMAIN history[epoch] = 0 .. cursor
  BY HubFence, HubTypes DEF HubTrue
<1>2. CASE UNCHANGED history
  BY <1>2 DEF Copy!copyVars
<1>3. ASSUME NEW corpus, NEW upserts, NEW deletes, AppendChange(corpus, upserts, deletes),
             epoch' = epoch, HubInv'
      PROVE  Copy!Append
  <2>1. /\ DOMAIN history'[epoch] = 0 .. (cursor + 1)
        /\ \A n \in 0 .. cursor : history'[epoch][n] = history[epoch][n]
        /\ \A e \in 1 .. epoch : e # epoch => history'[e] = history[e]
    BY <1>3, AppendGrows
  <2>2. DOMAIN history' = DOMAIN history
    <3>1. HasAllEpochs'
      BY <1>3, HistoryDomain, PTL
    <3> QED
      BY <1>1, <1>3, <3>1 DEF HasAllEpochs
  <2>3. Copy!Last(epoch) = cursor
    <3>1. cursor \in DOMAIN history[epoch] /\ \A p \in DOMAIN history[epoch] : p <= cursor
      BY <1>1
    <3>2. \A n \in DOMAIN history[epoch] : (\A p \in DOMAIN history[epoch] : p <= n) => n = cursor
      BY <1>1, <3>1
    <3> QED
      BY <3>1, <3>2 DEF Copy!Last
  <2>4. epoch \in DOMAIN history /\ epoch + 1 \notin DOMAIN history
    BY <1>1
  <2> QED
    BY <1>1, <2>1, <2>2, <2>3, <2>4, Zenon DEF Copy!Append
<1>4. ASSUME Restore PROVE Copy!Renew
  <2>1. /\ epoch' = epoch + 1 /\ history'[epoch'] = backup.states
        /\ \A e \in 1 .. epoch : history'[e] = history[e]
    BY <1>4, RestoreGrows DEF Restore
  <2>2. DOMAIN history' = 1 .. (epoch + 1)
    BY <1>4 DEF Restore
  <2>3. epoch \in DOMAIN history /\ epoch + 1 \notin DOMAIN history
        /\ DOMAIN history' = DOMAIN history \cup {epoch + 1}
    BY <1>1, <2>2
  <2>4. PICK d \in DOMAIN history : \E m \in DOMAIN history[d] :
           backup.states = [p \in 0 .. m |-> history[d][p]]
    BY <1>1 DEF TimelineInv, PastOK
  <2>5. \E m \in DOMAIN history[d] : history'[epoch + 1] = [p \in 0 .. m |-> history[d][p]]
    BY <2>1, <2>4
  <2> QED
    BY <1>1, <2>1, <2>3, <2>5, Zenon DEF Copy!Renew
<1>5. CASE \E m \in Machines, batch \in Batches : Push(m, Fence, batch)
  <2>1. \/ UNCHANGED history
        \/ \E corpus, puts : AppendChange(corpus, puts, None) /\ epoch' = epoch
    BY <1>5, Zenon DEF Push
  <2>2. HubInv'
    BY HubKept DEF HubMoves
  <2> QED
    BY <1>2, <1>3, <2>1, <2>2 DEF Copy!Next
<1>6. CASE \E op \in Ops, scope \in Scopes : Remove(op, scope)
  <2>1. \/ UNCHANGED history
        \/ \E corpus, gone : AppendChange(corpus, None, gone) /\ epoch' = epoch
    BY <1>6, Zenon DEF Remove
  <2>2. HubInv'
    BY HubKept DEF HubMoves
  <2> QED
    BY <1>2, <1>3, <2>1, <2>2 DEF Copy!Next
<1>7. CASE Restore
  BY <1>4, <1>7 DEF Copy!Next
<1>8. CASE ~(\/ \E m \in Machines, batch \in Batches : Push(m, Fence, batch)
             \/ \E op \in Ops, scope \in Scopes : Remove(op, scope)
             \/ Restore)
  <2>1. UNCHANGED history
    BY <1>8 DEF HubStep, HubNext, hubVars, FaultElsewhere, PushConflict, RemoveAgain, PruneHistory,
                SnapshotRequest, ExpireSnapshot, RestartHub, TakeBackup
  <2> QED
    BY <1>2, <2>1
<1> QED
  BY <1>5, <1>6, <1>7, <1>8

\* A step moves the archives or one replica, never both.
LEMMA CopyStep ==
    ASSUME HubInv, TimelineInv, SyncInv, [Next]_vars
    PROVE  [Copy!Next]_(Copy!copyVars)
<1>1. HubStep
  <2>1. CASE UNCHANGED vars
    BY <2>1 DEF vars, HubStep
  <2> QED
    BY <2>1, ServeIsHubStep, ReceiveIsHubStep, OtherIsHubStep, HubOwnStep DEF Next
<1>2. CASE UNCHANGED replica
  <2>1. UNCHANGED copies
    BY <1>2 DEF copies
  <2> QED
    BY <1>1, <2>1, ArchiveMoves
<1>3. ASSUME NEW c \in Clients,
             ReceiveSnapshot(c) \/ ReceiveChanges(c) \/ ReconcileUnlink(c) \/ RestartClient(c),
             replica' # replica
      PROVE  [Copy!Next]_(Copy!copyVars)
  <2>1. UNCHANGED history
    BY <1>3 DEF ReceiveSnapshot, ReceiveChanges, ReconcileUnlink, RestartClient, hubVars
  <2>2. /\ ReplicaType(replica[c]) /\ ReplicaTrue(replica[c], history) /\ StatesTrue(history)
        /\ ReplyTrue(sync[c], replica[c], reply[c], history, Fence)
        /\ replica = [replica EXCEPT ![c] = replica[c]]
    <3>1. replica = [replica EXCEPT ![c] = replica[c]]
      BY SameAt DEF SyncInv, PerClient
    <3> QED
      BY <3>1, HubFence DEF SyncInv, ClientOK, ClientFine, HubTrue
  <2>3. \E t : /\ replica' = [replica EXCEPT ![c] = t] /\ ReplicaType(t) /\ ReplicaTrue(t, history)
               /\ ReplicaMoves(replica[c], t)
    <3> DEFINE r == replica[c]
               page == reply[c].body
               u == SnapshotApplied(r, page)
               v == ChangesApplied(r, page)
    <3>1. CASE ReceiveSnapshot(c)
      <4>1. /\ sync[c].pc = "snapshot" /\ reply[c] # NoReply /\ reply[c].status = "ok"
            /\ SnapshotFits(r, page) /\ replica' = [replica EXCEPT ![c] = u]
        BY <1>3, <3>1 DEF ReceiveSnapshot
      <4>2. SnapshotPageTrue(page, history)
        BY <2>2, <4>1 DEF ReplyTrue
      <4>3. ReplicaType(u) /\ ReplicaTrue(u, history)
        BY <2>2, <4>1, <4>2, SnapshotCommitted
      <4>4. ~r.seeded
        BY <4>1 DEF SnapshotFits
      <4> QED
        BY <4>1, <4>3, <4>4 DEF ReplicaMoves
    <3>2. CASE ReceiveChanges(c)
      <4>1. /\ sync[c].pc = "changes" /\ reply[c] # NoReply /\ reply[c].status = "ok"
            /\ ChangesFit(r, page) /\ News(r, page) # {} /\ replica' = [replica EXCEPT ![c] = v]
        BY <1>3, <3>2 DEF ReceiveChanges
      <4>2. ChangesPageTrue(page, history, Fence)
        BY <2>2, <4>1 DEF ReplyTrue
      <4>3. /\ ReplicaType(v) /\ ReplicaTrue(v, history)
            /\ v.seeded /\ v.epoch = r.epoch /\ v.cursor > r.cursor
        BY <2>2, <4>1, <4>2, ChangesCommitted
      <4>4. r.seeded
        BY <4>1 DEF ChangesFit
      <4> HIDE DEF v
      <4> QED
        BY <4>1, <4>3, <4>4 DEF ReplicaMoves
    <3>3. CASE ReconcileUnlink(c) \/ RestartClient(c)
      <4>1. replica' = [replica EXCEPT ![c] = NewReplica]
        BY <1>3, <2>2, <3>3 DEF ReconcileUnlink, RestartClient
      <4>2. ~NewReplica.seeded
        BY DEF NewReplica
      <4> QED
        BY <4>1, <4>2, NewReplicaTrue DEF ReplicaMoves
    <3> QED
      BY <1>3, <3>1, <3>2, <3>3
  <2> QED
    BY <2>1, <2>3, OneCopyMoves
<1>4. ASSUME NEW c \in Clients,
             \/ Serve(c) \/ ReceiveStatus(c) \/ ReceivePush(c) \/ Feed(c) \/ FinishPrepare(c)
             \/ ReconcileFinish(c)
             \/ RequestFails(c) \/ FeedFails(c) \/ ReconcileFails(c) \/ ToggleShare(c)
             \/ TranscriptGone(c)
             \/ Connect(c) \/ Disconnect(c) \/ StatusFrame(c) \/ EventsPoke(c) \/ Sweep(c)
             \/ LocalWrite(c)
      PROVE  UNCHANGED replica
  BY <1>4 DEF Serve, ServeSnapshot, ServeChanges, ServeStatus, ServePush, OthersUnchanged,
     ReceiveStatus, ReceivePush, Feed, FinishPrepare, ReconcileFinish, RequestFails, FeedFails,
     ReconcileFails, ToggleShare, TranscriptGone, Connect, Disconnect, StatusFrame, EventsPoke,
     Sweep, LocalWrite
<1>5. ASSUME ServeStray \/ PeerPush \/ Purge \/ Expire \/ HubStops \/ UNCHANGED vars
      PROVE  UNCHANGED replica
  BY <1>5 DEF ServeStray, OthersUnchanged, PeerPush, Purge, Expire, HubStops, clientVars, vars
<1>6. CASE replica' # replica
  <2>1. PICK c \in Clients :
           ReceiveSnapshot(c) \/ ReceiveChanges(c) \/ ReconcileUnlink(c) \/ RestartClient(c)
    BY <1>4, <1>5, <1>6, Zenon DEF Next, Receive, Work, Fault
  <2> QED
    BY <1>3, <1>6, <2>1
<1> QED
  BY <1>2, <1>6

\* The event sync implements FleetCopy: a replica is taken whole, moves only
\* forward along one archive's history, and is dropped whole, through every
\* 410, recovery, restore and restart (`replicaStore`).
THEOREM ReplicaIsACopyHolds == Spec => ReplicaIsACopy
<1>1. Init => Copy!Init
  <2> SUFFICES ASSUME Init PROVE Copy!Init
    OBVIOUS
  <2>1. DOMAIN history = {1} /\ DOMAIN history[1] = {0}
    BY DEF Init, HubInit, EmptyArchive
  <2>2. \A c \in Replicating : CopyOf(replica[c]) = NoCopy
    BY SyncAssumption DEF Init, NewReplica, CopyOf
  <2>3. copies = [c \in Replicating |-> NoCopy]
    BY <2>2, CopiesAre
  <2> QED
    BY <2>1, <2>3, Zenon DEF Copy!Init
<1>2. HubInv /\ TimelineInv /\ SyncInv /\ [Next]_vars => [Copy!Next]_(Copy!copyVars)
  BY CopyStep
<1> QED
  BY <1>1, <1>2, SyncInvariant, PTL DEF Spec, ReplicaIsACopy, Copy!Spec

===============================================================================
