------------------------------ MODULE Merge_proofs ------------------------------
(***************************************************************************)
(* The merge rule and the store that counts by it.  The rule orders the    *)
(* copies of a key totally on what it reads, so every store keeps the      *)
(* fullest copy it was offered and no two stores disagree for good, for    *)
(* every set of stores, totals, tags and sessions.  And the event engine's *)
(* store, for any number of keys, pairs and operations: whatever feeds it  *)
(* and in whatever order, each key's verdict is that of the fullest copy   *)
(* offered, and what it would push of a key is counted.  What feeds it:    *)
(* the reader of transcripts hands over each line of a file's life once    *)
(* and in order, a subagent's after its parent's, whatever the files,      *)
(* the watcher's events and the reads do meanwhile.                        *)
(***************************************************************************)
EXTENDS FleetMerge, EngineStore, TailReader, FiniteSetTheorems, SequenceTheorems,
        WellFoundedInduction, TLAPS

-------------------------------------------------------------------------------
(* The merge rule, and the stores that keep one copy of a key *)

\* A copy's parts are numbers, so the order's comparisons are defined.
LEMMA CopyParts ==
    ASSUME NEW a \in Copies
    PROVE  a.total \in Nat /\ a.tag \in Nat /\ a # NoCopy
<1>1. /\ a = [total |-> a.total, tag |-> a.tag, session |-> a.session]
      /\ a.total \in Totals /\ a.tag \in Tags \cup {NoTag} /\ a.session \in Sessions
  BY DEF Copies
<1>2. a.total \in Nat /\ a.tag \in Nat
  BY <1>1, DedupAssumption DEF NoTag
<1>3. a \in [total : Nat, tag : Nat, session : Sessions]
  BY <1>1, <1>2
<1> QED
  BY <1>2, <1>3, MergeAssumption

\* A copy is at least as full as itself: a retry changes nothing.
LEMMA AtLeastReflexive ==
    ASSUME NEW a \in Copies
    PROVE  AtLeast(a, a)
BY CopyParts DEF AtLeast, Supersedes, PartsExceed, TagExceeds

\* A copy that replaces another is at least as full.
LEMMA SupersedesIsAtLeast ==
    ASSUME NEW a \in Copies, NEW b \in Copies, Supersedes(a, b)
    PROVE  AtLeast(a, b)
BY CopyParts DEF AtLeast, Supersedes, PartsExceed, TagExceeds, NoTag

\* What is at least as full as b is at least as full as all b is.
LEMMA AtLeastTransitive ==
    ASSUME NEW a \in Copies, NEW b \in Copies, NEW c \in Copies,
           AtLeast(a, b), AtLeast(b, c)
    PROVE  AtLeast(a, c)
BY CopyParts DEF AtLeast, Supersedes, PartsExceed, TagExceeds, NoTag

\* Two copies neither of which replaces the other have the same total and tag.
LEMMA AtLeastAntisymmetric ==
    ASSUME NEW a \in Copies, NEW b \in Copies, AtLeast(a, b), AtLeast(b, a)
    PROVE  SameFullness(a, b)
BY CopyParts DEF AtLeast, Supersedes, PartsExceed, TagExceeds, SameFullness, NoTag

\* What a store keeps is one of the two copies, and at least as full as both.
LEMMA KeptIsFullest ==
    ASSUME NEW a \in Copies \cup {NoCopy}, NEW b \in Copies
    PROVE  /\ Kept(a, b) \in {a, b} \cap Copies
           /\ AtLeast(Kept(a, b), b)
           /\ a # NoCopy => AtLeast(Kept(a, b), a)
<1>1. CASE a = NoCopy
  BY <1>1, AtLeastReflexive DEF Kept
<1>2. CASE a # NoCopy /\ Supersedes(b, a)
  BY <1>2, AtLeastReflexive, SupersedesIsAtLeast DEF Kept
<1>3. CASE a # NoCopy /\ ~Supersedes(b, a)
  BY <1>3, AtLeastReflexive DEF Kept, AtLeast
<1> QED
  BY <1>1, <1>2, <1>3

-------------------------------------------------------------------------------

\* Every store holds a copy or none, and was given only copies.
THEOREM MergeTypeCorrect == MergeSpec => []MergeTypeOK
<1>1. MergeInit => MergeTypeOK
  BY DEF MergeInit, MergeTypeOK
<1>2. MergeTypeOK /\ [MergeNext]_mergeVars => MergeTypeOK'
  <2> SUFFICES ASSUME MergeTypeOK, [MergeNext]_mergeVars
               PROVE  MergeTypeOK'
    OBVIOUS
  <2>1. ASSUME NEW s \in Stores, NEW copy \in Copies, Offer(s, copy)
        PROVE  MergeTypeOK'
    BY <2>1, KeptIsFullest DEF MergeTypeOK, Offer
  <2>2. ASSUME NEW s \in Stores, NEW t \in Stores, Relay(s, t)
        PROVE  MergeTypeOK'
    <3>1. held[s] \in Copies
      BY <2>2 DEF MergeTypeOK, Relay
    <3>2. Kept(held[t], held[s]) \in Copies
      BY <3>1, KeptIsFullest DEF MergeTypeOK
    <3> QED
      BY <2>2, <3>2 DEF MergeTypeOK, Relay
  <2>3. CASE UNCHANGED mergeVars
    BY <2>3 DEF mergeVars, MergeTypeOK
  <2> QED
    BY <2>1, <2>2, <2>3 DEF MergeNext
<1> QED
  BY <1>1, <1>2, PTL DEF MergeSpec

\* One store's part of HeldIsFullest.
FullestOf(copy, given) ==
    IF copy = NoCopy THEN given = {}
    ELSE copy \in given /\ \A c \in given : AtLeast(copy, c)

\* Merging in a copy that is the fullest of what it stands for keeps the
\* store's copy the fullest of all that reached it: only the fullest copy need
\* ever be passed on.
LEMMA MergeKeepsFullest ==
    ASSUME NEW a \in Copies \cup {NoCopy}, NEW A \in SUBSET Copies, FullestOf(a, A),
           NEW b \in Copies, NEW B \in SUBSET Copies, FullestOf(b, B)
    PROVE  FullestOf(Kept(a, b), A \cup B)
<1> DEFINE k == Kept(a, b)
<1>1. k \in Copies /\ k # NoCopy
  BY KeptIsFullest, CopyParts
<1>2. b \in B /\ \A c \in B : AtLeast(b, c)
  BY CopyParts DEF FullestOf
<1>3. k \in A \cup B
  <2>1. CASE k = b
    BY <2>1, <1>2
  <2>2. CASE k = a
    BY <2>2, <1>1 DEF FullestOf
  <2> QED
    BY <2>1, <2>2, KeptIsFullest
<1>4. ASSUME NEW c \in A PROVE AtLeast(k, c)
  <2>1. a \in Copies /\ a # NoCopy /\ AtLeast(a, c)
    BY <1>4 DEF FullestOf
  <2>2. AtLeast(k, a)
    BY <2>1, KeptIsFullest
  <2> QED
    BY <1>1, <2>1, <2>2, AtLeastTransitive
<1>5. ASSUME NEW c \in B PROVE AtLeast(k, c)
  <2>1. AtLeast(k, b)
    BY KeptIsFullest
  <2> QED
    BY <1>1, <1>2, <2>1, AtLeastTransitive
<1> QED
  BY <1>1, <1>3, <1>4, <1>5 DEF FullestOf

\* Every store keeps a fullest copy of all that reached it, whatever was
\* dropped on the way (`upsert`, `push`, `append`).
THEOREM HeldIsFullestHolds == MergeSpec => []HeldIsFullest
<1>1. MergeInit => HeldIsFullest
  BY DEF MergeInit, HeldIsFullest
<1>2. MergeTypeOK /\ HeldIsFullest /\ [MergeNext]_mergeVars => HeldIsFullest'
  <2> SUFFICES ASSUME MergeTypeOK, HeldIsFullest, [MergeNext]_mergeVars
               PROVE  HeldIsFullest'
    OBVIOUS
  <2>0. \A s \in Stores : FullestOf(held[s], seen[s])
    BY DEF HeldIsFullest, FullestOf
  <2>1. ASSUME NEW s \in Stores, NEW copy \in Copies, Offer(s, copy)
        PROVE  \A u \in Stores : FullestOf(held'[u], seen'[u])
    <3>1. FullestOf(copy, {copy})
      BY CopyParts, AtLeastReflexive DEF FullestOf
    <3>2. FullestOf(Kept(held[s], copy), seen[s] \cup {copy})
      BY <2>0, <3>1, MergeKeepsFullest DEF MergeTypeOK
    <3> QED
      BY <2>0, <2>1, <3>2 DEF MergeTypeOK, Offer
  <2>2. ASSUME NEW s \in Stores, NEW t \in Stores, Relay(s, t)
        PROVE  \A u \in Stores : FullestOf(held'[u], seen'[u])
    <3>1. held[s] \in Copies
      BY <2>2 DEF MergeTypeOK, Relay
    <3>2. FullestOf(Kept(held[t], held[s]), seen[t] \cup seen[s])
      BY <2>0, <3>1, MergeKeepsFullest DEF MergeTypeOK
    <3> QED
      BY <2>0, <2>2, <3>2 DEF MergeTypeOK, Relay
  <2>3. ASSUME UNCHANGED mergeVars
        PROVE  \A u \in Stores : FullestOf(held'[u], seen'[u])
    BY <2>0, <2>3 DEF mergeVars
  <2>4. \A u \in Stores : FullestOf(held'[u], seen'[u])
    BY <2>1, <2>2, <2>3 DEF MergeNext
  <2> QED
    BY <2>4 DEF HeldIsFullest, FullestOf
<1> QED
  BY <1>1, <1>2, MergeTypeCorrect, PTL DEF MergeSpec

\* Stores that the same copies reached agree on total and Organization,
\* whatever the order of arrival (#374: no tie is left to it).
THEOREM StoresAgreeHolds == MergeSpec => []StoresAgree
<1>1. MergeTypeOK /\ HeldIsFullest => StoresAgree
  <2> SUFFICES ASSUME MergeTypeOK, HeldIsFullest, NEW s \in Stores, NEW t \in Stores,
                      seen[s] = seen[t], held[s] # NoCopy, held[t] # NoCopy
               PROVE  SameFullness(held[s], held[t])
    BY DEF StoresAgree
  <2>1. held[s] \in Copies /\ held[t] \in Copies
    BY DEF MergeTypeOK
  <2>2. AtLeast(held[s], held[t]) /\ AtLeast(held[t], held[s])
    BY DEF HeldIsFullest
  <2> QED
    BY <2>1, <2>2, AtLeastAntisymmetric
<1> QED
  BY <1>1, MergeTypeCorrect, HeldIsFullestHolds, PTL

-------------------------------------------------------------------------------
(* The order on copies, and the fullest of a set of them *)

Ranked(a) == a.total \in Nat /\ a.tag \in Nat

LEMMA OrderIs ==
    ASSUME NEW a, NEW b, NEW c, Ranked(a), Ranked(b), Ranked(c)
    PROVE  /\ AtLeast(a, a)
           /\ AtLeast(a, b) /\ AtLeast(b, c) => AtLeast(a, c)
           /\ Supersedes(a, b) => AtLeast(a, b)
           /\ SameFullness(a, b) => /\ AtLeast(a, c) <=> AtLeast(b, c)
                                    /\ AtLeast(c, a) <=> AtLeast(c, b)
BY DEF Ranked, AtLeast, Supersedes, PartsExceed, TagExceeds, NoTag, SameFullness

LEMMA StoredRanked ==
    ASSUME NEW c \in Stored \cup Holders
    PROVE  Ranked(c) /\ c # None
<1>1. c # None
  BY EngineAssumption
<1>2. c.total \in Totals /\ c.tag \in Tags \cup {NoTag}
  <2>1. Foreign \subseteq Tags
    BY EngineAssumption
  <2>2. CASE c \in Stored
    BY <2>2 DEF Stored
  <2>3. CASE c \in Holders
    BY <2>1, <2>3 DEF Holders
  <2> QED
    BY <2>2, <2>3
<1>3. c.total \in Nat /\ c.tag \in Nat
  <2>1. NoTag \in Nat
    BY DEF NoTag
  <2>2. Totals \subseteq Nat /\ Tags \subseteq Nat
    BY DedupAssumption
  <2> QED
    BY <1>2, <2>1, <2>2
<1> QED
  BY <1>1, <1>3 DEF Ranked

OffersOf == [copy : Stored, ex : BOOLEAN]
Offered(w, excluded) == [copy |-> w, ex |-> excluded]

\* w is as full as some copy of `off`, excluded or not, and none of them is fuller.
Fullest(off, w, excluded) ==
    \E o \in off : /\ o.ex = excluded /\ SameFullness(o.copy, w)
                   /\ \A p \in off : AtLeast(o.copy, p.copy)

\* A copy no fuller than the fullest changes nothing.
LEMMA FullestGrows ==
    ASSUME NEW off \in SUBSET OffersOf, NEW n \in OffersOf, NEW w, Ranked(w), NEW b,
           Fullest(off, w, b), AtLeast(w, n.copy)
    PROVE  Fullest(off \cup {n}, w, b)
<1>1. PICK o \in off : /\ o.ex = b /\ SameFullness(o.copy, w)
                       /\ \A p \in off : AtLeast(o.copy, p.copy)
  BY DEF Fullest
<1>2. o.copy \in Stored /\ n.copy \in Stored
  BY DEF OffersOf
<1>3. AtLeast(o.copy, n.copy)
  BY <1>1, <1>2, StoredRanked, OrderIs
<1> QED
  BY <1>1, <1>3 DEF Fullest

\* A copy as full as the fullest takes its place.
LEMMA FullestTaken ==
    ASSUME NEW off \in SUBSET OffersOf, NEW n \in OffersOf,
           NEW w, NEW b,
           off # {} => Ranked(w) /\ Fullest(off, w, b) /\ AtLeast(n.copy, w)
    PROVE  Fullest(off \cup {n}, n.copy, n.ex)
<1>1. n.copy \in Stored /\ \A o \in off : o.copy \in Stored
  BY DEF OffersOf
<1>2. AtLeast(n.copy, n.copy)
  BY <1>1, StoredRanked, OrderIs
<1>3. ASSUME NEW p \in off PROVE AtLeast(n.copy, p.copy)
  <2>1. Ranked(w) /\ Fullest(off, w, b) /\ AtLeast(n.copy, w)
    OBVIOUS
  <2>2. PICK o \in off : SameFullness(o.copy, w) /\ \A q \in off : AtLeast(o.copy, q.copy)
    BY <2>1 DEF Fullest
  <2>3. AtLeast(n.copy, o.copy)
    BY <1>1, <2>1, <2>2, StoredRanked, OrderIs
  <2>4. AtLeast(o.copy, p.copy)
    BY <2>2
  <2>5. Ranked(n.copy) /\ Ranked(o.copy) /\ Ranked(p.copy)
    BY <1>1, StoredRanked
  <2> QED
    BY <2>3, <2>4, <2>5, OrderIs
<1>4. SameFullness(n.copy, n.copy)
  BY DEF SameFullness
<1> QED
  BY <1>2, <1>3, <1>4 DEF Fullest

LEMMA FullestAlike ==
    ASSUME NEW off, NEW v, NEW w, NEW b, Fullest(off, v, b), SameFullness(v, w)
    PROVE  Fullest(off, w, b)
BY DEF Fullest, SameFullness

-------------------------------------------------------------------------------
(* One key: the copy counted, the own one, the excluded holder, the copies offered *)

KeyOK(e, c, x, off) ==
    /\ {e, c} \subseteq {None} \cup Stored /\ x \in {None} \cup Holders
    /\ off \in SUBSET OffersOf
    /\ off # {} => (e = None <=> x # None)
    /\ e # None => Fullest(off, e, FALSE)
    /\ x # None => Fullest(off, x, TRUE)
    /\ c # None => /\ e # None /\ AtLeast(e, c) /\ x = None
                   /\ ~DormantRow(c) /\ ~OutsideTrackedSet(c.tag)

\* An excluded copy beats what is counted, or the holder, or neither.
Wins(e, x, w) == x = None /\ (e = None \/ Supersedes(w, e))
LeftBy(e, x, w, copy) == IF Wins(e, x, w) THEN None ELSE copy
Holder(w) == [total |-> w.total, tag |-> w.tag]
HolderAfter(e, x, w) ==
    IF Wins(e, x, w) \/ (x # None /\ Supersedes(w, x)) THEN Holder(w) ELSE x

LEMMA KeyExcluded ==
    ASSUME NEW e, NEW c, NEW x, NEW off, KeyOK(e, c, x, off), NEW w \in Stored,
           OutsideTrackedSet(w.tag)
    PROVE  KeyOK(LeftBy(e, x, w, e), LeftBy(e, x, w, c), HolderAfter(e, x, w),
                 off \cup {Offered(w, TRUE)})
<1> DEFINE h == Holder(w)
           n == Offered(w, TRUE)
<1>1. /\ n \in OffersOf /\ n.copy = w /\ n.ex = TRUE
      /\ h \in Holders /\ SameFullness(w, h) /\ h # None /\ Ranked(w)
  <2>1. h \in Holders
    BY DEF Holder, Holders, Stored, OutsideTrackedSet
  <2> QED
    BY <2>1, StoredRanked DEF OffersOf, Offered, Holder, SameFullness
<1> HIDE DEF h, n
<1>2. /\ e # None => Ranked(e) /\ Fullest(off, e, FALSE)
      /\ x # None => Ranked(x) /\ Fullest(off, x, TRUE)
      /\ off \in SUBSET OffersOf /\ (off # {} => (e = None <=> x # None))
  BY StoredRanked DEF KeyOK
<1>3. CASE Wins(e, x, w)
  <2>1. x = None /\ (e # None => AtLeast(w, e))
    BY <1>1, <1>2, <1>3, OrderIs DEF Wins
  <2>2. off # {} => e # None
    BY <1>2, <2>1
  <2>3. Fullest(off \cup {n}, w, TRUE)
    BY <1>1, <1>2, <2>1, <2>2, FullestTaken
  <2>4. Fullest(off \cup {n}, h, TRUE)
    BY <1>1, <2>3, FullestAlike
  <2>5. KeyOK(None, None, h, off \cup {n})
    BY <1>1, <1>2, <2>4 DEF KeyOK
  <2> QED
    BY <1>3, <2>5 DEF h, n, LeftBy, HolderAfter
<1>4. CASE ~Wins(e, x, w) /\ x # None /\ Supersedes(w, x)
  <2>1. AtLeast(w, x)
    BY <1>1, <1>2, <1>4, OrderIs
  <2>2. Fullest(off \cup {n}, w, TRUE)
    BY <1>1, <1>2, <1>4, <2>1, FullestTaken
  <2>3. Fullest(off \cup {n}, h, TRUE)
    BY <1>1, <2>2, FullestAlike
  <2>4. e = None /\ c = None
    BY <1>2, <1>4 DEF KeyOK, Fullest
  <2>5. KeyOK(e, c, h, off \cup {n})
    BY <1>1, <1>2, <2>3, <2>4 DEF KeyOK
  <2> QED
    BY <1>4, <2>5 DEF h, n, LeftBy, HolderAfter
<1>5. CASE ~Wins(e, x, w) /\ ~(x # None /\ Supersedes(w, x))
  <2>1. x # None => Fullest(off \cup {n}, x, TRUE)
    BY <1>1, <1>2, <1>5, FullestGrows DEF AtLeast
  <2>2. e # None => Fullest(off \cup {n}, e, FALSE)
    <3>1. e # None => x = None
      BY <1>2 DEF Fullest
    <3> QED
      BY <1>1, <1>2, <1>5, <3>1, FullestGrows DEF AtLeast, Wins
  <2>3. e = None <=> x # None
    BY <1>2, <1>5 DEF Fullest, Wins
  <2>4. KeyOK(e, c, x, off \cup {n})
    BY <1>1, <1>2, <2>1, <2>2, <2>3 DEF KeyOK
  <2> QED
    BY <1>5, <2>4 DEF n, LeftBy, HolderAfter
<1> QED
  BY <1>3, <1>4, <1>5

\* A copy that does not supersede the excluded holder only competes.
LEMMA KeyRefused ==
    ASSUME NEW e, NEW c, NEW x, NEW off, KeyOK(e, c, x, off), NEW w \in Stored,
           x # None, ~Supersedes(w, x)
    PROVE  KeyOK(e, c, x, off \cup {Offered(w, FALSE)})
<1> DEFINE n == Offered(w, FALSE)
<1>1. n \in OffersOf /\ n.copy = w
  BY DEF OffersOf, Offered
<1> HIDE DEF n
<1>2. Ranked(x) /\ Fullest(off, x, TRUE) /\ off \in SUBSET OffersOf /\ AtLeast(x, w)
  BY StoredRanked DEF KeyOK, AtLeast
<1>3. Fullest(off \cup {n}, x, TRUE)
  BY <1>1, <1>2, FullestGrows
<1>4. e = None
  BY <1>2 DEF KeyOK, Fullest
<1>5. KeyOK(e, c, x, off \cup {n})
  BY <1>1, <1>2, <1>3, <1>4 DEF KeyOK
<1> QED
  BY <1>5 DEF n

\* A copy that does takes the key, and is pushed if it may be.
Counted(e, w) == IF e = None \/ Supersedes(w, e) THEN w ELSE e

LEMMA KeyAdmitted ==
    ASSUME NEW e, NEW c, NEW x, NEW off, KeyOK(e, c, x, off), NEW w \in Stored,
           x = None \/ Supersedes(w, x),
           NEW c1 \in {c, w, None}, c1 = w => ~DormantRow(w) /\ ~OutsideTrackedSet(w.tag)
    PROVE  KeyOK(Counted(e, w), c1, None, off \cup {Offered(w, FALSE)})
<1> DEFINE n == Offered(w, FALSE)
           e1 == Counted(e, w)
<1>1. n \in OffersOf /\ n.copy = w /\ n.ex = FALSE /\ Ranked(w) /\ w # None
  BY StoredRanked DEF OffersOf, Offered
<1>2. /\ e = None \/ Supersedes(w, e) => e1 = w
      /\ e # None /\ ~Supersedes(w, e) => e1 = e
  BY DEF Counted
<1> HIDE DEF n, e1
<1>3. /\ e # None => Ranked(e) /\ Fullest(off, e, FALSE) /\ e \in Stored
      /\ x # None => Ranked(x) /\ Fullest(off, x, TRUE)
      /\ c # None => Ranked(c) /\ e # None /\ AtLeast(e, c)
      /\ off \in SUBSET OffersOf /\ (off # {} => (e = None <=> x # None))
  BY StoredRanked DEF KeyOK
<1>4. Fullest(off \cup {n}, e1, FALSE) /\ e1 \in Stored /\ AtLeast(e1, w)
      /\ (e # None => AtLeast(e1, e))
  <2>1. CASE e = None \/ Supersedes(w, e)
    <3>1. e1 = w /\ AtLeast(w, w) /\ (e # None => AtLeast(w, e))
          /\ (x # None => AtLeast(w, x))
      BY <1>1, <1>2, <1>3, <2>1, OrderIs
    <3>2. CASE e # None
      BY <1>1, <1>3, <3>1, <3>2, FullestTaken
    <3>3. CASE e = None /\ x # None
      <4>1. Fullest(off \cup {n}, w, FALSE)
        BY <1>1, <1>3, <3>1, <3>3, FullestTaken
      <4> QED
        BY <3>1, <3>3, <4>1
    <3>4. CASE e = None /\ x = None
      <4>1. off = {}
        BY <1>3, <3>4
      <4>2. Fullest(off \cup {n}, w, FALSE)
        BY <1>1, <1>3, <4>1, FullestTaken
      <4> QED
        BY <3>1, <3>4, <4>2
    <3> QED
      BY <3>2, <3>3, <3>4
  <2>2. CASE e # None /\ ~Supersedes(w, e)
    <3>1. AtLeast(e, w) /\ e1 = e /\ AtLeast(e, e) /\ e \in Stored
      BY <1>2, <1>3, <2>2, OrderIs DEF AtLeast
    <3>2. Fullest(off \cup {n}, e, FALSE)
      BY <1>1, <1>3, <2>2, <3>1, FullestGrows
    <3> QED
      BY <3>1, <3>2
  <2> QED
    BY <2>1, <2>2
<1>5. Ranked(e1) /\ e1 # None
  BY <1>4, StoredRanked
<1>6. c1 # None => AtLeast(e1, c1) /\ ~DormantRow(c1) /\ ~OutsideTrackedSet(c1.tag)
  <2>1. CASE c1 = w
    BY <1>4, <2>1
  <2>2. CASE c1 = c /\ c # None
    <3>1. AtLeast(e1, c)
      BY <1>3, <1>4, <1>5, <2>2, OrderIs
    <3> QED
      BY <2>2, <3>1 DEF KeyOK
  <2> QED
    BY <2>1, <2>2
<1>7. {e1, c1} \subseteq {None} \cup Stored
  BY <1>4 DEF KeyOK
<1>8. KeyOK(e1, c1, None, off \cup {n})
  BY <1>1, <1>3, <1>4, <1>5, <1>6, <1>7 DEF KeyOK
<1> QED
  BY <1>8 DEF e1, n

-------------------------------------------------------------------------------
(* The owner points of a pair, in the order of their times *)

Points == [ms : Times, tag : Tags]
InOrder(q) == q \in Seq(Points) /\ \A i, j \in DOMAIN q : i <= j => q[i].ms <= q[j].ms

LEMMA LeastNumber ==
    ASSUME NEW S \in SUBSET Nat, S # {}
    PROVE  \E least \in S : \A n \in S : ~(n < least)
<1> DEFINE R == {ss \in Nat \X Nat : ss[1] < ss[2]}
<1>1. R = OpToRel(<, Nat)
  BY DEF OpToRel
<1>2. IsWellFoundedOn(R, Nat)
  BY <1>1, NatLessThanWellFounded
<1>3. \E least \in S : \A n \in S : ~(<<n, least>> \in R)
  <2> HIDE DEF R
  <2> QED
    BY <1>2, WFMin
<1> QED
  BY <1>3

Before(q, ms) == Cardinality({i \in DOMAIN q : q[i].ms <= ms})

\* The points at or before a time are the first ones.
LEMMA BeforeIs ==
    ASSUME NEW q, InOrder(q), NEW ms \in Times
    PROVE  LET b == Cardinality({i \in DOMAIN q : q[i].ms <= ms})
           IN  b \in 0 .. Len(q) /\ {i \in DOMAIN q : q[i].ms <= ms} = 1 .. b
<1> DEFINE before == {i \in DOMAIN q : q[i].ms <= ms}
           after == {i \in DOMAIN q : ~(q[i].ms <= ms)}
<1>1. /\ q \in Seq(Points) /\ Len(q) \in Nat /\ DOMAIN q = 1 .. Len(q)
      /\ \A i \in DOMAIN q : q[i] \in Points
  BY DEF InOrder
<1>2. Times \subseteq Nat
  BY EngineAssumption
<1>3. \A i \in DOMAIN q : q[i].ms \in Nat
  BY <1>1, <1>2 DEF Points
<1>4. \E b \in 0 .. Len(q) : before = 1 .. b
  <2>1. CASE after = {}
    <3>1. before = 1 .. Len(q)
      BY <1>1, <2>1
    <3> QED
      BY <1>1, <3>1
  <2>2. CASE after # {}
    <3>1. PICK l \in after : \A n \in after : ~(n < l)
      <4>1. after \in SUBSET Nat
        BY <1>1
      <4> HIDE DEF after
      <4> QED
        BY <2>2, <4>1, LeastNumber
    <3>2. before = 1 .. (l - 1)
      <4>1. ASSUME NEW i \in DOMAIN q, i < l PROVE i \in before
        BY <3>1, <4>1
      <4>2. ASSUME NEW i \in DOMAIN q, ~(i < l) PROVE i \notin before
        BY <1>1, <1>2, <1>3, <3>1, <4>2 DEF InOrder
      <4> QED
        BY <1>1, <3>1, <4>1, <4>2
    <3> QED
      BY <1>1, <3>1, <3>2
  <2> QED
    BY <2>1, <2>2
<1>5. PICK b \in 0 .. Len(q) : before = 1 .. b
  BY <1>4
<1>6. Cardinality(before) = b
  <2>1. Cardinality(1 .. b) = b
    BY <1>1, FS_Interval
  <2> QED
    BY <1>5, <2>1
<1> QED
  BY <1>5, <1>6

\* The owner in effect at a time is one that was taught, or none.
LEMMA OwnerIs ==
    ASSUME NEW s, NEW ms \in Times, InOrder(ownerPoints[s])
    PROVE  ResolveOwner(s, ms) \in Tags \cup {NoTag}
<1> DEFINE points == ownerPoints[s]
           before == {i \in DOMAIN points : points[i].ms <= ms}
<1>1. /\ points \in Seq(Points) /\ Len(points) \in Nat /\ DOMAIN points = 1 .. Len(points)
      /\ \A i \in DOMAIN points : points[i] \in Points /\ points[i].tag \in Tags
  <2>1. points \in Seq(Points)
    BY DEF InOrder
  <2>2. \A i \in DOMAIN points : points[i] \in Points
    BY <2>1
  <2> HIDE DEF points
  <2> QED
    BY <2>1, <2>2 DEF Points
<1>2. PICK b \in 0 .. Len(points) : before = 1 .. b
  BY BeforeIs
<1> DEFINE last == CHOOSE i \in before : \A j \in before : j <= i
<1>3. before # {} => last \in before
  <2>1. before # {} => b \in before /\ \A j \in before : j <= b
    BY <1>1, <1>2
  <2> QED
    BY <2>1
<1>4. points # <<>> => 1 \in DOMAIN points
  BY <1>1
<1> QED
  BY <1>1, <1>3, <1>4 DEF ResolveOwner

Inserted(q, b, p) == SubSeq(q, 1, b) \o <<p>> \o SubSeq(q, b + 1, Len(q))

\* What a sorted insert makes of a sequence.
LEMMA InsertedIs ==
    ASSUME NEW S, NEW q \in Seq(S), NEW p \in S, NEW b \in Nat, b <= Len(q)
    PROVE  /\ Inserted(q, b, p) \in Seq(S) /\ Len(Inserted(q, b, p)) = Len(q) + 1
           /\ \A i \in 1 .. (Len(q) + 1) : Inserted(q, b, p)[i] =
                  IF i <= b THEN q[i] ELSE IF i = b + 1 THEN p ELSE q[i - 1]
<1> DEFINE u == SubSeq(q, 1, b)
           v == SubSeq(q, b + 1, Len(q))
           one == <<p>>
<1>1. PICK n \in Nat : n = Len(q)
  BY LenProperties
<1>2. \A i \in 1 .. n : q[i] \in S
  BY <1>1, ElementOfSeq
<1>3. u \in Seq(S) /\ Len(u) = b /\ \A i \in 1 .. b : u[i] = q[i]
  <2>1. \A i \in 1 .. b : q[i] \in S
    BY <1>1, <1>2
  <2>2. /\ u \in Seq(S) /\ Len(u) = (IF 1 <= b THEN b - 1 + 1 ELSE 0)
        /\ \A i \in 1 .. b - 1 + 1 : u[i] = q[1 + i - 1]
    BY <2>1, SubSeqProperties
  <2> HIDE DEF u
  <2>3. (IF 1 <= b THEN b - 1 + 1 ELSE 0) = b /\ b - 1 + 1 = b
    OBVIOUS
  <2>4. \A i \in 1 .. b : 1 + i - 1 = i
    OBVIOUS
  <2> QED
    BY <2>2, <2>3, <2>4
<1>4. v \in Seq(S) /\ Len(v) = n - b /\ \A i \in 1 .. (n - b) : v[i] = q[b + i]
  <2>1. \A i \in (b + 1) .. n : q[i] \in S
    BY <1>1, <1>2
  <2>2. b + 1 \in Int /\ n \in Int /\ v = SubSeq(q, b + 1, n)
    BY <1>1
  <2> HIDE DEF v
  <2>3. /\ v \in Seq(S) /\ Len(v) = (IF b + 1 <= n THEN n - (b + 1) + 1 ELSE 0)
        /\ \A i \in 1 .. n - (b + 1) + 1 : v[i] = q[b + 1 + i - 1]
    BY <2>1, <2>2, SubSeqProperties
  <2>4. (IF b + 1 <= n THEN n - (b + 1) + 1 ELSE 0) = n - b /\ n - (b + 1) + 1 = n - b
    BY <1>1
  <2>5. \A i \in 1 .. (n - b) : b + 1 + i - 1 = b + i
    OBVIOUS
  <2> QED
    BY <2>3, <2>4, <2>5
<1>5. one \in Seq(S) /\ Len(one) = 1 /\ one[1] = p
  OBVIOUS
<1> DEFINE w == u \o one
           t == w \o v
<1>6. t = Inserted(q, b, p)
  BY DEF Inserted
<1> HIDE DEF u, v, one
<1>7. /\ w \in Seq(S) /\ Len(w) = b + 1
      /\ \A i \in 1 .. b + 1 : w[i] = IF i <= b THEN u[i] ELSE one[i - b]
  <2>1. /\ w \in Seq(S) /\ Len(w) = Len(u) + Len(one)
        /\ \A i \in 1 .. Len(u) + Len(one) :
              w[i] = IF i <= Len(u) THEN u[i] ELSE one[i - Len(u)]
    BY <1>3, <1>5, ConcatProperties, Zenon
  <2> QED
    BY <1>3, <1>5, <2>1, Zenon
<1> HIDE DEF w
<1>8. /\ t \in Seq(S) /\ Len(t) = b + 1 + (n - b)
      /\ \A i \in 1 .. b + 1 + (n - b) : t[i] = IF i <= b + 1 THEN w[i] ELSE v[i - (b + 1)]
  <2>1. /\ t \in Seq(S) /\ Len(t) = Len(w) + Len(v)
        /\ \A i \in 1 .. Len(w) + Len(v) :
              t[i] = IF i <= Len(w) THEN w[i] ELSE v[i - Len(w)]
    BY <1>4, <1>7, ConcatProperties, Zenon
  <2> QED
    BY <1>4, <1>7, <2>1, Zenon
<1>9. b + 1 + (n - b) = n + 1
  OBVIOUS
<1> HIDE DEF t
<1>10. ASSUME NEW i \in 1 .. (n + 1)
       PROVE  t[i] = IF i <= b THEN q[i] ELSE IF i = b + 1 THEN p ELSE q[i - 1]
  <2>1. CASE i <= b
    BY <1>3, <1>7, <1>8, <1>9, <2>1
  <2>2. CASE i = b + 1
    BY <1>5, <1>7, <1>8, <1>9, <2>2
  <2>3. CASE i > b + 1
    <3>1. i - (b + 1) \in 1 .. (n - b) /\ b + (i - (b + 1)) = i - 1
      BY <2>3
    <3>2. t[i] = v[i - (b + 1)]
      BY <1>8, <1>9, <2>3
    <3> QED
      BY <1>4, <2>3, <3>1, <3>2
  <2> QED
    BY <2>1, <2>2, <2>3
<1> QED
  BY <1>1, <1>6, <1>8, <1>9, <1>10

\* A point is put after those of its own time and of earlier ones.
LEMMA PointAdded ==
    ASSUME NEW q, InOrder(q), NEW p \in Points,
           NEW b, b = Before(q, p.ms)
    PROVE  InOrder(Inserted(q, b, p))
<1> DEFINE t == Inserted(q, b, p)
           before == {i \in DOMAIN q : q[i].ms <= p.ms}
<1>1. p.ms \in Nat /\ Times \subseteq Nat
  BY EngineAssumption DEF Points
<1>2. q \in Seq(Points) /\ DOMAIN q = 1 .. Len(q)
  BY LenProperties DEF InOrder
<1>3. PICK n \in Nat : n = Len(q)
  BY <1>2, LenProperties
<1>4. b \in 0 .. n /\ before = 1 .. b
  BY <1>3, BeforeIs DEF Points, Before
<1>5. b \in Nat /\ b <= n
  BY <1>3, <1>4
<1>6. ASSUME NEW i \in 1 .. n
      PROVE  q[i].ms \in Nat /\ (i <= b => q[i].ms <= p.ms) /\ (i > b => p.ms < q[i].ms)
  <2>1. q[i].ms \in Nat
    <3>1. q[i] \in Points
      BY <1>2, <1>3, ElementOfSeq
    <3> QED
      BY <1>1, <3>1 DEF Points
  <2>2. i \in 1 .. b <=> q[i].ms <= p.ms
    BY <1>2, <1>3, <1>4
  <2> QED
    BY <1>1, <1>5, <2>1, <2>2
<1>7. \A i, j \in 1 .. n : i <= j => q[i].ms <= q[j].ms
  BY <1>2, <1>3 DEF InOrder
<1> HIDE DEF before
<1>8. /\ t \in Seq(Points) /\ Len(t) = n + 1
      /\ \A i \in 1 .. (n + 1) :
            t[i] = IF i <= b THEN q[i] ELSE IF i = b + 1 THEN p ELSE q[i - 1]
  <2>1. b <= Len(q)
    BY <1>3, <1>5
  <2>2. /\ t \in Seq(Points) /\ Len(t) = Len(q) + 1
        /\ \A i \in 1 .. (Len(q) + 1) :
              t[i] = IF i <= b THEN q[i] ELSE IF i = b + 1 THEN p ELSE q[i - 1]
    <3>1. q \in Seq(Points) /\ p \in Points /\ b \in Nat /\ b <= Len(q)
      BY <1>2, <1>5, <2>1
    <3>2. Inserted(q, b, p) \in Seq(Points)
      BY <3>1, InsertedIs
    <3>3. Len(Inserted(q, b, p)) = Len(q) + 1
      BY <3>1, InsertedIs
    <3>4. \A i \in 1 .. (Len(q) + 1) : Inserted(q, b, p)[i] =
                  IF i <= b THEN q[i] ELSE IF i = b + 1 THEN p ELSE q[i - 1]
      BY <3>1, InsertedIs
    <3> QED
      BY <3>2, <3>3, <3>4
  <2> HIDE DEF t
  <2> QED
    BY <1>3, <2>2, Zenon
<1> HIDE DEF t
<1>9. ASSUME NEW i \in 1 .. (n + 1), NEW j \in 1 .. (n + 1), i <= j PROVE t[i].ms <= t[j].ms
  <2>1. CASE j <= b
    <3>1. i \in 1 .. n /\ j \in 1 .. n /\ t[i] = q[i] /\ t[j] = q[j]
      BY <1>5, <1>8, <1>9, <2>1
    <3> QED
      BY <1>7, <1>9, <3>1
  <2>2. CASE j = b + 1 /\ i <= b
    <3>1. i \in 1 .. n /\ t[i] = q[i] /\ t[j] = p
      BY <1>5, <1>8, <2>2
    <3> QED
      BY <1>6, <2>2, <3>1
  <2>3. CASE j = b + 1 /\ i = b + 1
    <3>1. t[i] = p /\ t[j] = p
      BY <1>5, <1>8, <2>3
    <3> QED
      BY <1>1, <3>1
  <2>4. CASE j > b + 1 /\ i <= b
    <3>1. j - 1 \in 1 .. n /\ i \in 1 .. n /\ i <= j - 1
      BY <1>5, <2>4
    <3> QED
      BY <1>5, <1>7, <1>8, <2>4, <3>1
  <2>5. CASE j > b + 1 /\ i = b + 1
    <3>1. j - 1 \in 1 .. n /\ j - 1 > b
      BY <1>5, <2>5
    <3>2. p.ms < q[j - 1].ms /\ q[j - 1].ms \in Nat
      BY <1>6, <3>1
    <3>3. t[i] = p /\ t[j] = q[j - 1]
      BY <1>5, <1>8, <2>5
    <3> QED
      BY <1>1, <3>2, <3>3
  <2>6. CASE i > b + 1
    <3>1. j - 1 \in 1 .. n /\ i - 1 \in 1 .. n /\ i - 1 <= j - 1
      BY <1>5, <1>9, <2>6
    <3>2. t[i] = q[i - 1] /\ t[j] = q[j - 1]
      BY <1>5, <1>8, <1>9, <2>6
    <3> QED
      BY <1>7, <3>1, <3>2
  <2> QED
    BY <1>5, <1>9, <2>1, <2>2, <2>3, <2>4, <2>5, <2>6
<1>10. DOMAIN t = 1 .. (n + 1)
  BY <1>8, LenProperties
<1>11. InOrder(t)
  BY <1>8, <1>9, <1>10 DEF InOrder
<1> QED
  BY <1>11 DEF t

-------------------------------------------------------------------------------
(* The inductive invariant *)

OwnOffersOf == [copy : Stored, ex : BOOLEAN, from : {"walk", "archive"}]

StoreType ==
    /\ events \in [Keys -> {None} \cup Stored] /\ contributions \in [Keys -> {None} \cup Stored]
    /\ excludedHolders \in [Keys -> {None} \cup Holders]
    /\ offered \in [Keys -> SUBSET OffersOf]

\* What a walk or the archive offered and was not excluded may be pushed.
OwnOK ==
    /\ own \in [Keys -> SUBSET OwnOffersOf]
    /\ \A k \in Keys : \A o \in own[k] : ~o.ex => ~OutsideTrackedSet(o.copy.tag)

ListsOK == foreignSessions \cup walkedPairs \cup dormantPairsSeen \cup told \subseteq Pairs

PointsOK == ownerPoints \in [Pairs -> Seq(Points)] /\ \A s \in Pairs : InOrder(ownerPoints[s])

KeyOKAt(k) == KeyOK(events[k], contributions[k], excludedHolders[k], offered[k])
KeysOK == StoreType /\ \A k \in Keys : KeyOKAt(k)

EngineInv == KeysOK /\ OwnOK /\ ListsOK /\ PointsOK

\* No copy of the key is counted, held or offered: nothing of it is at odds.
LEMMA NoKeyOK ==
    KeyOK(None, None, None, {})
BY DEF KeyOK

LEMMA EngineInit ==
    ASSUME Init
    PROVE  EngineInv
<1>1. StoreType
  BY DEF Init, StoreType, NoWinner, Offers
<1>2. ASSUME NEW k \in Keys PROVE KeyOKAt(k)
  BY NoKeyOK DEF Init, NoWinner, Offers, KeyOKAt
<1>3. OwnOK
  BY DEF Init, OwnOK, Offers
<1>4. ListsOK
  BY DEF Init, ListsOK
<1>5. PointsOK
  <2>1. <<>> \in Seq(Points) /\ InOrder(<<>>)
    BY DEF InOrder
  <2> QED
    BY <2>1 DEF Init, PointsOK
<1> QED
  BY <1>1, <1>2, <1>3, <1>4, <1>5 DEF EngineInv, KeysOK

\* One key changes, the others do not.
LEMMA OneKey ==
    ASSUME KeysOK, NEW k \in Keys, NEW e, NEW c, NEW x, NEW off, KeyOK(e, c, x, off),
           events' = [events EXCEPT ![k] = e], contributions' = [contributions EXCEPT ![k] = c],
           excludedHolders' = [excludedHolders EXCEPT ![k] = x],
           offered' = [offered EXCEPT ![k] = off]
    PROVE  KeysOK'
<1>1. /\ events'[k] = e /\ contributions'[k] = c /\ excludedHolders'[k] = x /\ offered'[k] = off
      /\ \A j \in Keys \ {k} :
            /\ events'[j] = events[j] /\ contributions'[j] = contributions[j]
            /\ excludedHolders'[j] = excludedHolders[j] /\ offered'[j] = offered[j]
  BY DEF KeysOK, StoreType
<1>2. StoreType'
  BY DEF KeysOK, StoreType, KeyOK
<1>3. ASSUME NEW j \in Keys PROVE KeyOKAt(j)'
  BY <1>1, <1>3 DEF KeysOK, KeyOKAt
<1> QED
  BY <1>2, <1>3 DEF KeysOK

\* Each key is in order, and they are functions of the keys.
LEMMA EveryKey ==
    ASSUME DOMAIN events' = Keys, DOMAIN contributions' = Keys, DOMAIN excludedHolders' = Keys,
           DOMAIN offered' = Keys,
           events' = [k \in Keys |-> events'[k]],
           contributions' = [k \in Keys |-> contributions'[k]],
           excludedHolders' = [k \in Keys |-> excludedHolders'[k]],
           offered' = [k \in Keys |-> offered'[k]],
           \A k \in Keys : KeyOK(events'[k], contributions'[k], excludedHolders'[k], offered'[k])
    PROVE  KeysOK'
<1>1. StoreType'
  BY DEF StoreType, KeyOK
<1> QED
  BY <1>1 DEF KeysOK, KeyOKAt

-------------------------------------------------------------------------------
(* The feeders *)

LEMMA CompetedOK ==
    ASSUME OwnOK, NEW k \in Keys, NEW w \in Stored, NEW ex \in BOOLEAN,
           NEW from \in {"walk", "archive", "replica"}, Competed(k, w, ex, from),
           from # "replica" /\ ~ex => ~OutsideTrackedSet(w.tag)
    PROVE  OwnOK'
<1> DEFINE n == [copy |-> w, ex |-> ex, from |-> from]
<1>1. CASE from = "replica"
  <2>1. own' = own
    BY <1>1 DEF Competed
  <2> QED
    BY <2>1 DEF OwnOK
<1>2. CASE from # "replica"
  <2>1. n \in OwnOffersOf /\ n.ex = ex /\ n.copy = w
    BY <1>2 DEF OwnOffersOf
  <2>2. own' = [own EXCEPT ![k] = @ \cup {n}]
    BY <1>2 DEF Competed
  <2> HIDE DEF n
  <2>3. /\ own' \in [Keys -> SUBSET OwnOffersOf]
        /\ \A j \in Keys : own'[j] \subseteq own[j] \cup {n}
    BY <2>1, <2>2 DEF OwnOK
  <2> QED
    BY <1>2, <2>1, <2>3 DEF OwnOK
<1> QED
  BY <1>1, <1>2

\* An excluded copy is offered.
LEMMA ExcludedOK ==
    ASSUME KeysOK, NEW k \in Keys, NEW w \in Stored, OutsideTrackedSet(w.tag), NEW from,
           OfferExcluded(k, w), Competed(k, w, TRUE, from)
    PROVE  KeysOK'
<1> DEFINE e == events[k]
           x == excludedHolders[k]
           e1 == LeftBy(e, x, w, e)
           c1 == LeftBy(e, x, w, contributions[k])
           x1 == HolderAfter(e, x, w)
           off1 == offered[k] \cup {Offered(w, TRUE)}
<1>1. KeyOKAt(k) /\ StoreType
  BY DEF KeysOK
<1>2. KeyOK(e1, c1, x1, off1)
  BY <1>1, KeyExcluded DEF KeyOKAt
<1>3. offered' = [offered EXCEPT ![k] = off1]
  BY DEF Competed, Offered
<1>4. excludedHolders' = [excludedHolders EXCEPT ![k] = x1]
  BY DEF OfferExcluded, ExcludedWins, HolderAfter, Wins, Holder
<1>5. events' = [events EXCEPT ![k] = e1] /\ contributions' = [contributions EXCEPT ![k] = c1]
  <2>1. ExcludedWins(k, w) <=> Wins(e, x, w)
    BY DEF ExcludedWins, Wins
  <2>2. CASE ExcludedWins(k, w)
    BY <2>1, <2>2 DEF OfferExcluded, Evict, LeftBy
  <2>3. CASE ~ExcludedWins(k, w)
    <3>1. e1 = events[k] /\ c1 = contributions[k]
      BY <2>1, <2>3 DEF LeftBy
    <3> QED
      BY <1>1, <2>3, <3>1 DEF OfferExcluded, StoreType
  <2> QED
    BY <2>2, <2>3
<1> HIDE DEF e1, c1, x1, off1
<1> QED
  BY <1>2, <1>3, <1>4, <1>5, OneKey

\* A copy that no excluded one holds out is admitted.
LEMMA AdmittedOK ==
    ASSUME KeysOK, NEW k \in Keys, NEW w \in Stored, NEW from, NEW local \in BOOLEAN,
           BeatsExcludedHolder(k, w), Admit(k, w, local), Competed(k, w, FALSE, from),
           local => ~DormantRow(w) /\ ~OutsideTrackedSet(w.tag)
    PROVE  KeysOK'
<1> DEFINE c == contributions[k]
           takes == local /\ (c = None \/ Supersedes(w, c))
           e1 == Counted(events[k], w)
           c1 == IF takes THEN w ELSE c
           off1 == offered[k] \cup {Offered(w, FALSE)}
<1>1. KeyOKAt(k) /\ StoreType
  BY DEF KeysOK
<1>2. KeyOK(e1, c1, None, off1)
  <2>1. excludedHolders[k] = None \/ Supersedes(w, excludedHolders[k])
    BY DEF BeatsExcludedHolder
  <2>2. c1 \in {c, w, None} /\ w # None
    BY StoredRanked
  <2>3. c1 = w => ~DormantRow(w) /\ ~OutsideTrackedSet(w.tag)
    <3>1. CASE takes
      BY <3>1
    <3>2. CASE ~takes
      <4>1. c1 = c
        BY <3>2
      <4> QED
        BY <1>1, <2>2, <4>1 DEF KeyOKAt, KeyOK
    <3> QED
      BY <3>1, <3>2
  <2> HIDE DEF c1
  <2> QED
    BY <1>1, <2>1, <2>2, <2>3, KeyAdmitted DEF KeyOKAt
<1>3. offered' = [offered EXCEPT ![k] = off1]
  BY DEF Competed, Offered
<1>4. excludedHolders' = [excludedHolders EXCEPT ![k] = None]
  BY DEF Admit
<1>5. events' = [events EXCEPT ![k] = e1] /\ contributions' = [contributions EXCEPT ![k] = c1]
  BY DEF Admit, Upsert, Counted
<1> HIDE DEF e1, c1, off1
<1> QED
  BY <1>2, <1>3, <1>4, <1>5, OneKey

\* A copy that an excluded one holds out only competes.
LEMMA RefusedOK ==
    ASSUME KeysOK, NEW k \in Keys, NEW w \in Stored, NEW from,
           ~BeatsExcludedHolder(k, w), Competed(k, w, FALSE, from),
           UNCHANGED <<events, contributions, excludedHolders>>
    PROVE  KeysOK'
<1> DEFINE off1 == offered[k] \cup {Offered(w, FALSE)}
<1>1. KeyOKAt(k) /\ StoreType
  BY DEF KeysOK
<1>2. KeyOK(events[k], contributions[k], excludedHolders[k], off1)
  BY <1>1, KeyRefused DEF KeyOKAt, BeatsExcludedHolder
<1>3. /\ offered' = [offered EXCEPT ![k] = off1]
      /\ events' = [events EXCEPT ![k] = events[k]]
      /\ contributions' = [contributions EXCEPT ![k] = contributions[k]]
      /\ excludedHolders' = [excludedHolders EXCEPT ![k] = excludedHolders[k]]
  BY <1>1 DEF Competed, Offered, StoreType
<1> HIDE DEF off1
<1> QED
  BY <1>2, <1>3, OneKey
LEMMA SameKeys ==
    ASSUME KeysOK, UNCHANGED <<events, contributions, excludedHolders, offered>>
    PROVE  KeysOK'
BY DEF KeysOK, StoreType, KeyOKAt

LEMMA EvictedIsAPair ==
    ASSUME StoreType, NEW k \in Keys, NEW w, NEW reader
    PROVE  EvictedPair(k, w, reader) \subseteq Pairs
<1>1. events[k] # None => events[k].session \in Pairs
  BY DEF StoreType, Stored
<1> QED
  BY <1>1 DEF EvictedPair

\* A point more, or none, of one pair.
LEMMA PointsKept ==
    ASSUME PointsOK, NEW s \in Pairs, NEW ms \in Times, NEW tag \in Tags,
           AddOwnerPoint(s, ms, tag)
    PROVE  PointsOK'
<1> DEFINE q == ownerPoints[s]
           p == [ms |-> ms, tag |-> tag]
           b == Before(q, ms)
           t == Inserted(q, b, p)
<1>1. InOrder(q) /\ p \in Points /\ p.ms = ms
  BY DEF PointsOK, Points
<1>2. InOrder(t)
  <2>1. b = Before(q, p.ms)
    BY <1>1
  <2> HIDE DEF p, b, q
  <2> QED
    BY <1>1, <2>1, PointAdded
<1>3. CASE UNCHANGED ownerPoints
  BY <1>3 DEF PointsOK
<1>4. CASE ownerPoints' = [ownerPoints EXCEPT ![s] = t]
  <2>1. t \in Seq(Points)
    BY <1>2 DEF InOrder
  <2> HIDE DEF t
  <2> QED
    BY <1>2, <1>4, <2>1 DEF PointsOK
<1> QED
  BY <1>3, <1>4 DEF AddOwnerPoint, Inserted, Before

\* A line of a transcript.
LEMMA AppendKeeps ==
    ASSUME EngineInv, NEW k \in Keys, NEW s \in Pairs, NEW total \in Totals,
           NEW tag \in Tags \cup {NoTag}, NEW ms \in Times, NEW isSubagent \in BOOLEAN,
           Append1(k, s, total, tag, ms, isSubagent)
    PROVE  EngineInv'
<1> DEFINE resolved == IF isSubagent THEN ResolveOwner(s, ms) ELSE tag
           w == [total |-> total, tag |-> resolved, session |-> s, machine |-> Self]
           evicted == EvictedPair(k, w, {s})
<1>1. KeysOK /\ OwnOK /\ ListsOK /\ PointsOK /\ StoreType
  BY DEF EngineInv, KeysOK
<1>2. w \in Stored /\ w.tag = resolved
  <2>1. resolved \in Tags \cup {NoTag}
    BY <1>1, OwnerIs DEF PointsOK
  <2> HIDE DEF resolved
  <2> QED
    BY <2>1 DEF Stored
<1>3. PointsOK'
  <2>1. CASE tag # NoTag /\ ~isSubagent
    <3>1. AddOwnerPoint(s, ms, tag) /\ tag \in Tags
      BY <2>1 DEF Append1
    <3> QED
      BY <1>1, <3>1, PointsKept
  <2>2. CASE ~(tag # NoTag /\ ~isSubagent)
    <3>1. UNCHANGED ownerPoints
      BY <2>2 DEF Append1
    <3> QED
      BY <1>1, <3>1 DEF PointsOK
  <2> QED
    BY <2>1, <2>2
<1>4. evicted \subseteq Pairs
  BY <1>1, EvictedIsAPair
<1>5. /\ walkedPairs' = walkedPairs \cup {s}
      /\ IF OutsideTrackedSet(w.tag)
         THEN /\ OfferExcluded(k, w) /\ Competed(k, w, TRUE, "walk")
              /\ foreignSessions' = foreignSessions \cup {s} \cup evicted
              /\ told' \in {told, told \cup {s} \cup evicted}
              /\ UNCHANGED dormantPairsSeen
         ELSE IF DormantRow(w)
         THEN /\ dormantPairsSeen' = dormantPairsSeen \cup {s}
              /\ UNCHANGED <<events, contributions, excludedHolders, foreignSessions, told,
                             offered, own>>
         ELSE /\ Competed(k, w, FALSE, "walk")
              /\ UNCHANGED dormantPairsSeen
              /\ IF BeatsExcludedHolder(k, w)
                 THEN Admit(k, w, TRUE) /\ UNCHANGED <<foreignSessions, told>>
                 ELSE /\ foreignSessions' = foreignSessions \cup {s}
                      /\ told' \in {told, told \cup {s}}
                      /\ UNCHANGED <<events, contributions, excludedHolders>>
  <2>1. w.tag = resolved
    BY <1>2
  <2> QED
    BY <2>1 DEF Append1
<1> HIDE DEF resolved, w, evicted
<1>6. CASE OutsideTrackedSet(w.tag)
  <2>1. OfferExcluded(k, w) /\ Competed(k, w, TRUE, "walk")
    BY <1>5, <1>6
  <2>2. KeysOK'
    BY <1>1, <1>2, <1>6, <2>1, ExcludedOK
  <2>3. OwnOK'
    BY <1>1, <1>2, <2>1, CompetedOK
  <2>4. ListsOK'
    BY <1>1, <1>4, <1>5, <1>6 DEF ListsOK
  <2> QED
    BY <1>3, <2>2, <2>3, <2>4 DEF EngineInv
<1>7. CASE ~OutsideTrackedSet(w.tag) /\ DormantRow(w)
  <2>1. KeysOK'
    BY <1>1, <1>5, <1>7, SameKeys
  <2>2. OwnOK'
    BY <1>1, <1>5, <1>7 DEF OwnOK
  <2>3. ListsOK'
    BY <1>1, <1>5, <1>7 DEF ListsOK
  <2> QED
    BY <1>3, <2>1, <2>2, <2>3 DEF EngineInv
<1>8. CASE ~OutsideTrackedSet(w.tag) /\ ~DormantRow(w)
  <2>1. Competed(k, w, FALSE, "walk")
    BY <1>5, <1>8
  <2>2. KeysOK'
    <3>1. CASE BeatsExcludedHolder(k, w)
      <4>1. Admit(k, w, TRUE)
        BY <1>5, <1>8, <3>1
      <4> QED
        BY <1>1, <1>2, <1>8, <2>1, <3>1, <4>1, AdmittedOK
    <3>2. CASE ~BeatsExcludedHolder(k, w)
      <4>1. UNCHANGED <<events, contributions, excludedHolders>>
        BY <1>5, <1>8, <3>2
      <4> QED
        BY <1>1, <1>2, <2>1, <3>2, <4>1, RefusedOK
    <3> QED
      BY <3>1, <3>2
  <2>3. OwnOK'
    BY <1>1, <1>2, <1>8, <2>1, CompetedOK
  <2>4. ListsOK'
    BY <1>1, <1>5, <1>8 DEF ListsOK
  <2> QED
    BY <1>3, <2>2, <2>3, <2>4 DEF EngineInv
<1> QED
  BY <1>6, <1>7, <1>8

\* A row of the Local archive, or of the replica.
LEMMA FleetKeeps ==
    ASSUME EngineInv, NEW k \in Keys, NEW w \in Stored, NEW from \in {"archive", "replica"},
           AppendFleet(k, w, from)
    PROVE  EngineInv'
<1> DEFINE archive == from = "archive"
           evicted == EvictedPair(k, w, foreignSessions)
<1>1. KeysOK /\ OwnOK /\ ListsOK /\ PointsOK /\ StoreType
  BY DEF EngineInv, KeysOK
<1>2. PointsOK' /\ walkedPairs' = walkedPairs
  BY <1>1 DEF AppendFleet, PointsOK
<1>3. evicted \subseteq Pairs /\ w.session \in Pairs
  BY <1>1, EvictedIsAPair DEF Stored
<1>4. CASE archive /\ OutsideTrackedSet(w.tag)
  <2>1. OfferExcluded(k, w) /\ Competed(k, w, TRUE, "archive")
    BY <1>4 DEF AppendFleet
  <2>2. KeysOK'
    BY <1>1, <1>4, <2>1, ExcludedOK
  <2>3. OwnOK'
    BY <1>1, <2>1, CompetedOK
  <2>4. /\ foreignSessions' = foreignSessions \cup evicted /\ told' = told \cup evicted
        /\ UNCHANGED dormantPairsSeen
    BY <1>4 DEF AppendFleet
  <2>5. ListsOK'
    BY <1>1, <1>2, <1>3, <2>4 DEF ListsOK
  <2> QED
    BY <1>2, <2>2, <2>3, <2>5 DEF EngineInv
<1>5. CASE ~(archive /\ OutsideTrackedSet(w.tag)) /\ ~BeatsExcludedHolder(k, w)
  <2>1. /\ Competed(k, w, FALSE, from)
        /\ UNCHANGED <<events, contributions, excludedHolders, foreignSessions,
                       dormantPairsSeen, told>>
    BY <1>5 DEF AppendFleet
  <2>2. KeysOK'
    BY <1>1, <1>5, <2>1, RefusedOK
  <2>3. OwnOK'
    BY <1>1, <1>5, <2>1, CompetedOK
  <2>4. ListsOK'
    BY <1>1, <1>2, <2>1 DEF ListsOK
  <2> QED
    BY <1>2, <2>2, <2>3, <2>4 DEF EngineInv
<1>6. CASE ~(archive /\ OutsideTrackedSet(w.tag)) /\ BeatsExcludedHolder(k, w) /\ DormantRow(w)
  <2>1. /\ dormantPairsSeen' \in {dormantPairsSeen, dormantPairsSeen \cup {w.session}}
        /\ UNCHANGED <<events, contributions, excludedHolders, foreignSessions, told,
                       offered, own>>
    BY <1>6 DEF AppendFleet
  <2>2. KeysOK'
    BY <1>1, <2>1, SameKeys
  <2>3. OwnOK'
    BY <1>1, <2>1 DEF OwnOK
  <2>4. ListsOK'
    BY <1>1, <1>2, <1>3, <2>1 DEF ListsOK
  <2> QED
    BY <1>2, <2>2, <2>3, <2>4 DEF EngineInv
<1>7. CASE ~(archive /\ OutsideTrackedSet(w.tag)) /\ BeatsExcludedHolder(k, w) /\ ~DormantRow(w)
  <2>1. /\ Admit(k, w, archive) /\ Competed(k, w, FALSE, from)
        /\ UNCHANGED <<foreignSessions, dormantPairsSeen, told>>
    BY <1>7 DEF AppendFleet
  <2>2. archive \in BOOLEAN /\ (archive => ~DormantRow(w) /\ ~OutsideTrackedSet(w.tag))
    BY <1>7
  <2>3. KeysOK'
    <3> HIDE DEF archive
    <3> QED
      BY <1>1, <1>7, <2>1, <2>2, AdmittedOK
  <2>4. OwnOK'
    BY <1>1, <1>7, <2>1, CompetedOK
  <2>5. ListsOK'
    BY <1>1, <1>2, <2>1 DEF ListsOK
  <2> QED
    BY <1>2, <2>3, <2>4, <2>5 DEF EngineInv
<1> QED
  BY <1>4, <1>5, <1>6, <1>7
-------------------------------------------------------------------------------
(* Removals *)

LEMMA ForgetKeeps ==
    ASSUME EngineInv, NEW s \in Pairs, RemoveMachineSessions(s)
    PROVE  EngineInv'
<1> DEFINE gone == {k \in Keys : events[k] # None /\ events[k].machine = Self
                                 /\ events[k].session = s}
<1>1. KeysOK /\ OwnOK /\ ListsOK /\ PointsOK /\ StoreType
  BY DEF EngineInv, KeysOK
<1>2. /\ events' = [k \in Keys |-> IF k \in gone THEN None ELSE events[k]]
      /\ contributions' = [k \in Keys |-> IF k \in gone THEN None ELSE contributions[k]]
      /\ offered' = [k \in Keys |-> IF k \in gone THEN {} ELSE offered[k]]
      /\ own' = [k \in Keys |-> {o \in own[k] : o.copy.session # s}]
      /\ UNCHANGED <<excludedHolders, foreignSessions, walkedPairs, dormantPairsSeen,
                     ownerPoints, told>>
  BY DEF RemoveMachineSessions, ContributionsWithout
<1>3. ASSUME NEW k \in Keys
      PROVE  KeyOK(events'[k], contributions'[k], excludedHolders'[k], offered'[k])
  <2>1. KeyOK(events[k], contributions[k], excludedHolders[k], offered[k])
    BY <1>1 DEF KeysOK, KeyOKAt
  <2>2. CASE k \in gone
    <3>1. excludedHolders[k] = None
      BY <2>1, <2>2 DEF KeyOK, Fullest
    <3>2. /\ events'[k] = None /\ contributions'[k] = None /\ excludedHolders'[k] = None
          /\ offered'[k] = {}
      BY <1>2, <2>2, <3>1
    <3> QED
      BY <3>2, NoKeyOK
  <2>3. CASE k \notin gone
    <3>1. /\ events'[k] = events[k] /\ contributions'[k] = contributions[k]
          /\ excludedHolders'[k] = excludedHolders[k] /\ offered'[k] = offered[k]
      BY <1>2, <2>3
    <3> QED
      BY <2>1, <3>1
  <2> QED
    BY <2>2, <2>3
<1>4. KeysOK'
  <2> HIDE DEF gone
  <2>1. /\ DOMAIN events' = Keys /\ events' = [k \in Keys |-> events'[k]]
        /\ DOMAIN contributions' = Keys /\ contributions' = [k \in Keys |-> contributions'[k]]
        /\ DOMAIN offered' = Keys /\ offered' = [k \in Keys |-> offered'[k]]
    BY <1>2
  <2>2. /\ DOMAIN excludedHolders' = Keys
        /\ excludedHolders' = [k \in Keys |-> excludedHolders'[k]]
    BY <1>1, <1>2 DEF StoreType
  <2> QED
    BY <1>3, <2>1, <2>2, EveryKey
<1>5. OwnOK'
  BY <1>1, <1>2 DEF OwnOK
<1>6. ListsOK' /\ PointsOK'
  BY <1>1, <1>2 DEF ListsOK, PointsOK
<1> QED
  BY <1>4, <1>5, <1>6 DEF EngineInv

\* What the Hub deleted of a key: the copy this machine would push counts again.
LEMMA DeletionKeeps ==
    ASSUME EngineInv, NEW k \in Keys, RemoveFleetKeys(k)
    PROVE  EngineInv'
<1> DEFINE c == contributions[k]
           x == excludedHolders[k]
           off1 == IF c # None THEN {Offered(c, FALSE)}
                   ELSE IF x # None THEN {o \in offered[k] : o.ex} ELSE {}
<1>1. KeysOK /\ OwnOK /\ ListsOK /\ PointsOK /\ StoreType
  BY DEF EngineInv, KeysOK
<1>2. KeyOK(events[k], c, x, offered[k])
  BY <1>1 DEF KeysOK, KeyOKAt
<1>3. KeyOK(c, c, x, off1)
  <2>1. CASE c # None
    <3>1. c \in Stored /\ x = None /\ ~DormantRow(c) /\ ~OutsideTrackedSet(c.tag)
      BY <1>2, <2>1 DEF KeyOK
    <3>2. Ranked(c) /\ AtLeast(c, c)
      BY <3>1, StoredRanked, OrderIs
    <3>3. Offered(c, FALSE) \in OffersOf /\ Offered(c, FALSE).copy = c /\ Offered(c, FALSE).ex = FALSE
      BY <3>1 DEF Offered, OffersOf
    <3>4. Fullest({Offered(c, FALSE)}, c, FALSE)
      BY <3>2, <3>3 DEF Fullest, SameFullness
    <3>5. KeyOK(c, c, x, {Offered(c, FALSE)})
      BY <2>1, <3>1, <3>2, <3>3, <3>4 DEF KeyOK
    <3> QED
      BY <2>1, <3>5
  <2>2. CASE c = None /\ x # None
    <3> DEFINE off2 == {o \in offered[k] : o.ex}
    <3>1. Fullest(offered[k], x, TRUE) /\ offered[k] \in SUBSET OffersOf /\ x \in Holders
      BY <1>2, <2>2 DEF KeyOK
    <3>2. Fullest(off2, x, TRUE)
      BY <3>1 DEF Fullest
    <3>3. off2 \in SUBSET OffersOf
      BY <3>1
    <3> HIDE DEF off2
    <3>4. KeyOK(None, None, x, off2)
      BY <2>2, <3>1, <3>2, <3>3 DEF KeyOK
    <3> QED
      BY <2>2, <3>4 DEF off2
  <2>3. CASE c = None /\ x = None
    BY <2>3, NoKeyOK
  <2> QED
    BY <2>1, <2>2, <2>3
<1>4. KeysOK'
  <2>1. /\ events' = [events EXCEPT ![k] = c]
        /\ contributions' = [contributions EXCEPT ![k] = c]
        /\ excludedHolders' = [excludedHolders EXCEPT ![k] = x]
    BY <1>1 DEF RemoveFleetKeys, StoreType
  <2>2. offered' = [offered EXCEPT ![k] = off1]
    BY DEF RemoveFleetKeys, Offered
  <2> HIDE DEF c, x, off1
  <2> QED
    BY <1>1, <1>3, <2>1, <2>2, OneKey
<1>5. OwnOK' /\ ListsOK' /\ PointsOK'
  BY <1>1 DEF RemoveFleetKeys, OwnOK, ListsOK, PointsOK
<1> QED
  BY <1>4, <1>5 DEF EngineInv

\* What this machine would push is replaced by what a fresh walk found.
LEMMA PreparedKeeps ==
    ASSUME EngineInv, NEW fresh \in [Keys -> {None} \cup Stored],
           \A k \in Keys : fresh[k] \in FreshContribution(k),
           PrepareContributions(fresh)
    PROVE  EngineInv'
<1> DEFINE taken == {k \in Keys : fresh[k] # None /\ BeatsExcludedHolder(k, fresh[k])
                                  /\ ~DormantRow(fresh[k])}
<1>1. KeysOK /\ OwnOK /\ ListsOK /\ PointsOK /\ StoreType
  BY DEF EngineInv, KeysOK
<1>2. /\ contributions' = [k \in Keys |-> IF k \in taken THEN fresh[k] ELSE None]
      /\ events' = [k \in Keys |->
                       IF k \in taken /\ (events[k] = None \/ Supersedes(fresh[k], events[k]))
                       THEN fresh[k] ELSE events[k]]
      /\ excludedHolders' = [k \in Keys |-> IF k \in taken THEN None ELSE excludedHolders[k]]
      /\ offered' = [k \in Keys |-> IF k \in taken
                                     THEN offered[k] \cup {Offered(fresh[k], FALSE)}
                                     ELSE offered[k]]
      /\ UNCHANGED <<foreignSessions, walkedPairs, dormantPairsSeen, ownerPoints, told, own>>
  BY DEF PrepareContributions, Offered
<1>3. ASSUME NEW k \in Keys
      PROVE  KeyOK(events'[k], contributions'[k], excludedHolders'[k], offered'[k])
  <2>1. KeyOK(events[k], contributions[k], excludedHolders[k], offered[k])
    BY <1>1 DEF KeysOK, KeyOKAt
  <2>2. CASE k \in taken
    <3>1. PICK w \in Stored : w = fresh[k]
      BY <2>2
    <3>2. ~DormantRow(w) /\ ~OutsideTrackedSet(w.tag)
      <4>1. PICK o \in own[k] : ~o.ex /\ o.copy = w
        BY <2>2, <3>1 DEF FreshContribution
      <4> QED
        BY <1>1, <2>2, <3>1, <4>1 DEF OwnOK
    <3>3. excludedHolders[k] = None \/ Supersedes(w, excludedHolders[k])
      BY <2>2, <3>1 DEF BeatsExcludedHolder
    <3>4. KeyOK(Counted(events[k], w), w, None, offered[k] \cup {Offered(w, FALSE)})
      BY <2>1, <3>2, <3>3, KeyAdmitted
    <3>5. /\ events'[k] = Counted(events[k], w) /\ contributions'[k] = w
          /\ excludedHolders'[k] = None /\ offered'[k] = offered[k] \cup {Offered(w, FALSE)}
      <4> HIDE DEF taken
      <4> QED
        BY <1>2, <2>2, <3>1 DEF Counted
    <3> QED
      BY <3>4, <3>5
  <2>3. CASE k \notin taken
    <3>1. /\ events'[k] = events[k] /\ contributions'[k] = None
          /\ excludedHolders'[k] = excludedHolders[k] /\ offered'[k] = offered[k]
      <4> HIDE DEF taken
      <4> QED
        BY <1>2, <2>3
    <3>2. KeyOK(events[k], None, excludedHolders[k], offered[k])
      BY <2>1 DEF KeyOK
    <3> QED
      BY <3>1, <3>2
  <2> QED
    BY <2>2, <2>3
<1>4. KeysOK'
  <2> HIDE DEF taken
  <2>1. /\ DOMAIN events' = Keys /\ events' = [k \in Keys |-> events'[k]]
        /\ DOMAIN contributions' = Keys /\ contributions' = [k \in Keys |-> contributions'[k]]
        /\ DOMAIN excludedHolders' = Keys
        /\ excludedHolders' = [k \in Keys |-> excludedHolders'[k]]
        /\ DOMAIN offered' = Keys /\ offered' = [k \in Keys |-> offered'[k]]
    BY <1>2
  <2> QED
    BY <1>3, <2>1, EveryKey
<1>5. OwnOK' /\ ListsOK' /\ PointsOK'
  BY <1>1, <1>2 DEF OwnOK, ListsOK, PointsOK
<1> QED
  BY <1>4, <1>5 DEF EngineInv

-------------------------------------------------------------------------------
(* The theorems *)

LEMMA EngineStep ==
    ASSUME EngineInv, [Next]_vars
    PROVE  EngineInv'
<1>1. CASE UNCHANGED vars
  BY <1>1 DEF vars, EngineInv, KeysOK, StoreType, KeyOKAt, OwnOK, ListsOK, PointsOK
<1>2. ASSUME NEW k \in Keys, NEW s \in Pairs, NEW total \in Totals,
             NEW tag \in Tags \cup {NoTag}, NEW ms \in Times, NEW isSubagent \in BOOLEAN,
             Append1(k, s, total, tag, ms, isSubagent)
      PROVE  EngineInv'
  BY <1>2, AppendKeeps
<1>3. ASSUME NEW k \in Keys, NEW c \in Stored, NEW from \in {"archive", "replica"},
             AppendFleet(k, c, from)
      PROVE  EngineInv'
  BY <1>3, FleetKeeps
<1>4. ASSUME NEW s \in Pairs, RemoveMachineSessions(s) PROVE EngineInv'
  BY <1>4, ForgetKeeps
<1>5. ASSUME NEW k \in Keys, RemoveFleetKeys(k) PROVE EngineInv'
  BY <1>5, DeletionKeeps
<1>6. ASSUME NEW fresh \in {f \in [Keys -> {None} \cup Stored] :
                                \A k \in Keys : f[k] \in FreshContribution(k)},
             PrepareContributions(fresh)
      PROVE  EngineInv'
  BY <1>6, PreparedKeeps
<1> QED
  BY <1>1, <1>2, <1>3, <1>4, <1>5, <1>6 DEF Next

\* Whatever feeds the store, in whatever order: each key is counted or excluded
\* as the fullest copy offered says, what would be pushed is counted, the own
\* copies that may be are of the tracked set, the points of a pair are in order.
THEOREM EngineInvariant == Spec => []EngineInv
<1>1. Init => EngineInv
  BY EngineInit
<1>2. EngineInv /\ [Next]_vars => EngineInv'
  BY EngineStep
<1> QED
  BY <1>1, <1>2, PTL DEF Spec

LEMMA InvIsCount ==
    ASSUME EngineInv
    PROVE  CountsTheFullest
<1>1. KeysOK /\ ListsOK /\ PointsOK /\ StoreType
  BY DEF EngineInv, KeysOK
<1>2. EngineStoreTypeOK
  <2>1. ASSUME NEW s \in Pairs, NEW i \in 1 .. Len(ownerPoints[s]) - 1
        PROVE  ownerPoints[s][i].ms <= ownerPoints[s][i + 1].ms
    <3>1. InOrder(ownerPoints[s])
      BY <1>1 DEF PointsOK
    <3>2. Len(ownerPoints[s]) \in Nat /\ DOMAIN ownerPoints[s] = 1 .. Len(ownerPoints[s])
      BY <3>1, LenProperties DEF InOrder
    <3>3. i \in DOMAIN ownerPoints[s] /\ i + 1 \in DOMAIN ownerPoints[s] /\ i <= i + 1
      BY <3>2
    <3> QED
      BY <3>1, <3>3 DEF InOrder
  <2> QED
    BY <1>1, <2>1 DEF StoreType, ListsOK, EngineStoreTypeOK
<1>3. ASSUME NEW k \in Keys
      PROVE  KeyOK(events[k], contributions[k], excludedHolders[k], offered[k])
  BY <1>1 DEF KeysOK, KeyOKAt
<1>4. VerdictIsOfFullest
  <2>1. ASSUME NEW k \in Keys, NEW w, NEW b, Fullest(offered[k], w, b)
        PROVE  \E o \in {q \in offered[k] : \A p \in offered[k] : AtLeast(q.copy, p.copy)} :
                   o.ex = b /\ SameFullness(o.copy, w)
    BY <2>1 DEF Fullest
  <2>2. ASSUME NEW k \in Keys
        PROVE  /\ offered[k] # {} => (events[k] = None) = (excludedHolders[k] # None)
               /\ events[k] # None => Fullest(offered[k], events[k], FALSE)
               /\ excludedHolders[k] # None => Fullest(offered[k], excludedHolders[k], TRUE)
    BY <1>3 DEF KeyOK
  <2> QED
    BY <2>1, <2>2 DEF VerdictIsOfFullest
<1>5. ContributionIsCounted
  BY <1>3 DEF KeyOK, ContributionIsCounted
<1> QED
  BY <1>2, <1>4, <1>5 DEF CountsTheFullest

\* However the copies of a key come, it is counted when the fullest of them is
\* admitted and excluded when it is not; and what this machine would push of a
\* key is counted, of the tracked set and of no dormant pair.
THEOREM CountsTheFullestHolds == Spec => []CountsTheFullest
<1>1. EngineInv => CountsTheFullest
  BY InvIsCount
<1> QED
  BY <1>1, EngineInvariant, PTL

LEMMA EvictionStep ==
    ASSUME KeysOK, [Next]_vars, NEW k \in Keys,
           excludedHolders[k] = None, excludedHolders'[k] # None,
           events[k] # None, events[k].machine = Self, events[k].session \in walkedPairs
    PROVE  /\ events[k].session \in foreignSessions'
           /\ events[k].session \in told' \/ events[k].session \in foreignSessions
<1>1. StoreType
  BY DEF KeysOK
<1>2. ASSUME NEW j \in Keys, NEW w, OfferExcluded(j, w)
      PROVE  j = k /\ ExcludedWins(k, w)
  <2>1. j = k
    BY <1>1, <1>2 DEF OfferExcluded, StoreType
  <2>2. ExcludedWins(k, w)
    BY <1>1, <1>2, <2>1 DEF OfferExcluded, StoreType
  <2> QED
    BY <2>1, <2>2
<1>3. ASSUME UNCHANGED excludedHolders PROVE FALSE
  BY <1>3
<1>4. ASSUME NEW j \in Keys, NEW w, NEW local, Admit(j, w, local) PROVE FALSE
  BY <1>1, <1>4 DEF Admit, StoreType
<1>5. CASE UNCHANGED vars
  BY <1>3, <1>5 DEF vars
<1>6. ASSUME NEW j \in Keys, NEW s \in Pairs, NEW total \in Totals,
             NEW tag \in Tags \cup {NoTag}, NEW ms \in Times, NEW isSubagent \in BOOLEAN,
             Append1(j, s, total, tag, ms, isSubagent)
      PROVE  /\ events[k].session \in foreignSessions'
             /\ events[k].session \in told' \/ events[k].session \in foreignSessions
  <2> DEFINE resolved == IF isSubagent THEN ResolveOwner(s, ms) ELSE tag
             w == [total |-> total, tag |-> resolved, session |-> s, machine |-> Self]
             evicted == EvictedPair(j, w, {s})
  <2>1. CASE OutsideTrackedSet(resolved)
    <3>1. /\ OfferExcluded(j, w)
          /\ foreignSessions' = foreignSessions \cup {s} \cup evicted
          /\ told' = IF ExcludedWins(j, w) \/ s \notin foreignSessions
                     THEN told \cup {s} \cup evicted ELSE told
      BY <1>6, <2>1 DEF Append1
    <3>2. j = k /\ ExcludedWins(k, w)
      <4> HIDE DEF w
      <4> QED
        BY <1>2, <3>1
    <3>3. events[k].session = s \/ evicted = {events[k].session}
      BY <3>2 DEF EvictedPair
    <3> QED
      BY <3>1, <3>2, <3>3
  <2>2. CASE ~OutsideTrackedSet(resolved)
    <3>1. UNCHANGED excludedHolders \/ Admit(j, w, TRUE)
      BY <1>6, <2>2 DEF Append1
    <3> HIDE DEF w
    <3> QED
      BY <1>3, <1>4, <3>1
  <2> QED
    BY <2>1, <2>2
<1>7. ASSUME NEW j \in Keys, NEW w \in Stored, NEW from \in {"archive", "replica"},
             AppendFleet(j, w, from)
      PROVE  /\ events[k].session \in foreignSessions'
             /\ events[k].session \in told' \/ events[k].session \in foreignSessions
  <2> DEFINE evicted == EvictedPair(j, w, foreignSessions)
  <2>1. CASE from = "archive" /\ OutsideTrackedSet(w.tag)
    <3>1. /\ OfferExcluded(j, w)
          /\ foreignSessions' = foreignSessions \cup evicted
          /\ told' = told \cup evicted
      BY <1>7, <2>1 DEF AppendFleet
    <3>2. j = k /\ ExcludedWins(k, w)
      BY <1>2, <3>1
    <3>3. events[k].session \in foreignSessions \/ evicted = {events[k].session}
      BY <3>2 DEF EvictedPair
    <3> QED
      BY <3>1, <3>3
  <2>2. CASE ~(from = "archive" /\ OutsideTrackedSet(w.tag))
    <3>1. UNCHANGED excludedHolders \/ Admit(j, w, from = "archive")
      BY <1>7, <2>2 DEF AppendFleet
    <3> QED
      BY <1>3, <1>4, <3>1
  <2> QED
    BY <2>1, <2>2
<1>8. ASSUME NEW s \in Pairs, RemoveMachineSessions(s) PROVE FALSE
  BY <1>3, <1>8 DEF RemoveMachineSessions
<1>9. ASSUME NEW j \in Keys, RemoveFleetKeys(j) PROVE FALSE
  BY <1>3, <1>9 DEF RemoveFleetKeys
<1>10. ASSUME NEW fresh, PrepareContributions(fresh) PROVE FALSE
  BY <1>10 DEF PrepareContributions
<1> QED
  BY <1>5, <1>6, <1>7, <1>8, <1>9, <1>10 DEF Next

\* An excluded copy that takes a key from a walked pair's own copy leaves the
\* pair on the repair's list, and the repair told, whichever feeder brought it.
THEOREM EvictedIsOwedHolds == Spec => EvictedIsOwed
<1>1. EngineInv /\ [Next]_vars =>
          [\A k \in Keys :
              excludedHolders[k] = None /\ excludedHolders'[k] # None
              /\ events[k] # None /\ events[k].machine = Self
              /\ events[k].session \in walkedPairs
              => /\ events[k].session \in foreignSessions'
                 /\ events[k].session \in told' \/ events[k].session \in foreignSessions]_vars
  BY EvictionStep DEF EngineInv
<1> QED
  BY <1>1, EngineInvariant, PTL DEF Spec, EvictedIsOwed

-------------------------------------------------------------------------------
(* The reader of transcripts *)

CursorType == [gen : Nat, at : Nat]
LineType == [line : Nat, after : CursorType]
FileType == {f \in [gen : 0 .. MaxGens, len : Nat, alive : BOOLEAN] : f.alive => f.gen >= 1}
HeadType == [phase : {"idle", "sized", "slicing", "sliced"}, size : Nat \cup {-1},
             gen : 0 .. MaxGens, from : Nat]
LandedType == [1 .. MaxGens -> Seq(LineType)]
NoticeType == Seq({"change", "unlink"})
ReadsType == Seq(Paths \cup {NoPath})

TailTypes ==
    /\ file \in [Paths -> FileType] /\ cut \in [Paths -> BOOLEAN]
    /\ notices \in [Paths -> NoticeType] /\ timer \in [Paths -> BOOLEAN]
    /\ reads \in [Paths -> ReadsType] /\ head \in [Paths -> HeadType]
    /\ offsets \in [Paths -> Nat] /\ cursorAtEnd \in [Paths -> CursorType]
    /\ landed \in [Paths -> LandedType]
    /\ spawned \in CursorType /\ crossed \subseteq Paths

\* An unlink has not been heard yet.
Pending(news) == \E i \in 1 .. Len(news) : news[i] = "unlink"

\* The offset n is past just the lines of generation g that landed, and the
\* cursor is at the last of them.
ReadSoFar(ld, cur, g, n) ==
    n = 2 * Len(ld[g]) /\ (n > 0 => cur = [gen |-> g, at |-> Len(ld[g])])

\* A truncation not yet noticed left an empty file, an unlink not yet heard
\* none, and nothing of a generation to come has landed.
FileOK(f, c, news, ld) ==
    /\ c => f.alive /\ f.len = 0 /\ ld[f.gen] = <<>>
    /\ Pending(news) => ~f.alive
    /\ \A g \in 1 .. MaxGens : g > f.gen => ld[g] = <<>>

\* The lines of a generation landed in order, each under those before it.
LinesOK(ld) ==
    \A g \in 1 .. MaxGens : \A i \in 1 .. Len(ld[g]) :
        /\ ld[g][i].line = i
        /\ ld[g][i].after = IF i = 1 THEN Fresh ELSE [gen |-> g, at |-> i - 1]

\* Offset and cursor are of the file as it is, or wait to be dropped.
OffsetOK(f, c, news, h, at, cur, ld) ==
    /\ f.alive /\ ~c => ReadSoFar(ld, cur, f.gen, at) /\ at <= f.len
    /\ ~f.alive /\ ~Pending(news) => at = 0 /\ h.phase # "sliced"

\* What the read under way sampled is of a file that offset and cursor are of.
HeadOK(f, c, h, at, cur, ld) ==
    /\ h.phase = "sized" =>
         /\ h.size \in {-1, 0} \/ h.size >= at
         /\ h.size = 0 /\ f.alive /\ ~c => at = 0
    /\ h.phase \in {"slicing", "sliced"} => h.from = at
    /\ h.phase = "sliced" =>
         /\ h.gen \in 1 .. f.gen /\ h.size >= 0
         /\ f.alive /\ ~c => h.gen = f.gen
         /\ f.alive /\ h.gen = f.gen => h.size <= f.len
         /\ h.size > h.from => ReadSoFar(ld, cur, h.gen, h.from)

Fine(f, c, news, h, at, cur, ld) ==
    FileOK(f, c, news, ld) /\ LinesOK(ld) /\ OffsetOK(f, c, news, h, at, cur, ld)
      /\ HeadOK(f, c, h, at, cur, ld)

PathOK(p) ==
    Fine(file[p], cut[p], notices[p], head[p], offsets[p], cursorAtEnd[p], landed[p])

PathsOK == \A p \in Paths : p \notin crossed => PathOK(p)

\* The parent's transcript is still the one the subagent was spawned from.
SameParent == file[parent].alive /\ file[parent].gen = spawned.gen

\* What it held then has landed.
ParentHas ==
    SameParent /\ parent \notin crossed => Len(landed[parent][spawned.gen]) >= spawned.at

\* The subagent's own transcript is being read, or has been.
Begun == reads[sub] # <<>> \/ \E g \in 1 .. MaxGens : landed[sub][g] # <<>>

SpawnOK ==
    /\ spawned.gen <= file[parent].gen
    /\ SameParent => 2 * spawned.at <= file[parent].len
    /\ file[sub].gen = 0 =>
         /\ notices[sub] = <<>> /\ ~timer[sub] /\ ~Begun
         /\ \A i \in 1 .. Len(reads[parent]) : reads[parent][i] # sub
    /\ Begun => ParentHas

\* Only the subagent's read waits for one of another path.
QueueOK ==
    /\ \A i \in 1 .. Len(reads[parent]) : reads[parent][i] \in {NoPath, sub}
    /\ \A i \in 1 .. Len(reads[sub]) : reads[sub][i] = NoPath
    /\ \A p \in Paths : head[p].phase # "idle" => reads[p] # <<>>

\* The parent's read that a subagent's waits for sees what there was at the spawn.
AheadOK ==
    head[parent].phase # "idle" /\ Head(reads[parent]) = sub /\ SameParent
      /\ parent \notin crossed =>
        /\ head[parent].size >= 2 * spawned.at
        /\ head[parent].phase = "sliced" => head[parent].gen = spawned.gen

TailInv == TailTypes /\ PathsOK /\ SpawnOK /\ QueueOK /\ AheadOK

-------------------------------------------------------------------------------
LEMMA TwoPaths ==
    /\ Paths = {parent, sub} /\ parent # sub /\ NoPath \notin Paths
    /\ parent \in Paths /\ sub \in Paths
    /\ ParentOf(parent) = NoPath /\ ParentOf(sub) = parent
BY TailAssumption DEF Paths, ParentOf

LEMMA Halves ==
    \A n \in Nat : n \div 2 \in Nat /\ 2 * (n \div 2) <= n /\ n <= 2 * (n \div 2) + 1
BY SMT

\* What is told of a change hides no unlink and adds none.
LEMMA HeardChange ==
    ASSUME NEW news \in NoticeType
    PROVE  /\ Heard(news, "change") \in NoticeType
           /\ Pending(Heard(news, "change")) <=> Pending(news)
           /\ Heard(news, "change") # <<>>
<1>1. CASE news # <<>> /\ news[Len(news)] = "change"
  BY <1>1 DEF Heard
<1>2. CASE ~(news # <<>> /\ news[Len(news)] = "change")
  <2>1. Heard(news, "change") = Append(news, "change")
    BY <1>2 DEF Heard
  <2>2. /\ Append(news, "change") \in NoticeType
        /\ Len(Append(news, "change")) = Len(news) + 1
        /\ \A i \in 1 .. Len(news) : Append(news, "change")[i] = news[i]
        /\ Append(news, "change")[Len(news) + 1] = "change"
    BY AppendProperties DEF NoticeType
  <2>3. Len(news) \in Nat
    BY LenProperties DEF NoticeType
  <2>4. Pending(Append(news, "change")) <=> Pending(news)
    BY <2>2, <2>3 DEF Pending
  <2>5. Append(news, "change") # <<>>
    BY <2>2, <2>3 DEF NoticeType
  <2> QED
    BY <2>1, <2>2, <2>4, <2>5
<1> QED
  BY <1>1, <1>2

LEMMA HeardUnlink ==
    ASSUME NEW news \in NoticeType
    PROVE  /\ Heard(news, "unlink") \in NoticeType
           /\ Pending(Heard(news, "unlink"))
           /\ Heard(news, "unlink") # <<>>
<1>0. Len(news) \in Nat
  BY LenProperties DEF NoticeType
<1>1. CASE news # <<>> /\ news[Len(news)] = "unlink"
  <2>1. Len(news) # 0
    BY <1>1, EmptySeq DEF NoticeType
  <2> QED
    BY <1>0, <1>1, <2>1 DEF Heard, Pending
<1>2. CASE ~(news # <<>> /\ news[Len(news)] = "unlink")
  <2>1. Heard(news, "unlink") = Append(news, "unlink")
    BY <1>2 DEF Heard
  <2>2. /\ Append(news, "unlink") \in NoticeType
        /\ Len(Append(news, "unlink")) = Len(news) + 1
        /\ Append(news, "unlink")[Len(news) + 1] = "unlink"
    BY AppendProperties DEF NoticeType
  <2>3. Pending(Append(news, "unlink"))
    BY <1>0, <2>2 DEF Pending
  <2>5. Append(news, "unlink") # <<>>
    BY <1>0, <2>2 DEF NoticeType
  <2> QED
    BY <2>1, <2>2, <2>3, <2>5
<1> QED
  BY <1>1, <1>2

\* What is left to tell once the first notice was heard.
LEMMA HeardFirst ==
    ASSUME NEW news \in NoticeType, news # <<>>
    PROVE  /\ Tail(news) \in NoticeType /\ Head(news) \in {"change", "unlink"}
           /\ Head(news) = "unlink" => Pending(news)
           /\ Pending(Tail(news)) => Pending(news)
           /\ Head(news) # "unlink" /\ Pending(news) => Pending(Tail(news))
<1>1. /\ Head(news) \in {"change", "unlink"} /\ Tail(news) \in NoticeType
      /\ Len(Tail(news)) = Len(news) - 1
      /\ \A i \in 1 .. Len(Tail(news)) : Tail(news)[i] = news[i + 1]
  BY HeadTailProperties DEF NoticeType
<1>2. Len(news) \in Nat /\ Len(news) # 0 /\ Head(news) = news[1]
  BY LenProperties, EmptySeq DEF NoticeType
<1>3. Head(news) = "unlink" => Pending(news)
  BY <1>2 DEF Pending
<1>4. Pending(Tail(news)) => Pending(news)
  BY <1>1, <1>2 DEF Pending
<1>5. Head(news) # "unlink" /\ Pending(news) => Pending(Tail(news))
  <2> SUFFICES ASSUME Head(news) # "unlink", Pending(news) PROVE Pending(Tail(news))
    OBVIOUS
  <2>1. PICK i \in 1 .. Len(news) : news[i] = "unlink"
    BY DEF Pending
  <2>2. i # 1
    BY <1>2, <2>1
  <2>3. i - 1 \in 1 .. Len(Tail(news)) /\ Tail(news)[i - 1] = news[(i - 1) + 1]
    BY <1>1, <1>2, <2>1, <2>2
  <2>4. (i - 1) + 1 = i
    BY <2>1
  <2> QED
    BY <2>1, <2>3, <2>4 DEF Pending
<1> QED
  BY <1>1, <1>3, <1>4, <1>5

-------------------------------------------------------------------------------
(* What each step does to one path *)

LEMMA GrowFine ==
    ASSUME NEW f \in FileType, NEW c \in BOOLEAN, NEW news \in NoticeType, NEW h \in HeadType,
           NEW at \in Nat, NEW cur \in CursorType, NEW ld \in LandedType, NEW by \in Nat,
           Fine(f, c, news, h, at, cur, ld), f.alive, ~c
    PROVE  Fine([f EXCEPT !.len = @ + by], c, Heard(news, "change"), h, at, cur, ld)
<1> DEFINE k == [f EXCEPT !.len = @ + by]
           t == Heard(news, "change")
<1>0. f \in [gen : 0 .. MaxGens, len : Nat, alive : BOOLEAN]
  BY DEF FileType
<1>a. f.len \in Nat /\ f.gen \in Nat
  BY <1>0
<1>b. k.gen = f.gen
  BY <1>0
<1>c. k.alive = f.alive
  BY <1>0
<1>d. k.len = f.len + by
  BY <1>0
<1>1. /\ k.gen = f.gen /\ k.alive = f.alive /\ k.len = f.len + by
      /\ f.len \in Nat /\ f.gen \in Nat
  BY <1>a, <1>b, <1>c, <1>d
<1>2. Pending(t) <=> Pending(news)
  BY HeardChange
<1>3. h.size \in Int
  BY DEF HeadType
<1> HIDE DEF k, t
<1>4. FileOK(k, c, t, ld) /\ LinesOK(ld)
  BY <1>1, <1>2 DEF Fine, FileOK
<1>5. OffsetOK(k, c, t, h, at, cur, ld)
  BY <1>1, <1>2 DEF Fine, OffsetOK
<1>6. HeadOK(k, c, h, at, cur, ld)
  BY <1>1, <1>3 DEF Fine, HeadOK
<1> QED
  BY <1>4, <1>5, <1>6 DEF Fine, k, t

LEMMA CreateFine ==
    ASSUME NEW f \in FileType, NEW c \in BOOLEAN, NEW news \in NoticeType, NEW h \in HeadType,
           NEW at \in Nat, NEW cur \in CursorType, NEW ld \in LandedType, NEW n \in Nat,
           Fine(f, c, news, h, at, cur, ld), ~f.alive, news = <<>>, f.gen < MaxGens
    PROVE  Fine([gen |-> f.gen + 1, len |-> n, alive |-> TRUE], c, Heard(news, "change"),
                h, at, cur, ld)
<1> DEFINE k == [gen |-> f.gen + 1, len |-> n, alive |-> TRUE]
           t == Heard(news, "change")
<1>1. k.gen = f.gen + 1 /\ k.alive /\ k.len = n /\ f.gen \in Nat /\ f.gen + 1 \in 1 .. MaxGens
  BY TailAssumption DEF FileType
<1>2. ~Pending(news) /\ ~Pending(t)
  BY HeardChange DEF Pending
<1>3. ld[f.gen + 1] = <<>> /\ ~c /\ at = 0 /\ h.phase # "sliced"
  BY <1>1, <1>2 DEF Fine, FileOK, OffsetOK
<1> HIDE DEF k, t
<1>4. FileOK(k, c, t, ld) /\ LinesOK(ld)
  BY <1>1, <1>2, <1>3 DEF Fine, FileOK
<1>5. ReadSoFar(ld, cur, k.gen, at)
  BY <1>1, <1>3 DEF ReadSoFar
<1>6. OffsetOK(k, c, t, h, at, cur, ld)
  BY <1>1, <1>3, <1>5 DEF OffsetOK
<1>7. HeadOK(k, c, h, at, cur, ld)
  BY <1>3 DEF Fine, HeadOK
<1> QED
  BY <1>4, <1>6, <1>7 DEF Fine, k, t

LEMMA TruncateFine ==
    ASSUME NEW f \in FileType, NEW c \in BOOLEAN, NEW news \in NoticeType, NEW h \in HeadType,
           NEW at \in Nat, NEW cur \in CursorType, NEW ld \in LandedType,
           Fine(f, c, news, h, at, cur, ld), f.alive, f.gen < MaxGens
    PROVE  Fine([gen |-> f.gen + 1, len |-> 0, alive |-> TRUE], TRUE, Heard(news, "change"),
                h, at, cur, ld)
<1> DEFINE k == [gen |-> f.gen + 1, len |-> 0, alive |-> TRUE]
           t == Heard(news, "change")
<1>1. k.gen = f.gen + 1 /\ k.alive /\ k.len = 0 /\ f.gen \in Nat /\ f.gen + 1 \in 1 .. MaxGens
  BY TailAssumption DEF FileType
<1>2. ~Pending(t)
  BY HeardChange DEF Fine, FileOK
<1>3. ld[f.gen + 1] = <<>>
  BY <1>1 DEF Fine, FileOK
<1> HIDE DEF k, t
<1>4. FileOK(k, TRUE, t, ld) /\ LinesOK(ld)
  BY <1>1, <1>2, <1>3 DEF Fine, FileOK
<1>5. OffsetOK(k, TRUE, t, h, at, cur, ld)
  BY <1>1 DEF OffsetOK
<1>6. h.phase = "sliced" => h.gen \in 1 .. k.gen /\ h.gen # k.gen
  BY <1>1 DEF Fine, HeadOK
<1>7. HeadOK(k, TRUE, h, at, cur, ld)
  BY <1>6 DEF Fine, HeadOK
<1> QED
  BY <1>4, <1>5, <1>7 DEF Fine, k, t

LEMMA UnlinkFine ==
    ASSUME NEW f \in FileType, NEW c \in BOOLEAN, NEW news \in NoticeType, NEW h \in HeadType,
           NEW at \in Nat, NEW cur \in CursorType, NEW ld \in LandedType,
           Fine(f, c, news, h, at, cur, ld)
    PROVE  Fine([f EXCEPT !.alive = FALSE], FALSE, Heard(news, "unlink"), h, at, cur, ld)
<1> DEFINE k == [f EXCEPT !.alive = FALSE]
           t == Heard(news, "unlink")
<1>1. k.gen = f.gen /\ ~k.alive
  BY DEF FileType
<1>2. Pending(t)
  BY HeardUnlink
<1> HIDE DEF k, t
<1>4. FileOK(k, FALSE, t, ld) /\ LinesOK(ld)
  BY <1>1 DEF Fine, FileOK
<1>5. OffsetOK(k, FALSE, t, h, at, cur, ld)
  BY <1>1, <1>2 DEF OffsetOK
<1>7. HeadOK(k, FALSE, h, at, cur, ld)
  BY <1>1 DEF Fine, HeadOK
<1> QED
  BY <1>4, <1>5, <1>7 DEF Fine, k, t

LEMMA DeliverChangeFine ==
    ASSUME NEW f, NEW c, NEW news \in NoticeType, NEW h, NEW at, NEW cur, NEW ld,
           Fine(f, c, news, h, at, cur, ld), news # <<>>, Head(news) # "unlink"
    PROVE  Fine(f, c, Tail(news), h, at, cur, ld)
<1>1. Pending(Tail(news)) <=> Pending(news)
  BY HeardFirst
<1>2. FileOK(f, c, Tail(news), ld) /\ LinesOK(ld)
  BY <1>1 DEF Fine, FileOK
<1>3. OffsetOK(f, c, Tail(news), h, at, cur, ld) /\ HeadOK(f, c, h, at, cur, ld)
  BY <1>1 DEF Fine, OffsetOK
<1> QED
  BY <1>2, <1>3 DEF Fine

LEMMA DeliverUnlinkFine ==
    ASSUME NEW f, NEW c, NEW news \in NoticeType, NEW h \in HeadType, NEW at, NEW cur, NEW ld,
           Fine(f, c, news, h, at, cur, ld), news # <<>>, Head(news) = "unlink",
           h.phase \notin {"slicing", "sliced"}
    PROVE  Fine(f, c, Tail(news), h, 0, Fresh, ld)
<1>1. Pending(news) /\ ~f.alive
  BY HeardFirst DEF Fine, FileOK
<1>2. FileOK(f, c, Tail(news), ld) /\ LinesOK(ld)
  BY <1>1 DEF Fine, FileOK
<1>3. OffsetOK(f, c, Tail(news), h, 0, Fresh, ld)
  BY <1>1 DEF OffsetOK
<1>4. h.size \in Nat \cup {-1}
  BY DEF HeadType
<1>5. HeadOK(f, c, h, 0, Fresh, ld)
  BY <1>4 DEF HeadOK
<1> QED
  BY <1>2, <1>3, <1>5 DEF Fine

\* A read that ends without lines.
LEMMA IdleFine ==
    ASSUME NEW f, NEW c, NEW news, NEW h, NEW at, NEW cur, NEW ld,
           Fine(f, c, news, h, at, cur, ld)
    PROVE  Fine(f, c, news, Idle, at, cur, ld)
<1>1. OffsetOK(f, c, news, Idle, at, cur, ld) /\ HeadOK(f, c, Idle, at, cur, ld)
  BY DEF Fine, OffsetOK, HeadOK, Idle
<1> QED
  BY <1>1 DEF Fine

LEMMA SampleFine ==
    ASSUME NEW f \in FileType, NEW c \in BOOLEAN, NEW news, NEW h \in HeadType,
           NEW at \in Nat, NEW cur, NEW ld, Fine(f, c, news, h, at, cur, ld)
    PROVE  Fine(f, c, news, [phase |-> "sized", gen |-> f.gen, from |-> 0,
                             size |-> IF f.alive THEN f.len ELSE -1], at, cur, ld)
<1> DEFINE k == [phase |-> "sized", gen |-> f.gen, from |-> 0,
                 size |-> IF f.alive THEN f.len ELSE -1]
<1>1. k.phase = "sized" /\ k.size = (IF f.alive THEN f.len ELSE -1) /\ f.len \in Nat
  BY DEF FileType
<1> HIDE DEF k
<1>2. OffsetOK(f, c, news, k, at, cur, ld)
  BY <1>1 DEF Fine, OffsetOK
<1>3. f.alive /\ ~c => at <= f.len
  BY DEF Fine, OffsetOK
<1>4. f.alive /\ c => f.len = 0
  BY DEF Fine, FileOK
<1>5. HeadOK(f, c, k, at, cur, ld)
  BY <1>1, <1>3, <1>4 DEF HeadOK
<1> QED
  BY <1>2, <1>5 DEF Fine, k

\* A stat that finds nothing new: the offset is what it was, or zero when the
\* truncation is noticed.
NothingNew(f, c, news, h, at, cur, ld, from, d, nc) ==
    /\ f \in FileType /\ c \in BOOLEAN /\ h \in HeadType /\ at \in Nat /\ from \in Nat
    /\ d \in BOOLEAN
    /\ Fine(f, c, news, h, at, cur, ld) /\ h.phase = "sized" /\ h.size # -1 /\ h.size <= from
    /\ h.size < at => from = 0
    /\ ~(h.size < at) => from = at
    /\ d => c
    /\ c /\ ~d => h.size = 0
    /\ from # 0 => nc = cur

LEMMA NothingNewFine ==
    ASSUME NEW f, NEW c, NEW news, NEW h, NEW at, NEW cur, NEW ld, NEW from, NEW d, NEW nc,
           NothingNew(f, c, news, h, at, cur, ld, from, d, nc)
    PROVE  Fine(f, d, news, Idle, h.size, nc, ld)
<1> f \in FileType /\ c \in BOOLEAN /\ h \in HeadType /\ at \in Nat /\ from \in Nat /\ d \in BOOLEAN
  BY DEF NothingNew
<1> /\ Fine(f, c, news, h, at, cur, ld) /\ h.phase = "sized" /\ h.size # -1 /\ h.size <= from
    /\ (h.size < at => from = 0) /\ (~(h.size < at) => from = at)
    /\ (d => c) /\ (c /\ ~d => h.size = 0) /\ (from # 0 => nc = cur)
  BY DEF NothingNew
<1>1. h.size \in Nat
  BY DEF HeadType
<1>2. (h.size = 0 /\ from = 0) \/ (h.size = at /\ from = at)
  BY <1>1
<1>3. h.size = 0 /\ f.alive /\ ~c => at = 0
  BY DEF Fine, HeadOK
<1>4. FileOK(f, d, news, ld) /\ LinesOK(ld)
  BY DEF Fine, FileOK
<1>5. f.alive /\ ~d => ReadSoFar(ld, nc, f.gen, h.size) /\ h.size <= f.len
  <2> SUFFICES ASSUME f.alive, ~d PROVE ReadSoFar(ld, nc, f.gen, h.size) /\ h.size <= f.len
    OBVIOUS
  <2>1. CASE ~c
    <3>1. ReadSoFar(ld, cur, f.gen, at) /\ at <= f.len
      BY <2>1 DEF Fine, OffsetOK
    <3>2. h.size = at
      BY <1>2, <1>3, <2>1
    <3>3. at > 0 => nc = cur
      BY <1>2, <3>2
    <3> QED
      BY <3>1, <3>2, <3>3 DEF ReadSoFar
  <2>2. CASE c
    <3>1. h.size = 0 /\ ld[f.gen] = <<>> /\ f.len = 0
      BY <2>2 DEF Fine, FileOK
    <3> QED
      BY <3>1 DEF ReadSoFar
  <2> QED
    BY <2>1, <2>2
<1>6. ~f.alive /\ ~Pending(news) => h.size = 0
  BY <1>2 DEF Fine, OffsetOK
<1>7. OffsetOK(f, d, news, Idle, h.size, nc, ld)
  BY <1>5, <1>6 DEF OffsetOK, Idle
<1>8. HeadOK(f, d, Idle, h.size, nc, ld)
  BY DEF HeadOK, Idle
<1> QED
  BY <1>4, <1>7, <1>8 DEF Fine

\* A stat that finds more: the slice begins at the offset.
LEMMA SomethingNewFine ==
    ASSUME NEW f \in FileType, NEW c \in BOOLEAN, NEW news, NEW h \in HeadType,
           NEW at \in Nat, NEW cur, NEW ld, NEW from,
           Fine(f, c, news, h, at, cur, ld), h.phase = "sized",
           from = (IF h.size < at THEN 0 ELSE at), h.size > from
    PROVE  Fine(f, c, news, [h EXCEPT !.phase = "slicing", !.from = from], at, cur, ld)
<1> DEFINE k == [h EXCEPT !.phase = "slicing", !.from = from]
<1>0. h.size \in Int
  BY DEF HeadType
<1>1. from = at
  BY <1>0 DEF Fine, HeadOK
<1>2. k.phase = "slicing" /\ k.from = from
  BY DEF HeadType
<1> HIDE DEF k
<1>3. OffsetOK(f, c, news, k, at, cur, ld) /\ HeadOK(f, c, k, at, cur, ld)
  BY <1>1, <1>2 DEF Fine, OffsetOK, HeadOK
<1> QED
  BY <1>3 DEF Fine, k

LEMMA SliceFine ==
    ASSUME NEW f \in FileType, NEW c \in BOOLEAN, NEW news, NEW h \in HeadType,
           NEW at \in Nat, NEW cur, NEW ld,
           Fine(f, c, news, h, at, cur, ld), h.phase = "slicing", f.alive
    PROVE  Fine(f, c, news, [h EXCEPT !.phase = "sliced", !.gen = f.gen, !.size = f.len],
                at, cur, ld)
<1> DEFINE k == [h EXCEPT !.phase = "sliced", !.gen = f.gen, !.size = f.len]
<1>1. /\ k.phase = "sliced" /\ k.from = h.from /\ k.gen = f.gen /\ k.size = f.len
      /\ f.len \in Nat /\ f.gen \in Nat /\ f.gen >= 1
  BY DEF HeadType, FileType
<1>2. h.from = at
  BY DEF Fine, HeadOK
<1>3. f.len > at => ReadSoFar(ld, cur, f.gen, at)
  BY DEF Fine, FileOK, OffsetOK
<1> HIDE DEF k
<1>4. OffsetOK(f, c, news, k, at, cur, ld)
  BY DEF Fine, OffsetOK
<1>5. HeadOK(f, c, k, at, cur, ld)
  BY <1>1, <1>2, <1>3 DEF HeadOK
<1> QED
  BY <1>4, <1>5 DEF Fine, k

-------------------------------------------------------------------------------
(* What a slice is parsed into *)

LEMMA ConsumedFacts ==
    ASSUME NEW h \in HeadType
    PROVE  /\ Consumed(h) \in Nat /\ h.from \in Nat /\ h.size \in Nat \cup {-1} /\ Consumed(h) >= h.from
           /\ (Consumed(h) - h.from) \div 2 \in Nat /\ h.from \div 2 \in Nat
           /\ h.gen \in Nat
           /\ h.size <= h.from => Consumed(h) = h.from /\ (Consumed(h) - h.from) \div 2 = 0
<1>1. h.size \in Nat \cup {-1} /\ h.from \in Nat /\ h.gen \in Nat
  BY TailAssumption DEF HeadType
<1>2. CASE h.size > h.from
  <2>1. h.size \in Nat
    BY <1>1, <1>2
  <2>2. Consumed(h) = 2 * (h.size \div 2)
    BY <1>2 DEF Consumed
  <2>3. Consumed(h) \in Nat /\ Consumed(h) >= h.from
    BY <1>1, <1>2, <2>1, <2>2, Halves
  <2>4. Consumed(h) - h.from \in Nat
    BY <1>1, <2>3
  <2> QED
    BY <1>1, <1>2, <2>1, <2>3, <2>4, Halves
<1>3. CASE ~(h.size > h.from)
  <2>1. Consumed(h) = h.from
    BY <1>3 DEF Consumed
  <2>2. Consumed(h) - h.from = 0
    BY <1>1, <2>1
  <2>3. 0 \div 2 = 0
    BY SMT
  <2> QED
    BY <1>1, <2>1, <2>2, <2>3, Halves
<1> QED
  BY <1>2, <1>3

LEMMA ParsedFacts ==
    ASSUME NEW h \in HeadType, NEW cur \in CursorType
    PROVE  /\ Parsed(h, cur) \in Seq(LineType)
           /\ Len(Parsed(h, cur)) = (Consumed(h) - h.from) \div 2
           /\ \A i \in 1 .. (Consumed(h) - h.from) \div 2 :
                /\ Parsed(h, cur)[i].line = h.from \div 2 + i
                /\ Parsed(h, cur)[i].after =
                     IF i = 1 THEN cur ELSE [gen |-> h.gen, at |-> h.from \div 2 + i - 1]
<1> DEFINE n == (Consumed(h) - h.from) \div 2
           m == h.from \div 2
           line(i) == [line |-> m + i,
                       after |-> IF i = 1 THEN cur ELSE [gen |-> h.gen, at |-> m + i - 1]]
           s == [i \in 1 .. n |-> line(i)]
<1>1. n \in Nat /\ m \in Nat /\ h.gen \in Nat
  BY ConsumedFacts
<1>2. Parsed(h, cur) = s
  BY DEF Parsed
<1> HIDE DEF n, m
<1>3. \A i \in 1 .. n : line(i) \in LineType
  <2> SUFFICES ASSUME NEW i \in 1 .. n PROVE line(i) \in LineType
    OBVIOUS
  <2>1. m + i \in Nat /\ m + i - 1 \in Nat
    BY <1>1
  <2>2. [gen |-> h.gen, at |-> m + i - 1] \in CursorType
    BY <1>1, <2>1 DEF CursorType
  <2>3. (IF i = 1 THEN cur ELSE [gen |-> h.gen, at |-> m + i - 1]) \in CursorType
    BY <2>2
  <2> QED
    BY <2>1, <2>3 DEF LineType
<1>4. s \in [1 .. n -> LineType]
  BY <1>3
<1>5. s \in Seq(LineType) /\ Len(s) = n
  <2>1. PICK q \in [1 .. n -> LineType] : q = s
    BY <1>4
  <2>2. q \in Seq(LineType)
    BY <1>1, SeqDef
  <2>3. Len(q) = n
    BY <1>1, <2>2, LenProperties
  <2> QED
    BY <2>1, <2>2, <2>3
<1>6. \A i \in 1 .. n : s[i].line = m + i
                        /\ s[i].after = IF i = 1 THEN cur ELSE [gen |-> h.gen, at |-> m + i - 1]
  OBVIOUS
<1> QED
  BY <1>2, <1>5, <1>6 DEF n, m

\* What has landed of a file once a batch of generation g has, too.
Behind(ld, g, lines) == [ld EXCEPT ![g] = @ \o lines]

\* k is ld with the batch behind its lines of generation g.
Extended(k, ld, g, lines) ==
    /\ \A i \in 1 .. MaxGens : i # g => k[i] = ld[i]
    /\ Len(k[g]) = Len(ld[g]) + Len(lines)
    /\ \A i \in 1 .. Len(ld[g]) : k[g][i] = ld[g][i]
    /\ \A i \in 1 .. Len(lines) : k[g][Len(ld[g]) + i] = lines[i]

\* The batch goes on after L lines of generation g, under the cursor start.
GoesOn(lines, g, L, start) ==
    \A i \in 1 .. Len(lines) :
        /\ lines[i].line = L + i
        /\ lines[i].after = IF i = 1 THEN start ELSE [gen |-> g, at |-> L + i - 1]

\* A batch lands behind the lines of its generation.
LEMMA LandedGrows ==
    ASSUME NEW ld \in LandedType, NEW g \in 0 .. MaxGens, NEW lines \in Seq(LineType),
           NEW k, k = Behind(ld, g, lines)
    PROVE  /\ k \in LandedType
           /\ \A i \in 1 .. MaxGens : i # g => k[i] = ld[i]
           /\ lines = <<>> => k = ld
           /\ g \in 1 .. MaxGens => Extended(k, ld, g, lines)
<1>1. ld \in [1 .. MaxGens -> Seq(LineType)]
  BY DEF LandedType
<1>2. CASE g \in 1 .. MaxGens
  <2>1. ld[g] \in Seq(LineType)
    BY <1>1, <1>2
  <2>2. PICK a \in Seq(LineType) : a = ld[g]
    BY <2>1
  <2>3. /\ a \o lines \in Seq(LineType) /\ Len(a \o lines) = Len(a) + Len(lines)
        /\ \A i \in 1 .. Len(a) + Len(lines) :
             (a \o lines)[i] = IF i <= Len(a) THEN a[i] ELSE lines[i - Len(a)]
    BY ConcatProperties
  <2>4. Len(a) \in Nat /\ Len(lines) \in Nat
    BY LenProperties
  <2>5. \A i \in 1 .. Len(a) : (a \o lines)[i] = a[i]
    BY <2>3, <2>4
  <2>6. \A i \in 1 .. Len(lines) : (a \o lines)[Len(a) + i] = lines[i]
    <3> SUFFICES ASSUME NEW i \in 1 .. Len(lines) PROVE (a \o lines)[Len(a) + i] = lines[i]
      OBVIOUS
    <3>1. Len(a) + i \in 1 .. Len(a) + Len(lines) /\ ~(Len(a) + i <= Len(a))
          /\ (Len(a) + i) - Len(a) = i
      BY <2>4
    <3> QED
      BY <2>3, <3>1
  <2>7. PICK b \in Seq(LineType) : b = a \o lines
    BY <2>3
  <2>8. k = [ld EXCEPT ![g] = b]
    BY <2>2, <2>7 DEF Behind
  <2>9. k[g] = b /\ k \in LandedType /\ \A i \in 1 .. MaxGens : i # g => k[i] = ld[i]
    BY <1>1, <1>2, <2>8 DEF LandedType
  <2>10. lines = <<>> => k = ld
    <3> SUFFICES ASSUME lines = <<>> PROVE k = ld
      OBVIOUS
    <3>1. a \o <<>> = a
      BY ConcatEmptySeq
    <3>2. b = ld[g]
      BY <2>2, <2>7, <3>1
    <3> QED
      BY <1>1, <2>8, <3>2
  <2>11. Extended(k, ld, g, lines)
    BY <2>2, <2>3, <2>5, <2>6, <2>7, <2>9 DEF Extended
  <2> QED
    BY <2>9, <2>10, <2>11
<1>3. CASE g \notin 1 .. MaxGens
  <2>1. k = ld
    BY <1>1, <1>3 DEF Behind
  <2> QED
    BY <1>1, <1>3, <2>1 DEF LandedType
<1> QED
  BY <1>2, <1>3

\* A batch that starts under the cursor of the line before it keeps the order.
LEMMA InOrderGrows ==
    ASSUME NEW ld \in LandedType, NEW k, NEW g \in 1 .. MaxGens, NEW L \in Nat, NEW n \in Nat,
           NEW lines, NEW start, LinesOK(ld), L = Len(ld[g]), n = Len(lines),
           Extended(k, ld, g, lines), GoesOn(lines, g, L, start),
           start = IF L = 0 THEN Fresh ELSE [gen |-> g, at |-> L]
    PROVE  LinesOK(k)
<1> SUFFICES ASSUME NEW j \in 1 .. MaxGens, NEW i \in 1 .. Len(k[j])
             PROVE  k[j][i].line = i
                    /\ k[j][i].after = IF i = 1 THEN Fresh ELSE [gen |-> j, at |-> i - 1]
  BY DEF LinesOK
<1>a. /\ \A x \in 1 .. MaxGens : x # g => k[x] = ld[x]
      /\ Len(k[g]) = L + n
      /\ \A x \in 1 .. L : k[g][x] = ld[g][x]
      /\ \A x \in 1 .. n : k[g][L + x] = lines[x]
  BY DEF Extended
<1>b. \A x \in 1 .. n :
        /\ lines[x].line = L + x
        /\ lines[x].after = IF x = 1 THEN start ELSE [gen |-> g, at |-> L + x - 1]
  BY DEF GoesOn
<1>1. CASE j # g
  BY <1>1, <1>a DEF LinesOK
<1>2. CASE j = g
  <2>1. i \in 1 .. L + n
    BY <1>2, <1>a
  <2>2. CASE i <= L
    <3>1. i \in 1 .. L /\ k[j][i] = ld[g][i]
      BY <1>2, <1>a, <2>1, <2>2
    <3> QED
      BY <1>2, <3>1 DEF LinesOK
  <2>3. CASE ~(i <= L)
    <3>1. PICK m \in 1 .. n : L + m = i
      <4>1. i - L \in 1 .. n /\ L + (i - L) = i
        BY <2>1, <2>3
      <4> QED
        BY <4>1
    <3>2. k[j][i] = lines[m] /\ lines[m].line = i
      BY <1>2, <1>a, <1>b, <3>1
    <3>3. lines[m].after = IF m = 1 THEN start ELSE [gen |-> g, at |-> L + m - 1]
      BY <1>b
    <3>4. CASE m # 1
      <4>1. i # 1 /\ L + m - 1 = i - 1
        BY <3>1, <3>4
      <4> QED
        BY <1>2, <3>2, <3>3, <3>4, <4>1
    <3>5. CASE m = 1 /\ L = 0
      <4>1. start = Fresh /\ i = 1
        BY <3>1, <3>5
      <4> QED
        BY <1>2, <3>2, <3>3, <3>5, <4>1
    <3>6. CASE m = 1 /\ L # 0
      <4>1. start = [gen |-> g, at |-> L] /\ i # 1 /\ i - 1 = L
        BY <3>1, <3>6
      <4> QED
        BY <1>2, <3>2, <3>3, <3>6, <4>1
    <3> QED
      BY <3>4, <3>5, <3>6
  <2> QED
    BY <2>2, <2>3
<1> QED
  BY <1>1, <1>2

\* A slice that ends before its next newline, and past no line.
LEMMA NothingParsedFine ==
    ASSUME NEW f \in FileType, NEW c \in BOOLEAN, NEW news \in NoticeType, NEW h \in HeadType,
           NEW at \in Nat, NEW cur \in CursorType, NEW ld \in LandedType,
           Fine(f, c, news, h, at, cur, ld), h.phase = "sliced"
    PROVE  Fine(f, c, news, Idle, h.from, IF h.from = 0 THEN Fresh ELSE cur, ld)
<1> DEFINE nc == IF h.from = 0 THEN Fresh ELSE cur
<1>1. h.from = at
  BY DEF Fine, HeadOK
<1>2. at > 0 => nc = cur
  BY <1>1
<1> HIDE DEF nc
<1>3. f.alive /\ ~c => ReadSoFar(ld, nc, f.gen, at) /\ at <= f.len
  BY <1>2 DEF Fine, OffsetOK, ReadSoFar
<1>4. ~(~f.alive /\ ~Pending(news))
  BY DEF Fine, OffsetOK
<1>5. OffsetOK(f, c, news, Idle, at, nc, ld)
  BY <1>3, <1>4 DEF OffsetOK
<1>6. HeadOK(f, c, Idle, at, nc, ld)
  BY DEF HeadOK, Idle
<1> QED
  BY <1>1, <1>5, <1>6 DEF Fine, nc

\* How many lines a slice holds: from the last that landed to its last newline.
LEMMA SliceCount ==
    ASSUME NEW h \in HeadType, h.size > h.from, NEW L \in Nat, h.from = 2 * L
    PROVE  /\ h.from \div 2 = L
           /\ \E n \in Nat : /\ n = (Consumed(h) - h.from) \div 2
                             /\ Consumed(h) = 2 * (L + n) /\ Consumed(h) <= h.size
<1>1. h.size \in Nat /\ h.from \in Nat
  BY DEF HeadType
<1>2. PICK m \in Nat : m = h.from \div 2 /\ 2 * m <= h.from /\ h.from <= 2 * m + 1
  BY <1>1, Halves
<1>3. m = L
  BY <1>2
<1>4. PICK s \in Nat : s = h.size \div 2 /\ 2 * s <= h.size /\ h.size <= 2 * s + 1
  BY <1>1, Halves
<1>5. Consumed(h) = 2 * s
  BY <1>4 DEF Consumed
<1>6. s >= L
  BY <1>1, <1>4
<1>7. PICK d \in Nat : d = Consumed(h) - h.from /\ d = 2 * (s - L)
  BY <1>5, <1>6
<1>8. PICK n \in Nat : n = d \div 2 /\ 2 * n <= d /\ d <= 2 * n + 1
  BY Halves
<1>9. n = s - L
  BY <1>6, <1>7, <1>8
<1>10. Consumed(h) = 2 * (L + n) /\ Consumed(h) <= h.size
  BY <1>4, <1>5, <1>6, <1>9
<1> QED
  BY <1>2, <1>3, <1>7, <1>8, <1>10

\* A slice's lines land behind those before them, and the cursor at the last.
LEMMA LinesLand ==
    ASSUME NEW f \in FileType, NEW c \in BOOLEAN, NEW news \in NoticeType, NEW h \in HeadType,
           NEW at \in Nat, NEW cur \in CursorType, NEW ld \in LandedType,
           Fine(f, c, news, h, at, cur, ld), h.phase = "sliced", h.size > h.from,
           NEW start \in CursorType, start = (IF h.from = 0 THEN Fresh ELSE cur),
           NEW lines, lines = Parsed(h, start),
           NEW k, k = Behind(ld, h.gen, lines)
    PROVE  /\ Consumed(h) = 2 * Len(k[h.gen]) /\ Consumed(h) <= h.size
           /\ LinesOK(k)
           /\ Consumed(h) > 0 =>
                (IF lines # <<>> THEN [gen |-> h.gen, at |-> lines[Len(lines)].line] ELSE start)
                  = [gen |-> h.gen, at |-> Len(k[h.gen])]
<1>1. h.size \in Nat /\ h.from \in Nat /\ h.gen \in 0 .. MaxGens
  BY DEF HeadType
<1>2. h.gen \in 1 .. MaxGens
  BY <1>1, TailAssumption DEF Fine, HeadOK, FileType
<1>3. PICK g \in 1 .. MaxGens : g = h.gen
  BY <1>2
<1>4. ld[g] \in Seq(LineType)
  BY DEF LandedType
<1>5. PICK L \in Nat : L = Len(ld[g])
  BY <1>4, LenProperties
<1>6. h.from = 2 * L /\ (h.from > 0 => cur = [gen |-> g, at |-> L])
  BY <1>3, <1>5 DEF Fine, HeadOK, ReadSoFar
<1>7. h.from \div 2 = L
  BY <1>6, SliceCount
<1>8. PICK n \in Nat : /\ n = (Consumed(h) - h.from) \div 2
                       /\ Consumed(h) = 2 * (L + n) /\ Consumed(h) <= h.size
  BY <1>6, SliceCount
<1>9. lines \in Seq(LineType) /\ Len(lines) = n /\ GoesOn(lines, g, L, start)
  <2>1. /\ Parsed(h, start) \in Seq(LineType)
        /\ Len(Parsed(h, start)) = (Consumed(h) - h.from) \div 2
        /\ \A i \in 1 .. (Consumed(h) - h.from) \div 2 :
             /\ Parsed(h, start)[i].line = h.from \div 2 + i
             /\ Parsed(h, start)[i].after =
                  IF i = 1 THEN start ELSE [gen |-> h.gen, at |-> h.from \div 2 + i - 1]
    BY ParsedFacts
  <2> QED
    BY <1>3, <1>7, <1>8, <2>1 DEF GoesOn
<1>10. Extended(k, ld, g, lines)
  BY <1>1, <1>3, <1>9, LandedGrows
<1>10a. Len(k[g]) = L + n
  BY <1>5, <1>9, <1>10 DEF Extended
<1>11. start = IF L = 0 THEN Fresh ELSE [gen |-> g, at |-> L]
  <2>1. CASE L = 0
    BY <1>6, <2>1
  <2>2. CASE L # 0
    <3>1. h.from > 0
      BY <1>6, <2>2
    <3> QED
      BY <1>6, <2>2, <3>1
  <2> QED
    BY <2>1, <2>2
<1>12. LinesOK(k)
  <2>1. LinesOK(ld)
    BY DEF Fine
  <2> QED
    BY <1>5, <1>9, <1>10, <1>11, <2>1, InOrderGrows
<1>13. Consumed(h) > 0 =>
         (IF lines # <<>> THEN [gen |-> h.gen, at |-> lines[Len(lines)].line] ELSE start)
           = [gen |-> h.gen, at |-> Len(k[h.gen])]
  <2>1. CASE n = 0
    <3>1. lines = <<>>
      BY <1>9, <2>1, EmptySeq
    <3>2. Consumed(h) > 0 => L # 0
      BY <1>8, <2>1
    <3>3. L + n = L
      BY <2>1
    <3>4. Consumed(h) > 0 => start = [gen |-> g, at |-> Len(k[g])]
      BY <1>10a, <1>11, <3>2, <3>3
    <3> QED
      BY <1>3, <3>1, <3>4
  <2>2. CASE n # 0
    <3>1. n \in 1 .. n
      BY <2>2
    <3>2. lines # <<>>
      BY <1>9, <2>2, EmptySeq
    <3>3. lines[n].line = L + n
      BY <1>9, <3>1 DEF GoesOn
    <3>4. lines[Len(lines)].line = Len(k[g])
      BY <1>9, <1>10a, <3>3
    <3> QED
      BY <1>3, <3>2, <3>4
  <2> QED
    BY <2>1, <2>2
<1> QED
  BY <1>3, <1>8, <1>10a, <1>12, <1>13

LEMMA FinishFine ==
    ASSUME NEW f \in FileType, NEW c \in BOOLEAN, NEW news \in NoticeType, NEW h \in HeadType,
           NEW at \in Nat, NEW cur \in CursorType, NEW ld \in LandedType,
           Fine(f, c, news, h, at, cur, ld), h.phase = "sliced",
           NEW lines, lines = Parsed(h, IF h.from = 0 THEN Fresh ELSE cur)
    PROVE  Fine(f, c, news, Idle, Consumed(h),
                IF lines # <<>> THEN [gen |-> h.gen, at |-> lines[Len(lines)].line]
                ELSE IF h.from = 0 THEN Fresh ELSE cur,
                Behind(ld, h.gen, lines))
<1> DEFINE k == Behind(ld, h.gen, lines)
           start == IF h.from = 0 THEN Fresh ELSE cur
           nc == IF lines # <<>> THEN [gen |-> h.gen, at |-> lines[Len(lines)].line] ELSE start
<1>1. h.size \in Nat \cup {-1} /\ h.from \in Nat /\ h.gen \in 0 .. MaxGens
  BY DEF HeadType
<1>2. start \in CursorType
  BY DEF Fresh, CursorType
<1>2a. lines = Parsed(h, start)
  OBVIOUS
<1>2b. k = Behind(ld, h.gen, lines)
  OBVIOUS
<1> HIDE DEF k
<1>3. lines \in Seq(LineType) /\ Len(lines) = (Consumed(h) - h.from) \div 2
  BY <1>2, ParsedFacts
<1>4. h.gen \in 1 .. f.gen /\ h.gen \in 1 .. MaxGens
  BY <1>1, TailAssumption DEF Fine, HeadOK, FileType
<1>5. CASE h.size <= h.from
  <2>1. lines = <<>> /\ Consumed(h) = h.from
    BY <1>3, <1>5, ConsumedFacts, EmptySeq
  <2>4. k = ld
    BY <1>1, <1>2b, <1>3, <2>1, LandedGrows
  <2>5. nc = start
    BY <2>1
  <2> QED
    BY <2>1, <2>4, <2>5, NothingParsedFine DEF k
<1>6. CASE h.size > h.from
  <2>1. /\ Consumed(h) = 2 * Len(k[h.gen]) /\ Consumed(h) <= h.size
        /\ LinesOK(k)
        /\ Consumed(h) > 0 => nc = [gen |-> h.gen, at |-> Len(k[h.gen])]
    BY <1>2, <1>2a, <1>2b, <1>6, LinesLand DEF nc
  <2>2. \A i \in 1 .. MaxGens : i # h.gen => k[i] = ld[i]
    BY <1>1, <1>2b, <1>3, LandedGrows
  <2>3. f.gen \in Nat /\ f.len \in Nat /\ f.gen <= MaxGens
    BY TailAssumption DEF FileType
  <2>4. Consumed(h) \in Nat
    BY ConsumedFacts
  <2> HIDE DEF k, nc
  <2>5. ReadSoFar(k, nc, h.gen, Consumed(h))
    BY <2>1 DEF ReadSoFar
  <2>6. c => h.gen # f.gen
    <3> SUFFICES ASSUME c, h.gen = f.gen PROVE FALSE
      OBVIOUS
    <3>1. f.alive /\ f.len = 0
      BY DEF Fine, FileOK
    <3>2. h.size <= f.len
      BY <3>1 DEF Fine, HeadOK
    <3> QED
      BY <1>1, <1>6, <3>1, <3>2
  <2>7. c => k[f.gen] = ld[f.gen]
    <3>1. f.gen \in 1 .. MaxGens
      BY <1>4, <2>3
    <3> QED
      BY <2>2, <2>6, <3>1
  <2>8. \A i \in 1 .. MaxGens : i > f.gen => k[i] = ld[i]
    BY <1>4, <2>2, <2>3
  <2>9. FileOK(f, c, news, k)
    BY <2>7, <2>8 DEF Fine, FileOK
  <2>10. f.alive /\ ~c => h.gen = f.gen /\ Consumed(h) <= f.len
    <3> SUFFICES ASSUME f.alive, ~c PROVE h.gen = f.gen /\ Consumed(h) <= f.len
      OBVIOUS
    <3>1. h.gen = f.gen /\ h.size <= f.len
      BY DEF Fine, HeadOK
    <3> QED
      BY <1>1, <2>1, <2>3, <2>4, <3>1
  <2>11. ~(~f.alive /\ ~Pending(news))
    BY DEF Fine, OffsetOK
  <2>12. OffsetOK(f, c, news, Idle, Consumed(h), nc, k)
    BY <2>5, <2>10, <2>11 DEF OffsetOK
  <2>13. HeadOK(f, c, Idle, Consumed(h), nc, k)
    BY DEF HeadOK, Idle
  <2>14. Fine(f, c, news, Idle, Consumed(h), nc, k)
    BY <2>1, <2>9, <2>12, <2>13 DEF Fine
  <2> QED
    BY <2>14 DEF k, nc
<1> QED
  BY <1>1, <1>5, <1>6

-------------------------------------------------------------------------------
(* The steps of the file system and of the watcher *)

LEMMA PathTypes ==
    ASSUME TailTypes, NEW p \in Paths
    PROVE  /\ file[p] \in FileType /\ cut[p] \in BOOLEAN /\ notices[p] \in NoticeType
           /\ reads[p] \in ReadsType /\ head[p] \in HeadType /\ offsets[p] \in Nat
           /\ cursorAtEnd[p] \in CursorType /\ landed[p] \in LandedType
BY DEF TailTypes

\* A path no step touched is as fine as it was.
LEMMA PathsKept ==
    ASSUME PathsOK, NEW p \in Paths, crossed \subseteq crossed',
           \A q \in Paths : q # p =>
               /\ file'[q] = file[q] /\ cut'[q] = cut[q] /\ notices'[q] = notices[q]
               /\ head'[q] = head[q] /\ offsets'[q] = offsets[q]
               /\ cursorAtEnd'[q] = cursorAtEnd[q] /\ landed'[q] = landed[q],
           p \notin crossed' => PathOK(p)'
    PROVE  PathsOK'
<1> SUFFICES ASSUME NEW q \in Paths, q \notin crossed' PROVE PathOK(q)'
  BY DEF PathsOK
<1>1. CASE q = p
  BY <1>1
<1>2. CASE q # p
  <2>1. PathOK(q)
    BY DEF PathsOK
  <2> QED
    BY <1>2, <2>1 DEF PathOK
<1> QED
  BY <1>1, <1>2

LEMMA FileChanges ==
    ASSUME NEW f \in FileType, NEW n \in Nat
    PROVE  /\ f.gen \in Nat /\ f.len \in Nat /\ f.gen <= MaxGens /\ f.alive \in BOOLEAN
           /\ f.alive => f.gen >= 1
           /\ [f EXCEPT !.len = @ + n] \in FileType
           /\ [f EXCEPT !.len = @ + n].gen = f.gen
           /\ [f EXCEPT !.len = @ + n].alive = f.alive
           /\ [f EXCEPT !.len = @ + n].len = f.len + n
           /\ [f EXCEPT !.alive = FALSE] \in FileType
           /\ [f EXCEPT !.alive = FALSE].gen = f.gen
           /\ [f EXCEPT !.alive = FALSE].len = f.len
           /\ [f EXCEPT !.alive = FALSE].alive = FALSE
           /\ f.gen < MaxGens =>
                [gen |-> f.gen + 1, len |-> n, alive |-> TRUE] \in FileType
<1>1. f \in [gen : 0 .. MaxGens, len : Nat, alive : BOOLEAN] /\ (f.alive => f.gen >= 1)
  BY DEF FileType
<1>2. f.gen \in 0 .. MaxGens /\ f.gen \in Nat /\ f.len \in Nat /\ f.alive \in BOOLEAN
  BY <1>1, TailAssumption
<1>3a. [f EXCEPT !.len = @ + n] \in [gen : 0 .. MaxGens, len : Nat, alive : BOOLEAN]
  <2>1. PICK m \in Nat : m = f.len + n
    BY <1>2
  <2>2. [f EXCEPT !.len = m] \in [gen : 0 .. MaxGens, len : Nat, alive : BOOLEAN]
    BY <1>1
  <2> QED
    BY <2>1, <2>2
<1>3b. [f EXCEPT !.alive = FALSE] \in [gen : 0 .. MaxGens, len : Nat, alive : BOOLEAN]
  BY <1>1
<1>4. [f EXCEPT !.len = @ + n].gen = f.gen
  BY <1>1
<1>5. [f EXCEPT !.len = @ + n].alive = f.alive
  BY <1>1
<1>6. [f EXCEPT !.len = @ + n].len = f.len + n
  BY <1>1
<1>7. /\ [f EXCEPT !.alive = FALSE].gen = f.gen
      /\ [f EXCEPT !.alive = FALSE].len = f.len
      /\ [f EXCEPT !.alive = FALSE].alive = FALSE
  BY <1>1
<1>8. [f EXCEPT !.len = @ + n] \in FileType
  BY <1>1, <1>3a, <1>4, <1>5 DEF FileType
<1>9. [f EXCEPT !.alive = FALSE] \in FileType
  BY <1>3b, <1>7 DEF FileType
<1>10. f.gen < MaxGens => [gen |-> f.gen + 1, len |-> n, alive |-> TRUE] \in FileType
  BY <1>2, TailAssumption DEF FileType
<1> QED
  BY <1>1, <1>2, <1>4, <1>5, <1>6, <1>7, <1>8, <1>9, <1>10

LEMMA SpawnTypes ==
    ASSUME TailTypes
    PROVE  /\ spawned.gen \in Nat /\ spawned.at \in Nat
           /\ file[parent].gen \in Nat /\ file[parent].len \in Nat
           /\ file[sub].gen \in Nat
<1>1. spawned \in CursorType /\ file[parent] \in FileType /\ file[sub] \in FileType
  BY TwoPaths DEF TailTypes
<1>2. \A f \in FileType : f.gen \in Nat /\ f.len \in Nat
  BY FileChanges
<1> QED
  BY <1>1, <1>2 DEF CursorType

LEMMA QueueKept ==
    ASSUME QueueOK, reads' = reads, head' = head
    PROVE  QueueOK'
BY DEF QueueOK

LEMMA GrowKeeps ==
    ASSUME TailInv, NEW p \in Paths, NEW n \in 1 .. 2, Grow(p, n)
    PROVE  TailInv'
<1>1. TailTypes /\ PathsOK /\ SpawnOK /\ QueueOK /\ AheadOK
  BY DEF TailInv
<1>2. n \in Nat /\ file[p] \in FileType /\ notices[p] \in NoticeType
  BY <1>1, PathTypes
<1>3. PICK k \in FileType :
        /\ k = [file[p] EXCEPT !.len = @ + n]
        /\ k.gen = file[p].gen /\ k.alive = file[p].alive /\ k.len = file[p].len + n
  BY <1>2, FileChanges
<1>4. PICK t \in NoticeType : t = Heard(notices[p], "change")
  BY <1>2, HeardChange
<1>5. /\ file' = [file EXCEPT ![p] = k] /\ notices' = [notices EXCEPT ![p] = t]
      /\ file[p].alive /\ ~cut[p] /\ cut' = cut /\ spawned' = spawned /\ timer' = timer
      /\ reads' = reads /\ head' = head /\ offsets' = offsets /\ cursorAtEnd' = cursorAtEnd
      /\ landed' = landed /\ crossed' = crossed
  BY <1>3, <1>4 DEF Grow, Tells
<1>6. TailTypes'
  BY <1>1, <1>5 DEF TailTypes
<1>7. /\ file'[p] = k /\ notices'[p] = t
      /\ \A q \in Paths : q # p => file'[q] = file[q] /\ notices'[q] = notices[q]
  BY <1>1, <1>5 DEF TailTypes
<1>8. PathsOK'
  <2>1. p \notin crossed' => PathOK(p)'
    <3> SUFFICES ASSUME p \notin crossed PROVE PathOK(p)'
      BY <1>5
    <3>1. Fine(file[p], cut[p], notices[p], head[p], offsets[p], cursorAtEnd[p], landed[p])
      BY <1>1 DEF PathsOK, PathOK
    <3>2. Fine(k, cut[p], t, head[p], offsets[p], cursorAtEnd[p], landed[p])
      BY <1>1, <1>2, <1>3, <1>4, <1>5, <3>1, PathTypes, GrowFine
    <3> QED
      BY <1>5, <1>7, <3>2 DEF PathOK
  <2> QED
    BY <1>1, <1>5, <1>7, <2>1, PathsKept
<1>9. /\ file'[parent].gen = file[parent].gen /\ file'[parent].alive = file[parent].alive
      /\ file'[parent].len >= file[parent].len /\ file'[sub].gen = file[sub].gen
  <2>1. file[p].len \in Nat
    BY <1>2, FileChanges
  <2>2. /\ file'[p].gen = file[p].gen /\ file'[p].alive = file[p].alive
        /\ file'[p].len >= file[p].len
    BY <1>3, <1>7, <2>1
  <2>3. CASE p = parent
    BY <1>7, <2>2, <2>3, TwoPaths
  <2>4. CASE p = sub
    BY <1>1, <1>7, <2>2, <2>4, TwoPaths, SpawnTypes
  <2> QED
    BY <2>3, <2>4, TwoPaths
<1>10. SpawnOK'
  <2>1. file[sub].gen = 0 => p # sub
    <3>1. file[p].gen >= 1
      BY <1>2, <1>5, FileChanges
    <3> QED
      BY <3>1
  <2>2. file'[parent].len \in Nat
    BY <1>6, TwoPaths, PathTypes, FileChanges DEF TailTypes
  <2>3. file'[sub].gen = 0 =>
          /\ notices'[sub] = <<>> /\ ~timer'[sub] /\ ~Begun'
          /\ \A i \in 1 .. Len(reads'[parent]) : reads'[parent][i] # sub
    BY <1>1, <1>5, <1>7, <1>9, <2>1, TwoPaths DEF SpawnOK, Begun
  <2>4. Begun' => ParentHas'
    BY <1>1, <1>5, <1>9 DEF SpawnOK, Begun, ParentHas, SameParent
  <2>5. SameParent' => 2 * spawned'.at <= file'[parent].len
    BY <1>1, <1>5, <1>9, <2>2, SpawnTypes DEF SpawnOK, SameParent
  <2>6. spawned'.gen <= file'[parent].gen
    BY <1>1, <1>5, <1>9 DEF SpawnOK
  <2> QED
    BY <2>3, <2>4, <2>5, <2>6 DEF SpawnOK
<1>11. QueueOK'
  BY <1>1, <1>5, QueueKept
<1>12. AheadOK'
  BY <1>1, <1>5, <1>9 DEF AheadOK, SameParent
<1> QED
  BY <1>6, <1>8, <1>10, <1>11, <1>12 DEF TailInv

\* A parent's file that became another, or none, owes its subagent nothing.
LEMMA ParentChanged ==
    ASSUME TailInv, spawned' = spawned, timer' = timer, reads' = reads, head' = head,
           landed' = landed, crossed' = crossed, file'[sub] = file[sub],
           notices'[sub] = notices[sub], ~file'[parent].alive \/ file'[parent].gen > spawned.gen,
           file'[parent].gen \in Nat, file'[parent].gen >= file[parent].gen
    PROVE  SpawnOK' /\ QueueOK' /\ AheadOK'
<1>1. TailTypes /\ SpawnOK /\ QueueOK /\ AheadOK
  BY DEF TailInv
<1>2. ~SameParent'
  BY <1>1, SpawnTypes DEF SameParent
<1>3. file[sub].gen = 0 =>
          /\ notices'[sub] = <<>> /\ ~timer'[sub] /\ ~Begun'
          /\ \A i \in 1 .. Len(reads'[parent]) : reads'[parent][i] # sub
  BY <1>1 DEF SpawnOK, Begun
<1>4. spawned'.gen <= file'[parent].gen
  BY <1>1, SpawnTypes DEF SpawnOK
<1>5. SpawnOK'
  BY <1>2, <1>3, <1>4 DEF SpawnOK, ParentHas
<1>6. QueueOK'
  BY <1>1, QueueKept
<1>7. AheadOK'
  BY <1>2 DEF AheadOK
<1> QED
  BY <1>5, <1>6, <1>7

\* What became of the subagent's file, once it is there, is not the parent's.
LEMMA SubChanged ==
    ASSUME TailInv, spawned' = spawned, timer' = timer, reads' = reads, head' = head,
           landed' = landed, crossed' = crossed, file'[parent] = file[parent],
           file'[sub].gen # 0
    PROVE  SpawnOK' /\ QueueOK' /\ AheadOK'
<1>1. TailTypes /\ SpawnOK /\ QueueOK /\ AheadOK
  BY DEF TailInv
<1>2. Begun' => ParentHas'
  BY <1>1 DEF SpawnOK, Begun, ParentHas, SameParent
<1>3. SpawnOK'
  BY <1>1, <1>2 DEF SpawnOK, SameParent
<1>4. QueueOK'
  BY <1>1, QueueKept
<1>5. AheadOK'
  BY <1>1 DEF AheadOK, SameParent
<1> QED
  BY <1>3, <1>4, <1>5

LEMMA CreateKeeps ==
    ASSUME TailInv, NEW p \in Paths, NEW n \in 1 .. 2, CreateFile(p, n)
    PROVE  TailInv'
<1>1. TailTypes /\ PathsOK /\ SpawnOK /\ QueueOK /\ AheadOK
  BY DEF TailInv
<1>2. n \in Nat /\ file[p] \in FileType /\ notices[p] \in NoticeType
  BY <1>1, PathTypes
<1>3. /\ ~file[p].alive /\ notices[p] = <<>> /\ file[p].gen < MaxGens
      /\ p = sub => file[parent].alive /\ file[p].gen = 0
      /\ file' = [file EXCEPT ![p] = [gen |-> file[p].gen + 1, len |-> n, alive |-> TRUE]]
      /\ spawned' = IF p = sub THEN [gen |-> file[parent].gen, at |-> file[parent].len \div 2]
                    ELSE spawned
      /\ notices' = [notices EXCEPT ![p] = Heard(notices[p], "change")]
      /\ cut' = cut /\ timer' = timer /\ reads' = reads /\ head' = head /\ offsets' = offsets
      /\ cursorAtEnd' = cursorAtEnd /\ landed' = landed /\ crossed' = crossed
  BY DEF CreateFile, Tells
<1>4. PICK t \in NoticeType : t = Heard(notices[p], "change")
  BY <1>2, HeardChange
<1>5. PICK k \in FileType :
        /\ k = [gen |-> file[p].gen + 1, len |-> n, alive |-> TRUE]
        /\ k.gen = file[p].gen + 1 /\ k.alive /\ file[p].gen \in Nat /\ k.gen \in Nat
  BY <1>2, <1>3, FileChanges
<1>6. /\ file'[p] = k /\ notices'[p] = t
      /\ \A q \in Paths : q # p => file'[q] = file[q] /\ notices'[q] = notices[q]
  BY <1>1, <1>3, <1>4, <1>5 DEF TailTypes
<1>7. p = sub => spawned' \in CursorType /\ spawned'.gen = file[parent].gen
                 /\ 2 * spawned'.at <= file[parent].len
  <2>1. file[parent].gen \in Nat /\ file[parent].len \in Nat
    BY <1>1, SpawnTypes
  <2>2. PICK m \in Nat : m = file[parent].len \div 2 /\ 2 * m <= file[parent].len
    BY <2>1, Halves
  <2> QED
    BY <1>3, <2>1, <2>2 DEF CursorType
<1>8. TailTypes'
  <2>1. file' \in [Paths -> FileType] /\ notices' \in [Paths -> NoticeType]
    BY <1>1, <1>3, <1>4, <1>5 DEF TailTypes
  <2>2. spawned' \in CursorType
    BY <1>1, <1>3, <1>7 DEF TailTypes
  <2> QED
    BY <1>1, <1>3, <2>1, <2>2 DEF TailTypes
<1>9. PathsOK'
  <2>1. p \notin crossed' => PathOK(p)'
    <3> SUFFICES ASSUME p \notin crossed PROVE PathOK(p)'
      BY <1>3
    <3>1. Fine(file[p], cut[p], notices[p], head[p], offsets[p], cursorAtEnd[p], landed[p])
      BY <1>1 DEF PathsOK, PathOK
    <3>2. Fine(k, cut[p], t, head[p], offsets[p], cursorAtEnd[p], landed[p])
      BY <1>1, <1>2, <1>3, <1>4, <1>5, <3>1, PathTypes, CreateFine
    <3> QED
      BY <1>3, <1>6, <3>2 DEF PathOK
  <2> QED
    BY <1>1, <1>3, <1>6, <2>1, PathsKept
<1>10. SpawnOK' /\ QueueOK' /\ AheadOK'
  <2>1. CASE p = parent
    <3>1. spawned.gen <= file[parent].gen /\ spawned.gen \in Nat
      BY <1>1, SpawnTypes DEF SpawnOK
    <3>2. file'[parent].gen > spawned.gen /\ file'[parent].gen >= file[parent].gen
          /\ file'[parent].gen \in Nat
      BY <1>5, <1>6, <2>1, <3>1
    <3>3. spawned' = spawned /\ file'[sub] = file[sub] /\ notices'[sub] = notices[sub]
      BY <1>3, <1>6, <2>1, TwoPaths
    <3> QED
      BY <1>3, <3>2, <3>3, ParentChanged
  <2>2. CASE p = sub
    <3>1. file'[sub].gen # 0 /\ file'[parent] = file[parent]
      BY <1>5, <1>6, <2>2, TwoPaths
    <3>2. ~Begun /\ \A i \in 1 .. Len(reads[parent]) : reads[parent][i] # sub
      BY <1>1, <1>3, <2>2 DEF SpawnOK
    <3>3. ~Begun'
      BY <1>3, <3>2 DEF Begun
    <3>4. file[parent].gen \in Nat
      BY <1>1, SpawnTypes
    <3>5. SpawnOK'
      BY <1>7, <2>2, <3>1, <3>3, <3>4 DEF SpawnOK
    <3>6. QueueOK'
      BY <1>1, <1>3, QueueKept
    <3>7. head[parent].phase # "idle" => Head(reads[parent]) # sub
      <4> SUFFICES ASSUME head[parent].phase # "idle" PROVE Head(reads[parent]) # sub
        OBVIOUS
      <4>1. reads[parent] # <<>> /\ reads[parent] \in ReadsType
        BY <1>1, TwoPaths, PathTypes DEF QueueOK
      <4>2. Len(reads[parent]) \in Nat /\ Len(reads[parent]) # 0 /\ Head(reads[parent]) = reads[parent][1]
        BY <4>1, LenProperties, EmptySeq, HeadTailProperties DEF ReadsType
      <4> QED
        BY <3>2, <4>2
    <3>8. AheadOK'
      BY <1>3, <3>7 DEF AheadOK
    <3> QED
      BY <3>5, <3>6, <3>8
  <2> QED
    BY <2>1, <2>2, TwoPaths
<1> QED
  BY <1>8, <1>9, <1>10 DEF TailInv

LEMMA TruncateKeeps ==
    ASSUME TailInv, NEW p \in Paths, Truncate(p)
    PROVE  TailInv'
<1>1. TailTypes /\ PathsOK /\ SpawnOK /\ QueueOK /\ AheadOK
  BY DEF TailInv
<1>2. file[p] \in FileType /\ notices[p] \in NoticeType
  BY <1>1, PathTypes
<1>3. /\ file[p].alive /\ file[p].gen < MaxGens
      /\ file' = [file EXCEPT ![p] = [gen |-> file[p].gen + 1, len |-> 0, alive |-> TRUE]]
      /\ cut' = [cut EXCEPT ![p] = TRUE]
      /\ notices' = [notices EXCEPT ![p] = Heard(notices[p], "change")]
      /\ spawned' = spawned /\ timer' = timer /\ reads' = reads /\ head' = head
      /\ offsets' = offsets /\ cursorAtEnd' = cursorAtEnd /\ landed' = landed
      /\ crossed' = crossed
  BY DEF Truncate, Tells
<1>4. PICK t \in NoticeType : t = Heard(notices[p], "change")
  BY <1>2, HeardChange
<1>5. PICK k \in FileType :
        /\ k = [gen |-> file[p].gen + 1, len |-> 0, alive |-> TRUE]
        /\ k.gen = file[p].gen + 1 /\ k.alive /\ file[p].gen \in Nat /\ k.gen \in Nat
  BY <1>2, <1>3, FileChanges
<1>6. /\ file'[p] = k /\ notices'[p] = t /\ cut'[p] = TRUE
      /\ \A q \in Paths :
           q # p => file'[q] = file[q] /\ notices'[q] = notices[q] /\ cut'[q] = cut[q]
  BY <1>1, <1>3, <1>4, <1>5 DEF TailTypes
<1>8. TailTypes'
  BY <1>1, <1>3, <1>4, <1>5 DEF TailTypes
<1>9. PathsOK'
  <2>1. p \notin crossed' => PathOK(p)'
    <3> SUFFICES ASSUME p \notin crossed PROVE PathOK(p)'
      BY <1>3
    <3>1. Fine(file[p], cut[p], notices[p], head[p], offsets[p], cursorAtEnd[p], landed[p])
      BY <1>1 DEF PathsOK, PathOK
    <3>2. Fine(k, TRUE, t, head[p], offsets[p], cursorAtEnd[p], landed[p])
      BY <1>1, <1>2, <1>3, <1>4, <1>5, <3>1, PathTypes, TruncateFine
    <3> QED
      BY <1>3, <1>6, <3>2 DEF PathOK
  <2> QED
    BY <1>1, <1>3, <1>6, <2>1, PathsKept
<1>10. SpawnOK' /\ QueueOK' /\ AheadOK'
  <2>1. CASE p = parent
    <3>1. spawned.gen <= file[parent].gen /\ spawned.gen \in Nat
      BY <1>1, SpawnTypes DEF SpawnOK
    <3>2. file'[parent].gen > spawned.gen /\ file'[parent].gen >= file[parent].gen
          /\ file'[parent].gen \in Nat
      BY <1>5, <1>6, <2>1, <3>1
    <3>3. file'[sub] = file[sub] /\ notices'[sub] = notices[sub]
      BY <1>6, <2>1, TwoPaths
    <3> QED
      BY <1>3, <3>2, <3>3, ParentChanged
  <2>2. CASE p = sub
    <3>1. file'[sub].gen # 0 /\ file'[parent] = file[parent]
      BY <1>5, <1>6, <2>2, TwoPaths
    <3> QED
      BY <1>3, <3>1, SubChanged
  <2> QED
    BY <2>1, <2>2, TwoPaths
<1> QED
  BY <1>8, <1>9, <1>10 DEF TailInv

LEMMA UnlinkKeeps ==
    ASSUME TailInv, NEW p \in Paths, Unlink(p)
    PROVE  TailInv'
<1>1. TailTypes /\ PathsOK /\ SpawnOK /\ QueueOK /\ AheadOK
  BY DEF TailInv
<1>2. file[p] \in FileType /\ notices[p] \in NoticeType
  BY <1>1, PathTypes
<1>3. PICK k \in FileType :
        /\ k = [file[p] EXCEPT !.alive = FALSE]
        /\ k.gen = file[p].gen /\ ~k.alive
  BY <1>2, FileChanges
<1>4. PICK t \in NoticeType : t = Heard(notices[p], "unlink")
  BY <1>2, HeardUnlink
<1>5. /\ file[p].alive /\ file' = [file EXCEPT ![p] = k]
      /\ cut' = [cut EXCEPT ![p] = FALSE] /\ notices' = [notices EXCEPT ![p] = t]
      /\ spawned' = spawned /\ timer' = timer /\ reads' = reads /\ head' = head
      /\ offsets' = offsets /\ cursorAtEnd' = cursorAtEnd /\ landed' = landed
      /\ crossed' = crossed
  BY <1>3, <1>4 DEF Unlink, Tells
<1>6. /\ file'[p] = k /\ notices'[p] = t /\ cut'[p] = FALSE
      /\ \A q \in Paths :
           q # p => file'[q] = file[q] /\ notices'[q] = notices[q] /\ cut'[q] = cut[q]
  BY <1>1, <1>5 DEF TailTypes
<1>7. file[p].gen \in Nat /\ file[p].gen # 0
  <2>1. file[p].gen \in Nat /\ file[p].gen >= 1
    BY <1>2, <1>5, FileChanges
  <2> QED
    BY <2>1
<1>7a. /\ file'[p].gen = file[p].gen /\ ~file'[p].alive /\ file'[p].gen # 0
       /\ file'[p].gen \in Nat /\ file'[p].gen >= file[p].gen
  BY <1>3, <1>6, <1>7
<1>8. TailTypes'
  BY <1>1, <1>5 DEF TailTypes
<1>9. PathsOK'
  <2>1. p \notin crossed' => PathOK(p)'
    <3> SUFFICES ASSUME p \notin crossed PROVE PathOK(p)'
      BY <1>5
    <3>1. Fine(file[p], cut[p], notices[p], head[p], offsets[p], cursorAtEnd[p], landed[p])
      BY <1>1 DEF PathsOK, PathOK
    <3>2. Fine(k, FALSE, t, head[p], offsets[p], cursorAtEnd[p], landed[p])
      BY <1>1, <1>2, <1>3, <1>4, <3>1, PathTypes, UnlinkFine
    <3> QED
      BY <1>5, <1>6, <3>2 DEF PathOK
  <2> QED
    BY <1>1, <1>5, <1>6, <2>1, PathsKept
<1>10. SpawnOK' /\ QueueOK' /\ AheadOK'
  <2>1. CASE p = parent
    <3>1. file'[sub] = file[sub] /\ notices'[sub] = notices[sub] /\ ~file'[parent].alive
          /\ file'[parent].gen \in Nat /\ file'[parent].gen >= file[parent].gen
      BY <1>6, <1>7a, <2>1, TwoPaths
    <3> QED
      BY <1>5, <3>1, ParentChanged
  <2>2. CASE p = sub
    <3>1. file'[sub].gen # 0 /\ file'[parent] = file[parent]
      BY <1>6, <1>7a, <2>2, TwoPaths
    <3> QED
      BY <1>5, <3>1, SubChanged
  <2> QED
    BY <2>1, <2>2, TwoPaths
<1> QED
  BY <1>8, <1>9, <1>10 DEF TailInv

\* What delivering an event does to offset, cursor and the crossed reads.
LEMMA DeliverFacts ==
    ASSUME TailTypes, NEW p \in Paths, Deliver(p)
    PROVE  /\ crossed \subseteq crossed' /\ crossed' \subseteq Paths
           /\ offsets' \in [Paths -> Nat] /\ cursorAtEnd' \in [Paths -> CursorType]
           /\ \A q \in Paths :
                q # p => offsets'[q] = offsets[q] /\ cursorAtEnd'[q] = cursorAtEnd[q]
           /\ Head(notices[p]) = "unlink" =>
                /\ offsets'[p] = 0 /\ cursorAtEnd'[p] = Fresh
                /\ p \notin crossed' => head[p].phase \notin {"slicing", "sliced"}
           /\ Head(notices[p]) # "unlink" =>
                offsets'[p] = offsets[p] /\ cursorAtEnd'[p] = cursorAtEnd[p]
<1>1. CASE Head(notices[p]) = "unlink"
  <2>1. /\ offsets' = [offsets EXCEPT ![p] = 0]
        /\ cursorAtEnd' = [cursorAtEnd EXCEPT ![p] = Fresh]
        /\ crossed' = IF head[p].phase \in {"slicing", "sliced"} THEN crossed \cup {p} ELSE crossed
    BY <1>1 DEF Deliver, Forgotten
  <2>2. Fresh \in CursorType
    BY DEF Fresh, CursorType
  <2>3. /\ offsets' \in [Paths -> Nat] /\ cursorAtEnd' \in [Paths -> CursorType]
        /\ offsets'[p] = 0 /\ cursorAtEnd'[p] = Fresh
        /\ \A q \in Paths :
             q # p => offsets'[q] = offsets[q] /\ cursorAtEnd'[q] = cursorAtEnd[q]
    BY <2>1, <2>2 DEF TailTypes
  <2>4. crossed \subseteq crossed' /\ crossed' \subseteq Paths
    BY <2>1 DEF TailTypes
  <2>5. p \notin crossed' => head[p].phase \notin {"slicing", "sliced"}
    BY <2>1
  <2> QED
    BY <1>1, <2>3, <2>4, <2>5
<1>2. CASE Head(notices[p]) # "unlink"
  <2>1. offsets' = offsets /\ cursorAtEnd' = cursorAtEnd /\ crossed' = crossed
    BY <1>2 DEF Deliver
  <2> QED
    BY <1>2, <2>1 DEF TailTypes
<1> QED
  BY <1>1, <1>2

LEMMA DeliverKeeps ==
    ASSUME TailInv, NEW p \in Paths, Deliver(p)
    PROVE  TailInv'
<1>1. TailTypes /\ PathsOK /\ SpawnOK /\ QueueOK /\ AheadOK
  BY DEF TailInv
<1>2. notices[p] \in NoticeType /\ notices[p] # <<>> /\ head[p] \in HeadType
  BY <1>1, PathTypes DEF Deliver
<1>3. PICK t \in NoticeType : t = Tail(notices[p])
  BY <1>2, HeardFirst
<1>4. /\ notices' = [notices EXCEPT ![p] = t] /\ timer' = [timer EXCEPT ![p] = TRUE]
      /\ file' = file /\ cut' = cut /\ spawned' = spawned /\ reads' = reads /\ head' = head
      /\ landed' = landed
  BY <1>3 DEF Deliver, transcripts
<1>5. /\ crossed \subseteq crossed' /\ crossed' \subseteq Paths
      /\ offsets' \in [Paths -> Nat] /\ cursorAtEnd' \in [Paths -> CursorType]
      /\ \A q \in Paths :
           q # p => offsets'[q] = offsets[q] /\ cursorAtEnd'[q] = cursorAtEnd[q]
      /\ Head(notices[p]) = "unlink" =>
           /\ offsets'[p] = 0 /\ cursorAtEnd'[p] = Fresh
           /\ p \notin crossed' => head[p].phase \notin {"slicing", "sliced"}
      /\ Head(notices[p]) # "unlink" =>
           offsets'[p] = offsets[p] /\ cursorAtEnd'[p] = cursorAtEnd[p]
  BY <1>1, DeliverFacts
<1>6. /\ notices'[p] = t
      /\ \A q \in Paths : q # p => notices'[q] = notices[q] /\ timer'[q] = timer[q]
  BY <1>1, <1>4 DEF TailTypes
<1>7. TailTypes'
  BY <1>1, <1>4, <1>5 DEF TailTypes
<1>8. PathsOK'
  <2>1. p \notin crossed' => PathOK(p)'
    <3> SUFFICES ASSUME p \notin crossed' PROVE PathOK(p)'
      OBVIOUS
    <3>1. Fine(file[p], cut[p], notices[p], head[p], offsets[p], cursorAtEnd[p], landed[p])
      BY <1>1, <1>5 DEF PathsOK, PathOK
    <3>2. CASE Head(notices[p]) = "unlink"
      <4>1. Fine(file[p], cut[p], t, head[p], 0, Fresh, landed[p])
        BY <1>2, <1>3, <1>5, <3>1, <3>2, DeliverUnlinkFine
      <4> QED
        BY <1>4, <1>5, <1>6, <3>2, <4>1 DEF PathOK
    <3>3. CASE Head(notices[p]) # "unlink"
      <4>1. Fine(file[p], cut[p], t, head[p], offsets[p], cursorAtEnd[p], landed[p])
        BY <1>2, <1>3, <3>1, <3>3, DeliverChangeFine
      <4> QED
        BY <1>4, <1>5, <1>6, <3>3, <4>1 DEF PathOK
    <3> QED
      BY <3>2, <3>3
  <2> QED
    BY <1>1, <1>4, <1>5, <1>6, <2>1, PathsKept
<1>9. SpawnOK'
  <2>1. file[sub].gen = 0 => p # sub
    BY <1>1, <1>2 DEF SpawnOK
  <2>2. file'[sub].gen = 0 =>
          /\ notices'[sub] = <<>> /\ ~timer'[sub] /\ ~Begun'
          /\ \A i \in 1 .. Len(reads'[parent]) : reads'[parent][i] # sub
    BY <1>1, <1>4, <1>6, <2>1, TwoPaths DEF SpawnOK, Begun
  <2>3. Begun' => ParentHas'
    BY <1>1, <1>4, <1>5 DEF SpawnOK, Begun, ParentHas, SameParent
  <2> QED
    BY <1>1, <1>4, <2>2, <2>3 DEF SpawnOK, SameParent
<1>10. QueueOK'
  BY <1>1, <1>4, QueueKept
<1>11. AheadOK'
  BY <1>1, <1>4, <1>5 DEF AheadOK, SameParent
<1> QED
  BY <1>7, <1>8, <1>9, <1>10, <1>11 DEF TailInv

\* What the queue of a path is when something is put behind it, or its first taken.
LEMMA QueueBehind ==
    ASSUME NEW q \in ReadsType, NEW x \in Paths \cup {NoPath}
    PROVE  /\ Append(q, x) \in ReadsType /\ Append(q, x) # <<>>
           /\ Len(q) \in Nat /\ Len(Append(q, x)) = Len(q) + 1
           /\ \A i \in 1 .. Len(q) : Append(q, x)[i] = q[i]
           /\ Append(q, x)[Len(q) + 1] = x
           /\ \A S : x \in S /\ (\A i \in 1 .. Len(q) : q[i] \in S) =>
                       \A i \in 1 .. Len(Append(q, x)) : Append(q, x)[i] \in S
           /\ q # <<>> => Head(Append(q, x)) = Head(q)
<1>1. /\ Append(q, x) \in ReadsType /\ Len(Append(q, x)) = Len(q) + 1
      /\ \A i \in 1 .. Len(q) : Append(q, x)[i] = q[i]
      /\ Append(q, x)[Len(q) + 1] = x
  BY AppendProperties DEF ReadsType
<1>2. Len(q) \in Nat
  BY LenProperties DEF ReadsType
<1>3. Append(q, x) # <<>>
  BY <1>1, <1>2, EmptySeq DEF ReadsType
<1>4. \A S : x \in S /\ (\A i \in 1 .. Len(q) : q[i] \in S) =>
               \A i \in 1 .. Len(Append(q, x)) : Append(q, x)[i] \in S
  <2> SUFFICES ASSUME NEW S, x \in S, \A i \in 1 .. Len(q) : q[i] \in S,
                      NEW i \in 1 .. Len(Append(q, x))
               PROVE  Append(q, x)[i] \in S
    OBVIOUS
  <2>1. i \in 1 .. Len(q) \/ i = Len(q) + 1
    BY <1>1, <1>2
  <2> QED
    BY <1>1, <2>1
<1>5. q # <<>> => Head(Append(q, x)) = Head(q)
  <2> SUFFICES ASSUME q # <<>> PROVE Head(Append(q, x)) = Head(q)
    OBVIOUS
  <2>1. Head(q) = q[1] /\ 1 \in 1 .. Len(q)
    BY <1>2, EmptySeq, HeadTailProperties DEF ReadsType
  <2>2. Head(Append(q, x)) = Append(q, x)[1]
    BY <1>1, <1>3, HeadTailProperties DEF ReadsType
  <2> QED
    BY <1>1, <2>1, <2>2
<1> QED
  BY <1>1, <1>2, <1>3, <1>4, <1>5

LEMMA QueueRest ==
    ASSUME NEW q \in ReadsType, q # <<>>
    PROVE  /\ Tail(q) \in ReadsType /\ Head(q) \in Paths \cup {NoPath}
           /\ \A S : (\A i \in 1 .. Len(q) : q[i] \in S) =>
                       Head(q) \in S /\ \A i \in 1 .. Len(Tail(q)) : Tail(q)[i] \in S
<1>1. /\ Head(q) \in Paths \cup {NoPath} /\ Tail(q) \in ReadsType
      /\ Len(Tail(q)) = Len(q) - 1
      /\ \A i \in 1 .. Len(Tail(q)) : Tail(q)[i] = q[i + 1]
  BY HeadTailProperties DEF ReadsType
<1>2. Len(q) \in Nat /\ Len(q) # 0 /\ Head(q) = q[1]
  BY LenProperties, EmptySeq DEF ReadsType
<1>3. \A i \in 1 .. Len(Tail(q)) : i + 1 \in 1 .. Len(q)
  BY <1>1, <1>2
<1>4. 1 \in 1 .. Len(q)
  BY <1>2
<1> QED
  BY <1>1, <1>2, <1>3, <1>4

LEMMA FireKeeps ==
    ASSUME TailInv, NEW p \in Paths, Fire(p)
    PROVE  TailInv'
<1>1. TailTypes /\ PathsOK /\ SpawnOK /\ QueueOK /\ AheadOK
  BY DEF TailInv
<1>2. /\ timer[p] /\ timer' = [timer EXCEPT ![p] = FALSE]
      /\ file' = file /\ cut' = cut /\ spawned' = spawned /\ notices' = notices
      /\ head' = head /\ offsets' = offsets /\ cursorAtEnd' = cursorAtEnd
      /\ landed' = landed /\ crossed' = crossed
  BY DEF Fire, transcripts
<1>3. PICK x \in {NoPath, sub} :
        /\ reads' = [reads EXCEPT ![parent] = Append(@, x)]
        /\ x = sub => p = sub
  <2>1. CASE p = parent
    BY <2>1, TwoPaths DEF Fire, Flush
  <2>2. CASE p = sub
    BY <2>2, TwoPaths DEF Fire, Flush
  <2> QED
    BY <2>1, <2>2, TwoPaths
<1>4. reads[parent] \in ReadsType /\ x \in Paths \cup {NoPath}
  BY <1>1, TwoPaths, PathTypes
<1>5. PICK q \in ReadsType : q = Append(reads[parent], x)
  BY <1>4, QueueBehind
<1>6. /\ reads' = [reads EXCEPT ![parent] = q] /\ reads'[parent] = q /\ reads'[sub] = reads[sub]
      /\ q # <<>>
  BY <1>1, <1>3, <1>4, <1>5, TwoPaths, QueueBehind DEF TailTypes
<1>7. TailTypes'
  BY <1>1, <1>2, <1>5, <1>6 DEF TailTypes
<1>8. PathsOK'
  BY <1>1, <1>2 DEF PathsOK, PathOK
<1>9. file[sub].gen = 0 => p # sub
  BY <1>1, <1>2 DEF SpawnOK
<1>10. SpawnOK'
  <2>1. file[sub].gen = 0 => \A i \in 1 .. Len(q) : q[i] # sub
    <3> SUFFICES ASSUME file[sub].gen = 0 PROVE \A i \in 1 .. Len(q) : q[i] # sub
      OBVIOUS
    <3>1. x # sub
      BY <1>3, <1>9
    <3>2. \A i \in 1 .. Len(reads[parent]) : reads[parent][i] # sub
      BY <1>1 DEF SpawnOK
    <3> DEFINE S == {reads[parent][j] : j \in 1 .. Len(reads[parent])} \cup {x}
    <3>3. sub \notin S
      BY <3>1, <3>2
    <3>4. x \in S /\ \A i \in 1 .. Len(reads[parent]) : reads[parent][i] \in S
      OBVIOUS
    <3> HIDE DEF S
    <3>5. \A i \in 1 .. Len(q) : q[i] \in S
      BY <1>4, <1>5, <3>4, QueueBehind
    <3> QED
      BY <3>3, <3>5
  <2>2. file[sub].gen = 0 => ~timer'[sub]
    BY <1>1, <1>2, <1>9, TwoPaths DEF SpawnOK, TailTypes
  <2>3. Begun' <=> Begun
    BY <1>2, <1>6 DEF Begun
  <2>4. ParentHas' <=> ParentHas
    BY <1>2 DEF ParentHas, SameParent
  <2>5. file'[sub].gen = 0 =>
          /\ notices'[sub] = <<>> /\ ~timer'[sub] /\ ~Begun'
          /\ \A i \in 1 .. Len(reads'[parent]) : reads'[parent][i] # sub
    BY <1>1, <1>2, <1>6, <2>1, <2>2, <2>3 DEF SpawnOK
  <2> QED
    BY <1>1, <1>2, <2>3, <2>4, <2>5 DEF SpawnOK, SameParent
<1>11. QueueOK'
  <2>1. \A i \in 1 .. Len(q) : q[i] \in {NoPath, sub}
    BY <1>1, <1>4, <1>5, QueueBehind DEF QueueOK
  <2>2. \A y \in Paths : head[y].phase # "idle" => reads'[y] # <<>>
    BY <1>1, <1>6, TwoPaths DEF QueueOK
  <2> QED
    BY <1>1, <1>2, <1>6, <2>1, <2>2 DEF QueueOK
<1>12. AheadOK'
  <2>1. head[parent].phase # "idle" => Head(q) = Head(reads[parent])
    BY <1>1, <1>4, <1>5, TwoPaths, QueueBehind DEF QueueOK
  <2> QED
    BY <1>1, <1>2, <1>6, <2>1 DEF AheadOK, SameParent
<1> QED
  BY <1>7, <1>8, <1>10, <1>11, <1>12 DEF TailInv

LEMMA StatSampleKeeps ==
    ASSUME TailInv, NEW p \in Paths, StatSample(p)
    PROVE  TailInv'
<1>1. TailTypes /\ PathsOK /\ SpawnOK /\ QueueOK /\ AheadOK
  BY DEF TailInv
<1> DEFINE k == [phase |-> "sized", gen |-> file[p].gen, from |-> 0,
                 size |-> IF file[p].alive THEN file[p].len ELSE -1]
<1>2. file[p] \in FileType
  BY <1>1, PathTypes
<1>3. file[p].len \in Nat /\ file[p].gen \in Nat /\ file[p].gen <= MaxGens
  BY <1>2, FileChanges
<1>4. k \in HeadType /\ k.size = IF file[p].alive THEN file[p].len ELSE -1
  <2>1. file[p].gen \in 0 .. MaxGens /\ 0 \in Nat
    BY <1>3, TailAssumption
  <2>2. (IF file[p].alive THEN file[p].len ELSE -1) \in Nat \cup {-1}
    BY <1>3
  <2> QED
    BY <2>1, <2>2 DEF HeadType
<1>5. k.phase = "sized"
  OBVIOUS
<1>6. /\ reads[p] # <<>> /\ head' = [head EXCEPT ![p] = k]
      /\ file' = file /\ cut' = cut /\ spawned' = spawned /\ notices' = notices
      /\ timer' = timer /\ reads' = reads /\ offsets' = offsets /\ cursorAtEnd' = cursorAtEnd
      /\ landed' = landed /\ crossed' = crossed
  BY DEF StatSample, transcripts
<1> HIDE DEF k
<1>7. head'[p] = k /\ \A q \in Paths : q # p => head'[q] = head[q]
  BY <1>1, <1>6 DEF TailTypes
<1>8. TailTypes'
  BY <1>1, <1>4, <1>6 DEF TailTypes
<1>9. PathsOK'
  <2>1. p \notin crossed' => PathOK(p)'
    <3> SUFFICES ASSUME p \notin crossed PROVE PathOK(p)'
      BY <1>6
    <3>1. Fine(file[p], cut[p], notices[p], head[p], offsets[p], cursorAtEnd[p], landed[p])
      BY <1>1 DEF PathsOK, PathOK
    <3>2. Fine(file[p], cut[p], notices[p], k, offsets[p], cursorAtEnd[p], landed[p])
      BY <1>1, <3>1, PathTypes, SampleFine DEF k
    <3> QED
      BY <1>6, <1>7, <3>2 DEF PathOK
  <2> QED
    BY <1>1, <1>6, <1>7, <2>1, PathsKept
<1>10. SpawnOK'
  BY <1>1, <1>6 DEF SpawnOK, Begun, ParentHas, SameParent
<1>11. QueueOK'
  BY <1>1, <1>6, <1>7 DEF QueueOK
<1>12. AheadOK'
  <2>1. CASE p = parent
    <3>1. SameParent => k.size >= 2 * spawned.at
      BY <1>1, <1>4, <2>1 DEF SpawnOK, SameParent
    <3> QED
      BY <1>5, <1>6, <1>7, <2>1, <3>1 DEF AheadOK, SameParent
  <2>2. CASE p # parent
    BY <1>1, <1>6, <1>7, <2>2, TwoPaths DEF AheadOK, SameParent
  <2> QED
    BY <2>1, <2>2
<1> QED
  BY <1>8, <1>9, <1>10, <1>11, <1>12 DEF TailInv

-------------------------------------------------------------------------------
(* The steps of a read *)

LEMMA IdleType == Idle \in HeadType /\ Idle.phase = "idle"
<1>1. 0 \in 0 .. MaxGens /\ 0 \in Nat /\ -1 \in Nat \cup {-1}
  BY TailAssumption
<1> QED
  BY <1>1 DEF Idle, HeadType

\* A read that is over leaves the queue, and lets the read it precedes begin.
LEMMA ReadLeaves ==
    ASSUME TailTypes, QueueOK, NEW p \in Paths, reads[p] # <<>>, Ended(p) \/ Thrown(p)
    PROVE  /\ head' = [head EXCEPT ![p] = Idle]
           /\ reads' \in [Paths -> ReadsType] /\ head' \in [Paths -> HeadType]
           /\ QueueOK'
           /\ (\A i \in 1 .. Len(reads[parent]) : reads[parent][i] # sub) =>
                \A i \in 1 .. Len(reads'[parent]) : reads'[parent][i] # sub
           /\ reads'[sub] # <<>> =>
                \/ reads[sub] # <<>>
                \/ p = parent /\ Head(reads[parent]) = sub /\ Ended(p)
           /\ p = sub => reads'[parent] = reads[parent]
<1>1. head' = [head EXCEPT ![p] = Idle]
  BY DEF Ended, Thrown
<1>2. /\ head' \in [Paths -> HeadType] /\ head'[p].phase = "idle"
      /\ \A y \in Paths : y # p => head'[y] = head[y]
  BY <1>1, IdleType DEF TailTypes
<1>3. reads[p] \in ReadsType /\ reads[sub] \in ReadsType /\ reads[parent] \in ReadsType
  BY TwoPaths, PathTypes
<1>4. PICK r \in ReadsType : r = Tail(reads[p])
  BY <1>3, QueueRest
<1>5. \A S : (\A i \in 1 .. Len(reads[p]) : reads[p][i] \in S) =>
               Head(reads[p]) \in S /\ \A i \in 1 .. Len(r) : r[i] \in S
  BY <1>3, <1>4, QueueRest
<1>6. /\ p = parent => Head(reads[p]) \in {NoPath, sub} /\ \A i \in 1 .. Len(r) : r[i] \in {NoPath, sub}
      /\ p = sub => Head(reads[p]) = NoPath /\ \A i \in 1 .. Len(r) : r[i] = NoPath
  <2>1. p = parent => Head(reads[p]) \in {NoPath, sub} /\ \A i \in 1 .. Len(r) : r[i] \in {NoPath, sub}
    BY <1>5 DEF QueueOK
  <2>2. p = sub => Head(reads[p]) \in {NoPath} /\ \A i \in 1 .. Len(r) : r[i] \in {NoPath}
    BY <1>5 DEF QueueOK
  <2> QED
    BY <2>1, <2>2
<1>7. p = parent /\ (\A i \in 1 .. Len(reads[parent]) : reads[parent][i] # sub) =>
        \A i \in 1 .. Len(r) : r[i] # sub
  <2> SUFFICES ASSUME p = parent, \A i \in 1 .. Len(reads[parent]) : reads[parent][i] # sub
               PROVE  \A i \in 1 .. Len(r) : r[i] # sub
    OBVIOUS
  <2>1. \A i \in 1 .. Len(r) : r[i] \in {NoPath}
    BY <1>5 DEF QueueOK
  <2> QED
    BY <2>1, TwoPaths
<1>8. CASE reads' = [reads EXCEPT ![p] = r]
  <2>1. reads' \in [Paths -> ReadsType] /\ reads'[p] = r
        /\ \A y \in Paths : y # p => reads'[y] = reads[y]
    BY <1>8 DEF TailTypes
  <2>2. reads'[sub] # <<>> => reads[sub] # <<>>
    <3>1. CASE p = sub
      BY <3>1
    <3>2. CASE p # sub
      BY <2>1, <3>2, TwoPaths
    <3> QED
      BY <3>1, <3>2
  <2>3. p = sub => reads'[parent] = reads[parent]
    BY <2>1, TwoPaths
  <2>4. /\ \A i \in 1 .. Len(reads'[parent]) : reads'[parent][i] \in {NoPath, sub}
        /\ \A i \in 1 .. Len(reads'[sub]) : reads'[sub][i] = NoPath
    BY <1>6, <2>1, TwoPaths DEF QueueOK
  <2>5. \A y \in Paths : head'[y].phase # "idle" => reads'[y] # <<>>
    BY <1>2, <2>1 DEF QueueOK
  <2>6. QueueOK'
    BY <2>4, <2>5 DEF QueueOK
  <2>7. (\A i \in 1 .. Len(reads[parent]) : reads[parent][i] # sub) =>
          \A i \in 1 .. Len(reads'[parent]) : reads'[parent][i] # sub
    BY <1>7, <2>1, <2>3, TwoPaths
  <2> QED
    BY <1>1, <1>2, <2>1, <2>2, <2>3, <2>6, <2>7
<1>9. CASE Ended(p) /\ p = parent /\ Head(reads[p]) = sub
  <2>1. PICK q \in ReadsType : q = Append(reads[sub], NoPath)
    BY <1>3, QueueBehind
  <2>2. reads' = [[reads EXCEPT ![p] = r] EXCEPT ![sub] = q]
    <3>1. reads' = [[reads EXCEPT ![p] = r] EXCEPT ![sub] = Append(@, NoPath)]
      BY <1>4, <1>9, TwoPaths DEF Ended
    <3>2. [reads EXCEPT ![p] = r][sub] = reads[sub]
      BY <1>9, TwoPaths DEF TailTypes
    <3> QED
      BY <2>1, <3>1, <3>2, TwoPaths DEF TailTypes
  <2>3. reads' \in [Paths -> ReadsType] /\ reads'[parent] = r /\ reads'[sub] = q
    BY <1>9, <2>2, TwoPaths DEF TailTypes
  <2>4. q # <<>> /\ \A i \in 1 .. Len(q) : q[i] \in {NoPath}
    <3>1. \A i \in 1 .. Len(reads[sub]) : reads[sub][i] \in {NoPath}
      BY DEF QueueOK
    <3>2. q # <<>>
      BY <1>3, <2>1, QueueBehind
    <3>3. \A i \in 1 .. Len(q) : q[i] \in {NoPath}
      BY <1>3, <2>1, <3>1, QueueBehind
    <3> QED
      BY <3>2, <3>3
  <2>5. \A y \in Paths : head'[y].phase # "idle" => reads'[y] # <<>>
    BY <1>2, <1>9, <2>3, <2>4, TwoPaths
  <2>6. QueueOK'
    BY <1>6, <1>9, <2>3, <2>4, <2>5 DEF QueueOK
  <2> QED
    BY <1>1, <1>2, <1>7, <1>9, <2>3, <2>6, TwoPaths
<1>10. Thrown(p) => reads' = [reads EXCEPT ![p] = r]
  BY <1>4 DEF Thrown
<1>11. Ended(p) /\ Head(reads[p]) = NoPath => reads' = [reads EXCEPT ![p] = r]
  BY <1>4 DEF Ended
<1> QED
  BY <1>6, <1>8, <1>9, <1>10, <1>11, TwoPaths

\* What is over for the subagent and its parent when a read is.
LEMMA ReadOver ==
    ASSUME TailInv, NEW p \in Paths, reads[p] # <<>>, Ended(p) \/ Thrown(p),
           file' = file, spawned' = spawned, notices' = notices, timer' = timer,
           crossed' = crossed, p # sub => landed'[sub] = landed[sub],
           ParentHas => ParentHas',
           p = parent /\ Head(reads[parent]) = sub /\ Ended(p) => ParentHas'
    PROVE  SpawnOK' /\ QueueOK' /\ AheadOK'
<1>1. TailTypes /\ PathsOK /\ SpawnOK /\ QueueOK /\ AheadOK
  BY DEF TailInv
<1>2. /\ head' = [head EXCEPT ![p] = Idle]
      /\ QueueOK'
      /\ (\A i \in 1 .. Len(reads[parent]) : reads[parent][i] # sub) =>
           \A i \in 1 .. Len(reads'[parent]) : reads'[parent][i] # sub
      /\ reads'[sub] # <<>> =>
           \/ reads[sub] # <<>>
           \/ p = parent /\ Head(reads[parent]) = sub /\ Ended(p)
      /\ p = sub => reads'[parent] = reads[parent]
  BY <1>1, ReadLeaves
<1>3. Begun' => Begun \/ (p = parent /\ Head(reads[parent]) = sub /\ Ended(p))
  <2>1. p = sub => Begun
    BY DEF Begun
  <2> QED
    BY <1>2, <2>1 DEF Begun
<1>4. Begun' => ParentHas'
  BY <1>1, <1>3 DEF SpawnOK
<1>5. file[sub].gen = 0 => ~(p = parent /\ Head(reads[parent]) = sub)
  <2> SUFFICES ASSUME file[sub].gen = 0, p = parent PROVE Head(reads[parent]) # sub
    OBVIOUS
  <2>1. reads[parent] \in ReadsType
    BY <1>1, PathTypes
  <2>2. Len(reads[parent]) \in Nat /\ Len(reads[parent]) # 0 /\ Head(reads[parent]) = reads[parent][1]
    BY <2>1, LenProperties, EmptySeq, HeadTailProperties DEF ReadsType
  <2> QED
    BY <1>1, <2>2 DEF SpawnOK
<1>6. file'[sub].gen = 0 =>
        /\ notices'[sub] = <<>> /\ ~timer'[sub] /\ ~Begun'
        /\ \A i \in 1 .. Len(reads'[parent]) : reads'[parent][i] # sub
  BY <1>1, <1>2, <1>3, <1>5 DEF SpawnOK
<1>7. SpawnOK'
  BY <1>1, <1>4, <1>6 DEF SpawnOK, SameParent
<1>8. AheadOK'
  <2>1. CASE p = parent
    <3>1. head'[parent].phase = "idle"
      BY <1>1, <1>2, <2>1, IdleType DEF TailTypes
    <3> QED
      BY <3>1 DEF AheadOK
  <2>2. CASE p = sub
    <3>1. head'[parent] = head[parent] /\ reads'[parent] = reads[parent]
      BY <1>1, <1>2, <2>2, TwoPaths DEF TailTypes
    <3> QED
      BY <1>1, <3>1 DEF AheadOK, SameParent
  <2> QED
    BY <2>1, <2>2, TwoPaths
<1> QED
  BY <1>2, <1>7, <1>8

\* A read that found nothing new, of a file at least so long, finds it has landed.
LEMMA NothingNewHasAll ==
    ASSUME NEW f \in FileType, NEW c \in BOOLEAN, NEW news, NEW h \in HeadType,
           NEW at \in Nat, NEW cur, NEW ld \in LandedType, NEW from \in Nat, NEW n \in Nat,
           Fine(f, c, news, h, at, cur, ld), f.alive, h.size >= 2 * n, 2 * n <= f.len,
           h.size <= from, from \in {0, at}
    PROVE  Len(ld[f.gen]) >= n
<1>1. f.gen \in 1 .. MaxGens /\ f.len \in Nat
  <2>1. f.gen \in Nat /\ f.gen <= MaxGens /\ f.gen >= 1 /\ f.len \in Nat
    BY FileChanges
  <2> QED
    BY <2>1, TailAssumption
<1>2. Len(ld[f.gen]) \in Nat
  <2>1. ld[f.gen] \in Seq(LineType)
    BY <1>1 DEF LandedType
  <2> QED
    BY <2>1, LenProperties
<1>3. h.size \in Int
  BY DEF HeadType
<1>4. CASE c
  <2>1. f.len = 0
    BY <1>4 DEF Fine, FileOK
  <2> QED
    BY <1>2, <2>1
<1>5. CASE ~c
  <2>1. at = 2 * Len(ld[f.gen])
    BY <1>5 DEF Fine, OffsetOK, ReadSoFar
  <2> QED
    BY <1>2, <1>3, <2>1
<1> QED
  BY <1>4, <1>5

LEMMA StatResumeKeeps ==
    ASSUME TailInv, NEW p \in Paths, StatResume(p)
    PROVE  TailInv'
<1>1. TailTypes /\ PathsOK /\ SpawnOK /\ QueueOK /\ AheadOK
  BY DEF TailInv
<1>2. /\ file[p] \in FileType /\ cut[p] \in BOOLEAN /\ head[p] \in HeadType
      /\ offsets[p] \in Nat /\ cursorAtEnd[p] \in CursorType /\ landed[p] \in LandedType
  BY <1>1, PathTypes
<1> DEFINE from == ResumeAt(p)
           d == cut[p] /\ ~(head[p].size = 0 /\ head[p].gen = file[p].gen)
<1>3. from \in Nat /\ from = (IF head[p].size < offsets[p] THEN 0 ELSE offsets[p])
  BY <1>2 DEF ResumeAt
<1>4. /\ head[p].phase = "sized" /\ cut' = [cut EXCEPT ![p] = d] /\ file' = file
      /\ spawned' = spawned /\ notices' = notices /\ timer' = timer /\ landed' = landed
      /\ crossed' = crossed
  BY DEF StatResume
<1>5. d \in BOOLEAN /\ (d <=> cut[p] /\ ~(head[p].size = 0 /\ head[p].gen = file[p].gen))
  BY <1>2
<1>6. /\ head[p].size = -1 => Ended(p) /\ offsets' = offsets /\ cursorAtEnd' = cursorAtEnd
      /\ head[p].size # -1 /\ head[p].size <= from =>
           /\ offsets' = [offsets EXCEPT ![p] = head[p].size]
           /\ cursorAtEnd' = EmptyReadCursor(p, from)
           /\ Ended(p)
      /\ head[p].size # -1 /\ ~(head[p].size <= from) =>
           /\ head[p].size > from
           /\ head' = [head EXCEPT ![p] = [@ EXCEPT !.phase = "slicing", !.from = from]]
           /\ reads' = reads /\ offsets' = offsets /\ cursorAtEnd' = cursorAtEnd
  <2>1. head[p].size \in Nat \cup {-1} /\ head[p].size \in Int
    BY <1>2 DEF HeadType
  <2>2. head[p].size = -1 => ~(head[p].size > from)
    BY <1>3
  <2>3. head[p].size # -1 => (~(head[p].size <= from) <=> head[p].size > from)
    BY <1>3, <2>1
  <2> QED
    BY <2>2, <2>3 DEF StatResume
<1> HIDE DEF from, d
<1>7. cut' \in [Paths -> BOOLEAN] /\ cut'[p] = d /\ \A q \in Paths : q # p => cut'[q] = cut[q]
  BY <1>1, <1>4, <1>5 DEF TailTypes
<1>8. reads[p] # <<>>
  BY <1>1, <1>4 DEF QueueOK
<1>9. p \notin crossed =>
        Fine(file[p], cut[p], notices[p], head[p], offsets[p], cursorAtEnd[p], landed[p])
  BY <1>1 DEF PathsOK, PathOK
<1>10. ParentHas => ParentHas'
  BY <1>4 DEF ParentHas, SameParent
<1>11. CASE head[p].size = -1
  <2>1. Ended(p) /\ offsets' = offsets /\ cursorAtEnd' = cursorAtEnd
    BY <1>6, <1>11
  <2>2. /\ head' = [head EXCEPT ![p] = Idle]
        /\ reads' \in [Paths -> ReadsType] /\ head' \in [Paths -> HeadType]
    BY <1>1, <1>8, <2>1, ReadLeaves
  <2>3. head'[p] = Idle /\ \A q \in Paths : q # p => head'[q] = head[q]
    BY <1>1, <2>2 DEF TailTypes
  <2>4. TailTypes'
    BY <1>1, <1>4, <1>7, <2>1, <2>2 DEF TailTypes
  <2>5. d = cut[p]
    BY <1>2, <1>11 DEF d
  <2>6. p \notin crossed' => PathOK(p)'
    <3> SUFFICES ASSUME p \notin crossed PROVE PathOK(p)'
      BY <1>4
    <3>1. Fine(file[p], cut[p], notices[p], Idle, offsets[p], cursorAtEnd[p], landed[p])
      BY <1>9, IdleFine
    <3> QED
      BY <1>4, <1>7, <2>1, <2>3, <2>5, <3>1 DEF PathOK
  <2>7. PathsOK'
    BY <1>1, <1>4, <1>7, <2>1, <2>3, <2>6, PathsKept
  <2>8. p = parent /\ Head(reads[parent]) = sub /\ Ended(p) => ParentHas'
    <3> SUFFICES ASSUME p = parent, Head(reads[parent]) = sub, SameParent, parent \notin crossed
                 PROVE  FALSE
      BY <1>4 DEF ParentHas, SameParent
    <3>1. head[parent].size >= 2 * spawned.at
      BY <1>1, <1>4 DEF AheadOK
    <3>2. spawned.at \in Nat
      BY <1>1, SpawnTypes
    <3> QED
      BY <1>11, <3>1, <3>2
  <2>9. SpawnOK' /\ QueueOK' /\ AheadOK'
    BY <1>4, <1>8, <1>10, <2>1, <2>8, ReadOver
  <2> QED
    BY <2>4, <2>7, <2>9 DEF TailInv
<1>12. CASE head[p].size # -1 /\ head[p].size <= from
  <2>1. /\ offsets' = [offsets EXCEPT ![p] = head[p].size]
        /\ cursorAtEnd' = EmptyReadCursor(p, from)
        /\ Ended(p)
    BY <1>6, <1>12
  <2>2. /\ head' = [head EXCEPT ![p] = Idle]
        /\ reads' \in [Paths -> ReadsType] /\ head' \in [Paths -> HeadType]
    BY <1>1, <1>8, <2>1, ReadLeaves
  <2>3. head'[p] = Idle /\ \A q \in Paths : q # p => head'[q] = head[q]
    BY <1>1, <2>2 DEF TailTypes
  <2>4. PICK nc \in CursorType : nc = IF from = 0 THEN Fresh ELSE cursorAtEnd[p]
    <3>1. Fresh \in CursorType
      BY DEF Fresh, CursorType
    <3> QED
      BY <1>2, <3>1
  <2>5. cursorAtEnd' = [cursorAtEnd EXCEPT ![p] = nc]
    <3>1. from # 0 => cursorAtEnd = [cursorAtEnd EXCEPT ![p] = cursorAtEnd[p]]
      BY <1>1 DEF TailTypes
    <3> QED
      BY <2>1, <2>4, <3>1 DEF EmptyReadCursor
  <2>6. head[p].size \in Nat
    BY <1>2, <1>12 DEF HeadType
  <2>7. /\ offsets'[p] = head[p].size /\ cursorAtEnd'[p] = nc
        /\ \A q \in Paths : q # p => offsets'[q] = offsets[q] /\ cursorAtEnd'[q] = cursorAtEnd[q]
    BY <1>1, <2>1, <2>5 DEF TailTypes
  <2>8. TailTypes'
    BY <1>1, <1>4, <1>7, <2>1, <2>2, <2>5, <2>6 DEF TailTypes
  <2>9. p \notin crossed' => PathOK(p)'
    <3> SUFFICES ASSUME p \notin crossed PROVE PathOK(p)'
      BY <1>4
    <3>1. Fine(file[p], cut[p], notices[p], head[p], offsets[p], cursorAtEnd[p], landed[p])
      BY <1>9
    <3>2. /\ head[p].size < offsets[p] => from = 0
          /\ ~(head[p].size < offsets[p]) => from = offsets[p]
          /\ from # 0 => nc = cursorAtEnd[p]
      BY <1>3, <2>4
    <3>3. PICK e \in BOOLEAN : e = d /\ (e => cut[p]) /\ (cut[p] /\ ~e => head[p].size = 0)
      BY <1>5
    <3>4. NothingNew(file[p], cut[p], notices[p], head[p], offsets[p], cursorAtEnd[p], landed[p],
                     from, e, nc)
      BY <1>2, <1>3, <1>4, <1>12, <3>1, <3>2, <3>3 DEF NothingNew
    <3>5. Fine(file[p], e, notices[p], Idle, head[p].size, nc, landed[p])
      BY <3>4, NothingNewFine
    <3> QED
      BY <1>4, <1>7, <2>3, <2>7, <3>3, <3>5 DEF PathOK
  <2>10. PathsOK'
    BY <1>1, <1>4, <1>7, <2>3, <2>7, <2>9, PathsKept
  <2>11. p = parent /\ Head(reads[parent]) = sub /\ Ended(p) => ParentHas'
    <3> SUFFICES ASSUME p = parent, Head(reads[parent]) = sub, SameParent, parent \notin crossed
                 PROVE  Len(landed[parent][spawned.gen]) >= spawned.at
      BY <1>4 DEF ParentHas, SameParent
    <3>1. head[p].size >= 2 * spawned.at
      BY <1>1, <1>4 DEF AheadOK
    <3>2. spawned.at \in Nat /\ 2 * spawned.at <= file[p].len
      BY <1>1, SpawnTypes DEF SpawnOK
    <3>3. file[p].alive /\ file[p].gen = spawned.gen
      BY DEF SameParent
    <3>4. from \in {0, offsets[p]}
      BY <1>3
    <3> QED
      BY <1>2, <1>3, <1>9, <1>12, <3>1, <3>2, <3>3, <3>4, NothingNewHasAll
  <2>12. SpawnOK' /\ QueueOK' /\ AheadOK'
    BY <1>4, <1>8, <1>10, <2>1, <2>11, ReadOver
  <2> QED
    BY <2>8, <2>10, <2>12 DEF TailInv
<1>13. CASE head[p].size # -1 /\ ~(head[p].size <= from)
  <2> DEFINE k == [head[p] EXCEPT !.phase = "slicing", !.from = from]
  <2>1. /\ head[p].size > from
        /\ head' = [head EXCEPT ![p] = k]
        /\ reads' = reads /\ offsets' = offsets /\ cursorAtEnd' = cursorAtEnd
    BY <1>6, <1>13
  <2>2. k \in HeadType /\ k.phase = "slicing" /\ k.size = head[p].size
    BY <1>2, <1>3 DEF HeadType
  <2>3. Fine(file[p], cut[p], notices[p], head[p], offsets[p], cursorAtEnd[p], landed[p]) =>
          Fine(file[p], cut[p], notices[p], k, offsets[p], cursorAtEnd[p], landed[p])
    BY <1>2, <1>3, <1>4, <2>1, SomethingNewFine
  <2> HIDE DEF k
  <2>4. head'[p] = k /\ \A q \in Paths : q # p => head'[q] = head[q]
    BY <1>1, <2>1 DEF TailTypes
  <2>5. TailTypes'
    BY <1>1, <1>4, <1>7, <2>1, <2>2 DEF TailTypes
  <2>6. d = cut[p]
    <3>1. head[p].size # 0
      BY <1>2, <1>3, <2>1 DEF HeadType
    <3> QED
      BY <1>2, <3>1 DEF d
  <2>7. p \notin crossed' => PathOK(p)'
    BY <1>4, <1>7, <1>9, <2>1, <2>3, <2>4, <2>6 DEF PathOK
  <2>8. PathsOK'
    BY <1>1, <1>4, <1>7, <2>1, <2>4, <2>7, PathsKept
  <2>9. SpawnOK'
    BY <1>1, <1>4, <2>1 DEF SpawnOK, Begun, ParentHas, SameParent
  <2>10. QueueOK'
    BY <1>1, <1>8, <2>1, <2>4 DEF QueueOK
  <2>11. AheadOK'
    <3>1. CASE p = parent
      BY <1>1, <1>4, <2>1, <2>2, <2>4, <3>1 DEF AheadOK, SameParent
    <3>2. CASE p # parent
      BY <1>1, <1>4, <2>1, <2>4, <3>2, TwoPaths DEF AheadOK, SameParent
    <3> QED
      BY <3>1, <3>2
  <2> QED
    BY <2>5, <2>8, <2>9, <2>10, <2>11 DEF TailInv
<1> QED
  BY <1>11, <1>12, <1>13

\* A slice that throws takes its flush with it.
LEMMA ThrownKeeps ==
    ASSUME TailInv, NEW p \in Paths, Thrown(p), head[p].phase = "slicing",
           file' = file, cut' = cut, spawned' = spawned, notices' = notices, timer' = timer,
           offsets' = offsets, cursorAtEnd' = cursorAtEnd, landed' = landed,
           crossed' = crossed
    PROVE  TailInv'
<1>1. TailTypes /\ PathsOK /\ SpawnOK /\ QueueOK /\ AheadOK
  BY DEF TailInv
<1>2. reads[p] # <<>>
  BY <1>1 DEF QueueOK
<1>3. /\ head' = [head EXCEPT ![p] = Idle]
      /\ reads' \in [Paths -> ReadsType] /\ head' \in [Paths -> HeadType] /\ QueueOK'
      /\ (\A i \in 1 .. Len(reads[parent]) : reads[parent][i] # sub) =>
           \A i \in 1 .. Len(reads'[parent]) : reads'[parent][i] # sub
      /\ p = sub => reads'[parent] = reads[parent]
  BY <1>1, <1>2, ReadLeaves
<1>4. head'[p] = Idle /\ \A q \in Paths : q # p => head'[q] = head[q]
  BY <1>1, <1>3 DEF TailTypes
<1>5. TailTypes'
  BY <1>1, <1>3 DEF TailTypes
<1>6. p \notin crossed' => PathOK(p)'
  <2> SUFFICES ASSUME p \notin crossed PROVE PathOK(p)'
    OBVIOUS
  <2>1. Fine(file[p], cut[p], notices[p], head[p], offsets[p], cursorAtEnd[p], landed[p])
    BY <1>1 DEF PathsOK, PathOK
  <2>2. Fine(file[p], cut[p], notices[p], Idle, offsets[p], cursorAtEnd[p], landed[p])
    BY <2>1, IdleFine
  <2> QED
    BY <1>4, <2>2 DEF PathOK
<1>7. PathsOK'
  BY <1>1, <1>4, <1>6, PathsKept
<1>8. reads'[sub] # <<>> => reads[sub] # <<>>
  <2>1. reads' = [reads EXCEPT ![p] = Tail(reads[p])]
    BY DEF Thrown
  <2>2. CASE p = sub
    BY <1>2, <2>2
  <2>3. CASE p # sub
    BY <1>1, <2>1, <2>3, TwoPaths DEF TailTypes
  <2> QED
    BY <2>2, <2>3
<1>9. Begun' => Begun
  BY <1>8 DEF Begun
<1>10. ParentHas => ParentHas'
  BY DEF ParentHas, SameParent
<1>11. SpawnOK'
  <2>1. file'[sub].gen = 0 =>
          /\ notices'[sub] = <<>> /\ ~timer'[sub] /\ ~Begun'
          /\ \A i \in 1 .. Len(reads'[parent]) : reads'[parent][i] # sub
    BY <1>1, <1>3, <1>9 DEF SpawnOK
  <2> QED
    BY <1>1, <1>9, <1>10, <2>1 DEF SpawnOK, SameParent
<1>12. AheadOK'
  <2>1. CASE p = parent
    <3>1. head'[parent].phase = "idle"
      BY <1>4, <2>1, IdleType
    <3> QED
      BY <3>1 DEF AheadOK
  <2>2. CASE p = sub
    <3>1. head'[parent] = head[parent] /\ reads'[parent] = reads[parent]
      BY <1>3, <1>4, <2>2, TwoPaths
    <3> QED
      BY <1>1, <3>1 DEF AheadOK, SameParent
  <2> QED
    BY <2>1, <2>2, TwoPaths
<1> QED
  BY <1>3, <1>5, <1>7, <1>11, <1>12 DEF TailInv

LEMMA SliceSampleKeeps ==
    ASSUME TailInv, NEW p \in Paths, SliceSample(p)
    PROVE  TailInv'
<1>1. TailTypes /\ PathsOK /\ SpawnOK /\ QueueOK /\ AheadOK
  BY DEF TailInv
<1>2. /\ head[p].phase = "slicing" /\ file' = file /\ cut' = cut /\ spawned' = spawned
      /\ notices' = notices /\ timer' = timer /\ offsets' = offsets
      /\ cursorAtEnd' = cursorAtEnd /\ landed' = landed /\ crossed' = crossed
  BY DEF SliceSample, transcripts
<1>3. CASE ~file[p].alive
  <2>1. Thrown(p)
    BY <1>3 DEF SliceSample
  <2> QED
    BY <1>2, <2>1, ThrownKeeps
<1>4. CASE file[p].alive
  <2> DEFINE k == [head[p] EXCEPT !.phase = "sliced", !.gen = file[p].gen, !.size = file[p].len]
  <2>1. head' = [head EXCEPT ![p] = k] /\ reads' = reads
    BY <1>4 DEF SliceSample
  <2>2. file[p] \in FileType /\ head[p] \in HeadType /\ cut[p] \in BOOLEAN /\ offsets[p] \in Nat
    BY <1>1, PathTypes
  <2>3. file[p].gen \in 0 .. MaxGens /\ file[p].len \in Nat
    BY <2>2, FileChanges, TailAssumption DEF FileType
  <2>4. k \in HeadType /\ k.phase = "sliced" /\ k.gen = file[p].gen /\ k.size = file[p].len
    BY <2>2, <2>3 DEF HeadType
  <2>5. Fine(file[p], cut[p], notices[p], head[p], offsets[p], cursorAtEnd[p], landed[p]) =>
          Fine(file[p], cut[p], notices[p], k, offsets[p], cursorAtEnd[p], landed[p])
    BY <1>2, <1>4, <2>2, SliceFine
  <2> HIDE DEF k
  <2>6. head'[p] = k /\ \A q \in Paths : q # p => head'[q] = head[q]
    BY <1>1, <2>1 DEF TailTypes
  <2>7. TailTypes'
    BY <1>1, <1>2, <2>1, <2>4 DEF TailTypes
  <2>8. p \notin crossed' => PathOK(p)'
    BY <1>1, <1>2, <2>5, <2>6 DEF PathsOK, PathOK
  <2>9. PathsOK'
    BY <1>1, <1>2, <2>6, <2>8, PathsKept
  <2>10. SpawnOK'
    BY <1>1, <1>2, <2>1 DEF SpawnOK, Begun, ParentHas, SameParent
  <2>11. QueueOK'
    BY <1>1, <1>2, <2>1, <2>6 DEF QueueOK
  <2>12. AheadOK'
    <3>1. CASE p = parent
      BY <1>1, <1>2, <2>1, <2>4, <2>6, <3>1 DEF AheadOK, SpawnOK, SameParent
    <3>2. CASE p # parent
      BY <1>1, <1>2, <2>1, <2>6, <3>2, TwoPaths DEF AheadOK, SameParent
    <3> QED
      BY <3>1, <3>2
  <2> QED
    BY <2>7, <2>9, <2>10, <2>11, <2>12 DEF TailInv
<1> QED
  BY <1>3, <1>4

LEMMA SliceFailsKeeps ==
    ASSUME TailInv, NEW p \in Paths, SliceFails(p)
    PROVE  TailInv'
<1>1. /\ Thrown(p) /\ head[p].phase = "slicing" /\ file' = file /\ cut' = cut
      /\ spawned' = spawned /\ notices' = notices /\ timer' = timer /\ offsets' = offsets
      /\ cursorAtEnd' = cursorAtEnd /\ landed' = landed /\ crossed' = crossed
  BY DEF SliceFails, transcripts
<1> QED
  BY <1>1, ThrownKeeps

LEMMA FinishKeeps ==
    ASSUME TailInv, NEW p \in Paths, Finish(p)
    PROVE  TailInv'
<1>1. TailTypes /\ PathsOK /\ SpawnOK /\ QueueOK /\ AheadOK
  BY DEF TailInv
<1>2. /\ file[p] \in FileType /\ cut[p] \in BOOLEAN /\ head[p] \in HeadType
      /\ offsets[p] \in Nat /\ cursorAtEnd[p] \in CursorType /\ landed[p] \in LandedType
      /\ notices[p] \in NoticeType
  BY <1>1, PathTypes
<1>3. PICK start \in CursorType : start = IF head[p].from = 0 THEN Fresh ELSE cursorAtEnd[p]
  <2>1. Fresh \in CursorType
    BY DEF Fresh, CursorType
  <2> QED
    BY <1>2, <2>1
<1>4. PICK lines \in Seq(LineType) : lines = Parsed(head[p], start)
  BY <1>2, ParsedFacts
<1> DEFINE nc == IF lines # <<>> THEN [gen |-> head[p].gen, at |-> lines[Len(lines)].line]
                 ELSE IF head[p].from = 0 THEN Fresh ELSE cursorAtEnd[p]
           ld == Behind(landed[p], head[p].gen, lines)
           at == Consumed(head[p])
<1>5. head[p].gen \in 0 .. MaxGens /\ head[p].gen \in Nat
  BY <1>2, TailAssumption DEF HeadType
<1>6. ld \in LandedType
  BY <1>2, <1>5, LandedGrows
<1>7. at \in Nat
  BY <1>2, ConsumedFacts
<1>8. nc \in CursorType
  <2>1. CASE lines # <<>>
    <3>1. Len(lines) \in 1 .. Len(lines)
      BY <2>1, LenProperties, EmptySeq
    <3>2. lines[Len(lines)] \in LineType
      BY <3>1, ElementOfSeq
    <3>3. lines[Len(lines)].line \in Nat
      BY <3>2 DEF LineType
    <3> QED
      BY <1>5, <2>1, <3>3 DEF CursorType
  <2>2. CASE lines = <<>>
    BY <1>3, <2>2
  <2> QED
    BY <2>1, <2>2
<1>9. /\ head[p].phase = "sliced" /\ offsets' = [offsets EXCEPT ![p] = at]
      /\ landed' = [landed EXCEPT ![p] = ld]
      /\ Ended(p) /\ file' = file /\ cut' = cut /\ spawned' = spawned /\ notices' = notices
      /\ timer' = timer /\ crossed' = crossed
  <2>1. lines = Parsed(head[p], IF head[p].from = 0 THEN Fresh ELSE cursorAtEnd[p])
    BY <1>3, <1>4
  <2>2. /\ head[p].phase = "sliced" /\ offsets' = [offsets EXCEPT ![p] = at]
        /\ landed' = [landed EXCEPT ![p][head[p].gen] = @ \o lines]
        /\ Ended(p) /\ UNCHANGED <<transcripts, notices, timer, crossed>>
    BY <2>1 DEF Finish
  <2>3. landed' = [landed EXCEPT ![p] = ld]
    <3>1. PICK k : k = ld
      OBVIOUS
    <3>2. k = [landed[p] EXCEPT ![head[p].gen] = @ \o lines]
      BY <3>1 DEF Behind
    <3>3. landed' = [landed EXCEPT ![p] = k]
      BY <2>2, <3>2
    <3> QED
      BY <3>1, <3>3
  <2> QED
    BY <2>2, <2>3 DEF transcripts
<1>10. cursorAtEnd' = [cursorAtEnd EXCEPT ![p] = nc]
  BY <1>3, <1>4 DEF Finish
<1>11. reads[p] # <<>>
  BY <1>1, <1>9 DEF QueueOK
<1> HIDE DEF nc, ld, at
<1>12. /\ head' = [head EXCEPT ![p] = Idle]
       /\ reads' \in [Paths -> ReadsType] /\ head' \in [Paths -> HeadType]
  BY <1>1, <1>9, <1>11, ReadLeaves
<1>13. /\ head'[p] = Idle /\ offsets'[p] = at /\ cursorAtEnd'[p] = nc /\ landed'[p] = ld
       /\ \A q \in Paths : q # p =>
            /\ head'[q] = head[q] /\ offsets'[q] = offsets[q]
            /\ cursorAtEnd'[q] = cursorAtEnd[q] /\ landed'[q] = landed[q]
  BY <1>1, <1>9, <1>10, <1>12 DEF TailTypes
<1>14. TailTypes'
  BY <1>1, <1>6, <1>7, <1>8, <1>9, <1>10, <1>12 DEF TailTypes
<1>15. p \notin crossed =>
         Fine(file[p], cut[p], notices[p], head[p], offsets[p], cursorAtEnd[p], landed[p])
  BY <1>1 DEF PathsOK, PathOK
<1>16a. p \notin crossed => Fine(file[p], cut[p], notices[p], Idle, at, nc, ld)
  <2> SUFFICES ASSUME p \notin crossed PROVE Fine(file[p], cut[p], notices[p], Idle, at, nc, ld)
    OBVIOUS
  <2>1. lines = Parsed(head[p], IF head[p].from = 0 THEN Fresh ELSE cursorAtEnd[p])
    BY <1>3, <1>4
  <2>2. Fine(file[p], cut[p], notices[p], head[p], offsets[p], cursorAtEnd[p], landed[p])
    BY <1>15
  <2>3. Fine(file[p], cut[p], notices[p], Idle, Consumed(head[p]),
             IF lines # <<>> THEN [gen |-> head[p].gen, at |-> lines[Len(lines)].line]
             ELSE IF head[p].from = 0 THEN Fresh ELSE cursorAtEnd[p],
             Behind(landed[p], head[p].gen, lines))
    BY <1>2, <1>9, <2>1, <2>2, FinishFine
  <2> QED
    BY <2>3 DEF at, nc, ld
<1>16. p \notin crossed' => PathOK(p)'
  BY <1>9, <1>13, <1>16a DEF PathOK
<1>17. PathsOK'
  BY <1>1, <1>9, <1>13, <1>16, PathsKept
<1>18. p = parent /\ SameParent =>
         /\ Len(ld[spawned.gen]) \in Nat /\ Len(landed[p][spawned.gen]) \in Nat
         /\ Len(landed[p][spawned.gen]) <= Len(ld[spawned.gen])
  <2> SUFFICES ASSUME p = parent, SameParent
               PROVE  /\ Len(ld[spawned.gen]) \in Nat /\ Len(landed[p][spawned.gen]) \in Nat
                      /\ Len(landed[p][spawned.gen]) <= Len(ld[spawned.gen])
    OBVIOUS
  <2>1. PICK g \in 1 .. MaxGens : g = spawned.gen
    <3>1. file[p].gen \in Nat /\ file[p].gen <= MaxGens /\ file[p].gen >= 1
      BY <1>2, FileChanges DEF SameParent
    <3>2. file[p].gen = spawned.gen
      BY DEF SameParent
    <3> QED
      BY <3>1, <3>2, TailAssumption
  <2>2. landed[p][g] \in Seq(LineType) /\ ld[g] \in Seq(LineType)
    BY <1>2, <1>6 DEF LandedType
  <2>3. Len(landed[p][g]) \in Nat /\ Len(ld[g]) \in Nat /\ Len(lines) \in Nat
    BY <2>2, LenProperties
  <2>4. CASE g # head[p].gen
    <3>1. ld[g] = landed[p][g]
      BY <1>2, <1>5, <2>4, LandedGrows DEF ld
    <3> QED
      BY <2>1, <2>3, <3>1
  <2>5. CASE g = head[p].gen
    <3>1. Extended(ld, landed[p], g, lines)
      BY <1>2, <1>5, <2>5, LandedGrows DEF ld
    <3>2. Len(ld[g]) = Len(landed[p][g]) + Len(lines)
      BY <3>1 DEF Extended
    <3> QED
      BY <2>1, <2>3, <3>2
  <2> QED
    BY <2>4, <2>5
<1>19. ParentHas => ParentHas'
  <2>1. spawned.at \in Nat
    BY <1>1, SpawnTypes
  <2>2. CASE p = parent
    BY <1>9, <1>13, <1>18, <2>1, <2>2 DEF ParentHas, SameParent
  <2>3. CASE p = sub
    BY <1>9, <1>13, <2>3, TwoPaths DEF ParentHas, SameParent
  <2> QED
    BY <2>2, <2>3, TwoPaths
<1>20. p = parent /\ Head(reads[parent]) = sub /\ Ended(p) => ParentHas'
  <2> SUFFICES ASSUME p = parent, Head(reads[parent]) = sub, SameParent, parent \notin crossed
               PROVE  Len(ld[spawned.gen]) >= spawned.at
    BY <1>9, <1>13 DEF ParentHas, SameParent
  <2>1. head[p].size >= 2 * spawned.at /\ head[p].gen = spawned.gen
    BY <1>1, <1>9 DEF AheadOK
  <2>2. spawned.at \in Nat /\ 2 * spawned.at <= file[p].len
    BY <1>1, SpawnTypes DEF SpawnOK
  <2>3. file[p].alive /\ file[p].gen = spawned.gen
    BY DEF SameParent
  <2>4. head[p].size \in Nat \cup {-1} /\ head[p].from \in Nat
    BY <1>2 DEF HeadType
  <2>5. CASE head[p].size <= head[p].from
    <3>1. head[p].from = offsets[p]
      BY <1>9, <1>15 DEF Fine, HeadOK
    <3>2. Len(landed[p][spawned.gen]) >= spawned.at
      BY <1>2, <1>15, <2>1, <2>2, <2>3, <2>4, <2>5, <3>1, NothingNewHasAll
    <3> QED
      BY <1>18, <2>2, <3>2
  <2>6. CASE head[p].size > head[p].from
    <3>1. Fine(file[p], cut[p], notices[p], Idle, at, nc, ld)
      BY <1>16a
    <3>2. PICK s \in Nat : s = head[p].size \div 2 /\ head[p].size <= 2 * s + 1
      <4>1. PICK z : z = head[p].size
        OBVIOUS
      <4>2. z \in Nat
        BY <2>4, <2>6, <4>1
      <4>3. z \div 2 \in Nat /\ z <= 2 * (z \div 2) + 1
        BY <4>2, Halves
      <4> QED
        BY <4>1, <4>3
    <3>3. at = 2 * s
      BY <2>6, <3>2 DEF at, Consumed
    <3>4. Len(ld[spawned.gen]) \in Nat
      BY <1>18
    <3>5. CASE cut[p]
      <4>1. file[p].len = 0
        BY <3>1, <3>5 DEF Fine, FileOK
      <4> QED
        BY <2>2, <3>4, <4>1
    <3>6. CASE ~cut[p]
      <4>1. at = 2 * Len(ld[spawned.gen])
        BY <2>3, <3>1, <3>6 DEF Fine, OffsetOK, ReadSoFar
      <4> QED
        <5>1. PICK L \in Nat : L = Len(ld[spawned.gen])
          BY <3>4
        <5>2. PICK z : z = head[p].size
          OBVIOUS
        <5>3. 2 * L = 2 * s /\ z >= 2 * spawned.at /\ z <= 2 * s + 1 /\ z \in Nat \cup {-1}
          BY <2>1, <2>4, <3>2, <3>3, <4>1, <5>1, <5>2
        <5>4. L >= spawned.at
          BY <2>2, <5>3
        <5> QED
          BY <5>1, <5>4
    <3> QED
      BY <3>5, <3>6
  <2> QED
    BY <2>4, <2>5, <2>6
<1>21. p # sub => landed'[sub] = landed[sub]
  BY <1>13, TwoPaths
<1>22. SpawnOK' /\ QueueOK' /\ AheadOK'
  BY <1>9, <1>11, <1>19, <1>20, <1>21, ReadOver
<1> QED
  BY <1>14, <1>17, <1>22 DEF TailInv

-------------------------------------------------------------------------------
(* The reader's invariant *)

LEMMA TailInitHolds == TailInit => TailInv
<1> SUFFICES ASSUME TailInit PROVE TailInv
  OBVIOUS
<1>1. /\ file = [p \in Paths |-> [gen |-> 0, len |-> 0, alive |-> FALSE]]
      /\ cut = [p \in Paths |-> FALSE] /\ notices = [p \in Paths |-> <<>>]
      /\ timer = [p \in Paths |-> FALSE] /\ reads = [p \in Paths |-> <<>>]
      /\ head = [p \in Paths |-> Idle] /\ offsets = [p \in Paths |-> 0]
      /\ cursorAtEnd = [p \in Paths |-> Fresh]
      /\ landed = [p \in Paths |-> [g \in 1 .. MaxGens |-> <<>>]]
      /\ spawned = Fresh /\ crossed = {}
  BY DEF TailInit
<1>2. /\ [gen |-> 0, len |-> 0, alive |-> FALSE] \in FileType /\ Idle \in HeadType
      /\ Fresh \in CursorType
  BY IdleType, TailAssumption DEF FileType, Fresh, CursorType
<1>3. /\ <<>> \in NoticeType /\ <<>> \in ReadsType /\ <<>> \in Seq(LineType)
      /\ Len(<<>>) = 0
  BY EmptySeq DEF NoticeType, ReadsType
<1>4. [g \in 1 .. MaxGens |-> <<>>] \in LandedType
  BY <1>3 DEF LandedType
<1>5. TailTypes
  BY <1>1, <1>2, <1>3, <1>4 DEF TailTypes
<1>6. PathsOK
  <2> SUFFICES ASSUME NEW p \in Paths PROVE PathOK(p)
    BY DEF PathsOK
  <2> DEFINE f0 == [gen |-> 0, len |-> 0, alive |-> FALSE]
             l0 == [g \in 1 .. MaxGens |-> <<>>]
  <2>1. /\ file[p] = f0 /\ cut[p] = FALSE /\ notices[p] = <<>> /\ head[p] = Idle
        /\ offsets[p] = 0 /\ cursorAtEnd[p] = Fresh /\ landed[p] = l0
    BY <1>1
  <2>2. ~f0.alive /\ \A g \in 1 .. MaxGens : l0[g] = <<>>
    OBVIOUS
  <2> HIDE DEF f0, l0
  <2>3. ~Pending(<<>>)
    BY <1>3 DEF Pending
  <2>4. FileOK(f0, FALSE, <<>>, l0)
    BY <2>2, <2>3 DEF FileOK
  <2>5. LinesOK(l0)
    BY <1>3, <2>2 DEF LinesOK
  <2>6. OffsetOK(f0, FALSE, <<>>, Idle, 0, Fresh, l0)
    BY <2>2, IdleType DEF OffsetOK
  <2>7. HeadOK(f0, FALSE, Idle, 0, Fresh, l0)
    BY IdleType DEF HeadOK
  <2> QED
    BY <2>1, <2>4, <2>5, <2>6, <2>7 DEF PathOK, Fine
<1>7. /\ reads[sub] = <<>> /\ reads[parent] = <<>> /\ notices[sub] = <<>> /\ ~timer[sub]
      /\ file[parent].gen = 0 /\ ~file[parent].alive
      /\ \A g \in 1 .. MaxGens : landed[sub][g] = <<>>
  BY <1>1, TwoPaths
<1>8. ~Begun
  BY <1>7 DEF Begun
<1>9. spawned.gen = 0
  BY <1>1 DEF Fresh
<1>10. SpawnOK
  BY <1>3, <1>7, <1>8, <1>9 DEF SpawnOK, SameParent
<1>11. QueueOK
  BY <1>1, <1>3, <1>7, IdleType DEF QueueOK
<1>12. AheadOK
  BY <1>7 DEF AheadOK, SameParent
<1> QED
  BY <1>5, <1>6, <1>10, <1>11, <1>12 DEF TailInv

LEMMA TailStutter == ASSUME TailInv, UNCHANGED tailVars PROVE TailInv'
<1>1. TailTypes'
  BY DEF TailInv, TailTypes, tailVars
<1>2. PathsOK'
  BY DEF TailInv, PathsOK, PathOK, tailVars
<1>3. SpawnOK'
  BY DEF TailInv, SpawnOK, Begun, ParentHas, SameParent, tailVars
<1>4. QueueOK' /\ AheadOK'
  BY DEF TailInv, QueueOK, AheadOK, SameParent, tailVars
<1> QED
  BY <1>1, <1>2, <1>3, <1>4 DEF TailInv

\* The reader of transcripts keeps its invariant: offset, cursor and the read
\* under way are of the file as it is, and the parent is read before its subagent.
THEOREM TailInvariant == TailSpec => []TailInv
<1>1. TailInit => TailInv
  BY TailInitHolds
<1>2. TailInv /\ [TailNext]_tailVars => TailInv'
  <2> SUFFICES ASSUME TailInv, [TailNext]_tailVars PROVE TailInv'
    OBVIOUS
  <2>1. CASE UNCHANGED tailVars
    BY <2>1, TailStutter
  <2>2. CASE TailNext
    BY <2>2, GrowKeeps, CreateKeeps, TruncateKeeps, UnlinkKeeps, DeliverKeeps, FireKeeps,
       StatSampleKeeps, StatResumeKeeps, SliceSampleKeeps, FinishKeeps, SliceFailsKeeps
       DEF TailNext
  <2> QED
    BY <2>1, <2>2
<1> QED
  BY <1>1, <1>2, PTL DEF TailSpec

\* Each line of a file's life reaches the engine once, whole, in order, under
\* the attribution of the lines before it, and a subagent's after its parent's.
THEOREM LinesLandOnceHolds == TailSpec => []LinesLandOnce
<1>1. TailInv => LinesLandOnce
  <2> SUFFICES ASSUME TailInv PROVE LinesExactly /\ ParentFirst
    BY DEF LinesLandOnce
  <2>1. TailTypes /\ PathsOK /\ SpawnOK
    BY DEF TailInv
  <2>2. LinesExactly
    <3> SUFFICES ASSUME NEW p \in Paths, p \notin crossed, NEW g \in 1 .. MaxGens,
                        NEW i \in DOMAIN landed[p][g]
                 PROVE  /\ landed[p][g][i].line = i
                        /\ landed[p][g][i].after =
                             IF i = 1 THEN Fresh ELSE [gen |-> g, at |-> i - 1]
      BY DEF LinesExactly
    <3>1. landed[p][g] \in Seq(LineType)
      BY <2>1, PathTypes DEF LandedType
    <3>2. i \in 1 .. Len(landed[p][g])
      BY <3>1, LenProperties
    <3>3. LinesOK(landed[p])
      BY <2>1 DEF PathsOK, PathOK, Fine
    <3> QED
      BY <3>2, <3>3 DEF LinesOK
  <2>3. ParentFirst
    BY <2>1 DEF SpawnOK, Begun, ParentHas, SameParent, ParentFirst
  <2> QED
    BY <2>2, <2>3
<1> QED
  BY <1>1, TailInvariant, PTL

===============================================================================
