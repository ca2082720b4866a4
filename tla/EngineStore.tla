------------------------------ MODULE EngineStore ------------------------------
(***************************************************************************)
(* The event engine's store (apps/sidecar/src/engine/store.ts): the copies *)
(* of a dedup key compete, whatever their Organization and whoever feeds   *)
(* them (the transcripts' walk, the Local archive, the fleet replica), and *)
(* the tracked set admits or refuses the winner whole.                     *)
(*                                                                         *)
(* Foreign holds the Organizations outside the tracked set; an own copy    *)
(* with no tag in a Dormant session is refused before it competes.  Every  *)
(* batch is one record: records of a batch meet only through the owner     *)
(* points, which a parent's records teach and a subagent's read.           *)
(***************************************************************************)
EXTENDS FleetDedup, Sequences, FiniteSets

CONSTANTS
    Keys,           \* dedup keys
    Pairs,          \* the (projectSlug, sessionId) pairs that records belong to
    Foreign,        \* the tags outside the tracked set
    Dormant,        \* the pairs asserted to an Organization outside it
    Times,          \* when a record says it was written
    Self, Other,    \* this machine and another one
    None,           \* no copy, no holder
    MaxSteps        \* bound on the operations of one behaviour

VARIABLES
    events, contributions,      \* per key: the copy counted, the own copy to push
    excludedHolders,            \* per key: fullness of the excluded copy that holds it
    foreignSessions, walkedPairs, dormantPairsSeen,
    ownerPoints,                \* per session: when which Organization owned it
    told,                       \* sessions the evidence listener was told of
    offered, own,               \* auxiliary: the copies that competed, since the key was
                                \* last deleted; the own ones, since the process began
    dropped,                    \* auxiliary: pairs forgotten and not read again since
    steps

vars == <<events, contributions, excludedHolders, foreignSessions, walkedPairs,
          dormantPairsSeen, ownerPoints, told, offered, own, dropped, steps>>

\* A copy as the store keeps it, and what an excluded one leaves of itself.
Stored == [total : Totals, tag : Tags \cup {NoTag}, session : Pairs, machine : {Self, Other}]
Holders == [total : Totals, tag : Foreign]

ASSUME EngineAssumption ==
    /\ Foreign \subseteq Tags /\ Times \subseteq Nat
    /\ None \notin Stored \cup Holders
NoWinner == [k \in Keys |-> None]
Offers == [k \in Keys |-> {}]

Init ==
    /\ events = NoWinner /\ contributions = NoWinner /\ excludedHolders = NoWinner
    /\ foreignSessions = {} /\ walkedPairs = {} /\ dormantPairsSeen = {} /\ told = {}
    /\ ownerPoints = [s \in Pairs |-> <<>>]
    /\ offered = Offers /\ own = Offers /\ dropped = {} /\ steps = 0

OutsideTrackedSet(tag) == tag \in Foreign
DormantRow(c) == c.machine = Self /\ c.tag = NoTag /\ c.session \in Dormant

\* Mutant: a copy that ties with an excluded one takes the key back.
BeatsExcludedHolderTied(k, c) ==
    excludedHolders[k] = None \/ c.total >= excludedHolders[k].total
\* No excluded copy holds the key, or this one supersedes it.
BeatsExcludedHolder(k, c) == excludedHolders[k] = None \/ Supersedes(c, excludedHolders[k])

\* offerExcluded: an excluded copy takes the key from nobody or a lesser copy.
ExcludedWins(k, c) ==
    excludedHolders[k] = None /\ (events[k] = None \/ Supersedes(c, events[k]))

Evict(k) ==
    /\ events' = [events EXCEPT ![k] = None]
    /\ contributions' = [contributions EXCEPT ![k] = None]

\* offerExcluded: the copy becomes the holder, replaces it in place, or loses.
OfferExcluded(k, c) ==
    /\ excludedHolders' =
           [excludedHolders EXCEPT ![k] =
               IF ExcludedWins(k, c) \/ (@ # None /\ Supersedes(c, @))
               THEN [total |-> c.total, tag |-> c.tag] ELSE @]
    /\ IF ExcludedWins(k, c) THEN Evict(k) ELSE UNCHANGED <<events, contributions>>

\* Mutant: only the pair that was read is listed, not the one that lost the key.
EvictedPairNone(k, c, reader) == {}
\* The walked pair whose admitted copy an excluded one takes the key from; the
\* reading session itself is listed anyway.
EvictedPair(k, c, reader) ==
    IF ExcludedWins(k, c) /\ events[k] # None /\ events[k].machine = Self
       /\ events[k].session \in walkedPairs \ reader
    THEN {events[k].session} ELSE {}

\* upsert: the contribution first, of a local copy, then the event.
Upsert(k, c, local) ==
    /\ contributions' =
           [contributions EXCEPT ![k] =
               IF local /\ (@ = None \/ Supersedes(c, @)) THEN c ELSE @]
    /\ events' = [events EXCEPT ![k] = IF @ = None \/ Supersedes(c, @) THEN c ELSE @]

\* Admit: a copy that takes the key, from the holder it beat if there was one.
Admit(k, c, local) ==
    /\ excludedHolders' = [excludedHolders EXCEPT ![k] = None]
    /\ Upsert(k, c, local)

Competed(k, c, excluded, from) ==
    /\ offered' = [offered EXCEPT ![k] = @ \cup {[copy |-> c, ex |-> excluded]}]
    /\ own' = IF from = "replica" THEN own
              ELSE [own EXCEPT ![k] = @ \cup {[copy |-> c, ex |-> excluded, from |-> from]}]

-------------------------------------------------------------------------------
(* The feeders *)

\* The owner in effect at `ms`: the last point at or before it, or the first.
ResolveOwner(s, ms) ==
    LET points == ownerPoints[s]
        before == {i \in DOMAIN points : points[i].ms <= ms}
    IN  IF points = <<>> THEN NoTag
        ELSE IF before = {} THEN points[1].tag
             ELSE points[CHOOSE i \in before : \A j \in before : j <= i].tag

\* addOwnerPoint: a sorted insert, after the points of its own instant.
AddOwnerPoint(s, ms, tag) ==
    LET points == ownerPoints[s]
        before == Cardinality({i \in DOMAIN points : points[i].ms <= ms})
        point == [ms |-> ms, tag |-> tag]
    IN  IF before > 0 /\ points[before] = point THEN UNCHANGED ownerPoints
        ELSE ownerPoints' = [ownerPoints EXCEPT ![s] =
                 SubSeq(@, 1, before) \o <<point>> \o SubSeq(@, before + 1, Len(@))]

\* A line of a transcript, parent or subagent, as the walk and the watcher read it.
Append1(k, s, total, tag, ms, isSubagent) ==
    LET resolved == IF isSubagent THEN ResolveOwner(s, ms) ELSE tag
        c == [total |-> total, tag |-> resolved, session |-> s, machine |-> Self]
    IN  /\ walkedPairs' = walkedPairs \cup {s}
        /\ IF tag # NoTag /\ ~isSubagent THEN AddOwnerPoint(s, ms, tag)
           ELSE UNCHANGED ownerPoints
        /\ IF OutsideTrackedSet(resolved)
           THEN LET evicted == EvictedPair(k, c, {s})
                IN  /\ OfferExcluded(k, c) /\ Competed(k, c, TRUE, "walk")
                    /\ foreignSessions' = foreignSessions \cup {s} \cup evicted
                    /\ told' = IF ExcludedWins(k, c) \/ s \notin foreignSessions
                               THEN told \cup {s} \cup evicted ELSE told
                    /\ UNCHANGED dormantPairsSeen
           ELSE IF DormantRow(c)
           THEN /\ dormantPairsSeen' = dormantPairsSeen \cup {s}
                /\ UNCHANGED <<events, contributions, excludedHolders, foreignSessions, told,
                               offered, own>>
           ELSE /\ Competed(k, c, FALSE, "walk")
                /\ UNCHANGED dormantPairsSeen
                /\ IF BeatsExcludedHolder(k, c)
                   THEN Admit(k, c, TRUE) /\ UNCHANGED <<foreignSessions, told>>
                   ELSE /\ foreignSessions' = foreignSessions \cup {s}
                        /\ told' = IF s \in foreignSessions THEN told ELSE told \cup {s}
                        /\ UNCHANGED <<events, contributions, excludedHolders>>
        /\ dropped' = dropped \ {s}

\* A row of the Local archive or of the replica.
AppendFleet(k, c, from) ==
    LET archive == from = "archive" IN
    /\ (archive => c.machine = Self) /\ UNCHANGED <<ownerPoints, walkedPairs>>
    /\ IF archive /\ OutsideTrackedSet(c.tag)
       THEN LET evicted == EvictedPair(k, c, foreignSessions)
            IN  /\ OfferExcluded(k, c) /\ Competed(k, c, TRUE, "archive")
                /\ foreignSessions' = foreignSessions \cup evicted
                /\ told' = told \cup evicted
                /\ UNCHANGED dormantPairsSeen
       ELSE IF ~BeatsExcludedHolder(k, c)
       THEN /\ Competed(k, c, FALSE, from)
            /\ UNCHANGED <<events, contributions, excludedHolders, foreignSessions,
                           dormantPairsSeen, told>>
       ELSE IF DormantRow(c)
       THEN /\ dormantPairsSeen' =
                  IF archive THEN dormantPairsSeen \cup {c.session} ELSE dormantPairsSeen
            /\ UNCHANGED <<events, contributions, excludedHolders, foreignSessions, told,
                           offered, own>>
       ELSE /\ Admit(k, c, archive) /\ Competed(k, c, FALSE, from)
            /\ UNCHANGED <<foreignSessions, dormantPairsSeen, told>>
    /\ dropped' = dropped \ (IF c.machine = Self THEN {c.session} ELSE {})

-------------------------------------------------------------------------------
(* Removals *)

ContributionsWithout(keys) == [k \in Keys |-> IF k \in keys THEN None ELSE contributions[k]]

\* A Forget of this machine's session: its events go, and what each had to push.
RemoveMachineSessions(s) ==
    LET gone == {k \in Keys : events[k] # None /\ events[k].machine = Self
                              /\ events[k].session = s}
    IN  /\ events' = [k \in Keys |-> IF k \in gone THEN None ELSE events[k]]
        /\ contributions' = ContributionsWithout(gone)
        /\ offered' = [k \in Keys |-> IF k \in gone THEN {} ELSE offered[k]]
        /\ own' = [k \in Keys |-> {o \in own[k] : o.copy.session # s}]
        /\ dropped' = dropped \cup {s}
        /\ UNCHANGED <<excludedHolders, foreignSessions, walkedPairs, dormantPairsSeen,
                       ownerPoints, told>>

\* The Hub deleted the key: what this machine would push of it counts again.
RemoveFleetKeys(k) ==
    /\ events' = [events EXCEPT ![k] = contributions[k]]
    /\ offered' =
           [offered EXCEPT ![k] =
               IF contributions[k] # None THEN {[copy |-> contributions[k], ex |-> FALSE]}
               ELSE IF excludedHolders[k] # None THEN {o \in @ : o.ex} ELSE {}]
    /\ UNCHANGED <<contributions, excludedHolders, foreignSessions, walkedPairs,
                   dormantPairsSeen, ownerPoints, told, own, dropped>>

\* What a fresh walk over what survives on disk may contribute of a key: an own
\* copy, or none where an excluded one wins it.
FreshContribution(k) == {None} \cup {o.copy : o \in {p \in own[k] : ~p.ex}}

\* prepareContributions: they replace this store's, withheld as any copy is, and
\* are counted at once.
PrepareContributions(fresh) ==
    LET taken == {k \in Keys : fresh[k] # None /\ BeatsExcludedHolder(k, fresh[k])
                               /\ ~DormantRow(fresh[k])}
    IN  /\ contributions' = [k \in Keys |-> IF k \in taken THEN fresh[k] ELSE None]
        /\ events' = [k \in Keys |->
                         IF k \in taken /\ (events[k] = None \/ Supersedes(fresh[k], events[k]))
                         THEN fresh[k] ELSE events[k]]
        /\ excludedHolders' = [k \in Keys |-> IF k \in taken THEN None ELSE excludedHolders[k]]
        /\ offered' = [k \in Keys |-> IF k \in taken
                                       THEN offered[k] \cup {[copy |-> fresh[k], ex |-> FALSE]}
                                       ELSE offered[k]]
    /\ UNCHANGED <<foreignSessions, walkedPairs, dormantPairsSeen, ownerPoints, told, own,
                   dropped>>

-------------------------------------------------------------------------------
Next ==
    /\ steps < MaxSteps /\ steps' = steps + 1
    /\ \/ \E k \in Keys, s \in Pairs, total \in Totals, tag \in Tags \cup {NoTag},
             ms \in Times, isSubagent \in BOOLEAN :
             Append1(k, s, total, tag, ms, isSubagent)
       \/ \E k \in Keys, c \in Stored, from \in {"archive", "replica"} :
             AppendFleet(k, c, from)
       \/ \E s \in Pairs : RemoveMachineSessions(s)
       \/ \E k \in Keys : RemoveFleetKeys(k)
       \/ \E fresh \in {f \in [Keys -> {None} \cup Stored] :
                            \A k \in Keys : f[k] \in FreshContribution(k)} :
             PrepareContributions(fresh)

Spec == Init /\ [][Next]_vars

-------------------------------------------------------------------------------
EngineStoreTypeOK ==
    /\ {events, contributions} \subseteq [Keys -> {None} \cup Stored]
    /\ excludedHolders \in [Keys -> {None} \cup Holders]
    /\ foreignSessions \cup walkedPairs \cup dormantPairsSeen \cup told \subseteq Pairs
    /\ \A s \in Pairs : \A i \in 1 .. Len(ownerPoints[s]) - 1 :
           ownerPoints[s][i].ms <= ownerPoints[s][i + 1].ms

\* A key's verdict is that of the fullest copy offered, of any feeder, whatever
\* the order: excluded when it is, counted when it is not (offerExcluded,
\* beatsExcludedHolder).  Of an excluded and an admitted copy that rank alike,
\* as a row of the replica may, either.
VerdictIsOfFullest ==
    \A k \in Keys :
        LET best == {o \in offered[k] : \A p \in offered[k] : AtLeast(o.copy, p.copy)}
            Ranks(winner, excluded) ==
                \E o \in best : o.ex = excluded /\ SameFullness(o.copy, winner)
        IN  /\ offered[k] # {} => (events[k] = None) = (excludedHolders[k] # None)
            /\ events[k] # None => Ranks(events[k], FALSE)
            /\ excludedHolders[k] # None => Ranks(excludedHolders[k], TRUE)

\* What this machine would push of a key is counted, at least as full: no push
\* carries a row the reports do not, and none of an excluded key or a dormant
\* session, through evictions, deletions and the fence's replacement.
ContributionIsCounted ==
    \A k \in Keys : contributions[k] # None =>
        /\ events[k] # None /\ AtLeast(events[k], contributions[k])
        /\ excludedHolders[k] = None
        /\ ~DormantRow(contributions[k]) /\ ~OutsideTrackedSet(contributions[k].tag)

\* A copy is counted as its fullest says: a key the fullest of the copies that
\* competed excludes is not counted, one an admitted copy wins is.
CountsTheFullest == EngineStoreTypeOK /\ VerdictIsOfFullest /\ ContributionIsCounted

\* When an excluded copy takes a key, the walked pair whose own copy it takes it
\* from, which may be archived and pushed, is listed for the repair, and the
\* repair is told (the #370 eviction).
EvictedIsOwed ==
    [][\A k \in Keys :
          excludedHolders[k] = None /\ excludedHolders'[k] # None
          /\ events[k] # None /\ events[k].machine = Self /\ events[k].session \in walkedPairs
          => /\ events[k].session \in foreignSessions'
             /\ events[k].session \in told' \/ events[k].session \in foreignSessions]_vars

\* What the walk says of its order: every walked pair that holds a copy of an
\* excluded key is on the repair's list.
ListIgnoresWalkOrder ==
    \A k \in Keys : excludedHolders[k] # None =>
        {o.copy.session : o \in {p \in own[k] : p.from = "walk"}} \subseteq foreignSessions

\* What excludedHolders' comment says: the key's winner depends neither on the
\* tracked set nor on the order, a deletion of another machine's copy included.
CountedIsOwnFullest ==
    \A k \in Keys : contributions[k] # None /\ events[k] = contributions[k] =>
        ~\E o \in own[k] : o.ex /\ Supersedes(o.copy, events[k])

\* What Forget's caller says of it: the pair's own rows are out of the engine
\* until something reads them again.
ForgetTakesRowsOut ==
    \A k \in Keys : events[k] # None =>
        ~(events[k].machine = Self /\ events[k].session \in dropped)
===============================================================================
