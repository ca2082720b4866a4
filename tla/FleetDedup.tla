------------------------------ MODULE FleetDedup ------------------------------
(***************************************************************************)
(* The one merge rule of the fleet (packages/shared/src/fleet-dedup.ts):   *)
(* every store keeps one copy per dedup key, the fullest it was offered.   *)
(* The Hub, the Local archive, the engine and the push loop's stamp all    *)
(* read this one order.                                                    *)
(*                                                                         *)
(* A copy is abstracted to what the rule tells apart: its token total and  *)
(* its Organization evidence.  A tag is a positive number, in the          *)
(* lexicographic order of the uuids it stands for; NoTag is `undefined`.   *)
(***************************************************************************)
EXTENDS Naturals

CONSTANTS
    Totals,     \* the token totals a copy may have
    Tags,       \* the Organization uuids, as positive numbers in their order
    Sessions    \* the (projectSlug, sessionId) pairs a copy may belong to

ASSUME DedupAssumption == Totals \subseteq Nat /\ Tags \subseteq Nat \ {0}

NoTag == 0

\* One copy of a dedup key, as a client contributes it (StoredEventWire).
Copies == [total : Totals, tag : Tags \cup {NoTag}, session : Sessions]

\* Mutant: two different tags tie.
TagExceedsNone(aTag, bTag) == aTag # NoTag /\ bTag = NoTag

\* A tag against none, or the smaller of two tags.
TagExceeds(aTag, bTag) == aTag # NoTag /\ (bTag = NoTag \/ aTag < bTag)

\* A copy of (aTotal, aTag) is strictly fuller than one of (bTotal, bTag).
PartsExceed(aTotal, aTag, bTotal, bTag) ==
    \/ aTotal > bTotal
    \/ aTotal = bTotal /\ TagExceeds(aTag, bTag)

\* `candidate` replaces `incumbent`; a tie keeps the incumbent.
Supersedes(candidate, incumbent) ==
    PartsExceed(candidate.total, candidate.tag, incumbent.total, incumbent.tag)

\* The two copies rank alike: neither replaces the other.
SameFullness(a, b) == a.total = b.total /\ a.tag = b.tag

\* `held` is at least as full as `copy`, so offering `copy` changes nothing.
AtLeast(held, copy) == ~Supersedes(copy, held)
===============================================================================
