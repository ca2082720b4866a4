-------------------------------- MODULE ScanGate --------------------------------
(***************************************************************************)
(* The corpus-walk gate (apps/sidecar/src/scan-gate.ts): at most one walk  *)
(* of the transcripts at a time, and a rescan asked for while one is       *)
(* queued joins it, never one that has started.  And what becomes of what  *)
(* a walk read when the coordinator's rebuildEngine (fleet.ts) replaces    *)
(* the engine's store: scanAndPoke (index.ts) walks again when the store   *)
(* was replaced under its walk, and the rebuild replays what was appended  *)
(* to the old store while it walked and seeded the new one.  Disk and      *)
(* stores are versions: a store holds the disk as of the last walk of it.  *)
(***************************************************************************)
EXTENDS Integers, FiniteSets, Sequences

CONSTANTS
    Keys, NULL,         \* rescan coalescing keys, one per app
    MaxWalks, MaxGestures, MaxChanges, MaxSwaps     \* bounds on what happens

ASSUME ScanGateAssumption ==
    /\ IsFiniteSet(Keys) /\ NULL \notin Keys
    /\ {MaxWalks, MaxGestures, MaxChanges, MaxSwaps} \subseteq Nat

VARIABLES
    walks,          \* every walk put on the chain: state, follows, what it read into
    chain,          \* the walk the next one follows; 0 is none
    queued,         \* the walk queued under each key; 0 is none
    gestures,       \* every rescan asked for: its walk, the disk it was asked of
    disk,           \* version of the transcripts
    store, holds,   \* which store is installed, and what it holds of the disk
    rebuild,        \* the rebuild under way: its walk, what that read, what it caught
    outrun          \* walks that ended on a store no more installed

gateVars == <<walks, chain, queued, gestures>>
installVars == <<store, holds, rebuild, outrun>>
vars == <<walks, chain, queued, gestures, disk, store, holds, rebuild, outrun>>

Settled == {"ok", "failed"}
NoRebuild == [pc |-> "none", walk |-> 0, read |-> -1, caught |-> -1]
Larger(a, b) == IF a >= b THEN a ELSE b

Init ==
    /\ walks = <<>> /\ chain = 0 /\ queued = [k \in Keys |-> 0] /\ gestures = <<>>
    /\ disk = 0 /\ store = 0 /\ holds = 0 /\ rebuild = NoRebuild /\ outrun = {}

-------------------------------------------------------------------------------
\* Mutant: a walk that coalesces is not put on the chain.
ChainForgetsKeyed(key, w) == IF key = NULL THEN w ELSE chain
\* The chain moves on to every walk.
ChainAfter(key, w) == w

\* run: a walk is queued behind the chain's last.
Queue(key, building) ==
    /\ Len(walks) < MaxWalks
    /\ walks' = Append(walks, [key |-> key, fresh |-> building, after |-> chain,
                               state |-> "queued", read |-> -1, of |-> -1])
    /\ chain' = ChainAfter(key, Len(walks) + 1)

\* scanAndPoke, after a change of the roots or a recovery of the watcher.
Walk == Queue(NULL, FALSE) /\ UNCHANGED <<queued, gestures, disk, installVars>>

\* rebuildEngine, one at a time: from here it listens to the installed store.
Rebuild ==
    /\ store < MaxSwaps /\ rebuild.pc = "none"
    /\ Queue(NULL, TRUE)
    /\ rebuild' = [NoRebuild EXCEPT !.pc = "walking", !.walk = Len(walks) + 1]
    /\ UNCHANGED <<queued, gestures, disk, store, holds, outrun>>

Asked(w) == gestures' = Append(gestures, [walk |-> w, disk |-> disk])

\* runCoalesced: the walk queued under the key is joined.
Join(key) ==
    /\ Len(gestures) < MaxGestures /\ queued[key] # 0
    /\ Asked(queued[key])
    /\ UNCHANGED <<walks, chain, queued, disk, installVars>>

\* The walk just queued waits under its key.
Slot(key) == [queued EXCEPT ![key] = Len(walks) + 1]

\* runCoalesced with none queued: a walk of its own.
Rescan(key) ==
    /\ Len(gestures) < MaxGestures /\ queued[key] = 0
    /\ Queue(key, FALSE)
    /\ queued' = Slot(key)
    /\ Asked(Len(walks) + 1)
    /\ UNCHANGED <<disk, installVars>>

\* Mutant: a walk is let go of when it ends.
SlotKept(w) == queued
\* The slot is released as the walk starts, if it is still this walk's.
SlotReleased(w) == [k \in Keys |-> IF queued[k] = w THEN 0 ELSE queued[k]]

\* Mutant: a walk runs after a predecessor that succeeded.
RunsAfterSuccess(w) == walks[w].after # 0 => walks[walks[w].after].state = "ok"
\* then(walk, walk): however the predecessor settled.
RunsAfter(w) == walks[w].after # 0 => walks[walks[w].after].state \in Settled

\* A walk starts: from here it reads the disk as it is, or as it becomes, into
\* the installed store; a rebuild's, into the one it builds.
Start(w) ==
    /\ walks[w].state = "queued" /\ RunsAfter(w)
    /\ walks' = [walks EXCEPT ![w].state = "running", ![w].read = disk,
                              ![w].of = IF walks[w].fresh THEN store + 1 ELSE store]
    /\ queued' = SlotReleased(w)
    /\ UNCHANGED <<chain, gestures, disk, installVars>>

\* scanAndPoke's loop: the store it walked is no longer the installed one.
WalksAgain(w) == walks[w].key = NULL /\ ~walks[w].fresh /\ walks[w].of # store

Again(w) ==
    /\ walks[w].state = "running" /\ WalksAgain(w)
    /\ walks' = [walks EXCEPT ![w].read = disk, ![w].of = store]
    /\ UNCHANGED <<chain, queued, gestures, disk, installVars>>

\* onLocalAppend: a rebuild hears what is appended to the store it will replace.
Caught(read) ==
    IF rebuild.pc = "none" THEN rebuild ELSE [rebuild EXCEPT !.caught = Larger(@, read)]

\* What a walk of the installed store, or of one replaced meanwhile, read is
\* appended there.
Lands(w) ==
    \/ /\ walks[w].of = store
       /\ holds' = Larger(holds, walks[w].read) /\ rebuild' = Caught(walks[w].read)
       /\ UNCHANGED outrun
    \/ /\ walks[w].of # store
       /\ outrun' = outrun \cup {w}
       /\ UNCHANGED <<holds, rebuild>>

\* A walk ends, and what was chained on it may start.
End(w) ==
    /\ walks[w].state = "running" /\ ~walks[w].fresh /\ ~WalksAgain(w)
    /\ walks' = [walks EXCEPT ![w].state = "ok"]
    /\ Lands(w)
    /\ UNCHANGED <<chain, queued, gestures, disk, store>>

\* A rebuild's walk ends: the archive and the replica are read next.
FreshEnd(w) ==
    /\ walks[w].state = "running" /\ walks[w].fresh
    /\ walks' = [walks EXCEPT ![w].state = "ok"]
    /\ rebuild' = [rebuild EXCEPT !.pc = "seeding", !.read = walks[w].read]
    /\ UNCHANGED <<chain, queued, gestures, disk, store, holds, outrun>>

\* A walk throws, and the rebuild it is of goes no further.
Fail(w) ==
    /\ walks[w].state = "running"
    /\ walks' = [walks EXCEPT ![w].state = "failed"]
    /\ rebuild' = IF walks[w].fresh THEN NoRebuild ELSE rebuild
    /\ UNCHANGED <<chain, queued, gestures, disk, store, holds, outrun>>

\* Mutant: what was appended to the old store meanwhile is not replayed.
SeededAlone == rebuild.read
\* replay: what the rebuild walked, and what it caught until the swap.
TakenAlong == Larger(rebuild.read, rebuild.caught)

\* swapStore, once archive and replica are read.
Swap ==
    /\ rebuild.pc = "seeding"
    /\ store' = store + 1 /\ holds' = TakenAlong /\ rebuild' = NoRebuild
    /\ UNCHANGED <<gateVars, disk, outrun>>

\* Reading them throws: the store in use stays, and nobody listens to it more.
SeedFails ==
    /\ rebuild.pc = "seeding" /\ rebuild' = NoRebuild
    /\ UNCHANGED <<gateVars, disk, store, holds, outrun>>

\* A transcript is written.
Change ==
    /\ disk < MaxChanges /\ disk' = disk + 1
    /\ UNCHANGED <<gateVars, installVars>>

-------------------------------------------------------------------------------
Next ==
    \/ Walk
    \/ Rebuild
    \/ \E key \in Keys : Join(key)
    \/ \E key \in Keys : Rescan(key)
    \/ \E w \in DOMAIN walks : Start(w)
    \/ \E w \in DOMAIN walks : Again(w)
    \/ \E w \in DOMAIN walks : End(w)
    \/ \E w \in DOMAIN walks : FreshEnd(w)
    \/ \E w \in DOMAIN walks : Fail(w)
    \/ Swap
    \/ SeedFails
    \/ Change

Spec == Init /\ [][Next]_vars

\* Every walk settles: a hung one is not contained, and says so.
FairSpec ==
    /\ Spec
    /\ WF_vars(\E w \in DOMAIN walks : Start(w))
    /\ WF_vars(\E w \in DOMAIN walks : Again(w) \/ End(w) \/ FreshEnd(w) \/ Fail(w))

-------------------------------------------------------------------------------
ScanGateTypeOK ==
    /\ chain \in 0 .. Len(walks)
    /\ \A w \in DOMAIN walks : walks[w].after \in 0 .. w - 1
    /\ \A k \in Keys : queued[k] # 0 =>
         queued[k] \in DOMAIN walks /\ walks[queued[k]].key = k

\* At most one walk in this process.
OneAtATime == Cardinality({w \in DOMAIN walks : walks[w].state = "running"}) <= 1

\* A rescan's answer is of a disk no older than the gesture that asked for it.
AnswerIsNotOlder ==
    \A g \in DOMAIN gestures :
        LET w == walks[gestures[g].walk] IN w.state = "ok" => w.read >= gestures[g].disk

\* Waiting rescans cost one walk a key beyond the one running.
OneWaitsPerKey ==
    \A k \in Keys : Cardinality({w \in DOMAIN walks : walks[w].key = k
                                                      /\ walks[w].state = "queued"}) <= 1

\* What a walk read once, the installed store holds for good: a rebuild that
\* replaces the store under the walk or after it takes along what it read.  A
\* rescan whose store was replaced before it ended is the one exception.
ReadingsStay ==
    \A w \in DOMAIN walks :
        /\ walks[w].state = "ok" /\ ~walks[w].fresh
        /\ walks[w].key = NULL \/ w \notin outrun
        => holds >= walks[w].read

\* index.ts, of a rescan: "the store gains missed events but never shrinks."
RescansStay ==
    \A w \in DOMAIN walks :
        walks[w].state = "ok" /\ walks[w].key \in Keys => holds >= walks[w].read

\* No walk waits forever, whichever failed before it.
AllSettled == \A w \in DOMAIN walks : walks[w].state \in Settled
EveryWalkSettles == <>[]AllSettled

================================================================================
