----------------------------- MODULE LocalArchive -----------------------------
(***************************************************************************)
(* The Local archive (apps/sidecar/src/local-archive.ts over `archiveStore`*)
(* of fleet-sync-store.ts): this machine's own rows, kept past the life of *)
(* their transcripts.                                                      *)
(*                                                                         *)
(* Its writes are links of one promise chain, which other work runs        *)
(* between, and a fresh engine store is seeded from it in chunks that      *)
(* await the event loop.  Opening the file, `load` and the replays, awaits *)
(* only settled promises and is one step.  Fullness, a token total and     *)
(* its Organization evidence, is one number here (FleetDedup orders it).   *)
(***************************************************************************)
EXTENDS Naturals, Sequences

CONSTANTS
    Keys, Pairs,    \* dedup keys; (projectSlug, sessionId) pairs
    PairOf,         \* the pair of each key's rows
    NoPair,         \* no pair, and the pair of no intent
    MaxTotal,       \* bound on fullness; 0 is no row
    MaxChain,       \* bound on the chain, in the actions that lengthen it
    MaxFaults,      \* bound on disk failures
    MaxHub          \* bound on what the Hub does with this machine's rows

ASSUME LocalArchiveAssumption ==
    /\ PairOf \in [Keys -> Pairs] /\ NoPair \notin Pairs
    /\ {MaxTotal, MaxChain, MaxFaults, MaxHub} \subseteq Nat

VARIABLES
    (* durable *)
    file,           \* local-archive.sqlite
    scripts,        \* the transcripts still on disk
    intent,         \* the fleet's forget intent: its pair, mode and localComplete
    disk, faults,   \* whether the file can be opened and written; failures left
    (* the process *)
    booted,         \* loadAtBoot has settled
    open,           \* `archive` is not null
    stopped,        \* "no", "draining" or "closed"
    chain,          \* the links that have not run
    forgottenPairs, pendingForgets, pendingExcludedForgets,
    call,           \* the forget under way: its pair, mode and how far it is
    (* the engine store it archives from, and one a rebuild seeds *)
    live, own,      \* the row of each key; the local contribution of each key
    excluded,       \* keys an excluded copy holds
    fresh,
    (* the fleet *)
    hub, heard, copy,   \* the Hub's rows: now, as announced here, as replicated
    caughtUp, hubSteps

queueVars == <<pendingForgets, pendingExcludedForgets>>
engineVars == <<live, own, excluded>>
fleetVars == <<hub, heard, copy, caughtUp, hubSteps>>
processVars == <<booted, open, stopped, chain, queueVars, forgottenPairs, call, fresh>>
archiveVars == <<file, scripts, intent, disk, faults, processVars, engineVars, fleetVars>>

Fullness == 0 .. MaxTotal
Nothing == [k \in Keys |-> 0]
NoIntent == [pair |-> NoPair, mode |-> "pair", localComplete |-> FALSE]
NoCall == [pair |-> NoPair, mode |-> "pair", at |-> "none"]
NoFresh == [phase |-> "none", rows |-> Nothing, unread |-> {}, before |-> {},
            excluded |-> {}]
Larger(a, b) == IF a > b THEN a ELSE b
Fuller(f, g) == [k \in Keys |-> Larger(f[k], g[k])]
Without(f, gone) == [k \in Keys |-> IF k \in gone THEN 0 ELSE f[k]]
OfPairs(pairs) == {k \in Keys : PairOf[k] \in pairs}
Link(kind, pair, rows) == [kind |-> kind, pair |-> pair, rows |-> rows]

ArchiveInit ==
    /\ file = Nothing /\ scripts = Nothing /\ intent = NoIntent
    /\ disk = "ok" /\ faults = MaxFaults
    /\ booted = FALSE /\ open = FALSE /\ stopped = "no" /\ chain = <<>>
    /\ forgottenPairs = {} /\ pendingForgets = {} /\ pendingExcludedForgets = {}
    /\ call = NoCall /\ fresh = NoFresh
    /\ live = Nothing /\ own = Nothing /\ excluded = {}
    /\ hub = Nothing /\ heard = Nothing /\ copy = Nothing /\ caughtUp = FALSE
    /\ hubSteps = MaxHub

-------------------------------------------------------------------------------
(* What may be archived *)

Writable == disk = "ok" /\ stopped # "closed"
Forgotten(k) == PairOf[k] \in forgottenPairs
MayArchiveFleet(k, v) == intent = NoIntent /\ caughtUp /\ copy[k] = v
Eligible(k, v, local) == (local[k] > 0 /\ v <= local[k]) \/ MayArchiveFleet(k, v)
Stamped(k, v) == open /\ file[k] >= v

\* Mutant: the bar is not asked again when a batch runs.
WantedUnbarred(rows, local) ==
    [k \in Keys |-> IF ~Eligible(k, rows[k], local) \/ Stamped(k, rows[k]) THEN 0 ELSE rows[k]]

\* The rows of a batch that may be written if it is filtered now.
Wanted(rows, local) ==
    [k \in Keys |-> IF Forgotten(k) \/ ~Eligible(k, rows[k], local) \/ Stamped(k, rows[k])
                    THEN 0 ELSE rows[k]]

\* enqueueAppend behind the filter its callers apply first.
Enqueued(links, rows, local) ==
    IF stopped # "no" \/ Wanted(rows, local) = Nothing THEN links
    ELSE Append(links, Link("append", NoPair, Wanted(rows, local)))

\* The rows a key-scoped forget of these pairs deletes.
ExcludedOf(pairs) == OfPairs(pairs) \cap excluded

\* applyPendingForgets, then applyPendingExcludedForgets.
Replayed(pairs, excludedPairs) ==
    Without(file, OfPairs(pairs) \cup ExcludedOf(excludedPairs))

-------------------------------------------------------------------------------
(* Opening and sweeping *)

\* openAndSeed: load, replay what is queued, then seed the engine with the rest.
Opens(pairs, excludedPairs) ==
    /\ open' = TRUE
    /\ file' = Replayed(pairs, excludedPairs)
    /\ pendingForgets' = {} /\ pendingExcludedForgets' = {}
    /\ LET seed == Without(file', excluded)
       IN  live' = Fuller(live, seed) /\ own' = Fuller(own, seed)
    /\ UNCHANGED excluded

\* loadAtBoot, and a later sweep's retry of a load that failed.
TryOpen ==
    /\ ~open /\ stopped = "no" /\ (~booted \/ Writable)
    /\ booted' = TRUE
    /\ IF Writable THEN Opens(pendingForgets, pendingExcludedForgets)
       ELSE UNCHANGED <<file, open, queueVars, engineVars>>
    /\ UNCHANGED <<scripts, intent, disk, faults, stopped, chain, forgottenPairs,
                   call, fresh, fleetVars>>

SweepOffersOnly ==
    /\ open /\ stopped = "no" /\ Len(chain) < MaxChain
    /\ chain' = Enqueued(chain, live, own)
    /\ UNCHANGED <<file, scripts, intent, disk, faults, booted, open, stopped, queueVars,
                   forgottenPairs, call, fresh, engineVars, fleetVars>>

\* sweep with the archive open: retry the queues first, else offer every row.
Sweep ==
    /\ open /\ stopped = "no" /\ Len(chain) < MaxChain
    /\ chain' = IF pendingForgets = {} /\ pendingExcludedForgets = {}
                THEN Enqueued(chain, live, own)
                ELSE Append(chain, Link("retry", NoPair, Nothing))
    /\ UNCHANGED <<file, scripts, intent, disk, faults, booted, open, stopped, queueVars,
                   forgottenPairs, call, fresh, engineVars, fleetVars>>

-------------------------------------------------------------------------------
(* The links of the chain *)

Run(kind) ==
    /\ chain # <<>> /\ Head(chain).kind = kind
    /\ UNCHANGED <<scripts, disk, faults, booted, open, stopped, forgottenPairs,
                   engineVars, fleetVars>>

\* Mutant: a batch is written as it was filtered when it was queued.
RunAppendAsQueued ==
    /\ Run("append")
    /\ chain' = Tail(chain)
    /\ file' = IF open /\ Writable THEN Fuller(file, Head(chain).rows) ELSE file
    /\ UNCHANGED <<intent, queueVars, call, fresh>>

\* The batch as it is wanted now; one that fails is left to the sweep.
RunAppend ==
    /\ Run("append")
    /\ chain' = Tail(chain)
    /\ file' = IF open /\ Writable THEN Fuller(file, Wanted(Head(chain).rows, own)) ELSE file
    /\ fresh' = IF fresh.phase = "reading"
                THEN [fresh EXCEPT !.unread = @ \cup {k \in Keys : file'[k] # file[k]}]
                ELSE fresh
    /\ UNCHANGED <<intent, queueVars, call>>

\* Both queues again; once they are applied the sweep goes on to its rows.
RunRetry ==
    /\ Run("retry")
    /\ IF Writable
       THEN /\ file' = Replayed(pendingForgets, pendingExcludedForgets)
            /\ pendingForgets' = {} /\ pendingExcludedForgets' = {}
            /\ chain' = Enqueued(Tail(chain), live, own)
       ELSE /\ chain' = Tail(chain)
            /\ UNCHANGED <<file, queueVars>>
    /\ UNCHANGED <<intent, call, fresh>>

\* A forget's delete settles what was queued for its pair.  One that fails is
\* queued and rejects, so the fleet's intent stays as it is.
RunForget ==
    /\ Run("forget")
    /\ chain' = Tail(chain)
    /\ LET p == Head(chain).pair
       IN  IF Writable
           THEN /\ file' = Without(file, OfPairs({p}))
                /\ pendingForgets' = pendingForgets \ {p}
                /\ intent' = [intent EXCEPT !.localComplete = TRUE]
                /\ call' = [call EXCEPT !.at = "deleted"]
           ELSE /\ pendingForgets' = pendingForgets \cup {p}
                /\ call' = NoCall
                /\ UNCHANGED <<file, intent>>
    /\ UNCHANGED <<pendingExcludedForgets, fresh>>

RunForgetExcluded ==
    /\ Run("forgetExcluded")
    /\ chain' = Tail(chain)
    /\ LET p == Head(chain).pair
       IN  IF Writable
           THEN /\ file' = Without(file, ExcludedOf({p}))
                /\ pendingExcludedForgets' = pendingExcludedForgets \ {p}
                /\ intent' = [intent EXCEPT !.localComplete = TRUE]
                /\ call' = [call EXCEPT !.at = "deleted"]
           ELSE /\ pendingExcludedForgets' = pendingExcludedForgets \cup {p}
                /\ call' = NoCall
                /\ UNCHANGED <<file, intent>>
    /\ UNCHANGED <<pendingForgets, fresh>>

-------------------------------------------------------------------------------
(* Forgets: the fleet runs one at a time, behind its durable intent *)

\* The fleet's forget: its intent is written and the Hub deletes the pair's rows.
\* A resume of a pending intent skips the archive half once that is complete.
BeginForget(p, mode) ==
    /\ call = NoCall /\ booted /\ stopped = "no" /\ hubSteps > 0
    /\ intent = NoIntent \/ (intent.pair = p /\ intent.mode = mode)
    /\ intent' = IF intent = NoIntent
                 THEN [pair |-> p, mode |-> mode, localComplete |-> FALSE] ELSE intent
    /\ call' = [pair |-> p, mode |-> mode,
                at |-> IF intent'.localComplete THEN "deleted" ELSE "sent"]
    /\ hub' = Without(hub, OfPairs({p}))
    /\ caughtUp' = FALSE
    /\ hubSteps' = hubSteps - 1
    /\ UNCHANGED <<file, scripts, disk, faults, booted, open, stopped, chain, queueVars,
                   forgottenPairs, fresh, engineVars, heard, copy>>

Local(mode) ==
    /\ call.at = "sent" /\ call.mode = mode /\ Len(chain) < MaxChain
    /\ UNCHANGED <<scripts, disk, faults, booted, stopped, fresh, fleetVars>>

\* The delete joins the chain of an open archive.  After a stop there is none,
\* and the call returns; an archive that cannot be opened rejects it.
LocalOutcome(kind, p) ==
    IF open'
    THEN /\ chain' = Append(chain, Link(kind, p, Nothing))
         /\ call' = [call EXCEPT !.at = "chain"]
         /\ UNCHANGED intent
    ELSE IF stopped # "no"
    THEN /\ intent' = [intent EXCEPT !.localComplete = TRUE]
         /\ call' = [call EXCEPT !.at = "deleted"]
         /\ UNCHANGED chain
    ELSE /\ call' = NoCall
         /\ UNCHANGED <<chain, intent>>

\* forgetSessions: bars the pair before anything else, queues it before an open.
ForgetSessions ==
    LET p == call.pair IN
    /\ Local("pair")
    /\ forgottenPairs' = forgottenPairs \cup {p}
    /\ \/ /\ open
          /\ UNCHANGED <<file, open, queueVars, engineVars>>
       \/ /\ ~open /\ stopped = "no" /\ Writable
          /\ Opens(pendingForgets \cup {p}, pendingExcludedForgets)
       \/ /\ ~open /\ (stopped # "no" \/ ~Writable)
          /\ pendingForgets' = IF stopped = "no" THEN pendingForgets \cup {p}
                               ELSE pendingForgets
          /\ UNCHANGED <<file, open, pendingExcludedForgets, engineVars>>
    /\ LocalOutcome("forget", p)

\* forgetExcludedKeys: the same, and nothing is barred.
ForgetExcludedKeys ==
    LET p == call.pair IN
    /\ Local("excluded")
    /\ \/ /\ open
          /\ UNCHANGED <<file, open, queueVars, engineVars>>
       \/ /\ ~open /\ stopped = "no" /\ Writable
          /\ Opens(pendingForgets, pendingExcludedForgets \cup {p})
       \/ /\ ~open /\ (stopped # "no" \/ ~Writable)
          /\ pendingExcludedForgets' = IF stopped = "no" THEN pendingExcludedForgets \cup {p}
                                       ELSE pendingExcludedForgets
          /\ UNCHANGED <<file, open, pendingForgets, engineVars>>
    /\ LocalOutcome("forgetExcluded", p)
    /\ UNCHANGED forgottenPairs

\* removeMachineSessions on the live store and on one a rebuild seeds.
RemoveFromEngine ==
    /\ call.at = "deleted"
    /\ call' = [call EXCEPT !.at = "removed"]
    /\ IF call.mode = "pair"
       THEN /\ live' = Without(live, OfPairs({call.pair}))
            /\ own' = Without(own, OfPairs({call.pair}))
            /\ fresh' = IF fresh.phase = "seeded"
                        THEN [fresh EXCEPT !.rows = Without(@, OfPairs({call.pair}))]
                        ELSE fresh
       ELSE UNCHANGED <<live, own, fresh>>
    /\ UNCHANGED <<file, scripts, intent, disk, faults, booted, open, stopped, chain,
                   queueVars, forgottenPairs, excluded, fleetVars>>

\* The replica learned the deletion; what it holds again is put back.
FinishForget ==
    /\ call.at = "removed" /\ caughtUp
    /\ live' = [k \in Keys |-> IF PairOf[k] = call.pair /\ k \notin excluded
                               THEN Larger(live[k], copy[k]) ELSE live[k]]
    /\ intent' = NoIntent
    /\ call' = NoCall
    /\ UNCHANGED <<file, scripts, disk, faults, booted, open, stopped, chain, queueVars,
                   forgottenPairs, fresh, own, excluded, fleetVars>>

-------------------------------------------------------------------------------
(* seedInto a fresh store, a chunk at a time, and the swap *)

StartRebuild(out) ==
    /\ booted /\ stopped = "no" /\ fresh.phase = "none" /\ hubSteps > 0
    /\ fresh' = [phase |-> IF open THEN "reading" ELSE "seeded", rows |-> Nothing,
                 unread |-> {k \in Keys : open /\ file[k] > 0}, before |-> forgottenPairs,
                 excluded |-> out]
    /\ hubSteps' = hubSteps - 1
    /\ UNCHANGED <<file, scripts, intent, disk, faults, booted, open, stopped, chain,
                   queueVars, forgottenPairs, call, engineVars, hub, heard, copy, caughtUp>>

ReadChunk ==
    /\ fresh.phase = "reading"
    /\ \E k \in fresh.unread :
         fresh' = [fresh EXCEPT !.unread = @ \ {k},
                                !.rows[k] = IF Forgotten(k) \/ k \in fresh.excluded
                                            THEN @ ELSE Larger(@, file[k])]
    /\ UNCHANGED <<file, scripts, intent, disk, faults, booted, open, stopped, chain,
                   queueVars, forgottenPairs, call, engineVars, fleetVars>>

\* The rows of a pair forgotten since the read began leave the store again.
SeedEnds ==
    /\ fresh.phase = "reading" /\ fresh.unread = {}
    /\ fresh' = [fresh EXCEPT !.phase = "seeded",
                              !.rows = Without(@, OfPairs(forgottenPairs \ fresh.before))]
    /\ UNCHANGED <<file, scripts, intent, disk, faults, booted, open, stopped, chain,
                   queueVars, forgottenPairs, call, engineVars, fleetVars>>

\* rebuildEngine's swap: the walk, the seed, the replica's rows.
SwapStore ==
    /\ fresh.phase = "seeded"
    /\ excluded' = fresh.excluded
    /\ own' = Fuller(Without(scripts, fresh.excluded), fresh.rows)
    /\ live' = Fuller(own', Without(copy, fresh.excluded))
    /\ fresh' = NoFresh
    /\ UNCHANGED <<file, scripts, intent, disk, faults, booted, open, stopped, chain,
                   queueVars, forgottenPairs, call, fleetVars>>

-------------------------------------------------------------------------------
(* The engine, the fleet, the disk, the process *)

\* The walk or the watcher reads a transcript; the change feed offers the row.
LocalWrite(k, v) ==
    /\ booted /\ v > own[k] /\ v > scripts[k] /\ k \notin excluded /\ Len(chain) < MaxChain
    /\ scripts' = [scripts EXCEPT ![k] = v]
    /\ own' = [own EXCEPT ![k] = v]
    /\ live' = [live EXCEPT ![k] = Larger(@, v)]
    /\ chain' = IF v > live[k] THEN Enqueued(chain, [Nothing EXCEPT ![k] = v], own') ELSE chain
    /\ UNCHANGED <<file, intent, disk, faults, booted, open, stopped, queueVars,
                   forgottenPairs, call, fresh, excluded, fleetVars>>

\* Claude Code prunes a transcript.
TranscriptPruned(k) ==
    /\ scripts[k] > 0
    /\ scripts' = [scripts EXCEPT ![k] = 0]
    /\ UNCHANGED <<file, intent, disk, faults, processVars, engineVars, fleetVars>>

\* A row this machine pushed before, a deletion, or a restore.
HubChanges(k, v) ==
    /\ hubSteps > 0 /\ hub[k] # v
    /\ v = 0 \/ PairOf[k] # intent.pair
    /\ hub' = [hub EXCEPT ![k] = v]
    /\ hubSteps' = hubSteps - 1
    /\ UNCHANGED <<file, scripts, intent, disk, faults, processVars, engineVars, heard,
                   copy, caughtUp>>

\* A status frame or a poke names a newer head.
HubHeard ==
    /\ hub # heard
    /\ heard' = hub /\ caughtUp' = FALSE
    /\ UNCHANGED <<file, scripts, intent, disk, faults, processVars, engineVars, hub,
                   copy, hubSteps>>

\* A pull drains to the head and feeds the engine, whose change feed is offered
\* while the pull does not yet count as caught up.
Drain ==
    /\ ~caughtUp /\ booted /\ Len(chain) < MaxChain
    /\ heard' = hub /\ copy' = hub /\ caughtUp' = TRUE
    /\ live' = [k \in Keys |->
                  IF k \in excluded \/ hub[k] = copy[k] THEN live[k]
                  ELSE IF hub[k] = 0 THEN own[k] ELSE Larger(live[k], hub[k])]
    /\ chain' = Enqueued(chain, [k \in Keys |-> IF live'[k] # live[k] THEN live'[k] ELSE 0], own)
    /\ UNCHANGED <<file, scripts, intent, disk, faults, booted, open, stopped, queueVars,
                   forgottenPairs, call, fresh, own, excluded, hub, hubSteps>>

DiskFails ==
    /\ disk = "ok" /\ faults > 0
    /\ disk' = "broken" /\ faults' = faults - 1
    /\ UNCHANGED <<file, scripts, intent, processVars, engineVars, fleetVars>>

DiskHeals ==
    /\ disk = "broken"
    /\ disk' = "ok"
    /\ UNCHANGED <<file, scripts, intent, faults, processVars, engineVars, fleetVars>>

\* stop: no entry point enqueues any more; the chain is drained, the file closed.
Stop ==
    /\ stopped = "no" /\ faults > 0
    /\ stopped' = "draining" /\ faults' = faults - 1
    /\ UNCHANGED <<file, scripts, intent, disk, booted, open, chain, queueVars,
                   forgottenPairs, call, fresh, engineVars, fleetVars>>

StopCloses ==
    /\ stopped = "draining" /\ chain = <<>>
    /\ stopped' = "closed"
    /\ UNCHANGED <<file, scripts, intent, disk, faults, booted, open, chain, queueVars,
                   forgottenPairs, call, fresh, engineVars, fleetVars>>

\* The process ends, stopped or killed, and starts again over what is durable.
Restart(out) ==
    /\ stopped # "no" \/ faults > 0
    /\ faults' = IF stopped = "no" THEN faults - 1 ELSE faults
    /\ booted' = FALSE /\ open' = FALSE /\ stopped' = "no" /\ chain' = <<>>
    /\ forgottenPairs' = {} /\ pendingForgets' = {} /\ pendingExcludedForgets' = {}
    /\ call' = NoCall /\ fresh' = NoFresh
    /\ excluded' = out
    /\ own' = Without(scripts, out)
    /\ live' = Fuller(own', Without(copy, out))
    /\ caughtUp' = FALSE
    /\ UNCHANGED <<file, scripts, intent, disk, hub, heard, copy, hubSteps>>

ArchiveNext ==
    \/ TryOpen \/ Sweep
    \/ RunAppend \/ RunRetry \/ RunForget \/ RunForgetExcluded
    \/ \E p \in Pairs, mode \in {"pair", "excluded"} : BeginForget(p, mode)
    \/ ForgetSessions \/ ForgetExcludedKeys \/ RemoveFromEngine \/ FinishForget
    \/ \E out \in SUBSET Keys : StartRebuild(out) \/ Restart(out)
    \/ ReadChunk \/ SeedEnds \/ SwapStore
    \/ \E k \in Keys, v \in 1 .. MaxTotal : LocalWrite(k, v)
    \/ \E k \in Keys : TranscriptPruned(k)
    \/ \E k \in Keys, v \in Fullness : HubChanges(k, v)
    \/ HubHeard \/ Drain \/ DiskFails \/ DiskHeals \/ Stop \/ StopCloses

ArchiveSpec == ArchiveInit /\ [][ArchiveNext]_archiveVars

\* The chain's promises settle, the interval timer sweeps, a disk is repaired,
\* and a stopped process ends.
ArchiveFairSpec ==
    /\ ArchiveSpec
    /\ WF_archiveVars(RunAppend \/ RunRetry \/ RunForget \/ RunForgetExcluded)
    /\ WF_archiveVars(TryOpen) /\ SF_archiveVars(Sweep)
    /\ WF_archiveVars(DiskHeals) /\ WF_archiveVars(StopCloses)

-------------------------------------------------------------------------------
(* Properties *)

LocalArchiveTypeOK ==
    /\ file \in [Keys -> Fullness] /\ scripts \in [Keys -> Fullness]
    /\ intent \in [pair : Pairs \cup {NoPair}, mode : {"pair", "excluded"},
                   localComplete : BOOLEAN]
    /\ disk \in {"ok", "broken"} /\ faults \in 0 .. MaxFaults
    /\ booted \in BOOLEAN /\ open \in BOOLEAN /\ stopped \in {"no", "draining", "closed"}
    /\ \A i \in DOMAIN chain :
         chain[i] \in [kind : {"append", "retry", "forget", "forgetExcluded"},
                       pair : Pairs \cup {NoPair}, rows : [Keys -> Fullness]]
    /\ forgottenPairs \in SUBSET Pairs /\ pendingForgets \in SUBSET Pairs
    /\ pendingExcludedForgets \in SUBSET Pairs
    /\ call \in [pair : Pairs \cup {NoPair}, mode : {"pair", "excluded"},
                 at : {"none", "sent", "chain", "deleted", "removed"}]
    /\ live \in [Keys -> Fullness] /\ own \in [Keys -> Fullness] /\ excluded \in SUBSET Keys
    /\ fresh \in [phase : {"none", "reading", "seeded"}, rows : [Keys -> Fullness],
                  unread : SUBSET Keys, before : SUBSET Pairs, excluded : SUBSET Keys]
    /\ hub \in [Keys -> Fullness] /\ heard \in [Keys -> Fullness]
    /\ copy \in [Keys -> Fullness] /\ caughtUp \in BOOLEAN /\ hubSteps \in 0 .. MaxHub
\* Once `forgetSessions` has answered, the file holds no row of its pair: a batch
\* filtered before the bar is filtered again when it runs, an open replays the
\* queue before it seeds, and a delete that failed stays queued.
BarredIsGone ==
    \A k \in Keys :
      Forgotten(k) /\ file[k] > 0 =>
        \/ PairOf[k] \in pendingForgets
        \/ call.pair = PairOf[k] /\ call.at = "chain"
        \/ stopped # "no" /\ ~open

\* A store seeded for a rebuild holds nothing of a forget that completed, though
\* the forget came between two chunks of its read, or between read and swap.
SeedHoldsNothingForgotten ==
    fresh.phase = "seeded" =>
      \A k \in Keys : Forgotten(k) /\ intent.pair # PairOf[k] => fresh.rows[k] = 0

\* A forgotten pair stays out of the Local archive and of the store seeded by it.
ForgottenStaysOut == LocalArchiveTypeOK /\ BarredIsGone /\ SeedHoldsNothingForgotten

\* The archive never drops history on its own: a row goes only with its pair's
\* forget, or with a repair of its pair while the live store excludes its key,
\* and a row kept never shrinks.
OnlyAForgetDeletes ==
    [][\A k \in Keys : file'[k] < file[k] =>
         /\ file'[k] = 0
         /\ \/ PairOf[k] \in forgottenPairs'
            \/ /\ k \in excluded
               /\ PairOf[k] \in pendingExcludedForgets \cup {intent.pair}]_archiveVars

\* A row fuller than what this machine's transcripts gave is archived only as the
\* Hub is last known to hold it, and never while its deletion is pending: a row
\* queued before a deletion was heard of is not written after it.
ArchivesOnlyWhatTheHubHolds ==
    [][\A k \in Keys : file'[k] > file[k] =>
         \/ file'[k] <= own[k]
         \/ file'[k] = heard[k] /\ PairOf[k] # intent.pair]_archiveVars

\* The Local archive loses rows to a forget alone, and gains beyond this
\* machine's own only rows the Hub holds.
ArchiveIsTrue == OnlyAForgetDeletes /\ ArchivesOnlyWhatTheHubHolds

\* The sweep is the guarantee: a local row is archived in the end whatever pushes
\* failed, unless it is forgotten or replaced first.
IsArchived(k) == own[k] = live[k] => file[k] >= own[k] \/ Forgotten(k)

\* A delete that failed is applied by a later sweep or open.
Landed(p) == p \notin pendingForgets

===============================================================================
