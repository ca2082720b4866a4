------------------------------ MODULE EventSync ------------------------------
(***************************************************************************)
(* The fleet event sync of the clients: one pump per client pulls the      *)
(* Hub's committed history into its replica and its engine, then pushes    *)
(* its own contributions (packages/usage-core/src/event-sync.ts), over the *)
(* replica store (`replicaStore` of fleet-sync-store.ts) and the recovery  *)
(* of apps/sidecar/src/fleet.ts, composed with the Hub of HubArchive.      *)
(*                                                                         *)
(* A client runs on one JavaScript thread: an action is what runs between  *)
(* two awaits.  The awaits that matter are the states of `pc`:             *)
(*   snapshot, changes, status, push   a request is out                    *)
(*   feed                              a committed page reaches the engine *)
(*   prepare                           the sources are being walked again  *)
(* Aborting a request makes its await throw before any other event runs,   *)
(* so an abort and the end of the pass it throws through are one step.     *)
(* `generation` and `resetGeneration` are compared only with the values a  *)
(* pass captured at its start, so they are the flags `stale` and `reset`.  *)
(***************************************************************************)
EXTENDS HubArchive, Integers

CONSTANTS
    Clients,        \* the machines modelled in full; the others are peers
    Replicating,    \* the clients that hold a replica; the others only share
    Produces,       \* the copies each machine's transcripts come to hold
    PullLimit,      \* rows of a snapshot page
    ChangeLimit,    \* changes of a page
    BatchMax,       \* rows of a push
    RebuildMayFail, \* a recovery may meet an I/O error
    NoConn,         \* not connected
    NoCopy,         \* a key with no copy
    NoReply         \* no answer has arrived

ASSUME SyncAssumption ==
    /\ Replicating \subseteq Clients /\ Clients \subseteq Machines
    /\ Sessions # {}
    /\ NoConn \notin [epoch : Nat, seq : Nat, generation : Nat, frame : Nat, live : BOOLEAN]
    /\ NoCopy \notin [epoch : Nat, at : Nat, content : [rows : Corpus, generation : Nat]]
    /\ Produces \in [Clients -> SUBSET (Keys \X Copies)]
    /\ RebuildMayFail \in BOOLEAN
    /\ PullLimit \in Nat \ {0} /\ ChangeLimit \in Nat \ {0} /\ BatchMax \in Nat \ {0}

VARIABLES
    sync,           \* the state of each client's createEventSync closure
    reply,          \* the answer of a client's outstanding request
    replica,        \* the SQLite file of each replica
    engine,         \* what the replica's feed gave the client's engine (RAM)
    local,          \* the engine's own contributions (RAM)
    disk,           \* what the transcripts and the Local archive back
    recovery,       \* the reconcile chain's pending resync
    strays          \* pushes their sender gave up on, which may still arrive

clientVars == <<sync, reply, replica, engine, local, disk, recovery, strays>>
vars == <<hubVars, clientVars>>

-------------------------------------------------------------------------------
(* State *)

NoSource == [epoch |-> 0, generation |-> -1]
Holdings == [Keys -> Copies \cup {NoCopy}]
NoCopies == [k \in Keys |-> NoCopy]
Held(holdings) == {k \in Keys : holdings[k] # NoCopy}

Requests == {"snapshot", "changes", "status", "push"}

NewSync ==
    [conn |-> NoConn,       \* ctx.events: [epoch, seq, generation, frame, live]
     suspended |-> FALSE, degraded |-> FALSE, malformed |-> FALSE, share |-> TRUE,
     pending |-> FALSE, seeding |-> FALSE, caughtUp |-> 0,
     source |-> NoSource,   \* sourceEpoch, sourceGeneration
     acked |-> NoCopies, full |-> TRUE, dirty |-> {},
     \* locals of the running pass
     pc |-> "idle", stale |-> FALSE, reset |-> FALSE,
     through |-> {},        \* the captured boundary, once there is one
     feed |-> None,         \* the page's applied changes still to be fed
     fence |-> NoSource, wholly |-> FALSE, todo |-> None, sent |-> None,
     scan |-> NoCopies,     \* what the walk in progress reads
     \* auxiliary: the Hub's fence when that walk, and the last one done, began
     scanAt |-> NoSource, walked |-> NoSource]

NewReplica ==
    [epoch |-> 0, snapshot |-> 0, offset |-> 0, snapCursor |-> 0, snapGeneration |-> 0,
     snapTotal |-> 0, rows |-> NoRows, cursor |-> 0, generation |-> 0, seeded |-> FALSE]

Init ==
    /\ HubInit
    /\ sync = [c \in Clients |-> NewSync]
    /\ reply = [c \in Clients |-> NoReply]
    /\ replica = [c \in Clients |-> NewReplica]
    /\ engine = [c \in Clients |-> NoRows]
    /\ local = [c \in Clients |-> NoCopies]
    /\ disk = [c \in Clients |-> NoCopies]
    /\ recovery = [c \in Clients |-> "none"]
    /\ strays = {}

-------------------------------------------------------------------------------
(* The pump, as functions of the closure's state *)

\* Neither gated nor unconnected: a pass may start, and `current(g)` may hold.
Runnable(s) == s.conn # NoConn /\ ~s.suspended /\ ~s.degraded
Current(s) == ~s.stale /\ Runnable(s)

\* Mutant: no `finally`; what a cut push did not send is not put back.
RestForgetful(s) ==
    [s EXCEPT !.pc = "idle", !.stale = FALSE, !.reset = FALSE, !.through = {},
              !.feed = None, !.fence = NoSource, !.wholly = FALSE,
              !.todo = None, !.sent = None, !.scan = NoCopies, !.scanAt = NoSource]

\* The `finally` of a push cut short: what was not acknowledged is left to
\* the next pass, and the pass is over.
Rest(s) ==
    LET left == DOMAIN s.todo
    IN  [s EXCEPT !.pc = "idle", !.stale = FALSE, !.reset = FALSE, !.through = {},
                  !.feed = None, !.fence = NoSource, !.wholly = FALSE,
                  !.todo = None, !.sent = None, !.scan = NoCopies, !.scanAt = NoSource,
                  !.full = @ \/ (left # {} /\ s.wholly),
                  !.dirty = IF left # {} /\ ~s.wholly THEN @ \cup left ELSE @]

\* A push slice: the first BatchMax rows, in the order they are sent.
Batch(todo) ==
    LET S == CHOOSE T \in SUBSET DOMAIN todo :
                Cardinality(T) = IF Cardinality(DOMAIN todo) < BatchMax
                                 THEN Cardinality(DOMAIN todo) ELSE BatchMax
    IN  [k \in S |-> todo[k]]

SendNext(s) ==
    IF DOMAIN s.todo = {} \/ ~s.share \/ ~Current(s) THEN Rest(s)
    ELSE [s EXCEPT !.pc = "push", !.sent = Batch(s.todo)]

\* Fuller than the replica's copy and than the copy last acknowledged.
Unstamped(s, held, k, copy) ==
    /\ held[k] = NoRow \/ Supersedes(copy, held[k])
    /\ s.acked[k] = NoCopy \/ Supersedes(copy, s.acked[k])

\* A pass takes the changed keys, or the whole view, and sends what is unstamped.
\* (The view's changed-key feed and the loop's own `dirty` are one set here: a
\* pass takes both at its start, and what lands later waits for the next.)
Examine(s, held, own) ==
    LET acked == IF s.full THEN [k \in Keys |-> IF own[k] = NoCopy THEN NoCopy ELSE s.acked[k]]
                 ELSE s.acked
        looked == IF s.full THEN Held(own) ELSE s.dirty \cap Held(own)
        t == [s EXCEPT !.acked = acked, !.wholly = s.full, !.full = FALSE, !.dirty = {}]
        S == {k \in looked : Unstamped(t, held, k, own[k])}
    IN  SendNext([t EXCEPT !.todo = [k \in S |-> own[k]]])

ConnFence(s) == [epoch |-> s.conn.epoch, generation |-> s.conn.generation]

\* The sources a contribution comes from were prepared for this fence, or are
\* prepared now.  The first fence of a process needs no walk: it just walked.
PushUnderFence(c, s, held, own) ==
    LET t == [s EXCEPT !.fence = ConnFence(s)]
    IN  IF s.source = t.fence THEN Examine(t, held, own)
        ELSE IF s.source.epoch # 0
        THEN [t EXCEPT !.pc = "prepare", !.scan = disk[c], !.scanAt = Fence]
        ELSE Examine([t EXCEPT !.source = t.fence, !.acked = NoCopies, !.full = TRUE],
                     held, own)

\* A client without a replica refreshes the fence from the Hub's status first.
StartPush(c, s, held, own) ==
    IF ~s.share THEN Rest(s)
    ELSE IF c \in Replicating THEN PushUnderFence(c, s, held, own)
    ELSE [s EXCEPT !.pc = "status"]

StartPass(c, s, own) ==
    LET t == [s EXCEPT !.pending = FALSE, !.reset = FALSE]
    IN  IF c \notin Replicating THEN StartPush(c, t, NoRows, own)
        ELSE IF replica[c].seeded THEN [t EXCEPT !.pc = "changes"]
        ELSE [t EXCEPT !.pc = "snapshot", !.seeding = TRUE]

\* A pass that ended with a kick pending is followed by another.
Again(c, s, own) ==
    IF s.pc = "idle" /\ s.pending /\ Runnable(s) THEN StartPass(c, s, own) ELSE s

Kick(c, s, own) == Again(c, [s EXCEPT !.pending = TRUE], own)

\* Outstanding requests are aborted, which ends a pass that waits on one; a
\* pass that waits on the engine or on a walk goes on, and finds itself stale.
Waiting(s) == s.pc \in {"feed", "prepare"}
Abort(s) == IF Waiting(s) THEN [s EXCEPT !.stale = TRUE] ELSE Rest(s)

Suspend(s) ==
    IF s.suspended THEN s
    ELSE [Abort(s) EXCEPT !.suspended = TRUE, !.reset = Waiting(s), !.pending = FALSE]

Disconnected(s) == [Abort(s) EXCEPT !.conn = NoConn, !.pending = FALSE]

\* Mutant: the loops stay gated after the rebuild.
ResyncedGated(c, s, own) ==
    [s EXCEPT !.acked = NoCopies, !.full = TRUE, !.source.generation = -1,
              !.caughtUp = 0, !.seeding = FALSE]

\* `resync` bumps resetGeneration alone: a running pass stays current.
Resynced(c, s, own) ==
    Kick(c, [s EXCEPT !.reset = (s.pc # "idle"), !.suspended = FALSE, !.acked = NoCopies, !.full = TRUE,
                      !.source.generation = -1, !.caughtUp = 0, !.seeding = FALSE], own)

\* A request no one waits for any more; a push may still reach the Hub.
Abandoned(c) ==
    IF sync[c].pc = "push" /\ reply[c] = NoReply
    THEN {[machine |-> c, fence |-> sync[c].fence, batch |-> sync[c].sent]} ELSE {}

\* The answer is dropped with the request it belongs to.
Drop(c) == IF sync[c].pc \in Requests THEN NoReply ELSE reply[c]

-------------------------------------------------------------------------------
(* The Hub answers a client's outstanding request *)

Asked(c, pc) == sync[c].pc = pc /\ reply[c] = NoReply
Answer(c, status, body) == reply' = [reply EXCEPT ![c] = [status |-> status, body |-> body]]

OthersUnchanged == UNCHANGED <<sync, replica, engine, local, disk, recovery>>

ServeSnapshot(c) ==
    LET r == replica[c]
        id == IF r.snapshot = 0
              THEN (CHOOSE s \in snapshots' : s.cursor = cursor).id ELSE r.snapshot
    IN  /\ Asked(c, "snapshot")
        /\ IF r.snapshot = 0 THEN OpenSnapshot ELSE UNCHANGED <<snapshots, lastSnapshot>>
        /\ IF Pinned(snapshots', id, r.offset)
           THEN Answer(c, "ok", SnapshotPage(snapshots', id, r.offset, PullLimit))
           ELSE Answer(c, "gone", None)
        /\ UNCHANGED <<archiveVars, backup, faults, history, strays>>
        /\ OthersUnchanged

\* The first request of a drain leaves the boundary to the Hub.
ServeChanges(c) ==
    LET r == replica[c]
        through == IF sync[c].through = {} THEN cursor ELSE CHOOSE n \in sync[c].through : TRUE
    IN  /\ Asked(c, "changes")
        /\ IF r.epoch # epoch
           THEN UNCHANGED hubVars /\ Answer(c, "gone", None)
           ELSE /\ PruneHistory
                /\ IF Servable(r.cursor, through)
                   THEN Answer(c, "ok", ChangesPage(r.cursor, through, ChangeLimit))
                   ELSE Answer(c, "gone", None)
        /\ UNCHANGED strays
        /\ OthersUnchanged

ServeStatus(c) ==
    /\ Asked(c, "status")
    /\ Answer(c, "ok", [epoch |-> epoch, seq |-> cursor, generation |-> generation])
    /\ UNCHANGED <<hubVars, strays>>
    /\ OthersUnchanged

ServePush(c) ==
    /\ Asked(c, "push")
    /\ \/ Push(c, sync[c].fence, sync[c].sent) /\ Answer(c, "ok", Fence)
       \/ PushConflict(sync[c].fence) /\ Answer(c, "conflict", None)
    /\ UNCHANGED strays
    /\ OthersUnchanged

\* A push whose sender stopped waiting reaches the Hub after all, or never.
ServeStray ==
    \E q \in strays :
        /\ strays' = strays \ {q}
        /\ Push(q.machine, q.fence, q.batch) \/ UNCHANGED hubVars
        /\ UNCHANGED reply
        /\ OthersUnchanged

-------------------------------------------------------------------------------
(* The pass goes on with an answer *)

SyncTo(c, s) == sync' = [sync EXCEPT ![c] = s]
Consume(c) == reply' = [reply EXCEPT ![c] = NoReply]

\* `recovery()`: gate both loops, and queue unlink, rebuild and resync.
Recover(c, s) ==
    /\ SyncTo(c, Suspend(s))
    /\ recovery' = [recovery EXCEPT ![c] = "queued"]

\* FleetRecoveryRequired in a current pass recovers once per connection.
Malformed(c, s) ==
    LET t == [Rest(s) EXCEPT !.pending = FALSE, !.malformed = TRUE]
    IN  IF ~s.malformed /\ c \in Replicating
        THEN Recover(c, t)
        ELSE SyncTo(c, [t EXCEPT !.degraded = TRUE]) /\ UNCHANGED recovery

\* `applySnapshot`'s checks, and what it commits.
SnapshotFits(r, page) ==
    /\ ~r.seeded
    /\ page.offset = r.offset
    /\ r.snapshot \in {0, page.snapshot}
    /\ page.nextOffset = page.offset + Cardinality(DOMAIN page.events)
    /\ page.complete <=> page.nextOffset = page.total
    /\ r.epoch \in {0, page.epoch}
    /\ page.complete \/ DOMAIN page.events # {}
    /\ r.snapshot # 0 => /\ r.snapCursor = page.seq
                         /\ r.snapGeneration = page.generation
                         /\ r.snapTotal = page.total
    /\ \A k \in DOMAIN page.events : r.rows[k] = NoRow

\* Mutant: the replica resumes after the rows it counted, not after the cursor.
SnapshotAppliedByCount(r, page) ==
    [epoch |-> page.epoch, snapshot |-> page.snapshot, offset |-> page.nextOffset,
     snapCursor |-> page.seq, snapGeneration |-> page.generation, snapTotal |-> page.total,
     rows |-> [k \in Keys |-> IF k \in DOMAIN page.events THEN page.events[k] ELSE r.rows[k]],
     cursor |-> IF page.complete THEN page.nextOffset ELSE r.cursor,
     generation |-> IF page.complete THEN page.generation ELSE r.generation,
     seeded |-> page.complete]

SnapshotApplied(r, page) ==
    [epoch |-> page.epoch, snapshot |-> page.snapshot, offset |-> page.nextOffset,
     snapCursor |-> page.seq, snapGeneration |-> page.generation, snapTotal |-> page.total,
     rows |-> [k \in Keys |-> IF k \in DOMAIN page.events THEN page.events[k] ELSE r.rows[k]],
     cursor |-> IF page.complete THEN page.seq ELSE r.cursor,
     generation |-> IF page.complete THEN page.generation ELSE r.generation,
     seeded |-> page.complete]

\* The page is committed at once; feeding the engine awaits its boot walk.
ReceiveSnapshot(c) ==
    LET s == sync[c]
        page == reply[c].body
    IN  /\ s.pc = "snapshot" /\ reply[c] # NoReply
        /\ IF reply[c].status = "ok" /\ SnapshotFits(replica[c], page)
           THEN /\ replica' = [replica EXCEPT ![c] = SnapshotApplied(@, page)]
                /\ SyncTo(c, [s EXCEPT !.pc = "feed"])
                /\ UNCHANGED <<reply, recovery>>
           ELSE /\ IF reply[c].status = "ok" THEN Malformed(c, s) ELSE Recover(c, Rest(s))
                /\ Consume(c)
                /\ UNCHANGED replica
        /\ UNCHANGED <<hubVars, engine, local, disk, strays>>

\* The changes of a page that are new to the replica.
News(r, page) == {n \in DOMAIN page.changes : n > r.cursor}
LastOf(r, page) == IF News(r, page) = {} THEN r.cursor
                   ELSE CHOOSE n \in News(r, page) : \A p \in News(r, page) : p <= n

\* `applyChanges`' checks: contiguous from the cursor, each raising the
\* Deletion generation exactly when it deletes.
ChangesFit(r, page) ==
    LET news == News(r, page)
        before(n) == IF n = r.cursor + 1 THEN r.generation ELSE page.changes[n - 1].generation
    IN  /\ page.floor <= r.cursor /\ r.cursor <= page.seq
        /\ page.epoch = r.epoch /\ r.seeded
        /\ news = (r.cursor + 1) .. LastOf(r, page)
        /\ \A n \in news :
              page.changes[n].generation =
                before(n) + IF page.changes[n].deletes # None THEN 1 ELSE 0
        /\ page.complete => LastOf(r, page) = page.seq

\* Mutant: deletions move the cursor and leave the rows.
ChangesAppliedPutsOnly(r, page) ==
    LET last == LastOf(r, page)
        puts(k) == {n \in News(r, page) : k \in DOMAIN page.changes[n].upserts}
        top(S) == CHOOSE n \in S : \A p \in S : p <= n
    IN  [r EXCEPT !.rows = [k \in Keys |-> IF puts(k) = {} THEN @[k]
                                           ELSE page.changes[top(puts(k))].upserts[k]],
                  !.cursor = last,
                  !.generation = IF last = r.cursor THEN @ ELSE page.changes[last].generation]

ChangesApplied(r, page) ==
    LET last == LastOf(r, page)
    IN  [r EXCEPT !.rows = Replay(r.rows, r.cursor, page.changes, last)[last],
                  !.cursor = last,
                  !.generation = IF last = r.cursor THEN @ ELSE page.changes[last].generation]

\* What the engine is given: each change, with the deletes that met their row.
FeedOf(r, page) ==
    LET at == Replay(r.rows, r.cursor, page.changes, LastOf(r, page))
    IN  [n \in News(r, page) |->
           LET change == page.changes[n]
           IN  [upserts |-> change.upserts,
                deletes |-> {k \in DOMAIN change.deletes :
                               at[n - 1][k] # NoRow /\ at[n - 1][k].seq = change.deletes[k]}]]

NumMax(a, b) == IF a < b THEN b ELSE a

\* Mutant: every page counts as the end of the drain.
AfterPageEarly(c, s, page) ==
    LET t == [s EXCEPT !.caughtUp = page.seq, !.seeding = FALSE]
    IN  IF ~Current(s) THEN Rest(s)
        ELSE IF ~page.complete THEN [t EXCEPT !.pc = "changes"]
        ELSE StartPush(c, t, replica[c].rows, local[c])

\* What follows a committed page: the drain goes on, or it is complete and
\* the pass may push unless a deletion is known that the replica lacks.
AfterPage(c, s, page) ==
    LET same == s.conn.epoch = page.epoch
        conn == [s.conn EXCEPT !.epoch = page.epoch,
                               !.seq = NumMax(page.seq, IF same THEN @ ELSE 0),
                               !.generation = NumMax(page.generation, IF same THEN @ ELSE 0)]
        t == [s EXCEPT !.caughtUp = page.seq, !.conn = conn, !.seeding = FALSE]
    IN  IF ~Current(s) THEN Rest(s)
        ELSE IF ~page.complete THEN [s EXCEPT !.pc = "changes"]
        ELSE IF conn.generation > replica[c].generation THEN Rest([t EXCEPT !.pending = TRUE])
        ELSE StartPush(c, t, replica[c].rows, local[c])

ReceiveChanges(c) ==
    LET s == sync[c]
        page == reply[c].body
        t == [s EXCEPT !.through = {page.seq}]
        fits == s.through \in {{}, {page.seq}} /\ ChangesFit(replica[c], page)
        news == News(replica[c], page)
    IN  /\ s.pc = "changes" /\ reply[c] # NoReply
        /\ IF reply[c].status # "ok"
           THEN Recover(c, Rest(s)) /\ Consume(c) /\ UNCHANGED replica
           ELSE IF ~fits \/ (news = {} /\ ~page.complete)
           THEN Malformed(c, s) /\ Consume(c) /\ UNCHANGED replica
           ELSE IF news = {}
           THEN /\ SyncTo(c, Again(c, AfterPage(c, t, page), local[c]))
                /\ Consume(c)
                /\ UNCHANGED <<replica, recovery>>
           ELSE /\ replica' = [replica EXCEPT ![c] = ChangesApplied(@, page)]
                /\ SyncTo(c, [t EXCEPT !.pc = "feed", !.feed = FeedOf(replica[c], page)])
                /\ UNCHANGED <<reply, recovery>>
        /\ UNCHANGED <<hubVars, engine, local, disk, strays>>

\* The engine takes a fleet row under the merge rule, and gives up a deleted key.
Fed(held, upserts, deletes) ==
    [k \in Keys |->
        IF k \in DOMAIN upserts /\ (held[k] = NoRow \/ Supersedes(upserts[k], held[k]))
        THEN upserts[k]
        ELSE IF k \in deletes THEN NoRow ELSE held[k]]

\* A committed snapshot page, or the oldest change not yet fed, reaches the
\* engine, unless a reset since the pass began has replaced that engine.
Feed(c) ==
    LET s == sync[c]
        page == reply[c].body
        n == CHOOSE p \in DOMAIN s.feed : \A q \in DOMAIN s.feed : p <= q
        left == [p \in DOMAIN s.feed \ {n} |-> s.feed[p]]
        t == [s EXCEPT !.acked = [k \in Keys |->
                                    IF k \in s.feed[n].deletes THEN NoCopy ELSE @[k]]]
        next == IF s.feed = None
                THEN IF ~Current(s) THEN Rest(s)
                     ELSE [s EXCEPT !.pc = IF replica[c].seeded THEN "changes" ELSE "snapshot"]
                ELSE IF s.reset THEN Rest(t)
                ELSE IF DOMAIN left # {} THEN [t EXCEPT !.feed = left]
                ELSE AfterPage(c, [t EXCEPT !.feed = None], page)
    IN  /\ s.pc = "feed"
        /\ engine' = [engine EXCEPT ![c] =
              IF s.reset THEN @
              ELSE IF s.feed = None THEN Fed(@, page.events, {})
              ELSE Fed(@, s.feed[n].upserts, s.feed[n].deletes)]
        /\ SyncTo(c, Again(c, next, local[c]))
        /\ IF next.pc = "feed" THEN UNCHANGED reply ELSE Consume(c)
        /\ UNCHANGED <<hubVars, replica, local, disk, recovery, strays>>

\* Mutant: a pass that is no longer current ends without a recovery.
FeedFailsQuietly(c) ==
    LET s == sync[c]
    IN  /\ s.pc = "feed"
        /\ SpendFault
        /\ IF Current(s) THEN Malformed(c, s)
           ELSE SyncTo(c, Rest(s)) /\ UNCHANGED recovery
        /\ Consume(c)
        /\ UNCHANGED <<archiveVars, snapshots, lastSnapshot, backup, history,
                       replica, engine, local, disk, strays>>

\* The feed throws.  A pass that is no longer current still recovers, unless
\* a recovery has gated the loops already.
FeedFails(c) ==
    LET s == sync[c]
    IN  /\ s.pc = "feed"
        /\ SpendFault
        /\ IF Current(s) THEN Malformed(c, s)
           ELSE IF ~s.suspended THEN Recover(c, Rest(s))
           ELSE SyncTo(c, Rest(s)) /\ UNCHANGED recovery
        /\ Consume(c)
        /\ UNCHANGED <<archiveVars, snapshots, lastSnapshot, backup, history,
                       replica, engine, local, disk, strays>>

ReceiveStatus(c) ==
    LET s == sync[c]
        t == [s EXCEPT !.conn.epoch = reply[c].body.epoch, !.conn.seq = reply[c].body.seq,
                       !.conn.generation = reply[c].body.generation]
    IN  /\ s.pc = "status" /\ reply[c] # NoReply
        /\ SyncTo(c, Again(c, PushUnderFence(c, t, NoRows, local[c]), local[c]))
        /\ Consume(c)
        /\ UNCHANGED <<hubVars, replica, engine, local, disk, recovery, strays>>

\* Mutant: the sources count as prepared for the fence known when the walk ends.
FinishPrepareLate(c) ==
    LET s == sync[c]
        swapped == s.reset /\ recovery[c] = "none"
        read(gone) == [k \in Keys |-> IF k \in gone THEN disk[c][k] ELSE s.scan[k]]
    IN  /\ s.pc = "prepare"
        /\ \E gone \in SUBSET {k \in Keys : s.scan[k] # disk[c][k]} :
             LET own == IF swapped THEN local[c] ELSE read(gone)
                 t == [s EXCEPT !.full = TRUE, !.walked = s.scanAt, !.fence = ConnFence(s)]
                 next == IF Current(s)
                         THEN Examine([t EXCEPT !.source = t.fence, !.acked = NoCopies],
                                      replica[c].rows, own)
                         ELSE Rest([s EXCEPT !.full = TRUE, !.walked = s.scanAt])
             IN  /\ local' = [local EXCEPT ![c] = own]
                 /\ SyncTo(c, Again(c, next, own))
        /\ UNCHANGED <<hubVars, reply, replica, engine, disk, recovery, strays>>

\* `prepareContributions`: the sources were walked afresh and replace the
\* contributions, unless a rebuild has swapped the engine meanwhile.  A source
\* that went during the walk was read or was not.
FinishPrepare(c) ==
    LET s == sync[c]
        swapped == s.reset /\ recovery[c] = "none"
        read(gone) == [k \in Keys |-> IF k \in gone THEN disk[c][k] ELSE s.scan[k]]
    IN  /\ s.pc = "prepare"
        /\ \E gone \in SUBSET {k \in Keys : s.scan[k] # disk[c][k]} :
             LET own == IF swapped THEN local[c] ELSE read(gone)
                 t == [s EXCEPT !.full = TRUE, !.walked = s.scanAt]
                 next == IF Current(s)
                         THEN Examine([t EXCEPT !.source = s.fence, !.acked = NoCopies],
                                      replica[c].rows, own)
                         ELSE Rest(t)
             IN  /\ local' = [local EXCEPT ![c] = own]
                 /\ SyncTo(c, Again(c, next, own))
        /\ UNCHANGED <<hubVars, reply, replica, engine, disk, recovery, strays>>

\* 409: something was deleted; the next pass prepares again.  A receipt
\* acknowledges the rows of its batch.
ReceivePush(c) ==
    LET s == sync[c]
        refused == [s EXCEPT !.source.generation = -1]
        taken == [s EXCEPT !.acked = [k \in Keys |->
                                        IF k \in DOMAIN s.sent THEN s.sent[k] ELSE @[k]],
                           !.todo = [k \in DOMAIN s.todo \ DOMAIN s.sent |-> s.todo[k]]]
        next == IF reply[c].status = "conflict" THEN Rest(refused) ELSE SendNext(taken)
    IN  /\ s.pc = "push" /\ reply[c] # NoReply
        /\ SyncTo(c, Again(c, next, local[c]))
        /\ Consume(c)
        /\ UNCHANGED <<hubVars, replica, engine, local, disk, recovery, strays>>

\* The request timed out or was refused: the pass gives up until something
\* kicks the loops again.
RequestFails(c) ==
    /\ sync[c].pc \in Requests
    /\ SpendFault
    /\ SyncTo(c, [Rest(sync[c]) EXCEPT !.pending = FALSE])
    /\ Consume(c)
    /\ strays' = strays \cup Abandoned(c)
    /\ UNCHANGED <<archiveVars, snapshots, lastSnapshot, backup, history,
                   replica, engine, local, disk, recovery>>

-------------------------------------------------------------------------------
(* The recovery, in the reconcile chain of fleet.ts *)

\* `reconcileOnce`: the loops are gated, the replica is emptied in one
\* transaction, and the rebuild's walk begins.
ReconcileUnlink(c) ==
    /\ recovery[c] = "queued"
    /\ recovery' = [recovery EXCEPT ![c] = "rebuilding"]
    /\ replica' = [replica EXCEPT ![c] = NewReplica]
    /\ SyncTo(c, Suspend(sync[c]))
    /\ reply' = [reply EXCEPT ![c] = Drop(c)]
    /\ strays' = strays \cup Abandoned(c)
    /\ UNCHANGED <<hubVars, engine, local, disk>>

\* The walked engine takes the place of the old one, and the loops resume.
ReconcileFinish(c) ==
    /\ recovery[c] = "rebuilding"
    /\ recovery' = [recovery EXCEPT ![c] = "none"]
    /\ engine' = [engine EXCEPT ![c] = replica[c].rows]
    /\ local' = [local EXCEPT ![c] = disk[c]]
    /\ SyncTo(c, Resynced(c, sync[c], disk[c]))
    /\ UNCHANGED <<hubVars, reply, replica, disk, strays>>

\* The unlink or the rebuild throws: the chain logs it and moves on.  The
\* pending resync is spent, and the loops stay gated.
ReconcileFails(c) ==
    /\ RebuildMayFail
    /\ recovery[c] # "none"
    /\ SpendFault
    /\ recovery' = [recovery EXCEPT ![c] = "none"]
    /\ UNCHANGED <<archiveVars, snapshots, lastSnapshot, backup, history,
                   sync, reply, replica, engine, local, disk, strays>>

-------------------------------------------------------------------------------
(* The connection, the timers and this machine's own work *)

\* The Hub client's connect reads the Hub's status, then opens its stream.
Connect(c) ==
    /\ sync[c].conn = NoConn
    /\ LET conn == [epoch |-> epoch, seq |-> cursor, generation |-> generation,
                    frame |-> cursor, live |-> TRUE]
       IN  SyncTo(c, Kick(c, [sync[c] EXCEPT !.conn = conn, !.degraded = FALSE,
                                             !.malformed = FALSE, !.caughtUp = 0],
                          local[c]))
    /\ UNCHANGED <<hubVars, reply, replica, engine, local, disk, recovery, strays>>

\* The stream drops: a fault, or what the Hub's own stop brings.
Disconnect(c) ==
    /\ sync[c].conn # NoConn
    /\ IF sync[c].conn.live THEN SpendFault ELSE faults' = faults
    /\ SyncTo(c, Disconnected(sync[c]))
    /\ reply' = [reply EXCEPT ![c] = Drop(c)]
    /\ strays' = strays \cup Abandoned(c)
    /\ UNCHANGED <<archiveVars, snapshots, lastSnapshot, backup, history,
                   replica, engine, local, disk, recovery>>

\* The stream delivers frames in the order the Hub sent them; one that is
\* older than what a pull has just learned still overwrites it.
StatusFrame(c) ==
    /\ sync[c].conn # NoConn
    /\ sync[c].conn.live
    /\ \E n \in (sync[c].conn.frame + 1) .. cursor :
         LET s == [sync[c] EXCEPT !.conn = [epoch |-> epoch, seq |-> n, frame |-> n, live |-> TRUE,
                                            generation |-> history[epoch][n].generation]]
             elsewhere == c \in Replicating /\ replica[c].epoch \notin {0, epoch}
         IN  IF elsewhere
             THEN /\ Recover(c, s)
                  /\ reply' = [reply EXCEPT ![c] = Drop(c)]
                  /\ strays' = strays \cup Abandoned(c)
             ELSE /\ SyncTo(c, IF s.conn.seq > s.caughtUp \/ s.source # ConnFence(s)
                               THEN Kick(c, s, local[c]) ELSE s)
                  /\ UNCHANGED <<reply, recovery, strays>>
    /\ UNCHANGED <<hubVars, replica, engine, local, disk>>

\* The poke that follows such a frame, and the replica toggle's kick.
EventsPoke(c) ==
    /\ sync[c].conn # NoConn
    /\ sync[c].conn.live
    /\ SyncTo(c, Kick(c, sync[c], local[c]))
    /\ UNCHANGED <<hubVars, reply, replica, engine, local, disk, recovery, strays>>

\* The five-minute sweep: the next pass reads the view whole.
Sweep(c) ==
    /\ sync[c].conn # NoConn
    /\ SyncTo(c, Kick(c, [sync[c] EXCEPT !.full = TRUE], local[c]))
    /\ UNCHANGED <<hubVars, reply, replica, engine, local, disk, recovery, strays>>

\* The user turns sharing off, or on again.
ToggleShare(c) ==
    /\ SpendFault
    /\ LET s == sync[c]
       IN  SyncTo(c, IF s.share THEN [s EXCEPT !.share = FALSE]
                     ELSE Kick(c, [s EXCEPT !.share = TRUE, !.full = TRUE], local[c]))
    /\ UNCHANGED <<archiveVars, snapshots, lastSnapshot, backup, history,
                   reply, replica, engine, local, disk, recovery, strays>>

\* The watcher flushes a transcript's new or fuller copy; a walk in progress
\* is given it too.
Fresh(c) == {w \in Produces[c] : disk[c][w[1]] = NoCopy \/ Supersedes(w[2], disk[c][w[1]])}

LocalWrite(c) ==
    \E w \in Fresh(c) :
        LET k == w[1]
            copy == w[2]
            own == IF local[c][k] = NoCopy \/ Supersedes(copy, local[c][k])
                   THEN [local[c] EXCEPT ![k] = copy] ELSE local[c]
            s == sync[c]
            t == [s EXCEPT !.dirty = @ \cup {k},
                           !.scan = IF s.pc = "prepare" THEN [@ EXCEPT ![k] = copy] ELSE @]
        IN  /\ disk' = [disk EXCEPT ![c][k] = copy]
            /\ local' = [local EXCEPT ![c] = own]
            /\ SyncTo(c, Kick(c, t, own))
            /\ UNCHANGED <<hubVars, reply, replica, engine, recovery, strays>>

\* A transcript is deleted behind the process's back; its rows stay in RAM.
TranscriptGone(c) ==
    \E k \in Held(disk[c]) :
        /\ SpendFault
        /\ disk' = [disk EXCEPT ![c][k] = NoCopy]
        /\ UNCHANGED <<archiveVars, snapshots, lastSnapshot, backup, history,
                       sync, reply, replica, engine, local, recovery, strays>>

\* The process dies and starts again: the boot opens the replica, which it
\* deletes and recreates if it is corrupt, walks the sources, then feeds the
\* engine what the replica holds.
RestartClient(c) ==
    /\ SpendFault
    /\ \E opened \in {replica[c], NewReplica} :
         /\ replica' = [replica EXCEPT ![c] = opened]
         /\ engine' = [engine EXCEPT ![c] = opened.rows]
    /\ SyncTo(c, [NewSync EXCEPT !.share = sync[c].share])
    /\ reply' = [reply EXCEPT ![c] = NoReply]
    /\ local' = [local EXCEPT ![c] = disk[c]]
    /\ recovery' = [recovery EXCEPT ![c] = "none"]
    /\ strays' = strays \cup Abandoned(c)
    /\ UNCHANGED <<archiveVars, snapshots, lastSnapshot, backup, history, disk>>

-------------------------------------------------------------------------------
(* The Hub's own steps, seen from the clients *)

\* The operator purges a machine: a deletion of all it contributed.
Purge == \E op \in Ops, m \in Machines :
            Remove(op, [machine |-> m, sessions |-> Sessions]) /\ UNCHANGED clientVars

\* A peer contributes: what any client's accepted push does to the Hub.
PeerPush == \E m \in Machines \ Clients, batch \in Batches :
               Push(m, Fence, batch) /\ UNCHANGED clientVars

Expire == ExpireSnapshot /\ UNCHANGED clientVars

\* Stopping the Hub closes every stream.  A client's request may still be
\* answered by the Hub that comes up in its place.
HubStops ==
    /\ RestartHub \/ TakeBackup \/ Restore
    /\ sync' = [c \in Clients |->
                  IF sync[c].conn = NoConn THEN sync[c]
                  ELSE [sync[c] EXCEPT !.conn.live = FALSE]]
    /\ UNCHANGED <<reply, replica, engine, local, disk, recovery, strays>>

Serve(c) == ServeSnapshot(c) \/ ServeChanges(c) \/ ServeStatus(c) \/ ServePush(c)

Receive(c) == ReceiveSnapshot(c) \/ ReceiveChanges(c) \/ ReceiveStatus(c) \/ ReceivePush(c)

Work(c) == Feed(c) \/ FinishPrepare(c) \/ ReconcileUnlink(c) \/ ReconcileFinish(c)

Fault(c) == RequestFails(c) \/ FeedFails(c) \/ ReconcileFails(c) \/ ToggleShare(c)
              \/ TranscriptGone(c) \/ RestartClient(c)

Next ==
    \/ \E c \in Clients :
          Serve(c) \/ Receive(c) \/ Work(c) \/ Fault(c) \/ Connect(c) \/ Disconnect(c)
            \/ StatusFrame(c) \/ EventsPoke(c) \/ Sweep(c) \/ LocalWrite(c)
    \/ ServeStray \/ PeerPush \/ Purge \/ Expire \/ HubStops

Spec == Init /\ [][Next]_vars

-------------------------------------------------------------------------------
(* Properties *)

\* Every variable has its type; a pass holds a reply only while it waits for
\* one or feeds the page it brought, and only a running pass is stale.
SyncTypeOK ==
    /\ \A c \in Clients :
          LET s == sync[c]
          IN  /\ s.pc \in Requests \cup {"idle", "feed", "prepare"}
              /\ s.conn # NoConn => s.conn.epoch \in 1 .. epoch
              /\ s.acked \in Holdings
              /\ s.dirty \subseteq Keys
              /\ DOMAIN s.todo \subseteq Keys /\ DOMAIN s.sent \subseteq DOMAIN s.todo
              /\ s.stale => Waiting(s)
              /\ reply[c] # NoReply => s.pc \in Requests \cup {"feed"}
    /\ \A c \in Clients : replica[c].rows \in Corpus /\ engine[c] \in Corpus
    /\ local \in [Clients -> Holdings] /\ disk \in [Clients -> Holdings]
    /\ recovery \in [Clients -> {"none", "queued", "rebuilding"}]

\* A seeded replica is the Hub's archive as it was at the replica's cursor:
\* no change is lost, doubled or applied out of order, whatever was pruned,
\* restored, dropped or restarted in between (`applySnapshot`, `applyChanges`).
ReplicaIsPrefix ==
    \A c \in Replicating :
        LET r == replica[c]
        IN  r.seeded =>
              /\ r.epoch \in DOMAIN history
              /\ r.cursor \in DOMAIN history[r.epoch]
              /\ history[r.epoch][r.cursor] = [rows |-> r.rows, generation |-> r.generation]

\* A partial snapshot, which outlives disconnections and restarts, holds
\* exactly the pages before its offset of one pinned state of the archive.
PartialSeedIsSlice ==
    \A c \in Replicating :
        LET r == replica[c]
            pinned == history[r.epoch][r.snapCursor].rows
        IN  ~r.seeded /\ r.snapshot # 0 =>
              \A k \in Keys :
                 r.rows[k] = IF k \in Slice(pinned, 0, r.offset) THEN pinned[k] ELSE NoRow

\* With no page still to be fed and the loops neither gated for a recovery nor
\* shown as degraded, the engine reports exactly what the replica holds.  A committed
\* page the engine never got would stay unreported, since the cursor has passed
\* it (`feedCommitted`, the `mayApply` guards, the recovery of a pass that is
\* no longer current).
EngineIsReplica ==
    \A c \in Replicating :
        /\ sync[c].pc # "feed"
        /\ ~sync[c].suspended
        /\ ~sync[c].degraded
        => engine[c] = replica[c].rows

\* A client at rest under the Hub's own fence has nothing left to contribute:
\* the Hub holds every contribution at least as full.  So a stamp is never
\* trusted past a deletion, and a push cut short never forgets a row.
NothingLeftBehind ==
    \A c \in Clients :
        LET s == sync[c]
        IN  /\ s.pc = "idle" /\ ~s.full /\ s.dirty = {}
            /\ s.source = Fence
            => \A k \in Held(local[c]) : rows[k] # NoRow /\ AtLeast(rows[k], local[c][k])

AtOrAfter(f, g) == f.epoch > g.epoch \/ (f.epoch = g.epoch /\ f.generation >= g.generation)

\* Once a client has prepared its sources, what it pushes under a fence was
\* walked after the deletion that made this fence: a row whose transcript is
\* gone does not come back from RAM after a forget or a purge.
PreparedAfterDeletion ==
    \A c \in Clients :
        LET s == sync[c]
        IN  s.pc = "push" /\ s.walked # NoSource => AtOrAfter(s.walked, s.fence)

\* `isCaughtUp`, which opens the Local archive to fleet rows.
IsCaughtUp(c) ==
    LET s == sync[c]
        r == replica[c]
    IN  /\ Runnable(s) /\ ~s.seeding /\ r.seeded
        /\ r.epoch = s.conn.epoch /\ r.generation = s.conn.generation
        /\ s.caughtUp >= s.conn.seq

\* A client that reports itself caught up lacks no change the Hub has
\* advertised to it, so what it archives was not deleted by one of them.
CaughtUpIsProven ==
    \A c \in Replicating :
        IsCaughtUp(c) =>
            \E n \in DOMAIN history[sync[c].conn.epoch] :
                /\ n >= sync[c].conn.seq
                /\ replica[c].rows = history[sync[c].conn.epoch][n].rows

-------------------------------------------------------------------------------
(* What a replica promises, and what the fleet comes to *)

\* Each replica is a FleetCopy of the archives the Hub served.
copies == [c \in Replicating |->
             LET r == replica[c]
             IN  IF r.seeded
                 THEN [epoch |-> r.epoch, at |-> r.cursor,
                       content |-> [rows |-> r.rows, generation |-> r.generation]]
                 ELSE NoCopy]

Copy == INSTANCE FleetCopy WITH Readers <- Replicating, archive <- history

\* A replica is taken whole, only moves forward along one archive's history,
\* and is dropped whole: never rewound, never spliced from two archives.
ReplicaIsACopy == Copy!Spec

\* What the code's scheduling grants: the Hub answers, an awaited answer or
\* feed resumes the pass, the reconcile chain runs, the Hub client reconnects
\* and notices a dead stream, and the sweep's timer goes on firing.
Fairness ==
    \A c \in Clients :
        /\ WF_vars(Serve(c)) /\ WF_vars(Receive(c))
        /\ WF_vars(Feed(c)) /\ WF_vars(FinishPrepare(c))
        /\ WF_vars(ReconcileUnlink(c)) /\ WF_vars(ReconcileFinish(c))
        /\ WF_vars(Connect(c)) /\ WF_vars(Sweep(c))
        /\ WF_vars(sync[c].conn # NoConn /\ ~sync[c].conn.live /\ Disconnect(c))

FairSpec == Spec /\ Fairness

\* Every replica and engine holds what the Hub holds, and the Hub holds what
\* every sharing client's sources back.
Settled ==
    /\ \A c \in Replicating : replica[c].rows = rows /\ engine[c] = rows
    /\ \A c \in Clients : sync[c].share =>
          \A k \in Held(disk[c]) : rows[k] # NoRow /\ AtLeast(rows[k], disk[c][k])

\* Once the faults, the writes and the deletions are over, the fleet agrees
\* and stays in agreement (the five-minute sweep is the "convergence safety
\* net" of event-sync.ts).
Converges == <>[]Settled

\* A client whose loops were gated for a recovery opens them again: after
\* `onEpochMismatch` the coordinator "MUST call resync()" (EventSyncDeps).
GateReopens == \A c \in Clients : sync[c].suspended ~> ~sync[c].suspended
===============================================================================
