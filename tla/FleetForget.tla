------------------------------ MODULE FleetForget ------------------------------
(***************************************************************************)
(* A forget (apps/sidecar/src/fleet.ts): a machine's own rows of some      *)
(* sessions leave the Hub and, by the forget's mode, the Local archive and *)
(* the engine.  It works off an intent on disk (fleet-forget-intent.ts)    *)
(* batch by batch, and is resumed on a connection or by the sweep.         *)
(* Answers are lost, requests land late, the machine crashes, moves to     *)
(* another Hub, or meets a restored one under the same URL.                *)
(***************************************************************************)
EXTENDS Integers, Sequences

CONSTANTS
    RowKeys, Sessions,  \* dedup keys; (projectSlug, sessionId) pairs
    SessionOf,          \* the pair of each key
    Hubs, Absent,
    Excluded,           \* keys the engine's store refuses
    Backed,             \* keys a transcript still holds
    Archived,           \* keys the Local archive holds at first
    Callers,            \* the forgets asked for: [pairs: a sequence, mode]
    MaxOps, MaxConnects, MaxRestores, MaxMishaps    \* bounds on what happens

Modes == {"pair", "excluded", "lossless"}
Epochs == [of : Hubs, number : Nat]
Dones == [op : Nat, generation : Nat, removed : BOOLEAN]
Batch == [op : Nat, sessions : SUBSET Sessions, receipt : Dones \cup {Absent}]
Intents == [hub : Hubs, epoch : Epochs, mode : Modes, localComplete : BOOLEAN,
            batches : Seq(Batch)]

ASSUME ForgetAssumption ==
    /\ SessionOf \in [RowKeys -> Sessions]
    /\ Excluded \cup Backed \cup Archived \subseteq RowKeys
    /\ \A c \in Callers : /\ c = [pairs |-> c.pairs, mode |-> c.mode]
                          /\ c.pairs \in Seq(Sessions) /\ c.mode \in Modes
    /\ Absent \notin Hubs \cup Callers \cup Epochs \cup [hub : Hubs, gen : Nat]
    /\ Absent \notin Dones \cup Intents

VARIABLES
    archive, forgetIntent, replica, \* on disk
    engine, barred,                 \* the engine's keys; pairs the archive bars
    hubs, late,                     \* the Hubs; requests on their way
    conn, connGen, suspended,       \* the connection; event sync's gate
    pc, on, read, landed,           \* the forget under way: connection, epoch read
    asked, committed, gone,         \* what was asked, done by a Hub, answered
    ops, mishaps                    \* counters

syncVars == <<replica, conn, connGen>>
callVars == <<on, read, landed>>
forgetVars == <<archive, forgetIntent, engine, barred, hubs, late, syncVars, suspended, pc,
                callVars, asked, committed, gone, ops, mishaps>>

Admitted == RowKeys \ Excluded
KeysOf(pairs) == {k \in RowKeys : SessionOf[k] \in pairs}
PairsOf(c) == {c.pairs[n] : n \in DOMAIN c.pairs}
Scope(i) == UNION {i.batches[n].sessions : n \in DOMAIN i.batches}
IntentPairs == IF forgetIntent = Absent THEN {} ELSE Scope(forgetIntent)
Idle == [step |-> "idle", caller |-> Absent]
NoGone == [hub |-> Absent, epoch |-> Absent, remote |-> {}, local |-> {}]

\* An archive's epoch is drawn at random: no other archive, of any Hub, has it.
Epoch(h, n) == [of |-> h, number |-> n]

ForgetInit ==
    /\ archive = Archived /\ forgetIntent = Absent
    /\ \E rows \in [Hubs -> {{}, Archived \cup Backed}] :
         hubs = [h \in Hubs |-> [epoch |-> Epoch(h, 0), generation |-> 0, rows |-> rows[h],
                                done |-> {}]]
    /\ replica = [epoch |-> Absent, generation |-> 0, rows |-> {}]
    /\ engine = (Archived \cup Backed) \cap Admitted /\ barred = {}
    /\ late = {} /\ conn = Absent /\ connGen = 0 /\ suspended = FALSE
    /\ pc = Idle /\ on = Absent /\ read = Absent /\ landed = FALSE
    /\ asked = {} /\ committed = {} /\ gone = NoGone /\ ops = 0 /\ mishaps = 0

-------------------------------------------------------------------------------
(* The Hub *)

\* remove: once an operation id, and the generation only where a row went.
Removed(h, op, pairs) ==
    LET rows == hubs[h].rows \cap KeysOf(pairs)
        next == hubs[h].generation + (IF rows = {} THEN 0 ELSE 1)
    IN  IF \E d \in hubs[h].done : d.op = op THEN hubs[h]
        ELSE [hubs[h] EXCEPT !.rows = @ \ rows, !.generation = next,
                             !.done = @ \cup {[op |-> op, generation |-> next,
                                               removed |-> rows # {}]}]

\* POST /api/events/forget: 409 under another epoch.
HubForgets(r) ==
    IF hubs[r.hub].epoch # r.epoch THEN UNCHANGED <<hubs, committed>>
    ELSE /\ hubs' = [hubs EXCEPT ![r.hub] = Removed(r.hub, r.op, r.pairs)]
         /\ committed' = committed \cup {[hub |-> r.hub, epoch |-> r.epoch]}

\* push: refused under another epoch or Deletion generation.
HubTakes(r) ==
    hubs' = IF hubs[r.hub].epoch = r.epoch /\ hubs[r.hub].generation = r.generation
           THEN [hubs EXCEPT ![r.hub].rows = @ \cup r.rows]
           ELSE hubs

\* The Hub is restored from a backup, under a fresh epoch; it was stopped for it.
Restore(h, rows) ==
    /\ conn # h
    /\ hubs[h].epoch.number < MaxRestores
    /\ hubs' = [hubs EXCEPT ![h] = [epoch |-> Epoch(h, @.epoch.number + 1),
                                    generation |-> @.generation, rows |-> rows, done |-> {}]]
    /\ gone' = IF gone.hub = h THEN NoGone ELSE gone
    /\ UNCHANGED <<archive, forgetIntent, engine, barred, late, syncVars, suspended, pc,
                   callVars, asked, committed, ops, mishaps>>

-------------------------------------------------------------------------------
(* The connection and event sync *)

\* onConnected.  What another Hub holds comes back from it.
Connect(h) ==
    /\ conn = Absent /\ connGen < 2 * MaxConnects
    /\ conn' = h /\ connGen' = connGen + 1
    /\ gone' = IF gone.hub = h THEN gone ELSE NoGone
    /\ UNCHANGED <<archive, forgetIntent, replica, engine, barred, hubs, late, suspended,
                   pc, callVars, asked, committed, ops, mishaps>>

\* onDisconnected: a contribution on its way has arrived by now, or never does.
Disconnect ==
    /\ conn # Absent /\ connGen + 1 < 2 * MaxConnects
    /\ conn' = Absent /\ connGen' = connGen + 1
    /\ late' = {r \in late : r.kind = "forget"}
    /\ UNCHANGED <<archive, forgetIntent, replica, engine, barred, hubs, suspended, pc,
                   callVars, asked, committed, gone, ops, mishaps>>

InStep == conn # Absent /\ replica.epoch = hubs[conn].epoch
                      /\ replica.generation = hubs[conn].generation

\* What the engine takes of rows: an excluded key is refused.
Taken(rows) == rows \cap Admitted

\* A pull to the Hub's present, the engine re-prepared where a deletion showed.
Pull ==
    /\ conn # Absent /\ ~suspended
    /\ replica' = [epoch |-> hubs[conn].epoch, generation |-> hubs[conn].generation,
                   rows |-> hubs[conn].rows]
    /\ replica' # replica
    /\ LET own == (IF InStep THEN engine ELSE archive \cup Backed) \cup hubs[conn].rows
       IN  engine' = Taken(own)
    /\ UNCHANGED <<archive, forgetIntent, barred, hubs, late, conn, connGen, suspended, pc,
                   callVars, asked, committed, gone, ops, mishaps>>

\* A reconcile's resync opens event sync while a forget holds it suspended.
Reconciled ==
    /\ conn # Absent /\ suspended /\ replica.epoch # hubs[conn].epoch
    /\ suspended' = FALSE
    /\ UNCHANGED <<archive, forgetIntent, engine, barred, hubs, late, syncVars, pc,
                   callVars, asked, committed, gone, ops, mishaps>>

\* What a push has to send: own rows, less the pairs of a pending intent.
Owes == ((engine \cap Admitted) \ KeysOf(IntentPairs)) \ replica.rows

\* A contribution is sent, under the fence the replica is at.
Push ==
    /\ InStep /\ ~suspended /\ Owes # {} /\ \A r \in late : r.kind # "push"
    /\ late' = late \cup {[kind |-> "push", hub |-> conn, epoch |-> replica.epoch,
                           generation |-> replica.generation, rows |-> Owes]}
    /\ UNCHANGED <<archive, forgetIntent, engine, barred, hubs, syncVars, suspended, pc,
                   callVars, asked, committed, gone, ops, mishaps>>

\* A request on its way reaches its Hub; its sender no longer waits for a forget.
Arrives(r) ==
    /\ r \in late /\ late' = late \ {r}
    /\ \/ r.kind = "push" /\ HubTakes(r) /\ UNCHANGED committed
       \/ r.kind = "forget" /\ HubForgets(r)
    /\ UNCHANGED <<archive, forgetIntent, engine, barred, syncVars, suspended, pc,
                   callVars, asked, gone, ops, mishaps>>

\* mayArchiveFleet: caught up, and no deletion pending.
MayArchive == forgetIntent = Absent /\ InStep

\* The Local archive tees an own row of the engine that is the replica's.
Tee(k) ==
    /\ MayArchive /\ k \in (engine \cap replica.rows) \ archive /\ SessionOf[k] \notin barred
    /\ archive' = archive \cup {k}
    /\ UNCHANGED <<forgetIntent, engine, barred, hubs, late, syncVars, suspended, pc,
                   callVars, asked, committed, gone, ops, mishaps>>

-------------------------------------------------------------------------------
(* A forget *)

Mode(i) == i.mode
NewBatches(pairs) ==
    [n \in DOMAIN pairs |-> [op |-> ops + n, sessions |-> {pairs[n]}, receipt |-> Absent]]
Fresh(batches) ==
    [n \in DOMAIN batches |-> [op |-> ops + n, sessions |-> batches[n].sessions,
                               receipt |-> Absent]]

\* What is left alone by a step of a forget that only touches the intent.
Quiet == UNCHANGED <<archive, engine, barred, hubs, late, syncVars, suspended, asked,
                     committed, gone, mishaps>>

Suspend == suspended' = TRUE /\ on' = [hub |-> conn, gen |-> connGen] /\ landed' = FALSE

\* Whose forget: Storage's is of pairs the replica shows, the repair's of any.
MayAsk(c) == c.mode = "pair" => PairsOf(c) \subseteq {SessionOf[k] : k \in replica.rows}

\* A caller's forget, or its retry of the one pending: no other is accepted.
Forget(c) ==
    /\ pc = Idle /\ conn # Absent
    /\ \/ forgetIntent = Absent /\ c \notin asked /\ MayAsk(c)
       \/ forgetIntent # Absent /\ Scope(forgetIntent) = PairsOf(c) /\ Mode(forgetIntent) = c.mode
    /\ pc' = [step |-> "epoch", caller |-> c] /\ asked' = asked \cup {c}
    /\ Suspend
    /\ UNCHANGED <<archive, forgetIntent, engine, barred, hubs, late, syncVars, read,
                   committed, gone, ops, mishaps>>

\* On a connection, and on every sweep: the pending forget is resumed.
Resume ==
    /\ pc = Idle /\ conn # Absent /\ forgetIntent # Absent
    /\ pc' = [step |-> "epoch", caller |-> Absent]
    /\ Suspend
    /\ UNCHANGED <<archive, forgetIntent, engine, barred, hubs, late, syncVars, read,
                   asked, committed, gone, ops, mishaps>>

At(step) == pc.step = step
To(step) == pc' = [pc EXCEPT !.step = step]

\* Mutant: an intent is this Hub's by its URL.
IsThisHubsByUrl(i) == i.hub = on.hub
\* Known by its URL and its epoch.
IsThisHubs(i) == i.hub = on.hub /\ i.epoch = hubs[on.hub].epoch

\* Fresh operation ids and no receipts; mode and localComplete stay.
Retargeted(i) == [i EXCEPT !.hub = on.hub, !.epoch = hubs[on.hub].epoch, !.batches = Fresh(@)]

\* readHubEpoch, and what the intent becomes: new, this Hub's, or retargeted.
ReadEpoch ==
    /\ At("epoch") /\ read' = hubs[on.hub].epoch /\ To("batch")
    /\ \/ /\ forgetIntent # Absent /\ IsThisHubs(forgetIntent)
          /\ landed' = (\E n \in DOMAIN forgetIntent.batches :
                            forgetIntent.batches[n].receipt # Absent)
          /\ UNCHANGED <<forgetIntent, ops>>
       \/ /\ forgetIntent # Absent /\ ~IsThisHubs(forgetIntent)
          /\ ops + Len(forgetIntent.batches) <= MaxOps
          /\ forgetIntent' = Retargeted(forgetIntent) /\ ops' = ops + Len(forgetIntent.batches)
          /\ UNCHANGED landed
       \/ /\ forgetIntent = Absent
          /\ forgetIntent' = [hub |-> on.hub, epoch |-> hubs[on.hub].epoch,
                              mode |-> pc.caller.mode,
                              localComplete |-> pc.caller.mode = "lossless",
                              batches |-> NewBatches(pc.caller.pairs)]
          /\ ops' = ops + Len(pc.caller.pairs) /\ UNCHANGED landed
    /\ UNCHANGED on /\ Quiet

Owed == {n \in DOMAIN forgetIntent.batches : forgetIntent.batches[n].receipt = Absent}
First(ns) == CHOOSE n \in ns : \A m \in ns : n <= m
RequestOf(b) == [kind |-> "forget", hub |-> on.hub, epoch |-> forgetIntent.epoch, op |-> b.op,
                 pairs |-> b.sessions]
SameConnection == conn = on.hub /\ connGen = on.gen

\* The next batch, posted and answered; its receipt is on disk before the next.
Post ==
    /\ At("batch") /\ Owed # {} /\ SameConnection
    /\ LET n == First(Owed)
           r == RequestOf(forgetIntent.batches[n])
       IN  /\ hubs[r.hub].epoch = r.epoch
           /\ HubForgets(r)
           /\ \E d \in hubs'[r.hub].done :
                d.op = r.op /\ forgetIntent' = [forgetIntent EXCEPT !.batches[n].receipt = d]
    /\ landed' = TRUE
    /\ UNCHANGED <<archive, engine, barred, late, syncVars, suspended, pc, on, read, asked,
                   gone, ops, mishaps>>

Posted ==
    /\ At("batch") /\ Owed = {} /\ To("archive")
    /\ UNCHANGED <<forgetIntent, callVars, ops>> /\ Quiet

\* The intent's mode, not the caller's.
HalfOf(i) == Mode(i)

\* forgetLocalArchive, or forgetExcludedFromLocalArchive.
ArchiveHalf ==
    /\ At("archive") /\ ~forgetIntent.localComplete /\ To("stamp")
    /\ IF HalfOf(forgetIntent) = "excluded"
       THEN archive' = archive \ (KeysOf(Scope(forgetIntent)) \cap Excluded) /\ UNCHANGED barred
       ELSE /\ archive' = archive \ KeysOf(Scope(forgetIntent))
            /\ barred' = barred \cup Scope(forgetIntent)
    /\ UNCHANGED <<forgetIntent, engine, hubs, late, syncVars, suspended, callVars, asked,
                   committed, gone, ops, mishaps>>

Stamp ==
    /\ At("stamp") /\ To("engine")
    /\ forgetIntent' = [forgetIntent EXCEPT !.localComplete = TRUE]
    /\ UNCHANGED <<callVars, ops>> /\ Quiet

ArchiveDone ==
    /\ At("archive") /\ forgetIntent.localComplete /\ To("engine")
    /\ UNCHANGED <<forgetIntent, callVars, ops>> /\ Quiet

\* Only a user's Forget takes the pairs' own rows out of the engine; then resync.
Engine ==
    /\ At("engine") /\ To("learn")
    /\ engine' = IF Mode(forgetIntent) = "pair" THEN engine \ KeysOf(Scope(forgetIntent))
                 ELSE engine
    /\ suspended' = FALSE
    /\ UNCHANGED <<archive, forgetIntent, barred, hubs, late, syncVars, callVars, asked,
                   committed, gone, ops, mishaps>>

Receipts(i) == {i.batches[n].receipt : n \in DOMAIN i.batches}

\* The replica holds this archive, no older than any receipt.
ReplicaLearned(i) ==
    replica.epoch = i.epoch /\ \A r \in Receipts(i) : replica.generation >= r.generation

\* What an answer of ok says is gone: all it asked, and where the Hub removed
\* rows, which no late contribution gets past.
GoneBy(i) ==
    LET never == IF Mode(i) = "pair" THEN RowKeys \ Backed ELSE Excluded \ Backed
        removed == {n \in DOMAIN i.batches : i.batches[n].receipt.removed}
        remote == never \cap KeysOf(UNION {i.batches[n].sessions : n \in removed})
    IN  [hub |-> i.hub, epoch |-> i.epoch, remote |-> remote,
         local |-> IF Mode(i) = "lossless" THEN {} ELSE remote]

\* The pairs' own rows the replica still holds.
StillHeld(i) == Taken(KeysOf(Scope(i)) \cap replica.rows)

\* Own rows the replica still holds are put back, the intent cleared, and ok.
Learned ==
    /\ At("learn") /\ ReplicaLearned(forgetIntent)
    /\ engine' = engine \cup StillHeld(forgetIntent)
    /\ forgetIntent' = Absent /\ pc' = Idle /\ suspended' = FALSE
    /\ gone' = IF conn = forgetIntent.hub /\ hubs[conn].epoch = forgetIntent.epoch
               THEN GoneBy(forgetIntent) ELSE NoGone
    /\ committed' = {}
    /\ UNCHANGED <<archive, barred, hubs, late, syncVars, callVars, asked, ops, mishaps>>

\* Everything that throws: the intent stays for a resume, event sync resyncs.
Throw ==
    /\ pc' = Idle /\ suspended' = FALSE
    /\ UNCHANGED <<archive, forgetIntent, engine, barred, hubs, syncVars, callVars, asked,
                   committed, gone, ops>>

\* The connection changed, the Hub refused, or the replica is behind.
ForgetRefused ==
    /\ \/ At("batch") /\ Owed # {} /\ ~SameConnection
       \/ At("batch") /\ Owed # {} /\ SameConnection /\ hubs[on.hub].epoch # forgetIntent.epoch
       \/ At("learn") /\ ~ReplicaLearned(forgetIntent)
    /\ Throw /\ UNCHANGED <<late, mishaps>>

\* A read or a write fails.
Fails ==
    /\ pc # Idle /\ mishaps < MaxMishaps /\ mishaps' = mishaps + 1
    /\ Throw /\ UNCHANGED late

\* A batch's answer does not come back in time; the request may arrive yet.
TimesOut ==
    /\ At("batch") /\ Owed # {} /\ SameConnection
    /\ mishaps < MaxMishaps /\ mishaps' = mishaps + 1
    /\ late' = late \cup {RequestOf(forgetIntent.batches[First(Owed)])}
    /\ Throw

Crash ==
    /\ mishaps < MaxMishaps /\ connGen + 1 < 2 * MaxConnects /\ mishaps' = mishaps + 1
    /\ engine' = Taken(archive \cup Backed \cup replica.rows) /\ barred' = {}
    /\ conn' = Absent /\ connGen' = connGen + (connGen % 2)
    /\ pc' = Idle /\ suspended' = FALSE
    /\ late' = {r \in late : r.kind = "forget"}
    /\ UNCHANGED <<archive, forgetIntent, replica, hubs, callVars, asked, committed, gone,
                   ops>>

-------------------------------------------------------------------------------
ForgetNext ==
    \/ \E h \in Hubs, rows \in {{}, Archived} : Restore(h, rows)
    \/ \E h \in Hubs : Connect(h)
    \/ Disconnect
    \/ Pull
    \/ Reconciled
    \/ Push
    \/ \E r \in late : Arrives(r)
    \/ \E k \in RowKeys : Tee(k)
    \/ \E c \in Callers : Forget(c)
    \/ Resume
    \/ ReadEpoch
    \/ Post
    \/ Posted
    \/ ArchiveHalf
    \/ Stamp
    \/ ArchiveDone
    \/ Engine
    \/ Learned
    \/ ForgetRefused
    \/ Fails
    \/ TimesOut
    \/ Crash

ForgetSpec == ForgetInit /\ [][ForgetNext]_forgetVars

\* A forget's code runs on, a pending one is resumed and a client reconnects;
\* a forget awaits the pass its resync kicks, so suspending forever starves none.
ForgetFairSpec ==
    /\ ForgetSpec
    /\ WF_forgetVars(\E h \in Hubs : Connect(h))
    /\ SF_forgetVars(Pull) /\ SF_forgetVars(Push) /\ WF_forgetVars(\E r \in late : Arrives(r))
    /\ WF_forgetVars(Resume)
    /\ WF_forgetVars(ReadEpoch \/ Post \/ Posted \/ ArchiveHalf \/ Stamp \/ ArchiveDone
                 \/ Engine \/ Learned \/ ForgetRefused)

-------------------------------------------------------------------------------
FleetForgetTypeOK ==
    /\ archive \cup engine \cup replica.rows \subseteq RowKeys /\ barred \subseteq Sessions
    /\ engine \subseteq Admitted
    /\ conn \in Hubs \cup {Absent} /\ (conn = Absent <=> connGen % 2 = 0)
    /\ forgetIntent # Absent =>
        \A n \in DOMAIN forgetIntent.batches : forgetIntent.batches[n].op \in 1 .. ops
    /\ pc # Idle => on # Absent

\* What a forget answered is gone, and the Hub did remove, stays gone, short of a
\* restore or another Hub: from the Hub, and from the archive and the engine unless
\* lossless.
GoneStaysGone ==
    gone.hub # Absent /\ hubs[gone.hub].epoch = gone.epoch =>
        /\ hubs[gone.hub].rows \cap gone.remote = {}
        /\ (archive \cup engine) \cap gone.local = {}

\* The archive loses no row that no caller's mode asked it to: a resume passes
\* no mode, and a repair's forget must not run a user's archive half.
OnlyAskedIsLost ==
    \A k \in Archived \ archive : \E c \in asked :
        /\ SessionOf[k] \in PairsOf(c)
        /\ c.mode = "pair" \/ (c.mode = "excluded" /\ k \in Excluded)

\* A failure that says rows were forgotten speaks of the archive it is
\* connected to, which really did a batch of this deletion.
LandedIsTrue == landed /\ pc # Idle => [hub |-> on.hub, epoch |-> read] \in committed

\* No deletion is pending, and what it spared is on the Hub.
ForgetsAreOver ==
    /\ forgetIntent = Absent /\ conn # Absent
    /\ engine \subseteq hubs[conn].rows /\ hubs[conn].rows \cap gone.remote = {}

\* What a forget says is so, of the archive, the engine and the Hub, stays so, and
\* nothing that was not asked for is lost.
ForgetIsExact ==
    FleetForgetTypeOK /\ GoneStaysGone /\ OnlyAskedIsLost /\ LandedIsTrue

================================================================================
