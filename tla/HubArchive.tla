------------------------------ MODULE HubArchive ------------------------------
(***************************************************************************)
(* The Hub's archive of record (`hubStore` of                              *)
(* packages/usage-core/src/fleet-sync-store.ts) and the routes of          *)
(* apps/hub/src/server.ts that reach it.                                   *)
(*                                                                         *)
(* Every operation of the store is one SQLite transaction on the Hub's     *)
(* single thread, so every operation is one action.  A crash between the   *)
(* commit and the reply is the caller's lost reply; a crash before the     *)
(* commit is a request that never ran.                                     *)
(*                                                                         *)
(* `history` is the one auxiliary variable: what the archive held at each  *)
(* change cursor of each epoch.  No action reads it, except the backup a   *)
(* restore starts from, which the operator took of such a state.           *)
(***************************************************************************)
EXTENDS FleetDedup, FiniteSets

CONSTANTS
    Keys,           \* dedup keys (messageId, requestId)
    Machines,       \* machine ids of the clients
    Ops,            \* operation ids of forgets and purges, fresh UUIDs
    NoRow,          \* a key the archive does not hold
    NoReceipt,      \* an operation id with no stored receipt
    MaxCursor,      \* bound on the change cursor of one epoch
    MaxEpoch,       \* bound on the archives that follow one another
    MaxFaults       \* bound on prunes, expiries, restarts and other faults

ASSUME HubAssumption ==
    /\ IsFiniteSet(Keys)
    /\ NoRow \notin [total : Nat, tag : Nat, session : Sessions,
                     machine : Machines, seq : Nat]
    /\ NoReceipt \notin [scope : [machine : Machines, sessions : SUBSET Sessions],
                         epoch : Nat, generation : Nat, removed : Nat]
    /\ MaxCursor \in Nat /\ MaxEpoch \in Nat \ {0} /\ MaxFaults \in Nat

VARIABLES
    (* the SQLite file *)
    epoch,          \* meta.epoch, numbered in the order archives were made
    rows,           \* table events: the row of each key, or NoRow
    eventSeq,       \* meta.eventSeq, the last seq minted
    cursor,         \* meta.cursor, the last change appended
    generation,     \* meta.generation, the Deletion generation
    floor,          \* meta.floor, the last change pruned away
    changes,        \* table changes: the changes floor+1 .. cursor
    operations,     \* table operations: the receipt of each operation id
    (* RAM *)
    snapshots,      \* the pinned snapshots, at most two
    lastSnapshot,   \* how many snapshot ids were minted
    (* the environment *)
    backup,         \* the copied archive a restore would start from
    faults,         \* faults still allowed
    (* auxiliary *)
    history         \* history[e][n]: rows and generation of epoch e at cursor n

archiveVars == <<epoch, rows, eventSeq, cursor, generation, floor, changes, operations>>
hubVars == <<archiveVars, snapshots, lastSnapshot, backup, faults, history>>

-------------------------------------------------------------------------------
(* Rows, changes, fences, receipts *)

Rows == [total : Totals, tag : Tags \cup {NoTag}, session : Sessions,
         machine : Machines, seq : Nat \ {0}]

Corpus == [Keys -> Rows \cup {NoRow}]
NoRows == [k \in Keys |-> NoRow]
Present(corpus) == {k \in Keys : corpus[k] # NoRow}

\* A stored row: the copy offered, attributed and numbered by the Hub.
Stamp(copy, m, seq) ==
    [total |-> copy.total, tag |-> copy.tag, session |-> copy.session,
     machine |-> m, seq |-> seq]

\* A change: the rows it puts, and the rows it deletes by key and seq.
IsChange(change) ==
    /\ change.generation \in Nat
    /\ DOMAIN change.upserts \subseteq Keys
    /\ \A k \in DOMAIN change.upserts : change.upserts[k] \in Rows
    /\ DOMAIN change.deletes \subseteq Keys

None == [k \in {} |-> 0]

\* DELETE WHERE key AND seq, then INSERT OR UPDATE: a change applied to a corpus.
Applied(corpus, change) ==
    [k \in Keys |->
        IF k \in DOMAIN change.upserts THEN change.upserts[k]
        ELSE IF /\ k \in DOMAIN change.deletes
                /\ corpus[k] # NoRow
                /\ corpus[k].seq = change.deletes[k]
             THEN NoRow
             ELSE corpus[k]]

\* The corpora a consecutive run of changes leads through.
Replay(corpus, from, run, to) ==
    LET at[n \in from .. to] ==
          IF n = from THEN corpus ELSE Applied(at[n - 1], run[n])
    IN  at

Fence == [epoch |-> epoch, generation |-> generation]
Scopes == [machine : Machines, sessions : (SUBSET Sessions) \ {{}}]
Covers(scope, row) == row.machine = scope.machine /\ row.session \in scope.sessions

\* The rows of a pinned snapshot are served in seq order.  `Rank` is a row's
\* 1-based place in that order, so a page is a range of ranks.
Rank(corpus, k) == Cardinality({j \in Present(corpus) : corpus[j].seq <= corpus[k].seq})
Slice(corpus, from, to) == {k \in Present(corpus) : Rank(corpus, k) \in (from + 1) .. to}

-------------------------------------------------------------------------------
(* Initial state: `load` on a missing file creates schema and meta at once. *)

EmptyArchive ==
    [rows |-> NoRows, eventSeq |-> 0, cursor |-> 0, generation |-> 0, floor |-> 0,
     changes |-> None, operations |-> [o \in Ops |-> NoReceipt],
     states |-> [n \in {0} |-> [rows |-> NoRows, generation |-> 0]]]

HubInit ==
    /\ epoch = 1
    /\ rows = NoRows
    /\ eventSeq = 0 /\ cursor = 0 /\ generation = 0 /\ floor = 0
    /\ changes = None
    /\ operations = [o \in Ops |-> NoReceipt]
    /\ snapshots = {}
    /\ lastSnapshot = 0
    /\ backup = EmptyArchive
    /\ faults = MaxFaults
    /\ history = [e \in {1} |-> EmptyArchive.states]

\* A fault the environment still has to spend.
SpendFault == faults > 0 /\ faults' = faults - 1

-------------------------------------------------------------------------------
(* Appending to the change history *)

\* Mutant: the floor passes the newest change.
PruneTooFar(last) ==
    \E f \in floor .. (last + 1) :
        /\ floor' = f
        /\ IF f = floor THEN faults' = faults ELSE SpendFault

\* `prune`: by age or size, the oldest changes go; the floor is the last gone.
\* When is the environment's choice, so any prefix may go, the newest change
\* included, and each time something goes costs a fault.
Prune(last) ==
    \E f \in floor .. last :
        /\ floor' = f
        /\ IF f = floor THEN faults' = faults ELSE SpendFault

\* `appendChange`: one change, one cursor; a change with deletes raises the
\* Deletion generation; the history is pruned in the same transaction.
AppendChange(corpus, upserts, deletes) ==
    LET gen == IF deletes # None THEN generation + 1 ELSE generation
    IN  /\ cursor < MaxCursor
        /\ rows' = corpus
        /\ cursor' = cursor + 1
        /\ generation' = gen
        /\ Prune(cursor + 1)
        /\ changes' = [n \in (floor' + 1) .. (cursor + 1) |->
                         IF n = cursor + 1
                         THEN [generation |-> gen, upserts |-> upserts, deletes |-> deletes]
                         ELSE changes[n]]
        /\ history' = [history EXCEPT ![epoch] =
                         [n \in 0 .. (cursor + 1) |->
                            IF n = cursor + 1 THEN [rows |-> corpus, generation |-> gen]
                            ELSE history[epoch][n]]]

-------------------------------------------------------------------------------
(* POST /api/events *)

\* Mutant: the last copy offered wins.
WinnersLatest(batch) == DOMAIN batch

\* The keys of a batch whose copy the archive takes: absent, or superseded.
Winners(batch) ==
    {k \in DOMAIN batch : rows[k] = NoRow \/ Supersedes(batch[k], rows[k])}

\* Mutant: the change records the batch as offered, its losers included.
PushRecordsBatch(m, fence, batch) ==
    /\ fence = Fence
    /\ LET won == Winners(batch)
           puts == [k \in DOMAIN batch |-> Stamp(batch[k], m, eventSeq + 1)]
       IN  /\ AppendChange([k \in Keys |-> IF k \in won THEN puts[k] ELSE rows[k]], puts, None)
           /\ eventSeq' = eventSeq + 1
           /\ UNCHANGED <<epoch, operations>>
    /\ UNCHANGED <<snapshots, lastSnapshot, backup>>

\* The fence holds: every winner gets the next seq, in the batch's own order,
\* and one change carries them all.  A batch of losers appends nothing.
Push(m, fence, batch) ==
    /\ fence = Fence
    /\ LET won == Winners(batch)
           last == eventSeq + Cardinality(won)
       IN  IF won = {}
           THEN UNCHANGED <<archiveVars, faults, history>>
           ELSE \E seqs \in [won -> (eventSeq + 1) .. last] :
                  /\ \A j, k \in won : seqs[j] = seqs[k] => j = k
                  /\ LET puts == [k \in won |-> Stamp(batch[k], m, seqs[k])]
                     IN  AppendChange([k \in Keys |-> IF k \in won THEN puts[k] ELSE rows[k]],
                                      puts, None)
                  /\ eventSeq' = last
                  /\ UNCHANGED <<epoch, operations>>
    /\ UNCHANGED <<snapshots, lastSnapshot, backup>>

\* 409: the sender has deletions to reconcile first.
PushConflict(fence) == fence # Fence /\ UNCHANGED hubVars

-------------------------------------------------------------------------------
(* POST /api/events/forget and DELETE /api/machines/:id *)

Doomed(scope) == {k \in Present(rows) : Covers(scope, rows[k])}

\* Mutant: the receipt is written before the deletion raises the generation.
RemoveReceiptFirst(op, scope) ==
    /\ operations[op] = NoReceipt
    /\ LET doomed == Doomed(scope)
           gone == [k \in doomed |-> rows[k].seq]
       IN  /\ IF doomed = {}
              THEN UNCHANGED <<rows, cursor, generation, floor, changes, faults, history>>
              ELSE AppendChange([k \in Keys |-> IF k \in doomed THEN NoRow ELSE rows[k]],
                                None, gone)
           /\ operations' = [operations EXCEPT ![op] =
                [scope |-> scope, epoch |-> epoch, generation |-> generation,
                 removed |-> Cardinality(doomed)]]
    /\ UNCHANGED <<epoch, eventSeq, snapshots, lastSnapshot, backup>>

\* `remove`: an operation with a receipt is done, whatever arrived since.
\* Otherwise the rows in scope go as one change, and the receipt is durable
\* in the same transaction, even when nothing matched.
Remove(op, scope) ==
    /\ operations[op] = NoReceipt
    /\ LET doomed == Doomed(scope)
           gone == [k \in doomed |-> rows[k].seq]
       IN  /\ IF doomed = {}
              THEN UNCHANGED <<rows, cursor, generation, floor, changes, faults, history>>
              ELSE AppendChange([k \in Keys |-> IF k \in doomed THEN NoRow ELSE rows[k]],
                                None, gone)
           /\ operations' = [operations EXCEPT ![op] =
                [scope |-> scope, epoch |-> epoch, generation |-> generation',
                 removed |-> Cardinality(doomed)]]
    /\ UNCHANGED <<epoch, eventSeq, snapshots, lastSnapshot, backup>>

\* The retried operation: its stored receipt, or 409 for another scope.
RemoveAgain(op) == operations[op] # NoReceipt /\ UNCHANGED hubVars

-------------------------------------------------------------------------------
(* GET /api/events *)

\* `changes` prunes before it answers.
PruneHistory ==
    /\ Prune(cursor)
    /\ changes' = [n \in (floor' + 1) .. cursor |-> changes[n]]
    /\ UNCHANGED <<epoch, rows, eventSeq, cursor, generation, operations,
                   snapshots, lastSnapshot, backup, history>>

\* 410: `since` is before the retained history, or the history is not this one.
Servable(since, through) ==
    since >= floor' /\ since <= through /\ through <= cursor

\* A page of at most `limit` changes after `since`, up to the fixed `through`.
ChangesPage(since, through, limit) ==
    LET last == IF through < since + limit THEN through ELSE since + limit
    IN  [epoch |-> epoch, seq |-> through, generation |-> generation, floor |-> floor',
         changes |-> [n \in (since + 1) .. last |-> changes[n]],
         complete |-> last = through]

-------------------------------------------------------------------------------
(* GET /api/events/snapshot *)

Oldest(set) == CHOOSE s \in set : \A t \in set : s.id <= t.id

\* Mutant: a snapshot is labelled with the last row seq, not the change cursor.
OpenSnapshotBySeq ==
    /\ lastSnapshot' = lastSnapshot + 1
    /\ snapshots' = {s \in snapshots : s.id = lastSnapshot} \cup
                     {[id |-> lastSnapshot + 1, cursor |-> eventSeq,
                       generation |-> generation, rows |-> rows]}

\* No snapshot is named: the one pinned at this cursor, or a new one, which
\* replaces the older of two.
OpenSnapshot ==
    IF \E s \in snapshots : s.cursor = cursor
    THEN UNCHANGED <<snapshots, lastSnapshot>>
    ELSE /\ lastSnapshot' = lastSnapshot + 1
         /\ LET new == [id |-> lastSnapshot + 1, cursor |-> cursor,
                        generation |-> generation, rows |-> rows]
                kept == IF Cardinality(snapshots) >= 2
                        THEN snapshots \ {Oldest(snapshots)} ELSE snapshots
            IN  snapshots' = kept \cup {new}

\* 410: the snapshot expired, was replaced, or its changes were pruned away.
Pinned(set, id, offset) ==
    \E s \in set : s.id = id /\ s.cursor >= floor /\ offset <= Cardinality(Present(s.rows))

\* Mutant: the pages of a snapshot are in no order.
SnapshotPageUnordered(set, id, offset, limit) ==
    LET snap  == CHOOSE s \in set : s.id = id
        total == Cardinality(Present(snap.rows))
        next  == IF total < offset + limit THEN total ELSE offset + limit
        keys  == CHOOSE S \in SUBSET Present(snap.rows) : Cardinality(S) = next - offset
    IN  [epoch |-> epoch, snapshot |-> id, seq |-> snap.cursor,
         generation |-> snap.generation, offset |-> offset, nextOffset |-> next,
         total |-> total, events |-> [k \in keys |-> snap.rows[k]], complete |-> next = total]

SnapshotPage(set, id, offset, limit) ==
    LET snap  == CHOOSE s \in set : s.id = id
        total == Cardinality(Present(snap.rows))
        next  == IF total < offset + limit THEN total ELSE offset + limit
    IN  [epoch |-> epoch, snapshot |-> id, seq |-> snap.cursor,
         generation |-> snap.generation, offset |-> offset, nextOffset |-> next,
         total |-> total,
         events |-> [k \in Slice(snap.rows, offset, next) |-> snap.rows[k]],
         complete |-> next = total]

\* The TTL passed: the snapshot is gone at the next snapshot request.
ExpireSnapshot ==
    /\ SpendFault
    /\ \E s \in snapshots : snapshots' = snapshots \ {s}
    /\ UNCHANGED <<archiveVars, lastSnapshot, backup, history>>

-------------------------------------------------------------------------------
(* The Hub's process and its operator *)

\* A crash or a restart: the file is as the last commit left it.
RestartHub ==
    /\ SpendFault
    /\ snapshots # {}
    /\ snapshots' = {}
    /\ UNCHANGED <<archiveVars, lastSnapshot, backup, history>>

\* The operator copies the stopped Hub's data dir.
TakeBackup ==
    /\ epoch < MaxEpoch
    /\ SpendFault
    /\ backup' = [rows |-> rows, eventSeq |-> eventSeq, cursor |-> cursor,
                  generation |-> generation, floor |-> floor, changes |-> changes,
                  operations |-> operations, states |-> history[epoch]]
    /\ snapshots' = {}
    /\ UNCHANGED <<archiveVars, lastSnapshot, history>>

\* Mutant: the restored archive counts its seqs anew, from the rows it holds.
RestoreRecounts ==
    /\ epoch < MaxEpoch
    /\ epoch' = epoch + 1
    /\ rows' = backup.rows
    /\ eventSeq' = Cardinality(Present(backup.rows))
    /\ cursor' = backup.cursor
    /\ generation' = backup.generation
    /\ floor' = backup.floor
    /\ changes' = backup.changes
    /\ operations' = backup.operations
    /\ snapshots' = {}
    /\ history' = [e \in 1 .. (epoch + 1) |->
                     IF e = epoch + 1 THEN backup.states ELSE history[e]]
    /\ UNCHANGED <<lastSnapshot, backup, faults>>

\* `restoreCopy`: the backup's rows, seqs, cursor, floor, generation and
\* receipts, under a fresh epoch.
Restore ==
    /\ epoch < MaxEpoch
    /\ epoch' = epoch + 1
    /\ rows' = backup.rows
    /\ eventSeq' = backup.eventSeq
    /\ cursor' = backup.cursor
    /\ generation' = backup.generation
    /\ floor' = backup.floor
    /\ changes' = backup.changes
    /\ operations' = backup.operations
    /\ snapshots' = {}
    /\ history' = [e \in 1 .. (epoch + 1) |->
                     IF e = epoch + 1 THEN backup.states ELSE history[e]]
    /\ UNCHANGED <<lastSnapshot, backup, faults>>

-------------------------------------------------------------------------------
(* The archive on its own, under every request a client could send *)

Batches == UNION {[S -> Copies] : S \in (SUBSET Keys) \ {{}}}

SnapshotRequest ==
    OpenSnapshot /\ UNCHANGED <<archiveVars, backup, faults, history>>

HubNext ==
    \/ \E m \in Machines, batch \in Batches : Push(m, Fence, batch)
    \/ \E e \in DOMAIN history : \E n \in DOMAIN history[e] :
           PushConflict([epoch |-> e, generation |-> history[e][n].generation])
    \/ \E op \in Ops, scope \in Scopes : Remove(op, scope)
    \/ \E op \in Ops : RemoveAgain(op)
    \/ PruneHistory
    \/ SnapshotRequest
    \/ ExpireSnapshot
    \/ RestartHub
    \/ TakeBackup
    \/ Restore

HubSpec == HubInit /\ [][HubNext]_hubVars

-------------------------------------------------------------------------------
(* Properties *)

States == history[epoch]

\* Every variable has its type: the columns of the SQLite tables and of the
\* snapshot map, and the auxiliary history that mirrors the cursor.
HubTypeOK ==
    /\ epoch \in 1 .. MaxEpoch
    /\ rows \in Corpus
    /\ eventSeq \in Nat
    /\ cursor \in Nat /\ generation \in Nat /\ floor \in 0 .. cursor
    /\ DOMAIN changes = (floor + 1) .. cursor
    /\ \A n \in DOMAIN changes : IsChange(changes[n])
    /\ \A op \in Ops : operations[op] # NoReceipt =>
          /\ operations[op].scope \in Scopes
          /\ operations[op].generation \in Nat
    /\ lastSnapshot \in Nat
    /\ \A s \in snapshots : s.id \in 1 .. lastSnapshot /\ s.rows \in Corpus
    /\ faults \in 0 .. MaxFaults
    /\ DOMAIN history = 1 .. epoch
    /\ DOMAIN States = 0 .. cursor

\* Replaying the retained changes from any cursor a client may still resume
\* from leads to exactly what the archive holds now, deletions included
\* (`appendChange`, `prune`: the 410 below the floor is never too late).
ReplayReachesHead ==
    \A n \in floor .. cursor : Replay(States[n].rows, n, changes, cursor)[cursor] = rows

\* A pinned snapshot is the archive as it was at the cursor it names, whatever
\* was pushed, deleted or pruned since (`snapshotPage`), so a reader that
\* finishes it and resumes after that cursor has missed nothing.
SnapshotIsPinned ==
    \A s \in snapshots :
        /\ s.cursor \in DOMAIN States
        /\ States[s.cursor] = [rows |-> s.rows, generation |-> s.generation]

\* A seq names one row for the whole life of an epoch: it is never minted
\* again after a deletion or a restore, so `DELETE WHERE key AND seq` can
\* only remove the very row the Hub removed.
SeqNamesOneRow ==
    \A n, p \in DOMAIN States : \A j, k \in Keys :
        LET a == States[n].rows[j]
            b == States[p].rows[k]
        IN  a # NoRow /\ b # NoRow /\ a.seq = b.seq => j = k /\ a = b

\* A receipt is exact: the generation it names was opened by the very deletion
\* it counts, after which no row in its scope was left.  A client that has
\* reached that generation has seen the whole deletion (`remove`; `forgetInner`
\* waits for this generation), also when the receipt came out of a backup.
ReceiptIsExact ==
    \A op \in Ops :
        LET receipt == operations[op]
        IN  receipt # NoReceipt /\ receipt.removed > 0 =>
              \E n \in DOMAIN States \ {0} :
                /\ States[n].generation = receipt.generation
                /\ States[n - 1].generation = receipt.generation - 1
                /\ receipt.removed = Cardinality({k \in Present(States[n - 1].rows) :
                                          Covers(receipt.scope, States[n - 1].rows[k])})
                /\ \A k \in Present(States[n].rows) : ~Covers(receipt.scope, States[n].rows[k])

\* Within an epoch a key's copy only gets fuller.  It shrinks or goes only in
\* a step that raises the Deletion generation and stores a new receipt, so a
\* retried deletion never touches what was contributed after it ran.
LosesByDeletion ==
    epoch' = epoch =>
      \A k \in Present(rows) :
         \/ rows'[k] # NoRow /\ AtLeast(rows'[k], rows[k])
         \/ /\ generation' = generation + 1
            /\ \E op \in Ops : operations[op] = NoReceipt /\ operations'[op] # NoReceipt

OnlyADeletionLoses == [][LosesByDeletion]_hubVars
===============================================================================
