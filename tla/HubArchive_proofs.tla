--------------------------- MODULE HubArchive_proofs ---------------------------
(***************************************************************************)
(* The Hub's archive of record, proved for every set of keys, machines and *)
(* operations and every bound.  The inductive invariant HubInv says that   *)
(* the retained changes are exactly the steps of the archive's history     *)
(* from the floor to the head, in the file and in the backup alike, and    *)
(* that every pinned snapshot is one state of that history.  TimelineInv   *)
(* adds what the history itself is: seqs never minted twice, generations   *)
(* that never fall, every receipt at its own deletion, and a backup that   *)
(* is a beginning of an archive there was.                                 *)
(***************************************************************************)
EXTENDS HubArchive, FiniteSetTheorems, WellFoundedInduction, TLAPS

-------------------------------------------------------------------------------
(* The inductive invariant *)

\* An archive of rows `rs` at cursor `cu`, its retained changes `ch` after
\* `fl`, and what it held at each cursor, `st`.
HistoryOK(rs, cu, ge, fl, ch, st) ==
    /\ rs \in Corpus /\ cu \in Nat /\ ge \in Nat /\ fl \in 0 .. cu
    /\ DOMAIN ch = (fl + 1) .. cu
    /\ \A n \in DOMAIN ch : IsChange(ch[n])
    /\ DOMAIN st = 0 .. cu
    /\ st[cu] = [rows |-> rs, generation |-> ge]
    /\ \A n \in (fl + 1) .. cu : st[n].rows = Applied(st[n - 1].rows, ch[n])

ReceiptsOK(ops) ==
    /\ ops = [op \in Ops |-> ops[op]]
    /\ \A op \in Ops : ops[op] # NoReceipt =>
          ops[op].scope \in Scopes /\ ops[op].generation \in Nat

FileOK ==
    /\ epoch \in 1 .. MaxEpoch
    /\ eventSeq \in Nat
    /\ history = [e \in 1 .. epoch |-> history[e]]
    /\ HistoryOK(rows, cursor, generation, floor, changes, history[epoch])
    /\ ReceiptsOK(operations)

BackupOK ==
    /\ backup.eventSeq \in Nat
    /\ HistoryOK(backup.rows, backup.cursor, backup.generation, backup.floor,
                 backup.changes, backup.states)
    /\ ReceiptsOK(backup.operations)

SnapshotsOK ==
    /\ lastSnapshot \in Nat
    /\ \A s \in snapshots :
          /\ s.id \in 1 .. lastSnapshot
          /\ s.rows \in Corpus
          /\ s.cursor \in 0 .. cursor
          /\ history[epoch][s.cursor] = [rows |-> s.rows, generation |-> s.generation]

HubInv == FileOK /\ BackupOK /\ SnapshotsOK /\ faults \in 0 .. MaxFaults

-------------------------------------------------------------------------------
(* Rows and changes *)

\* A stored row is a record of its own, never the mark of an absent key.
LEMMA RowParts ==
    ASSUME NEW row \in Rows
    PROVE  row.total \in Nat /\ row.tag \in Nat /\ row.seq \in Nat \ {0} /\ row # NoRow
<1>1. /\ row = [total |-> row.total, tag |-> row.tag, session |-> row.session,
                machine |-> row.machine, seq |-> row.seq]
      /\ row.total \in Totals /\ row.tag \in Tags \cup {NoTag} /\ row.session \in Sessions
      /\ row.machine \in Machines /\ row.seq \in Nat \ {0}
  BY DEF Rows
<1>2. row.total \in Nat /\ row.tag \in Nat
  BY <1>1, DedupAssumption DEF NoTag
<1>3. row \in [total : Nat, tag : Nat, session : Sessions, machine : Machines, seq : Nat]
  BY <1>1, <1>2
<1> QED
  BY <1>1, <1>2, <1>3, HubAssumption

\* A copy's parts are numbers.
LEMMA CopyParts ==
    ASSUME NEW copy \in Copies
    PROVE  copy.total \in Nat /\ copy.tag \in Nat
<1>1. copy.total \in Totals /\ copy.tag \in Tags \cup {0}
  BY DEF Copies, NoTag
<1>2. Totals \subseteq Nat /\ Tags \cup {0} \subseteq Nat
  BY DedupAssumption
<1> QED
  BY <1>1, <1>2, Zenon

\* What the Hub stores of a copy is a row.
LEMMA StampIsRow ==
    ASSUME NEW copy \in Copies, NEW m \in Machines, NEW seq \in Nat \ {0}
    PROVE  Stamp(copy, m, seq) \in Rows
<1>1. copy.total \in Totals /\ copy.tag \in Tags \cup {NoTag} /\ copy.session \in Sessions
  BY DEF Copies
<1> QED
  BY <1>1 DEF Stamp, Rows

\* Any set of keys is finite, so its size is a number.
LEMMA KeysCount ==
    ASSUME NEW S \in SUBSET Keys
    PROVE  Cardinality(S) \in Nat
BY HubAssumption, FS_Subset, FS_CardinalityType

\* Applying a change to a corpus gives a corpus.
LEMMA AppliedIsCorpus ==
    ASSUME NEW corpus \in Corpus, NEW change, IsChange(change)
    PROVE  Applied(corpus, change) \in Corpus
BY DEF Applied, Corpus, IsChange

-------------------------------------------------------------------------------
(* Pruning and appending *)

LEMMA PruneMovesFloor ==
    ASSUME HubInv, NEW last \in Nat, floor \in 0 .. last, Prune(last)
    PROVE  floor' \in floor .. last /\ faults' \in 0 .. MaxFaults
<1>1. PICK f \in floor .. last :
        floor' = f /\ IF f = floor THEN faults' = faults ELSE SpendFault
  BY DEF Prune
<1> QED
  BY <1>1, HubAssumption DEF HubInv, SpendFault

\* A retained change that is not the new one was retained before.
LEMMA EarlierChange ==
    ASSUME NEW last \in Nat, NEW old \in 0 .. last, NEW new \in old .. (last + 1),
           NEW n \in (new + 1) .. (last + 1), n # last + 1
    PROVE  n \in (old + 1) .. last /\ n - 1 \in 0 .. last
OBVIOUS

\* One change appended, with what it does to the rows, extends the history by
\* one state and leaves every earlier one as it was.
LEMMA AppendKeepsHistory ==
    ASSUME HubInv, NEW corpus, NEW upserts, NEW deletes,
           AppendChange(corpus, upserts, deletes), epoch' = epoch,
           IsChange([generation |-> 0, upserts |-> upserts, deletes |-> deletes]),
           corpus = Applied(rows, [generation |-> 0, upserts |-> upserts, deletes |-> deletes])
    PROVE  /\ HistoryOK(rows, cursor, generation, floor, changes, history[epoch])'
           /\ history' = [e \in 1 .. epoch |-> history'[e]]
           /\ cursor' = cursor + 1
           /\ \A n \in 0 .. cursor : history'[epoch][n] = history[epoch][n]
           /\ faults' \in 0 .. MaxFaults
<1> DEFINE gen == IF deletes # None THEN generation + 1 ELSE generation
           new == [generation |-> gen, upserts |-> upserts, deletes |-> deletes]
           st == history[epoch]
           states == [n \in 0 .. (cursor + 1) |->
                        IF n = cursor + 1 THEN [rows |-> corpus, generation |-> gen]
                        ELSE st[n]]
<1>1. /\ HistoryOK(rows, cursor, generation, floor, changes, st)
      /\ epoch \in 1 .. MaxEpoch /\ history = [e \in 1 .. epoch |-> history[e]]
  BY DEF HubInv, FileOK
<1>2. /\ rows' = corpus /\ cursor' = cursor + 1 /\ generation' = gen /\ Prune(cursor + 1)
      /\ changes' = [n \in (floor' + 1) .. (cursor + 1) |->
                       IF n = cursor + 1 THEN new ELSE changes[n]]
      /\ history' = [history EXCEPT ![epoch] = states]
  BY Zenon DEF AppendChange
<1>3. cursor \in Nat /\ floor \in 0 .. cursor /\ generation \in Nat /\ gen \in Nat
  BY <1>1 DEF HistoryOK
<1>4. floor' \in floor .. (cursor + 1) /\ faults' \in 0 .. MaxFaults
  <2>1. cursor + 1 \in Nat /\ floor \in 0 .. (cursor + 1)
    BY <1>3
  <2> QED
    BY <2>1, <1>2, PruneMovesFloor
<1>5. history'[epoch] = states /\ history' = [e \in 1 .. epoch |-> history'[e]]
  <2>1. DOMAIN history = 1 .. epoch /\ epoch \in 1 .. epoch
    BY <1>1, HubAssumption
  <2> HIDE DEF states
  <2> QED
    BY <1>2, <2>1
<1>6. rows \in Corpus /\ corpus \in Corpus /\ corpus = Applied(rows, new)
  <2>1. corpus = Applied(rows, new)
    BY DEF Applied
  <2>2. IsChange(new)
    BY <1>3 DEF IsChange
  <2> QED
    BY <1>1, <2>1, <2>2, AppliedIsCorpus DEF HistoryOK
<1>7. \A n \in DOMAIN changes' : IsChange(changes'[n])
  <2> SUFFICES ASSUME NEW n \in (floor' + 1) .. (cursor + 1)
               PROVE  IsChange(changes'[n])
    BY <1>2
  <2>1. CASE n = cursor + 1
    <3>1. changes'[n] = new
      BY <1>2, <2>1
    <3> QED
      BY <1>3, <3>1 DEF IsChange
  <2>2. CASE n # cursor + 1
    <3>1. changes'[n] = changes[n]
      BY <1>2, <2>2
    <3>2. n \in (floor + 1) .. cursor
      BY <1>3, <1>4, <2>2, EarlierChange
    <3> QED
      BY <1>1, <3>1, <3>2 DEF HistoryOK
  <2> QED
    BY <2>1, <2>2
<1>8. \A n \in (floor' + 1) .. (cursor + 1) :
         states[n].rows = Applied(states[n - 1].rows, changes'[n])
  <2> SUFFICES ASSUME NEW n \in (floor' + 1) .. (cursor + 1)
               PROVE  states[n].rows = Applied(states[n - 1].rows, changes'[n])
    OBVIOUS
  <2>1. CASE n = cursor + 1
    <3>1. states[n].rows = corpus /\ changes'[n] = new
      BY <1>2, <1>3, <2>1
    <3>2. states[n - 1] = st[cursor] /\ st[cursor].rows = rows
      BY <1>1, <1>3, <2>1 DEF HistoryOK
    <3> QED
      BY <3>1, <3>2, <1>6
  <2>2. CASE n # cursor + 1
    <3>1. changes'[n] = changes[n]
      BY <1>2, <2>2
    <3>2. n \in (floor + 1) .. cursor /\ n - 1 \in 0 .. cursor
      BY <1>3, <1>4, <2>2, EarlierChange
    <3>3. states[n] = st[n] /\ states[n - 1] = st[n - 1]
      BY <1>3, <3>2
    <3>4. st[n].rows = Applied(st[n - 1].rows, changes[n])
      BY <1>1, <3>2 DEF HistoryOK
    <3> QED
      BY <3>1, <3>3, <3>4
  <2> QED
    BY <2>1, <2>2
<1>9. HistoryOK(corpus, cursor + 1, gen, floor', changes', states)
  <2>1. states[cursor + 1] = [rows |-> corpus, generation |-> gen] /\ DOMAIN states = 0 .. (cursor + 1)
    BY <1>3
  <2>2. DOMAIN changes' = (floor' + 1) .. (cursor + 1) /\ floor' \in 0 .. (cursor + 1)
    BY <1>2, <1>3, <1>4
  <2>3. cursor + 1 \in Nat
    BY <1>3
  <2> HIDE DEF states, gen
  <2> QED
    BY <2>1, <2>2, <2>3, <1>3, <1>6, <1>7, <1>8, Zenon DEF HistoryOK
<1>10. HistoryOK(rows, cursor, generation, floor, changes, history[epoch])'
  <2> HIDE DEF states, gen
  <2> QED
    BY <1>2, <1>5, <1>9 DEF HistoryOK
<1>11. \A n \in 0 .. cursor : history'[epoch][n] = st[n]
  BY <1>3, <1>5
<1> QED
  BY <1>2, <1>4, <1>5, <1>10, <1>11

\* Snapshots pinned before the history grew are states of it still.
LEMMA AppendKeepsSnapshots ==
    ASSUME HubInv, epoch' = epoch, cursor' = cursor + 1,
           \A n \in 0 .. cursor : history'[epoch][n] = history[epoch][n],
           snapshots' = snapshots, lastSnapshot' = lastSnapshot
    PROVE  SnapshotsOK'
<1>1. cursor \in Nat /\ SnapshotsOK
  BY DEF HubInv, FileOK, HistoryOK
<1>2. ASSUME NEW s \in snapshots
      PROVE  /\ s.id \in 1 .. lastSnapshot /\ s.rows \in Corpus
             /\ s.cursor \in 0 .. (cursor + 1)
             /\ history'[epoch][s.cursor] = [rows |-> s.rows, generation |-> s.generation]
  BY <1>1 DEF SnapshotsOK
<1> QED
  BY <1>1, <1>2 DEF SnapshotsOK

-------------------------------------------------------------------------------
(* Every operation keeps the invariant *)

\* The winners of a batch become rows, each under a seq of its own.
LEMMA PushKeepsHubInv ==
    ASSUME HubInv, NEW m \in Machines, NEW fence, NEW batch \in Batches, Push(m, fence, batch)
    PROVE  HubInv'
<1> DEFINE won == Winners(batch)
           last == eventSeq + Cardinality(won)
           corpus(puts) == [k \in Keys |-> IF k \in won THEN puts[k] ELSE rows[k]]
<1>1. DOMAIN batch \subseteq Keys /\ \A k \in DOMAIN batch : batch[k] \in Copies
  BY DEF Batches
<1>2. won \subseteq DOMAIN batch /\ Cardinality(won) \in Nat
  BY <1>1, KeysCount DEF Winners
<1>3. snapshots' = snapshots /\ lastSnapshot' = lastSnapshot /\ backup' = backup
  BY DEF Push
<1>4. CASE won = {}
  <2>1. UNCHANGED hubVars
    BY <1>3, <1>4 DEF Push, hubVars
  <2> QED
    BY <2>1 DEF hubVars, archiveVars, HubInv, FileOK, BackupOK, SnapshotsOK
<1>5. CASE won # {}
  <2>1. PICK seqs \in [won -> (eventSeq + 1) .. last] :
          LET puts == [k \in won |-> Stamp(batch[k], m, seqs[k])]
          IN  /\ AppendChange(corpus(puts), puts, None)
              /\ eventSeq' = last
              /\ UNCHANGED <<epoch, operations>>
    BY <1>5, Zenon DEF Push
  <2> DEFINE puts == [k \in won |-> Stamp(batch[k], m, seqs[k])]
             change == [generation |-> 0, upserts |-> puts, deletes |-> None]
  <2>2. eventSeq \in Nat /\ rows \in Corpus /\ last \in Nat
    BY <1>2 DEF HubInv, FileOK, HistoryOK
  <2>3. \A k \in won : puts[k] \in Rows
    <3> SUFFICES ASSUME NEW k \in won PROVE Stamp(batch[k], m, seqs[k]) \in Rows
      OBVIOUS
    <3>1. seqs[k] \in Nat \ {0} /\ batch[k] \in Copies
      BY <1>1, <1>2, <2>2
    <3> QED
      BY <3>1, StampIsRow
  <2> HIDE DEF puts, last
  <2>4. DOMAIN puts = won
    BY DEF puts
  <2>5. IsChange(change)
    BY <1>1, <1>2, <2>3, <2>4 DEF IsChange, None
  <2>6. corpus(puts) = Applied(rows, change)
    BY <1>1, <1>2, <2>4 DEF Applied, None
  <2>7. AppendChange(corpus(puts), puts, None) /\ eventSeq' = last /\ UNCHANGED <<epoch, operations>>
    BY <2>1 DEF puts
  <2> HIDE DEF corpus, won
  <2>8. /\ HistoryOK(rows, cursor, generation, floor, changes, history[epoch])'
        /\ history' = [e \in 1 .. epoch |-> history'[e]]
        /\ cursor' = cursor + 1
        /\ \A n \in 0 .. cursor : history'[epoch][n] = history[epoch][n]
        /\ faults' \in 0 .. MaxFaults
    BY <2>5, <2>6, <2>7, AppendKeepsHistory
  <2>9. SnapshotsOK'
    BY <1>3, <2>7, <2>8, AppendKeepsSnapshots
  <2>10. FileOK'
    BY <2>2, <2>7, <2>8 DEF HubInv, FileOK, ReceiptsOK
  <2>11. BackupOK'
    BY <1>3 DEF HubInv, BackupOK, HistoryOK, ReceiptsOK
  <2> QED
    BY <2>8, <2>9, <2>10, <2>11 DEF HubInv
<1> QED
  BY <1>4, <1>5

\* A deletion takes the rows of its scope out as one change, and is receipted.
LEMMA RemoveKeepsHubInv ==
    ASSUME HubInv, NEW op \in Ops, NEW scope \in Scopes, Remove(op, scope)
    PROVE  HubInv'
<1> DEFINE doomed == Doomed(scope)
           gone == [k \in doomed |-> rows[k].seq]
           corpus == [k \in Keys |-> IF k \in doomed THEN NoRow ELSE rows[k]]
           change == [generation |-> 0, upserts |-> None, deletes |-> gone]
           receipt == [scope |-> scope, epoch |-> epoch, generation |-> generation',
                       removed |-> Cardinality(doomed)]
<1>1. /\ snapshots' = snapshots /\ lastSnapshot' = lastSnapshot /\ backup' = backup
      /\ epoch' = epoch /\ eventSeq' = eventSeq
      /\ operations' = [operations EXCEPT ![op] = receipt]
  BY DEF Remove
<1>2. doomed \subseteq Present(rows) /\ DOMAIN gone = doomed /\ Present(rows) \subseteq Keys
  BY DEF Doomed, Present
<1>3. \/ UNCHANGED <<rows, cursor, generation, floor, changes, faults, history>>
      \/ AppendChange(corpus, None, gone)
  BY Zenon DEF Remove
<1>4. IsChange(change)
  BY <1>2 DEF IsChange, None
<1>5. corpus = Applied(rows, change)
  BY <1>2 DEF Applied, None, Present
<1> HIDE DEF doomed, gone, corpus
<1>6. /\ HistoryOK(rows, cursor, generation, floor, changes, history[epoch])'
      /\ history' = [e \in 1 .. epoch |-> history'[e]]
      /\ faults' \in 0 .. MaxFaults
      /\ SnapshotsOK'
  <2>1. CASE UNCHANGED <<rows, cursor, generation, floor, changes, faults, history>>
    BY <1>1, <2>1 DEF HubInv, FileOK, HistoryOK, SnapshotsOK
  <2>2. CASE AppendChange(corpus, None, gone)
    BY <1>1, <1>4, <1>5, <2>2, AppendKeepsHistory, AppendKeepsSnapshots
  <2> QED
    BY <1>3, <2>1, <2>2
<1>7. ReceiptsOK(operations)'
  <2>1. generation' \in Nat \/ generation' = generation
    BY <1>6 DEF HistoryOK
  <2>2. receipt.scope \in Scopes /\ receipt.generation \in Nat
    BY <1>6 DEF HistoryOK
  <2> HIDE DEF receipt
  <2> QED
    BY <1>1, <2>2 DEF HubInv, FileOK, ReceiptsOK
<1>8. FileOK'
  BY <1>1, <1>6, <1>7 DEF HubInv, FileOK
<1>9. BackupOK'
  BY <1>1 DEF HubInv, BackupOK, HistoryOK, ReceiptsOK
<1> QED
  BY <1>6, <1>8, <1>9 DEF HubInv

\* What is retained under a higher floor was retained under the lower one.
LEMMA RetainedBefore ==
    ASSUME NEW last \in Nat, NEW old \in 0 .. last, NEW new \in old .. last,
           NEW n \in (new + 1) .. last
    PROVE  n \in (old + 1) .. last
OBVIOUS

\* Pruning moves the floor and keeps the history.
LEMMA PruneHistoryKeepsHubInv ==
    ASSUME HubInv, PruneHistory
    PROVE  HubInv'
<1>1. /\ cursor \in Nat /\ floor \in 0 .. cursor
      /\ HistoryOK(rows, cursor, generation, floor, changes, history[epoch])
  BY DEF HubInv, FileOK, HistoryOK
<1>2. /\ Prune(cursor)
      /\ changes' = [n \in (floor' + 1) .. cursor |-> changes[n]]
      /\ UNCHANGED <<epoch, rows, eventSeq, cursor, generation, operations,
                     snapshots, lastSnapshot, backup, history>>
  BY DEF PruneHistory
<1>3. floor' \in floor .. cursor /\ faults' \in 0 .. MaxFaults
  BY <1>1, <1>2, PruneMovesFloor
<1>4. ASSUME NEW n \in (floor' + 1) .. cursor
      PROVE  n \in (floor + 1) .. cursor /\ changes'[n] = changes[n]
  <2>1. n \in (floor + 1) .. cursor
    BY <1>1, <1>3, RetainedBefore
  <2> QED
    BY <1>2, <2>1
<1>5. DOMAIN changes' = (floor' + 1) .. cursor /\ floor' \in 0 .. cursor
  BY <1>1, <1>2, <1>3
<1>6. HistoryOK(rows, cursor, generation, floor, changes, history[epoch])'
  BY <1>1, <1>2, <1>4, <1>5, Zenon DEF HistoryOK
<1>7. FileOK'
  BY <1>2, <1>6 DEF HubInv, FileOK, ReceiptsOK
<1>8. BackupOK' /\ SnapshotsOK'
  BY <1>2 DEF HubInv, BackupOK, SnapshotsOK, HistoryOK, ReceiptsOK
<1> QED
  BY <1>3, <1>7, <1>8 DEF HubInv

\* A new snapshot is the archive's newest state.
LEMMA OpenKeepsSnapshots ==
    ASSUME HubInv, OpenSnapshot, UNCHANGED <<epoch, cursor, history>>
    PROVE  SnapshotsOK'
<1> DEFINE new == [id |-> lastSnapshot + 1, cursor |-> cursor,
                   generation |-> generation, rows |-> rows]
<1>1. /\ lastSnapshot \in Nat /\ SnapshotsOK /\ rows \in Corpus /\ cursor \in 0 .. cursor
      /\ history[epoch][cursor] = [rows |-> rows, generation |-> generation]
  <2>1. SnapshotsOK /\ FileOK
    BY DEF HubInv
  <2>2. lastSnapshot \in Nat
    BY <2>1 DEF SnapshotsOK
  <2>3. /\ rows \in Corpus /\ cursor \in Nat
        /\ history[epoch][cursor] = [rows |-> rows, generation |-> generation]
    BY <2>1 DEF FileOK, HistoryOK
  <2> QED
    BY <2>1, <2>2, <2>3
<1>2. CASE UNCHANGED <<snapshots, lastSnapshot>>
  BY <1>1, <1>2 DEF SnapshotsOK
<1>3. CASE snapshots' \subseteq snapshots \cup {new} /\ lastSnapshot' = lastSnapshot + 1
  <2>1. new.id \in 1 .. (lastSnapshot + 1) /\ lastSnapshot + 1 \in Nat
    BY <1>1
  <2>2. \A s \in snapshots : s.id \in 1 .. (lastSnapshot + 1)
    <3>1. \A s \in snapshots : s.id \in 1 .. lastSnapshot
      BY <1>1 DEF SnapshotsOK
    <3> QED
      BY <1>1, <3>1
  <2> QED
    BY <1>1, <1>3, <2>1, <2>2 DEF SnapshotsOK
<1> QED
  BY <1>2, <1>3 DEF OpenSnapshot

\* The restored archive is the backup, under an epoch of its own.
LEMMA RestoreKeepsHubInv ==
    ASSUME HubInv, Restore
    PROVE  HubInv'
<1>1. /\ epoch < MaxEpoch /\ epoch' = epoch + 1
      /\ history' = [e \in 1 .. (epoch + 1) |->
                       IF e = epoch + 1 THEN backup.states ELSE history[e]]
      /\ snapshots' = {} /\ lastSnapshot' = lastSnapshot /\ backup' = backup /\ faults' = faults
  BY DEF Restore
<1>2. epoch \in 1 .. MaxEpoch
  BY DEF HubInv, FileOK
<1>3. epoch' \in 1 .. MaxEpoch /\ history'[epoch'] = backup.states
  BY <1>1, <1>2, HubAssumption
<1>4. history' = [e \in 1 .. epoch' |-> history'[e]]
  BY <1>1
<1>5. FileOK'
  BY <1>3, <1>4 DEF HubInv, BackupOK, FileOK, Restore, HistoryOK, ReceiptsOK
<1>6. BackupOK' /\ SnapshotsOK'
  BY <1>1 DEF HubInv, BackupOK, SnapshotsOK, HistoryOK, ReceiptsOK
<1> QED
  BY <1>1, <1>5, <1>6 DEF HubInv

LEMMA HubInitInv == HubInit => HubInv
<1> SUFFICES ASSUME HubInit PROVE HubInv
  OBVIOUS
<1> DEFINE st == [n \in {0} |-> [rows |-> NoRows, generation |-> 0]]
<1>1. NoRows \in Corpus
  BY DEF NoRows, Corpus
<1>2. HistoryOK(NoRows, 0, 0, 0, None, st)
  <2>1. DOMAIN None = (0 + 1) .. 0 /\ DOMAIN st = 0 .. 0
    BY DEF None
  <2>2. st[0] = [rows |-> NoRows, generation |-> 0]
    OBVIOUS
  <2> QED
    BY <1>1, <2>1, <2>2 DEF HistoryOK
<1>3. ReceiptsOK([o \in Ops |-> NoReceipt])
  BY DEF ReceiptsOK
<1>4. history[epoch] = st /\ history = [e \in 1 .. epoch |-> history[e]]
  BY DEF HubInit, EmptyArchive
<1>5. FileOK
  BY <1>2, <1>3, <1>4, HubAssumption DEF HubInit, FileOK
<1>6. BackupOK
  BY <1>2, <1>3 DEF HubInit, BackupOK, EmptyArchive
<1>7. SnapshotsOK /\ faults \in 0 .. MaxFaults
  BY HubAssumption DEF HubInit, SnapshotsOK
<1> QED
  BY <1>5, <1>6, <1>7 DEF HubInv

\* Every step of the Hub keeps the invariant, also as a part of a larger step.
LEMMA HubStepInv ==
    ASSUME HubInv, [HubNext]_hubVars
    PROVE  HubInv'
<1>1. ASSUME NEW m \in Machines, NEW batch \in Batches, Push(m, Fence, batch)
      PROVE  HubInv'
  BY <1>1, PushKeepsHubInv
<1>2. ASSUME NEW op \in Ops, NEW scope \in Scopes, Remove(op, scope)
      PROVE  HubInv'
  BY <1>2, RemoveKeepsHubInv
<1>3. ASSUME PruneHistory PROVE HubInv'
  BY <1>3, PruneHistoryKeepsHubInv
<1>4. ASSUME SnapshotRequest PROVE HubInv'
  <2>1. SnapshotsOK'
    BY <1>4, OpenKeepsSnapshots DEF SnapshotRequest, archiveVars
  <2> QED
    BY <1>4, <2>1 DEF SnapshotRequest, archiveVars, HubInv, FileOK, BackupOK, HistoryOK, ReceiptsOK
<1>5. ASSUME ExpireSnapshot \/ RestartHub PROVE HubInv'
  <2>1. /\ snapshots' \subseteq snapshots /\ SpendFault
        /\ UNCHANGED <<archiveVars, lastSnapshot, backup, history>>
    BY <1>5 DEF ExpireSnapshot, RestartHub
  <2>2. faults' \in 0 .. MaxFaults
    BY <2>1, HubAssumption DEF HubInv, SpendFault
  <2> QED
    BY <2>1, <2>2 DEF archiveVars, HubInv, FileOK, BackupOK, SnapshotsOK, HistoryOK, ReceiptsOK
<1>6. ASSUME TakeBackup PROVE HubInv'
  <2>1. /\ snapshots' = {} /\ SpendFault /\ UNCHANGED <<archiveVars, lastSnapshot, history>>
    BY <1>6 DEF TakeBackup
  <2>2. BackupOK'
    BY <1>6 DEF TakeBackup, HubInv, FileOK, BackupOK, HistoryOK, ReceiptsOK
  <2>3. faults' \in 0 .. MaxFaults
    BY <2>1, HubAssumption DEF HubInv, SpendFault
  <2> QED
    BY <2>1, <2>2, <2>3 DEF archiveVars, HubInv, FileOK, SnapshotsOK, HistoryOK, ReceiptsOK
<1>7. ASSUME Restore PROVE HubInv'
  BY <1>7, RestoreKeepsHubInv
<1>8. ASSUME UNCHANGED hubVars PROVE HubInv'
  BY <1>8 DEF hubVars, archiveVars, HubInv, FileOK, BackupOK, SnapshotsOK, HistoryOK, ReceiptsOK
<1> QED
  BY <1>1, <1>2, <1>3, <1>4, <1>5, <1>6, <1>7, <1>8 DEF HubNext, PushConflict, RemoveAgain

THEOREM HubInvariant == HubSpec => []HubInv
BY HubInitInv, HubStepInv, PTL DEF HubSpec

-------------------------------------------------------------------------------
(* Types and snapshots *)

\* Every variable has its type in every reachable state.
THEOREM HubTypeCorrect == HubSpec => []HubTypeOK
<1>1. HubInv => HubTypeOK
  BY Zenon DEF HubInv, FileOK, SnapshotsOK, HistoryOK, ReceiptsOK, HubTypeOK, States
<1> QED
  BY <1>1, HubInvariant, PTL

\* A pinned snapshot is one state of the archive's history, the one at the
\* cursor it names (`snapshotPage`).
THEOREM SnapshotIsPinnedHolds == HubSpec => []SnapshotIsPinned
<1>1. HubInv => SnapshotIsPinned
  BY DEF HubInv, FileOK, SnapshotsOK, HistoryOK, SnapshotIsPinned, States
<1> QED
  BY <1>1, HubInvariant, PTL

-------------------------------------------------------------------------------
(* Replaying the changes *)

\* A counterexample over the naturals has a least one.
LEMMA LeastElement ==
    ASSUME NEW S \in SUBSET Nat, S # {}
    PROVE  \E least \in S : \A n \in S : ~(n < least)
<1> DEFINE R == {ss \in Nat \X Nat : ss[1] < ss[2]}
<1>1. R = OpToRel(<, Nat)
  BY DEF OpToRel
<1>2. IsWellFoundedOn(R, Nat)
  BY <1>1, NatLessThanWellFounded
<1>3. \E least \in S : \A n \in S : ~(<<n, least>> \in R)
  <2> HIDE DEF R
  <2> QED
    BY <1>2, WFMin
<1> QED
  BY <1>3

\* Replaying consecutive changes from a state of a history that they are the
\* steps of leads through the states of that history, one by one.
LEMMA ReplayFollows ==
    ASSUME NEW st, NEW run, NEW from \in Nat, NEW to \in Nat, from <= to,
           \A n \in (from + 1) .. to : st[n].rows = Applied(st[n - 1].rows, run[n])
    PROVE  \A n \in from .. to : Replay(st[from].rows, from, run, to)[n] = st[n].rows
<1> DEFINE at == Replay(st[from].rows, from, run, to)
           Steps(f) == f = [n \in from .. to |->
                              IF n = from THEN st[from].rows ELSE Applied(f[n - 1], run[n])]
           wit == [n \in from .. to |-> st[n].rows]
<1>1. Steps(wit)
  <2>1. ASSUME NEW n \in from .. to
        PROVE  wit[n] = IF n = from THEN st[from].rows ELSE Applied(wit[n - 1], run[n])
    <3>1. CASE n = from
      BY <3>1
    <3>2. CASE n # from
      <4>1. n \in (from + 1) .. to /\ n - 1 \in from .. to
        BY <3>2
      <4> QED
        BY <3>2, <4>1
    <3> QED
      BY <3>1, <3>2
  <2> QED
    BY <2>1
<1>2. at = CHOOSE f : Steps(f)
  BY DEF Replay
<1>3. Steps(at)
  <2> HIDE DEF Steps, at
  <2> QED
    BY <1>1, <1>2
<1> HIDE DEF at
<1> DEFINE wrong == {n \in Nat : n \in from .. to /\ at[n] # st[n].rows}
<1>4. wrong = {}
  <2> SUFFICES ASSUME wrong # {} PROVE FALSE
    OBVIOUS
  <2>1. PICK n \in wrong : \A p \in wrong : ~(p < n)
    BY LeastElement
  <2>2. n \in from .. to /\ at[n] # st[n].rows
    OBVIOUS
  <2>3. n # from
    BY <1>3, <2>2
  <2>4. n - 1 \in from .. to /\ n \in (from + 1) .. to /\ n - 1 < n /\ n - 1 \in Nat
    BY <2>2, <2>3
  <2>5. at[n - 1] = st[n - 1].rows
    BY <2>1, <2>4
  <2>6. at[n] = Applied(at[n - 1], run[n])
    BY <1>3, <2>2, <2>3
  <2> QED
    BY <2>2, <2>4, <2>5, <2>6
<1>5. \A n \in from .. to : at[n] = st[n].rows
  BY <1>4
<1> QED
  BY <1>5 DEF at

\* Replaying the retained changes from any cursor a client may still resume
\* from leads to exactly what the archive holds (`appendChange`, `prune`).
THEOREM ReplayReachesHeadHolds == HubSpec => []ReplayReachesHead
<1>1. HubInv => ReplayReachesHead
  <2> SUFFICES ASSUME HubInv, NEW n \in floor .. cursor
               PROVE  Replay(States[n].rows, n, changes, cursor)[cursor] = rows
    BY DEF ReplayReachesHead
  <2>1. /\ cursor \in Nat /\ floor \in 0 .. cursor
        /\ States[cursor].rows = rows
        /\ \A p \in (floor + 1) .. cursor : States[p].rows = Applied(States[p - 1].rows, changes[p])
    <3>1. HistoryOK(rows, cursor, generation, floor, changes, States)
      BY DEF HubInv, FileOK, States
    <3> QED
      BY <3>1 DEF HistoryOK
  <2>2. n \in Nat /\ n <= cursor /\ cursor \in n .. cursor
        /\ \A p \in (n + 1) .. cursor : p \in (floor + 1) .. cursor
    BY <2>1
  <2> DEFINE st == States
  <2>3. \A p \in (n + 1) .. cursor : st[p].rows = Applied(st[p - 1].rows, changes[p])
    BY <2>1, <2>2
  <2> HIDE DEF st
  <2>4. \A p \in n .. cursor : Replay(st[n].rows, n, changes, cursor)[p] = st[p].rows
    <3>1. n \in Nat /\ cursor \in Nat /\ n <= cursor
      BY <2>1, <2>2
    <3> QED
      BY <2>3, <3>1, ReplayFollows, SMT
  <2> QED
    BY <2>1, <2>2, <2>4 DEF st
<1> QED
  BY <1>1, HubInvariant, PTL

-------------------------------------------------------------------------------
(* Nothing is lost but by a deletion *)

LEMMA RowAtLeastItself ==
    ASSUME NEW row \in Rows
    PROVE  AtLeast(row, row)
BY RowParts DEF AtLeast, Supersedes, PartsExceed, TagExceeds

\* One step: rows only get fuller, but by the deletion that stores a receipt.
LEMMA LosesStep ==
    ASSUME HubInv, [HubNext]_hubVars
    PROVE  LosesByDeletion
<1> DEFINE Kept(k) == rows'[k] # NoRow /\ AtLeast(rows'[k], rows[k])
           Lost == /\ generation' = generation + 1
                   /\ \E op \in Ops : operations[op] = NoReceipt /\ operations'[op] # NoReceipt
<1>1. ASSUME HubInv, NEW k \in Present(rows), rows' = rows
      PROVE  Kept(k)
  <2>1. rows[k] \in Rows /\ rows[k] # NoRow
    BY <1>1 DEF HubInv, FileOK, HistoryOK, Corpus, Present
  <2> QED
    BY <1>1, <2>1, RowAtLeastItself
<1>2. ASSUME HubInv, NEW m \in Machines, NEW batch \in Batches, Push(m, Fence, batch),
             NEW k \in Present(rows)
      PROVE  Kept(k)
  <2> DEFINE won == Winners(batch)
  <2>1. CASE won = {}
    BY <1>1, <1>2, <2>1 DEF Push, archiveVars
  <2>2. CASE won # {}
    <3>1. PICK seqs \in [won -> (eventSeq + 1) .. (eventSeq + Cardinality(won))] :
            rows' = [j \in Keys |-> IF j \in won THEN Stamp(batch[j], m, seqs[j]) ELSE rows[j]]
      BY <1>2, <2>2 DEF Push, AppendChange
    <3>2. rows[k] \in Rows /\ rows[k] # NoRow /\ k \in Keys
      BY <1>2 DEF HubInv, FileOK, HistoryOK, Corpus, Present
    <3>3. CASE k \notin won
      BY <3>1, <3>2, <3>3, RowAtLeastItself
    <3>4. CASE k \in won
      <4>1. k \in DOMAIN batch /\ Supersedes(batch[k], rows[k]) /\ batch[k] \in Copies
        BY <1>2, <3>2, <3>4 DEF Winners, Batches
      <4>2. batch[k].total \in Nat /\ batch[k].tag \in Nat
        BY <4>1, CopyParts
      <4>3. rows'[k] = Stamp(batch[k], m, seqs[k])
        BY <3>1, <3>2, <3>4
      <4>4. AtLeast(rows'[k], rows[k])
        BY <3>2, <4>1, <4>2, <4>3, RowParts
           DEF AtLeast, Supersedes, PartsExceed, TagExceeds, NoTag, Stamp
      <4>5. rows'[k] # NoRow
        <5>1. seqs[k] \in Nat \ {0}
          <6>1. eventSeq \in Nat /\ Cardinality(won) \in Nat
            BY <1>2, KeysCount DEF HubInv, FileOK, Winners, Batches
          <6> QED
            BY <3>4, <6>1
        <5>2. rows'[k] \in Rows
          BY <4>1, <4>3, <5>1, StampIsRow
        <5> QED
          BY <5>2, RowParts
      <4> QED
        BY <4>4, <4>5
    <3> QED
      BY <3>3, <3>4
  <2> QED
    BY <2>1, <2>2
<1>3. ASSUME HubInv, NEW op \in Ops, NEW scope \in Scopes, Remove(op, scope),
             NEW k \in Present(rows)
      PROVE  Kept(k) \/ Lost
  <2> DEFINE doomed == Doomed(scope)
             gone == [j \in doomed |-> rows[j].seq]
  <2>1. CASE doomed = {}
    BY <1>1, <1>3, <2>1 DEF Remove
  <2>2. CASE doomed # {}
    <3>1. \E corpus : AppendChange(corpus, None, gone)
      BY <1>3, <2>2 DEF Remove
    <3>2. gone # None
      <4>1. DOMAIN gone = doomed /\ DOMAIN None = {}
        BY DEF None
      <4> QED
        BY <2>2, <4>1
    <3>3. generation' = generation + 1
      BY <3>1, <3>2, Zenon DEF AppendChange
    <3>4. /\ operations[op] = NoReceipt
          /\ operations' = [operations EXCEPT ![op] =
                [scope |-> scope, epoch |-> epoch, generation |-> generation',
                 removed |-> Cardinality(doomed)]]
      BY <1>3 DEF Remove
    <3>5. operations'[op] = [scope |-> scope, epoch |-> epoch, generation |-> generation',
                             removed |-> Cardinality(doomed)]
      BY <1>3, <3>4 DEF HubInv, FileOK, ReceiptsOK
    <3>6. operations'[op] # NoReceipt
      <4>1. /\ scope \in [machine : Machines, sessions : SUBSET Sessions]
            /\ epoch \in Nat /\ generation' \in Nat /\ Cardinality(doomed) \in Nat
        BY <1>3, <3>3, KeysCount, HubAssumption
           DEF HubInv, FileOK, HistoryOK, Scopes, Doomed, Present
      <4> QED
        BY <3>5, <4>1, HubAssumption
    <3> QED
      BY <3>3, <3>4, <3>6
  <2> QED
    BY <2>1, <2>2
<1>4. ASSUME HubInv, [HubNext]_hubVars
      PROVE  epoch' = epoch => \A k \in Present(rows) : Kept(k) \/ Lost
  <2> SUFFICES ASSUME epoch' = epoch, NEW k \in Present(rows)
               PROVE  Kept(k) \/ Lost
    OBVIOUS
  <2> HIDE DEF Kept, Lost
  <2>1. CASE rows' = rows
    BY <1>1, <1>4, <2>1
  <2>2. ASSUME NEW m \in Machines, NEW batch \in Batches, Push(m, Fence, batch)
        PROVE  Kept(k)
    BY <1>2, <1>4, <2>2
  <2>3. ASSUME NEW op \in Ops, NEW scope \in Scopes, Remove(op, scope)
        PROVE  Kept(k) \/ Lost
    BY <1>3, <1>4, <2>3
  <2>4. ASSUME Restore PROVE FALSE
    <3>1. epoch' = epoch + 1 /\ epoch \in Nat
      BY <1>4, <2>4, HubAssumption DEF Restore, HubInv, FileOK
    <3> QED
      BY <3>1
  <2> QED
    BY <1>4, <2>1, <2>2, <2>3, <2>4
       DEF HubNext, hubVars, archiveVars, PushConflict, RemoveAgain, PruneHistory,
           SnapshotRequest, ExpireSnapshot, RestartHub, TakeBackup
<1> QED
  BY <1>4 DEF LosesByDeletion

\* Within an epoch a key's copy only gets fuller, and what goes, goes in the
\* step that raises the Deletion generation and stores its receipt.
THEOREM OnlyADeletionLosesHolds == HubSpec => OnlyADeletionLoses
BY LosesStep, HubInvariant, PTL DEF HubSpec, OnlyADeletionLoses


-------------------------------------------------------------------------------
(* The timeline of an archive *)

\* What an archive held at the cursors 0 .. cu, its seqs minted up to `es`: no
\* seq twice, and a Deletion generation that never falls.
StatesOK(st, cu, es) ==
    /\ \A n \in 0 .. cu : st[n].rows \in Corpus /\ st[n].generation \in Nat
    /\ \A n \in 0 .. cu : \A k \in Keys : st[n].rows[k] # NoRow => st[n].rows[k].seq <= es
    /\ \A n, p \in 0 .. cu : \A j, k \in Keys :
          /\ st[n].rows[j] # NoRow /\ st[p].rows[k] # NoRow
          /\ st[n].rows[j].seq = st[p].rows[k].seq
          => j = k /\ st[n].rows[j] = st[p].rows[k]
    /\ \A n, p \in 0 .. cu : n <= p => st[n].generation <= st[p].generation

\* A retained change names the generation it led to.
ChangesNamed(st, fl, cu, ch) ==
    \A n \in (fl + 1) .. cu : ch[n].generation = st[n].generation

\* The receipt's deletion is the step from n - 1 to n.
ReceiptAt(receipt, st, n) ==
    /\ st[n].generation = receipt.generation
    /\ st[n - 1].generation = receipt.generation - 1
    /\ receipt.removed = Cardinality({k \in Present(st[n - 1].rows) :
                              Covers(receipt.scope, st[n - 1].rows[k])})
    /\ \A k \in Present(st[n].rows) : ~Covers(receipt.scope, st[n].rows[k])

ReceiptsExact(ops, st, cu) ==
    \A op \in Ops : ops[op] # NoReceipt /\ ops[op].removed > 0 =>
        \E n \in 1 .. cu : ReceiptAt(ops[op], st, n)

TimelineOK(st, cu, es, fl, ch, ops) ==
    StatesOK(st, cu, es) /\ ChangesNamed(st, fl, cu, ch) /\ ReceiptsExact(ops, st, cu)

\* What one epoch's archive held at each of its cursors.
ArchiveStates == [rows : Corpus, generation : Nat]

IsHistory(st) ==
    \E m \in Nat :
       /\ st = [n \in 0 .. m |-> st[n]]
       /\ \A n \in 0 .. m : st[n] \in ArchiveStates

\* Every archive there was, and the backup as a beginning of one of them.
PastOK ==
    /\ \A e \in 1 .. epoch : IsHistory(history[e])
    /\ \E e \in 1 .. epoch : \E m \in DOMAIN history[e] :
          backup.states = [n \in 0 .. m |-> history[e][n]]

TimelineInv ==
    /\ TimelineOK(history[epoch], cursor, eventSeq, floor, changes, operations)
    /\ TimelineOK(backup.states, backup.cursor, backup.eventSeq, backup.floor,
                  backup.changes, backup.operations)
    /\ PastOK

\* A state of an archive, once it was, stays in the history of its epoch.
HistoryGrows ==
    /\ epoch <= epoch'
    /\ \A e \in 1 .. epoch : \A n \in DOMAIN history[e] :
          n \in DOMAIN history'[e] /\ history'[e][n] = history[e][n]

-------------------------------------------------------------------------------
\* `st2` is `st` up to the cursor `cu`, and one state more, whose new rows
\* have new seqs of es + 1 .. es2, no two the same.
Extends(st, st2, cu, es, es2, corpus, gen) ==
    /\ cu \in Nat /\ es \in Nat /\ es2 \in Nat /\ es <= es2
    /\ corpus \in Corpus /\ gen \in Nat /\ st[cu].generation <= gen
    /\ \A n \in 0 .. cu : st2[n] = st[n]
    /\ st2[cu + 1] = [rows |-> corpus, generation |-> gen]
    /\ \A k \in Keys : corpus[k] # NoRow =>
          corpus[k] = st[cu].rows[k] \/ corpus[k].seq \in (es + 1) .. es2
    /\ \A j, k \in Keys : /\ corpus[j] # NoRow /\ corpus[k] # NoRow
                          /\ corpus[j].seq > es /\ corpus[j].seq = corpus[k].seq
                          => j = k

\* One more state keeps what its predecessors have.
LEMMA StatesExtended ==
    ASSUME NEW st, NEW st2, NEW cu, NEW es, NEW es2, NEW corpus, NEW gen,
           StatesOK(st, cu, es), Extends(st, st2, cu, es, es2, corpus, gen)
    PROVE  StatesOK(st2, cu + 1, es2)
<1> USE DEF Extends
<1> DEFINE row(n, k) == st2[n].rows[k]
<1>1. \A n \in 0 .. (cu + 1) : n \in 0 .. cu \/ n = cu + 1
  OBVIOUS
<1>2. cu \in 0 .. cu /\ \A n \in 0 .. cu : st2[n].rows = st[n].rows /\ st2[n].generation = st[n].generation
  OBVIOUS
<1>3. st2[cu + 1].rows = corpus /\ st2[cu + 1].generation = gen
  OBVIOUS
<1>4. \A n \in 0 .. (cu + 1) : st2[n].rows \in Corpus /\ st2[n].generation \in Nat
  BY <1>1, <1>2, <1>3 DEF StatesOK
<1>5. \A n \in 0 .. cu : \A k \in Keys : row(n, k) # NoRow => row(n, k) \in Rows /\ row(n, k).seq <= es
  BY <1>2 DEF StatesOK, Corpus
<1>6. \A k \in Keys : row(cu + 1, k) # NoRow =>
         /\ row(cu + 1, k) \in Rows
         /\ row(cu + 1, k) = row(cu, k) \/ row(cu + 1, k).seq \in (es + 1) .. es2
  BY <1>2, <1>3 DEF Corpus
<1>7. \A n \in 0 .. (cu + 1) : \A k \in Keys : row(n, k) # NoRow =>
         row(n, k).seq \in Nat /\ row(n, k).seq <= es2
  <2> SUFFICES ASSUME NEW n \in 0 .. (cu + 1), NEW k \in Keys, row(n, k) # NoRow
               PROVE  row(n, k).seq \in Nat /\ row(n, k).seq <= es2
    OBVIOUS
  <2>1. CASE n \in 0 .. cu
    BY <2>1, <1>5, RowParts
  <2>2. CASE n = cu + 1
    BY <2>2, <1>2, <1>5, <1>6, RowParts
  <2> QED
    BY <1>1, <2>1, <2>2
<1>8. ASSUME NEW n \in 0 .. cu, NEW p \in 0 .. cu, NEW j \in Keys, NEW k \in Keys,
             row(n, j) # NoRow, row(p, k) # NoRow, row(n, j).seq = row(p, k).seq
      PROVE  j = k /\ row(n, j) = row(p, k)
  BY <1>2, <1>8 DEF StatesOK
<1>9. ASSUME NEW n \in 0 .. cu, NEW j \in Keys, NEW k \in Keys,
             row(n, j) # NoRow, row(cu + 1, k) # NoRow, row(n, j).seq = row(cu + 1, k).seq
      PROVE  j = k /\ row(n, j) = row(cu + 1, k)
  <2>1. row(n, j).seq \in Nat /\ row(n, j).seq <= es
    BY <1>5, <1>9, RowParts
  <2>2. row(cu + 1, k) = row(cu, k)
    BY <1>6, <1>9, <2>1
  <2> QED
    BY <1>2, <1>8, <1>9, <2>2
<1>10. ASSUME NEW j \in Keys, NEW k \in Keys,
              row(cu + 1, j) # NoRow, row(cu + 1, k) # NoRow,
              row(cu + 1, j).seq = row(cu + 1, k).seq
       PROVE  j = k /\ row(cu + 1, j) = row(cu + 1, k)
  <2>1. CASE row(cu + 1, j).seq > es
    BY <1>3, <1>10, <2>1
  <2>2. CASE ~(row(cu + 1, j).seq > es)
    <3>1. row(cu + 1, j) = row(cu, j)
      BY <1>6, <1>10, <2>2, RowParts
    <3> QED
      BY <1>2, <1>9, <1>10, <3>1
  <2> QED
    BY <2>1, <2>2
<1>11. \A n, p \in 0 .. (cu + 1) : \A j, k \in Keys :
          /\ row(n, j) # NoRow /\ row(p, k) # NoRow /\ row(n, j).seq = row(p, k).seq
          => j = k /\ row(n, j) = row(p, k)
  <2> SUFFICES ASSUME NEW n \in 0 .. (cu + 1), NEW p \in 0 .. (cu + 1),
                      NEW j \in Keys, NEW k \in Keys,
                      row(n, j) # NoRow, row(p, k) # NoRow, row(n, j).seq = row(p, k).seq
               PROVE  j = k /\ row(n, j) = row(p, k)
    OBVIOUS
  <2> HIDE DEF row
  <2>1. CASE n \in 0 .. cu /\ p \in 0 .. cu
    BY <2>1, <1>8
  <2>2. CASE n \in 0 .. cu /\ p = cu + 1
    BY <2>2, <1>9
  <2>3. CASE n = cu + 1 /\ p \in 0 .. cu
    BY <2>3, <1>9
  <2>4. CASE n = cu + 1 /\ p = cu + 1
    BY <2>4, <1>10
  <2> QED
    BY <1>1, <2>1, <2>2, <2>3, <2>4
<1>12. \A n, p \in 0 .. (cu + 1) : n <= p => st2[n].generation <= st2[p].generation
  <2> SUFFICES ASSUME NEW n \in 0 .. (cu + 1), NEW p \in 0 .. (cu + 1), n <= p
               PROVE  st2[n].generation <= st2[p].generation
    OBVIOUS
  <2>1. CASE p \in 0 .. cu
    BY <2>1, <1>2 DEF StatesOK
  <2>2. CASE p = cu + 1 /\ n \in 0 .. cu
    <3>1. st[n].generation <= st[cu].generation /\ st[n].generation \in Nat /\ st[cu].generation \in Nat
      BY <1>2, <2>2 DEF StatesOK
    <3> QED
      BY <1>2, <1>3, <2>2, <3>1
  <2>3. CASE p = cu + 1 /\ n = cu + 1
    BY <1>3, <2>3
  <2> QED
    BY <1>1, <2>1, <2>2, <2>3
<1> QED
  BY <1>4, <1>7, <1>11, <1>12 DEF StatesOK

\* A receipt stays exact as the archive grows.
LEMMA ReceiptsKept ==
    ASSUME NEW ops, NEW st, NEW st2, NEW cu \in Nat, ReceiptsExact(ops, st, cu),
           \A n \in 0 .. cu : st2[n] = st[n]
    PROVE  ReceiptsExact(ops, st2, cu + 1)
<1> SUFFICES ASSUME NEW op \in Ops, ops[op] # NoReceipt, ops[op].removed > 0
             PROVE  \E n \in 1 .. (cu + 1) : ReceiptAt(ops[op], st2, n)
  BY DEF ReceiptsExact
<1>1. PICK n \in 1 .. cu : ReceiptAt(ops[op], st, n)
  BY DEF ReceiptsExact
<1>2. n \in 0 .. cu /\ n - 1 \in 0 .. cu /\ n \in 1 .. (cu + 1)
  OBVIOUS
<1>3. st2[n] = st[n] /\ st2[n - 1] = st[n - 1]
  BY <1>2
<1> QED
  BY <1>1, <1>2, <1>3 DEF ReceiptAt

-------------------------------------------------------------------------------
(* The steps of the archive *)

LEMMA HubTypes ==
    ASSUME HubInv
    PROVE  /\ epoch \in 1 .. MaxEpoch /\ epoch \in Nat /\ eventSeq \in Nat
           /\ cursor \in Nat /\ generation \in Nat /\ floor \in 0 .. cursor
           /\ rows \in Corpus
           /\ history = [e \in 1 .. epoch |-> history[e]]
           /\ DOMAIN history[epoch] = 0 .. cursor
           /\ history[epoch][cursor] = [rows |-> rows, generation |-> generation]
<1>1. epoch \in 1 .. MaxEpoch /\ MaxEpoch \in Nat
  BY HubAssumption DEF HubInv, FileOK
<1> QED
  BY <1>1 DEF HubInv, FileOK, HistoryOK

\* A change that is appended leaves the whole history as it was, and adds to it.
LEMMA AppendGrows ==
    ASSUME HubInv, NEW corpus, NEW upserts, NEW deletes,
           AppendChange(corpus, upserts, deletes), epoch' = epoch
    PROVE  /\ HistoryGrows
           /\ DOMAIN history'[epoch] = 0 .. (cursor + 1)
           /\ \A n \in 0 .. cursor : history'[epoch][n] = history[epoch][n]
           /\ history'[epoch][cursor + 1] = [rows |-> corpus, generation |-> generation']
           /\ \A e \in 1 .. epoch : e # epoch => history'[e] = history[e]
<1> DEFINE st == [n \in 0 .. (cursor + 1) |->
                    IF n = cursor + 1 THEN [rows |-> corpus, generation |-> generation']
                    ELSE history[epoch][n]]
<1>1. history' = [history EXCEPT ![epoch] = st]
  BY DEF AppendChange
<1>2. /\ history = [e \in 1 .. epoch |-> history[e]] /\ cursor \in Nat
      /\ DOMAIN history[epoch] = 0 .. cursor /\ epoch \in 1 .. epoch
  BY HubTypes
<1>3. history'[epoch] = st /\ \A e \in 1 .. epoch : e # epoch => history'[e] = history[e]
  BY <1>1, <1>2
<1>4. \A n \in 0 .. cursor : n \in 0 .. (cursor + 1) /\ n # cursor + 1
  BY <1>2
<1>5. cursor + 1 \in 0 .. (cursor + 1)
  BY <1>2
<1>6. /\ DOMAIN st = 0 .. (cursor + 1)
      /\ \A n \in 0 .. cursor : st[n] = history[epoch][n]
      /\ st[cursor + 1] = [rows |-> corpus, generation |-> generation']
  BY <1>4, <1>5
<1>7. epoch <= epoch'
  BY HubTypes
<1> HIDE DEF st
<1>8. HistoryGrows
  <2> SUFFICES ASSUME NEW e \in 1 .. epoch, NEW n \in DOMAIN history[e]
               PROVE  n \in DOMAIN history'[e] /\ history'[e][n] = history[e][n]
    BY <1>7 DEF HistoryGrows
  <2>1. CASE e = epoch
    BY <1>2, <1>3, <1>4, <1>6, <2>1
  <2>2. CASE e # epoch
    BY <1>3, <2>2
  <2> QED
    BY <2>1, <2>2
<1> QED
  BY <1>3, <1>6, <1>8

\* The backup stays a beginning of the epoch it was taken of.
LEMMA PastKept ==
    ASSUME PastOK, HistoryGrows, epoch \in Nat, epoch' \in Nat, backup' = backup,
           \A e \in 1 .. epoch' : IsHistory(history'[e])
    PROVE  PastOK'
<1>1. PICK e \in 1 .. epoch : \E m \in DOMAIN history[e] :
               backup.states = [n \in 0 .. m |-> history[e][n]]
  BY DEF PastOK
<1>2. PICK m \in DOMAIN history[e] : backup.states = [n \in 0 .. m |-> history[e][n]]
  BY <1>1
<1>3. PICK last \in Nat : history[e] = [n \in 0 .. last |-> history[e][n]]
  BY DEF PastOK, IsHistory
<1>4. m \in 0 .. last
  BY <1>2, <1>3
<1>5. \A n \in 0 .. m : n \in DOMAIN history[e]
  BY <1>3, <1>4
<1>6. m \in DOMAIN history'[e] /\ \A n \in 0 .. m : history'[e][n] = history[e][n]
  BY <1>5, <1>2 DEF HistoryGrows
<1>7. [n \in 0 .. m |-> history[e][n]] = [n \in 0 .. m |-> history'[e][n]]
  BY <1>6
<1>8. e \in 1 .. epoch'
  BY DEF HistoryGrows
<1>9. backup'.states = [n \in 0 .. m |-> history'[e][n]]
  BY <1>2, <1>7
<1> HIDE DEF HistoryGrows
<1> QED
  BY <1>6, <1>8, <1>9, Zenon DEF PastOK

\* A change appended keeps the past, if its own state is a state.
LEMMA AppendKeepsPast ==
    ASSUME HubInv, PastOK, NEW corpus \in Corpus, NEW upserts, NEW deletes,
           AppendChange(corpus, upserts, deletes), epoch' = epoch, backup' = backup
    PROVE  PastOK'
<1>1. /\ HistoryGrows
      /\ DOMAIN history'[epoch] = 0 .. (cursor + 1)
      /\ \A n \in 0 .. cursor : history'[epoch][n] = history[epoch][n]
      /\ history'[epoch][cursor + 1] = [rows |-> corpus, generation |-> generation']
      /\ \A e \in 1 .. epoch : e # epoch => history'[e] = history[e]
  BY AppendGrows
<1>2. epoch \in Nat /\ epoch \in 1 .. epoch /\ cursor \in Nat /\ generation \in Nat
      /\ DOMAIN history[epoch] = 0 .. cursor
  BY HubTypes
<1>3. generation' \in Nat
  BY <1>2 DEF AppendChange
<1>4. IsHistory(history[epoch]) /\ \A e \in 1 .. epoch : IsHistory(history[e])
  BY <1>2 DEF PastOK
<1>5. \A n \in 0 .. cursor : history[epoch][n] \in ArchiveStates
  <2>1. PICK m \in Nat : /\ history[epoch] = [n \in 0 .. m |-> history[epoch][n]]
                         /\ \A n \in 0 .. m : history[epoch][n] \in ArchiveStates
    BY <1>4 DEF IsHistory
  <2>2. DOMAIN history[epoch] = 0 .. m
    BY <2>1
  <2> QED
    BY <1>2, <2>1, <2>2
<1>6. IsHistory(history'[epoch])
  <2>1. \A n \in 0 .. (cursor + 1) : n \in 0 .. cursor \/ n = cursor + 1
    BY <1>2
  <2>2. \A n \in 0 .. (cursor + 1) : history'[epoch][n] \in ArchiveStates
    BY <1>1, <1>3, <1>5, <2>1 DEF ArchiveStates
  <2>3. history'[epoch] = [n \in 0 .. (cursor + 1) |-> history'[epoch][n]]
    <3>1. history' = [history EXCEPT ![epoch] =
                         [n \in 0 .. (cursor + 1) |->
                            IF n = cursor + 1 THEN [rows |-> corpus, generation |-> generation']
                            ELSE history[epoch][n]]]
      BY DEF AppendChange
    <3>2. history = [e \in 1 .. epoch |-> history[e]]
      BY HubTypes
    <3> QED
      BY <1>2, <3>1, <3>2
  <2> QED
    BY <1>2, <2>2, <2>3 DEF IsHistory
<1>7. \A e \in 1 .. epoch' : IsHistory(history'[e])
  BY <1>1, <1>4, <1>6
<1> QED
  BY <1>1, <1>2, <1>7, PastKept

\* The change appended names the generation it led to, and so does every other.
LEMMA AppendKeepsNames ==
    ASSUME HubInv, ChangesNamed(history[epoch], floor, cursor, changes),
           NEW corpus, NEW upserts, NEW deletes,
           AppendChange(corpus, upserts, deletes), epoch' = epoch
    PROVE  ChangesNamed(history'[epoch], floor', cursor', changes')
<1>1. /\ \A n \in 0 .. cursor : history'[epoch][n] = history[epoch][n]
      /\ history'[epoch][cursor + 1] = [rows |-> corpus, generation |-> generation']
  BY AppendGrows
<1>2. cursor \in Nat /\ floor \in 0 .. cursor /\ floor \in 0 .. (cursor + 1) /\ cursor + 1 \in Nat
  BY HubTypes
<1>3. floor' \in floor .. (cursor + 1)
  BY <1>2, PruneMovesFloor DEF AppendChange
<1> SUFFICES ASSUME NEW n \in (floor' + 1) .. (cursor + 1)
             PROVE  changes'[n].generation = history'[epoch][n].generation
  BY DEF ChangesNamed, AppendChange
<1>4. changes'[n] = IF n = cursor + 1
                    THEN [generation |-> generation', upserts |-> upserts, deletes |-> deletes]
                    ELSE changes[n]
  BY DEF AppendChange
<1>5. CASE n = cursor + 1
  BY <1>1, <1>4, <1>5
<1>6. CASE n # cursor + 1
  <2>1. n \in (floor + 1) .. cursor
    BY <1>2, <1>3, <1>6, EarlierChange
  <2>2. n \in 0 .. cursor
    BY <1>2, <2>1
  <2> QED
    BY <1>1, <1>4, <1>6, <2>1, <2>2 DEF ChangesNamed
<1> QED
  BY <1>5, <1>6

\* What a change appended leads to is an archive again.
LEMMA AppendKeepsTimeline ==
    ASSUME HubInv, TimelineInv, NEW corpus \in Corpus, NEW upserts, NEW deletes, NEW last \in Nat,
           AppendChange(corpus, upserts, deletes),
           epoch' = epoch, backup' = backup, eventSeq' = last, eventSeq <= last,
           \A k \in Keys : corpus[k] # NoRow =>
               corpus[k] = rows[k] \/ corpus[k].seq \in (eventSeq + 1) .. last,
           \A j, k \in Keys : /\ corpus[j] # NoRow /\ corpus[k] # NoRow
                              /\ corpus[j].seq > eventSeq /\ corpus[j].seq = corpus[k].seq
                              => j = k
    PROVE  /\ StatesOK(history'[epoch], cursor + 1, last)
           /\ ChangesNamed(history'[epoch], floor', cursor', changes')
           /\ ReceiptsExact(operations, history'[epoch], cursor + 1)
           /\ TimelineOK(backup.states, backup.cursor, backup.eventSeq, backup.floor,
                         backup.changes, backup.operations)'
           /\ PastOK'
           /\ cursor' = cursor + 1
<1>1. /\ StatesOK(history[epoch], cursor, eventSeq)
      /\ ChangesNamed(history[epoch], floor, cursor, changes)
      /\ ReceiptsExact(operations, history[epoch], cursor)
      /\ TimelineOK(backup.states, backup.cursor, backup.eventSeq, backup.floor,
                    backup.changes, backup.operations)
      /\ PastOK
  BY DEF TimelineInv, TimelineOK
<1>2. /\ eventSeq \in Nat /\ cursor \in Nat /\ generation \in Nat
      /\ history[epoch][cursor] = [rows |-> rows, generation |-> generation]
  BY HubTypes
<1>3. /\ \A n \in 0 .. cursor : history'[epoch][n] = history[epoch][n]
      /\ history'[epoch][cursor + 1] = [rows |-> corpus, generation |-> generation']
  BY AppendGrows
<1>4. cursor' = cursor + 1 /\ generation' \in Nat /\ generation <= generation'
  BY <1>2 DEF AppendChange
<1>5. StatesOK(history'[epoch], cursor + 1, last)
  <2>1. history[epoch][cursor].generation <= generation' /\ history[epoch][cursor].rows = rows
    BY <1>2, <1>4
  <2>2. \A k \in Keys : corpus[k] # NoRow =>
           corpus[k] = history[epoch][cursor].rows[k] \/ corpus[k].seq \in (eventSeq + 1) .. last
    BY <2>1
  <2>3. \A j, k \in Keys : /\ corpus[j] # NoRow /\ corpus[k] # NoRow
                           /\ corpus[j].seq > eventSeq /\ corpus[j].seq = corpus[k].seq
                           => j = k
    OBVIOUS
  <2>4. Extends(history[epoch], history'[epoch], cursor, eventSeq, last, corpus, generation')
    BY <1>2, <1>3, <1>4, <2>1, <2>2, <2>3 DEF Extends
  <2> QED
    BY <1>1, <2>4, StatesExtended
<1>6. ReceiptsExact(operations, history'[epoch], cursor + 1)
  BY <1>1, <1>2, <1>3, ReceiptsKept
<1>7. ChangesNamed(history'[epoch], floor', cursor', changes')
  BY <1>1, AppendKeepsNames
<1>8. PastOK'
  BY <1>1, AppendKeepsPast
<1>9. TimelineOK(backup.states, backup.cursor, backup.eventSeq, backup.floor,
                 backup.changes, backup.operations)'
  BY <1>1
<1> QED
  BY <1>4, <1>5, <1>6, <1>7, <1>8, <1>9

LEMMA TimelineUnchanged ==
    ASSUME TimelineInv, UNCHANGED <<epoch, eventSeq, cursor, floor, changes, backup, history>>,
           ReceiptsExact(operations', history[epoch], cursor)
    PROVE  TimelineInv'
<1>1. PastOK'
  <2>1. epoch' = epoch /\ history' = history /\ backup' = backup
    OBVIOUS
  <2>2. PastOK
    BY DEF TimelineInv
  <2> QED
    BY <2>1, <2>2 DEF PastOK
<1>2. TimelineOK(history[epoch], cursor, eventSeq, floor, changes, operations)'
  BY DEF TimelineInv, TimelineOK
<1>3. TimelineOK(backup.states, backup.cursor, backup.eventSeq, backup.floor,
                 backup.changes, backup.operations)'
  BY DEF TimelineInv
<1> QED
  BY <1>1, <1>2, <1>3 DEF TimelineInv

LEMMA PushKeepsTimeline ==
    ASSUME HubInv, TimelineInv, NEW m \in Machines, NEW fence, NEW batch \in Batches,
           Push(m, fence, batch)
    PROVE  TimelineInv'
<1> DEFINE won == Winners(batch)
           last == eventSeq + Cardinality(won)
           corpus(puts) == [k \in Keys |-> IF k \in won THEN puts[k] ELSE rows[k]]
<1>1. DOMAIN batch \subseteq Keys /\ \A k \in DOMAIN batch : batch[k] \in Copies
  BY DEF Batches
<1>2. won \subseteq DOMAIN batch /\ Cardinality(won) \in Nat
  BY <1>1, KeysCount DEF Winners
<1>3. backup' = backup
  BY DEF Push
<1>4. CASE won = {}
  <2>1. UNCHANGED <<archiveVars, history>>
    BY <1>4 DEF Push
  <2>2. ReceiptsExact(operations', history[epoch], cursor)
    BY <2>1 DEF archiveVars, TimelineInv, TimelineOK
  <2> QED
    BY <1>3, <2>1, <2>2, TimelineUnchanged DEF archiveVars
<1>5. CASE won # {}
  <2>1. PICK seqs \in [won -> (eventSeq + 1) .. last] :
          /\ \A j, k \in won : seqs[j] = seqs[k] => j = k
          /\ LET puts == [k \in won |-> Stamp(batch[k], m, seqs[k])]
             IN  AppendChange(corpus(puts), puts, None)
          /\ eventSeq' = last
          /\ UNCHANGED <<epoch, operations>>
    BY <1>5, Zenon DEF Push
  <2> DEFINE puts == [k \in won |-> Stamp(batch[k], m, seqs[k])]
  <2>2. eventSeq \in Nat /\ rows \in Corpus /\ last \in Nat /\ cursor \in Nat /\ eventSeq <= last
    BY <1>2, HubTypes
  <2>3. ASSUME NEW k \in won PROVE puts[k] \in Rows /\ puts[k].seq = seqs[k] /\ seqs[k] \in (eventSeq + 1) .. last
    <3>1. seqs[k] \in (eventSeq + 1) .. last
      BY <2>1
    <3>2. seqs[k] \in Nat \ {0} /\ batch[k] \in Copies
      BY <1>1, <1>2, <2>2, <3>1
    <3> QED
      BY <3>1, <3>2, StampIsRow DEF Stamp
  <2>4. AppendChange(corpus(puts), puts, None) /\ eventSeq' = last /\ epoch' = epoch /\ operations' = operations
    BY <2>1
  <2>5. \A k \in Keys : rows[k] # NoRow => rows[k] \in Rows /\ rows[k].seq \in Nat /\ rows[k].seq <= eventSeq
    <3>1. StatesOK(history[epoch], cursor, eventSeq)
      BY DEF TimelineInv, TimelineOK
    <3>2. history[epoch][cursor].rows = rows /\ cursor \in 0 .. cursor
      BY HubTypes, <2>2
    <3> QED
      BY <2>2, <3>1, <3>2, RowParts DEF StatesOK, Corpus
  <2> HIDE DEF puts, last, won
  <2>6. \A k \in Keys : corpus(puts)[k] = IF k \in won THEN puts[k] ELSE rows[k]
    OBVIOUS
  <2>7. corpus(puts) \in Corpus
    BY <2>2, <2>3 DEF Corpus
  <2> HIDE DEF corpus
  <2>8. \A k \in Keys : corpus(puts)[k] # NoRow =>
          corpus(puts)[k] = rows[k] \/ corpus(puts)[k].seq \in (eventSeq + 1) .. last
    BY <2>3, <2>6
  <2>9. ASSUME NEW j \in Keys, NEW k \in Keys,
               corpus(puts)[j] # NoRow, corpus(puts)[k] # NoRow,
               corpus(puts)[j].seq > eventSeq, corpus(puts)[j].seq = corpus(puts)[k].seq
        PROVE  j = k
    <3>1. j \in won
      BY <2>2, <2>5, <2>6, <2>9
    <3>2. k \in won
      BY <2>2, <2>5, <2>6, <2>9
    <3>3. seqs[j] = seqs[k]
      BY <2>3, <2>6, <2>9, <3>1, <3>2
    <3> QED
      BY <2>1, <3>1, <3>2, <3>3
  <2>10. /\ StatesOK(history'[epoch], cursor + 1, last)
         /\ ChangesNamed(history'[epoch], floor', cursor', changes')
         /\ ReceiptsExact(operations, history'[epoch], cursor + 1)
         /\ TimelineOK(backup.states, backup.cursor, backup.eventSeq, backup.floor,
                       backup.changes, backup.operations)'
         /\ PastOK'
         /\ cursor' = cursor + 1
    BY <1>3, <2>2, <2>4, <2>7, <2>8, <2>9, AppendKeepsTimeline
  <2> QED
    BY <2>4, <2>10 DEF TimelineInv, TimelineOK
<1> QED
  BY <1>4, <1>5

\* The receipt of a deletion names the step it was made in.
LEMMA RemoveKeepsTimeline ==
    ASSUME HubInv, TimelineInv, NEW op \in Ops, NEW scope \in Scopes, Remove(op, scope)
    PROVE  TimelineInv'
<1> DEFINE doomed == Doomed(scope)
           gone == [k \in doomed |-> rows[k].seq]
           corpus == [k \in Keys |-> IF k \in doomed THEN NoRow ELSE rows[k]]
           receipt == [scope |-> scope, epoch |-> epoch, generation |-> generation',
                       removed |-> Cardinality(doomed)]
<1>1. /\ backup' = backup /\ epoch' = epoch /\ eventSeq' = eventSeq
      /\ operations' = [operations EXCEPT ![op] = receipt]
  BY DEF Remove
<1>2. operations = [o \in Ops |-> operations[o]]
  BY DEF HubInv, FileOK, ReceiptsOK
<1>3. operations'[op] = receipt /\ \A o \in Ops : o # op => operations'[o] = operations[o]
  BY <1>1, <1>2
<1>4. /\ eventSeq \in Nat /\ rows \in Corpus /\ cursor \in Nat /\ generation \in Nat
      /\ history[epoch][cursor] = [rows |-> rows, generation |-> generation]
  BY HubTypes
<1>5. CASE doomed = {}
  <2>1. UNCHANGED <<rows, cursor, generation, floor, changes, faults, history>>
    BY <1>5 DEF Remove
  <2>2. receipt.removed = 0 /\ ~(0 > 0)
    BY <1>5, FS_EmptySet
  <2> HIDE DEF receipt
  <2>3. ReceiptsExact(operations, history[epoch], cursor)
    BY DEF TimelineInv, TimelineOK
  <2>4. ReceiptsExact(operations', history[epoch], cursor)
    BY <1>3, <2>2, <2>3 DEF ReceiptsExact
  <2> QED
    BY <1>1, <2>1, <2>4, TimelineUnchanged
<1>6. CASE doomed # {}
  <2>1. AppendChange(corpus, None, gone)
    BY <1>6 DEF Remove
  <2>2. doomed \subseteq Keys /\ DOMAIN gone = doomed
    BY DEF Doomed, Present
  <2>3. corpus \in Corpus /\ \A k \in Keys : corpus[k] = IF k \in doomed THEN NoRow ELSE rows[k]
    BY <1>4 DEF Corpus
  <2>4. generation' = generation + 1
    <3>1. gone # None
      BY <1>6, <2>2 DEF None
    <3> QED
      BY <2>1, <3>1 DEF AppendChange
  <2>5. \A k \in Keys : rows[k] # NoRow => rows[k].seq \in Nat /\ rows[k].seq <= eventSeq
    <3>1. StatesOK(history[epoch], cursor, eventSeq)
      BY DEF TimelineInv, TimelineOK
    <3>2. history[epoch][cursor].rows = rows /\ cursor \in 0 .. cursor
      BY <1>4
    <3> QED
      BY <1>4, <3>1, <3>2, RowParts DEF StatesOK, Corpus
  <2>6. \A k \in Present(corpus) : ~Covers(scope, corpus[k])
    BY <2>3 DEF Doomed, Present
  <2>7. receipt.removed = Cardinality({k \in Present(rows) : Covers(scope, rows[k])})
    BY DEF Doomed
  <2> HIDE DEF corpus, gone, doomed
  <2>8. \A k \in Keys : corpus[k] # NoRow =>
          corpus[k] = rows[k] \/ corpus[k].seq \in (eventSeq + 1) .. eventSeq
    BY <2>3
  <2>9. \A j, k \in Keys : /\ corpus[j] # NoRow /\ corpus[k] # NoRow
                           /\ corpus[j].seq > eventSeq /\ corpus[j].seq = corpus[k].seq
                           => j = k
    BY <1>4, <2>3, <2>5
  <2>10. /\ StatesOK(history'[epoch], cursor + 1, eventSeq)
         /\ ChangesNamed(history'[epoch], floor', cursor', changes')
         /\ ReceiptsExact(operations, history'[epoch], cursor + 1)
         /\ TimelineOK(backup.states, backup.cursor, backup.eventSeq, backup.floor,
                       backup.changes, backup.operations)'
         /\ PastOK'
         /\ cursor' = cursor + 1
    <3>1. eventSeq <= eventSeq
      BY <1>4
    <3> QED
      BY <1>1, <1>4, <2>1, <2>3, <2>8, <2>9, <3>1, AppendKeepsTimeline
  <2>11. /\ \A n \in 0 .. cursor : history'[epoch][n] = history[epoch][n]
         /\ history'[epoch][cursor + 1] = [rows |-> corpus, generation |-> generation']
    BY <1>1, <2>1, AppendGrows
  <2>12. ReceiptAt(receipt, history'[epoch], cursor + 1)
    <3>1. (cursor + 1) - 1 = cursor /\ cursor \in 0 .. cursor /\ generation' - 1 = generation
      BY <1>4, <2>4
    <3>2. /\ history'[epoch][cursor + 1].rows = corpus
          /\ history'[epoch][cursor + 1].generation = receipt.generation
          /\ history'[epoch][cursor].rows = rows
          /\ history'[epoch][cursor].generation = receipt.generation - 1
          /\ receipt.scope = scope
      BY <1>4, <2>11, <3>1
    <3> HIDE DEF receipt
    <3> QED
      BY <2>6, <2>7, <3>1, <3>2 DEF ReceiptAt
  <2>13. ReceiptsExact(operations', history'[epoch], cursor + 1)
    <3>1. cursor + 1 \in 1 .. (cursor + 1)
      BY <1>4
    <3> HIDE DEF receipt
    <3> QED
      BY <1>3, <2>10, <2>12, <3>1 DEF ReceiptsExact
  <2> QED
    BY <1>1, <2>10, <2>13 DEF TimelineInv, TimelineOK
<1> QED
  BY <1>5, <1>6

LEMMA PruneKeepsTimeline ==
    ASSUME HubInv, TimelineInv, PruneHistory
    PROVE  TimelineInv'
<1>1. /\ UNCHANGED <<epoch, eventSeq, cursor, operations, backup, history>>
      /\ changes' = [n \in (floor' + 1) .. cursor |-> changes[n]]
      /\ Prune(cursor)
  BY DEF PruneHistory
<1>2. cursor \in Nat /\ floor \in 0 .. cursor
  BY HubTypes
<1>3. floor' \in floor .. cursor
  BY <1>1, <1>2, PruneMovesFloor
<1>4. ChangesNamed(history[epoch], floor', cursor, changes')
  <2> SUFFICES ASSUME NEW n \in (floor' + 1) .. cursor
               PROVE  changes'[n].generation = history[epoch][n].generation
    BY DEF ChangesNamed
  <2>1. n \in (floor + 1) .. cursor
    BY <1>2, <1>3, RetainedBefore
  <2> QED
    BY <1>1, <2>1 DEF TimelineInv, TimelineOK, ChangesNamed
<1>5. TimelineOK(history[epoch], cursor, eventSeq, floor, changes, operations)'
  BY <1>1, <1>4 DEF TimelineInv, TimelineOK
<1>6. PastOK'
  <2>1. epoch' = epoch /\ history' = history /\ backup' = backup
    BY <1>1
  <2>2. PastOK
    BY DEF TimelineInv
  <2> QED
    BY <2>1, <2>2 DEF PastOK
<1> QED
  BY <1>1, <1>5, <1>6 DEF TimelineInv

LEMMA BackupKeepsTimeline ==
    ASSUME HubInv, TimelineInv, TakeBackup
    PROVE  TimelineInv'
<1>1. /\ UNCHANGED <<archiveVars, history>>
      /\ backup' = [rows |-> rows, eventSeq |-> eventSeq, cursor |-> cursor,
                    generation |-> generation, floor |-> floor, changes |-> changes,
                    operations |-> operations, states |-> history[epoch]]
  BY DEF TakeBackup
<1>2. TimelineOK(history[epoch], cursor, eventSeq, floor, changes, operations)
  BY DEF TimelineInv
<1>3. /\ TimelineOK(history[epoch], cursor, eventSeq, floor, changes, operations)'
      /\ TimelineOK(backup.states, backup.cursor, backup.eventSeq, backup.floor,
                    backup.changes, backup.operations)'
  BY <1>1, <1>2 DEF archiveVars
<1>4. PastOK'
  <2>1. epoch' = epoch /\ history' = history /\ backup'.states = history[epoch]
    BY <1>1 DEF archiveVars
  <2>2. epoch \in 1 .. epoch /\ cursor \in 0 .. cursor /\ DOMAIN history[epoch] = 0 .. cursor
    BY HubTypes
  <2>3. IsHistory(history[epoch])
    BY <2>2 DEF TimelineInv, PastOK
  <2>4. history[epoch] = [n \in 0 .. cursor |-> history[epoch][n]]
    BY <2>2, <2>3 DEF IsHistory
  <2>5. backup'.states = [n \in 0 .. cursor |-> history'[epoch][n]] /\ cursor \in DOMAIN history'[epoch]
    BY <2>1, <2>2, <2>4
  <2>6. \A e \in 1 .. epoch : IsHistory(history[e])
    BY DEF TimelineInv, PastOK
  <2> QED
    BY <2>1, <2>2, <2>5, <2>6 DEF PastOK
<1> QED
  BY <1>3, <1>4 DEF TimelineInv

\* A restored archive is a beginning of one there was, under a new epoch.
LEMMA RestoreGrows ==
    ASSUME HubInv, Restore
    PROVE  /\ HistoryGrows
           /\ history'[epoch'] = backup.states
           /\ \A e \in 1 .. epoch : history'[e] = history[e]
<1>1. /\ epoch' = epoch + 1 /\ epoch \in Nat
      /\ history' = [e \in 1 .. (epoch + 1) |->
                       IF e = epoch + 1 THEN backup.states ELSE history[e]]
  BY HubTypes DEF Restore
<1>2. \A e \in 1 .. epoch : e \in 1 .. (epoch + 1) /\ e # epoch + 1
  BY <1>1
<1>3. epoch + 1 \in 1 .. (epoch + 1) /\ epoch <= epoch'
  BY <1>1
<1>4. history'[epoch'] = backup.states /\ \A e \in 1 .. epoch : history'[e] = history[e]
  BY <1>1, <1>2, <1>3
<1> QED
  BY <1>3, <1>4 DEF HistoryGrows

LEMMA RestoreKeepsTimeline ==
    ASSUME HubInv, TimelineInv, Restore
    PROVE  TimelineInv'
<1>1. /\ epoch' = epoch + 1 /\ epoch \in Nat /\ backup' = backup
      /\ eventSeq' = backup.eventSeq /\ cursor' = backup.cursor /\ floor' = backup.floor
      /\ changes' = backup.changes /\ operations' = backup.operations
  BY HubTypes DEF Restore
<1>2. /\ HistoryGrows
      /\ history'[epoch'] = backup.states
      /\ \A e \in 1 .. epoch : history'[e] = history[e]
  BY RestoreGrows
<1>3. /\ TimelineOK(history[epoch], cursor, eventSeq, floor, changes, operations)'
      /\ TimelineOK(backup.states, backup.cursor, backup.eventSeq, backup.floor,
                    backup.changes, backup.operations)'
  BY <1>1, <1>2 DEF TimelineInv
<1>4. IsHistory(backup.states)
  <2>1. PICK e \in 1 .. epoch : \E m \in DOMAIN history[e] :
                 backup.states = [n \in 0 .. m |-> history[e][n]]
    BY DEF TimelineInv, PastOK
  <2>2. PICK m \in DOMAIN history[e] : backup.states = [n \in 0 .. m |-> history[e][n]]
    BY <2>1
  <2>3. PICK last \in Nat :
          /\ history[e] = [n \in 0 .. last |-> history[e][n]]
          /\ \A n \in 0 .. last : history[e][n] \in ArchiveStates
    BY DEF TimelineInv, PastOK, IsHistory
  <2>4. m \in 0 .. last
    BY <2>2, <2>3
  <2>5. m \in Nat /\ 0 .. m \subseteq 0 .. last
    BY <2>4
  <2>6. \A n \in 0 .. m : backup.states[n] = history[e][n]
    BY <2>2
  <2>7. backup.states = [n \in 0 .. m |-> backup.states[n]]
    BY <2>2
  <2> QED
    BY <2>3, <2>5, <2>6, <2>7 DEF IsHistory
<1>5. \A e \in 1 .. epoch' : IsHistory(history'[e])
  <2> SUFFICES ASSUME NEW e \in 1 .. epoch' PROVE IsHistory(history'[e])
    OBVIOUS
  <2>1. e \in 1 .. epoch \/ e = epoch'
    BY <1>1
  <2> QED
    BY <1>2, <1>4, <2>1 DEF TimelineInv, PastOK
<1>6. PastOK'
  BY <1>1, <1>2, <1>5, PastKept DEF TimelineInv
<1> QED
  BY <1>3, <1>6 DEF TimelineInv

LEMMA TimelineInit == HubInit => TimelineInv
<1> SUFFICES ASSUME HubInit PROVE TimelineInv
  OBVIOUS
<1> DEFINE st == [n \in {0} |-> [rows |-> NoRows, generation |-> 0]]
           ops == [o \in Ops |-> NoReceipt]
<1>1. NoRows \in Corpus /\ \A k \in Keys : NoRows[k] = NoRow
  BY DEF NoRows, Corpus
<1>2. \A n \in 0 .. 0 : st[n] = [rows |-> NoRows, generation |-> 0]
  OBVIOUS
<1> HIDE DEF st
<1>3. StatesOK(st, 0, 0)
  BY <1>1, <1>2 DEF StatesOK
<1>4. ChangesNamed(st, 0, 0, None)
  BY DEF ChangesNamed
<1>5. ReceiptsExact(ops, st, 0)
  BY DEF ReceiptsExact
<1>6. TimelineOK(st, 0, 0, 0, None, ops)
  BY <1>3, <1>4, <1>5 DEF TimelineOK
<1>7. /\ history[epoch] = st /\ epoch = 1 /\ eventSeq = 0 /\ cursor = 0 /\ floor = 0
      /\ changes = None /\ operations = ops
      /\ backup.states = st /\ backup.cursor = 0 /\ backup.eventSeq = 0 /\ backup.floor = 0
      /\ backup.changes = None /\ backup.operations = ops
  BY DEF HubInit, EmptyArchive, st
<1>8. IsHistory(st) /\ st = [n \in 0 .. 0 |-> st[n]] /\ DOMAIN st = 0 .. 0
  <2>1. st = [n \in 0 .. 0 |-> st[n]]
    BY DEF st
  <2> QED
    BY <1>1, <1>2, <2>1 DEF IsHistory, ArchiveStates
<1>9. PastOK
  <2>1. 0 \in DOMAIN history[1] /\ backup.states = [n \in 0 .. 0 |-> history[1][n]]
    BY <1>7, <1>8
  <2>2. \A e \in 1 .. epoch : e = 1
    BY <1>7
  <2> QED
    BY <1>7, <1>8, <2>1, <2>2 DEF PastOK
<1> QED
  BY <1>6, <1>7, <1>9 DEF TimelineInv

\* Every step of the Hub keeps the invariant, also as a part of a larger step.
LEMMA TimelineStep ==
    ASSUME HubInv, TimelineInv, [HubNext]_hubVars
    PROVE  TimelineInv'
<1>1. ASSUME NEW m \in Machines, NEW batch \in Batches, Push(m, Fence, batch)
      PROVE  TimelineInv'
  BY <1>1, PushKeepsTimeline
<1>2. ASSUME NEW op \in Ops, NEW scope \in Scopes, Remove(op, scope)
      PROVE  TimelineInv'
  BY <1>2, RemoveKeepsTimeline
<1>3. ASSUME UNCHANGED <<archiveVars, backup, history>> PROVE TimelineInv'
  <2>1. ReceiptsExact(operations', history[epoch], cursor)
    BY <1>3 DEF archiveVars, TimelineInv, TimelineOK
  <2> QED
    BY <1>3, <2>1, TimelineUnchanged DEF archiveVars
<1>4. ASSUME SnapshotRequest \/ ExpireSnapshot \/ RestartHub \/ UNCHANGED hubVars PROVE TimelineInv'
  BY <1>3, <1>4 DEF SnapshotRequest, ExpireSnapshot, RestartHub, hubVars
<1> QED
  BY <1>1, <1>2, <1>4, PruneKeepsTimeline, BackupKeepsTimeline, RestoreKeepsTimeline
     DEF HubNext, PushConflict, RemoveAgain

\* The inductive invariant of the archive and of its whole past: what every
\* transaction of the store, and every backup and restore, keeps in step.
THEOREM TimelineInvariant == HubSpec => [](HubInv /\ TimelineInv)
<1>1. HubInit => HubInv /\ TimelineInv
  BY HubInitInv, TimelineInit
<1>2. (HubInv /\ TimelineInv) /\ [HubNext]_hubVars => (HubInv /\ TimelineInv)'
  BY HubStepInv, TimelineStep
<1> QED
  BY <1>1, <1>2, PTL DEF HubSpec

\* A seq names one row for the whole life of an epoch (`appendChange`,
\* `restoreCopy`): no deletion and no restore mints it again.
THEOREM SeqNamesOneRowHolds == HubSpec => []SeqNamesOneRow
<1>1. HubInv /\ TimelineInv => SeqNamesOneRow
  <2> SUFFICES ASSUME HubInv, TimelineInv PROVE SeqNamesOneRow
    OBVIOUS
  <2>1. DOMAIN States = 0 .. cursor
    BY HubTypes DEF States
  <2> QED
    BY <2>1 DEF TimelineInv, TimelineOK, StatesOK, SeqNamesOneRow, States
<1> QED
  BY <1>1, TimelineInvariant, PTL

\* A stored receipt names the generation its own deletion opened, and counts
\* what that deletion took (`remove`), also after a restore brought it back.
THEOREM ReceiptIsExactHolds == HubSpec => []ReceiptIsExact
<1>1. HubInv /\ TimelineInv => ReceiptIsExact
  <2> SUFFICES ASSUME HubInv, TimelineInv,
                      NEW op \in Ops, operations[op] # NoReceipt, operations[op].removed > 0
               PROVE  \E n \in DOMAIN States \ {0} : ReceiptAt(operations[op], States, n)
    BY DEF ReceiptIsExact, ReceiptAt
  <2>1. PICK n \in 1 .. cursor : ReceiptAt(operations[op], history[epoch], n)
    BY DEF TimelineInv, TimelineOK, ReceiptsExact
  <2>2. n \in DOMAIN States \ {0}
    BY HubTypes DEF States
  <2> QED
    BY <2>1, <2>2 DEF States
<1> QED
  BY <1>1, TimelineInvariant, PTL

-------------------------------------------------------------------------------
(* What a client may rely on *)

\* Once an archive held something at a cursor, that stays what it held there,
\* for good: pruning, deletions, backups and restores leave it.
LEMMA HistoryStep ==
    ASSUME HubInv, [HubNext]_hubVars
    PROVE  HistoryGrows
<1>1. ASSUME UNCHANGED <<epoch, history>> PROVE HistoryGrows
  BY <1>1, HubTypes DEF HistoryGrows
<1>2. ASSUME NEW m \in Machines, NEW batch \in Batches, Push(m, Fence, batch)
      PROVE  HistoryGrows
  <2>1. CASE UNCHANGED <<epoch, history>>
    BY <1>1, <2>1
  <2>2. CASE ~UNCHANGED <<epoch, history>>
    <3>1. Winners(batch) # {}
      BY <1>2, <2>2 DEF Push, archiveVars
    <3>2. \E corpus, puts : AppendChange(corpus, puts, None) /\ epoch' = epoch
      BY <1>2, <3>1, Zenon DEF Push
    <3> QED
      BY <3>2, AppendGrows
  <2> QED
    BY <2>1, <2>2
<1>3. ASSUME NEW op \in Ops, NEW scope \in Scopes, Remove(op, scope)
      PROVE  HistoryGrows
  <2>1. epoch' = epoch
    BY <1>3 DEF Remove
  <2>2. history' = history \/ \E corpus, gone : AppendChange(corpus, None, gone)
    BY <1>3, Zenon DEF Remove
  <2> QED
    BY <1>1, <2>1, <2>2, AppendGrows
<1>4. ASSUME PruneHistory \/ SnapshotRequest \/ ExpireSnapshot \/ RestartHub \/ TakeBackup
      PROVE  HistoryGrows
  BY <1>1, <1>4 DEF PruneHistory, SnapshotRequest, ExpireSnapshot, RestartHub, TakeBackup, archiveVars
<1>5. ASSUME UNCHANGED hubVars PROVE HistoryGrows
  BY <1>1, <1>5 DEF hubVars, archiveVars
<1> QED
  BY <1>2, <1>3, <1>4, <1>5, RestoreGrows DEF HubNext, PushConflict, RemoveAgain
===============================================================================
