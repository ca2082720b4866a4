-------------------------- MODULE EventSyncPush_proofs --------------------------
(***************************************************************************)
(* Nothing is left behind, proved for every fleet: a client at rest under  *)
(* the Hub's own fence has contributed all it holds.  A key a client holds *)
(* is at every moment marked, in the push under way, or carried by the     *)
(* Hub, unless the client's sources count for another fence than the       *)
(* Hub's; and while the Hub's fence stands, its rows only get fuller, so   *)
(* what a replica or an answer showed once stays carried.                  *)
(***************************************************************************)
EXTENDS EventSync_proofs

-------------------------------------------------------------------------------
(* The inductive invariant *)

\* A corpus holds a key at least as full as a copy, or a row, of it.
Carries(corpus, k, copy) == corpus[k] # NoRow /\ AtLeast(corpus[k], copy)

\* Every row of one corpus is in another, at least as full.
RowsGrow(old, new) == \A k \in Keys : old[k] # NoRow => Carries(new, k, old[k])

\* Between two deletions, the states of an archive only get fuller.
StatesGrow(st) ==
    \A n, p \in DOMAIN st :
        n <= p /\ st[n].generation = st[p].generation => RowsGrow(st[n].rows, st[p].rows)

GrowthInv == \A e \in DOMAIN history : StatesGrow(history[e])

\* A pass will look at the key.
Due(s, k) == s.full \/ k \in s.dirty

\* The push under way still has the key to send, as the client holds it.
Sending(s, own, k) == k \in DOMAIN s.todo /\ s.todo[k] = own[k]

\* Under the fence the sources count for, each key held is due, being sent
\* or carried by the Hub, and what is acknowledged is carried.
Offered(s, own, corpus, f) ==
    s.source = f =>
      /\ \A k \in Held(own) : \/ Due(s, k) \/ Carries(corpus, k, own[k])
                              \/ s.pc = "push" /\ Sending(s, own, k)
      /\ \A k \in Held(s.acked) : Carries(corpus, k, s.acked[k])

\* A push sends, of what is to be sent, copies as they are there, under the
\* fence the sources count for, until a recovery or a deletion voids it.
SendsTodo(s) ==
    s.pc = "push" => /\ s.source = s.fence \/ s.source.generation = -1
                     /\ \A k \in DOMAIN s.sent : s.sent[k] = s.todo[k]

\* A receipt says that the Hub carries the batch.
Receipted(s, answer, corpus, f) ==
    /\ s.pc = "push" /\ answer # NoReply /\ answer.status # "conflict"
    /\ s.source = f
    => \A k \in DOMAIN s.sent : Carries(corpus, k, s.sent[k])

\* A replica has come to a fence's generation.
Abreast(r, f) == r.seeded /\ r.epoch = f.epoch /\ r.generation >= f.generation

\* No row was taken from the replica before it came to the fence pushed under.
Fits(r, f) == r.rows = NoRows \/ Abreast(r, f)

\* A walk under way prepares for a fence the replica has come to.
WalkFits(s, r) == s.pc = "prepare" /\ ~s.stale => Fits(r, s.fence)

\* A page that is being fed, by a pass that is not stale, is the replica's.
FeedFits(s, r, answer) ==
    s.pc = "feed" /\ s.feed # None /\ ~s.stale => r.seeded /\ r.epoch = answer.body.epoch

\* Only a client with a replica pulls; one without asks for the Hub's status.
PullsOwn(c, s, r) ==
    /\ s.pc = "status" => c \notin Replicating
    /\ s.pc \in {"snapshot", "changes", "feed"} => c \in Replicating
    /\ c \notin Replicating => r.rows = NoRows

PushFine(c, s, r, answer, own, corpus, f) ==
    /\ Offered(s, own, corpus, f) /\ SendsTodo(s) /\ Receipted(s, answer, corpus, f)
    /\ WalkFits(s, r) /\ FeedFits(s, r, answer) /\ PullsOwn(c, s, r)

PushInv == \A c \in Clients : PushFine(c, sync[c], replica[c], reply[c], local[c], rows, Fence)

-------------------------------------------------------------------------------
(* Fullness *)

\* Fullness is transitive, for copies and rows alike.
LEMMA FullerThrough ==
    ASSUME NEW a, NEW b, NEW c,
           a.total \in Nat, a.tag \in Nat, b.total \in Nat, b.tag \in Nat,
           c.total \in Nat, c.tag \in Nat, AtLeast(a, b), AtLeast(b, c)
    PROVE  AtLeast(a, c)
BY DEF AtLeast, Supersedes, PartsExceed, TagExceeds, NoTag

LEMMA RowOf ==
    ASSUME NEW corpus \in Corpus, NEW k \in Keys, corpus[k] # NoRow
    PROVE  corpus[k] \in Rows /\ corpus[k].total \in Nat /\ corpus[k].tag \in Nat
<1>1. corpus[k] \in Rows
  BY DEF Corpus
<1> QED
  BY <1>1, RowParts

LEMMA HeldCopy ==
    ASSUME NEW own \in Holdings, NEW k \in Held(own)
    PROVE  /\ k \in Keys /\ own[k] # NoCopy /\ own[k] \in Copies
           /\ own[k].total \in Nat /\ own[k].tag \in Nat
<1>1. k \in Keys /\ own[k] # NoCopy /\ own[k] \in Copies
  BY DEF Held, Holdings
<1> QED
  BY <1>1, CopyParts

\* What a corpus carries, a fuller one carries.
LEMMA CarriedOn ==
    ASSUME NEW old \in Corpus, NEW new \in Corpus, RowsGrow(old, new), NEW k \in Keys,
           NEW copy, copy.total \in Nat, copy.tag \in Nat, Carries(old, k, copy)
    PROVE  Carries(new, k, copy)
<1>1. old[k] # NoRow /\ AtLeast(old[k], copy)
  BY DEF Carries
<1>2. new[k] # NoRow /\ AtLeast(new[k], old[k])
  BY <1>1 DEF RowsGrow, Carries
<1>3. /\ old[k].total \in Nat /\ old[k].tag \in Nat
      /\ new[k].total \in Nat /\ new[k].tag \in Nat
  BY <1>1, <1>2, RowOf
<1>4. AtLeast(new[k], copy)
  BY <1>1, <1>2, <1>3, FullerThrough
<1> QED
  BY <1>2, <1>4 DEF Carries

LEMMA GrowsThrough ==
    ASSUME NEW a \in Corpus, NEW b \in Corpus, NEW c \in Corpus, RowsGrow(a, b), RowsGrow(b, c)
    PROVE  RowsGrow(a, c)
<1> SUFFICES ASSUME NEW k \in Keys, a[k] # NoRow PROVE Carries(c, k, a[k])
  BY DEF RowsGrow
<1>1. a[k].total \in Nat /\ a[k].tag \in Nat
  BY RowOf
<1>2. Carries(b, k, a[k])
  BY DEF RowsGrow
<1> QED
  BY <1>1, <1>2, CarriedOn

LEMMA GrowsItself ==
    ASSUME NEW a \in Corpus
    PROVE  RowsGrow(a, a)
<1> SUFFICES ASSUME NEW k \in Keys, a[k] # NoRow PROVE Carries(a, k, a[k])
  BY DEF RowsGrow
<1>1. AtLeast(a[k], a[k])
  BY RowOf, RowAtLeastItself
<1> QED
  BY <1>1 DEF Carries

LEMMA NothingGrows ==
    ASSUME NEW a
    PROVE  RowsGrow(NoRows, a)
BY DEF RowsGrow, NoRows

-------------------------------------------------------------------------------
(* While the fence stands, the Hub's rows only get fuller *)

LEMMA RowsGrowUnderFence ==
    ASSUME HubInv, HubInv', HubStep, Fence' = Fence
    PROVE  RowsGrow(rows, rows')
<1>1. epoch' = epoch /\ generation' = generation
  BY DEF Fence
<1>2. rows \in Corpus /\ rows' \in Corpus /\ generation \in Nat
  <2>1. rows \in Corpus /\ generation \in Nat
    BY HubTypes
  <2>2. rows' \in Corpus
    BY DEF HubInv, FileOK, HistoryOK
  <2> QED
    BY <2>1, <2>2
<1>3. CASE [HubNext]_hubVars
  <2>1. LosesByDeletion
    BY <1>3, LosesStep
  <2> SUFFICES ASSUME NEW k \in Keys, rows[k] # NoRow PROVE Carries(rows', k, rows[k])
    BY DEF RowsGrow
  <2>2. rows'[k] # NoRow /\ AtLeast(rows'[k], rows[k])
    BY <1>1, <1>2, <2>1 DEF LosesByDeletion, Present
  <2> QED
    BY <2>2 DEF Carries
<1>4. CASE FaultElsewhere
  <2>1. rows' = rows
    BY <1>4 DEF FaultElsewhere, archiveVars
  <2> QED
    BY <1>2, <2>1, GrowsItself
<1> QED
  BY <1>3, <1>4 DEF HubStep

\* The states of one archive are typed, and the last one is the present.
LEMMA StateTypes ==
    ASSUME HubInv, TimelineInv, NEW e \in DOMAIN history, NEW n \in DOMAIN history[e]
    PROVE  history[e][n].rows \in Corpus /\ history[e][n].generation \in Nat /\ n \in Nat
<1>1. history[e][n] \in ArchiveStates /\ n \in Nat
  BY HubFence DEF HubTrue, StatesTrue
<1> QED
  BY <1>1 DEF ArchiveStates

\* One state more: within its generation it is fuller than all before it.
LEMMA AppendKeepsGrowth ==
    ASSUME HubInv, TimelineInv, HubMoves, GrowthInv, HubStep,
           NEW corpus, NEW upserts, NEW deletes, AppendChange(corpus, upserts, deletes),
           epoch' = epoch
    PROVE  GrowthInv'
<1> DEFINE st == history[epoch]
           st2 == history'[epoch]
<1>1. /\ epoch \in Nat /\ cursor \in Nat /\ DOMAIN history = 1 .. epoch /\ DOMAIN st = 0 .. cursor
      /\ epoch \in DOMAIN history
      /\ st[cursor] = [rows |-> rows, generation |-> generation]
      /\ generation \in Nat /\ rows \in Corpus
  <2>1. /\ epoch \in Nat /\ cursor \in Nat /\ DOMAIN history = 1 .. epoch
        /\ DOMAIN history[epoch] = 0 .. cursor
    BY HubFence DEF HubTrue
  <2>2. /\ epoch \in 1 .. MaxEpoch /\ generation \in Nat /\ rows \in Corpus
        /\ history[epoch][cursor] = [rows |-> rows, generation |-> generation]
    BY HubTypes
  <2> QED
    BY <2>1, <2>2
<1>2. /\ DOMAIN st2 = 0 .. (cursor + 1)
      /\ \A n \in 0 .. cursor : st2[n] = st[n]
      /\ st2[cursor + 1] = [rows |-> corpus, generation |-> generation']
      /\ \A e \in 1 .. epoch : e # epoch => history'[e] = history[e]
  BY AppendGrows
<1>3. DOMAIN history' = 1 .. epoch
  <2>1. HubTrue'
    BY HubFence, PTL DEF HubMoves
  <2> QED
    BY <2>1 DEF HubTrue
<1>4. rows' = corpus /\ generation' \in {generation, generation + 1} /\ corpus \in Corpus
  <2>1. HubInv'
    BY DEF HubMoves
  <2>2. rows' = corpus /\ generation' \in {generation, generation + 1}
    BY DEF AppendChange
  <2> QED
    BY <2>1, <2>2 DEF HubInv, FileOK, HistoryOK
<1>5. ASSUME NEW n \in DOMAIN st2, NEW p \in DOMAIN st2, n <= p,
             st2[n].generation = st2[p].generation
      PROVE  RowsGrow(st2[n].rows, st2[p].rows)
  <2>1. CASE p <= cursor
    <3>1. n \in DOMAIN st /\ p \in DOMAIN st /\ st2[n] = st[n] /\ st2[p] = st[p]
      BY <1>1, <1>2, <1>5, <2>1
    <3>2. StatesGrow(st)
      BY <1>1 DEF GrowthInv
    <3> QED
      BY <1>5, <3>1, <3>2 DEF StatesGrow
  <2>2. CASE n = cursor + 1
    <3>1. p = cursor + 1
      BY <1>1, <1>2, <1>5, <2>2
    <3> QED
      BY <1>2, <1>4, <2>2, <3>1, GrowsItself
  <2>3. CASE n <= cursor /\ p > cursor
    <3>1. p = cursor + 1 /\ n \in 0 .. cursor /\ cursor \in 0 .. cursor
      BY <1>1, <1>2, <2>3
    <3>2. st[n].generation \in Nat /\ st[n].rows \in Corpus /\ st[n].generation <= generation
      <4>1. st[n].generation \in Nat /\ st[n].rows \in Corpus
        BY <1>1, <3>1, StateTypes
      <4>2. st[n].generation <= st[cursor].generation
        BY <1>1, <3>1 DEF TimelineInv, TimelineOK, StatesOK
      <4> QED
        BY <1>1, <4>1, <4>2
    <3>3. generation' = generation /\ st[n].generation = generation
      BY <1>1, <1>2, <1>4, <1>5, <3>1, <3>2
    <3>4. RowsGrow(st[n].rows, rows)
      <4>1. StatesGrow(st)
        BY <1>1 DEF GrowthInv
      <4>2. n \in DOMAIN st /\ cursor \in DOMAIN st /\ n <= cursor
            /\ st[n].generation = st[cursor].generation
        BY <1>1, <3>1, <3>3
      <4>3. RowsGrow(st[n].rows, st[cursor].rows)
        BY <4>1, <4>2 DEF StatesGrow
      <4> QED
        BY <1>1, <4>3
    <3>5. RowsGrow(rows, corpus)
      <4>1. Fence' = Fence
        BY <3>3 DEF Fence
      <4>2. RowsGrow(rows, rows')
        BY <4>1, RowsGrowUnderFence DEF HubMoves
      <4> QED
        BY <1>4, <4>2
    <3> QED
      BY <1>1, <1>2, <1>4, <3>1, <3>2, <3>4, <3>5, GrowsThrough
  <2> QED
    BY <1>1, <1>2, <2>1, <2>2, <2>3
<1> HIDE DEF st2
<1>6. StatesGrow(st2)
  BY <1>5 DEF StatesGrow
<1>7. \A e \in DOMAIN history' : StatesGrow(history'[e])
  BY <1>1, <1>2, <1>3, <1>6 DEF GrowthInv, st2
<1> QED
  BY <1>7 DEF GrowthInv, StatesGrow, RowsGrow, Carries

\* A restored archive goes back through a part of an earlier one.
LEMMA RestoreKeepsGrowth ==
    ASSUME HubInv, TimelineInv, HubMoves, GrowthInv, Restore
    PROVE  GrowthInv'
<1>1. DOMAIN history = 1 .. epoch /\ epoch \in Nat
  BY HubFence DEF HubTrue
<1>2. /\ history'[epoch + 1] = backup.states
      /\ \A e \in 1 .. epoch : history'[e] = history[e]
      /\ DOMAIN history' = 1 .. (epoch + 1)
  BY <1>1, RestoreGrows DEF Restore
<1>3. StatesGrow(backup.states)
  <2>1. PICK d \in 1 .. epoch : \E m \in DOMAIN history[d] :
           backup.states = [p \in 0 .. m |-> history[d][p]]
    BY DEF TimelineInv, PastOK
  <2>2. PICK m \in DOMAIN history[d] : backup.states = [p \in 0 .. m |-> history[d][p]]
    BY <2>1
  <2>3. IsHistory(history[d])
    BY DEF TimelineInv, PastOK
  <2>4. PICK top \in Nat : history[d] = [p \in 0 .. top |-> history[d][p]]
    BY <2>3, Zenon DEF IsHistory
  <2>5. DOMAIN history[d] = 0 .. top
    BY <2>4, Zenon
  <2>6. 0 .. m \subseteq DOMAIN history[d]
    BY <2>2, <2>5
  <2>7. StatesGrow(history[d])
    BY <1>1 DEF GrowthInv
  <2> QED
    BY <2>2, <2>6, <2>7 DEF StatesGrow
<1>4. \A e \in DOMAIN history' : StatesGrow(history'[e])
  BY <1>1, <1>2, <1>3 DEF GrowthInv
<1> QED
  BY <1>4 DEF GrowthInv, StatesGrow, RowsGrow, Carries

LEMMA GrowthStep ==
    ASSUME HubInv, TimelineInv, GrowthInv, HubStep
    PROVE  GrowthInv'
<1>1. HubMoves
  BY HubKept
<1>2. CASE UNCHANGED history
  BY <1>2 DEF GrowthInv, StatesGrow, RowsGrow, Carries
<1>3. CASE Restore
  BY <1>1, <1>3, RestoreKeepsGrowth
<1>4. CASE \E corpus, puts, gone : AppendChange(corpus, puts, gone) /\ epoch' = epoch
  BY <1>1, <1>4, AppendKeepsGrowth
<1>5. UNCHANGED history \/ Restore
      \/ \E corpus, puts, gone : AppendChange(corpus, puts, gone) /\ epoch' = epoch
  <2>1. ASSUME NEW m \in Machines, NEW batch \in Batches, Push(m, Fence, batch)
        PROVE  UNCHANGED history
               \/ \E corpus, puts, gone : AppendChange(corpus, puts, gone) /\ epoch' = epoch
    BY <2>1, Zenon DEF Push
  <2>2. ASSUME NEW op \in Ops, NEW scope \in Scopes, Remove(op, scope)
        PROVE  UNCHANGED history
               \/ \E corpus, puts, gone : AppendChange(corpus, puts, gone) /\ epoch' = epoch
    BY <2>2, Zenon DEF Remove
  <2> QED
    BY <2>1, <2>2 DEF HubStep, HubNext, hubVars, FaultElsewhere, PushConflict, RemoveAgain,
       PruneHistory, SnapshotRequest, ExpireSnapshot, RestartHub, TakeBackup
<1> QED
  BY <1>2, <1>3, <1>4, <1>5

\* A replica that has come to the Hub's own fence lacks nothing the Hub held
\* longer than the Hub does: the Hub's rows are its own, or fuller.
LEMMA FitReplica ==
    ASSUME HubInv, TimelineInv, GrowthInv, NEW r, ReplicaType(r), ReplicaTrue(r, history),
           Fits(r, Fence)
    PROVE  r.rows \in Corpus /\ RowsGrow(r.rows, rows)
<1>1. r.rows \in Corpus
  BY DEF ReplicaType
<1>2. CASE r.rows = NoRows
  BY <1>1, <1>2, NothingGrows
<1>3. CASE Abreast(r, Fence)
  <2>1. /\ r.seeded /\ r.epoch = epoch /\ r.generation >= generation
        /\ r.cursor \in DOMAIN history[epoch] /\ epoch \in DOMAIN history
        /\ history[epoch][r.cursor] = [rows |-> r.rows, generation |-> r.generation]
    BY <1>3 DEF Abreast, Fence, ReplicaTrue
  <2>2. /\ DOMAIN history[epoch] = 0 .. cursor /\ cursor \in Nat /\ generation \in Nat
        /\ history[epoch][cursor] = [rows |-> rows, generation |-> generation]
    BY HubTypes
  <2>3. r.cursor <= cursor /\ cursor \in 0 .. cursor /\ r.cursor \in 0 .. cursor
    BY <2>1, <2>2
  <2>4. history[epoch][r.cursor].generation <= history[epoch][cursor].generation
    BY <2>3 DEF TimelineInv, TimelineOK, StatesOK
  <2>5. history[epoch][r.cursor].generation = history[epoch][cursor].generation
    <3>1. r.generation \in Nat
      BY DEF ReplicaType
    <3> QED
      BY <2>1, <2>2, <2>4, <3>1
  <2>6. StatesGrow(history[epoch])
    BY <2>1 DEF GrowthInv
  <2>7. RowsGrow(history[epoch][r.cursor].rows, history[epoch][cursor].rows)
    BY <2>2, <2>3, <2>5, <2>6 DEF StatesGrow
  <2> QED
    BY <1>1, <2>1, <2>2, <2>7
<1> QED
  BY <1>2, <1>3 DEF Fits

\* What is true of a client's push stays true of it while the Hub moves on.
LEMMA PushFineLater ==
    ASSUME NEW c, NEW s, LoopType(s), NEW r, NEW answer, NEW own \in Holdings,
           NEW corpus \in Corpus, NEW corpus2 \in Corpus, NEW f \in Fences, NEW g \in Fences,
           AtOrAfter(g, f), AtOrAfter(f, s.source), g = f => RowsGrow(corpus, corpus2),
           PushFine(c, s, r, answer, own, corpus, f)
    PROVE  PushFine(c, s, r, answer, own, corpus2, g)
<1>1. /\ s.source \in Fences /\ s.acked \in Holdings /\ s.sent \in Parcels
  BY DEF LoopType
<1>2. s.source = g => g = f
  BY <1>1 DEF AtOrAfter, Fences
<1>3. ASSUME s.source = g, NEW k \in Keys, NEW copy, copy.total \in Nat, copy.tag \in Nat,
             Carries(corpus, k, copy)
      PROVE  Carries(corpus2, k, copy)
  BY <1>2, <1>3, CarriedOn
<1>4. Offered(s, own, corpus2, g)
  <2> SUFFICES ASSUME s.source = g
               PROVE  /\ \A k \in Held(own) :
                            \/ Due(s, k) \/ Carries(corpus2, k, own[k])
                            \/ s.pc = "push" /\ Sending(s, own, k)
                      /\ \A k \in Held(s.acked) : Carries(corpus2, k, s.acked[k])
    BY DEF Offered
  <2>1. /\ \A k \in Held(own) : \/ Due(s, k) \/ Carries(corpus, k, own[k])
                                \/ s.pc = "push" /\ Sending(s, own, k)
        /\ \A k \in Held(s.acked) : Carries(corpus, k, s.acked[k])
    BY <1>2 DEF PushFine, Offered
  <2>2. ASSUME NEW k \in Held(own), Carries(corpus, k, own[k]) PROVE Carries(corpus2, k, own[k])
    BY <1>3, <2>2, HeldCopy
  <2>3. ASSUME NEW k \in Held(s.acked), Carries(corpus, k, s.acked[k])
        PROVE  Carries(corpus2, k, s.acked[k])
    BY <1>1, <1>3, <2>3, HeldCopy
  <2> QED
    BY <2>1, <2>2, <2>3
<1>5. Receipted(s, answer, corpus2, g)
  <2> SUFFICES ASSUME s.pc = "push", answer # NoReply, answer.status # "conflict", s.source = g,
                      NEW k \in DOMAIN s.sent
               PROVE  Carries(corpus2, k, s.sent[k])
    BY DEF Receipted
  <2>1. Carries(corpus, k, s.sent[k])
    BY <1>2 DEF PushFine, Receipted
  <2>2. k \in Keys /\ s.sent[k].total \in Nat /\ s.sent[k].tag \in Nat
    BY <1>1, ParcelParts, CopyParts
  <2> QED
    BY <1>3, <2>1, <2>2
<1> QED
  BY <1>4, <1>5 DEF PushFine

-------------------------------------------------------------------------------
(* What leaves a client's account in order *)

\* From `s` to `t` nothing is acknowledged or unmarked, a push goes on as it
\* was or leaves its rows marked, and no walk or feed begins.
Keeps(c, s, t) ==
    /\ t.source = s.source \/ t.source.generation = -1
    /\ \A k \in Keys : t.acked[k] \in {s.acked[k], NoCopy}
    /\ t.full \/ /\ ~s.full /\ s.dirty \subseteq t.dirty
                 /\ s.pc = "push" /\ t.pc # "push" => DOMAIN s.todo \subseteq t.dirty
    /\ t.pc = "push" =>
          s.pc = "push" /\ t.sent = s.sent /\ t.fence = s.fence /\ t.todo = s.todo
    /\ t.pc = "prepare" /\ ~t.stale => s.pc = "prepare" /\ ~s.stale /\ t.fence = s.fence
    /\ t.pc = "feed" /\ t.feed # None /\ ~t.stale => s.pc = "feed" /\ s.feed # None /\ ~s.stale
    /\ \/ t.pc \in {s.pc, "idle"}
       \/ t.pc \in {"snapshot", "changes", "feed"} /\ c \in Replicating
       \/ t.pc = "status" /\ c \notin Replicating

LEMMA KeepsThrough ==
    ASSUME NEW c, NEW s, NEW t, NEW u, Keeps(c, s, t), Keeps(c, t, u)
    PROVE  Keeps(c, s, u)
<1>1. u.source = s.source \/ u.source.generation = -1
  BY DEF Keeps
<1>2. \A k \in Keys : u.acked[k] \in {s.acked[k], NoCopy}
  BY DEF Keeps
<1>3. u.full \/ /\ ~s.full /\ s.dirty \subseteq u.dirty
                /\ s.pc = "push" /\ u.pc # "push" => DOMAIN s.todo \subseteq u.dirty
  BY DEF Keeps
<1>4. u.pc = "push" => s.pc = "push" /\ u.sent = s.sent /\ u.fence = s.fence /\ u.todo = s.todo
  BY DEF Keeps
<1>5. u.pc = "prepare" /\ ~u.stale => s.pc = "prepare" /\ ~s.stale /\ u.fence = s.fence
  BY DEF Keeps
<1>6. u.pc = "feed" /\ u.feed # None /\ ~u.stale => s.pc = "feed" /\ s.feed # None /\ ~s.stale
  BY DEF Keeps
<1>7. \/ u.pc \in {s.pc, "idle"}
      \/ u.pc \in {"snapshot", "changes", "feed"} /\ c \in Replicating
      \/ u.pc = "status" /\ c \notin Replicating
  BY DEF Keeps
<1> QED
  BY <1>1, <1>2, <1>3, <1>4, <1>5, <1>6, <1>7 DEF Keeps

\* A holding may change where its key is marked, or the sources count for nothing.
LEMMA KeptOffered ==
    ASSUME NEW c, NEW s, NEW t, LoopType(t), Keeps(c, s, t),
           NEW own, NEW own2 \in Holdings, NEW corpus, NEW f \in Fences, f.generation \in Nat,
           Offered(s, own, corpus, f),
           \A k \in Keys : own2[k] = own[k] \/ Due(t, k) \/ t.source.generation = -1
    PROVE  Offered(t, own2, corpus, f)
<1> SUFFICES ASSUME t.source = f
             PROVE  /\ \A k \in Held(own2) :
                          \/ Due(t, k) \/ Carries(corpus, k, own2[k])
                          \/ t.pc = "push" /\ Sending(t, own2, k)
                    /\ \A k \in Held(t.acked) : Carries(corpus, k, t.acked[k])
  BY DEF Offered
<1>1. t.source.generation # -1 /\ s.source = f
  BY DEF Keeps
<1>2. /\ \A k \in Held(own) : \/ Due(s, k) \/ Carries(corpus, k, own[k])
                              \/ s.pc = "push" /\ Sending(s, own, k)
      /\ \A k \in Held(s.acked) : Carries(corpus, k, s.acked[k])
  BY <1>1 DEF Offered
<1>3. ASSUME NEW k \in Held(own2), ~Due(t, k)
      PROVE  Carries(corpus, k, own2[k]) \/ (t.pc = "push" /\ Sending(t, own2, k))
  <2>1. k \in Held(own) /\ own2[k] = own[k]
    BY <1>1, <1>3 DEF Held
  <2>2. ~Due(s, k)
    BY <1>3 DEF Due, Keeps
  <2>3. CASE Carries(corpus, k, own[k])
    BY <2>1, <2>3
  <2>4. CASE s.pc = "push" /\ Sending(s, own, k)
    <3>1. t.pc = "push"
      BY <1>3, <2>4 DEF Keeps, Due, Sending
    <3> QED
      BY <2>1, <2>4, <3>1 DEF Keeps, Sending
  <2> QED
    BY <1>2, <2>1, <2>2, <2>3, <2>4
<1>4. ASSUME NEW k \in Held(t.acked) PROVE Carries(corpus, k, t.acked[k])
  <2>1. k \in Keys /\ t.acked[k] = s.acked[k] /\ s.acked[k] # NoCopy
    BY <1>4 DEF Held, Keeps
  <2> QED
    BY <1>2, <2>1 DEF Held
<1> QED
  BY <1>3, <1>4

\* The account is in order after such a step, if the replica and the answer
\* change only where no walk and no feed relies on them.
LEMMA KeptFine ==
    ASSUME NEW c, NEW s, NEW t, LoopType(t), Keeps(c, s, t),
           NEW r, NEW r2, NEW answer, NEW answer2, answer2 \in {answer, NoReply},
           NEW own, NEW own2 \in Holdings, NEW corpus, NEW f \in Fences, f.generation \in Nat,
           PushFine(c, s, r, answer, own, corpus, f),
           \A k \in Keys : own2[k] = own[k] \/ Due(t, k) \/ t.source.generation = -1,
           r2 = r \/ (Waiting(t) => t.stale), answer2 = answer \/ (t.pc = "feed" => t.stale),
           c \notin Replicating => r2.rows = NoRows
    PROVE  PushFine(c, t, r2, answer2, own2, corpus, f)
<1>1. Offered(t, own2, corpus, f)
  BY KeptOffered DEF PushFine
<1>2. SendsTodo(t)
  BY DEF PushFine, SendsTodo, Keeps
<1>3. Receipted(t, answer2, corpus, f)
  <2> SUFFICES ASSUME t.pc = "push", answer2 # NoReply, answer2.status # "conflict", t.source = f,
                      NEW k \in DOMAIN t.sent
               PROVE  Carries(corpus, k, t.sent[k])
    BY DEF Receipted
  <2>1. s.pc = "push" /\ t.sent = s.sent /\ s.source = f /\ answer2 = answer
    BY DEF Keeps
  <2> QED
    BY <2>1 DEF PushFine, Receipted
<1>4. WalkFits(t, r2)
  BY DEF PushFine, WalkFits, Keeps, Waiting
<1>5. FeedFits(t, r2, answer2)
  BY DEF PushFine, FeedFits, Keeps, Waiting
<1>6. PullsOwn(c, t, r2)
  BY DEF PushFine, PullsOwn, Keeps
<1> QED
  BY <1>1, <1>2, <1>3, <1>4, <1>5, <1>6 DEF PushFine

-------------------------------------------------------------------------------
(* The pump's functions, and the account *)

\* Fields no account reads.
Quiet == {"conn", "suspended", "degraded", "malformed", "share", "pending", "seeding",
          "caughtUp", "reset", "through", "scan", "scanAt", "walked"}

\* All of a loop's type that its account needs.
LoopShape(s) == IsLoop(s) /\ s.full \in BOOLEAN /\ s.wholly \in BOOLEAN

LEMMA QuietKeeps ==
    ASSUME NEW c, NEW s, NEW t, LoopShape(s), NEW changed, changed \subseteq Quiet,
           SameBut(s, t, changed)
    PROVE  Keeps(c, s, t) /\ LoopShape(t)
<1>1. /\ t.source = s.source /\ t.acked = s.acked /\ t.full = s.full /\ t.dirty = s.dirty
      /\ t.pc = s.pc /\ t.sent = s.sent /\ t.fence = s.fence /\ t.todo = s.todo
      /\ t.stale = s.stale /\ t.feed = s.feed /\ t.wholly = s.wholly /\ IsLoop(t)
  BY DEF SameBut, LoopFields, Quiet
<1>2. s.full \in BOOLEAN /\ s.wholly \in BOOLEAN
  BY DEF LoopShape
<1>3. LoopShape(t)
  BY <1>1, <1>2, Zenon DEF LoopShape
<1> QED
  BY <1>1, <1>2, <1>3 DEF Keeps

LEMMA RestKeeps ==
    ASSUME NEW c, NEW s, LoopShape(s)
    PROVE  Keeps(c, s, Rest(s)) /\ LoopShape(Rest(s)) /\ Rest(s).pc = "idle"
<1> DEFINE t == Rest(s)
<1>1. /\ SameBut(s, t, {"pc", "stale", "reset", "through", "feed", "fence", "wholly",
                        "todo", "sent", "scan", "scanAt", "full", "dirty"})
      /\ t.pc = "idle" /\ t.wholly = FALSE
      /\ t.full = (s.full \/ (DOMAIN s.todo # {} /\ s.wholly))
      /\ t.dirty = IF DOMAIN s.todo # {} /\ ~s.wholly
                   THEN s.dirty \cup DOMAIN s.todo ELSE s.dirty
  BY RestFields DEF LoopShape
<1> HIDE DEF t
<1>2. t.source = s.source /\ t.acked = s.acked /\ IsLoop(t)
  BY <1>1 DEF SameBut, LoopFields
<1>3. s.full \in BOOLEAN /\ s.wholly \in BOOLEAN
  BY DEF LoopShape
<1>4. Keeps(c, s, t)
  BY <1>1, <1>2, <1>3 DEF Keeps
<1>5. t.full \in BOOLEAN /\ t.wholly \in BOOLEAN
  BY <1>1, Zenon
<1>6. LoopShape(t)
  BY <1>2, <1>5, Zenon DEF LoopShape
<1> QED
  BY <1>1, <1>4, <1>6 DEF t

LEMMA AbortKeeps ==
    ASSUME NEW c, NEW s, LoopShape(s)
    PROVE  Keeps(c, s, Abort(s)) /\ LoopShape(Abort(s))
<1>1. CASE Waiting(s)
  <2> DEFINE t == [s EXCEPT !.stale = TRUE]
  <2>1. Abort(s) = t
    BY <1>1 DEF Abort
  <2>2. IsLoop(s) /\ s.full \in BOOLEAN /\ s.wholly \in BOOLEAN
    BY DEF LoopShape
  <2>3. SameBut(s, t, {"stale"})
    <3>1. IsLoop(t) /\ \A f \in LoopFields \ {"stale"} : t[f] = s[f]
      BY <2>2, Zenon DEF IsLoop
    <3> QED
      BY <3>1 DEF SameBut
  <2>4. t.stale = TRUE
    BY <2>2, SMT DEF IsLoop, LoopFields
  <2> HIDE DEF t
  <2>5. /\ t.source = s.source /\ t.acked = s.acked /\ t.full = s.full /\ t.dirty = s.dirty
        /\ t.pc = s.pc /\ t.sent = s.sent /\ t.fence = s.fence /\ t.todo = s.todo
        /\ t.wholly = s.wholly /\ IsLoop(t)
    BY <2>3 DEF SameBut, LoopFields
  <2>6. Keeps(c, s, t)
    BY <2>2, <2>4, <2>5 DEF Keeps
  <2>7. LoopShape(t)
    BY <2>2, <2>5, Zenon DEF LoopShape
  <2> QED
    BY <2>1, <2>6, <2>7
<1>2. CASE ~Waiting(s)
  BY <1>2, RestKeeps DEF Abort
<1> QED
  BY <1>1, <1>2

\* A loop that sees itself unchanged keeps its account.
LEMMA SelfKeeps ==
    ASSUME NEW c, NEW s, LoopShape(s)
    PROVE  Keeps(c, s, s)
<1>1. SameBut(s, s, {}) /\ {} \subseteq Quiet
  BY DEF SameBut, LoopShape
<1> QED
  BY <1>1, QuietKeeps

LEMMA SuspendKeeps ==
    ASSUME NEW c, NEW s, LoopShape(s)
    PROVE  Keeps(c, s, Suspend(s))
<1>1. CASE s.suspended
  BY <1>1, SelfKeeps DEF Suspend
<1>2. CASE ~s.suspended
  <2> DEFINE r == Abort(s)
             t == [r EXCEPT !.suspended = TRUE, !.reset = Waiting(s), !.pending = FALSE]
  <2>1. Suspend(s) = t
    BY <1>2 DEF Suspend
  <2>2. LoopShape(r) /\ Keeps(c, s, r)
    BY AbortKeeps
  <2> HIDE DEF r
  <2>3. IsLoop(r)
    BY <2>2 DEF LoopShape
  <2>4. SameBut(r, t, {"suspended", "reset", "pending"})
    <3>1. IsLoop(t) /\ \A f \in LoopFields \ {"suspended", "reset", "pending"} : t[f] = r[f]
      BY <2>3, Zenon DEF IsLoop
    <3> QED
      BY <3>1 DEF SameBut
  <2> HIDE DEF t
  <2>5. Keeps(c, r, t)
    <3>1. {"suspended", "reset", "pending"} \subseteq Quiet
      BY DEF Quiet
    <3> QED
      BY <2>2, <2>4, <3>1, QuietKeeps
  <2> QED
    BY <2>1, <2>2, <2>5, KeepsThrough
<1> QED
  BY <1>1, <1>2

LEMMA DisconnectedKeeps ==
    ASSUME NEW c, NEW s, LoopShape(s)
    PROVE  Keeps(c, s, Disconnected(s))
<1> DEFINE r == Abort(s)
           t == [r EXCEPT !.conn = NoConn, !.pending = FALSE]
<1>1. Disconnected(s) = t
  BY DEF Disconnected
<1>2. LoopShape(r) /\ Keeps(c, s, r)
  BY AbortKeeps
<1> HIDE DEF r
<1>3. IsLoop(r)
  BY <1>2 DEF LoopShape
<1>4. SameBut(r, t, {"conn", "pending"})
  <2>1. IsLoop(t) /\ \A f \in LoopFields \ {"conn", "pending"} : t[f] = r[f]
    BY <1>3, Zenon DEF IsLoop
  <2> QED
    BY <2>1 DEF SameBut
<1> HIDE DEF t
<1>5. Keeps(c, r, t)
  <2>1. {"conn", "pending"} \subseteq Quiet
    BY DEF Quiet
  <2> QED
    BY <1>2, <1>4, <2>1, QuietKeeps
<1> QED
  BY <1>1, <1>2, <1>5, KeepsThrough

\* A loop at rest that goes to an await of the pull, or of the Hub's status.
LEMMA MovesOnKeeps ==
    ASSUME NEW c, NEW s, NEW t, LoopShape(s), s.pc \notin {"push", "prepare"},
           NEW changed, changed \subseteq Quiet \cup {"pc"}, SameBut(s, t, changed),
           \/ t.pc \in {"snapshot", "changes"} /\ c \in Replicating
           \/ t.pc = "status" /\ c \notin Replicating
    PROVE  Keeps(c, s, t)
<1>1. /\ t.source = s.source /\ t.acked = s.acked /\ t.full = s.full /\ t.dirty = s.dirty
      /\ t.sent = s.sent /\ t.fence = s.fence /\ t.todo = s.todo /\ t.stale = s.stale
  BY DEF SameBut, LoopFields, Quiet
<1>2. s.full \in BOOLEAN
  BY DEF LoopShape
<1> QED
  BY <1>1, <1>2 DEF Keeps

LEMMA StartPassKeeps ==
    ASSUME NEW c, NEW s, LoopShape(s), s.pc = "idle", NEW own
    PROVE  Keeps(c, s, StartPass(c, s, own))
<1> DEFINE t == [s EXCEPT !.pending = FALSE, !.reset = FALSE]
           u1 == [t EXCEPT !.pc = "status"]
           u2 == [t EXCEPT !.pc = "changes"]
           u3 == [t EXCEPT !.pc = "snapshot", !.seeding = TRUE]
<1>1. IsLoop(s)
  BY DEF LoopShape
<1>2. SameBut(s, t, {"pending", "reset"})
  <2>1. IsLoop(t) /\ \A f \in LoopFields \ {"pending", "reset"} : t[f] = s[f]
    BY <1>1, Zenon DEF IsLoop
  <2> QED
    BY <2>1 DEF SameBut
<1>3. StartPass(c, s, own) \in {Rest(t), u1, u2, u3}
      /\ (StartPass(c, s, own) = u1 \/ StartPass(c, s, own) = Rest(t) \/ c \in Replicating)
      /\ (StartPass(c, s, own) \in {u2, u3, Rest(t)} \/ c \notin Replicating)
  BY DEF StartPass, StartPush
<1> HIDE DEF t
<1>4. IsLoop(t) /\ t.pc = "idle"
  BY <1>1, <1>2 DEF SameBut, LoopFields
<1>5. Keeps(c, s, t) /\ LoopShape(t)
  <2>1. {"pending", "reset"} \subseteq Quiet
    BY DEF Quiet
  <2> QED
    BY <1>2, <2>1, QuietKeeps
<1>6. SameBut(t, u1, {"pc"}) /\ SameBut(t, u2, {"pc"}) /\ SameBut(t, u3, {"pc", "seeding"})
  <2>1. IsLoop(u1) /\ \A f \in LoopFields \ {"pc"} : u1[f] = t[f]
    BY <1>4, Zenon DEF IsLoop
  <2>2. IsLoop(u2) /\ \A f \in LoopFields \ {"pc"} : u2[f] = t[f]
    BY <1>4, Zenon DEF IsLoop
  <2>3. IsLoop(u3) /\ \A f \in LoopFields \ {"pc", "seeding"} : u3[f] = t[f]
    BY <1>4, Zenon DEF IsLoop
  <2> QED
    BY <2>1, <2>2, <2>3 DEF SameBut
<1>7. u1.pc = "status" /\ u2.pc = "changes" /\ u3.pc = "snapshot"
  BY <1>4, SMT DEF IsLoop, LoopFields
<1> HIDE DEF u1, u2, u3
<1>8. {"pc"} \subseteq Quiet \cup {"pc"} /\ {"pc", "seeding"} \subseteq Quiet \cup {"pc"}
  BY DEF Quiet
<1>9. c \notin Replicating => Keeps(c, t, u1)
  BY <1>4, <1>5, <1>6, <1>7, <1>8, MovesOnKeeps
<1>10. c \in Replicating => Keeps(c, t, u2) /\ Keeps(c, t, u3)
  BY <1>4, <1>5, <1>6, <1>7, <1>8, MovesOnKeeps
<1>11. Keeps(c, t, Rest(t))
  BY <1>5, RestKeeps
<1>12. Keeps(c, t, StartPass(c, s, own))
  BY <1>3, <1>9, <1>10, <1>11
<1> QED
  BY <1>5, <1>12, KeepsThrough

LEMMA AgainKeeps ==
    ASSUME NEW c, NEW s, LoopShape(s), NEW own
    PROVE  Keeps(c, s, Again(c, s, own))
<1>1. CASE s.pc = "idle" /\ s.pending /\ Runnable(s)
  BY <1>1, StartPassKeeps DEF Again
<1>2. CASE ~(s.pc = "idle" /\ s.pending /\ Runnable(s))
  BY <1>2, SelfKeeps DEF Again
<1> QED
  BY <1>1, <1>2

LEMMA KickKeeps ==
    ASSUME NEW c, NEW s, LoopShape(s), NEW own
    PROVE  Keeps(c, s, Kick(c, s, own))
<1> DEFINE t == [s EXCEPT !.pending = TRUE]
<1>1. Kick(c, s, own) = Again(c, t, own)
  BY DEF Kick
<1>2. IsLoop(s)
  BY DEF LoopShape
<1>3. SameBut(s, t, {"pending"})
  <2>1. IsLoop(t) /\ \A f \in LoopFields \ {"pending"} : t[f] = s[f]
    BY <1>2, Zenon DEF IsLoop
  <2> QED
    BY <2>1 DEF SameBut
<1> HIDE DEF t
<1>4. Keeps(c, s, t) /\ LoopShape(t)
  <2>1. {"pending"} \subseteq Quiet
    BY DEF Quiet
  <2> QED
    BY <1>3, <2>1, QuietKeeps
<1> QED
  BY <1>1, <1>4, AgainKeeps, KeepsThrough

\* The loops start over: nothing counts as acknowledged or prepared for.
LEMMA ResyncedKeeps ==
    ASSUME NEW c, NEW s, LoopType(s), NEW own
    PROVE  LET t == Resynced(c, s, own)
           IN  Keeps(c, s, t) /\ t.source.generation = -1
<1> DEFINE source == [s.source EXCEPT !.generation = -1]
           r == [s EXCEPT !.reset = (s.pc # "idle"), !.suspended = FALSE, !.acked = NoCopies,
                          !.full = TRUE, !.source.generation = -1, !.caughtUp = 0,
                          !.seeding = FALSE]
<1>1. Resynced(c, s, own) = Kick(c, r, own)
  BY DEF Resynced
<1>2. IsLoop(s) /\ s.source \in Fences /\ s.wholly \in BOOLEAN
  BY DEF LoopType
<1>3. SameBut(s, r, {"reset", "suspended", "acked", "full", "source", "caughtUp", "seeding"})
  <2>1. /\ IsLoop(r)
        /\ \A f \in LoopFields \ {"reset", "suspended", "acked", "full", "source", "caughtUp",
                                  "seeding"} : r[f] = s[f]
    BY <1>2, Zenon DEF IsLoop
  <2> QED
    BY <2>1 DEF SameBut
<1>4. r.acked = NoCopies /\ r.full = TRUE /\ r.source = source
  BY <1>2, SMT DEF IsLoop, LoopFields
<1> HIDE DEF r
<1>5. source.generation = -1
  BY <1>2 DEF Fences
<1> HIDE DEF source
<1>6. /\ r.dirty = s.dirty /\ r.pc = s.pc /\ r.sent = s.sent /\ r.fence = s.fence
      /\ r.todo = s.todo /\ r.stale = s.stale /\ r.feed = s.feed /\ r.wholly = s.wholly /\ IsLoop(r)
  BY <1>3 DEF SameBut, LoopFields
<1>7. Keeps(c, s, r)
  BY <1>4, <1>5, <1>6 DEF Keeps, NoCopies
<1>8. LoopShape(r)
  BY <1>2, <1>4, <1>6, Zenon DEF LoopShape
<1>9. Keeps(c, r, Kick(c, r, own))
  BY <1>8, KickKeeps
<1>10. Kick(c, r, own).source.generation = -1
  BY <1>4, <1>5, <1>9, Zenon DEF Keeps
<1> QED
  BY <1>1, <1>7, <1>9, <1>10, KeepsThrough

-------------------------------------------------------------------------------
(* A push, and the walk before one *)

\* The next slice goes out as it is to be sent, or what is left is marked.
LEMMA SendNextFine ==
    ASSUME NEW c, NEW s, LoopType(s), NEW r, c \notin Replicating => r.rows = NoRows,
           NEW own, NEW corpus, NEW f,
           s.source = s.fence \/ s.source.generation = -1,
           s.source = f =>
             /\ \A k \in Held(own) :
                   Due(s, k) \/ Carries(corpus, k, own[k]) \/ Sending(s, own, k)
             /\ \A k \in Held(s.acked) : Carries(corpus, k, s.acked[k])
    PROVE  PushFine(c, SendNext(s), r, NoReply, own, corpus, f)
<1>1. IsLoop(s) /\ s.todo \in Parcels
  BY DEF LoopType
<1>2. CASE DOMAIN s.todo = {} \/ ~s.share \/ ~Current(s)
  <2> DEFINE t == Rest(s)
  <2>1. SendNext(s) = t
    BY <1>2 DEF SendNext
  <2>2. /\ SameBut(s, t, {"pc", "stale", "reset", "through", "feed", "fence", "wholly",
                          "todo", "sent", "scan", "scanAt", "full", "dirty"})
        /\ t.pc = "idle"
        /\ t.full = (s.full \/ (DOMAIN s.todo # {} /\ s.wholly))
        /\ t.dirty = IF DOMAIN s.todo # {} /\ ~s.wholly
                     THEN s.dirty \cup DOMAIN s.todo ELSE s.dirty
    BY <1>1, RestFields
  <2> HIDE DEF t
  <2>3. t.source = s.source /\ t.acked = s.acked
    BY <2>2 DEF SameBut, LoopFields
  <2>4. \A k : Due(s, k) \/ Sending(s, own, k) => Due(t, k)
    BY <2>2 DEF Due, Sending
  <2>5. Offered(t, own, corpus, f)
    BY <2>3, <2>4 DEF Offered
  <2>6. SendsTodo(t) /\ Receipted(t, NoReply, corpus, f) /\ WalkFits(t, r)
        /\ FeedFits(t, r, NoReply) /\ PullsOwn(c, t, r)
    BY <2>2 DEF SendsTodo, Receipted, WalkFits, FeedFits, PullsOwn
  <2> QED
    BY <2>1, <2>5, <2>6 DEF PushFine
<1>3. CASE ~(DOMAIN s.todo = {} \/ ~s.share \/ ~Current(s))
  <2> DEFINE t == [s EXCEPT !.pc = "push", !.sent = Batch(s.todo)]
  <2>1. SendNext(s) = t
    BY <1>3 DEF SendNext
  <2>2. SameBut(s, t, {"pc", "sent"})
    <3>1. IsLoop(t) /\ \A g \in LoopFields \ {"pc", "sent"} : t[g] = s[g]
      BY <1>1, Zenon DEF IsLoop
    <3> QED
      BY <3>1 DEF SameBut
  <2>3. t.pc = "push" /\ t.sent = Batch(s.todo)
    BY <1>1, SMT DEF IsLoop, LoopFields
  <2> HIDE DEF t
  <2>4. /\ t.source = s.source /\ t.acked = s.acked /\ t.full = s.full /\ t.dirty = s.dirty
        /\ t.fence = s.fence /\ t.todo = s.todo
    BY <2>2 DEF SameBut, LoopFields
  <2>5. \A k \in DOMAIN t.sent : t.sent[k] = t.todo[k]
    BY <2>3, <2>4 DEF Batch
  <2>6. Offered(t, own, corpus, f)
    BY <2>3, <2>4 DEF Offered, Due, Sending
  <2>7. SendsTodo(t) /\ Receipted(t, NoReply, corpus, f) /\ WalkFits(t, r)
        /\ FeedFits(t, r, NoReply) /\ PullsOwn(c, t, r)
    BY <2>3, <2>4, <2>5 DEF SendsTodo, Receipted, WalkFits, FeedFits, PullsOwn
  <2> QED
    BY <2>1, <2>6, <2>7 DEF PushFine
<1> QED
  BY <1>2, <1>3

\* What is stamped is carried already; the rest is sent.
LEMMA ExamineFine ==
    ASSUME NEW c, NEW s, LoopType(s), NEW r, c \notin Replicating => r.rows = NoRows,
           NEW own \in Holdings, NEW held \in Corpus, NEW corpus \in Corpus, NEW f,
           s.source = s.fence \/ s.source.generation = -1,
           s.source = f =>
             /\ RowsGrow(held, corpus)
             /\ \A k \in Held(own) : Due(s, k) \/ Carries(corpus, k, own[k])
             /\ \A k \in Held(s.acked) : Carries(corpus, k, s.acked[k])
    PROVE  PushFine(c, Examine(s, held, own), r, NoReply, own, corpus, f)
<1> DEFINE acked == IF s.full THEN [k \in Keys |-> IF own[k] = NoCopy THEN NoCopy ELSE s.acked[k]]
                    ELSE s.acked
           looked == IF s.full THEN Held(own) ELSE s.dirty \cap Held(own)
           t == [s EXCEPT !.acked = acked, !.wholly = s.full, !.full = FALSE, !.dirty = {}]
           S == {k \in looked : Unstamped(t, held, k, own[k])}
           todo == [k \in S |-> own[k]]
           u == [t EXCEPT !.todo = todo]
<1>1. Examine(s, held, own) = SendNext(u)
  BY DEF Examine
<1>2. IsLoop(s) /\ s.acked \in Holdings /\ s.full \in BOOLEAN
  BY DEF LoopType
<1>3. acked \in Holdings /\ \A k \in Keys : /\ acked[k] \in {s.acked[k], NoCopy}
                                            /\ own[k] # NoCopy => acked[k] = s.acked[k]
  BY <1>2 DEF Holdings
<1>4. S \in SUBSET Keys /\ \A k \in S : own[k] \in Copies
  BY DEF Held, Holdings
<1>5. todo \in Parcels /\ DOMAIN todo = S /\ \A k \in S : todo[k] = own[k]
  <2> HIDE DEF S
  <2> QED
    BY <1>4, ParcelOf
<1> HIDE DEF acked, todo
<1>6. IsLoop(t) /\ \A g \in LoopFields \ {"acked", "wholly", "full", "dirty"} : t[g] = s[g]
  BY <1>2, Zenon DEF IsLoop
<1>7. t.acked = acked /\ t.wholly = s.full /\ t.full = FALSE /\ t.dirty = {}
  BY <1>2, SMT DEF IsLoop, LoopFields
<1> HIDE DEF t
<1>8. IsLoop(u) /\ \A g \in LoopFields \ {"todo"} : u[g] = t[g]
  BY <1>6, Zenon DEF IsLoop
<1>9. u.todo = todo
  BY <1>6, SMT DEF IsLoop, LoopFields
<1> HIDE DEF u
<1>10. SameBut(s, u, {"acked", "wholly", "full", "dirty", "todo"})
  BY <1>6, <1>8 DEF SameBut
<1>11. u.acked = acked /\ u.wholly = s.full /\ u.full = FALSE /\ u.dirty = {}
  BY <1>7, <1>8 DEF LoopFields
<1>12. LoopType(u)
  BY <1>2, <1>3, <1>5, <1>9, <1>10, <1>11 DEF LoopType, SameBut, LoopFields
<1>13. u.source = s.source /\ u.fence = s.fence
  BY <1>10 DEF SameBut, LoopFields
<1>14. ASSUME s.source = f, NEW k \in Held(own)
       PROVE  Carries(corpus, k, own[k]) \/ Sending(u, own, k)
  <2>1. /\ k \in Keys /\ own[k] # NoCopy /\ own[k].total \in Nat /\ own[k].tag \in Nat
    BY HeldCopy
  <2>2. CASE Carries(corpus, k, own[k])
    BY <2>2
  <2>3. CASE k \in S
    BY <1>5, <1>9, <2>3 DEF Sending
  <2>4. CASE Due(s, k) /\ k \notin S
    <3>1. ~Unstamped(t, held, k, own[k])
      BY <2>4 DEF Due
    <3>2. CASE held[k] # NoRow /\ ~Supersedes(own[k], held[k])
      <4>1. Carries(held, k, own[k])
        BY <3>2 DEF Carries, AtLeast
      <4> QED
        BY <1>14, <2>1, <4>1, CarriedOn
    <3>3. CASE t.acked[k] # NoCopy /\ ~Supersedes(own[k], t.acked[k])
      <4>1. t.acked[k] = s.acked[k] /\ k \in Held(s.acked)
        BY <1>3, <1>7, <2>1, <3>3 DEF Held
      <4>2. AtLeast(s.acked[k], own[k]) /\ Carries(corpus, k, s.acked[k])
        BY <1>14, <3>3, <4>1 DEF AtLeast
      <4>3. s.acked[k].total \in Nat /\ s.acked[k].tag \in Nat
        BY <1>2, <4>1, HeldCopy
      <4>4. /\ corpus[k] # NoRow /\ AtLeast(corpus[k], s.acked[k])
            /\ corpus[k].total \in Nat /\ corpus[k].tag \in Nat
        BY <2>1, <4>2, RowOf DEF Carries
      <4>5. AtLeast(corpus[k], own[k])
        BY <2>1, <4>2, <4>3, <4>4, FullerThrough
      <4> QED
        BY <4>4, <4>5 DEF Carries
    <3> QED
      BY <3>1, <3>2, <3>3 DEF Unstamped
  <2> QED
    BY <1>14, <2>2, <2>3, <2>4
<1>15. ASSUME s.source = f, NEW k \in Held(u.acked)
       PROVE  Carries(corpus, k, u.acked[k])
  BY <1>3, <1>11, <1>15 DEF Held
<1> QED
  BY <1>1, <1>12, <1>13, <1>14, <1>15, SendNextFine

\* The sources are prepared for the fence a push goes out under, or are
\* prepared now, and the replica has come to this fence.
LEMMA PushUnderFenceFine ==
    ASSUME HubInv, TimelineInv, GrowthInv, Fence \in Fences,
           NEW c, NEW s, Ready(s), NEW r, ReplicaType(r), ReplicaTrue(r, history),
           c \notin Replicating => r.rows = NoRows, Fits(r, ConnFence(s)),
           NEW own \in Holdings, Offered(s, own, rows, Fence), disk[c] \in Holdings
    PROVE  PushFine(c, PushUnderFence(c, s, r.rows, own), r, NoReply, own, rows, Fence)
<1> DEFINE fence == ConnFence(s)
           t == [s EXCEPT !.fence = fence]
<1>1. /\ LoopType(s) /\ IsLoop(s) /\ s.conn \in Links /\ s.pc # "push"
  BY DEF Ready, LoopType, Current, Runnable
<1>2. fence \in Fences
  BY <1>1 DEF ConnFence, Links, Fences
<1>3. SameBut(s, t, {"fence"})
  <2>1. IsLoop(t) /\ \A f \in LoopFields \ {"fence"} : t[f] = s[f]
    BY <1>1, Zenon DEF IsLoop
  <2> QED
    BY <2>1 DEF SameBut
<1>4. t.fence = fence
  BY <1>1, SMT DEF IsLoop, LoopFields
<1> HIDE DEF t
<1>5. LoopType(t)
  BY <1>1, <1>2, <1>3, <1>4 DEF LoopType, SameBut, LoopFields
<1>6. rows \in Corpus /\ r.rows \in Corpus
  BY HubTypes DEF ReplicaType
<1>7. fence = Fence => RowsGrow(r.rows, rows)
  BY FitReplica
<1>8. s.source = Fence => /\ \A k \in Held(own) : Due(s, k) \/ Carries(rows, k, own[k])
                          /\ \A k \in Held(s.acked) : Carries(rows, k, s.acked[k])
  BY <1>1 DEF Offered
<1>9. CASE s.source = fence
  <2>1. PushUnderFence(c, s, r.rows, own) = Examine(t, r.rows, own)
    BY <1>4, <1>9 DEF PushUnderFence, t
  <2>2. t.source = t.fence /\ t.source = s.source /\ t.acked = s.acked /\ t.full = s.full
        /\ t.dirty = s.dirty
    BY <1>3, <1>4, <1>9 DEF SameBut, LoopFields
  <2>3. t.source = Fence => /\ RowsGrow(r.rows, rows)
                            /\ \A k \in Held(own) : Due(t, k) \/ Carries(rows, k, own[k])
                            /\ \A k \in Held(t.acked) : Carries(rows, k, t.acked[k])
    BY <1>7, <1>8, <1>9, <2>2 DEF Due
  <2>4. PushFine(c, Examine(t, r.rows, own), r, NoReply, own, rows, Fence)
    BY <1>5, <1>6, <2>2, <2>3, ExamineFine
  <2> QED
    BY <2>1, <2>4
<1>10. CASE s.source # fence /\ s.source.epoch # 0
  <2> DEFINE u == [t EXCEPT !.pc = "prepare", !.scan = disk[c], !.scanAt = Fence]
  <2>1. PushUnderFence(c, s, r.rows, own) = u
    BY <1>4, <1>10 DEF PushUnderFence, t
  <2>2. IsLoop(t)
    BY <1>5 DEF LoopType
  <2>3. SameBut(t, u, {"pc", "scan", "scanAt"})
    <3>1. IsLoop(u) /\ \A f \in LoopFields \ {"pc", "scan", "scanAt"} : u[f] = t[f]
      BY <2>2, Zenon DEF IsLoop
    <3> QED
      BY <3>1 DEF SameBut
  <2>4. u.pc = "prepare"
    BY <2>2, SMT DEF IsLoop, LoopFields
  <2> HIDE DEF u
  <2>5. u.source = s.source /\ u.acked = s.acked /\ u.full = s.full /\ u.dirty = s.dirty
        /\ u.fence = fence
    BY <1>3, <1>4, <2>3 DEF SameBut, LoopFields
  <2>6. Offered(u, own, rows, Fence)
    BY <1>8, <2>5 DEF Offered, Due
  <2>7. SendsTodo(u) /\ Receipted(u, NoReply, rows, Fence) /\ WalkFits(u, r)
        /\ FeedFits(u, r, NoReply) /\ PullsOwn(c, u, r)
    BY <2>4, <2>5 DEF SendsTodo, Receipted, WalkFits, FeedFits, PullsOwn
  <2> QED
    BY <2>1, <2>6, <2>7 DEF PushFine
<1>11. CASE s.source # fence /\ s.source.epoch = 0
  <2> DEFINE u == [t EXCEPT !.source = fence, !.acked = NoCopies, !.full = TRUE]
  <2>1. PushUnderFence(c, s, r.rows, own) = Examine(u, r.rows, own)
    BY <1>4, <1>11 DEF PushUnderFence, t
  <2>2. IsLoop(t)
    BY <1>5 DEF LoopType
  <2>3. SameBut(t, u, {"source", "acked", "full"})
    <3>1. IsLoop(u) /\ \A f \in LoopFields \ {"source", "acked", "full"} : u[f] = t[f]
      BY <2>2, Zenon DEF IsLoop
    <3> QED
      BY <3>1 DEF SameBut
  <2>4. u.source = fence /\ u.acked = NoCopies /\ u.full = TRUE
    BY <2>2, SMT DEF IsLoop, LoopFields
  <2> HIDE DEF u
  <2>5. LoopType(u)
    BY <1>2, <1>5, <2>3, <2>4, NoCopiesHeld DEF LoopType, SameBut, LoopFields
  <2>6. u.fence = fence
    BY <1>3, <1>4, <2>3 DEF SameBut, LoopFields
  <2>7. u.source = Fence => /\ RowsGrow(r.rows, rows)
                            /\ \A k \in Held(own) : Due(u, k) \/ Carries(rows, k, own[k])
                            /\ \A k \in Held(u.acked) : Carries(rows, k, u.acked[k])
    BY <1>7, <2>4 DEF Due, Held, NoCopies
  <2>8. PushFine(c, Examine(u, r.rows, own), r, NoReply, own, rows, Fence)
    BY <1>6, <2>4, <2>5, <2>6, <2>7, ExamineFine
  <2> QED
    BY <2>1, <2>8
<1> QED
  BY <1>9, <1>10, <1>11

\* A loop at rest has no account but of what is acknowledged and marked.
LEMMA IdleFine ==
    ASSUME NEW c, NEW t, t.pc = "idle", NEW r, c \notin Replicating => r.rows = NoRows,
           NEW own, NEW corpus, NEW f, Offered(t, own, corpus, f)
    PROVE  PushFine(c, t, r, NoReply, own, corpus, f)
BY DEF PushFine, SendsTodo, Receipted, WalkFits, FeedFits, PullsOwn

LEMMA RestFine ==
    ASSUME NEW c, NEW s, LoopType(s), LoopFence(s, Fence), Fence \in Fences, Fence.generation \in Nat,
           NEW r, c \notin Replicating => r.rows = NoRows,
           NEW own \in Holdings, NEW corpus, Offered(s, own, corpus, Fence)
    PROVE  PushFine(c, Rest(s), r, NoReply, own, corpus, Fence)
<1> DEFINE t == Rest(s)
<1>1. LoopType(t) /\ t.pc = "idle" /\ Keeps(c, s, t)
  BY RestOK, RestKeeps DEF LoopOK, LoopShape, LoopType
<1> HIDE DEF t
<1>2. Offered(t, own, corpus, Fence)
  BY <1>1, KeptOffered
<1>3. PushFine(c, t, r, NoReply, own, corpus, Fence)
  BY <1>1, <1>2, IdleFine
<1> QED
  BY <1>3 DEF t

\* The drain goes on, or the pass pushes: then no deletion is known that the
\* replica lacks, and it has come to the fence.
LEMMA AfterPageFine ==
    ASSUME HubInv, TimelineInv, GrowthInv, Fence \in Fences, Fence.generation \in Nat,
           NEW c \in Replicating, NEW s, LoopType(s), LoopFence(s, Fence), s.feed = None,
           DOMAIN s.sent \subseteq DOMAIN s.todo, s.pc \notin {"prepare", "push"},
           NEW page, Reached(page, Fence), page.complete \in BOOLEAN,
           NEW r, r = replica[c], ReplicaType(r), ReplicaTrue(r, history),
           ~s.stale => r.seeded /\ r.epoch = page.epoch,
           NEW own \in Holdings, own = local[c], disk[c] \in Holdings,
           Offered(s, own, rows, Fence)
    PROVE  PushFine(c, AfterPage(c, s, page), r, NoReply, own, rows, Fence)
<1> DEFINE same == s.conn.epoch = page.epoch
           conn == [s.conn EXCEPT !.epoch = page.epoch,
                                  !.seq = NumMax(page.seq, IF same THEN @ ELSE 0),
                                  !.generation = NumMax(page.generation, IF same THEN @ ELSE 0)]
           t == [s EXCEPT !.caughtUp = page.seq, !.conn = conn, !.seeding = FALSE]
           u == [s EXCEPT !.pc = "changes"]
           v == [t EXCEPT !.pending = TRUE]
           x == AfterPage(c, s, page)
<1>1. x = IF ~Current(s) THEN Rest(s)
          ELSE IF ~page.complete THEN u
          ELSE IF conn.generation > r.generation THEN Rest(v)
          ELSE StartPush(c, t, r.rows, own)
  BY DEF AfterPage
<1>2. IsLoop(s)
  BY DEF LoopType
<1> HIDE DEF x
<1>3. CASE ~Current(s)
  <2>1. PushFine(c, Rest(s), r, NoReply, own, rows, Fence)
    BY RestFine
  <2> QED
    BY <1>1, <1>3, <2>1 DEF x
<1>4. ASSUME Current(s)
      PROVE  Runnable(s) /\ s.stale = FALSE /\ s.conn \in Links
  BY <1>4 DEF Current, Runnable, LoopType
<1>5. CASE Current(s) /\ ~page.complete
  <2>1. SameBut(s, u, {"pc"})
    <3>1. IsLoop(u) /\ \A f \in LoopFields \ {"pc"} : u[f] = s[f]
      BY <1>2, Zenon DEF IsLoop
    <3> QED
      BY <3>1 DEF SameBut
  <2>2. u.pc = "changes"
    BY <1>2, SMT DEF IsLoop, LoopFields
  <2>3. x = u
    BY <1>1, <1>5
  <2> HIDE DEF u
  <2>4. /\ u.source = s.source /\ u.acked = s.acked /\ u.full = s.full /\ u.dirty = s.dirty
        /\ u.feed = None
    BY <2>1 DEF SameBut, LoopFields
  <2>5. Offered(u, own, rows, Fence)
    BY <2>2, <2>4 DEF Offered, Due
  <2>6. SendsTodo(u) /\ Receipted(u, NoReply, rows, Fence) /\ WalkFits(u, r)
        /\ FeedFits(u, r, NoReply) /\ PullsOwn(c, u, r)
    BY <2>2 DEF SendsTodo, Receipted, WalkFits, FeedFits, PullsOwn
  <2> QED
    BY <2>3, <2>5, <2>6 DEF PushFine, x
<1>6. CASE Current(s) /\ page.complete
  <2>1. page.epoch \in Nat \ {0} /\ page.seq \in Nat /\ page.generation \in Nat
    BY DEF Reached
  <2> DEFINE q == NumMax(page.seq, IF same THEN s.conn.seq ELSE 0)
             g == NumMax(page.generation, IF same THEN s.conn.generation ELSE 0)
  <2>2. s.conn \in Links /\ s.conn.seq \in Nat /\ s.conn.generation \in Nat
    BY <1>4, <1>6 DEF Links
  <2>3. conn = [s.conn EXCEPT !.epoch = page.epoch, !.seq = q, !.generation = g]
    OBVIOUS
  <2>4. q \in Nat /\ g \in Nat
    BY <2>1, <2>2 DEF NumMax
  <2> HIDE DEF conn, q
  <2>5. conn \in Links /\ conn.epoch = page.epoch /\ conn.generation = g
    <3> HIDE DEF g
    <3> QED
      BY <2>1, <2>2, <2>3, <2>4 DEF Links
  <2>6. AtOrAfter(Fence, [epoch |-> conn.epoch, generation |-> conn.generation])
    <3>1. AtOrAfter(Fence, ConnFence(s))
      BY <1>4, <1>6 DEF LoopFence, Runnable
    <3>2. g = page.generation \/ (same /\ g = s.conn.generation)
      BY <2>1, <2>2 DEF NumMax
    <3> HIDE DEF g
    <3>3. CASE g = page.generation
      BY <2>5, <3>3 DEF Reached
    <3>4. CASE same /\ g = s.conn.generation
      BY <2>5, <3>1, <3>4 DEF ConnFence
    <3> QED
      BY <3>2, <3>3, <3>4
  <2> HIDE DEF g
  <2>7. SameBut(s, t, {"caughtUp", "conn", "seeding"})
    <3>1. IsLoop(t) /\ \A f \in LoopFields \ {"caughtUp", "conn", "seeding"} : t[f] = s[f]
      BY <1>2, Zenon DEF IsLoop
    <3> QED
      BY <3>1 DEF SameBut
  <2>8. t.caughtUp = page.seq /\ t.conn = conn /\ t.seeding = FALSE
    BY <1>2, SMT DEF IsLoop, LoopFields
  <2> HIDE DEF t
  <2>9. LoopType(t)
    BY <2>1, <2>5, <2>7, <2>8 DEF LoopType, SameBut, LoopFields
  <2>10. ConnFence(t) = [epoch |-> conn.epoch, generation |-> conn.generation]
    BY <2>8 DEF ConnFence
  <2>11. LoopFence(t, Fence)
    <3>1. /\ t.source = s.source /\ t.walked = s.walked /\ t.pc = s.pc
      BY <2>7 DEF SameBut, LoopFields
    <3> QED
      BY <2>6, <2>10, <3>1 DEF LoopFence
  <2>12. Offered(t, own, rows, Fence)
    <3>1. /\ t.source = s.source /\ t.acked = s.acked /\ t.full = s.full /\ t.dirty = s.dirty
          /\ t.pc = s.pc
      BY <2>7 DEF SameBut, LoopFields
    <3> QED
      BY <3>1 DEF Offered, Due
  <2>13. CASE conn.generation > r.generation
    <3>1. IsLoop(t)
      BY <2>7 DEF SameBut
    <3>2. SameBut(t, v, {"pending"})
      <4>1. IsLoop(v) /\ \A f \in LoopFields \ {"pending"} : v[f] = t[f]
        BY <3>1, Zenon DEF IsLoop
      <4> QED
        BY <4>1 DEF SameBut
    <3>3. v.pending = TRUE
      BY <3>1, SMT DEF IsLoop, LoopFields
    <3>4. x = Rest(v)
      BY <1>1, <1>6, <2>13
    <3> HIDE DEF v
    <3>5. LoopType(v)
      BY <2>9, <3>2, <3>3 DEF LoopType, SameBut, LoopFields
    <3>6. LoopFence(v, Fence)
      BY <2>11, <3>2 DEF LoopFence, ConnFence, SameBut, LoopFields
    <3>7. Offered(v, own, rows, Fence)
      <4>1. /\ v.source = t.source /\ v.acked = t.acked /\ v.full = t.full /\ v.dirty = t.dirty
            /\ v.pc = t.pc /\ v.todo = t.todo
        BY <3>2 DEF SameBut, LoopFields
      <4> QED
        BY <2>12, <4>1 DEF Offered, Due, Sending
    <3>8. PushFine(c, Rest(v), r, NoReply, own, rows, Fence)
      BY <3>5, <3>6, <3>7, RestFine
    <3> QED
      BY <3>4, <3>8 DEF x
  <2>14. CASE ~(conn.generation > r.generation)
    <3>1. x = StartPush(c, t, r.rows, own)
      BY <1>1, <1>6, <2>14
    <3>2. /\ t.conn # NoConn /\ t.suspended = FALSE /\ t.degraded = FALSE /\ t.stale = FALSE
          /\ t.pc = s.pc /\ t.feed = None /\ t.sent = s.sent /\ t.todo = s.todo
      <4>1. NoConn # conn
        BY <2>5, SyncAssumption DEF Links
      <4> QED
        BY <1>4, <1>6, <2>7, <2>8, <4>1 DEF Runnable, SameBut, LoopFields, LoopType
    <3>3. Ready(t)
      BY <2>9, <2>11, <3>2 DEF Ready, Current, Runnable
    <3>4. Fits(r, ConnFence(t))
      <4>1. r.seeded /\ r.epoch = page.epoch
        BY <1>4, <1>6
      <4>2. r.generation >= conn.generation
        BY <2>4, <2>5, <2>14 DEF ReplicaType
      <4> QED
        BY <2>5, <2>10, <4>1, <4>2 DEF Fits, Abreast
    <3>5. CASE ~t.share
      <4>1. x = Rest(t)
        BY <3>1, <3>5 DEF StartPush
      <4>2. PushFine(c, Rest(t), r, NoReply, own, rows, Fence)
        BY <2>9, <2>11, <2>12, RestFine
      <4> QED
        BY <4>1, <4>2 DEF x
    <3>6. CASE t.share
      <4>1. x = PushUnderFence(c, t, r.rows, own)
        BY <3>1, <3>6 DEF StartPush
      <4>2. PushFine(c, PushUnderFence(c, t, r.rows, own), r, NoReply, own, rows, Fence)
        BY <2>12, <3>3, <3>4, PushUnderFenceFine
      <4> QED
        BY <4>1, <4>2 DEF x
    <3> QED
      BY <3>5, <3>6
  <2> QED
    BY <2>13, <2>14
<1> QED
  BY <1>3, <1>5, <1>6

-------------------------------------------------------------------------------
(* A client acts *)

\* What is known of a step, and of one that leaves the Hub's rows and fence.
PushMoves == HubMoves /\ SyncInv /\ SyncInv' /\ GrowthInv /\ PushInv
HubRests == rows' = rows /\ Fence' = Fence

\* Nothing of the other clients changes.
OnlyOf(c) == \A d \in Clients : d # c => /\ sync'[d] = sync[d] /\ reply'[d] = reply[d]
                                         /\ replica'[d] = replica[d] /\ local'[d] = local[d]

LEMMA ShapeOf == \A s : LoopType(s) => LoopShape(s)
BY DEF LoopType, LoopShape

LEMMA HubAt ==
    ASSUME HubInv, TimelineInv
    PROVE  Fence \in Fences /\ Fence.generation \in Nat /\ rows \in Corpus
<1>1. Fence \in Fences /\ generation \in Nat /\ rows \in Corpus
  BY HubFence, HubTypes DEF HubTrue
<1> QED
  BY <1>1 DEF Fence

\* What is known of a client before it acts, and of its loop after it did.
LEMMA Account ==
    ASSUME PushMoves, NEW c \in Clients
    PROVE  /\ LoopOK(sync[c]) /\ LoopShape(sync[c]) /\ LoopType(sync[c])
           /\ LoopFence(sync[c], Fence) /\ LoopGate(sync[c])
           /\ LoopType(sync'[c])
           /\ PushFine(c, sync[c], replica[c], reply[c], local[c], rows, Fence)
           /\ c \notin Replicating => replica[c].rows = NoRows
           /\ ReplicaType(replica[c]) /\ ReplicaTrue(replica[c], history)
           /\ ReplyTrue(sync[c], replica[c], reply[c], history, Fence)
           /\ local[c] \in Holdings /\ disk[c] \in Holdings /\ local'[c] \in Holdings
           /\ HubInv /\ TimelineInv /\ GrowthInv
           /\ Fence \in Fences /\ Fence.generation \in Nat /\ rows \in Corpus
<1>1. /\ LoopOK(sync[c]) /\ ReplicaType(replica[c]) /\ ReplicaTrue(replica[c], history)
      /\ ReplyTrue(sync[c], replica[c], reply[c], history, Fence)
      /\ local[c] \in Holdings /\ disk[c] \in Holdings
  BY Acting DEF PushMoves
<1>2. LoopType(sync'[c]) /\ local'[c] \in Holdings
  BY DEF PushMoves, SyncInv, PerClient, ClientOK, ClientFine
<1>3. PushFine(c, sync[c], replica[c], reply[c], local[c], rows, Fence)
  BY DEF PushMoves, PushInv
<1>4. LoopShape(sync[c]) /\ LoopType(sync[c]) /\ LoopFence(sync[c], Fence) /\ LoopGate(sync[c])
  BY <1>1, ShapeOf DEF LoopOK
<1>5. HubInv /\ TimelineInv /\ GrowthInv
  BY DEF PushMoves, HubMoves
<1> QED
  BY <1>1, <1>2, <1>3, <1>4, <1>5, HubAt DEF PushFine, PullsOwn

\* One client acts, its account is in order, and so is every other.
LEMMA Accounted ==
    ASSUME PushMoves, HubRests, NEW c \in Clients, OnlyOf(c),
           PushFine(c, sync'[c], replica'[c], reply'[c], local'[c], rows, Fence)
    PROVE  PushInv'
<1>1. ASSUME NEW d \in Clients
      PROVE  PushFine(d, sync'[d], replica'[d], reply'[d], local'[d], rows, Fence)
  BY DEF OnlyOf, PushMoves, PushInv
<1>2. ASSUME NEW d \in Clients
      PROVE  PushFine(d, sync'[d], replica'[d], reply'[d], local'[d], rows', Fence')
  BY <1>1 DEF HubRests
<1> QED
  BY <1>2 DEF PushInv, PushFine, Offered, SendsTodo, Receipted, WalkFits, FeedFits, PullsOwn, Fits,
     Abreast, Due, Sending, Carries

\* One client acts, and leaves its account in order.
LEMMA KeptAccount ==
    ASSUME PushMoves, HubRests, NEW c \in Clients, OnlyOf(c), Keeps(c, sync[c], sync'[c]),
           reply'[c] \in {reply[c], NoReply},
           \A k \in Keys : local'[c][k] = local[c][k] \/ Due(sync'[c], k)
                           \/ sync'[c].source.generation = -1,
           replica'[c] = replica[c] \/ (Waiting(sync'[c]) => sync'[c].stale),
           reply'[c] = reply[c] \/ (sync'[c].pc = "feed" => sync'[c].stale),
           c \notin Replicating => replica'[c].rows = NoRows
    PROVE  PushInv'
<1>1. PushFine(c, sync'[c], replica'[c], reply'[c], local'[c], rows, Fence)
  <2> DEFINE s == sync[c]
             t == sync'[c]
             r == replica[c]
             r2 == replica'[c]
             answer == reply[c]
             answer2 == reply'[c]
             own == local[c]
             own2 == local'[c]
  <2>1. LoopType(t) /\ own2 \in Holdings /\ PushFine(c, s, r, answer, own, rows, Fence)
        /\ Fence \in Fences /\ Fence.generation \in Nat
    BY Account
  <2> HIDE DEF s, t, r, r2, answer, answer2, own, own2
  <2>2. PushFine(c, t, r2, answer2, own2, rows, Fence)
    BY <2>1, KeptFine DEF s, t, r, r2, answer, answer2, own, own2
  <2> QED
    BY <2>2 DEF t, r2, answer2, own2
<1> QED
  BY <1>1, Accounted

\* An account stays in order while the Hub moves on.
LEMMA LaterAccount ==
    ASSUME PushMoves, HubStep, NEW c \in Clients, NEW t, LoopType(t), t.source = sync[c].source,
           PushFine(c, t, replica[c], reply[c], local[c], rows, Fence)
    PROVE  PushFine(c, t, replica[c], reply[c], local[c], rows', Fence')
<1>1. /\ Fence \in Fences /\ rows \in Corpus /\ local[c] \in Holdings
      /\ AtOrAfter(Fence, t.source)
  BY Account DEF LoopFence
<1>2. Fence' \in Fences /\ AtOrAfter(Fence', Fence)
  BY FenceMoves DEF PushMoves
<1>3. rows' \in Corpus
  BY DEF PushMoves, HubMoves, HubInv, FileOK, HistoryOK
<1>4. Fence' = Fence => RowsGrow(rows, rows')
  BY RowsGrowUnderFence DEF PushMoves, HubMoves
<1> QED
  BY <1>1, <1>2, <1>3, <1>4, PushFineLater

\* The Hub moves, and no client does.
LEMMA LaterAccounts ==
    ASSUME PushMoves, HubStep, UNCHANGED <<sync, reply, replica, local>>
    PROVE  PushInv'
<1>1. ASSUME NEW c \in Clients
      PROVE  PushFine(c, sync'[c], replica'[c], reply'[c], local'[c], rows', Fence')
  <2>1. PushFine(c, sync[c], replica[c], reply[c], local[c], rows', Fence')
    BY Account, LaterAccount
  <2> QED
    BY <2>1
<1> QED
  BY <1>1 DEF PushInv, PushFine, Offered, SendsTodo, Receipted, WalkFits, FeedFits, PullsOwn, Fits,
     Abreast, Due, Sending, Carries

-------------------------------------------------------------------------------
(* The Hub answers *)

LEMMA HubAtRest ==
    ASSUME UNCHANGED archiveVars
    PROVE  HubRests
BY DEF archiveVars, HubRests, Fence

\* One client's loop, answer, replica and holdings change.
LEMMA ActsAlone ==
    ASSUME PushMoves, NEW c \in Clients, NEW t, NEW answer, NEW r, NEW own,
           sync' = [sync EXCEPT ![c] = t], reply' = [reply EXCEPT ![c] = answer],
           replica' = [replica EXCEPT ![c] = r], local' = [local EXCEPT ![c] = own]
    PROVE  /\ OnlyOf(c) /\ sync'[c] = t /\ reply'[c] = answer
           /\ replica'[c] = r /\ local'[c] = own
<1>1. /\ sync = [d \in Clients |-> sync[d]] /\ reply = [d \in Clients |-> reply[d]]
      /\ replica = [d \in Clients |-> replica[d]] /\ local = [d \in Clients |-> local[d]]
  BY DEF PushMoves, SyncInv, PerClient
<1>2. ASSUME NEW old, NEW new, NEW x, old = [d \in Clients |-> old[d]], new = [old EXCEPT ![c] = x]
      PROVE  new[c] = x /\ \A d \in Clients : d # c => new[d] = old[d]
  BY <1>2
<1>3. /\ sync'[c] = t /\ reply'[c] = answer /\ replica'[c] = r /\ local'[c] = own
      /\ \A d \in Clients : d # c => /\ sync'[d] = sync[d] /\ reply'[d] = reply[d]
                                     /\ replica'[d] = replica[d] /\ local'[d] = local[d]
  BY <1>1, <1>2
<1> QED
  BY <1>3 DEF OnlyOf

\* Values that do not change, as values set anew.
LEMMA SetAnew ==
    ASSUME PushMoves, NEW c \in Clients
    PROVE  /\ sync = [sync EXCEPT ![c] = sync[c]] /\ reply = [reply EXCEPT ![c] = reply[c]]
           /\ replica = [replica EXCEPT ![c] = replica[c]]
           /\ local = [local EXCEPT ![c] = local[c]]
<1>1. local = [d \in Clients |-> local[d]]
  BY DEF PushMoves, SyncInv, PerClient
<1> QED
  BY <1>1, SameAt DEF PushMoves, SyncInv, PerClient

\* Only a push's answer is of account.
LEMMA Answered ==
    ASSUME PushMoves, HubRests, NEW c \in Clients, sync[c].pc \in {"snapshot", "changes", "status"},
           NEW answer, reply' = [reply EXCEPT ![c] = answer], UNCHANGED <<sync, replica, local>>
    PROVE  PushInv'
<1>1. /\ OnlyOf(c) /\ sync'[c] = sync[c] /\ replica'[c] = replica[c] /\ local'[c] = local[c]
  <2>1. /\ sync' = [sync EXCEPT ![c] = sync[c]] /\ replica' = [replica EXCEPT ![c] = replica[c]]
        /\ local' = [local EXCEPT ![c] = local[c]]
    BY SetAnew
  <2> QED
    BY <2>1, ActsAlone
<1>2. PushFine(c, sync[c], replica[c], reply[c], local[c], rows, Fence)
  BY Account
<1>3. PushFine(c, sync[c], replica[c], reply'[c], local[c], rows, Fence)
  BY <1>2 DEF PushFine, Receipted, FeedFits
<1>4. PushFine(c, sync'[c], replica'[c], reply'[c], local'[c], rows, Fence)
  BY <1>1, <1>3
<1> QED
  BY <1>1, <1>4, Accounted

LEMMA ServeSnapshotAccounts ==
    ASSUME PushMoves, NEW c \in Clients, ServeSnapshot(c)
    PROVE  PushInv'
<1>1. /\ sync[c].pc = "snapshot" /\ UNCHANGED <<sync, replica, local>> /\ UNCHANGED archiveVars
  BY DEF ServeSnapshot, Asked, OthersUnchanged
<1>2. PICK answer : reply' = [reply EXCEPT ![c] = answer]
  BY Zenon DEF ServeSnapshot, Answer
<1> QED
  BY <1>1, <1>2, HubAtRest, Answered

LEMMA ServeChangesAccounts ==
    ASSUME PushMoves, NEW c \in Clients, ServeChanges(c)
    PROVE  PushInv'
<1>1. sync[c].pc = "changes" /\ UNCHANGED <<sync, replica, local>>
  BY DEF ServeChanges, Asked, OthersUnchanged
<1>2. PICK answer : reply' = [reply EXCEPT ![c] = answer]
  BY Zenon DEF ServeChanges, Answer
<1>3. PruneHistory \/ UNCHANGED hubVars
  BY Zenon DEF ServeChanges
<1>4. HubRests
  BY <1>3 DEF PruneHistory, hubVars, archiveVars, HubRests, Fence
<1> QED
  BY <1>1, <1>2, <1>4, Answered

LEMMA ServeStatusAccounts ==
    ASSUME PushMoves, NEW c \in Clients, ServeStatus(c)
    PROVE  PushInv'
<1>1. sync[c].pc = "status" /\ UNCHANGED <<sync, replica, local>> /\ UNCHANGED archiveVars
  BY DEF ServeStatus, Asked, OthersUnchanged, hubVars
<1>2. PICK answer : reply' = [reply EXCEPT ![c] = answer]
  BY Zenon DEF ServeStatus, Answer
<1> QED
  BY <1>1, <1>2, HubAtRest, Answered

\* An accepted push leaves no key of its batch less full than it was sent.
LEMMA PushedIsCarried ==
    ASSUME HubInv, NEW m \in Machines, NEW fence, NEW batch \in Parcels, Push(m, fence, batch)
    PROVE  fence = Fence /\ Fence' = Fence /\ \A k \in DOMAIN batch : Carries(rows', k, batch[k])
<1>1. fence = Fence
  BY DEF Push
<1>2. /\ DOMAIN batch \subseteq Keys
      /\ \A k \in DOMAIN batch : batch[k] \in Copies /\ batch[k].total \in Nat /\ batch[k].tag \in Nat
  BY ParcelParts, CopyParts
<1>3. ASSUME NEW k \in DOMAIN batch, k \notin Winners(batch), rows'[k] = rows[k]
      PROVE  Carries(rows', k, batch[k])
  BY <1>3 DEF Winners, Carries, AtLeast
<1>4. CASE Winners(batch) = {}
  <2>1. UNCHANGED archiveVars
    BY <1>4 DEF Push
  <2>2. rows' = rows /\ Fence' = Fence
    BY <2>1, HubAtRest DEF HubRests
  <2> QED
    BY <1>1, <1>3, <1>4, <2>2
<1>5. CASE Winners(batch) # {}
  <2> DEFINE won == Winners(batch)
             last == eventSeq + Cardinality(won)
             puts(seqs) == [k \in won |-> Stamp(batch[k], m, seqs[k])]
  <2>1. PICK seqs \in [won -> (eventSeq + 1) .. last] :
           /\ AppendChange([k \in Keys |-> IF k \in won THEN puts(seqs)[k] ELSE rows[k]],
                           puts(seqs), None)
           /\ UNCHANGED epoch
    BY <1>5, Zenon DEF Push
  <2>2. rows' = [k \in Keys |-> IF k \in won THEN puts(seqs)[k] ELSE rows[k]]
        /\ generation' = generation
    BY <2>1 DEF AppendChange
  <2>3. Fence' = Fence
    BY <2>1, <2>2 DEF Fence
  <2>4. won \subseteq DOMAIN batch
    BY DEF Winners
  <2>5. ASSUME NEW k \in won PROVE Carries(rows', k, batch[k])
    <3>1. rows'[k] = Stamp(batch[k], m, seqs[k])
      BY <1>2, <2>2, <2>4, <2>5
    <3>2. /\ rows'[k] # NoRow /\ rows'[k].total = batch[k].total /\ rows'[k].tag = batch[k].tag
      <4>1. eventSeq \in Nat
        BY HubTypes DEF HubInv, FileOK
      <4>2. seqs[k] \in Nat \ {0}
        <5> HIDE DEF last, won
        <5>1. seqs[k] \in (eventSeq + 1) .. last
          BY <2>1, <2>5
        <5> QED
          BY <4>1, <5>1
      <4>3. batch[k] \in Copies
        BY <1>2, <2>4, <2>5
      <4>4. rows'[k] \in Rows
        BY <3>1, <4>2, <4>3, StampIsRow
      <4>5. rows'[k] # NoRow
        BY <4>4, RowParts
      <4> QED
        BY <3>1, <4>5 DEF Stamp
    <3>3. AtLeast(rows'[k], batch[k])
      BY <1>2, <2>4, <2>5, <3>2 DEF AtLeast, Supersedes, PartsExceed, TagExceeds, NoTag
    <3> QED
      BY <3>2, <3>3 DEF Carries
  <2>6. ASSUME NEW k \in DOMAIN batch, k \notin won PROVE Carries(rows', k, batch[k])
    BY <1>2, <1>3, <2>2, <2>6
  <2> QED
    BY <1>1, <2>3, <2>5, <2>6
<1> QED
  BY <1>4, <1>5

\* The Hub takes a push: what it was sent it carries from now on.
LEMMA ServePushAccounts ==
    ASSUME PushMoves, HubStep, NEW c \in Clients, ServePush(c)
    PROVE  PushInv'
<1> DEFINE s == sync[c]
<1>1. /\ s.pc = "push" /\ reply[c] = NoReply /\ UNCHANGED <<sync, replica, local>>
  BY DEF ServePush, Asked, OthersUnchanged
<1>2. PICK answer : /\ reply' = [reply EXCEPT ![c] = answer]
                    /\ \/ answer.status = "conflict"
                       \/ Push(c, s.fence, s.sent)
  <2>1. CASE Push(c, s.fence, s.sent) /\ Answer(c, "ok", Fence)
    BY <2>1 DEF Answer
  <2>2. CASE PushConflict(s.fence) /\ Answer(c, "conflict", None)
    <3>1. reply' = [reply EXCEPT ![c] = [status |-> "conflict", body |-> None]]
      BY <2>2 DEF Answer
    <3>2. [status |-> "conflict", body |-> None].status = "conflict"
      OBVIOUS
    <3> QED
      BY <3>1, <3>2
  <2> QED
    BY <2>1, <2>2 DEF ServePush
<1>3. /\ OnlyOf(c) /\ reply'[c] = answer
  <2>1. /\ sync' = [sync EXCEPT ![c] = sync[c]] /\ replica' = [replica EXCEPT ![c] = replica[c]]
        /\ local' = [local EXCEPT ![c] = local[c]]
    BY <1>1, SetAnew
  <2> QED
    BY <1>2, <2>1, ActsAlone
<1>4. ASSUME NEW d \in Clients
      PROVE  PushFine(d, sync[d], replica[d], reply[d], local[d], rows', Fence')
  BY Account, LaterAccount
<1>5. Receipted(s, answer, rows', Fence')
  <2>1. CASE answer.status = "conflict"
    BY <2>1 DEF Receipted
  <2>2. CASE Push(c, s.fence, s.sent)
    <3>1. c \in Machines /\ s.sent \in Parcels /\ HubInv
      BY SyncAssumption, Account DEF LoopType
    <3>2. \A k \in DOMAIN s.sent : Carries(rows', k, s.sent[k])
      BY <2>2, <3>1, PushedIsCarried
    <3> QED
      BY <3>2 DEF Receipted
  <2> QED
    BY <1>2, <2>1, <2>2
<1>6. PushFine(c, s, replica[c], answer, local[c], rows', Fence')
  BY <1>1, <1>4, <1>5 DEF PushFine, FeedFits
<1>7. ASSUME NEW d \in Clients
      PROVE  PushFine(d, sync'[d], replica'[d], reply'[d], local'[d], rows', Fence')
  <2>1. CASE d = c
    BY <1>1, <1>3, <1>6, <2>1
  <2>2. CASE d # c
    BY <1>3, <1>4, <2>2 DEF OnlyOf
  <2> QED
    BY <2>1, <2>2
<1> QED
  BY <1>7 DEF PushInv, PushFine, Offered, SendsTodo, Receipted, WalkFits, FeedFits, PullsOwn, Fits,
     Abreast, Due, Sending, Carries

-------------------------------------------------------------------------------
(* Steps that leave a client's account as it was *)

\* The loop moves, with its answer, or without.
LEMMA LoopAccount ==
    ASSUME PushMoves, HubRests, NEW c \in Clients, NEW t, sync' = [sync EXCEPT ![c] = t],
           Keeps(c, sync[c], t), UNCHANGED <<replica, local>>,
           NEW answer \in {reply[c], NoReply}, reply' = [reply EXCEPT ![c] = answer],
           answer = reply[c] \/ (t.pc = "feed" => t.stale)
    PROVE  PushInv'
<1>1. /\ OnlyOf(c) /\ sync'[c] = t /\ reply'[c] = answer
      /\ replica'[c] = replica[c] /\ local'[c] = local[c]
  <2>1. replica' = [replica EXCEPT ![c] = replica[c]] /\ local' = [local EXCEPT ![c] = local[c]]
    BY SetAnew
  <2> QED
    BY <2>1, ActsAlone
<1>2. c \notin Replicating => replica[c].rows = NoRows
  BY Account
<1> QED
  BY <1>1, <1>2, KeptAccount

\* The pass is over, and its answer with it.
LEMMA PassOver ==
    ASSUME PushMoves, HubRests, NEW c \in Clients, NEW t, sync' = [sync EXCEPT ![c] = t],
           Keeps(c, sync[c], t), t.pc # "feed", Consume(c), UNCHANGED <<replica, local>>
    PROVE  PushInv'
BY LoopAccount DEF Consume

\* A pass that is stopped at a feed or a walk finds itself stale.
LEMMA StoppedAccount ==
    ASSUME PushMoves, HubRests, NEW c \in Clients, NEW t, sync' = [sync EXCEPT ![c] = t],
           Keeps(c, sync[c], t), Stopped(sync[c], t), reply' = [reply EXCEPT ![c] = Drop(c)],
           UNCHANGED <<replica, local>>
    PROVE  PushInv'
<1>1. Waiting(t) => t.stale
  BY DEF Stopped, Waiting
<1>2. Drop(c) \in {reply[c], NoReply}
  BY DEF Drop
<1>3. t.pc = "feed" => t.stale
  BY <1>1 DEF Waiting
<1> QED
  BY <1>2, <1>3, LoopAccount

\* What a malformed page and a lost one come to.
LEMMA GivenUpKeeps ==
    ASSUME NEW c, NEW s, LoopType(s), LoopFence(s, Fence)
    PROVE  LET r == Rest(s)
               u == [r EXCEPT !.pending = FALSE]
               t == [r EXCEPT !.pending = FALSE, !.malformed = TRUE]
               v == [t EXCEPT !.degraded = TRUE]
           IN  /\ Keeps(c, s, r) /\ r.pc = "idle"
               /\ Keeps(c, s, u) /\ u.pc = "idle"
               /\ Keeps(c, s, Suspend(r)) /\ Suspend(r).pc = "idle"
               /\ Keeps(c, s, Suspend(t)) /\ Suspend(t).pc = "idle"
               /\ Keeps(c, s, v) /\ v.pc = "idle"
<1> DEFINE r == Rest(s)
           u == [r EXCEPT !.pending = FALSE]
           t == [r EXCEPT !.pending = FALSE, !.malformed = TRUE]
           v == [t EXCEPT !.degraded = TRUE]
<1>1. u.pc = "idle" /\ Suspend(t).pc = "idle" /\ v.pc = "idle" /\ Suspend(r).pc = "idle"
  <2>1. GivesUp(s, r) /\ GivesUp(s, u) /\ GivesUp(s, Suspend(t)) /\ GivesUp(s, v)
    BY RestGivesUp, GivenUp, MalformedGivesUp
  <2>2. GivesUp(s, Suspend(r))
    BY <2>1, RecoverGivesUp
  <2> HIDE DEF r, u, t, v
  <2> QED
    BY <2>1, <2>2 DEF GivesUp
<1>2. Keeps(c, s, r) /\ LoopShape(r) /\ r.pc = "idle"
  BY ShapeOf, RestKeeps
<1> HIDE DEF r
<1>3. IsLoop(r)
  BY <1>2 DEF LoopShape
<1>4. SameBut(r, u, {"pending"}) /\ SameBut(r, t, {"pending", "malformed"})
  <2>1. IsLoop(u) /\ \A f \in LoopFields \ {"pending"} : u[f] = r[f]
    BY <1>3, Zenon DEF IsLoop
  <2>2. IsLoop(t) /\ \A f \in LoopFields \ {"pending", "malformed"} : t[f] = r[f]
    BY <1>3, Zenon DEF IsLoop
  <2> QED
    BY <2>1, <2>2 DEF SameBut
<1> HIDE DEF u, t
<1>5. SameBut(t, v, {"degraded"})
  <2>1. IsLoop(t)
    BY <1>4 DEF SameBut
  <2>2. IsLoop(v) /\ \A f \in LoopFields \ {"degraded"} : v[f] = t[f]
    BY <2>1, Zenon DEF IsLoop
  <2> QED
    BY <2>2 DEF SameBut
<1> HIDE DEF v
<1>6. /\ {"pending"} \subseteq Quiet /\ {"pending", "malformed"} \subseteq Quiet
      /\ {"degraded"} \subseteq Quiet
  BY DEF Quiet
<1>7. Keeps(c, r, u) /\ Keeps(c, r, t) /\ LoopShape(t)
  BY <1>2, <1>4, <1>6, QuietKeeps
<1>8. Keeps(c, t, v)
  BY <1>5, <1>6, <1>7, QuietKeeps
<1>9. Keeps(c, r, Suspend(r)) /\ Keeps(c, t, Suspend(t))
  BY <1>2, <1>7, SuspendKeeps
<1>10. Keeps(c, s, t)
  BY <1>2, <1>7, KeepsThrough
<1>11. Keeps(c, s, u) /\ Keeps(c, s, v) /\ Keeps(c, s, Suspend(r)) /\ Keeps(c, s, Suspend(t))
  BY <1>2, <1>7, <1>8, <1>9, <1>10, KeepsThrough
<1> QED
  BY <1>1, <1>2, <1>11 DEF r, u, t, v

LEMMA RecoverAccounts ==
    ASSUME PushMoves, HubRests, NEW c \in Clients, Recover(c, Rest(sync[c])),
           Consume(c), UNCHANGED <<replica, local>>
    PROVE  PushInv'
<1> DEFINE t == Suspend(Rest(sync[c]))
<1>1. sync' = [sync EXCEPT ![c] = t]
  BY DEF Recover, SyncTo
<1>2. Keeps(c, sync[c], t) /\ t.pc = "idle"
  BY Account, GivenUpKeeps
<1> HIDE DEF t
<1> QED
  BY <1>1, <1>2, PassOver

LEMMA MalformedAccounts ==
    ASSUME PushMoves, HubRests, NEW c \in Clients, Malformed(c, sync[c]),
           Consume(c), UNCHANGED <<replica, local>>
    PROVE  PushInv'
<1> DEFINE t == [Rest(sync[c]) EXCEPT !.pending = FALSE, !.malformed = TRUE]
           u == Suspend(t)
           v == [t EXCEPT !.degraded = TRUE]
<1>1. \/ sync' = [sync EXCEPT ![c] = u]
      \/ sync' = [sync EXCEPT ![c] = v]
  BY DEF Malformed, Recover, SyncTo
<1>2. Keeps(c, sync[c], u) /\ u.pc = "idle" /\ Keeps(c, sync[c], v) /\ v.pc = "idle"
  BY Account, GivenUpKeeps
<1> HIDE DEF u, v, t
<1> QED
  BY <1>1, <1>2, PassOver

LEMMA RequestFailsAccounts ==
    ASSUME PushMoves, NEW c \in Clients, RequestFails(c)
    PROVE  PushInv'
<1> DEFINE t == [Rest(sync[c]) EXCEPT !.pending = FALSE]
<1>1. /\ sync' = [sync EXCEPT ![c] = t] /\ Consume(c) /\ UNCHANGED <<replica, local>>
      /\ UNCHANGED archiveVars
  BY DEF RequestFails, SyncTo
<1>2. Keeps(c, sync[c], t) /\ t.pc = "idle"
  BY Account, GivenUpKeeps
<1> HIDE DEF t
<1> QED
  BY <1>1, <1>2, HubAtRest, PassOver

LEMMA FeedFailsAccounts ==
    ASSUME PushMoves, NEW c \in Clients, FeedFails(c)
    PROVE  PushInv'
<1> DEFINE t == Rest(sync[c])
<1>1. Consume(c) /\ UNCHANGED <<replica, local>> /\ HubRests
  BY HubAtRest DEF FeedFails
<1>2. \/ Malformed(c, sync[c]) \/ Recover(c, t) \/ sync' = [sync EXCEPT ![c] = t]
  BY DEF FeedFails, SyncTo
<1>3. Keeps(c, sync[c], t) /\ t.pc = "idle"
  BY Account, GivenUpKeeps
<1>4. CASE sync' = [sync EXCEPT ![c] = t]
  <2> HIDE DEF t
  <2> QED
    BY <1>1, <1>3, <1>4, PassOver
<1> QED
  BY <1>1, <1>2, <1>4, MalformedAccounts, RecoverAccounts

\* The replica is emptied, with the loops gated.
LEMMA ReconcileUnlinkAccounts ==
    ASSUME PushMoves, NEW c \in Clients, ReconcileUnlink(c)
    PROVE  PushInv'
<1> DEFINE t == Suspend(sync[c])
<1>1. /\ sync' = [sync EXCEPT ![c] = t] /\ reply' = [reply EXCEPT ![c] = Drop(c)]
      /\ replica' = [replica EXCEPT ![c] = NewReplica] /\ UNCHANGED local /\ HubRests
  BY HubAtRest DEF ReconcileUnlink, SyncTo, hubVars
<1>2. LoopOK(sync[c]) /\ Keeps(c, sync[c], t)
  BY Account, SuspendKeeps
<1>3. Stopped(sync[c], t)
  BY <1>2, SuspendOK
<1> HIDE DEF t
<1>4. /\ OnlyOf(c) /\ sync'[c] = t /\ reply'[c] = Drop(c)
      /\ replica'[c] = NewReplica /\ local'[c] = local[c]
  <2>1. local' = [local EXCEPT ![c] = local[c]]
    BY <1>1, SetAnew
  <2> QED
    BY <1>1, <2>1, ActsAlone
<1>5. Waiting(t) => t.stale
  BY <1>3 DEF Stopped, Waiting
<1>6. t.pc = "feed" => t.stale
  BY <1>5 DEF Waiting
<1>7. Drop(c) \in {reply[c], NoReply} /\ NewReplica.rows = NoRows
  BY DEF Drop, NewReplica
<1> QED
  BY <1>1, <1>2, <1>4, <1>5, <1>6, <1>7, KeptAccount

\* What the rebuild read takes the place of what was held, and counts as
\* prepared for no fence.
LEMMA ReconcileFinishAccounts ==
    ASSUME PushMoves, NEW c \in Clients, ReconcileFinish(c)
    PROVE  PushInv'
<1> DEFINE t == Resynced(c, sync[c], disk[c])
<1>1. /\ sync' = [sync EXCEPT ![c] = t] /\ UNCHANGED <<reply, replica>>
      /\ local' = [local EXCEPT ![c] = disk[c]] /\ HubRests
  BY HubAtRest DEF ReconcileFinish, SyncTo, hubVars
<1>2. LoopType(sync[c]) /\ (c \notin Replicating => replica[c].rows = NoRows)
  BY Account
<1>3. Keeps(c, sync[c], t) /\ t.source.generation = -1
  BY <1>2, ResyncedKeeps
<1> HIDE DEF t
<1>4. /\ OnlyOf(c) /\ sync'[c] = t /\ reply'[c] = reply[c]
      /\ replica'[c] = replica[c] /\ local'[c] = disk[c]
  <2> DEFINE answer == reply[c]
             r == replica[c]
             own == disk[c]
  <2>1. /\ sync' = [sync EXCEPT ![c] = t] /\ reply' = [reply EXCEPT ![c] = answer]
        /\ replica' = [replica EXCEPT ![c] = r] /\ local' = [local EXCEPT ![c] = own]
    BY <1>1, SetAnew
  <2> HIDE DEF answer, r, own
  <2>2. /\ OnlyOf(c) /\ sync'[c] = t /\ reply'[c] = answer /\ replica'[c] = r /\ local'[c] = own
    BY <2>1, ActsAlone
  <2> QED
    BY <2>2 DEF answer, r, own
<1> QED
  BY <1>1, <1>2, <1>3, <1>4, KeptAccount

LEMMA ConnectAccounts ==
    ASSUME PushMoves, NEW c \in Clients, Connect(c)
    PROVE  PushInv'
<1> DEFINE s == sync[c]
           conn == [epoch |-> epoch, seq |-> cursor, generation |-> generation,
                    frame |-> cursor, live |-> TRUE]
           t == [s EXCEPT !.conn = conn, !.degraded = FALSE, !.malformed = FALSE, !.caughtUp = 0]
           u == Kick(c, t, local[c])
<1>1. /\ sync' = [sync EXCEPT ![c] = u] /\ UNCHANGED <<reply, replica, local>> /\ HubRests
  BY HubAtRest DEF Connect, SyncTo, hubVars
<1>2. LoopShape(s) /\ IsLoop(s)
  BY Account DEF LoopShape
<1> HIDE DEF conn, s
<1>3. SameBut(s, t, {"conn", "degraded", "malformed", "caughtUp"})
  <2>1. /\ IsLoop(t)
        /\ \A f \in LoopFields \ {"conn", "degraded", "malformed", "caughtUp"} : t[f] = s[f]
    BY <1>2, Zenon DEF IsLoop
  <2> QED
    BY <2>1 DEF SameBut
<1> HIDE DEF t
<1>4. Keeps(c, s, t) /\ LoopShape(t)
  <2>1. {"conn", "degraded", "malformed", "caughtUp"} \subseteq Quiet
    BY DEF Quiet
  <2> QED
    BY <1>2, <1>3, <2>1, QuietKeeps
<1>5. Keeps(c, s, u)
  BY <1>4, KickKeeps, KeepsThrough
<1> HIDE DEF u
<1>6. reply' = [reply EXCEPT ![c] = reply[c]]
  BY <1>1, SetAnew
<1> QED
  BY <1>1, <1>5, <1>6, LoopAccount DEF s

LEMMA DisconnectAccounts ==
    ASSUME PushMoves, NEW c \in Clients, Disconnect(c)
    PROVE  PushInv'
<1> DEFINE t == Disconnected(sync[c])
<1>1. /\ sync' = [sync EXCEPT ![c] = t] /\ reply' = [reply EXCEPT ![c] = Drop(c)]
      /\ UNCHANGED <<replica, local>> /\ HubRests
  BY HubAtRest DEF Disconnect, SyncTo
<1>2. LoopOK(sync[c]) /\ Keeps(c, sync[c], t)
  BY Account, DisconnectedKeeps
<1>3. Stopped(sync[c], t)
  BY <1>2, DisconnectedOK
<1> HIDE DEF t
<1> QED
  BY <1>1, <1>2, <1>3, StoppedAccount

LEMMA StatusFrameAccounts ==
    ASSUME PushMoves, NEW c \in Clients, StatusFrame(c)
    PROVE  PushInv'
<1> DEFINE s == sync[c]
           frame(n) == [epoch |-> epoch, seq |-> n, frame |-> n, live |-> TRUE,
                        generation |-> history[epoch][n].generation]
           told(n) == [s EXCEPT !.conn = frame(n)]
<1>1. UNCHANGED <<replica, local>> /\ HubRests
  BY HubAtRest DEF StatusFrame, hubVars
<1>2. PICK n :
         \/ /\ sync' = [sync EXCEPT ![c] = Suspend(told(n))]
            /\ reply' = [reply EXCEPT ![c] = Drop(c)]
         \/ /\ \/ sync' = [sync EXCEPT ![c] = Kick(c, told(n), local[c])]
               \/ sync' = [sync EXCEPT ![c] = told(n)]
            /\ UNCHANGED reply
  <2>1. PICK n \in (s.conn.frame + 1) .. cursor :
         LET t == told(n)
             elsewhere == c \in Replicating /\ replica[c].epoch \notin {0, epoch}
         IN  IF elsewhere
             THEN /\ Recover(c, t)
                  /\ reply' = [reply EXCEPT ![c] = Drop(c)]
                  /\ strays' = strays \cup Abandoned(c)
             ELSE /\ SyncTo(c, IF t.conn.seq > t.caughtUp \/ t.source # ConnFence(t)
                               THEN Kick(c, t, local[c]) ELSE t)
                  /\ UNCHANGED <<reply, recovery, strays>>
    BY Zenon DEF StatusFrame
  <2> HIDE DEF told
  <2> QED
    BY <2>1 DEF Recover, SyncTo
<1> DEFINE conn == frame(n)
           t == told(n)
<1>3. LoopShape(s) /\ IsLoop(s)
  BY Account DEF LoopShape
<1>4. t = [s EXCEPT !.conn = conn]
  OBVIOUS
<1> HIDE DEF conn, s, told, t
<1>5. SameBut(s, t, {"conn"})
  <2>1. IsLoop(t) /\ \A f \in LoopFields \ {"conn"} : t[f] = s[f]
    BY <1>3, <1>4, Zenon DEF IsLoop
  <2> QED
    BY <2>1 DEF SameBut
<1>6. Keeps(c, s, t) /\ LoopShape(t)
  <2>1. {"conn"} \subseteq Quiet
    BY DEF Quiet
  <2> QED
    BY <1>3, <1>5, <2>1, QuietKeeps
<1>7. CASE sync' = [sync EXCEPT ![c] = Suspend(t)] /\ reply' = [reply EXCEPT ![c] = Drop(c)]
  <2> DEFINE u == Suspend(t)
  <2>1. Keeps(c, s, u)
    BY <1>6, SuspendKeeps, KeepsThrough
  <2>2. \/ Waiting(u) => u.stale
    <3>1. CASE t.suspended
      <4>1. /\ u = t /\ t.stale = s.stale /\ t.pc = s.pc /\ s.suspended
        BY <1>5, <3>1 DEF SameBut, LoopFields, Suspend
      <4>2. LoopGate(s)
        BY Account DEF s
      <4> QED
        BY <4>1, <4>2 DEF LoopGate, Waiting
    <3>2. CASE ~t.suspended
      <4>1. IsLoop(t)
        BY <1>5 DEF SameBut
      <4>2. CASE Waiting(t)
        <5> DEFINE r == [t EXCEPT !.stale = TRUE]
        <5>1. u = [r EXCEPT !.suspended = TRUE, !.reset = Waiting(t), !.pending = FALSE]
          BY <3>2, <4>2, Zenon DEF Suspend, Abort
        <5>2. IsLoop(r)
          BY <4>1, Zenon DEF IsLoop
        <5>3. r.stale = TRUE
          BY <4>1, SMT DEF IsLoop, LoopFields
        <5> HIDE DEF r, u
        <5>4. u.stale = TRUE
          BY <5>1, <5>2, <5>3, SMT DEF IsLoop, LoopFields
        <5> QED
          BY <5>4
      <4>3. CASE ~Waiting(t)
        <5> DEFINE r == Rest(t)
        <5>1. r.pc = "idle" /\ IsLoop(r)
          BY <1>6, RestKeeps DEF LoopShape
        <5> HIDE DEF r
        <5>2. u = [r EXCEPT !.suspended = TRUE, !.reset = Waiting(t), !.pending = FALSE]
          BY <3>2, <4>3, Zenon DEF Suspend, Abort, r
        <5>3. u.pc = "idle"
          BY <5>1, <5>2, SMT DEF IsLoop, LoopFields
        <5> QED
          BY <5>3 DEF Waiting
      <4> QED
        BY <4>2, <4>3
    <3> QED
      BY <3>1, <3>2
  <2>3. u.pc = "feed" => u.stale
    BY <2>2 DEF Waiting
  <2>4. Drop(c) \in {reply[c], NoReply}
    BY DEF Drop
  <2>5. sync' = [sync EXCEPT ![c] = u]
    BY <1>7
  <2> HIDE DEF u
  <2> QED
    BY <1>1, <1>7, <2>1, <2>3, <2>4, <2>5, LoopAccount DEF s
<1>8. ASSUME NEW u, Keeps(c, s, u), sync' = [sync EXCEPT ![c] = u], UNCHANGED reply
      PROVE  PushInv'
  <2>1. reply' = [reply EXCEPT ![c] = reply[c]]
    BY <1>8, SetAnew
  <2> QED
    BY <1>1, <1>8, <2>1, LoopAccount DEF s
<1>9. CASE sync' = [sync EXCEPT ![c] = Kick(c, t, local[c])] /\ UNCHANGED reply
  <2>1. Keeps(c, s, Kick(c, t, local[c]))
    BY <1>6, KickKeeps, KeepsThrough
  <2> QED
    BY <1>8, <1>9, <2>1
<1> QED
  BY <1>2, <1>6, <1>7, <1>8, <1>9 DEF t

\* A loop's marks grow; what is held may change where it is marked.
Marked(s, t) ==
    /\ SameBut(s, t, {"full", "share", "dirty", "scan"}) /\ t.full \in BOOLEAN
    /\ t.full \/ (~s.full /\ s.dirty \subseteq t.dirty)

LEMMA MarkedShape ==
    ASSUME NEW c, NEW s, LoopShape(s), NEW t, Marked(s, t)
    PROVE  Keeps(c, s, t) /\ LoopShape(t)
<1>1. /\ t.source = s.source /\ t.acked = s.acked /\ t.pc = s.pc /\ t.sent = s.sent
      /\ t.fence = s.fence /\ t.todo = s.todo /\ t.stale = s.stale /\ t.feed = s.feed
      /\ t.wholly = s.wholly /\ IsLoop(t)
  BY DEF Marked, SameBut, LoopFields
<1>2. t.full \/ (~s.full /\ s.dirty \subseteq t.dirty)
  BY DEF Marked
<1>3. t.full \in BOOLEAN /\ t.wholly \in BOOLEAN
  BY <1>1, Zenon DEF LoopShape, Marked
<1>4. LoopShape(t)
  BY <1>1, <1>3, Zenon DEF LoopShape
<1> QED
  BY <1>1, <1>2, <1>4 DEF Keeps

LEMMA MarkedAccounts ==
    ASSUME PushMoves, HubRests, NEW c \in Clients, NEW t, Marked(sync[c], t), NEW own,
           sync' = [sync EXCEPT ![c] = Kick(c, t, own)] \/ sync' = [sync EXCEPT ![c] = t],
           local' = [local EXCEPT ![c] = own],
           \A k \in Keys : own[k] = local[c][k] \/ k \in t.dirty,
           UNCHANGED <<reply, replica>>
    PROVE  PushInv'
<1>1. Keeps(c, sync[c], t) /\ LoopShape(t)
  BY Account, MarkedShape
<1>2. PICK u : /\ sync' = [sync EXCEPT ![c] = u] /\ Keeps(c, t, u)
  BY <1>1, KickKeeps, SelfKeeps
<1>3. Keeps(c, sync[c], u)
  BY <1>1, <1>2, KeepsThrough
<1>4. /\ OnlyOf(c) /\ sync'[c] = u /\ reply'[c] = reply[c]
      /\ replica'[c] = replica[c] /\ local'[c] = own
  <2> DEFINE answer == reply[c]
             r == replica[c]
  <2>1. /\ sync' = [sync EXCEPT ![c] = u] /\ reply' = [reply EXCEPT ![c] = answer]
        /\ replica' = [replica EXCEPT ![c] = r] /\ local' = [local EXCEPT ![c] = own]
    BY <1>2, SetAnew
  <2> HIDE DEF answer, r
  <2>2. /\ OnlyOf(c) /\ sync'[c] = u /\ reply'[c] = answer /\ replica'[c] = r /\ local'[c] = own
    BY ONLY PushMoves, c \in Clients, <2>1, ActsAlone
  <2> QED
    BY <2>2 DEF answer, r
<1>5. \A k \in Keys : own[k] = local[c][k] \/ Due(u, k)
  BY <1>2 DEF Keeps, Due
<1>6. c \notin Replicating => replica[c].rows = NoRows
  BY Account
<1> QED
  BY <1>3, <1>4, <1>5, <1>6, KeptAccount

LEMMA EventsPokeAccounts ==
    ASSUME PushMoves, NEW c \in Clients, EventsPoke(c)
    PROVE  PushInv'
<1>1. /\ sync' = [sync EXCEPT ![c] = Kick(c, sync[c], local[c])]
      /\ UNCHANGED <<reply, replica, local>> /\ HubRests
  BY HubAtRest DEF EventsPoke, SyncTo, hubVars
<1>2. Marked(sync[c], sync[c])
  BY Account DEF Marked, SameBut, LoopType
<1>3. local' = [local EXCEPT ![c] = local[c]]
  BY <1>1, SetAnew
<1> QED
  BY <1>1, <1>2, <1>3, MarkedAccounts

LEMMA SweepAccounts ==
    ASSUME PushMoves, NEW c \in Clients, Sweep(c)
    PROVE  PushInv'
<1> DEFINE s == sync[c]
           t == [s EXCEPT !.full = TRUE]
<1>1. /\ sync' = [sync EXCEPT ![c] = Kick(c, t, local[c])]
      /\ UNCHANGED <<reply, replica, local>> /\ HubRests
  BY HubAtRest DEF Sweep, SyncTo, hubVars
<1>2. IsLoop(s)
  BY Account DEF LoopType
<1>3. Marked(s, t)
  <2> HIDE DEF s
  <2>1. IsLoop(t) /\ \A f \in LoopFields \ {"full"} : t[f] = s[f]
    BY <1>2, Zenon DEF IsLoop
  <2>2. t.full = TRUE
    BY <1>2, SMT DEF IsLoop, LoopFields
  <2> HIDE DEF t
  <2> QED
    BY <2>1, <2>2 DEF Marked, SameBut
<1> HIDE DEF t
<1>4. local' = [local EXCEPT ![c] = local[c]]
  BY <1>1, SetAnew
<1> QED
  BY <1>1, <1>3, <1>4, MarkedAccounts

LEMMA ToggleShareAccounts ==
    ASSUME PushMoves, NEW c \in Clients, ToggleShare(c)
    PROVE  PushInv'
<1> DEFINE s == sync[c]
           off == [s EXCEPT !.share = FALSE]
           on == [s EXCEPT !.share = TRUE, !.full = TRUE]
<1>1. /\ \/ sync' = [sync EXCEPT ![c] = off]
         \/ sync' = [sync EXCEPT ![c] = Kick(c, on, local[c])]
      /\ UNCHANGED <<reply, replica, local>> /\ HubRests
  BY HubAtRest DEF ToggleShare, SyncTo
<1>2. IsLoop(s) /\ s.full \in BOOLEAN
  BY Account DEF LoopType
<1>3. Marked(s, off)
  <2> HIDE DEF s
  <2>1. IsLoop(off) /\ \A f \in LoopFields \ {"share"} : off[f] = s[f]
    BY <1>2, Zenon DEF IsLoop
  <2> HIDE DEF off
  <2>2. off.full = s.full /\ off.dirty = s.dirty
    BY <2>1 DEF LoopFields
  <2> QED
    BY <1>2, <2>1, <2>2 DEF Marked, SameBut
<1>4. Marked(s, on)
  <2> HIDE DEF s
  <2>1. IsLoop(on) /\ \A f \in LoopFields \ {"share", "full"} : on[f] = s[f]
    BY <1>2, Zenon DEF IsLoop
  <2>2. on.full = TRUE
    BY <1>2, SMT DEF IsLoop, LoopFields
  <2> HIDE DEF on
  <2> QED
    BY <2>1, <2>2 DEF Marked, SameBut
<1> HIDE DEF off, on
<1>5. local' = [local EXCEPT ![c] = local[c]]
  BY <1>1, SetAnew
<1> QED
  BY <1>1, <1>3, <1>4, <1>5, MarkedAccounts

\* A key whose copy changes is marked.
LEMMA LocalWriteAccounts ==
    ASSUME PushMoves, NEW c \in Clients, LocalWrite(c)
    PROVE  PushInv'
<1> DEFINE s == sync[c]
           own(w) == IF local[c][w[1]] = NoCopy \/ Supersedes(w[2], local[c][w[1]])
                     THEN [local[c] EXCEPT ![w[1]] = w[2]] ELSE local[c]
           marked(w) == [s EXCEPT !.dirty = @ \cup {w[1]},
                                  !.scan = IF s.pc = "prepare" THEN [@ EXCEPT ![w[1]] = w[2]] ELSE @]
<1>1. UNCHANGED <<reply, replica>> /\ HubRests
  BY HubAtRest DEF LocalWrite, hubVars
<1>2. PICK w \in Produces[c] :
        /\ local' = [local EXCEPT ![c] = own(w)]
        /\ sync' = [sync EXCEPT ![c] = Kick(c, marked(w), own(w))]
  BY Zenon DEF LocalWrite, Fresh, SyncTo
<1> DEFINE k == w[1]
           copy == w[2]
           held == own(w)
           t == marked(w)
<1>3. IsLoop(s) /\ s.full \in BOOLEAN /\ local[c] \in Holdings
  BY Account DEF LoopType
<1> HIDE DEF k, copy, s
<1>4. Marked(s, t) /\ k \in t.dirty
  <2> DEFINE dirty == s.dirty \cup {k}
             scan == IF s.pc = "prepare" THEN [s.scan EXCEPT ![k] = copy] ELSE s.scan
  <2>1. t = [s EXCEPT !.dirty = dirty, !.scan = scan]
    BY Zenon DEF k, copy
  <2>2. s.dirty \subseteq dirty /\ k \in dirty
    OBVIOUS
  <2> HIDE DEF t, dirty, scan
  <2>3. IsLoop(t) /\ \A f \in LoopFields \ {"dirty", "scan"} : t[f] = s[f]
    BY <1>3, <2>1, Zenon DEF IsLoop
  <2>4. t.dirty = dirty /\ t.scan = scan
    BY <1>3, <2>1, SMT DEF IsLoop, LoopFields
  <2>5. t.full = s.full
    BY <2>3 DEF LoopFields
  <2> QED
    BY <1>3, <2>2, <2>3, <2>4, <2>5 DEF Marked, SameBut
<1>5. \A j \in Keys : held[j] = local[c][j] \/ j \in t.dirty
  <2> HIDE DEF t
  <2> QED
    BY <1>3, <1>4 DEF Holdings, k, copy
<1> HIDE DEF t
<1>6. sync' = [sync EXCEPT ![c] = Kick(c, t, held)] /\ local' = [local EXCEPT ![c] = held]
  BY <1>2 DEF t
<1> HIDE DEF held
<1> QED
  BY <1>1, <1>4, <1>5, <1>6, MarkedAccounts DEF s

-------------------------------------------------------------------------------
(* Steps that take an answer in *)

\* A pass that has done with its answer, and may be followed by another.
LEMMA DoneAccounts ==
    ASSUME PushMoves, HubRests, NEW c \in Clients, NEW next, LoopOK(next), NEW own \in Holdings,
           PushFine(c, next, replica[c], NoReply, own, rows, Fence),
           sync' = [sync EXCEPT ![c] = Again(c, next, own)],
           reply' = [reply EXCEPT ![c] = NoReply], replica' = replica,
           local' = [local EXCEPT ![c] = own]
    PROVE  PushInv'
<1> DEFINE w == Again(c, next, own)
           r == replica[c]
<1>1. /\ disk[c] \in Holdings /\ Fence \in Fences /\ Fence.generation \in Nat
      /\ (c \notin Replicating => r.rows = NoRows)
  BY Account
<1>2. LoopType(w) /\ Keeps(c, next, w)
  BY <1>1, AgainOK, AgainKeeps, ShapeOf DEF LoopOK
<1>3. /\ sync' = [sync EXCEPT ![c] = w] /\ reply' = [reply EXCEPT ![c] = NoReply]
      /\ replica' = [replica EXCEPT ![c] = r] /\ local' = [local EXCEPT ![c] = own]
  BY SetAnew
<1>4. PushFine(c, next, r, NoReply, own, rows, Fence)
  OBVIOUS
<1> HIDE DEF w, r
<1>5. OnlyOf(c) /\ sync'[c] = w /\ reply'[c] = NoReply /\ replica'[c] = r /\ local'[c] = own
  BY ONLY PushMoves, c \in Clients, <1>3, ActsAlone
<1>6. PushFine(c, w, r, NoReply, own, rows, Fence)
  BY <1>1, <1>2, <1>4, KeptFine
<1> QED
  BY <1>5, <1>6, Accounted

\* A committed page is to be fed: the replica has it.
LEMMA ToFeedFine ==
    ASSUME NEW c \in Replicating, NEW s, NEW t, SameBut(s, t, {"pc", "through", "feed"}),
           s.pc # "push", t.pc = "feed", NEW r, NEW answer, FeedFits(t, r, answer),
           NEW own, NEW corpus, NEW f, Offered(s, own, corpus, f)
    PROVE  PushFine(c, t, r, answer, own, corpus, f)
<1>1. t.source = s.source /\ t.acked = s.acked /\ t.full = s.full /\ t.dirty = s.dirty
  BY DEF SameBut, LoopFields
<1>2. Offered(t, own, corpus, f)
  BY <1>1 DEF Offered, Due
<1>3. SendsTodo(t) /\ Receipted(t, answer, corpus, f) /\ WalkFits(t, r) /\ PullsOwn(c, t, r)
  BY DEF SendsTodo, Receipted, WalkFits, PullsOwn
<1> QED
  BY <1>2, <1>3 DEF PushFine

LEMMA ReceiveSnapshotAccounts ==
    ASSUME PushMoves, NEW c \in Clients, ReceiveSnapshot(c)
    PROVE  PushInv'
<1> DEFINE s == sync[c]
           r == replica[c]
           page == reply[c].body
           t == [s EXCEPT !.pc = "feed"]
           r2 == SnapshotApplied(r, page)
<1>1. s.pc = "snapshot" /\ UNCHANGED local /\ HubRests
  BY HubAtRest DEF ReceiveSnapshot, hubVars
<1>2. \/ /\ replica' = [replica EXCEPT ![c] = r2]
         /\ sync' = [sync EXCEPT ![c] = t]
         /\ UNCHANGED reply
      \/ Malformed(c, s) /\ Consume(c) /\ UNCHANGED replica
      \/ Recover(c, Rest(s)) /\ Consume(c) /\ UNCHANGED replica
  BY DEF ReceiveSnapshot, SyncTo
<1>3. CASE /\ replica' = [replica EXCEPT ![c] = r2]
           /\ sync' = [sync EXCEPT ![c] = t]
           /\ UNCHANGED reply
  <2> DEFINE answer == reply[c]
             own == local[c]
  <2>1. /\ IsLoop(s) /\ s.feed = None /\ PushFine(c, s, r, answer, own, rows, Fence)
    BY <1>1, Account DEF LoopType, LoopGate
  <2>2. /\ sync' = [sync EXCEPT ![c] = t] /\ reply' = [reply EXCEPT ![c] = answer]
        /\ replica' = [replica EXCEPT ![c] = r2] /\ local' = [local EXCEPT ![c] = own]
    BY <1>1, <1>3, SetAnew
  <2>3. c \in Replicating /\ Offered(s, own, rows, Fence)
    BY <1>1, <2>1 DEF PushFine, PullsOwn
  <2> HIDE DEF answer, own, r2, r, page, s
  <2>4. SameBut(s, t, {"pc", "through", "feed"})
    <3>1. IsLoop(t) /\ \A f \in LoopFields \ {"pc"} : t[f] = s[f]
      BY <2>1, Zenon DEF IsLoop
    <3> QED
      BY <3>1 DEF SameBut
  <2>5. t.pc = "feed" /\ t.feed = s.feed
    BY <2>1, SMT DEF IsLoop, LoopFields
  <2> HIDE DEF t
  <2>6. OnlyOf(c) /\ sync'[c] = t /\ reply'[c] = answer /\ replica'[c] = r2 /\ local'[c] = own
    BY ONLY PushMoves, c \in Clients, <2>2, ActsAlone
  <2>7. FeedFits(t, r2, answer)
    BY <2>1, <2>5 DEF FeedFits
  <2>8. PushFine(c, t, r2, answer, own, rows, Fence)
    BY <1>1, <2>3, <2>4, <2>5, <2>7, ToFeedFine
  <2> QED
    BY <1>1, <2>6, <2>8, Accounted
<1> QED
  BY <1>1, <1>2, <1>3, MalformedAccounts, RecoverAccounts

LEMMA ReceiveChangesAccounts ==
    ASSUME PushMoves, NEW c \in Clients, ReceiveChanges(c)
    PROVE  PushInv'
<1> DEFINE s == sync[c]
           r == replica[c]
           page == reply[c].body
           t == Bounded(s, page.seq)
           feed == FeedOf(r, page)
           u == Feeding(t, feed)
           v == AfterPage(c, t, page)
           w == Again(c, v, local[c])
           r2 == ChangesApplied(r, page)
           refused == \/ Malformed(c, s) /\ Consume(c) /\ UNCHANGED replica
                      \/ Recover(c, Rest(s)) /\ Consume(c) /\ UNCHANGED replica
           ended == /\ sync' = [sync EXCEPT ![c] = w]
                    /\ Consume(c) /\ UNCHANGED replica
           taken == /\ News(r, page) # {}
                    /\ replica' = [replica EXCEPT ![c] = r2]
                    /\ sync' = [sync EXCEPT ![c] = u]
                    /\ UNCHANGED reply
<1>1. s.pc = "changes" /\ reply[c] # NoReply /\ UNCHANGED local /\ HubRests
  BY HubAtRest DEF ReceiveChanges, hubVars
<1>2. \/ refused
      \/ reply[c].status = "ok" /\ ChangesFit(r, page) /\ (ended \/ taken)
  BY DEF ReceiveChanges, SyncTo, Bounded, Feeding
<1>3. CASE refused
  BY <1>1, <1>3, MalformedAccounts, RecoverAccounts
<1>4. ASSUME reply[c].status = "ok", ChangesFit(r, page), ended \/ taken PROVE PushInv'
  <2> DEFINE answer == reply[c]
             own == local[c]
  <2>1. /\ LoopOK(s) /\ IsLoop(s) /\ ReplicaType(r) /\ ReplicaTrue(r, history)
        /\ ReplyTrue(s, r, reply[c], history, Fence) /\ StatesTrue(history)
        /\ PushFine(c, s, r, answer, own, rows, Fence)
        /\ HubInv /\ TimelineInv /\ GrowthInv /\ Fence \in Fences /\ Fence.generation \in Nat
        /\ own \in Holdings /\ disk[c] \in Holdings
    <3>1. StatesTrue(history)
      BY HubFence DEF PushMoves, HubMoves, HubTrue
    <3> QED
      BY <3>1, Account DEF LoopType
  <2>2. c \in Replicating /\ Offered(s, own, rows, Fence)
    BY <1>1, <2>1 DEF PushFine, PullsOwn
  <2>3. ChangesPageTrue(page, history, Fence)
    BY <1>1, <1>4, <2>1 DEF ReplyTrue
  <2>4. /\ News(r, page) # {} => r2.seeded /\ r2.epoch = r.epoch /\ FeedOK(feed)
        /\ r.seeded /\ page.epoch = r.epoch
    <3>1. r.seeded /\ page.epoch = r.epoch
      BY <1>4 DEF ChangesFit
    <3> QED
      BY <1>4, <2>1, <2>3, <3>1, ChangesCommitted
  <2>5. Reached(page, Fence) /\ page.complete \in BOOLEAN /\ page.seq \in Nat
    BY <2>3 DEF ChangesPageTrue, Reached
  <2>6. CASE ended
    <3>1. FeedOK(None)
      BY NoneIsParcel
    <3>2. /\ LoopType(t) /\ LoopFence(t, Fence) /\ t.feed = None /\ t.pc = "changes"
          /\ DOMAIN t.sent \subseteq DOMAIN t.todo
      BY <1>1, <2>1, <2>5, <3>1, ThroughOK
    <3>3. Offered(t, own, rows, Fence)
      <4> HIDE DEF s, page
      <4>1. IsLoop(t) /\ \A f \in LoopFields \ {"through"} : t[f] = s[f]
        BY <2>1, Zenon DEF IsLoop, Bounded
      <4>2. /\ t.source = s.source /\ t.acked = s.acked /\ t.full = s.full /\ t.dirty = s.dirty
            /\ t.pc = s.pc
        BY <4>1 DEF LoopFields
      <4> QED
        BY <1>1, <2>2, <4>2 DEF Offered, Due
    <3> HIDE DEF t
    <3>4. PushFine(c, v, r, NoReply, own, rows, Fence)
      <4>1. r = replica[c] /\ own = local[c]
        OBVIOUS
      <4> HIDE DEF r, own, page
      <4> QED
        BY <2>1, <2>2, <2>4, <2>5, <3>2, <3>3, <4>1, AfterPageFine
    <3>5. LoopOK(v)
      BY <2>1, <2>5, <3>2, AfterPageOK
    <3>6. /\ sync' = [sync EXCEPT ![c] = Again(c, v, own)] /\ reply' = [reply EXCEPT ![c] = NoReply]
          /\ replica' = replica /\ local' = [local EXCEPT ![c] = own]
      BY <1>1, <2>6, SetAnew DEF Consume
    <3> HIDE DEF v, own
    <3> QED
      BY <1>1, <2>1, <3>4, <3>5, <3>6, DoneAccounts
  <2>7. CASE taken
    <3>1. FeedOK(feed) /\ r2.seeded /\ r2.epoch = page.epoch
      BY <2>4, <2>7
    <3>2. /\ sync' = [sync EXCEPT ![c] = u] /\ reply' = [reply EXCEPT ![c] = answer]
          /\ replica' = [replica EXCEPT ![c] = r2] /\ local' = [local EXCEPT ![c] = own]
      BY <1>1, <2>7, SetAnew
    <3>3. answer.body = page
      OBVIOUS
    <3> HIDE DEF answer, own, r2, r, page, s, feed
    <3>4. SameBut(s, u, {"pc", "through", "feed"}) /\ u.pc = "feed"
      <4>1. IsLoop(t) /\ \A f \in LoopFields \ {"through"} : t[f] = s[f]
        BY <2>1, Zenon DEF IsLoop, Bounded
      <4> HIDE DEF t
      <4>2. IsLoop(u) /\ \A f \in LoopFields \ {"pc", "feed"} : u[f] = t[f]
        BY <4>1, Zenon DEF IsLoop, Feeding
      <4>3. u.pc = "feed"
        BY <4>1, SMT DEF IsLoop, LoopFields, Feeding
      <4> QED
        BY <4>1, <4>2, <4>3 DEF SameBut
    <3> HIDE DEF u
    <3>5. OnlyOf(c) /\ sync'[c] = u /\ reply'[c] = answer /\ replica'[c] = r2 /\ local'[c] = own
      BY ONLY PushMoves, c \in Clients, <3>2, ActsAlone
    <3>6. FeedFits(u, r2, answer)
      BY <3>1, <3>3 DEF FeedFits
    <3>7. PushFine(c, u, r2, answer, own, rows, Fence)
      BY <1>1, <2>2, <3>4, <3>6, ToFeedFine
    <3> QED
      BY <1>1, <3>5, <3>7, Accounted
  <2> QED
    BY <1>4, <2>6, <2>7
<1> QED
  BY <1>2, <1>3, <1>4

\* A fed change forgets what was acknowledged of the keys it deleted.
LEMMA ForgetsKeeps ==
    ASSUME NEW c, NEW s, LoopType(s), s.pc = "feed", s.feed # None, NEW gone, NEW feed
    PROVE  LET t == Forgets(s, gone)
               u == FedTo(t, feed)
           IN  Keeps(c, s, t) /\ LoopShape(t) /\ Keeps(c, s, u) /\ LoopShape(u)
<1> DEFINE acked == [k \in Keys |-> IF k \in gone THEN NoCopy ELSE s.acked[k]]
           t == Forgets(s, gone)
           u == FedTo(t, feed)
<1>1. IsLoop(s) /\ s.full \in BOOLEAN /\ s.wholly \in BOOLEAN
  BY DEF LoopType
<1>2. t = [s EXCEPT !.acked = acked]
  BY DEF Forgets
<1>3. \A k \in Keys : acked[k] \in {s.acked[k], NoCopy}
  OBVIOUS
<1> HIDE DEF t, acked
<1>4. IsLoop(t) /\ \A f \in LoopFields \ {"acked"} : t[f] = s[f]
  BY <1>1, <1>2, Zenon DEF IsLoop
<1>5. t.acked = acked
  BY <1>1, <1>2, SMT DEF IsLoop, LoopFields
<1>6. IsLoop(u) /\ \A f \in LoopFields \ {"feed"} : u[f] = t[f]
  BY <1>4, Zenon DEF IsLoop, FedTo
<1> HIDE DEF u
<1>7. /\ t.source = s.source /\ t.full = s.full /\ t.dirty = s.dirty /\ t.pc = s.pc
      /\ t.wholly = s.wholly /\ t.stale = s.stale /\ t.feed = s.feed
  BY <1>4 DEF LoopFields
<1>8. /\ u.source = s.source /\ u.full = s.full /\ u.dirty = s.dirty /\ u.pc = s.pc
      /\ u.wholly = s.wholly /\ u.stale = s.stale /\ u.acked = acked
  BY <1>5, <1>6, <1>7 DEF LoopFields
<1>9. Keeps(c, s, t) /\ Keeps(c, s, u)
  BY <1>1, <1>3, <1>5, <1>7, <1>8 DEF Keeps
<1>10. LoopShape(t) /\ LoopShape(u)
  BY <1>1, <1>4, <1>6, <1>7, <1>8, Zenon DEF LoopShape
<1> QED
  BY <1>9, <1>10 DEF t, u

\* The engine is fed; after the last change the drain goes on, or ends.
LEMMA FeedAccounts ==
    ASSUME PushMoves, NEW c \in Clients, Feed(c)
    PROVE  PushInv'
<1> DEFINE s == sync[c]
           r == replica[c]
           page == reply[c].body
           n == CHOOSE p \in DOMAIN s.feed : \A q \in DOMAIN s.feed : p <= q
           gone == s.feed[n].deletes
           left == [p \in DOMAIN s.feed \ {n} |-> s.feed[p]]
           t == Forgets(s, gone)
           drain == [s EXCEPT !.pc = IF r.seeded THEN "changes" ELSE "snapshot"]
           more == FedTo(t, left)
           done == FedTo(t, None)
           after == AfterPage(c, done, page)
           goes(next) == /\ sync' = [sync EXCEPT ![c] = Again(c, next, local[c])]
                         /\ IF next.pc = "feed" THEN UNCHANGED reply ELSE Consume(c)
<1>1. s.pc = "feed" /\ UNCHANGED <<replica, local>> /\ HubRests
  BY HubAtRest DEF Feed, hubVars
<1>2. \/ s.feed = None /\ goes(Rest(s))
      \/ s.feed = None /\ Current(s) /\ goes(drain)
      \/ s.feed # None /\ goes(Rest(t))
      \/ s.feed # None /\ DOMAIN left # {} /\ goes(more)
      \/ s.feed # None /\ goes(after)
  BY Zenon DEF Feed, SyncTo, Forgets, FedTo
<1>3. /\ LoopOK(s) /\ LoopType(s) /\ LoopShape(s) /\ LoopFence(s, Fence) /\ IsLoop(s)
      /\ ReplicaType(r) /\ ReplicaTrue(r, history)
      /\ ReplyTrue(s, r, reply[c], history, Fence)
      /\ PushFine(c, s, r, reply[c], local[c], rows, Fence)
      /\ local[c] \in Holdings /\ disk[c] \in Holdings
      /\ HubInv /\ TimelineInv /\ GrowthInv /\ Fence \in Fences /\ Fence.generation \in Nat
  BY Account DEF LoopType
<1>4. c \in Replicating /\ FeedFits(s, r, reply[c]) /\ Offered(s, local[c], rows, Fence)
  BY <1>1, <1>3 DEF PushFine, PullsOwn
<1>5. ASSUME NEW next, goes(next), LoopOK(next), Keeps(c, s, next), next.pc # "feed"
      PROVE  PushInv'
  <2> DEFINE w == Again(c, next, local[c])
  <2>1. Keeps(c, next, w) /\ Continues(next, w)
    BY <1>3, <1>5, AgainKeeps, AgainOK, ShapeOf DEF LoopOK
  <2>2. sync' = [sync EXCEPT ![c] = w] /\ Consume(c)
    BY <1>5
  <2> HIDE DEF w
  <2>3. w.pc # "feed" /\ Keeps(c, s, w)
    BY <1>5, <2>1, KeepsThrough DEF Continues
  <2> QED
    BY <1>1, <2>2, <2>3, PassOver
<1>6. FeedOK(None) /\ FeedOK(left)
  <2>1. DOMAIN left = DOMAIN s.feed \ {n} /\ \A p \in DOMAIN left : left[p] = s.feed[p]
    OBVIOUS
  <2>2. left = [p \in DOMAIN left |-> left[p]]
    OBVIOUS
  <2>3. FeedOK(s.feed)
    BY <1>3 DEF LoopType
  <2> HIDE DEF left, s, n
  <2>4. FeedOK(left)
    BY <2>1, <2>2, <2>3 DEF FeedOK
  <2> QED
    BY <2>4, NoneIsParcel
<1> HIDE DEF left, gone
<1>7. /\ LoopOK(t) /\ t.pc = "feed"
      /\ LoopOK(more) /\ more.pc = "feed" /\ more.feed = left
      /\ LoopOK(done) /\ done.pc = "feed" /\ done.feed = None /\ done.stale = s.stale
  BY <1>1, <1>3, <1>6, ForgetOK
<1>8. s.feed # None => /\ Keeps(c, s, t) /\ LoopShape(t)
                       /\ Keeps(c, s, more) /\ Keeps(c, s, done)
  BY <1>1, <1>3, ForgetsKeeps
<1> HIDE DEF t, more, done, after
<1>9. CASE s.feed = None /\ goes(Rest(s))
  <2>1. LoopOK(Rest(s)) /\ Rest(s).pc = "idle" /\ Keeps(c, s, Rest(s))
    BY <1>3, RestOK, RestKeeps
  <2> QED
    BY <1>5, <1>9, <2>1
<1>10. CASE s.feed = None /\ Current(s) /\ goes(drain)
  <2> DEFINE pc == IF r.seeded THEN "changes" ELSE "snapshot"
  <2>1. pc \in {"feed", "changes", "snapshot"} /\ pc # "feed" /\ drain = [s EXCEPT !.pc = pc]
    OBVIOUS
  <2> HIDE DEF pc, drain, s
  <2>2. LoopOK(drain) /\ drain.pc = pc
    BY <1>1, <1>3, <1>10, <2>1, DrainOK, Zenon
  <2>3. SameBut(s, drain, {"pc"})
    <3>1. IsLoop(drain) /\ \A f \in LoopFields \ {"pc"} : drain[f] = s[f]
      BY <1>3, <2>1, Zenon DEF IsLoop
    <3> QED
      BY <3>1 DEF SameBut
  <2>4. {"pc"} \subseteq Quiet \cup {"pc"}
    OBVIOUS
  <2>5. Keeps(c, s, drain)
    BY <1>1, <1>3, <1>4, <2>1, <2>2, <2>3, <2>4, MovesOnKeeps
  <2> QED
    BY <1>5, <1>10, <2>1, <2>2, <2>5
<1>11. CASE s.feed # None /\ goes(Rest(t))
  <2>1. LoopOK(Rest(t)) /\ Rest(t).pc = "idle" /\ Keeps(c, t, Rest(t))
    BY <1>7, <1>8, <1>11, RestOK, RestKeeps DEF LoopOK
  <2>2. Keeps(c, s, Rest(t))
    BY <1>8, <1>11, <2>1, KeepsThrough
  <2> QED
    BY <1>5, <1>11, <2>1, <2>2
<1>12. CASE s.feed # None /\ DOMAIN left # {} /\ goes(more)
  <2>1. Again(c, more, local[c]) = more
    BY <1>7 DEF Again
  <2>2. sync' = [sync EXCEPT ![c] = more] /\ reply' = reply
    BY <1>7, <1>12, <2>1
  <2>3. reply' = [reply EXCEPT ![c] = reply[c]]
    BY <2>2, SetAnew
  <2>4. Keeps(c, s, more)
    BY <1>8, <1>12
  <2> QED
    BY <1>1, <2>2, <2>3, <2>4, LoopAccount
<1>13. CASE s.feed # None /\ goes(after)
  <2> DEFINE own == local[c]
  <2>1. ChangesPageTrue(page, history, Fence)
    BY <1>1, <1>3, <1>13 DEF ReplyTrue
  <2>2. Reached(page, Fence) /\ page.complete \in BOOLEAN
    BY <2>1 DEF ChangesPageTrue
  <2>3. /\ LoopType(done) /\ LoopFence(done, Fence) /\ DOMAIN done.sent \subseteq DOMAIN done.todo
    BY <1>7 DEF LoopOK, LoopGate
  <2>4. Offered(done, own, rows, Fence)
    BY <1>3, <1>4, <1>8, <1>13, <2>3, KeptOffered
  <2>5. ~done.stale => r.seeded /\ r.epoch = page.epoch
    BY <1>1, <1>4, <1>7, <1>13 DEF FeedFits
  <2>6. done.feed = None /\ done.pc \notin {"prepare", "push"}
    BY <1>7
  <2>7. LoopOK(after) /\ after.pc # "feed"
    <3> HIDE DEF page, s
    <3> QED
      BY <1>3, <2>2, <2>3, <2>6, AfterPageOK DEF after
  <2>8. PushFine(c, after, r, NoReply, own, rows, Fence)
    <3>1. r = replica[c] /\ own = local[c] /\ own \in Holdings
      BY <1>3
    <3> HIDE DEF r, own, page, s
    <3> QED
      BY <1>3, <1>4, <2>2, <2>3, <2>4, <2>5, <2>6, <3>1, AfterPageFine DEF after
  <2>9. /\ sync' = [sync EXCEPT ![c] = Again(c, after, own)] /\ reply' = [reply EXCEPT ![c] = NoReply]
        /\ replica' = replica /\ local' = [local EXCEPT ![c] = own]
    BY <1>1, <1>13, <2>7, SetAnew DEF Consume
  <2>10. own \in Holdings /\ PushFine(c, after, replica[c], NoReply, own, rows, Fence)
    BY <1>3, <2>8
  <2> HIDE DEF own
  <2> QED
    BY <1>1, <2>7, <2>9, <2>10, DoneAccounts
<1> QED
  BY <1>2, <1>9, <1>10, <1>11, <1>12, <1>13

\* A client without a replica reads the Hub's status, and pushes under it.
LEMMA ReceiveStatusAccounts ==
    ASSUME PushMoves, NEW c \in Clients, ReceiveStatus(c)
    PROVE  PushInv'
<1> DEFINE s == sync[c]
           r == replica[c]
           own == local[c]
           status == reply[c].body
           conn == [s.conn EXCEPT !.epoch = status.epoch, !.seq = status.seq,
                                  !.generation = status.generation]
           t == [s EXCEPT !.conn.epoch = status.epoch, !.conn.seq = status.seq,
                          !.conn.generation = status.generation]
           u == PushUnderFence(c, t, NoRows, own)
<1>1. /\ s.pc = "status" /\ reply[c] # NoReply /\ HubRests
      /\ sync' = [sync EXCEPT ![c] = Again(c, u, own)] /\ Consume(c)
      /\ UNCHANGED <<replica, local>>
  BY HubAtRest DEF ReceiveStatus, SyncTo, hubVars
<1>2. /\ LoopOK(s) /\ LoopType(s) /\ IsLoop(s) /\ ReplicaType(r) /\ ReplicaTrue(r, history)
      /\ ReplyTrue(s, r, reply[c], history, Fence)
      /\ PushFine(c, s, r, reply[c], own, rows, Fence)
      /\ own \in Holdings /\ disk[c] \in Holdings
      /\ HubInv /\ TimelineInv /\ GrowthInv /\ Fence \in Fences /\ Fence.generation \in Nat
      /\ (c \notin Replicating => r.rows = NoRows)
  BY Account DEF LoopType
<1>3. Reached(status, Fence)
  BY <1>1, <1>2 DEF ReplyTrue
<1>4. c \notin Replicating /\ Offered(s, own, rows, Fence) /\ r.rows = NoRows
  BY <1>1, <1>2 DEF PushFine, PullsOwn
<1>5. LoopOK(u)
  <2> HIDE DEF s, status, own
  <2> QED
    BY <1>1, <1>2, <1>3, StatusOK, Zenon
<1>6. status.epoch \in Nat \ {0} /\ status.seq \in Nat /\ status.generation \in Nat
  BY <1>3 DEF Reached
<1>7. /\ sync' = [sync EXCEPT ![c] = Again(c, u, own)] /\ reply' = [reply EXCEPT ![c] = NoReply]
      /\ replica' = replica /\ local' = [local EXCEPT ![c] = own]
  BY <1>1, SetAnew DEF Consume
<1>8. r = replica[c] /\ own = local[c]
  OBVIOUS
<1>9. s.stale = FALSE /\ Runnable(s) /\ s.conn # NoConn /\ s.conn \in Links
      /\ s.feed = None /\ DOMAIN s.sent \subseteq DOMAIN s.todo
  BY <1>1, <1>2 DEF LoopOK, LoopType, LoopGate, Waiting, Requests, Runnable
<1> HIDE DEF r, own, s, status
<1>10. SameBut(s, t, {"conn"})
  <2>1. IsLoop(t) /\ \A f \in LoopFields \ {"conn"} : t[f] = s[f]
    BY <1>2, Zenon DEF IsLoop
  <2> QED
    BY <2>1 DEF SameBut
<1>11. t.conn = conn
  BY <1>2, SMT DEF IsLoop, LoopFields
<1>12. /\ conn \in Links /\ conn # NoConn
       /\ conn.epoch = status.epoch /\ conn.generation = status.generation
  BY <1>6, <1>9, SyncAssumption DEF Links
<1> HIDE DEF u
<1>13. PushFine(c, u, r, NoReply, own, rows, Fence)
  <2> HIDE DEF conn, t
  <2>1. LoopType(t)
    BY <1>2, <1>10, <1>11, <1>12 DEF LoopType, SameBut, LoopFields
  <2>2. LoopFence(t, Fence)
    <3>1. t.source = s.source /\ t.walked = s.walked /\ t.pc = s.pc
      BY <1>10 DEF SameBut, LoopFields
    <3>2. ConnFence(t) = [epoch |-> status.epoch, generation |-> status.generation]
      BY <1>11, <1>12 DEF ConnFence
    <3> QED
      BY <1>1, <1>2, <1>3, <3>1, <3>2 DEF LoopOK, LoopFence, Reached
  <2>3. /\ t.suspended = s.suspended /\ t.degraded = s.degraded /\ t.stale = s.stale
        /\ t.pc = s.pc /\ t.feed = s.feed /\ t.sent = s.sent /\ t.todo = s.todo
        /\ t.source = s.source /\ t.acked = s.acked /\ t.full = s.full /\ t.dirty = s.dirty
    BY <1>10 DEF SameBut, LoopFields
  <2>4. Ready(t)
    BY <1>1, <1>9, <1>11, <1>12, <2>1, <2>2, <2>3 DEF Ready, Current, Runnable
  <2>5. Offered(t, own, rows, Fence)
    BY <1>4, <2>3 DEF Offered, Due, Sending
  <2>6. Fits(r, ConnFence(t))
    BY <1>4 DEF Fits
  <2>7. PushFine(c, PushUnderFence(c, t, r.rows, own), r, NoReply, own, rows, Fence)
    BY <1>2, <2>4, <2>5, <2>6, PushUnderFenceFine
  <2> QED
    BY <1>4, <2>7 DEF u
<1>14. PushFine(c, u, replica[c], NoReply, own, rows, Fence)
  BY <1>8, <1>13
<1> QED
  BY <1>1, <1>2, <1>5, <1>7, <1>14, DoneAccounts

\* The sources were walked afresh, and all they gave is to be looked at.
Walked(s) == [s EXCEPT !.full = TRUE, !.walked = s.scanAt]
Prepared(s) == [Walked(s) EXCEPT !.source = s.fence, !.acked = NoCopies]

LEMMA PreparedFine ==
    ASSUME HubInv, TimelineInv, GrowthInv, Fence \in Fences,
           NEW c, NEW s, LoopOK(s), s.pc = "prepare",
           NEW r, ReplicaType(r), ReplicaTrue(r, history), c \notin Replicating => r.rows = NoRows,
           NEW answer, NEW before, PushFine(c, s, r, answer, before, rows, Fence),
           NEW own \in Holdings
    PROVE  /\ LoopOK(Rest(Walked(s))) /\ LoopOK(Examine(Prepared(s), r.rows, own))
           /\ PushFine(c, Rest(Walked(s)), r, NoReply, own, rows, Fence)
           /\ Current(s) => PushFine(c, Examine(Prepared(s), r.rows, own), r, NoReply, own, rows, Fence)
<1> DEFINE t == Walked(s)
           v == Prepared(s)
<1>1. /\ LoopOK(Rest(t)) /\ Rest(t).pc = "idle" /\ LoopOK(Examine(v, r.rows, own))
  <2> DEFINE held == r.rows
  <2> HIDE DEF held
  <2>1. LoopOK(Rest(t)) /\ Rest(t).pc = "idle" /\ LoopOK(Examine(v, held, own))
    BY PreparedOK, Zenon DEF Walked, Prepared
  <2> QED
    BY <2>1 DEF held
<1>2. LoopType(s) /\ IsLoop(s) /\ s.fence \in Fences /\ s.scanAt \in Fences
  BY DEF LoopOK, LoopType
<1>3. IsLoop(t) /\ \A f \in LoopFields \ {"full", "walked"} : t[f] = s[f]
  BY <1>2, Zenon DEF IsLoop, Walked
<1>4. t.full = TRUE /\ t.walked = s.scanAt
  BY <1>2, SMT DEF IsLoop, LoopFields, Walked
<1> HIDE DEF t
<1>5. v = [t EXCEPT !.source = s.fence, !.acked = NoCopies]
  BY DEF Prepared, t
<1>6. IsLoop(v) /\ \A f \in LoopFields \ {"source", "acked"} : v[f] = t[f]
  BY <1>3, <1>5, Zenon DEF IsLoop
<1>7. v.source = s.fence /\ v.acked = NoCopies
  BY <1>3, <1>5, SMT DEF IsLoop, LoopFields
<1> HIDE DEF v
<1>8. LoopType(t)
  BY <1>2, <1>3, <1>4 DEF LoopType, LoopFields
<1>9. LoopType(v)
  BY <1>2, <1>6, <1>7, <1>8, NoCopiesHeld DEF LoopType, LoopFields
<1>10. /\ t.source = s.source /\ t.acked = s.acked /\ v.fence = s.fence /\ v.full = TRUE
  BY <1>3, <1>4, <1>6 DEF LoopFields
<1>11. PushFine(c, Rest(t), r, NoReply, own, rows, Fence)
  <2> DEFINE w == Rest(t)
  <2>1. /\ SameBut(t, w, {"pc", "stale", "reset", "through", "feed", "fence", "wholly",
                          "todo", "sent", "scan", "scanAt", "full", "dirty"})
        /\ w.full = (t.full \/ (DOMAIN t.todo # {} /\ t.wholly))
    BY <1>3, RestFields
  <2>2. w.pc = "idle"
    BY <1>1
  <2> HIDE DEF w
  <2>3. w.full /\ w.source = s.source /\ w.acked = s.acked
    BY <1>4, <1>10, <2>1 DEF SameBut, LoopFields
  <2>4. Offered(w, own, rows, Fence)
    BY <2>3 DEF PushFine, Offered, Due
  <2>5. PushFine(c, w, r, NoReply, own, rows, Fence)
    BY <2>2, <2>4, IdleFine
  <2> QED
    BY <2>5 DEF w
<1>12. ASSUME Current(s) PROVE PushFine(c, Examine(v, r.rows, own), r, NoReply, own, rows, Fence)
  <2>1. Fits(r, s.fence)
    BY <1>12 DEF PushFine, WalkFits, Current
  <2>2. v.source = Fence => RowsGrow(r.rows, rows)
    BY <1>7, <2>1, FitReplica
  <2>3. rows \in Corpus /\ r.rows \in Corpus
    BY HubTypes DEF ReplicaType
  <2>4. v.source = Fence => /\ RowsGrow(r.rows, rows)
                            /\ \A k \in Held(own) : Due(v, k) \/ Carries(rows, k, own[k])
                            /\ \A k \in Held(v.acked) : Carries(rows, k, v.acked[k])
    BY <1>7, <1>10, <2>2 DEF Due, Held, NoCopies
  <2> QED
    BY <1>7, <1>9, <1>10, <2>3, <2>4, ExamineFine
<1> QED
  BY <1>1, <1>11, <1>12 DEF t, v

\* The walk's contributions take the place of the old ones.
LEMMA FinishPrepareAccounts ==
    ASSUME PushMoves, NEW c \in Clients, FinishPrepare(c)
    PROVE  PushInv'
<1> DEFINE s == sync[c]
           r == replica[c]
           t == Walked(s)
           v == Prepared(s)
           read(gone) == [k \in Keys |-> IF k \in gone THEN disk[c][k] ELSE s.scan[k]]
           swapped == s.reset /\ recovery[c] = "none"
<1>1. s.pc = "prepare" /\ UNCHANGED <<reply, replica>> /\ HubRests
  BY HubAtRest DEF FinishPrepare, hubVars
<1>2. /\ LoopOK(s) /\ ReplicaType(r) /\ ReplicaTrue(r, history)
      /\ ReplyTrue(s, r, reply[c], history, Fence)
      /\ PushFine(c, s, r, reply[c], local[c], rows, Fence)
      /\ local[c] \in Holdings /\ disk[c] \in Holdings /\ s.scan \in Holdings
      /\ HubInv /\ TimelineInv /\ GrowthInv /\ Fence \in Fences
      /\ (c \notin Replicating => r.rows = NoRows)
  BY Account DEF LoopType
<1>3. reply[c] = NoReply
  BY <1>1, <1>2 DEF ReplyTrue, Requests
<1>4. PICK gone \in SUBSET {k \in Keys : s.scan[k] # disk[c][k]} :
         LET own == IF swapped THEN local[c] ELSE read(gone)
             next == IF Current(s) THEN Examine(v, r.rows, own) ELSE Rest(t)
         IN  /\ local' = [local EXCEPT ![c] = own]
             /\ sync' = [sync EXCEPT ![c] = Again(c, next, own)]
  BY Zenon DEF FinishPrepare, SyncTo, Walked, Prepared
<1> DEFINE own == IF swapped THEN local[c] ELSE read(gone)
           next == IF Current(s) THEN Examine(v, r.rows, own) ELSE Rest(t)
<1>5. own \in Holdings
  <2>1. read(gone) \in Holdings
    BY <1>2 DEF Holdings
  <2> QED
    BY <1>2, <2>1
<1>6. /\ local' = [local EXCEPT ![c] = own] /\ sync' = [sync EXCEPT ![c] = Again(c, next, own)]
      /\ reply' = [reply EXCEPT ![c] = NoReply] /\ replica' = replica
  <2>1. reply' = [reply EXCEPT ![c] = reply[c]]
    BY <1>1, SetAnew
  <2>2. reply' = [reply EXCEPT ![c] = NoReply]
    BY <1>3, <2>1
  <2> QED
    BY <1>1, <1>4, <2>2
<1>7. r = replica[c]
  OBVIOUS
<1>8. next = IF Current(s) THEN Examine(v, r.rows, own) ELSE Rest(t)
  OBVIOUS
<1> HIDE DEF own, s, r, next
<1>9. LoopOK(next) /\ PushFine(c, next, r, NoReply, own, rows, Fence)
  BY <1>1, <1>2, <1>5, <1>8, PreparedFine
<1>10. PushFine(c, next, replica[c], NoReply, own, rows, Fence)
  BY <1>7, <1>9
<1> QED
  BY <1>1, <1>5, <1>6, <1>9, <1>10, DoneAccounts
\* A refused push forgets what its sources were prepared for.
Refused(s) == [s EXCEPT !.source.generation = -1]

\* A receipt acknowledges the batch, and what is left is to be sent.
Taken(s) == [s EXCEPT !.acked = [k \in Keys |-> IF k \in DOMAIN s.sent THEN s.sent[k] ELSE @[k]],
                      !.todo = [k \in DOMAIN s.todo \ DOMAIN s.sent |-> s.todo[k]]]

LEMMA PushedFine ==
    ASSUME Fence \in Fences, Fence.generation \in Nat,
           NEW c, NEW s, LoopOK(s), s.pc = "push",
           NEW r, c \notin Replicating => r.rows = NoRows,
           NEW answer, answer # NoReply, NEW own \in Holdings,
           PushFine(c, s, r, answer, own, rows, Fence)
    PROVE  /\ LoopOK(Rest(Refused(s))) /\ LoopOK(SendNext(Taken(s)))
           /\ PushFine(c, Rest(Refused(s)), r, NoReply, own, rows, Fence)
           /\ answer.status # "conflict" =>
                 PushFine(c, SendNext(Taken(s)), r, NoReply, own, rows, Fence)
<1> DEFINE acked == [k \in Keys |-> IF k \in DOMAIN s.sent THEN s.sent[k] ELSE s.acked[k]]
           todo == [k \in DOMAIN s.todo \ DOMAIN s.sent |-> s.todo[k]]
           refused == Refused(s)
           taken == Taken(s)
<1>1. LoopOK(Rest(refused)) /\ Rest(refused).pc = "idle" /\ LoopOK(SendNext(taken))
  BY PushedOK, Zenon DEF Refused, Taken
<1>2. /\ LoopType(s) /\ IsLoop(s) /\ s.source \in Fences /\ s.acked \in Holdings
      /\ s.sent \in Parcels /\ s.todo \in Parcels /\ DOMAIN s.sent \subseteq DOMAIN s.todo
  BY DEF LoopOK, LoopType, LoopGate
<1>3. \A k \in DOMAIN s.sent : s.sent[k] = s.todo[k]
  BY DEF PushFine, SendsTodo
<1>4. IsLoop(refused) /\ refused.source.generation = -1
  <2>1. IsLoop(refused) /\ refused.source = [s.source EXCEPT !.generation = -1]
    <3>1. IsLoop(refused)
      BY <1>2, Zenon DEF IsLoop, Refused
    <3>2. refused.source = [s.source EXCEPT !.generation = -1]
      BY <1>2, SMT DEF IsLoop, LoopFields, Refused
    <3> QED
      BY <3>1, <3>2
  <2> QED
    BY <1>2, <2>1 DEF Fences
<1>5. PushFine(c, Rest(refused), r, NoReply, own, rows, Fence)
  <2> DEFINE w == Rest(refused)
  <2> HIDE DEF refused
  <2>1. SameBut(refused, w, {"pc", "stale", "reset", "through", "feed", "fence", "wholly",
                             "todo", "sent", "scan", "scanAt", "full", "dirty"})
    BY <1>4, RestFields
  <2>2. w.pc = "idle"
    BY <1>1
  <2> HIDE DEF w
  <2>3. w.source # Fence
    BY <1>4, <2>1 DEF SameBut, LoopFields
  <2>4. Offered(w, own, rows, Fence)
    BY <2>3 DEF Offered
  <2>5. PushFine(c, w, r, NoReply, own, rows, Fence)
    BY <2>2, <2>4, IdleFine
  <2> QED
    BY <2>5 DEF w
<1>6. taken = [s EXCEPT !.acked = acked, !.todo = todo]
  BY DEF Taken
<1>7. /\ DOMAIN todo = DOMAIN s.todo \ DOMAIN s.sent
      /\ \A k \in DOMAIN todo : todo[k] = s.todo[k]
      /\ \A k \in Keys : acked[k] = IF k \in DOMAIN s.sent THEN s.sent[k] ELSE s.acked[k]
  OBVIOUS
<1>8. acked \in Holdings
  BY <1>2, ParcelParts DEF Holdings
<1>9. todo \in Parcels
  <2> DEFINE left == DOMAIN s.todo \ DOMAIN s.sent
  <2>1. left \in SUBSET Keys /\ \A k \in left : s.todo[k] \in Copies
    BY <1>2, ParcelParts
  <2> HIDE DEF left
  <2> QED
    BY <2>1, ParcelOf DEF left
<1> HIDE DEF taken, acked, todo
<1>10. IsLoop(taken) /\ \A f \in LoopFields \ {"acked", "todo"} : taken[f] = s[f]
  BY <1>2, <1>6, Zenon DEF IsLoop
<1>11. taken.acked = acked /\ taken.todo = todo
  BY <1>2, <1>6, SMT DEF IsLoop, LoopFields
<1>12. LoopType(taken)
  BY <1>2, <1>8, <1>9, <1>10, <1>11 DEF LoopType, LoopFields
<1>13. /\ taken.source = s.source /\ taken.fence = s.fence
       /\ taken.full = s.full /\ taken.dirty = s.dirty
  BY <1>10 DEF LoopFields
<1>14. ASSUME answer.status # "conflict"
       PROVE  PushFine(c, SendNext(taken), r, NoReply, own, rows, Fence)
  <2>1. taken.source = taken.fence \/ taken.source.generation = -1
    BY <1>13 DEF PushFine, SendsTodo
  <2>2. ASSUME taken.source = Fence
        PROVE  /\ \A k \in Held(own) :
                     Due(taken, k) \/ Carries(rows, k, own[k]) \/ Sending(taken, own, k)
               /\ \A k \in Held(taken.acked) : Carries(rows, k, taken.acked[k])
    <3>1. s.source = Fence
      BY <1>13, <2>2
    <3>2. /\ \A k \in Held(own) : Due(s, k) \/ Carries(rows, k, own[k]) \/ Sending(s, own, k)
          /\ \A k \in Held(s.acked) : Carries(rows, k, s.acked[k])
      BY <3>1 DEF PushFine, Offered
    <3>3. \A k \in DOMAIN s.sent : Carries(rows, k, s.sent[k])
      BY <1>14, <3>1 DEF PushFine, Receipted
    <3>4. ASSUME NEW k \in Held(own)
          PROVE  Due(taken, k) \/ Carries(rows, k, own[k]) \/ Sending(taken, own, k)
      <4>1. Due(s, k) => Due(taken, k)
        BY <1>13 DEF Due
      <4>2. Sending(s, own, k) /\ k \in DOMAIN s.sent => Carries(rows, k, own[k])
        BY <1>3, <3>3 DEF Sending
      <4>3. Sending(s, own, k) /\ k \notin DOMAIN s.sent => Sending(taken, own, k)
        BY <1>7, <1>11 DEF Sending
      <4> QED
        BY <3>2, <4>1, <4>2, <4>3
    <3>5. ASSUME NEW k \in Held(taken.acked) PROVE Carries(rows, k, taken.acked[k])
      <4>1. k \in Keys /\ acked[k] # NoCopy
        BY <1>11, <3>5 DEF Held
      <4>2. CASE k \in DOMAIN s.sent
        BY <1>7, <1>11, <3>3, <4>1, <4>2
      <4>3. CASE k \notin DOMAIN s.sent
        BY <1>7, <1>11, <3>2, <4>1, <4>3 DEF Held
      <4> QED
        BY <4>2, <4>3
    <3> QED
      BY <3>4, <3>5
  <2> QED
    BY <1>12, <2>1, <2>2, SendNextFine
<1> QED
  BY <1>1, <1>5, <1>14 DEF refused, taken

\* A push is answered.
LEMMA ReceivePushAccounts ==
    ASSUME PushMoves, NEW c \in Clients, ReceivePush(c)
    PROVE  PushInv'
<1> DEFINE s == sync[c]
           r == replica[c]
           own == local[c]
           answer == reply[c]
           next == IF answer.status = "conflict" THEN Rest(Refused(s)) ELSE SendNext(Taken(s))
<1>1. /\ s.pc = "push" /\ answer # NoReply /\ HubRests
      /\ sync' = [sync EXCEPT ![c] = Again(c, next, own)] /\ Consume(c)
      /\ UNCHANGED <<replica, local>>
  BY HubAtRest DEF ReceivePush, SyncTo, hubVars, Refused, Taken
<1>2. /\ LoopOK(s) /\ PushFine(c, s, r, answer, own, rows, Fence) /\ own \in Holdings
      /\ Fence \in Fences /\ Fence.generation \in Nat
      /\ (c \notin Replicating => r.rows = NoRows)
  BY Account
<1>3. /\ sync' = [sync EXCEPT ![c] = Again(c, next, own)] /\ reply' = [reply EXCEPT ![c] = NoReply]
      /\ replica' = replica /\ local' = [local EXCEPT ![c] = own]
  BY <1>1, SetAnew DEF Consume
<1>4. r = replica[c]
  OBVIOUS
<1>5. next = IF answer.status = "conflict" THEN Rest(Refused(s)) ELSE SendNext(Taken(s))
  OBVIOUS
<1> HIDE DEF s, r, own, answer, next
<1>6. LoopOK(next) /\ PushFine(c, next, r, NoReply, own, rows, Fence)
  BY <1>1, <1>2, <1>5, PushedFine
<1>7. PushFine(c, next, replica[c], NoReply, own, rows, Fence)
  BY <1>4, <1>6
<1> QED
  BY <1>1, <1>2, <1>3, <1>6, <1>7, DoneAccounts

\* A client that starts again has all it holds to offer.
LEMMA RestartClientAccounts ==
    ASSUME PushMoves, NEW c \in Clients, RestartClient(c)
    PROVE  PushInv'
<1> DEFINE share == sync[c].share
           t == [NewSync EXCEPT !.share = share]
           own == disk[c]
<1>1. /\ sync' = [sync EXCEPT ![c] = t] /\ reply' = [reply EXCEPT ![c] = NoReply]
      /\ local' = [local EXCEPT ![c] = own] /\ HubRests
  BY HubAtRest DEF RestartClient, SyncTo
<1>2. PICK opened \in {replica[c], NewReplica} : replica' = [replica EXCEPT ![c] = opened]
  BY DEF RestartClient
<1>3. Fence.generation \in Nat /\ (c \notin Replicating => replica[c].rows = NoRows)
  BY Account
<1>4. t.pc = "idle" /\ t.source = NoSource
  BY DEF NewSync
<1>5. c \notin Replicating => opened.rows = NoRows
  BY <1>2, <1>3 DEF NewReplica
<1> HIDE DEF t, own
<1>6. OnlyOf(c) /\ sync'[c] = t /\ reply'[c] = NoReply /\ replica'[c] = opened /\ local'[c] = own
  BY ONLY PushMoves, c \in Clients, <1>1, <1>2, ActsAlone
<1>7. Offered(t, own, rows, Fence)
  BY <1>3, <1>4 DEF Offered, NoSource
<1>8. PushFine(c, t, opened, NoReply, own, rows, Fence)
  BY <1>4, <1>5, <1>7, IdleFine
<1> QED
  BY <1>1, <1>6, <1>8, Accounted

-------------------------------------------------------------------------------
(* Steps no client takes part in *)

\* A Hub that stops closes the streams; no account reads them.
LEMMA HubStopsAccounts ==
    ASSUME PushMoves, HubStep, HubStops
    PROVE  PushInv'
<1> DEFINE closed(d) == IF sync[d].conn = NoConn THEN sync[d]
                        ELSE [sync[d] EXCEPT !.conn.live = FALSE]
<1>1. /\ sync' = [d \in Clients |-> closed(d)] /\ UNCHANGED <<reply, replica, local>>
  BY DEF HubStops
<1>2. ASSUME NEW d \in Clients
      PROVE  PushFine(d, closed(d), replica[d], reply[d], local[d], rows', Fence')
  <2> DEFINE s == sync[d]
             r == replica[d]
             answer == reply[d]
             own == local[d]
             t == closed(d)
  <2>1. /\ LoopShape(s) /\ IsLoop(s) /\ PushFine(d, s, r, answer, own, rows, Fence)
        /\ (d \notin Replicating => r.rows = NoRows)
        /\ own \in Holdings /\ Fence \in Fences /\ Fence.generation \in Nat
    BY Account DEF LoopType
  <2>2. LoopType(t)
    <3>1. LoopType(sync'[d])
      BY Account
    <3>2. sync'[d] = t
      BY <1>1
    <3> QED
      BY <3>1, <3>2
  <2>3. SameBut(s, t, {"conn"})
    <3>1. CASE s.conn = NoConn
      BY <2>1, <3>1 DEF SameBut
    <3>2. CASE s.conn # NoConn
      <4>1. t = [s EXCEPT !.conn.live = FALSE]
        BY <3>2
      <4> HIDE DEF t, s
      <4>2. IsLoop(t) /\ \A f \in LoopFields \ {"conn"} : t[f] = s[f]
        BY <2>1, <4>1, Zenon DEF IsLoop
      <4> QED
        BY <4>2 DEF SameBut
    <3> QED
      BY <3>1, <3>2
  <2> HIDE DEF s, t, r, answer, own
  <2>4. Keeps(d, s, t)
    <3>1. {"conn"} \subseteq Quiet
      BY DEF Quiet
    <3> QED
      BY <2>1, <2>3, <3>1, QuietKeeps
  <2>5. PushFine(d, t, r, answer, own, rows, Fence)
    BY <2>1, <2>2, <2>4, KeptFine
  <2>6. t.source = sync[d].source
    BY <2>3 DEF SameBut, LoopFields, s
  <2>7. PushFine(d, t, replica[d], reply[d], local[d], rows, Fence)
    BY <2>5 DEF r, answer, own
  <2>8. PushFine(d, t, replica[d], reply[d], local[d], rows', Fence')
    BY <2>2, <2>6, <2>7, LaterAccount
  <2> QED
    BY <2>8 DEF t
<1> HIDE DEF closed
<1>3. ASSUME NEW d \in Clients
      PROVE  PushFine(d, sync'[d], replica'[d], reply'[d], local'[d], rows', Fence')
  BY <1>1, <1>2
<1> QED
  BY <1>3 DEF PushInv, PushFine, Offered, SendsTodo, Receipted, WalkFits, FeedFits, PullsOwn, Fits,
     Abreast, Due, Sending, Carries
-------------------------------------------------------------------------------
(* The invariant *)

LEMMA EveryStepIsHubStep ==
    ASSUME SyncInv, [Next]_vars
    PROVE  HubStep
<1>1. CASE UNCHANGED vars
  BY <1>1 DEF vars, HubStep
<1>2. ASSUME NEW c \in Clients,
             Serve(c) \/ Receive(c) \/ Work(c) \/ Fault(c) \/ Connect(c) \/ Disconnect(c)
               \/ StatusFrame(c) \/ EventsPoke(c) \/ Sweep(c) \/ LocalWrite(c)
      PROVE  HubStep
  BY <1>2, ServeIsHubStep, ReceiveIsHubStep, OtherIsHubStep
<1> QED
  BY <1>1, <1>2, HubOwnStep DEF Next

LEMMA PushStep ==
    ASSUME HubInv, TimelineInv, SyncInv, GrowthInv, PushInv, [Next]_vars
    PROVE  GrowthInv' /\ PushInv'
<1>1. HubStep
  BY EveryStepIsHubStep
<1>2. GrowthInv'
  BY <1>1, GrowthStep
<1>3. PushMoves
  BY EveryStepMovesTheHub, SyncStep DEF PushMoves
<1>4. ASSUME NEW c \in Clients, Serve(c) PROVE PushInv'
  BY <1>1, <1>3, <1>4, ServeSnapshotAccounts, ServeChangesAccounts, ServeStatusAccounts,
     ServePushAccounts DEF Serve
<1>5. ASSUME NEW c \in Clients, Receive(c) PROVE PushInv'
  BY <1>3, <1>5, ReceiveSnapshotAccounts, ReceiveChangesAccounts, ReceiveStatusAccounts,
     ReceivePushAccounts DEF Receive
<1>6. ASSUME NEW c \in Clients, Work(c) PROVE PushInv'
  BY <1>3, <1>6, FeedAccounts, FinishPrepareAccounts, ReconcileUnlinkAccounts,
     ReconcileFinishAccounts DEF Work
<1>7. ASSUME NEW c \in Clients, Fault(c) PROVE PushInv'
  <2>1. CASE ReconcileFails(c) \/ TranscriptGone(c)
    <3>1. UNCHANGED <<sync, reply, replica, local>>
      BY <2>1 DEF ReconcileFails, TranscriptGone
    <3> QED
      BY <1>1, <1>3, <3>1, LaterAccounts
  <2> QED
    BY <1>3, <1>7, <2>1, RequestFailsAccounts, FeedFailsAccounts, ToggleShareAccounts,
       RestartClientAccounts DEF Fault
<1>8. ASSUME NEW c \in Clients,
             Connect(c) \/ Disconnect(c) \/ StatusFrame(c) \/ EventsPoke(c) \/ Sweep(c) \/ LocalWrite(c)
      PROVE  PushInv'
  BY <1>3, <1>8, ConnectAccounts, DisconnectAccounts, StatusFrameAccounts, EventsPokeAccounts,
     SweepAccounts, LocalWriteAccounts
<1>9. ASSUME ServeStray \/ Purge \/ PeerPush \/ Expire \/ UNCHANGED vars PROVE PushInv'
  <2>1. UNCHANGED <<sync, reply, replica, local>>
    BY <1>9 DEF ServeStray, OthersUnchanged, Purge, PeerPush, Expire, clientVars, vars
  <2> QED
    BY <1>1, <1>3, <2>1, LaterAccounts
<1>10. PushInv'
  BY <1>1, <1>3, <1>4, <1>5, <1>6, <1>7, <1>8, <1>9, HubStopsAccounts DEF Next
<1> QED
  BY <1>2, <1>10

LEMMA PushInit ==
    ASSUME Init
    PROVE  GrowthInv /\ PushInv
<1>1. HubInv /\ TimelineInv
  BY SyncInitInv
<1>2. GrowthInv
  <2>1. history = [e \in {1} |-> EmptyArchive.states]
    BY DEF Init, HubInit
  <2>2. EmptyArchive.states = [n \in {0} |-> [rows |-> NoRows, generation |-> 0]]
    BY DEF EmptyArchive
  <2>3. StatesGrow(EmptyArchive.states)
    BY <2>2, NothingGrows DEF StatesGrow
  <2> QED
    BY <2>1, <2>3 DEF GrowthInv
<1>3. ASSUME NEW c \in Clients
      PROVE  PushFine(c, sync[c], replica[c], reply[c], local[c], rows, Fence)
  <2>1. /\ sync[c] = NewSync /\ replica[c] = NewReplica /\ reply[c] = NoReply
    BY DEF Init
  <2>2. NewSync.pc = "idle" /\ NewSync.source = NoSource /\ NewReplica.rows = NoRows
    BY DEF NewSync, NewReplica
  <2>3. Fence.generation \in Nat
    BY <1>1, HubAt
  <2>4. Offered(NewSync, local[c], rows, Fence)
    BY <2>2, <2>3 DEF Offered, NoSource
  <2>5. PushFine(c, NewSync, NewReplica, NoReply, local[c], rows, Fence)
    BY <2>2, <2>4, IdleFine
  <2> QED
    BY <2>1, <2>5
<1> QED
  BY <1>2, <1>3 DEF PushInv

\* What every client has contributed, and what is marked, is accounted for at
\* every moment, whatever pass, recovery, deletion or restart is under way
\* (`push`, `prepareContributions` and the `finally` of a push in
\* event-sync.ts).
THEOREM PushInvariant == Spec => [](HubInv /\ TimelineInv /\ SyncInv /\ GrowthInv /\ PushInv)
<1>1. /\ HubInv /\ TimelineInv /\ SyncInv /\ GrowthInv /\ PushInv
      /\ [Next]_vars
      => (HubInv /\ TimelineInv /\ SyncInv /\ GrowthInv /\ PushInv)'
  BY SyncStep, PushStep
<1>2. Init => HubInv /\ TimelineInv /\ SyncInv /\ GrowthInv /\ PushInv
  BY SyncInitInv, PushInit
<1> QED
  BY <1>1, <1>2, PTL DEF Spec

\* A client at rest under the Hub's own fence, with nothing marked, has left
\* nothing behind: the Hub holds all it has, at least as full (`push` of
\* event-sync.ts, its stamps and its slices).
THEOREM NothingLeftBehindHolds == Spec => []NothingLeftBehind
<1>1. PushInv => NothingLeftBehind
  <2> SUFFICES ASSUME PushInv, NEW c \in Clients, sync[c].pc = "idle", ~sync[c].full,
                      sync[c].dirty = {}, sync[c].source = Fence, NEW k \in Held(local[c])
               PROVE  rows[k] # NoRow /\ AtLeast(rows[k], local[c][k])
    BY DEF NothingLeftBehind
  <2>1. Offered(sync[c], local[c], rows, Fence)
    BY DEF PushInv, PushFine
  <2>2. Carries(rows, k, local[c][k])
    BY <2>1 DEF Offered, Due
  <2> QED
    BY <2>2 DEF Carries
<1> QED
  BY <1>1, PushInvariant, PTL
===============================================================================
