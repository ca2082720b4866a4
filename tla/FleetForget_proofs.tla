-------------------------- MODULE FleetForget_proofs ---------------------------
(***************************************************************************)
(* A forget answered with ok is exact, for any archives, sessions, Hubs    *)
(* and callers (FleetForget).                                              *)
(***************************************************************************)
EXTENDS FleetForget, SequenceTheorems, WellFoundedInduction, TLAPS

HubStates == [epoch : Epochs, generation : Nat, rows : SUBSET RowKeys, done : SUBSET Dones]
Replicas == [epoch : Epochs \cup {Absent}, generation : Nat, rows : SUBSET RowKeys]
Pushes == [kind : {"push"}, hub : Hubs, epoch : Epochs, generation : Nat,
           rows : SUBSET RowKeys]
Forgets == [kind : {"forget"}, hub : Hubs, epoch : Epochs, op : Nat, pairs : SUBSET Sessions]
Connections == [hub : Hubs, gen : Nat]

\* The archive an epoch names is, or was, a Hub's.
Known(e) == e.number <= hubs[e.of].epoch.number

\* What the machine itself holds.
MachineOK ==
    /\ archive \subseteq RowKeys /\ engine \subseteq Admitted /\ barred \subseteq Sessions
    /\ conn \in Hubs \cup {Absent} /\ connGen \in Nat /\ (conn = Absent <=> connGen % 2 = 0)
    /\ ops \in Nat /\ asked \subseteq Callers

\* An archive is its Hub's, and an operation it did was drawn before.
HubsOK ==
    /\ hubs \in [Hubs -> HubStates]
    /\ \A h \in Hubs : hubs[h].epoch.of = h
    /\ \A h \in Hubs : \A d \in hubs[h].done : d.op <= ops

\* The replica is of an archive that was, and not ahead of the one that is.
ReplicaOK ==
    /\ replica \in Replicas
    /\ replica.epoch # Absent => Known(replica.epoch)
    /\ \A h \in Hubs : replica.epoch = hubs[h].epoch => replica.generation <= hubs[h].generation

\* So is a contribution on its way.
WireOK ==
    /\ late \subseteq Pushes \cup Forgets
    /\ \A r \in late : r.kind = "push" =>
         /\ r.epoch.of = r.hub /\ Known(r.epoch)
         /\ r.epoch = hubs[r.hub].epoch => r.generation <= hubs[r.hub].generation
    /\ \A r \in late : r.kind = "forget" => r.op <= ops

\* The intent is of an archive that was; a batch has an operation of its own.
IntentOK ==
    forgetIntent # Absent =>
        /\ forgetIntent \in Intents
        /\ forgetIntent.epoch.of = forgetIntent.hub /\ Known(forgetIntent.epoch)
        /\ forgetIntent.mode = "lossless" => forgetIntent.localComplete
        /\ \A n \in DOMAIN forgetIntent.batches : forgetIntent.batches[n].op \in 1 .. ops
        /\ \A n, m \in DOMAIN forgetIntent.batches :
             forgetIntent.batches[n].op = forgetIntent.batches[m].op => n = m

\* A caller asked for what the intent is about.
WantedOK ==
    forgetIntent # Absent =>
        \E c \in asked : PairsOf(c) = Scope(forgetIntent) /\ c.mode = forgetIntent.mode

\* A request on its way with a batch's operation is of its sessions.
RequestsOK ==
    forgetIntent # Absent =>
        \A r \in late : \A n \in DOMAIN forgetIntent.batches :
            r.kind = "forget" /\ r.op = forgetIntent.batches[n].op =>
                r.pairs = forgetIntent.batches[n].sessions

\* The forget under way works for the intent, on the archive it read.
StepOK ==
    /\ pc \in [step : {"idle", "epoch", "batch", "archive", "stamp", "engine", "learn"},
               caller : Callers \cup {Absent}]
    /\ pc.step = "idle" => pc = Idle
    /\ pc.step # "idle" => on \in Connections
    /\ landed \in BOOLEAN
    /\ pc.step = "epoch" =>
         /\ ~landed
         /\ pc.caller = Absent => forgetIntent # Absent
         /\ pc.caller # Absent => pc.caller \in asked
    /\ pc.step \in {"batch", "archive", "stamp", "engine", "learn"} =>
         /\ forgetIntent # Absent /\ forgetIntent.hub = on.hub /\ forgetIntent.epoch = read
    /\ pc.step \in {"archive", "stamp", "engine", "learn"} =>
         \A n \in DOMAIN forgetIntent.batches : forgetIntent.batches[n].receipt # Absent

\* The intent is of the archive its Hub has now.
Live == forgetIntent # Absent /\ hubs[forgetIntent.hub].epoch = forgetIntent.epoch

\* A receipt is of a deletion its Hub did.
ReceiptsOK ==
    Live => \A n \in DOMAIN forgetIntent.batches :
        LET b == forgetIntent.batches[n] IN
        b.receipt # Absent => b.receipt \in hubs[forgetIntent.hub].done /\ b.receipt.op = b.op

\* What such a deletion took is nowhere the Hub could get it from again: not in
\* its rows, not in a contribution it would take, not in a replica as new.
GoneFrom(h, d, keys) ==
    /\ hubs[h].rows \cap keys = {}
    /\ d.generation <= hubs[h].generation
    /\ \A r \in late :
         r.kind = "push" /\ r.epoch = hubs[h].epoch /\ r.rows \cap keys # {}
            => r.generation < d.generation
    /\ replica.epoch = hubs[h].epoch /\ replica.generation >= d.generation
         => replica.rows \cap keys = {}
RemovedOK ==
    Live => \A n \in DOMAIN forgetIntent.batches : \A d \in hubs[forgetIntent.hub].done :
        d.op = forgetIntent.batches[n].op /\ d.removed =>
            GoneFrom(forgetIntent.hub, d, KeysOf(forgetIntent.batches[n].sessions))

\* The archive half, once it is done.
ArchiveOK ==
    forgetIntent # Absent
    /\ (forgetIntent.localComplete \/ pc.step \in {"stamp", "engine", "learn"})
        => /\ forgetIntent.mode = "pair" => archive \cap KeysOf(Scope(forgetIntent)) = {}
           /\ forgetIntent.mode = "excluded" =>
                archive \cap (KeysOf(Scope(forgetIntent)) \cap Excluded) = {}

\* A batch is done, and its Hub had rows of it.
Took(b) == b.receipt # Absent /\ b.receipt.removed

\* The engine half: what the Hub removed comes back from this archive no more.
EngineOK ==
    /\ Live /\ pc.step = "learn" /\ forgetIntent.mode = "pair"
    /\ replica.epoch = forgetIntent.epoch
    => \A n \in DOMAIN forgetIntent.batches : Took(forgetIntent.batches[n]) =>
         engine \cap (KeysOf(forgetIntent.batches[n].sessions) \ Backed) = {}

\* What was answered gone is nowhere it could come back from.
GoneOK ==
    gone.hub # Absent =>
        /\ gone.hub \in Hubs /\ gone.epoch = hubs[gone.hub].epoch
        /\ conn \in {Absent, gone.hub} /\ replica.epoch = gone.epoch
        /\ gone.local \subseteq gone.remote /\ gone.remote \cap Backed = {}
        /\ gone.remote \subseteq RowKeys
        /\ hubs[gone.hub].rows \cap gone.remote = {} /\ replica.rows \cap gone.remote = {}
        /\ engine \cap gone.remote = {} /\ archive \cap gone.local = {}
        /\ (archive \cap Admitted) \cap gone.remote = {}
        /\ \A r \in late :
             r.kind = "push" /\ r.epoch = gone.epoch /\ r.rows \cap gone.remote # {}
                => r.generation < hubs[gone.hub].generation

\* A receipt says what its archive did.
CommittedOK ==
    forgetIntent # Absent =>
        \A n \in DOMAIN forgetIntent.batches : forgetIntent.batches[n].receipt # Absent =>
            [hub |-> forgetIntent.hub, epoch |-> forgetIntent.epoch] \in committed

ForgetInv ==
    /\ MachineOK /\ HubsOK /\ ReplicaOK /\ WireOK /\ IntentOK /\ WantedOK /\ RequestsOK
    /\ StepOK /\ ReceiptsOK /\ RemovedOK /\ ArchiveOK /\ EngineOK /\ GoneOK /\ CommittedOK
    /\ LandedIsTrue /\ OnlyAskedIsLost

USE ForgetAssumption

-------------------------------------------------------------------------------
(* The initial states *)

LEMMA InitInv == ForgetInit => ForgetInv
<1> SUFFICES ASSUME ForgetInit PROVE ForgetInv
    OBVIOUS
<1> USE DEF ForgetInit
<1>h. ASSUME NEW h \in Hubs
      PROVE  /\ hubs[h] \in HubStates /\ hubs[h].epoch.of = h /\ hubs[h].done = {}
             /\ hubs[h].epoch # Absent
  <2>1. PICK rows \in [Hubs -> {{}, Archived \cup Backed}] :
          hubs = [g \in Hubs |-> [epoch |-> Epoch(g, 0), generation |-> 0, rows |-> rows[g],
                                  done |-> {}]]
    OBVIOUS
  <2>2. Epoch(h, 0) \in Epochs /\ Epoch(h, 0).of = h
    BY DEF Epoch, Epochs
  <2>3. rows[h] \subseteq RowKeys
    OBVIOUS
  <2> QED
    BY <2>1, <2>2, <2>3 DEF HubStates
<1>1. MachineOK
  BY DEF MachineOK, Admitted
<1>2. HubsOK
  <2>1. \A h \in Hubs : hubs[h] \in HubStates
    BY <1>h
  <2> QED
    BY <1>h, <2>1 DEF HubsOK
<1>3. ReplicaOK
  BY <1>h DEF ReplicaOK, Replicas
<1>4. WireOK /\ RequestsOK /\ IntentOK /\ WantedOK
  BY DEF WireOK, RequestsOK, IntentOK, WantedOK
<1>5. StepOK
  BY DEF StepOK, Idle
<1>6. ReceiptsOK /\ RemovedOK /\ ArchiveOK /\ EngineOK /\ CommittedOK
  BY DEF ReceiptsOK, RemovedOK, ArchiveOK, EngineOK, CommittedOK, Live
<1>7. GoneOK
  BY DEF GoneOK, NoGone
<1>8. LandedIsTrue /\ OnlyAskedIsLost
  BY DEF LandedIsTrue, OnlyAskedIsLost
<1> QED
  BY <1>1, <1>2, <1>3, <1>4, <1>5, <1>6, <1>7, <1>8 DEF ForgetInv

-------------------------------------------------------------------------------
(* The connection, event sync and the Local archive *)

LEMMA ReconciledStep == ForgetInv /\ Reconciled => ForgetInv'
  BY DEF Reconciled, ForgetInv, syncVars, callVars, MachineOK, HubsOK, ReplicaOK, WireOK,
         IntentOK, WantedOK, RequestsOK, StepOK, ReceiptsOK, RemovedOK, GoneFrom, ArchiveOK,
         EngineOK, GoneOK, CommittedOK, LandedIsTrue, OnlyAskedIsLost, Live, Known

LEMMA ConnectStep == ASSUME ForgetInv, NEW h \in Hubs, Connect(h) PROVE ForgetInv'
<1> USE DEF ForgetInv
<1>0. UNCHANGED <<archive, forgetIntent, replica, engine, barred, hubs, late, pc, on, read,
                  landed, asked, committed, ops>>
  BY DEF Connect, callVars
<1>1. MachineOK'
  <2>1. conn' = h /\ connGen' = connGen + 1 /\ h # Absent /\ connGen % 2 = 0
    BY DEF Connect, MachineOK
  <2>2. connGen' \in Nat /\ connGen' % 2 # 0
    BY <2>1 DEF MachineOK
  <2> QED
    BY <1>0, <2>1, <2>2 DEF MachineOK, Admitted
<1>2. (HubsOK /\ ReplicaOK /\ WireOK /\ IntentOK /\ WantedOK /\ RequestsOK /\ StepOK)'
  BY <1>0 DEF HubsOK, ReplicaOK, WireOK, IntentOK, WantedOK, RequestsOK, StepOK, Known
<1>3. (ReceiptsOK /\ RemovedOK /\ ArchiveOK /\ EngineOK /\ CommittedOK)'
  BY <1>0 DEF ReceiptsOK, RemovedOK, GoneFrom, ArchiveOK, EngineOK, CommittedOK, Live
<1>4. GoneOK'
  <2>1. gone' = NoGone \/ (gone' = gone /\ gone.hub = h /\ conn' = h)
    BY DEF Connect
  <2> QED
    BY <1>0, <2>1 DEF GoneOK, NoGone
<1>5. (LandedIsTrue /\ OnlyAskedIsLost)'
  BY <1>0 DEF LandedIsTrue, OnlyAskedIsLost
<1> QED
  BY <1>1, <1>2, <1>3, <1>4, <1>5

LEMMA DisconnectStep == ForgetInv /\ Disconnect => ForgetInv'
<1> SUFFICES ASSUME ForgetInv, Disconnect PROVE ForgetInv'
    OBVIOUS
<1> USE DEF ForgetInv
<1>0. UNCHANGED <<archive, forgetIntent, replica, engine, barred, hubs, pc, on, read,
                  landed, asked, committed, gone, ops>>
  BY DEF Disconnect, callVars
<1>l. late' \subseteq late
  BY DEF Disconnect
<1>1. MachineOK'
  <2>1. conn' = Absent /\ connGen' = connGen + 1 /\ connGen % 2 # 0
    BY DEF Disconnect, MachineOK
  <2>2. connGen' \in Nat /\ connGen' % 2 = 0
    BY <2>1 DEF MachineOK
  <2> QED
    BY <1>0, <2>1, <2>2 DEF MachineOK, Admitted
<1>2. (HubsOK /\ ReplicaOK /\ IntentOK /\ WantedOK /\ StepOK)'
  BY <1>0 DEF HubsOK, ReplicaOK, IntentOK, WantedOK, StepOK, Known
<1>w. (WireOK /\ RequestsOK)'
  BY <1>0, <1>l DEF WireOK, RequestsOK, Known
<1>3. (ReceiptsOK /\ ArchiveOK /\ EngineOK /\ CommittedOK)'
  BY <1>0 DEF ReceiptsOK, ArchiveOK, EngineOK, CommittedOK, Live
<1>r. RemovedOK'
  BY <1>0, <1>l DEF RemovedOK, GoneFrom, Live
<1>4. GoneOK'
  <2>1. conn' = Absent
    BY DEF Disconnect
  <2> QED
    BY <1>0, <1>l, <2>1 DEF GoneOK, NoGone
<1>5. (LandedIsTrue /\ OnlyAskedIsLost)'
  BY <1>0 DEF LandedIsTrue, OnlyAskedIsLost
<1> QED
  BY <1>1, <1>2, <1>w, <1>3, <1>r, <1>4, <1>5

\* The keys of sessions are keys; what a Hub holds of an archive another lacks.
LEMMA KeysAreKeys == \A pairs : KeysOf(pairs) \subseteq RowKeys
  BY DEF KeysOf

\* Archives of two Hubs are two.
LEMMA EpochNamesHub ==
    ASSUME HubsOK, NEW g \in Hubs, NEW h \in Hubs, hubs[g].epoch = hubs[h].epoch
    PROVE  g = h
  BY DEF HubsOK

LEMMA HubTypes ==
    ASSUME HubsOK, NEW h \in Hubs
    PROVE  /\ hubs[h].epoch \in Epochs /\ hubs[h].epoch # Absent
           /\ hubs[h].generation \in Nat /\ hubs[h].rows \subseteq RowKeys
           /\ hubs[h].done \subseteq Dones /\ Known(hubs[h].epoch)
<1>1. hubs[h] \in HubStates /\ hubs[h].epoch.of = h
  BY DEF HubsOK
<1>2. hubs[h].epoch \in Epochs
  BY <1>1 DEF HubStates
<1> QED
  BY <1>1, <1>2 DEF HubStates, Known, Epochs

LEMMA PullStep == ForgetInv /\ Pull => ForgetInv'
<1> SUFFICES ASSUME ForgetInv, Pull PROVE ForgetInv'
    OBVIOUS
<1> USE DEF ForgetInv
<1>0. UNCHANGED <<archive, forgetIntent, barred, hubs, late, conn, connGen, pc, on, read,
                  landed, asked, committed, gone, ops>>
  BY DEF Pull, callVars
<1>c. conn \in Hubs
  BY DEF Pull, MachineOK
<1>h. /\ hubs[conn].epoch \in Epochs /\ hubs[conn].epoch # Absent
      /\ hubs[conn].generation \in Nat /\ hubs[conn].rows \subseteq RowKeys
      /\ Known(hubs[conn].epoch)
  BY <1>c, HubTypes
<1>r. /\ replica'.epoch = hubs[conn].epoch /\ replica'.generation = hubs[conn].generation
      /\ replica'.rows = hubs[conn].rows /\ replica' \in Replicas
  BY <1>h DEF Pull, Replicas
<1>e. engine' = Taken((IF InStep THEN engine ELSE archive \cup Backed) \cup hubs[conn].rows)
  BY DEF Pull
<1>1. MachineOK'
  <2>1. engine' \subseteq Admitted
    BY <1>e DEF Taken
  <2> QED
    BY <1>0, <2>1 DEF MachineOK, Admitted
<1>2. (HubsOK /\ IntentOK /\ WantedOK /\ WireOK /\ RequestsOK /\ StepOK)'
  BY <1>0 DEF HubsOK, IntentOK, WantedOK, WireOK, RequestsOK, StepOK, Known
<1>3. ReplicaOK'
  <2>1. \A h \in Hubs : replica'.epoch = hubs'[h].epoch => h = conn
    BY <1>0, <1>c, <1>r, EpochNamesHub
  <2>2. Known(replica.epoch)'
    BY <1>0, <1>r, <1>h DEF Known
  <2> QED
    BY <1>0, <1>c, <1>h, <1>r, <2>1, <2>2 DEF ReplicaOK
<1>4. (ReceiptsOK /\ ArchiveOK /\ CommittedOK)'
  BY <1>0 DEF ReceiptsOK, ArchiveOK, CommittedOK, Live
<1>5. RemovedOK'
  <2> SUFFICES ASSUME Live, NEW n \in DOMAIN forgetIntent.batches,
                      NEW d \in hubs[forgetIntent.hub].done,
                      d.op = forgetIntent.batches[n].op, d.removed
               PROVE  GoneFrom(forgetIntent.hub, d, KeysOf(forgetIntent.batches[n].sessions))'
    BY <1>0 DEF RemovedOK, Live
  <2>1. GoneFrom(forgetIntent.hub, d, KeysOf(forgetIntent.batches[n].sessions))
    BY DEF RemovedOK
  <2>2. forgetIntent.hub \in Hubs
    BY DEF IntentOK, Intents, Live
  <2>3. replica'.epoch = hubs[forgetIntent.hub].epoch => forgetIntent.hub = conn
    BY <1>c, <1>r, <2>2, EpochNamesHub
  <2> QED
    BY <1>0, <1>r, <2>1, <2>3 DEF GoneFrom
<1>6. EngineOK'
  <2> SUFFICES ASSUME Live, pc.step = "learn", forgetIntent.mode = "pair",
                      replica'.epoch = forgetIntent.epoch,
                      NEW n \in DOMAIN forgetIntent.batches, Took(forgetIntent.batches[n])
               PROVE  engine' \cap (KeysOf(forgetIntent.batches[n].sessions) \ Backed) = {}
    BY <1>0 DEF EngineOK, Live
  <2> DEFINE b == forgetIntent.batches[n]
             keys == KeysOf(b.sessions)
  <2>1. forgetIntent.hub \in Hubs
    BY DEF IntentOK, Intents, Live
  <2>2. conn = forgetIntent.hub
    BY <1>c, <1>r, <2>1, EpochNamesHub DEF Live
  <2>3. b.receipt \in hubs[conn].done /\ b.receipt.op = b.op /\ b.receipt.removed
    BY <2>2 DEF ReceiptsOK, Took
  <2>4. hubs[conn].rows \cap keys = {}
    BY <2>2, <2>3 DEF RemovedOK, GoneFrom
  <2>5. keys \subseteq KeysOf(Scope(forgetIntent))
    BY DEF KeysOf, Scope
  <2>6. archive \cap KeysOf(Scope(forgetIntent)) = {}
    BY DEF ArchiveOK, Live
  <2>7. InStep => engine \cap (keys \ Backed) = {}
    BY <1>r, <1>c DEF EngineOK, InStep
  <2> HIDE DEF b, keys
  <2> QED
    BY <1>e, <2>4, <2>5, <2>6, <2>7 DEF Taken, b, keys
<1>7. GoneOK'
  <2> SUFFICES ASSUME gone.hub # Absent PROVE GoneOK'
    BY <1>0 DEF GoneOK
  <2>1. conn = gone.hub
    BY <1>c DEF GoneOK
  <2>2. engine' \cap gone.remote = {}
    BY <1>e, <2>1 DEF GoneOK, Taken
  <2> QED
    BY <1>0, <1>r, <2>1, <2>2 DEF GoneOK
<1>8. (LandedIsTrue /\ OnlyAskedIsLost)'
  BY <1>0 DEF LandedIsTrue, OnlyAskedIsLost
<1> QED
  BY <1>1, <1>2, <1>3, <1>4, <1>5, <1>6, <1>7, <1>8

LEMMA PushStep == ForgetInv /\ Push => ForgetInv'
<1> SUFFICES ASSUME ForgetInv, Push PROVE ForgetInv'
    OBVIOUS
<1> USE DEF ForgetInv
<1> DEFINE sent == [kind |-> "push", hub |-> conn, epoch |-> replica.epoch,
                    generation |-> replica.generation, rows |-> Owes]
<1>0. UNCHANGED <<archive, forgetIntent, replica, engine, barred, hubs, conn, connGen, pc, on,
                  read, landed, asked, committed, gone, ops>>
  BY DEF Push, callVars, syncVars
<1>l. late' = late \cup {sent}
  BY DEF Push
<1>c. conn \in Hubs /\ replica.epoch = hubs[conn].epoch
      /\ replica.generation = hubs[conn].generation
  BY DEF Push, InStep, MachineOK
<1>h. /\ hubs[conn].epoch \in Epochs /\ hubs[conn].generation \in Nat
      /\ hubs[conn].epoch.of = conn /\ Known(hubs[conn].epoch)
  BY <1>c, HubTypes DEF HubsOK
<1>o. Owes \subseteq engine /\ Owes \cap KeysOf(IntentPairs) = {} /\ Owes \subseteq RowKeys
  BY DEF Owes, MachineOK, Admitted
<1>s. /\ sent \in Pushes /\ sent.kind = "push" /\ sent.hub = conn
      /\ sent.epoch = hubs[conn].epoch /\ sent.generation = hubs[conn].generation
      /\ sent.rows = Owes
  BY <1>c, <1>h, <1>o DEF Pushes
<1> HIDE DEF sent
<1>1. MachineOK'
  BY <1>0 DEF MachineOK, Admitted
<1>2. (HubsOK /\ ReplicaOK /\ IntentOK /\ WantedOK /\ StepOK)'
  BY <1>0 DEF HubsOK, ReplicaOK, IntentOK, WantedOK, StepOK, Known
<1>3. WireOK'
  BY <1>0, <1>l, <1>s, <1>h DEF WireOK, Known
<1>4. RequestsOK'
  BY <1>0, <1>l, <1>s DEF RequestsOK
<1>5. (ReceiptsOK /\ ArchiveOK /\ EngineOK /\ CommittedOK)'
  BY <1>0 DEF ReceiptsOK, ArchiveOK, EngineOK, CommittedOK, Live
<1>6. RemovedOK'
  <2> SUFFICES ASSUME Live, NEW n \in DOMAIN forgetIntent.batches,
                      NEW d \in hubs[forgetIntent.hub].done,
                      d.op = forgetIntent.batches[n].op, d.removed
               PROVE  GoneFrom(forgetIntent.hub, d, KeysOf(forgetIntent.batches[n].sessions))'
    BY <1>0 DEF RemovedOK, Live
  <2>1. GoneFrom(forgetIntent.hub, d, KeysOf(forgetIntent.batches[n].sessions))
    BY DEF RemovedOK
  <2>2. KeysOf(forgetIntent.batches[n].sessions) \subseteq KeysOf(IntentPairs)
    BY DEF Live, IntentPairs, KeysOf, Scope
  <2> QED
    BY <1>0, <1>l, <1>s, <1>o, <2>1, <2>2 DEF GoneFrom
<1>7. GoneOK'
  <2> SUFFICES ASSUME gone.hub # Absent PROVE GoneOK'
    BY <1>0 DEF GoneOK
  <2>1. Owes \cap gone.remote = {}
    BY <1>o DEF GoneOK
  <2> QED
    BY <1>0, <1>l, <1>s, <2>1 DEF GoneOK
<1>8. (LandedIsTrue /\ OnlyAskedIsLost)'
  BY <1>0 DEF LandedIsTrue, OnlyAskedIsLost
<1> QED
  BY <1>1, <1>2, <1>3, <1>4, <1>5, <1>6, <1>7, <1>8

LEMMA TeeStep == ASSUME ForgetInv, NEW k \in RowKeys, Tee(k) PROVE ForgetInv'
<1> USE DEF ForgetInv
<1>0. UNCHANGED <<forgetIntent, replica, engine, barred, hubs, late, conn, connGen, pc, on,
                  read, landed, asked, committed, gone, ops>>
  BY DEF Tee, callVars, syncVars
<1>t. archive' = archive \cup {k} /\ k \in engine /\ forgetIntent = Absent
  BY DEF Tee, MayArchive
<1>1. MachineOK'
  BY <1>0, <1>t DEF MachineOK, Admitted
<1>2. (HubsOK /\ ReplicaOK /\ IntentOK /\ WantedOK /\ WireOK /\ RequestsOK /\ StepOK)'
  BY <1>0 DEF HubsOK, ReplicaOK, IntentOK, WantedOK, WireOK, RequestsOK, StepOK, Known
<1>3. (ReceiptsOK /\ RemovedOK /\ ArchiveOK /\ EngineOK /\ CommittedOK)'
  BY <1>0, <1>t DEF ReceiptsOK, RemovedOK, ArchiveOK, EngineOK, CommittedOK, Live
<1>4. GoneOK'
  BY <1>0, <1>t DEF GoneOK
<1>5. (LandedIsTrue /\ OnlyAskedIsLost)'
  BY <1>0, <1>t DEF LandedIsTrue, OnlyAskedIsLost
<1> QED
  BY <1>1, <1>2, <1>3, <1>4, <1>5

LEMMA CrashStep == ForgetInv /\ Crash => ForgetInv'
<1> SUFFICES ASSUME ForgetInv, Crash PROVE ForgetInv'
    OBVIOUS
<1> USE DEF ForgetInv
<1>0. UNCHANGED <<archive, forgetIntent, replica, hubs, on, read, landed, asked, committed,
                  gone, ops>>
  BY DEF Crash, callVars
<1>c. /\ engine' = Taken(archive \cup Backed \cup replica.rows) /\ barred' = {}
      /\ conn' = Absent /\ connGen' = connGen + (connGen % 2) /\ pc' = Idle
      /\ late' \subseteq late
  BY DEF Crash
<1>1. MachineOK'
  <2>1. connGen' \in Nat /\ connGen' % 2 = 0
    BY <1>c DEF MachineOK
  <2>2. engine' \subseteq Admitted
    BY <1>c DEF Taken
  <2> QED
    BY <1>0, <1>c, <2>1, <2>2 DEF MachineOK, Admitted
<1>2. (HubsOK /\ ReplicaOK /\ IntentOK /\ WantedOK)'
  BY <1>0 DEF HubsOK, ReplicaOK, IntentOK, WantedOK, Known
<1>3. (WireOK /\ RequestsOK)'
  BY <1>0, <1>c DEF WireOK, RequestsOK, Known
<1>4. StepOK'
  BY <1>0, <1>c DEF StepOK, Idle
<1>5. (ReceiptsOK /\ CommittedOK)'
  BY <1>0 DEF ReceiptsOK, CommittedOK, Live
<1>6. (ArchiveOK /\ EngineOK)'
  BY <1>0, <1>c DEF ArchiveOK, EngineOK, Idle
<1>7. RemovedOK'
  BY <1>0, <1>c DEF RemovedOK, GoneFrom, Live
<1>8. GoneOK'
  <2>1. gone.hub # Absent => engine' \cap gone.remote = {}
    BY <1>c DEF GoneOK, Taken
  <2> QED
    BY <1>0, <1>c, <2>1 DEF GoneOK
<1>9. (LandedIsTrue /\ OnlyAskedIsLost)'
  BY <1>0, <1>c DEF LandedIsTrue, OnlyAskedIsLost
<1> QED
  BY <1>1, <1>2, <1>3, <1>4, <1>5, <1>6, <1>7, <1>8, <1>9

LEMMA RestoreStep ==
    ASSUME ForgetInv, NEW h \in Hubs, NEW rows \in {{}, Archived}, Restore(h, rows)
    PROVE  ForgetInv'
<1> USE DEF ForgetInv
<1>0. UNCHANGED <<archive, forgetIntent, replica, engine, barred, late, conn, connGen, pc, on,
                  read, landed, asked, committed, ops>>
  BY DEF Restore, callVars, syncVars
<1>e. /\ hubs[h].epoch.number \in Nat
      /\ Epoch(h, hubs[h].epoch.number + 1) \in Epochs
      /\ Epoch(h, hubs[h].epoch.number + 1).of = h
      /\ Epoch(h, hubs[h].epoch.number + 1).number = hubs[h].epoch.number + 1
  BY HubTypes DEF Epochs, Epoch
<1>h. /\ hubs'[h] \in HubStates /\ hubs'[h].epoch = Epoch(h, hubs[h].epoch.number + 1)
      /\ hubs'[h].done = {}
      /\ \A g \in Hubs : g # h => hubs'[g] = hubs[g]
  <2>1. hubs[h].generation \in Nat /\ hubs \in [Hubs -> HubStates]
    BY HubTypes DEF HubsOK
  <2>2. hubs'[h] = [epoch |-> Epoch(h, hubs[h].epoch.number + 1),
                    generation |-> hubs[h].generation, rows |-> rows, done |-> {}]
    BY <2>1 DEF Restore
  <2>3. hubs'[h] \in HubStates
    BY <1>e, <2>1, <2>2 DEF HubStates
  <2> QED
    BY <2>1, <2>2, <2>3 DEF Restore
<1>f. hubs' \in [Hubs -> HubStates]
  BY <1>h DEF HubsOK, Restore
<1>k. ASSUME NEW e \in Epochs, Known(e)
      PROVE  Known(e)' /\ e # hubs'[h].epoch
  BY <1>e, <1>h, <1>k DEF Known, Epochs
<1>1. (MachineOK /\ WantedOK /\ RequestsOK /\ StepOK)'
  BY <1>0 DEF MachineOK, Admitted, WantedOK, RequestsOK, StepOK
<1>2. HubsOK'
  BY <1>0, <1>f, <1>h, <1>e DEF HubsOK
<1>3. ReplicaOK'
  <2>1. replica.epoch # Absent => replica.epoch \in Epochs
    BY DEF ReplicaOK, Replicas
  <2>2. hubs'[h].epoch # Absent
    BY <1>h, <1>e
  <2>3. replica.epoch # hubs'[h].epoch
    BY <2>1, <2>2, <1>k DEF ReplicaOK
  <2>4. replica.epoch # Absent => Known(replica.epoch)'
    BY <1>0, <2>1, <1>k DEF ReplicaOK
  <2> QED
    BY <1>0, <1>h, <2>3, <2>4 DEF ReplicaOK
<1>4. WireOK'
  <2>1. \A r \in late : r.kind = "push" =>
          r.epoch \in Epochs /\ Known(r.epoch)' /\ r.epoch # hubs'[h].epoch
    <3> SUFFICES ASSUME NEW r \in late, r.kind = "push"
                 PROVE  r.epoch \in Epochs /\ Known(r.epoch)' /\ r.epoch # hubs'[h].epoch
        OBVIOUS
    <3>1. r.epoch \in Epochs /\ Known(r.epoch)
      BY DEF WireOK, Pushes, Forgets
    <3> QED
      BY <3>1, <1>k, <1>0
  <2>2. \A r \in late : r.kind = "push" => r.hub \in Hubs
    BY DEF WireOK, Pushes, Forgets
  <2> QED
    BY <1>0, <1>h, <2>1, <2>2 DEF WireOK
<1>5. IntentOK'
  <2> SUFFICES ASSUME forgetIntent # Absent PROVE Known(forgetIntent.epoch)'
    BY <1>0 DEF IntentOK
  <2>1. forgetIntent.epoch \in Epochs /\ Known(forgetIntent.epoch)
    BY DEF IntentOK, Intents
  <2> QED
    BY <1>0, <2>1, <1>k
<1>v. Live' => Live /\ forgetIntent.hub # h /\ forgetIntent.hub \in Hubs
  <2> SUFFICES ASSUME Live' PROVE Live /\ forgetIntent.hub # h /\ forgetIntent.hub \in Hubs
      OBVIOUS
  <2>1. /\ forgetIntent.epoch \in Epochs /\ Known(forgetIntent.epoch)
        /\ forgetIntent.hub \in Hubs
    BY <1>0 DEF IntentOK, Intents, Live
  <2>2. forgetIntent.epoch # hubs'[h].epoch
    BY <2>1, <1>k
  <2> QED
    BY <1>0, <1>h, <2>1, <2>2 DEF Live
<1>6. ReceiptsOK'
  BY <1>0, <1>h, <1>v DEF ReceiptsOK
<1>7. RemovedOK'
  BY <1>0, <1>h, <1>v DEF RemovedOK, GoneFrom
<1>8. (ArchiveOK /\ EngineOK /\ CommittedOK)'
  BY <1>0, <1>v DEF ArchiveOK, EngineOK, CommittedOK
<1>9. GoneOK'
  <2>1. gone' = NoGone \/ (gone' = gone /\ gone.hub # h)
    BY DEF Restore
  <2> QED
    BY <1>0, <1>h, <2>1 DEF GoneOK, NoGone
<1>10. (LandedIsTrue /\ OnlyAskedIsLost)'
  BY <1>0 DEF LandedIsTrue, OnlyAskedIsLost
<1> QED
  BY <1>1, <1>2, <1>3, <1>4, <1>5, <1>6, <1>7, <1>8, <1>9, <1>10

-------------------------------------------------------------------------------
(* What a Hub does *)

\* A push changes only the rows, under a fence a deletion since then refuses.
LEMMA PushArrives ==
    ASSUME ForgetInv, NEW r \in late, r.kind = "push", Arrives(r) PROVE ForgetInv'
<1> USE DEF ForgetInv
<1>0. /\ UNCHANGED <<archive, forgetIntent, replica, engine, barred, conn, connGen, pc, on,
                     read, landed, asked, committed, gone, ops>>
      /\ late' \subseteq late /\ HubTakes(r)
  BY DEF Arrives, callVars, syncVars
<1>r. r \in Pushes /\ r.hub \in Hubs /\ r.rows \subseteq RowKeys /\ r.epoch \in Epochs
  BY DEF WireOK, Pushes, Forgets
<1>h. \A g \in Hubs : /\ hubs[g] \in HubStates /\ hubs'[g] \in HubStates
                      /\ hubs'[g].epoch = hubs[g].epoch
                      /\ hubs'[g].generation = hubs[g].generation
                      /\ hubs'[g].done = hubs[g].done
                      /\ \/ hubs'[g].rows = hubs[g].rows
                         \/ /\ hubs'[g].rows = hubs[g].rows \cup r.rows
                            /\ r.epoch = hubs[g].epoch /\ r.generation = hubs[g].generation
  <2> SUFFICES ASSUME NEW g \in Hubs
               PROVE  /\ hubs[g] \in HubStates /\ hubs'[g] \in HubStates
                      /\ hubs'[g].epoch = hubs[g].epoch
                      /\ hubs'[g].generation = hubs[g].generation
                      /\ hubs'[g].done = hubs[g].done
                      /\ \/ hubs'[g].rows = hubs[g].rows
                         \/ /\ hubs'[g].rows = hubs[g].rows \cup r.rows
                            /\ r.epoch = hubs[g].epoch /\ r.generation = hubs[g].generation
      OBVIOUS
  <2>1. hubs[g] \in HubStates /\ hubs \in [Hubs -> HubStates]
    BY DEF HubsOK
  <2>2. \/ hubs'[g] = hubs[g]
        \/ /\ hubs'[g] = [hubs[g] EXCEPT !.rows = @ \cup r.rows]
           /\ r.epoch = hubs[g].epoch /\ r.generation = hubs[g].generation
    BY <1>0, <2>1 DEF HubTakes
  <2> QED
    BY <1>r, <2>1, <2>2 DEF HubStates
<1>f. hubs' \in [Hubs -> HubStates]
  <2>1. DOMAIN hubs' = Hubs
    BY <1>0 DEF HubTakes, HubsOK
  <2>2. hubs' = [g \in Hubs |-> hubs'[g]]
    BY <1>0, <2>1 DEF HubTakes, HubsOK
  <2> QED
    BY <1>h, <2>2
<1>k. \A e : e.of \in Hubs /\ Known(e) => Known(e)'
  BY <1>h DEF Known
<1>1. (MachineOK /\ WantedOK /\ RequestsOK /\ StepOK)'
  BY <1>0 DEF MachineOK, Admitted, WantedOK, RequestsOK, StepOK
<1>2. HubsOK'
  BY <1>0, <1>f, <1>h DEF HubsOK
<1>3. ReplicaOK'
  <2>1. replica.epoch # Absent => replica.epoch.of \in Hubs
    BY DEF ReplicaOK, Replicas, Epochs
  <2> QED
    BY <1>0, <1>h, <1>k, <2>1 DEF ReplicaOK
<1>4. WireOK'
  <2>1. \A s \in late : s.kind = "push" => s.epoch.of \in Hubs /\ s.hub \in Hubs
    BY DEF WireOK, Pushes, Forgets, Epochs
  <2> QED
    BY <1>0, <1>h, <1>k, <2>1 DEF WireOK
<1>5. IntentOK'
  <2>1. forgetIntent # Absent => forgetIntent.epoch.of \in Hubs
    BY DEF IntentOK, Intents, Epochs
  <2> QED
    BY <1>0, <1>k, <2>1 DEF IntentOK
<1>v. (Live' <=> Live) /\ (Live => forgetIntent.hub \in Hubs)
  <2>1. forgetIntent # Absent => forgetIntent.hub \in Hubs
    BY DEF IntentOK, Intents
  <2> QED
    BY <1>0, <1>h, <2>1 DEF Live
<1>6. ReceiptsOK'
  BY <1>0, <1>h, <1>v DEF ReceiptsOK
<1>7. RemovedOK'
  <2> SUFFICES ASSUME Live, NEW n \in DOMAIN forgetIntent.batches,
                      NEW d \in hubs[forgetIntent.hub].done,
                      d.op = forgetIntent.batches[n].op, d.removed
               PROVE  GoneFrom(forgetIntent.hub, d, KeysOf(forgetIntent.batches[n].sessions))'
    BY <1>0, <1>h, <1>v DEF RemovedOK
  <2> DEFINE keys == KeysOf(forgetIntent.batches[n].sessions)
  <2>1. GoneFrom(forgetIntent.hub, d, keys)
    BY DEF RemovedOK
  <2>2. d.generation \in Nat /\ hubs[forgetIntent.hub].generation \in Nat
    BY <1>v, HubTypes DEF Dones
  <2>3. keys' = keys
    BY <1>0 DEF KeysOf
  <2> HIDE DEF keys
  <2>4. hubs'[forgetIntent.hub].rows \cap keys = {}
    BY <1>h, <1>v, <2>1, <2>2 DEF GoneFrom
  <2>5. GoneFrom(forgetIntent.hub, d, keys)'
    BY <1>0, <1>h, <1>v, <2>1, <2>3, <2>4 DEF GoneFrom
  <2> QED
    BY <2>5 DEF keys
<1>8. (ArchiveOK /\ EngineOK /\ CommittedOK)'
  BY <1>0, <1>v DEF ArchiveOK, EngineOK, CommittedOK
<1>9. GoneOK'
  <2> SUFFICES ASSUME gone.hub # Absent PROVE GoneOK'
    BY <1>0 DEF GoneOK
  <2>1. gone.hub \in Hubs
    BY DEF GoneOK
  <2>2. hubs[gone.hub].generation \in Nat
    BY <2>1, HubTypes
  <2>3. hubs'[gone.hub].rows \cap gone.remote = {}
    BY <1>h, <2>1, <2>2 DEF GoneOK
  <2> QED
    BY <1>0, <1>h, <2>1, <2>3 DEF GoneOK
<1>10. (LandedIsTrue /\ OnlyAskedIsLost)'
  BY <1>0 DEF LandedIsTrue, OnlyAskedIsLost
<1> QED
  BY <1>1, <1>2, <1>3, <1>4, <1>5, <1>6, <1>7, <1>8, <1>9, <1>10

\* A deletion takes rows, and with them an old generation; it is on its record.
Forgot(r) ==
    /\ \A g \in Hubs : /\ hubs'[g].epoch = hubs[g].epoch
                       /\ hubs'[g].generation >= hubs[g].generation
                       /\ hubs'[g].rows \subseteq hubs[g].rows
                       /\ hubs[g].done \subseteq hubs'[g].done
    /\ \A g \in Hubs : \A d \in hubs'[g].done : d \notin hubs[g].done =>
         /\ d.op = r.op /\ r.epoch = hubs[g].epoch
         /\ d.removed => /\ hubs'[g].rows \cap KeysOf(r.pairs) = {}
                         /\ d.generation = hubs'[g].generation
                         /\ d.generation > hubs[g].generation
    /\ committed \subseteq committed'

LEMMA HubForgot ==
    ASSUME HubsOK, MachineOK, UNCHANGED ops, NEW r \in Forgets, r.op <= ops, HubForgets(r)
    PROVE  HubsOK' /\ Forgot(r)
<1>r. r.hub \in Hubs /\ r.op \in Nat /\ r.epoch \in Epochs
  BY DEF Forgets
<1>1. CASE hubs[r.hub].epoch # r.epoch
  <2>1. UNCHANGED <<hubs, committed>>
    BY <1>1 DEF HubForgets
  <2>2. HubsOK'
    BY <2>1 DEF HubsOK
  <2>3. \A g \in Hubs : hubs[g].generation \in Nat
    BY HubTypes
  <2> QED
    BY <2>1, <2>2, <2>3 DEF Forgot
<1>2. CASE hubs[r.hub].epoch = r.epoch
  <2> DEFINE h == r.hub
             rows == hubs[h].rows \cap KeysOf(r.pairs)
             next == hubs[h].generation + (IF rows = {} THEN 0 ELSE 1)
             new == [op |-> r.op, generation |-> next, removed |-> rows # {}]
  <2>1. /\ hubs' = [hubs EXCEPT ![h] = Removed(h, r.op, r.pairs)]
        /\ committed' = committed \cup {[hub |-> r.hub, epoch |-> r.epoch]}
    BY <1>2 DEF HubForgets
  <2>2. hubs \in [Hubs -> HubStates] /\ hubs[h] \in HubStates /\ hubs[h].epoch.of = h
    BY <1>r DEF HubsOK
  <2>3. hubs[h].generation \in Nat /\ hubs[h].done \subseteq Dones
    BY <1>r, HubTypes
  <2>4. next \in Nat /\ next >= hubs[h].generation
        /\ (rows # {} => next > hubs[h].generation)
    BY <2>3
  <2>5. new \in Dones /\ new.op = r.op /\ new.generation = next /\ new.removed = (rows # {})
    BY <1>r, <2>4 DEF Dones
  <2>6. \/ hubs'[h] = hubs[h]
        \/ hubs'[h] = [hubs[h] EXCEPT !.rows = @ \ rows, !.generation = next,
                                      !.done = @ \cup {new}]
    BY <2>1, <2>2 DEF Removed
  <2>7. \A g \in Hubs : g # h => hubs'[g] = hubs[g]
    BY <2>1, <2>2
  <2>8. /\ hubs'[h] \in HubStates /\ hubs'[h].epoch = hubs[h].epoch
        /\ hubs'[h].generation >= hubs[h].generation /\ hubs'[h].rows \subseteq hubs[h].rows
        /\ hubs[h].done \subseteq hubs'[h].done
        /\ \A d \in hubs'[h].done : d \in hubs[h].done
             \/ (d = new /\ hubs'[h].generation = next /\ hubs'[h].rows = hubs[h].rows \ rows)
    <3> HIDE DEF rows, next, new, h
    <3>1. CASE hubs'[h] = hubs[h]
      BY <3>1, <2>2, <2>3
    <3>2. CASE hubs'[h] = [hubs[h] EXCEPT !.rows = @ \ rows, !.generation = next,
                                          !.done = @ \cup {new}]
      <4>1. /\ hubs'[h].epoch = hubs[h].epoch /\ hubs'[h].generation = next
            /\ hubs'[h].rows = hubs[h].rows \ rows /\ hubs'[h].done = hubs[h].done \cup {new}
        BY <3>2, <2>2 DEF HubStates
      <4>2. hubs'[h] \in HubStates
        <5>1. hubs[h].rows \ rows \subseteq RowKeys /\ hubs[h].done \cup {new} \subseteq Dones
              /\ hubs[h].epoch \in Epochs
          BY <2>2, <2>3, <2>5 DEF HubStates
        <5>2. hubs'[h] = [epoch |-> hubs[h].epoch, generation |-> next,
                          rows |-> hubs[h].rows \ rows, done |-> hubs[h].done \cup {new}]
          BY <3>2, <2>2 DEF HubStates
        <5> QED
          BY <5>1, <5>2, <2>4 DEF HubStates
      <4> QED
        BY <4>1, <4>2, <2>4
    <3> QED
      BY <3>1, <3>2, <2>6
  <2>9. hubs' \in [Hubs -> HubStates]
    BY <2>1, <2>2, <2>8
  <2>10. HubsOK'
    <3>1. \A d \in hubs'[h].done : d.op <= ops'
      BY <1>r, <2>5, <2>8 DEF HubsOK
    <3> HIDE DEF h
    <3> QED
      BY <3>1, <2>2, <2>7, <2>8, <2>9 DEF HubsOK
  <2>11. Forgot(r)
    <3>2. \A g \in Hubs : hubs[g].generation \in Nat
      BY HubTypes
    <3>3. \A d \in hubs'[h].done : d \notin hubs[h].done =>
            /\ d.op = r.op
            /\ d.removed => /\ hubs'[h].rows \cap KeysOf(r.pairs) = {}
                            /\ d.generation = hubs'[h].generation
                            /\ d.generation > hubs[h].generation
      BY <2>4, <2>5, <2>8
    <3>4. r.epoch = hubs[h].epoch /\ committed \subseteq committed'
      BY <1>2, <2>1
    <3> HIDE DEF h, new, next, rows
    <3> QED
      BY <2>7, <2>8, <3>2, <3>3, <3>4 DEF Forgot
  <2> QED
    BY <2>10, <2>11
<1> QED
  BY <1>1, <1>2

\* The intent is for the same batches, whatever their receipts.
IntentKept ==
    /\ forgetIntent' = Absent <=> forgetIntent = Absent
    /\ forgetIntent # Absent =>
         /\ forgetIntent'.hub = forgetIntent.hub /\ forgetIntent'.epoch = forgetIntent.epoch
         /\ forgetIntent'.mode = forgetIntent.mode
         /\ DOMAIN forgetIntent'.batches = DOMAIN forgetIntent.batches
         /\ \A n \in DOMAIN forgetIntent.batches :
              /\ forgetIntent'.batches[n].op = forgetIntent.batches[n].op
              /\ forgetIntent'.batches[n].sessions = forgetIntent.batches[n].sessions

LEMMA ForgotKeeps ==
    ASSUME ForgetInv, NEW r \in Forgets, HubsOK', Forgot(r), IntentKept, late' \subseteq late,
           UNCHANGED <<archive, replica, engine, barred, conn, connGen, asked, gone, ops>>,
           forgetIntent # Absent =>
             \A n \in DOMAIN forgetIntent.batches :
               r.op = forgetIntent.batches[n].op => r.pairs = forgetIntent.batches[n].sessions
    PROVE  /\ (MachineOK /\ ReplicaOK /\ WireOK /\ RequestsOK /\ RemovedOK /\ GoneOK)'
           /\ OnlyAskedIsLost'
           /\ \A e : e.of \in Hubs /\ Known(e) => Known(e)'
<1> USE DEF ForgetInv
<1>h. \A g \in Hubs : /\ hubs'[g].epoch = hubs[g].epoch
                      /\ hubs'[g].generation >= hubs[g].generation
                      /\ hubs'[g].rows \subseteq hubs[g].rows
                      /\ hubs[g].generation \in Nat /\ hubs'[g].generation \in Nat
  <2>1. \A g \in Hubs : hubs[g].generation \in Nat
    BY HubTypes
  <2>2. \A g \in Hubs : hubs'[g].generation \in Nat
    BY DEF HubsOK, HubStates
  <2> QED
    BY <2>1, <2>2 DEF Forgot
<1>k. \A e : e.of \in Hubs /\ Known(e) => Known(e)'
  BY <1>h DEF Known
<1>p. \A s \in late : s.kind = "push" =>
        s.epoch.of \in Hubs /\ s.hub \in Hubs /\ s.generation \in Nat
  BY DEF WireOK, Pushes, Forgets, Epochs
<1>1. MachineOK'
  BY DEF MachineOK, Admitted
<1>2. ReplicaOK'
  <2>1. replica.epoch # Absent => replica.epoch.of \in Hubs
    BY DEF ReplicaOK, Replicas, Epochs
  <2>2. replica.generation \in Nat
    BY DEF ReplicaOK, Replicas
  <2> QED
    BY <1>h, <1>k, <2>1, <2>2 DEF ReplicaOK
<1>3. WireOK'
  BY <1>h, <1>k, <1>p DEF WireOK
<1>4. RequestsOK'
  BY DEF RequestsOK, IntentKept
<1>5. RemovedOK'
  <2> SUFFICES ASSUME Live', NEW n \in DOMAIN forgetIntent'.batches,
                      NEW d \in hubs'[forgetIntent'.hub].done,
                      d.op = forgetIntent'.batches[n].op, d.removed
               PROVE  GoneFrom(forgetIntent.hub, d, KeysOf(forgetIntent.batches[n].sessions))'
    BY DEF RemovedOK
  <2> DEFINE h == forgetIntent.hub
             b == forgetIntent.batches[n]
             keys == KeysOf(b.sessions)
  <2>1. /\ forgetIntent # Absent /\ n \in DOMAIN forgetIntent.batches /\ d \in hubs'[h].done
        /\ d.op = b.op /\ forgetIntent'.hub = h /\ h \in Hubs
        /\ forgetIntent'.batches[n].sessions = b.sessions
    BY DEF Live, IntentKept, IntentOK, Intents
  <2>2. Live
    BY <1>h, <2>1 DEF Live, IntentKept
  <2>3. KeysOf(forgetIntent.batches[n].sessions)' = keys
    BY <2>1 DEF KeysOf
  <2>4. /\ hubs'[h].rows \cap keys = {}
        /\ d.generation <= hubs'[h].generation
        /\ \A s \in late :
             s.kind = "push" /\ s.epoch = hubs[h].epoch /\ s.rows \cap keys # {}
                => s.generation < d.generation
        /\ replica.epoch = hubs[h].epoch /\ replica.generation >= d.generation
             => replica.rows \cap keys = {}
    <3>1. CASE d \in hubs[h].done
      <4>1. GoneFrom(h, d, keys)
        BY <2>1, <2>2, <3>1 DEF RemovedOK
      <4>2. d.generation \in Nat
        BY <2>1, <3>1, HubTypes DEF Dones
      <4> HIDE DEF h, b, keys
      <4> QED
        BY <1>h, <2>1, <4>1, <4>2 DEF GoneFrom
    <3>2. CASE d \notin hubs[h].done
      <4>1. /\ d.op = r.op /\ r.epoch = hubs[h].epoch
            /\ hubs'[h].rows \cap KeysOf(r.pairs) = {}
            /\ d.generation = hubs'[h].generation /\ d.generation > hubs[h].generation
        BY <2>1, <3>2 DEF Forgot
      <4>2. r.pairs = b.sessions
        BY <2>1, <4>1
      <4>3. \A s \in late : s.kind = "push" /\ s.epoch = hubs[h].epoch
              => s.generation <= hubs[h].generation
        <5>1. \A s \in late : s.kind = "push" =>
                /\ s.epoch.of = s.hub
                /\ s.epoch = hubs[s.hub].epoch => s.generation <= hubs[s.hub].generation
          BY DEF WireOK
        <5>2. hubs[h].epoch.of = h
          BY <2>1 DEF HubsOK
        <5> HIDE DEF h
        <5> QED
          BY <5>1, <5>2
      <4>4. replica.epoch = hubs[h].epoch => replica.generation <= hubs[h].generation
        BY <2>1 DEF ReplicaOK
      <4>5. replica.generation \in Nat
        BY DEF ReplicaOK, Replicas
      <4> HIDE DEF h, b
      <4> QED
        BY <1>h, <1>p, <2>1, <4>1, <4>2, <4>3, <4>4, <4>5
    <3> QED
      BY <3>1, <3>2
  <2> HIDE DEF h, b, keys
  <2>5. GoneFrom(forgetIntent.hub, d, KeysOf(forgetIntent.batches[n].sessions))'
        <=> /\ hubs'[h].rows \cap keys = {}
            /\ d.generation <= hubs'[h].generation
            /\ \A s \in late' :
                 s.kind = "push" /\ s.epoch = hubs'[h].epoch /\ s.rows \cap keys # {}
                    => s.generation < d.generation
            /\ replica.epoch = hubs'[h].epoch /\ replica.generation >= d.generation
                 => replica.rows \cap keys = {}
    BY <2>1, <2>3 DEF GoneFrom
  <2> QED
    BY <2>1, <2>4, <2>5, <1>h
<1>6. GoneOK'
  <2> SUFFICES ASSUME gone.hub # Absent PROVE GoneOK'
    BY DEF GoneOK
  <2>1. gone.hub \in Hubs
    BY DEF GoneOK
  <2>2. \A s \in late : s.kind = "push" /\ s.epoch = gone.epoch /\ s.rows \cap gone.remote # {}
           => s.generation < hubs'[gone.hub].generation
    BY <1>h, <1>p, <2>1 DEF GoneOK
  <2> QED
    BY <1>h, <2>1, <2>2 DEF GoneOK
<1>7. OnlyAskedIsLost'
  BY DEF OnlyAskedIsLost
<1> QED
  BY <1>1, <1>2, <1>3, <1>4, <1>5, <1>6, <1>7, <1>k

LEMMA ForgetArrives ==
    ASSUME ForgetInv, NEW r \in late, r.kind = "forget", Arrives(r) PROVE ForgetInv'
<1> USE DEF ForgetInv
<1>0. /\ UNCHANGED <<archive, forgetIntent, replica, engine, barred, conn, connGen, pc, on,
                     read, landed, asked, gone, ops>>
      /\ late' \subseteq late /\ HubForgets(r)
  BY DEF Arrives, callVars, syncVars
<1>r. r \in Forgets /\ r.op <= ops
  BY DEF WireOK, Pushes, Forgets
<1>f. HubsOK' /\ Forgot(r)
  BY <1>0, <1>r, HubForgot
<1>k. IntentKept
  BY <1>0 DEF IntentKept
<1>m. forgetIntent # Absent =>
        \A n \in DOMAIN forgetIntent.batches :
          r.op = forgetIntent.batches[n].op => r.pairs = forgetIntent.batches[n].sessions
  BY DEF RequestsOK
<1>1. /\ (MachineOK /\ ReplicaOK /\ WireOK /\ RequestsOK /\ RemovedOK /\ GoneOK)'
      /\ OnlyAskedIsLost'
      /\ \A e : e.of \in Hubs /\ Known(e) => Known(e)'
  BY <1>0, <1>r, <1>f, <1>k, <1>m, ForgotKeeps
<1>i. forgetIntent # Absent => forgetIntent.epoch.of \in Hubs /\ forgetIntent.hub \in Hubs
  BY DEF IntentOK, Intents, Epochs
<1>2. (IntentOK /\ WantedOK /\ StepOK /\ ArchiveOK)'
  BY <1>0, <1>1, <1>i DEF IntentOK, WantedOK, StepOK, ArchiveOK
<1>3. (Live' <=> Live)
  BY <1>0, <1>f, <1>i DEF Live, Forgot
<1>4. (ReceiptsOK /\ EngineOK)'
  BY <1>0, <1>3, <1>f, <1>i DEF ReceiptsOK, EngineOK, Forgot, Live
<1>5. (CommittedOK /\ LandedIsTrue)'
  BY <1>0, <1>f DEF CommittedOK, LandedIsTrue, Forgot
<1> QED
  BY <1>f, <1>1, <1>2, <1>4, <1>5

LEMMA ArrivesStep == ASSUME ForgetInv, NEW r \in late, Arrives(r) PROVE ForgetInv'
  BY PushArrives, ForgetArrives DEF Arrives

-------------------------------------------------------------------------------
(* A forget: how it starts and how it ends without an answer *)

\* A set of numbers has a least one.
LEMMA LeastBatch ==
    ASSUME NEW S \in SUBSET Nat, S # {}
    PROVE  First(S) \in S
<1> DEFINE R == {ss \in Nat \X Nat : ss[1] < ss[2]}
<1>1. R = OpToRel(<, Nat)
  BY DEF OpToRel
<1>2. IsWellFoundedOn(R, Nat)
  BY <1>1, NatLessThanWellFounded
<1>3. \E least \in S : \A n \in S : ~(<<n, least>> \in R)
  <2> HIDE DEF R
  <2> QED
    BY <1>2, WFMin
<1>4. \E least \in S : \A n \in S : ~(n < least)
  BY <1>3
<1>5. \E least \in S : \A n \in S : least <= n
  BY <1>4
<1> QED
  BY <1>5 DEF First

LEMMA OwedIsBatch ==
    ASSUME IntentOK, forgetIntent # Absent, Owed # {}
    PROVE  First(Owed) \in DOMAIN forgetIntent.batches /\ First(Owed) \in Owed
<1>1. forgetIntent.batches \in Seq(Batch)
  BY DEF IntentOK, Intents
<1>2. Owed \in SUBSET Nat
  BY <1>1 DEF Owed
<1>3. First(Owed) \in Owed
  BY <1>2, LeastBatch
<1> QED
  BY <1>3 DEF Owed

\* A batch's request is of it, and no other operation's.
LEMMA RequestIsOfBatch ==
    ASSUME ForgetInv, forgetIntent # Absent, on \in Connections,
           NEW n \in DOMAIN forgetIntent.batches
    PROVE  LET b == forgetIntent.batches[n] IN
           /\ RequestOf(b) \in Forgets /\ RequestOf(b).kind = "forget"
           /\ RequestOf(b).op = b.op /\ RequestOf(b).pairs = b.sessions
           /\ RequestOf(b).hub = on.hub /\ RequestOf(b).epoch = forgetIntent.epoch
           /\ b.op <= ops
           /\ \A m \in DOMAIN forgetIntent.batches :
                b.op = forgetIntent.batches[m].op => b.sessions = forgetIntent.batches[m].sessions
<1>1. forgetIntent \in Intents /\ ops \in Nat
  BY DEF ForgetInv, IntentOK, MachineOK
<1>2. forgetIntent.batches[n] \in Batch
  BY <1>1, ElementOfSeq DEF Intents
<1>3. forgetIntent.epoch \in Epochs /\ on.hub \in Hubs
  BY <1>1 DEF Intents, Connections
<1>4. RequestOf(forgetIntent.batches[n]) \in Forgets
  BY <1>2, <1>3 DEF RequestOf, Forgets, Batch
<1>5. forgetIntent.batches[n].op <= ops
  BY <1>1 DEF ForgetInv, IntentOK
<1>6. \A m \in DOMAIN forgetIntent.batches :
        forgetIntent.batches[n].op = forgetIntent.batches[m].op
          => forgetIntent.batches[n].sessions = forgetIntent.batches[m].sessions
  BY DEF ForgetInv, IntentOK
<1> QED
  BY <1>4, <1>5, <1>6 DEF RequestOf

LEMMA ThrowStep ==
    ASSUME ForgetInv, Throw,
           \/ late' = late
           \/ \E n \in IF forgetIntent = Absent THEN {} ELSE DOMAIN forgetIntent.batches :
                on \in Connections /\ late' = late \cup {RequestOf(forgetIntent.batches[n])}
    PROVE  ForgetInv'
<1> USE DEF ForgetInv
<1>0. /\ UNCHANGED <<archive, forgetIntent, engine, barred, hubs, replica, conn, connGen, on,
                     read, landed, asked, committed, gone, ops>>
      /\ pc' = Idle
  BY DEF Throw, callVars, syncVars
<1>1. (MachineOK /\ HubsOK /\ ReplicaOK /\ IntentOK /\ WantedOK)'
  BY <1>0 DEF MachineOK, Admitted, HubsOK, ReplicaOK, IntentOK, WantedOK, Known
<1>2. (StepOK /\ ReceiptsOK /\ ArchiveOK /\ EngineOK /\ CommittedOK)'
  BY <1>0 DEF StepOK, Idle, ReceiptsOK, Live, ArchiveOK, EngineOK, CommittedOK
<1>3. (LandedIsTrue /\ OnlyAskedIsLost)'
  BY <1>0 DEF LandedIsTrue, OnlyAskedIsLost
<1>l. \A r \in late' : \/ r \in late
                       \/ /\ r \in Forgets /\ r.kind = "forget" /\ r.op <= ops
                          /\ forgetIntent # Absent
                          /\ \A m \in DOMAIN forgetIntent.batches :
                               r.op = forgetIntent.batches[m].op
                                 => r.pairs = forgetIntent.batches[m].sessions
  BY RequestIsOfBatch
<1>4. WireOK'
  BY <1>0, <1>l DEF WireOK, Known
<1>5. RequestsOK'
  BY <1>0, <1>l DEF RequestsOK
<1>6. RemovedOK'
  BY <1>0, <1>l DEF RemovedOK, GoneFrom, Live
<1>7. GoneOK'
  BY <1>0, <1>l DEF GoneOK
<1> QED
  BY <1>1, <1>2, <1>3, <1>4, <1>5, <1>6, <1>7

LEMMA RefusedStep == ForgetInv /\ ForgetRefused => ForgetInv'
  BY ThrowStep DEF ForgetRefused

LEMMA FailsStep == ForgetInv /\ Fails => ForgetInv'
  BY ThrowStep DEF Fails

LEMMA TimesOutStep == ForgetInv /\ TimesOut => ForgetInv'
<1> SUFFICES ASSUME ForgetInv, TimesOut PROVE ForgetInv'
    OBVIOUS
<1>1. forgetIntent # Absent /\ on \in Connections
  BY DEF ForgetInv, StepOK, TimesOut, At
<1>2. First(Owed) \in DOMAIN forgetIntent.batches
  BY <1>1, OwedIsBatch DEF ForgetInv, TimesOut
<1> QED
  BY <1>1, <1>2, ThrowStep DEF TimesOut

LEMMA StartStep ==
    ASSUME ForgetInv, NEW caller \in Callers \cup {Absent}, conn # Absent, Suspend,
           pc' = [step |-> "epoch", caller |-> caller],
           UNCHANGED <<archive, forgetIntent, engine, barred, hubs, late, syncVars, read,
                       committed, gone, ops, mishaps>>,
           asked \subseteq asked', asked' \subseteq Callers,
           caller = Absent => forgetIntent # Absent,
           caller # Absent => caller \in asked'
    PROVE  ForgetInv'
<1> USE DEF ForgetInv
<1>0. /\ UNCHANGED <<archive, forgetIntent, engine, barred, hubs, late, replica, conn, connGen,
                     read, committed, gone, ops>>
      /\ landed' = FALSE /\ on' = [hub |-> conn, gen |-> connGen]
  BY DEF syncVars, Suspend
<1>1. (MachineOK /\ HubsOK /\ ReplicaOK /\ IntentOK /\ WantedOK /\ WireOK /\ RequestsOK)'
  BY <1>0 DEF MachineOK, Admitted, HubsOK, ReplicaOK, IntentOK, WantedOK, WireOK, RequestsOK,
              Known
<1>2. StepOK'
  <2>1. on' \in Connections
    BY <1>0 DEF MachineOK, Connections
  <2> QED
    BY <1>0, <2>1 DEF StepOK
<1>3. (ReceiptsOK /\ RemovedOK /\ ArchiveOK /\ EngineOK /\ GoneOK /\ CommittedOK)'
  BY <1>0 DEF ReceiptsOK, RemovedOK, GoneFrom, Live, ArchiveOK, EngineOK, GoneOK, CommittedOK
<1>4. (LandedIsTrue /\ OnlyAskedIsLost)'
  BY <1>0 DEF LandedIsTrue, OnlyAskedIsLost
<1> QED
  BY <1>1, <1>2, <1>3, <1>4

LEMMA ForgetStep == ASSUME ForgetInv, NEW c \in Callers, Forget(c) PROVE ForgetInv'
<1>1. c # Absent /\ asked \subseteq Callers
  BY DEF ForgetInv, MachineOK
<1> QED
  BY <1>1, StartStep DEF Forget

LEMMA ResumeStep == ForgetInv /\ Resume => ForgetInv'
<1> SUFFICES ASSUME ForgetInv, Resume PROVE ForgetInv'
    OBVIOUS
<1>1. asked \subseteq Callers
  BY DEF ForgetInv, MachineOK
<1> QED
  BY <1>1, StartStep DEF Resume

-------------------------------------------------------------------------------
(* A forget's steps *)

LEMMA SameScope ==
    ASSUME NEW i, NEW j, DOMAIN i.batches = DOMAIN j.batches,
           \A n \in DOMAIN i.batches : i.batches[n].sessions = j.batches[n].sessions
    PROVE  Scope(i) = Scope(j)
  BY DEF Scope

\* From a step to a later one, with the intent as it is.
LEMMA PostedStep == ForgetInv /\ Posted => ForgetInv'
<1> SUFFICES ASSUME ForgetInv, Posted PROVE ForgetInv'
    OBVIOUS
<1> USE DEF ForgetInv
<1>0. /\ UNCHANGED <<archive, forgetIntent, replica, engine, barred, hubs, late, conn, connGen,
                     on, read, landed, asked, committed, gone, ops>>
      /\ pc' = [pc EXCEPT !.step = "archive"] /\ pc.step = "batch"
      /\ \A n \in DOMAIN forgetIntent.batches : forgetIntent.batches[n].receipt # Absent
  BY DEF Posted, Quiet, callVars, syncVars, To, At, Owed
<1>p. pc'.step = "archive" /\ pc'.caller = pc.caller /\ pc.caller \in Callers \cup {Absent}
      /\ pc' = [step |-> "archive", caller |-> pc.caller]
  BY <1>0 DEF StepOK
<1>1. (MachineOK /\ HubsOK /\ ReplicaOK /\ IntentOK /\ WantedOK /\ WireOK /\ RequestsOK)'
  BY <1>0 DEF MachineOK, Admitted, HubsOK, ReplicaOK, IntentOK, WantedOK, WireOK, RequestsOK,
              Known
<1>2. StepOK'
  BY <1>0, <1>p DEF StepOK
<1>3. (ReceiptsOK /\ RemovedOK /\ GoneOK /\ CommittedOK)'
  BY <1>0 DEF ReceiptsOK, RemovedOK, GoneFrom, Live, GoneOK, CommittedOK
<1>4. (ArchiveOK /\ EngineOK)'
  BY <1>0, <1>p DEF ArchiveOK, EngineOK
<1>5. (LandedIsTrue /\ OnlyAskedIsLost)'
  BY <1>0, <1>p DEF LandedIsTrue, OnlyAskedIsLost, Idle
<1> QED
  BY <1>1, <1>2, <1>3, <1>4, <1>5

LEMMA ArchiveDoneStep == ForgetInv /\ ArchiveDone => ForgetInv'
<1> SUFFICES ASSUME ForgetInv, ArchiveDone PROVE ForgetInv'
    OBVIOUS
<1> USE DEF ForgetInv
<1>0. /\ UNCHANGED <<archive, forgetIntent, replica, engine, barred, hubs, late, conn, connGen,
                     on, read, landed, asked, committed, gone, ops>>
      /\ pc' = [pc EXCEPT !.step = "engine"] /\ pc.step = "archive"
      /\ forgetIntent.localComplete
  BY DEF ArchiveDone, Quiet, callVars, syncVars, To, At
<1>p. pc'.step = "engine" /\ pc'.caller = pc.caller /\ pc.caller \in Callers \cup {Absent}
      /\ pc' = [step |-> "engine", caller |-> pc.caller]
  BY <1>0 DEF StepOK
<1>1. (MachineOK /\ HubsOK /\ ReplicaOK /\ IntentOK /\ WantedOK /\ WireOK /\ RequestsOK)'
  BY <1>0 DEF MachineOK, Admitted, HubsOK, ReplicaOK, IntentOK, WantedOK, WireOK, RequestsOK,
              Known
<1>2. StepOK'
  BY <1>0, <1>p DEF StepOK
<1>3. (ReceiptsOK /\ RemovedOK /\ GoneOK /\ CommittedOK)'
  BY <1>0 DEF ReceiptsOK, RemovedOK, GoneFrom, Live, GoneOK, CommittedOK
<1>4. (ArchiveOK /\ EngineOK)'
  BY <1>0, <1>p DEF ArchiveOK, EngineOK
<1>5. (LandedIsTrue /\ OnlyAskedIsLost)'
  BY <1>0, <1>p DEF LandedIsTrue, OnlyAskedIsLost, Idle
<1> QED
  BY <1>1, <1>2, <1>3, <1>4, <1>5

LEMMA StampStep == ForgetInv /\ Stamp => ForgetInv'
<1> SUFFICES ASSUME ForgetInv, Stamp PROVE ForgetInv'
    OBVIOUS
<1> USE DEF ForgetInv
<1>0. /\ UNCHANGED <<archive, replica, engine, barred, hubs, late, conn, connGen,
                     on, read, landed, asked, committed, gone, ops>>
      /\ pc' = [pc EXCEPT !.step = "engine"] /\ pc.step = "stamp"
      /\ forgetIntent' = [forgetIntent EXCEPT !.localComplete = TRUE]
  BY DEF Stamp, Quiet, callVars, syncVars, To, At
<1>p. pc'.step = "engine" /\ pc'.caller = pc.caller /\ pc.caller \in Callers \cup {Absent}
      /\ pc' = [step |-> "engine", caller |-> pc.caller]
  BY <1>0 DEF StepOK
<1>i. forgetIntent # Absent /\ forgetIntent \in Intents
  BY <1>0 DEF StepOK, IntentOK
<1>j. /\ forgetIntent' \in Intents /\ forgetIntent'.localComplete
      /\ forgetIntent'.hub = forgetIntent.hub /\ forgetIntent'.epoch = forgetIntent.epoch
      /\ forgetIntent'.mode = forgetIntent.mode /\ forgetIntent'.batches = forgetIntent.batches
  BY <1>0, <1>i DEF Intents
<1>a. forgetIntent' # Absent
  BY <1>j
<1>s. Scope(forgetIntent') = Scope(forgetIntent)
  BY <1>j DEF Scope
<1>1. (MachineOK /\ HubsOK /\ ReplicaOK /\ WireOK)'
  BY <1>0 DEF MachineOK, Admitted, HubsOK, ReplicaOK, WireOK, Known
<1>2. StepOK'
  BY <1>0, <1>p, <1>i, <1>j, <1>a DEF StepOK
<1>3. (IntentOK /\ RequestsOK)'
  BY <1>0, <1>i, <1>j, <1>a DEF IntentOK, RequestsOK, Known
<1>w. WantedOK'
  BY <1>0, <1>i, <1>j, <1>s DEF WantedOK, PairsOf
<1>v. Live' <=> Live
  BY <1>0, <1>i, <1>j, <1>a DEF Live
<1>4. (ReceiptsOK /\ CommittedOK)'
  BY <1>0, <1>i, <1>j, <1>v DEF ReceiptsOK, CommittedOK
<1>5. RemovedOK'
  BY <1>0, <1>i, <1>j, <1>v DEF RemovedOK, GoneFrom, KeysOf
<1>6. ArchiveOK'
  BY <1>0, <1>p, <1>i, <1>j, <1>s DEF ArchiveOK, KeysOf
<1>7. (EngineOK /\ GoneOK)'
  BY <1>0, <1>p DEF EngineOK, GoneOK
<1>8. (LandedIsTrue /\ OnlyAskedIsLost)'
  BY <1>0, <1>p DEF LandedIsTrue, OnlyAskedIsLost, Idle
<1> QED
  BY <1>1, <1>2, <1>3, <1>w, <1>4, <1>5, <1>6, <1>7, <1>8

LEMMA ArchiveHalfStep == ForgetInv /\ ArchiveHalf => ForgetInv'
<1> SUFFICES ASSUME ForgetInv, ArchiveHalf PROVE ForgetInv'
    OBVIOUS
<1> USE DEF ForgetInv
<1>0. /\ UNCHANGED <<forgetIntent, replica, engine, hubs, late, conn, connGen,
                     on, read, landed, asked, committed, gone, ops>>
      /\ pc' = [pc EXCEPT !.step = "stamp"] /\ pc.step = "archive"
  BY DEF ArchiveHalf, callVars, syncVars, To, At
<1>p. pc'.step = "stamp" /\ pc'.caller = pc.caller /\ pc.caller \in Callers \cup {Absent}
      /\ pc' = [step |-> "stamp", caller |-> pc.caller]
  BY <1>0 DEF StepOK
<1>i. forgetIntent # Absent /\ forgetIntent \in Intents /\ forgetIntent.mode # "lossless"
  BY <1>0 DEF StepOK, IntentOK, ArchiveHalf
<1>m. forgetIntent.mode \in {"pair", "excluded"}
  BY <1>i DEF Intents, Modes
<1>a. \/ /\ forgetIntent.mode = "excluded" /\ barred' = barred
         /\ archive' = archive \ (KeysOf(Scope(forgetIntent)) \cap Excluded)
      \/ /\ forgetIntent.mode = "pair" /\ barred' = barred \cup Scope(forgetIntent)
         /\ archive' = archive \ KeysOf(Scope(forgetIntent))
  BY <1>m DEF ArchiveHalf, HalfOf, Mode
<1>s. Scope(forgetIntent) \subseteq Sessions
  <2>1. \A n \in DOMAIN forgetIntent.batches : forgetIntent.batches[n] \in Batch
    BY <1>i, ElementOfSeq DEF Intents
  <2> QED
    BY <2>1 DEF Scope, Batch
<1>1. MachineOK'
  BY <1>0, <1>a, <1>s DEF MachineOK, Admitted
<1>2. (HubsOK /\ ReplicaOK /\ IntentOK /\ WantedOK /\ WireOK /\ RequestsOK)'
  BY <1>0 DEF HubsOK, ReplicaOK, IntentOK, WantedOK, WireOK, RequestsOK, Known
<1>3. StepOK'
  BY <1>0, <1>p DEF StepOK
<1>4. (ReceiptsOK /\ RemovedOK /\ CommittedOK)'
  BY <1>0 DEF ReceiptsOK, RemovedOK, GoneFrom, Live, CommittedOK
<1>5. ArchiveOK'
  BY <1>0, <1>a DEF ArchiveOK
<1>6. EngineOK'
  BY <1>0, <1>p DEF EngineOK
<1>7. GoneOK'
  BY <1>0, <1>a DEF GoneOK
<1>8. LandedIsTrue'
  BY <1>0, <1>p DEF LandedIsTrue, Idle
<1>9. OnlyAskedIsLost'
  <2> SUFFICES ASSUME NEW k \in Archived \ archive', k \in archive
               PROVE  \E c \in asked : /\ SessionOf[k] \in PairsOf(c)
                                       /\ \/ c.mode = "pair"
                                          \/ c.mode = "excluded" /\ k \in Excluded
    BY <1>0 DEF OnlyAskedIsLost
  <2>1. PICK c \in asked : PairsOf(c) = Scope(forgetIntent) /\ c.mode = forgetIntent.mode
    BY <1>i DEF WantedOK
  <2> QED
    BY <2>1, <1>a DEF KeysOf
<1> QED
  BY <1>1, <1>2, <1>3, <1>4, <1>5, <1>6, <1>7, <1>8, <1>9

LEMMA EngineStep == ForgetInv /\ Engine => ForgetInv'
<1> SUFFICES ASSUME ForgetInv, Engine PROVE ForgetInv'
    OBVIOUS
<1> USE DEF ForgetInv
<1>0. /\ UNCHANGED <<archive, forgetIntent, replica, barred, hubs, late, conn, connGen,
                     on, read, landed, asked, committed, gone, ops>>
      /\ pc' = [pc EXCEPT !.step = "learn"] /\ pc.step = "engine"
      /\ engine' \subseteq engine
      /\ forgetIntent.mode = "pair" => engine' = engine \ KeysOf(Scope(forgetIntent))
  BY DEF Engine, callVars, syncVars, To, At, Mode
<1>p. pc'.step = "learn" /\ pc'.caller = pc.caller /\ pc.caller \in Callers \cup {Absent}
      /\ pc' = [step |-> "learn", caller |-> pc.caller]
  BY <1>0 DEF StepOK
<1>1. MachineOK'
  BY <1>0 DEF MachineOK, Admitted
<1>2. (HubsOK /\ ReplicaOK /\ IntentOK /\ WantedOK /\ WireOK /\ RequestsOK)'
  BY <1>0 DEF HubsOK, ReplicaOK, IntentOK, WantedOK, WireOK, RequestsOK, Known
<1>3. StepOK'
  BY <1>0, <1>p DEF StepOK
<1>4. (ReceiptsOK /\ RemovedOK /\ CommittedOK)'
  BY <1>0 DEF ReceiptsOK, RemovedOK, GoneFrom, Live, CommittedOK
<1>5. ArchiveOK'
  BY <1>0, <1>p DEF ArchiveOK
<1>6. EngineOK'
  <2>1. \A n \in DOMAIN forgetIntent.batches :
          KeysOf(forgetIntent.batches[n].sessions) \subseteq KeysOf(Scope(forgetIntent))
    BY DEF KeysOf, Scope
  <2> QED
    BY <1>0, <2>1 DEF EngineOK, Live
<1>7. GoneOK'
  BY <1>0 DEF GoneOK
<1>8. (LandedIsTrue /\ OnlyAskedIsLost)'
  BY <1>0, <1>p DEF LandedIsTrue, Idle, OnlyAskedIsLost
<1> QED
  BY <1>1, <1>2, <1>3, <1>4, <1>5, <1>6, <1>7, <1>8

LEMMA IntentOf ==
    ASSUME NEW h \in Hubs, NEW e \in Epochs, NEW m \in Modes, NEW l \in BOOLEAN,
           NEW bs \in Seq(Batch)
    PROVE  [hub |-> h, epoch |-> e, mode |-> m, localComplete |-> l, batches |-> bs] \in Intents
  BY DEF Intents

\* A receipt is all that a batch's answer writes.
LEMMA ReceiptWritten ==
    ASSUME forgetIntent \in Intents, NEW n \in DOMAIN forgetIntent.batches, NEW d \in Dones,
           forgetIntent' = [forgetIntent EXCEPT !.batches[n].receipt = d]
    PROVE  /\ forgetIntent' \in Intents /\ forgetIntent' # Absent /\ IntentKept
           /\ forgetIntent'.localComplete = forgetIntent.localComplete
           /\ \A m \in DOMAIN forgetIntent.batches :
                forgetIntent'.batches[m].receipt =
                  IF m = n THEN d ELSE forgetIntent.batches[m].receipt
<1> DEFINE bs == forgetIntent.batches
           cs == [bs EXCEPT ![n].receipt = d]
<1>1. bs \in Seq(Batch)
  BY DEF Intents
<1>2. \A m \in DOMAIN bs : bs[m] \in Batch
  BY <1>1, ElementOfSeq
<1>3. /\ DOMAIN cs = DOMAIN bs
      /\ \A m \in DOMAIN bs : cs[m] = IF m = n THEN [bs[m] EXCEPT !.receipt = d] ELSE bs[m]
  OBVIOUS
<1>4. \A m \in DOMAIN bs : /\ cs[m] \in Batch /\ cs[m].op = bs[m].op
                           /\ cs[m].sessions = bs[m].sessions
                           /\ cs[m].receipt = IF m = n THEN d ELSE bs[m].receipt
  BY <1>2, <1>3 DEF Batch
<1>5. cs \in Seq(Batch)
  <2>1. cs \in [1 .. Len(bs) -> Batch]
    BY <1>1, <1>3, <1>4, LenProperties
  <2>2. Len(bs) \in Nat
    BY <1>1, LenProperties
  <2> HIDE DEF cs, bs
  <2> QED
    BY <2>1, <2>2, SeqDef
<1>6. forgetIntent' = [hub |-> forgetIntent.hub, epoch |-> forgetIntent.epoch,
                       mode |-> forgetIntent.mode,
                       localComplete |-> forgetIntent.localComplete, batches |-> cs]
  BY DEF Intents
<1> HIDE DEF cs
<1>7. /\ forgetIntent'.batches = cs /\ forgetIntent'.hub = forgetIntent.hub
      /\ forgetIntent'.epoch = forgetIntent.epoch /\ forgetIntent'.mode = forgetIntent.mode
      /\ forgetIntent'.localComplete = forgetIntent.localComplete
  BY <1>6
<1>8. forgetIntent' \in Intents
  <2>1. /\ forgetIntent.hub \in Hubs /\ forgetIntent.epoch \in Epochs
        /\ forgetIntent.mode \in Modes /\ forgetIntent.localComplete \in BOOLEAN
    BY DEF Intents
  <2> QED
    <3>1. [hub |-> forgetIntent.hub, epoch |-> forgetIntent.epoch,
           mode |-> forgetIntent.mode, localComplete |-> forgetIntent.localComplete,
           batches |-> cs] \in Intents
      BY <1>5, <2>1, IntentOf, Zenon
    <3> QED
      BY <1>6, <3>1, Zenon
<1>9. forgetIntent' # Absent
  BY <1>8
<1> QED
  BY <1>3, <1>4, <1>7, <1>8, <1>9 DEF IntentKept

LEMMA PostStep == ForgetInv /\ Post => ForgetInv'
<1> SUFFICES ASSUME ForgetInv, Post PROVE ForgetInv'
    OBVIOUS
<1> USE DEF ForgetInv
<1> DEFINE n == First(Owed)
           b == forgetIntent.batches[n]
           r == RequestOf(b)
<1>0. /\ UNCHANGED <<archive, engine, barred, late, replica, conn, connGen, pc, on, read, asked,
                     gone, ops>>
      /\ pc.step = "batch" /\ Owed # {} /\ landed' = TRUE
      /\ hubs[r.hub].epoch = r.epoch /\ HubForgets(r)
  BY DEF Post, callVars, syncVars, At
<1>1. PICK d \in hubs'[r.hub].done :
        d.op = r.op /\ forgetIntent' = [forgetIntent EXCEPT !.batches[n].receipt = d]
  BY DEF Post
<1>2. /\ forgetIntent # Absent /\ forgetIntent \in Intents /\ on \in Connections
      /\ forgetIntent.hub = on.hub /\ forgetIntent.epoch = read
  BY <1>0 DEF StepOK, IntentOK
<1>3. n \in DOMAIN forgetIntent.batches
  BY <1>0, <1>2, OwedIsBatch
<1>4. /\ r \in Forgets /\ r.op = b.op /\ r.pairs = b.sessions /\ r.hub = forgetIntent.hub
      /\ r.epoch = forgetIntent.epoch /\ r.op <= ops /\ r.hub \in Hubs
      /\ \A m \in DOMAIN forgetIntent.batches :
           r.op = forgetIntent.batches[m].op => r.pairs = forgetIntent.batches[m].sessions
  BY <1>2, <1>3, RequestIsOfBatch DEF Intents
<1> HIDE DEF r
<1>f. HubsOK' /\ Forgot(r)
  BY <1>0, <1>4, HubForgot
<1>d. d \in Dones
  BY <1>f, <1>4, <1>1 DEF HubsOK, HubStates
<1> HIDE DEF n
<1>w. /\ forgetIntent' \in Intents /\ forgetIntent' # Absent /\ IntentKept
      /\ forgetIntent'.localComplete = forgetIntent.localComplete
      /\ \A m \in DOMAIN forgetIntent.batches :
           forgetIntent'.batches[m].receipt =
             IF m = n THEN d ELSE forgetIntent.batches[m].receipt
  BY <1>1, <1>2, <1>3, <1>d, ReceiptWritten
<1>k. /\ forgetIntent'.hub = forgetIntent.hub /\ forgetIntent'.epoch = forgetIntent.epoch
      /\ forgetIntent'.mode = forgetIntent.mode
      /\ DOMAIN forgetIntent'.batches = DOMAIN forgetIntent.batches
      /\ \A m \in DOMAIN forgetIntent.batches :
           /\ forgetIntent'.batches[m].op = forgetIntent.batches[m].op
           /\ forgetIntent'.batches[m].sessions = forgetIntent.batches[m].sessions
  BY <1>2, <1>w DEF IntentKept
<1>s. Scope(forgetIntent') = Scope(forgetIntent)
  BY <1>k, SameScope
<1>5. /\ (MachineOK /\ ReplicaOK /\ WireOK /\ RequestsOK /\ RemovedOK /\ GoneOK)'
      /\ OnlyAskedIsLost'
      /\ \A e : e.of \in Hubs /\ Known(e) => Known(e)'
  BY <1>0, <1>4, <1>f, <1>w, ForgotKeeps
<1>6. IntentOK'
  <2>1. forgetIntent.epoch.of \in Hubs
    BY <1>2 DEF Intents, Epochs
  <2>3. forgetIntent.epoch.number <= hubs'[forgetIntent.epoch.of].epoch.number
    BY <1>2, <1>5, <2>1 DEF IntentOK, Known
  <2> QED
    BY <1>0, <1>2, <1>w, <1>k, <2>3 DEF IntentOK, Known
<1>7. WantedOK'
  BY <1>0, <1>2, <1>k, <1>s DEF WantedOK, PairsOf
<1>8. StepOK'
  BY <1>0, <1>2, <1>w, <1>k DEF StepOK
<1>v. Live /\ forgetIntent.hub = r.hub
  BY <1>0, <1>2, <1>4 DEF Live
<1>9. ReceiptsOK'
  <2> SUFFICES ASSUME NEW m \in DOMAIN forgetIntent.batches,
                      forgetIntent'.batches[m].receipt # Absent
               PROVE  /\ forgetIntent'.batches[m].receipt \in hubs'[r.hub].done
                      /\ forgetIntent'.batches[m].receipt.op = forgetIntent.batches[m].op
    BY <1>k, <1>v DEF ReceiptsOK
  <2>1. CASE m = n
    BY <1>1, <1>4, <1>w, <2>1
  <2>2. CASE m # n
    BY <1>4, <1>f, <1>w, <1>v, <2>2 DEF ReceiptsOK, Forgot
  <2> QED
    BY <2>1, <2>2
<1>10. ArchiveOK'
  BY <1>0, <1>2, <1>w, <1>k, <1>s DEF ArchiveOK, KeysOf
<1>11. EngineOK'
  BY <1>0 DEF EngineOK
<1>12. [hub |-> forgetIntent.hub, epoch |-> forgetIntent.epoch] \in committed'
  BY <1>0, <1>4 DEF HubForgets
<1>13. CommittedOK'
  BY <1>12, <1>k DEF CommittedOK
<1>14. LandedIsTrue'
  BY <1>0, <1>2, <1>12 DEF LandedIsTrue
<1> QED
  BY <1>f, <1>5, <1>6, <1>7, <1>8, <1>9, <1>10, <1>11, <1>13, <1>14

\* A batch under a new operation, with no receipt.
FreshBatch(b, n) == b.op = ops + n /\ b.receipt = Absent

\* An intent for the archive just read, whose operations nobody has seen.
LEMMA FreshIntent ==
    ASSUME ForgetInv, pc.step = "epoch", read' = hubs[on.hub].epoch,
           pc' = [pc EXCEPT !.step = "batch"],
           UNCHANGED <<archive, engine, barred, hubs, late, replica, conn, connGen, on, landed,
                       asked, committed, gone>>,
           forgetIntent' \in Intents, forgetIntent'.hub = on.hub,
           forgetIntent'.epoch = hubs[on.hub].epoch,
           ops' = ops + Len(forgetIntent'.batches),
           \A n \in DOMAIN forgetIntent'.batches : FreshBatch(forgetIntent'.batches[n], n),
           forgetIntent'.mode = "lossless" => forgetIntent'.localComplete,
           \E c \in asked : PairsOf(c) = Scope(forgetIntent') /\ c.mode = forgetIntent'.mode,
           forgetIntent'.localComplete =>
             /\ forgetIntent'.mode = "pair" => archive \cap KeysOf(Scope(forgetIntent')) = {}
             /\ forgetIntent'.mode = "excluded" =>
                  archive \cap (KeysOf(Scope(forgetIntent')) \cap Excluded) = {}
    PROVE  ForgetInv'
<1> USE DEF ForgetInv
<1>a. forgetIntent' # Absent
  OBVIOUS
<1>o. on \in Connections /\ on.hub \in Hubs
  BY DEF StepOK, Connections
<1>h. hubs[on.hub].epoch.of = on.hub /\ Known(hubs[on.hub].epoch)
  BY <1>o, HubTypes DEF HubsOK
<1>b. forgetIntent'.batches \in Seq(Batch) /\ ops \in Nat
  BY DEF Intents, MachineOK
<1>n. /\ Len(forgetIntent'.batches) \in Nat /\ ops' \in Nat /\ ops <= ops'
      /\ \A n \in DOMAIN forgetIntent'.batches :
           /\ n \in Nat /\ n >= 1 /\ n <= Len(forgetIntent'.batches)
           /\ forgetIntent'.batches[n].op \in 1 .. ops' /\ forgetIntent'.batches[n].op = ops + n
           /\ forgetIntent'.batches[n].op > ops /\ forgetIntent'.batches[n].receipt = Absent
  <2> DEFINE bs == forgetIntent'.batches
  <2>1. Len(bs) \in Nat /\ DOMAIN bs = 1 .. Len(bs)
    BY <1>b, LenProperties
  <2>2. \A n \in DOMAIN bs : bs[n].op = ops + n /\ bs[n].receipt = Absent
    BY DEF FreshBatch
  <2>3. ops' = ops + Len(bs)
    OBVIOUS
  <2> HIDE DEF bs
  <2>4. \A n \in DOMAIN bs : /\ n \in Nat /\ n >= 1 /\ n <= Len(bs)
                             /\ bs[n].op \in 1 .. ops' /\ bs[n].op > ops
    BY <1>b, <2>1, <2>2, <2>3
  <2>5. ops' \in Nat /\ ops <= ops'
    BY <1>b, <2>1, <2>3
  <2> QED
    BY <2>1, <2>2, <2>4, <2>5 DEF bs
<1>p. pc'.step = "batch" /\ pc' = [step |-> "batch", caller |-> pc.caller]
      /\ pc.caller \in Callers \cup {Absent}
  BY DEF StepOK
<1>1. MachineOK'
  BY <1>n DEF MachineOK, Admitted
<1>2. HubsOK'
  <2>1. \A h \in Hubs : \A d \in hubs[h].done : d.op \in Nat
    BY HubTypes DEF Dones
  <2> QED
    BY <1>b, <1>n, <2>1 DEF HubsOK
<1>3. ReplicaOK'
  BY DEF ReplicaOK, Known
<1>4. WireOK'
  <2>1. \A r \in late : r.kind = "forget" => r.op \in Nat
    BY DEF WireOK, Pushes, Forgets
  <2> QED
    BY <1>b, <1>n, <2>1 DEF WireOK, Known
<1>5. IntentOK'
  <2>1. \A n, m \in DOMAIN forgetIntent'.batches :
          forgetIntent'.batches[n].op = forgetIntent'.batches[m].op => n = m
    BY <1>b, <1>n
  <2> QED
    BY <1>h, <1>n, <2>1 DEF IntentOK, Known
<1>6. WantedOK'
  BY DEF WantedOK, PairsOf
<1>7. RequestsOK'
  <2>1. \A r \in late : r.kind = "forget" => r.op \in Nat /\ r.op <= ops
    BY DEF WireOK, Pushes, Forgets
  <2> QED
    BY <1>b, <1>n, <2>1 DEF RequestsOK
<1>8. StepOK'
  BY <1>a, <1>o, <1>p DEF StepOK
<1>9. (ReceiptsOK /\ CommittedOK)'
  BY <1>n DEF ReceiptsOK, CommittedOK
<1>10. RemovedOK'
  <2>1. \A d \in hubs[on.hub].done : d.op \in Nat /\ d.op <= ops
    BY <1>o, HubTypes DEF HubsOK, Dones
  <2> QED
    BY <1>b, <1>n, <2>1 DEF RemovedOK
<1>11. (ArchiveOK /\ EngineOK)'
  BY <1>p DEF ArchiveOK, EngineOK, KeysOf
<1>12. GoneOK'
  BY DEF GoneOK
<1>13. LandedIsTrue'
  BY DEF LandedIsTrue, StepOK
<1>14. OnlyAskedIsLost'
  BY DEF OnlyAskedIsLost
<1> QED
  BY <1>1, <1>2, <1>3, <1>4, <1>5, <1>6, <1>7, <1>8, <1>9, <1>10, <1>11, <1>12, <1>13, <1>14

\* The batches of a new intent, and of one for another archive.
LEMMA NewBatchesAre ==
    ASSUME NEW pairs \in Seq(Sessions), ops \in Nat
    PROVE  /\ NewBatches(pairs) \in Seq(Batch) /\ Len(NewBatches(pairs)) = Len(pairs)
           /\ \A n \in DOMAIN NewBatches(pairs) : FreshBatch(NewBatches(pairs)[n], n)
<1> DEFINE bs == NewBatches(pairs)
<1>1. DOMAIN pairs = 1 .. Len(pairs) /\ Len(pairs) \in Nat
  BY LenProperties
<1>2. \A n \in DOMAIN pairs : pairs[n] \in Sessions /\ n \in Nat
  BY <1>1, ElementOfSeq
<1>3. bs = [n \in 1 .. Len(pairs) |->
              [op |-> ops + n, sessions |-> {pairs[n]}, receipt |-> Absent]]
  BY <1>1 DEF NewBatches
<1>4. \A n \in 1 .. Len(pairs) :
        [op |-> ops + n, sessions |-> {pairs[n]}, receipt |-> Absent] \in Batch
  BY <1>1, <1>2 DEF Batch
<1> HIDE DEF bs
<1>5. bs \in [1 .. Len(pairs) -> Batch]
  BY <1>3, <1>4
<1>6. bs \in Seq(Batch) /\ Len(bs) = Len(pairs)
  BY <1>1, <1>5, SeqDef, LenProperties
<1>7. \A n \in DOMAIN bs : FreshBatch(bs[n], n)
  BY <1>3 DEF FreshBatch
<1> QED
  BY <1>6, <1>7 DEF bs

LEMMA FreshBatchesAre ==
    ASSUME NEW bs \in Seq(Batch), ops \in Nat
    PROVE  /\ Fresh(bs) \in Seq(Batch) /\ Len(Fresh(bs)) = Len(bs)
           /\ DOMAIN Fresh(bs) = DOMAIN bs
           /\ \A n \in DOMAIN bs : /\ FreshBatch(Fresh(bs)[n], n)
                                   /\ Fresh(bs)[n].sessions = bs[n].sessions
<1> DEFINE cs == Fresh(bs)
<1>1. DOMAIN bs = 1 .. Len(bs) /\ Len(bs) \in Nat
  BY LenProperties
<1>2. \A n \in DOMAIN bs : bs[n] \in Batch /\ n \in Nat
  BY <1>1, ElementOfSeq
<1>3. cs = [n \in 1 .. Len(bs) |->
              [op |-> ops + n, sessions |-> bs[n].sessions, receipt |-> Absent]]
  BY <1>1 DEF Fresh
<1>4. \A n \in 1 .. Len(bs) :
        [op |-> ops + n, sessions |-> bs[n].sessions, receipt |-> Absent] \in Batch
  BY <1>1, <1>2 DEF Batch
<1> HIDE DEF cs
<1>5. cs \in [1 .. Len(bs) -> Batch]
  BY <1>3, <1>4
<1>6. cs \in Seq(Batch) /\ Len(cs) = Len(bs) /\ DOMAIN cs = DOMAIN bs
  BY <1>1, <1>5, SeqDef, LenProperties
<1>7. \A n \in DOMAIN bs : FreshBatch(cs[n], n) /\ cs[n].sessions = bs[n].sessions
  BY <1>1, <1>3 DEF FreshBatch
<1> QED
  BY <1>6, <1>7 DEF cs

LEMMA ReadEpochStep == ForgetInv /\ ReadEpoch => ForgetInv'
<1> SUFFICES ASSUME ForgetInv, ReadEpoch PROVE ForgetInv'
    OBVIOUS
<1> USE DEF ForgetInv
<1>0. /\ UNCHANGED <<archive, engine, barred, hubs, late, replica, conn, connGen, on, asked,
                     committed, gone>>
      /\ pc.step = "epoch" /\ read' = hubs[on.hub].epoch /\ pc' = [pc EXCEPT !.step = "batch"]
  BY DEF ReadEpoch, Quiet, syncVars, At, To
<1>p. pc'.step = "batch" /\ pc' = [step |-> "batch", caller |-> pc.caller]
      /\ pc.caller \in Callers \cup {Absent}
  BY <1>0 DEF StepOK
<1>o. on \in Connections /\ on.hub \in Hubs /\ ops \in Nat
  BY <1>0 DEF StepOK, Connections, MachineOK
<1>e. hubs[on.hub].epoch \in Epochs
  BY <1>o, HubTypes
<1>1. CASE /\ forgetIntent # Absent /\ IsThisHubs(forgetIntent)
           /\ landed' = (\E n \in DOMAIN forgetIntent.batches :
                             forgetIntent.batches[n].receipt # Absent)
           /\ UNCHANGED <<forgetIntent, ops>>
  <2>0. forgetIntent.hub = on.hub /\ forgetIntent.epoch = read'
    BY <1>0, <1>1 DEF IsThisHubs
  <2>1. (MachineOK /\ HubsOK /\ ReplicaOK /\ IntentOK /\ WantedOK /\ WireOK /\ RequestsOK)'
    BY <1>0, <1>1 DEF MachineOK, Admitted, HubsOK, ReplicaOK, IntentOK, WantedOK, WireOK,
                      RequestsOK, Known
  <2>2. StepOK'
    BY <1>0, <1>1, <1>p, <1>o, <2>0 DEF StepOK
  <2>3. (ReceiptsOK /\ RemovedOK /\ GoneOK /\ CommittedOK)'
    BY <1>0, <1>1 DEF ReceiptsOK, RemovedOK, GoneFrom, Live, GoneOK, CommittedOK
  <2>4. (ArchiveOK /\ EngineOK)'
    BY <1>0, <1>1, <1>p DEF ArchiveOK, EngineOK
  <2>5. LandedIsTrue'
    BY <1>0, <1>1, <2>0 DEF LandedIsTrue, CommittedOK
  <2>6. OnlyAskedIsLost'
    BY <1>0 DEF OnlyAskedIsLost
  <2> QED
    BY <2>1, <2>2, <2>3, <2>4, <2>5, <2>6
<1>2. CASE /\ forgetIntent # Absent /\ forgetIntent' = Retargeted(forgetIntent)
           /\ ops' = ops + Len(forgetIntent.batches) /\ UNCHANGED landed
  <2> DEFINE bs == forgetIntent.batches
  <2>1. /\ forgetIntent \in Intents /\ bs \in Seq(Batch) /\ forgetIntent.mode \in Modes
        /\ forgetIntent.localComplete \in BOOLEAN
    BY <1>2 DEF IntentOK, Intents
  <2>2. forgetIntent' = [hub |-> on.hub, epoch |-> hubs[on.hub].epoch,
                         mode |-> forgetIntent.mode,
                         localComplete |-> forgetIntent.localComplete, batches |-> Fresh(bs)]
    BY <1>2, <2>1 DEF Retargeted, Intents
  <2>3. /\ Fresh(bs) \in Seq(Batch) /\ Len(Fresh(bs)) = Len(bs)
        /\ DOMAIN Fresh(bs) = DOMAIN bs
        /\ \A n \in DOMAIN bs : /\ FreshBatch(Fresh(bs)[n], n)
                                /\ Fresh(bs)[n].sessions = bs[n].sessions
    BY <1>o, <2>1, FreshBatchesAre
  <2>4. /\ forgetIntent'.hub = on.hub /\ forgetIntent'.epoch = hubs[on.hub].epoch
        /\ forgetIntent'.mode = forgetIntent.mode /\ forgetIntent'.batches = Fresh(bs)
        /\ forgetIntent'.localComplete = forgetIntent.localComplete
    BY <2>2
  <2>5. forgetIntent' \in Intents
    <3>1. [hub |-> on.hub, epoch |-> hubs[on.hub].epoch, mode |-> forgetIntent.mode,
           localComplete |-> forgetIntent.localComplete, batches |-> Fresh(bs)] \in Intents
      BY <1>o, <1>e, <2>1, <2>3, IntentOf, Zenon
    <3> QED
      BY <2>2, <3>1, Zenon
  <2>6. Scope(forgetIntent') = Scope(forgetIntent)
    BY <2>3, <2>4, SameScope
  <2>7. forgetIntent.mode = "lossless" => forgetIntent.localComplete
    BY <1>2 DEF IntentOK
  <2>8. \E c \in asked : PairsOf(c) = Scope(forgetIntent') /\ c.mode = forgetIntent'.mode
    BY <1>2, <2>4, <2>6 DEF WantedOK
  <2>9. forgetIntent.localComplete =>
          /\ forgetIntent.mode = "pair" => archive \cap KeysOf(Scope(forgetIntent)) = {}
          /\ forgetIntent.mode = "excluded" =>
               archive \cap (KeysOf(Scope(forgetIntent)) \cap Excluded) = {}
    BY <1>2 DEF ArchiveOK
  <2>10. /\ ops' = ops + Len(forgetIntent'.batches)
         /\ \A n \in DOMAIN forgetIntent'.batches : FreshBatch(forgetIntent'.batches[n], n)
    BY <1>2, <2>3, <2>4
  <2>11. landed' = landed
    BY <1>2
  <2> HIDE DEF bs
  <2> QED
    BY <1>0, <2>4, <2>5, <2>6, <2>7, <2>8, <2>9, <2>10, <2>11, FreshIntent
<1>3. CASE /\ forgetIntent = Absent
           /\ forgetIntent' = [hub |-> on.hub, epoch |-> hubs[on.hub].epoch,
                               mode |-> pc.caller.mode,
                               localComplete |-> pc.caller.mode = "lossless",
                               batches |-> NewBatches(pc.caller.pairs)]
           /\ ops' = ops + Len(pc.caller.pairs) /\ UNCHANGED landed
  <2> DEFINE pairs == pc.caller.pairs
             mode == pc.caller.mode
  <2>1. pc.caller \in asked /\ pc.caller \in Callers
    BY <1>0, <1>3 DEF StepOK, MachineOK
  <2>2. pairs \in Seq(Sessions) /\ mode \in Modes
    BY <2>1
  <2>3. /\ NewBatches(pairs) \in Seq(Batch) /\ Len(NewBatches(pairs)) = Len(pairs)
        /\ \A n \in DOMAIN NewBatches(pairs) : FreshBatch(NewBatches(pairs)[n], n)
    BY <1>o, <2>2, NewBatchesAre
  <2>4. /\ forgetIntent'.hub = on.hub /\ forgetIntent'.epoch = hubs[on.hub].epoch
        /\ forgetIntent'.mode = mode /\ forgetIntent'.batches = NewBatches(pairs)
        /\ forgetIntent'.localComplete = (mode = "lossless")
    BY <1>3
  <2>5. forgetIntent' \in Intents
    <3>1. (mode = "lossless") \in BOOLEAN
      OBVIOUS
    <3>2. [hub |-> on.hub, epoch |-> hubs[on.hub].epoch, mode |-> mode,
           localComplete |-> mode = "lossless", batches |-> NewBatches(pairs)] \in Intents
      BY <1>o, <1>e, <2>2, <2>3, <3>1, IntentOf, Zenon
    <3> QED
      BY <1>3, <3>2, Zenon
  <2>6. Scope(forgetIntent') = PairsOf(pc.caller)
    BY <2>4 DEF Scope, PairsOf, NewBatches
  <2>7. \E c \in asked : PairsOf(c) = Scope(forgetIntent') /\ c.mode = forgetIntent'.mode
    BY <2>1, <2>4, <2>6
  <2>8. forgetIntent'.mode = "lossless" <=> forgetIntent'.localComplete
    BY <2>4
  <2>9. /\ ops' = ops + Len(forgetIntent'.batches)
        /\ \A n \in DOMAIN forgetIntent'.batches : FreshBatch(forgetIntent'.batches[n], n)
    BY <1>3, <2>3, <2>4
  <2>10. landed' = landed
    BY <1>3
  <2> HIDE DEF pairs, mode
  <2> QED
    BY <1>0, <2>4, <2>5, <2>7, <2>8, <2>9, <2>10, FreshIntent
<1> QED
  BY <1>1, <1>2, <1>3 DEF ReadEpoch, Quiet, callVars

\* What an answer says is gone was removed with some batch, and shows in its receipt.
LEMMA GoneByIs ==
    ASSUME forgetIntent # Absent, forgetIntent \in Intents
    PROVE  LET i == forgetIntent
               g == GoneBy(i) IN
           /\ g.hub = i.hub /\ g.epoch = i.epoch /\ g.local \subseteq g.remote
           /\ g.remote \subseteq RowKeys /\ g.remote \cap Backed = {}
           /\ g.remote \subseteq KeysOf(Scope(i))
           /\ i.mode # "pair" => g.remote \subseteq Excluded
           /\ i.mode = "lossless" => g.local = {}
           /\ \A k \in g.remote : \E n \in DOMAIN i.batches :
                i.batches[n].receipt.removed /\ k \in KeysOf(i.batches[n].sessions)
  BY DEF GoneBy, Mode, KeysOf, Scope

LEMMA LearnedStep == ForgetInv /\ Learned => ForgetInv'
<1> SUFFICES ASSUME ForgetInv, Learned PROVE ForgetInv'
    OBVIOUS
<1> USE DEF ForgetInv
<1> DEFINE i == forgetIntent
<1>0. /\ UNCHANGED <<archive, barred, hubs, late, replica, conn, connGen, on, read, landed,
                     asked, ops>>
      /\ pc.step = "learn" /\ pc' = Idle /\ forgetIntent' = Absent
      /\ engine' = engine \cup StillHeld(i) /\ ReplicaLearned(i)
  BY DEF Learned, callVars, syncVars, At
<1>i. /\ i # Absent /\ i \in Intents /\ i.hub \in Hubs /\ i.mode \in Modes
      /\ i.batches \in Seq(Batch)
      /\ \A n \in DOMAIN i.batches : i.batches[n].receipt # Absent
  BY <1>0 DEF StepOK, IntentOK, Intents
<1>s. StillHeld(i) \subseteq Admitted /\ StillHeld(i) \subseteq replica.rows
  BY DEF StillHeld, Taken
<1>1. MachineOK'
  BY <1>0, <1>s DEF MachineOK, Admitted
<1>2. (HubsOK /\ ReplicaOK /\ IntentOK /\ WantedOK /\ WireOK /\ RequestsOK)'
  BY <1>0 DEF HubsOK, ReplicaOK, IntentOK, WantedOK, WireOK, RequestsOK, Known
<1>3. StepOK'
  BY <1>0 DEF StepOK, Idle
<1>4. (ReceiptsOK /\ RemovedOK /\ ArchiveOK /\ EngineOK /\ CommittedOK)'
  BY <1>0 DEF ReceiptsOK, RemovedOK, Live, ArchiveOK, EngineOK, CommittedOK
<1>5. (LandedIsTrue /\ OnlyAskedIsLost)'
  BY <1>0 DEF LandedIsTrue, OnlyAskedIsLost
<1>6. CASE gone' = NoGone
  <2>1. GoneOK'
    BY <1>6 DEF GoneOK, NoGone
  <2> QED
    BY <1>1, <1>2, <1>3, <1>4, <1>5, <2>1
<1>7. CASE conn = i.hub /\ hubs[conn].epoch = i.epoch /\ gone' = GoneBy(i)
  <2> DEFINE g == GoneBy(i)
             h == i.hub
  <2>g. /\ g.hub = i.hub /\ g.epoch = i.epoch /\ g.local \subseteq g.remote
        /\ g.remote \subseteq RowKeys /\ g.remote \cap Backed = {}
        /\ g.remote \subseteq KeysOf(Scope(i))
        /\ i.mode # "pair" => g.remote \subseteq Excluded
        /\ i.mode = "lossless" => g.local = {}
        /\ \A k \in g.remote : \E n \in DOMAIN i.batches :
             i.batches[n].receipt.removed /\ k \in KeysOf(i.batches[n].sessions)
    BY <1>i, GoneByIs
  <2>v. Live
    BY <1>7, <1>i DEF Live
  <2>r. replica.epoch = i.epoch /\ replica.epoch = hubs[h].epoch
        /\ replica.rows \subseteq RowKeys
    BY <1>0, <1>7 DEF ReplicaLearned, ReplicaOK, Replicas
  <2>k. ASSUME NEW k \in g.remote
        PROVE  /\ k \notin hubs[h].rows /\ k \notin replica.rows
               /\ \A r \in late : r.kind = "push" /\ r.epoch = hubs[h].epoch /\ k \in r.rows
                    => r.generation < hubs[h].generation
               /\ i.mode = "pair" => k \notin engine
    <3>1. PICK n \in DOMAIN i.batches :
            i.batches[n].receipt.removed /\ k \in KeysOf(i.batches[n].sessions)
      BY <2>g
    <3> DEFINE d == i.batches[n].receipt
               keys == KeysOf(i.batches[n].sessions)
    <3>2. d # Absent /\ d \in hubs[h].done /\ d.op = i.batches[n].op
      BY <1>i, <2>v DEF ReceiptsOK
    <3>3. GoneFrom(h, d, keys)
      BY <2>v, <3>1, <3>2 DEF RemovedOK
    <3>4. d.generation \in Nat /\ hubs[h].generation \in Nat
      BY <1>i, <3>2, HubTypes DEF Dones
    <3>5. replica.generation >= d.generation
      BY <1>0 DEF ReplicaLearned, Receipts
    <3>6. i.mode = "pair" => engine \cap (keys \ Backed) = {}
      BY <1>0, <2>v, <2>r, <3>1, <3>2 DEF EngineOK, Took
    <3>7. \A r \in late : r.kind = "push" => r.generation \in Nat
      BY DEF WireOK, Pushes, Forgets
    <3>8. k \in keys /\ k \notin Backed
      BY <2>g, <3>1
    <3> HIDE DEF d, keys, g, h
    <3>9. k \notin hubs[h].rows /\ k \notin replica.rows
      BY <2>r, <3>3, <3>5, <3>8 DEF GoneFrom
    <3>10. \A r \in late : r.kind = "push" /\ r.epoch = hubs[h].epoch /\ k \in r.rows
             => r.generation < hubs[h].generation
      BY <3>3, <3>4, <3>7, <3>8 DEF GoneFrom
    <3> QED
      BY <3>6, <3>8, <3>9, <3>10
  <2>a. /\ archive \cap g.local = {}
        /\ (archive \cap Admitted) \cap g.remote = {}
    <3>1. i.mode = "pair" => archive \cap KeysOf(Scope(i)) = {}
      BY <1>0, <1>i DEF ArchiveOK
    <3>2. i.mode = "excluded" => archive \cap (KeysOf(Scope(i)) \cap Excluded) = {}
      BY <1>0, <1>i DEF ArchiveOK
    <3>3. i.mode \in {"pair", "excluded", "lossless"}
      BY <1>i DEF Modes
    <3> HIDE DEF g
    <3> QED
      BY <2>g, <3>1, <3>2, <3>3 DEF Admitted
  <2>e. engine' \cap g.remote = {}
    <3>1. engine' \subseteq Admitted
      BY <1>1 DEF MachineOK
    <3> HIDE DEF g
    <3> QED
      BY <1>0, <1>s, <2>g, <2>k, <3>1 DEF Admitted
  <2> HIDE DEF g
  <2>1. /\ hubs[h].rows \cap g.remote = {} /\ replica.rows \cap g.remote = {}
        /\ \A r \in late :
             r.kind = "push" /\ r.epoch = g.epoch /\ r.rows \cap g.remote # {}
                => r.generation < hubs[h].generation
    BY <1>7, <2>g, <2>k
  <2>2. GoneOK'
    BY <1>0, <1>7, <1>i, <2>g, <2>r, <2>a, <2>e, <2>1 DEF GoneOK, g
  <2> QED
    BY <1>1, <1>2, <1>3, <1>4, <1>5, <2>2
<1> QED
  BY <1>6, <1>7 DEF Learned

-------------------------------------------------------------------------------
(* Every step, and the theorems *)

LEMMA NextInv == ForgetInv /\ [ForgetNext]_forgetVars => ForgetInv'
<1> SUFFICES ASSUME ForgetInv, [ForgetNext]_forgetVars PROVE ForgetInv'
    OBVIOUS
<1>1. ASSUME NEW h \in Hubs, NEW rows \in {{}, Archived}, Restore(h, rows) PROVE ForgetInv'
  BY <1>1, RestoreStep
<1>2. ASSUME NEW h \in Hubs, Connect(h) PROVE ForgetInv'
  BY <1>2, ConnectStep
<1>3. CASE Disconnect \/ Pull \/ Reconciled \/ Push \/ Crash
  BY <1>3, DisconnectStep, PullStep, ReconciledStep, PushStep, CrashStep
<1>4. ASSUME NEW r \in late, Arrives(r) PROVE ForgetInv'
  BY <1>4, ArrivesStep
<1>5. ASSUME NEW k \in RowKeys, Tee(k) PROVE ForgetInv'
  BY <1>5, TeeStep
<1>6. ASSUME NEW c \in Callers, Forget(c) PROVE ForgetInv'
  BY <1>6, ForgetStep
<1>7. CASE Resume \/ ReadEpoch \/ Post \/ Posted
  BY <1>7, ResumeStep, ReadEpochStep, PostStep, PostedStep
<1>8. CASE ArchiveHalf \/ Stamp \/ ArchiveDone \/ Engine
  BY <1>8, ArchiveHalfStep, StampStep, ArchiveDoneStep, EngineStep
<1>9. CASE Learned \/ ForgetRefused \/ Fails \/ TimesOut
  BY <1>9, LearnedStep, RefusedStep, FailsStep, TimesOutStep
<1>10. CASE UNCHANGED forgetVars
  <2> USE <1>10 DEF forgetVars, syncVars, callVars
  <2>1. (MachineOK /\ HubsOK /\ ReplicaOK /\ WireOK /\ IntentOK /\ WantedOK /\ RequestsOK)'
    BY DEF ForgetInv, MachineOK, Admitted, HubsOK, ReplicaOK, WireOK, IntentOK, WantedOK,
           RequestsOK, Known
  <2>2. (StepOK /\ ReceiptsOK /\ RemovedOK /\ ArchiveOK /\ EngineOK)'
    BY DEF ForgetInv, StepOK, ReceiptsOK, RemovedOK, GoneFrom, ArchiveOK, EngineOK, Live
  <2>3. (GoneOK /\ CommittedOK /\ LandedIsTrue /\ OnlyAskedIsLost)'
    BY DEF ForgetInv, GoneOK, CommittedOK, LandedIsTrue, OnlyAskedIsLost
  <2> QED
    BY <2>1, <2>2, <2>3 DEF ForgetInv
<1> QED
  BY <1>1, <1>2, <1>3, <1>4, <1>5, <1>6, <1>7, <1>8, <1>9, <1>10 DEF ForgetNext

\* The inductive invariant of a forget: what is on the wire, on the Hubs, in the
\* intent and in the machine's own stores fit each other at every step.
THEOREM ForgetInvariant == ForgetSpec => []ForgetInv
<1>1. ForgetInit => ForgetInv
  BY InitInv
<1>2. ForgetInv /\ [ForgetNext]_forgetVars => ForgetInv'
  BY NextInv
<1> QED
  BY <1>1, <1>2, PTL DEF ForgetSpec

LEMMA InvIsExact == ForgetInv => ForgetIsExact
<1> SUFFICES ASSUME ForgetInv PROVE ForgetIsExact
    OBVIOUS
<1>1. FleetForgetTypeOK
  <2>1. replica.rows \subseteq RowKeys
    BY DEF ForgetInv, ReplicaOK, Replicas
  <2>2. pc # Idle => on # Absent
    BY DEF ForgetInv, StepOK, Connections
  <2> QED
    BY <2>1, <2>2 DEF ForgetInv, MachineOK, IntentOK, FleetForgetTypeOK, Admitted
<1>2. GoneStaysGone
  BY DEF ForgetInv, GoneOK, GoneStaysGone
<1> QED
  BY <1>1, <1>2 DEF ForgetInv, ForgetIsExact

\* What a forget answered gone stays gone from the Hub, the archive and the engine,
\* the archive loses only what some caller asked it to, and a forget that failed
\* says rows were forgotten only of an archive that did a batch of it.
THEOREM ForgetIsExactHolds == ForgetSpec => []ForgetIsExact
  BY ForgetInvariant, InvIsExact, PTL

===============================================================================
