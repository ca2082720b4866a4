-------------------------- MODULE HubServices_proofs --------------------------
(***************************************************************************)
(* Two services of the Hub, and the poller a client runs as well.  The     *)
(* purge of a machine: a completed one has left nothing the machine had    *)
(* before it, aliases resolve, and no process serves changes of the        *)
(* archive before the purges of earlier ones are complete.  The poller of  *)
(* the usage limits, under each of its two owners: a client, which hands   *)
(* polling over and takes it back (UsagePoller), and the Hub, which polls  *)
(* what its key lists (PollSet).  And what a restored Hub starts from: a   *)
(* backup placed in its data dir is there whole or not at all              *)
(* (RestoreStaging).                                                       *)
(***************************************************************************)
EXTENDS PollSet, HubMachines, RestoreStaging, FiniteSetTheorems, WellFoundedInduction,
        SequenceTheorems, TLAPS

-------------------------------------------------------------------------------
(* The state of a poller *)

PollerFields ==
    {"credential", "expired", "refused", "running", "suspended", "remote", "tracked", "timer",
     "batch", "reads"}

IsPoller(p) == p = [f \in PollerFields |-> p[f]]

IsRead(r) == r = [id |-> r.id, org |-> r.org, key |-> r.key, live |-> r.live]

PollerType(p) ==
    /\ IsPoller(p)
    /\ p.credential \in AccessKeys \cup {NULL} /\ p.refused \in AccessKeys \cup {NULL}
    /\ p.tracked \subseteq Organizations
    /\ p.expired \in BOOLEAN /\ p.running \in BOOLEAN /\ p.suspended \in BOOLEAN
    /\ p.remote \in BOOLEAN /\ p.timer \in BOOLEAN /\ p.batch \in BOOLEAN
    /\ \A r \in p.reads : IsRead(r) /\ r.live \in BOOLEAN

\* A read of this epoch is of an Organization that is tracked, with the key
\* and by the process that poll, and is the only one of its Organization.
ReadsCurrent(p) ==
    \A r \in p.reads : r.live =>
        /\ r.org \in p.tracked /\ r.key = p.credential /\ CanPoll(p)
        /\ \A q \in p.reads : q.live /\ q.org = r.org => q = r

PollerOK(p) ==
    /\ PollerType(p) /\ ReadsCurrent(p) /\ ~(p.timer /\ p.batch)
    /\ p.expired => p.refused = p.credential

\* Polling that is on has its next step armed.
StepArmed(p) == p.running /\ CanPoll(p) /\ p.tracked # {} => p.timer \/ p.batch

\* `q` is `p` but for some fields.
SameBut(p, q, changed) == \A f \in PollerFields \ changed : q[f] = p[f]

-------------------------------------------------------------------------------
(* What each call makes of it *)

LEMMA FencedIs ==
    ASSUME NEW p, PollerType(p)
    PROVE  /\ PollerType(Fenced(p)) /\ SameBut(p, Fenced(p), {"timer", "batch", "reads"})
           /\ Fenced(p).timer = FALSE /\ Fenced(p).batch = FALSE
           /\ \A r \in Fenced(p).reads : ~r.live
<1> DEFINE old == {[r EXCEPT !.live = FALSE] : r \in p.reads}
           q == [p EXCEPT !.timer = FALSE, !.batch = FALSE, !.reads = old]
<1>1. Fenced(p) = q
  BY DEF Fenced
<1>2. ASSUME NEW r \in old PROVE IsRead(r) /\ r.live = FALSE
  <2>1. PICK s \in p.reads : r = [s EXCEPT !.live = FALSE]
    OBVIOUS
  <2>2. IsRead(s)
    BY DEF PollerType
  <2>3. s = [id |-> s.id, org |-> s.org, key |-> s.key, live |-> s.live]
    BY <2>2 DEF IsRead
  <2> QED
    BY <2>1, <2>3 DEF IsRead
<1> HIDE DEF old
<1>3. IsPoller(q) /\ SameBut(p, q, {"timer", "batch", "reads"})
  BY IsPoller(p), Zenon DEF IsPoller, SameBut, PollerFields, PollerType
<1>4. q.timer = FALSE /\ q.batch = FALSE /\ q.reads = old
  BY DEF IsPoller, PollerFields, PollerType
<1> HIDE DEF q
<1>5. PollerType(q)
  BY <1>2, <1>3, <1>4 DEF PollerType, SameBut, PollerFields
<1> QED
  BY <1>1, <1>2, <1>3, <1>4, <1>5

\* A flag of a poller: the provers take its value from here.
LEMMA CanPollIsBoolean ==
    ASSUME NEW p
    PROVE  CanPoll(p) \in BOOLEAN
BY DEF CanPoll

\* Fields that differ in nothing the reads depend on.
LEMMA ReadsAsBefore ==
    ASSUME NEW p, NEW q, ReadsCurrent(p), q.reads = p.reads, q.tracked = p.tracked,
           q.credential = p.credential, CanPoll(p) => CanPoll(q)
    PROVE  ReadsCurrent(q)
BY DEF ReadsCurrent

LEMMA ScheduledOK ==
    ASSUME NEW p, PollerOK(p)
    PROVE  /\ PollerOK(Scheduled(p)) /\ StepArmed(Scheduled(p))
           /\ SameBut(p, Scheduled(p), {"timer"})
<1> DEFINE timer == p.running /\ CanPoll(p) /\ ~p.batch /\ p.tracked # {}
           q == [p EXCEPT !.timer = timer]
<1>1. Scheduled(p) = q
  BY DEF Scheduled
<1>2. IsPoller(p) /\ timer \in BOOLEAN
  BY DEF PollerOK, PollerType
<1>3. (timer => ~p.batch) /\ (p.running /\ CanPoll(p) /\ p.tracked # {} => timer \/ p.batch)
  OBVIOUS
<1> HIDE DEF timer
<1>4. IsPoller(q) /\ SameBut(p, q, {"timer"})
  BY <1>2, Zenon DEF IsPoller, SameBut
<1>5. q.timer = timer
  BY <1>2, SMT DEF IsPoller, PollerFields
<1> HIDE DEF q
<1>6. /\ q.credential = p.credential /\ q.expired = p.expired /\ q.refused = p.refused
      /\ q.running = p.running /\ q.suspended = p.suspended /\ q.remote = p.remote
      /\ q.tracked = p.tracked /\ q.batch = p.batch /\ q.reads = p.reads
  BY <1>4 DEF SameBut, PollerFields
<1>7. CanPoll(q) = CanPoll(p)
  BY <1>6 DEF CanPoll
<1>8. PollerType(q)
  BY <1>2, <1>4, <1>5, <1>6 DEF PollerOK, PollerType
<1>9. ReadsCurrent(q)
  BY <1>6, <1>7, ReadsAsBefore DEF PollerOK
<1>10. ~(q.timer /\ q.batch) /\ StepArmed(q)
  BY <1>3, <1>5, <1>6, <1>7 DEF StepArmed
<1> QED
  BY <1>1, <1>4, <1>6, <1>8, <1>9, <1>10 DEF PollerOK

LEMMA AskedOK ==
    ASSUME NEW p, PollerOK(p), NEW os \in SUBSET p.tracked
    PROVE  PollerOK(Asked(p, os)) /\ SameBut(p, Asked(p, os), {"reads"})
<1> DEFINE new == IF CanPoll(p) THEN {o \in os : ~Held(p, o)} ELSE {}
           free == (1 .. MaxReads + Cardinality(Organizations)) \ {r.id : r \in p.reads}
           id == CHOOSE f \in [new -> free] : \A a, b \in new : f[a] = f[b] => a = b
           asked == {[id |-> id[o], org |-> o, key |-> p.credential, live |-> TRUE] : o \in new}
           reads == p.reads \cup asked
           q == [p EXCEPT !.reads = reads]
<1>1. Asked(p, os) = q
  BY Zenon DEF Asked
<1> HIDE DEF id
<1>2. ASSUME NEW r \in asked
      PROVE  /\ IsRead(r) /\ r.live = TRUE /\ r.org \in p.tracked /\ r.key = p.credential
             /\ CanPoll(p) /\ ~Held(p, r.org)
             /\ \A s \in asked : s.org = r.org => s = r
  <2>1. ASSUME NEW o \in new PROVE o \in p.tracked /\ CanPoll(p) /\ ~Held(p, o)
    BY <2>1
  <2> HIDE DEF new
  <2>2. PICK o \in new : r = [id |-> id[o], org |-> o, key |-> p.credential, live |-> TRUE]
    OBVIOUS
  <2>3. ASSUME NEW s \in asked, s.org = r.org PROVE s = r
    <3>1. PICK a \in new : s = [id |-> id[a], org |-> a, key |-> p.credential, live |-> TRUE]
      OBVIOUS
    <3>2. s.org = a /\ r.org = o
      BY <2>2, <3>1
    <3> QED
      BY <2>2, <2>3, <3>1, <3>2
  <2> QED
    BY <2>1, <2>2, <2>3 DEF IsRead
<1> HIDE DEF asked
<1>3. IsPoller(p)
  BY DEF PollerOK, PollerType
<1>4. IsPoller(q) /\ SameBut(p, q, {"reads"})
  BY <1>3, Zenon DEF IsPoller, SameBut
<1>5. q.reads = reads
  BY <1>3, SMT DEF IsPoller, PollerFields
<1> HIDE DEF q
<1>6. /\ q.credential = p.credential /\ q.expired = p.expired /\ q.refused = p.refused
      /\ q.running = p.running /\ q.suspended = p.suspended /\ q.remote = p.remote
      /\ q.tracked = p.tracked /\ q.batch = p.batch /\ q.timer = p.timer
  BY <1>4 DEF SameBut, PollerFields
<1>7. PollerType(q)
  BY <1>2, <1>4, <1>5, <1>6 DEF PollerOK, PollerType
<1>8. CanPoll(q) = CanPoll(p)
  BY <1>6 DEF CanPoll
<1>9. ReadsCurrent(q)
  <2> SUFFICES ASSUME NEW r \in reads, r.live
               PROVE  /\ r.org \in p.tracked /\ r.key = p.credential /\ CanPoll(p)
                      /\ \A s \in reads : s.live /\ s.org = r.org => s = r
    BY <1>5, <1>6, <1>8 DEF ReadsCurrent
  <2>1. CASE r \in asked
    BY <1>2, <2>1 DEF Held
  <2>2. CASE r \in p.reads
    BY <1>2, <2>2 DEF Held, PollerOK, ReadsCurrent
  <2> QED
    BY <2>1, <2>2
<1> QED
  BY <1>1, <1>4, <1>6, <1>7, <1>9 DEF PollerOK

LEMMA EndedOK ==
    ASSUME NEW p, PollerOK(p), NEW r
    PROVE  PollerOK(Ended(p, r)) /\ SameBut(p, Ended(p, r), {"reads"})
<1> DEFINE reads == p.reads \ {r}
           q == [p EXCEPT !.reads = reads]
<1>1. Ended(p, r) = q
  BY DEF Ended
<1>2. IsPoller(p) /\ reads \subseteq p.reads
  BY DEF PollerOK, PollerType
<1> HIDE DEF reads
<1>3. IsPoller(q) /\ SameBut(p, q, {"reads"})
  BY <1>2, Zenon DEF IsPoller, SameBut
<1>4. q.reads = reads
  BY <1>2, SMT DEF IsPoller, PollerFields
<1> HIDE DEF q
<1>5. /\ q.credential = p.credential /\ q.expired = p.expired /\ q.refused = p.refused
      /\ q.running = p.running /\ q.suspended = p.suspended /\ q.remote = p.remote
      /\ q.tracked = p.tracked /\ q.batch = p.batch /\ q.timer = p.timer
  BY <1>3 DEF SameBut, PollerFields
<1>6. PollerType(q)
  BY <1>2, <1>3, <1>4, <1>5 DEF PollerOK, PollerType
<1>7. CanPoll(q) = CanPoll(p)
  BY <1>5 DEF CanPoll
<1>8. ReadsCurrent(q)
  BY <1>2, <1>4, <1>5, <1>7 DEF PollerOK, ReadsCurrent
<1> QED
  BY <1>1, <1>3, <1>5, <1>6, <1>8 DEF PollerOK

LEMMA PolledOnceOK ==
    ASSUME NEW p, PollerOK(p)
    PROVE  /\ PollerOK(PolledOnce(p)) /\ StepArmed(PolledOnce(p))
           /\ SameBut(p, PolledOnce(p), {"timer", "batch", "reads"})
<1> DEFINE q == [p EXCEPT !.timer = FALSE, !.batch = TRUE]
<1>1. CASE ~CanPoll(p) \/ p.batch
  BY <1>1, Zenon DEF PolledOnce, StepArmed, SameBut
<1>2. CASE CanPoll(p) /\ ~p.batch
  <2>1. PolledOnce(p) = Asked(q, p.tracked) /\ IsPoller(p)
    BY <1>2 DEF PolledOnce, PollerOK, PollerType
  <2>2. IsPoller(q) /\ SameBut(p, q, {"timer", "batch"})
    BY <2>1, Zenon DEF IsPoller, SameBut
  <2>3. q.timer = FALSE /\ q.batch = TRUE
    BY <2>1, SMT DEF IsPoller, PollerFields
  <2> HIDE DEF q
  <2>4. /\ q.credential = p.credential /\ q.expired = p.expired /\ q.refused = p.refused
        /\ q.running = p.running /\ q.suspended = p.suspended /\ q.remote = p.remote
        /\ q.tracked = p.tracked /\ q.reads = p.reads
    BY <2>2 DEF SameBut, PollerFields
  <2>5. PollerType(q)
    BY <2>2, <2>3, <2>4 DEF PollerOK, PollerType
  <2>6. ReadsCurrent(q)
    BY <2>4, ReadsAsBefore DEF PollerOK, CanPoll
  <2>7. PollerOK(q)
    BY <2>3, <2>4, <2>5, <2>6 DEF PollerOK
  <2>8. PollerOK(Asked(q, q.tracked)) /\ SameBut(q, Asked(q, q.tracked), {"reads"})
    BY <2>7, AskedOK
  <2>9. PolledOnce(p) = Asked(q, q.tracked)
    BY <2>1, <2>4
  <2>10. PolledOnce(p).batch = TRUE /\ SameBut(p, PolledOnce(p), {"timer", "batch", "reads"})
    BY <2>2, <2>3, <2>8, <2>9 DEF SameBut, PollerFields
  <2> QED
    BY <2>8, <2>9, <2>10 DEF StepArmed
<1> QED
  BY <1>1, <1>2, CanPollIsBoolean

\* Nothing of an earlier epoch lands: a fenced poller is asked for nothing.
LEMMA FencedOK ==
    ASSUME NEW p, PollerType(p), p.expired => p.refused = p.credential
    PROVE  PollerOK(Fenced(p))
<1> DEFINE q == Fenced(p)
<1>1. /\ PollerType(q) /\ SameBut(p, q, {"timer", "batch", "reads"})
      /\ q.timer = FALSE /\ q.batch = FALSE /\ \A r \in q.reads : ~r.live
  BY FencedIs
<1> HIDE DEF q
<1>2. q.expired = p.expired /\ q.refused = p.refused /\ q.credential = p.credential
  BY <1>1 DEF SameBut, PollerFields
<1> QED
  BY <1>1, <1>2 DEF PollerOK, ReadsCurrent, q

LEMMA SetCredentialOK ==
    ASSUME NEW p, PollerType(p), NEW k \in AccessKeys \cup {NULL}
    PROVE  LET q == SetCredential(p, k)
           IN  /\ PollerOK(q) /\ StepArmed(q) /\ q.credential = k /\ q.expired = FALSE
               /\ q.running = p.running /\ q.suspended = p.suspended /\ q.remote = p.remote
               /\ q.tracked = p.tracked
<1> DEFINE f == Fenced(p)
           q == [f EXCEPT !.credential = k, !.expired = FALSE, !.refused = NULL]
<1>1. SetCredential(p, k) = Scheduled(q)
  BY DEF SetCredential
<1>2. /\ PollerType(f) /\ SameBut(p, f, {"timer", "batch", "reads"})
      /\ f.timer = FALSE /\ f.batch = FALSE /\ \A r \in f.reads : ~r.live
  BY FencedIs
<1> HIDE DEF f
<1>3. IsPoller(f)
  BY <1>2 DEF PollerType
<1>4. IsPoller(q) /\ SameBut(f, q, {"credential", "expired", "refused"})
  BY <1>3, Zenon DEF IsPoller, SameBut
<1>5. q.credential = k /\ q.expired = FALSE /\ q.refused = NULL
  BY <1>3, SMT DEF IsPoller, PollerFields
<1> HIDE DEF q
<1>6. /\ f.running = p.running /\ f.suspended = p.suspended /\ f.remote = p.remote
      /\ f.tracked = p.tracked
  BY <1>2 DEF SameBut, PollerFields
<1>7. /\ q.running = f.running /\ q.suspended = f.suspended /\ q.remote = f.remote
      /\ q.tracked = f.tracked /\ q.timer = f.timer /\ q.batch = f.batch /\ q.reads = f.reads
  BY <1>4 DEF SameBut, PollerFields
<1>8. PollerType(q)
  BY <1>2, <1>4, <1>5, <1>7 DEF PollerType
<1>9. PollerOK(q)
  BY <1>2, <1>5, <1>7, <1>8 DEF PollerOK, ReadsCurrent
<1>10. /\ PollerOK(Scheduled(q)) /\ StepArmed(Scheduled(q))
       /\ SameBut(q, Scheduled(q), {"timer"})
  BY <1>9, ScheduledOK
<1> QED
  BY <1>1, <1>5, <1>6, <1>7, <1>10 DEF SameBut, PollerFields

LEMMA ExpiredOK ==
    ASSUME NEW p, PollerOK(p), StepArmed(p), NEW key, key = p.credential
    PROVE  LET q == Expired(p, key)
           IN  /\ PollerOK(q) /\ StepArmed(q) /\ q.credential = p.credential
               /\ q.expired \/ p.credential = NULL
               /\ q.running = p.running /\ q.suspended = p.suspended /\ q.remote = p.remote
               /\ q.tracked = p.tracked
<1>1. CASE p.credential = NULL \/ p.expired
  BY <1>1 DEF Expired
<1>2. CASE p.credential # NULL /\ ~p.expired
  <2> DEFINE e == [p EXCEPT !.expired = TRUE, !.refused = key]
  <2>1. Expired(p, key) = Fenced(e) /\ IsPoller(p) /\ key \in AccessKeys \cup {NULL}
    BY <1>2 DEF Expired, PollerOK, PollerType
  <2>2. IsPoller(e) /\ SameBut(p, e, {"expired", "refused"})
    BY <2>1, Zenon DEF IsPoller, SameBut
  <2>3. e.expired = TRUE /\ e.refused = key
    BY <2>1, SMT DEF IsPoller, PollerFields
  <2> HIDE DEF e
  <2>4. /\ e.credential = p.credential
        /\ e.running = p.running /\ e.suspended = p.suspended /\ e.remote = p.remote
        /\ e.tracked = p.tracked /\ e.timer = p.timer /\ e.batch = p.batch /\ e.reads = p.reads
    BY <2>2 DEF SameBut, PollerFields
  <2>5. PollerType(e)
    BY <2>1, <2>2, <2>3, <2>4 DEF PollerOK, PollerType
  <2>6. PollerOK(Fenced(e)) /\ SameBut(e, Fenced(e), {"timer", "batch", "reads"})
    BY <2>3, <2>4, <2>5, FencedOK, FencedIs
  <2>7. /\ Fenced(e).expired = TRUE /\ Fenced(e).credential = p.credential
        /\ Fenced(e).running = p.running /\ Fenced(e).suspended = p.suspended
        /\ Fenced(e).remote = p.remote /\ Fenced(e).tracked = p.tracked
    BY <2>3, <2>4, <2>6 DEF SameBut, PollerFields
  <2>8. StepArmed(Fenced(e))
    BY <2>7 DEF StepArmed, CanPoll
  <2> QED
    BY <2>1, <2>6, <2>7, <2>8
<1>3. p.expired \in BOOLEAN
  BY DEF PollerOK, PollerType
<1> QED
  BY <1>1, <1>2, <1>3

LEMMA TrackedOK ==
    ASSUME NEW p, PollerOK(p), StepArmed(p), NEW os \in SUBSET Organizations
    PROVE  LET q == Tracked(p, os)
           IN  /\ PollerOK(q) /\ StepArmed(q) /\ q.tracked = os
               /\ q.credential = p.credential /\ q.expired = p.expired
               /\ q.running = p.running /\ q.suspended = p.suspended /\ q.remote = p.remote
<1>1. CASE os = p.tracked
  BY <1>1 DEF Tracked
<1>2. CASE os # p.tracked
  <2> DEFINE f == Fenced(p)
             q == [f EXCEPT !.tracked = os]
  <2>1. Tracked(p, os) = PolledOnce(q)
    BY <1>2 DEF Tracked
  <2>2. /\ PollerOK(f) /\ PollerType(f) /\ SameBut(p, f, {"timer", "batch", "reads"})
        /\ f.timer = FALSE /\ f.batch = FALSE /\ \A r \in f.reads : ~r.live
    BY FencedIs, FencedOK DEF PollerOK
  <2> HIDE DEF f
  <2>3. IsPoller(f)
    BY <2>2 DEF PollerType
  <2>4. IsPoller(q) /\ SameBut(f, q, {"tracked"})
    BY <2>3, Zenon DEF IsPoller, SameBut
  <2>5. q.tracked = os
    BY <2>3, SMT DEF IsPoller, PollerFields
  <2> HIDE DEF q
  <2>6. /\ q.credential = f.credential /\ q.expired = f.expired /\ q.refused = f.refused
        /\ q.running = f.running /\ q.suspended = f.suspended /\ q.remote = f.remote
        /\ q.timer = f.timer /\ q.batch = f.batch /\ q.reads = f.reads
    BY <2>4 DEF SameBut, PollerFields
  <2>7. /\ f.credential = p.credential /\ f.expired = p.expired
        /\ f.running = p.running /\ f.suspended = p.suspended /\ f.remote = p.remote
    BY <2>2 DEF SameBut, PollerFields
  <2>8. PollerType(q)
    BY <2>2, <2>4, <2>5, <2>6 DEF PollerType
  <2>9. PollerOK(q)
    BY <2>2, <2>6, <2>8 DEF PollerOK, ReadsCurrent
  <2>10. /\ PollerOK(PolledOnce(q)) /\ StepArmed(PolledOnce(q))
         /\ SameBut(q, PolledOnce(q), {"timer", "batch", "reads"})
    BY <2>9, PolledOnceOK
  <2> QED
    BY <2>1, <2>5, <2>6, <2>7, <2>10 DEF SameBut, PollerFields
<1> QED
  BY <1>1, <1>2

LEMMA RemoteOnOK ==
    ASSUME NEW p, PollerOK(p)
    PROVE  LET q == Remote(p, TRUE)
           IN  /\ PollerOK(q) /\ StepArmed(q) /\ q.remote = TRUE
               /\ q.running = p.running /\ q.suspended = p.suspended
<1> DEFINE e == [p EXCEPT !.remote = TRUE]
<1>1. Remote(p, TRUE) = Fenced(e) /\ IsPoller(p)
  BY DEF Remote, PollerOK, PollerType
<1>2. IsPoller(e) /\ SameBut(p, e, {"remote"})
  BY <1>1, Zenon DEF IsPoller, SameBut
<1>3. e.remote = TRUE
  BY <1>1, SMT DEF IsPoller, PollerFields
<1> HIDE DEF e
<1>4. /\ e.credential = p.credential /\ e.expired = p.expired /\ e.refused = p.refused
      /\ e.running = p.running /\ e.suspended = p.suspended
      /\ e.tracked = p.tracked /\ e.timer = p.timer /\ e.batch = p.batch /\ e.reads = p.reads
  BY <1>2 DEF SameBut, PollerFields
<1>5. PollerType(e)
  BY <1>2, <1>3, <1>4 DEF PollerOK, PollerType
<1>6. PollerOK(Fenced(e)) /\ SameBut(e, Fenced(e), {"timer", "batch", "reads"})
  BY <1>4, <1>5, FencedOK, FencedIs DEF PollerOK
<1>7. /\ Fenced(e).remote = TRUE /\ Fenced(e).running = p.running
      /\ Fenced(e).suspended = p.suspended
  BY <1>3, <1>4, <1>6 DEF SameBut, PollerFields
<1> QED
  BY <1>1, <1>6, <1>7 DEF StepArmed, CanPoll

LEMMA RemoteOffOK ==
    ASSUME NEW p, PollerOK(p)
    PROVE  LET q == Remote(p, FALSE)
           IN  /\ PollerOK(q) /\ SameBut(p, q, {"remote"}) /\ q.remote = FALSE
<1> DEFINE q == [p EXCEPT !.remote = FALSE]
<1>1. Remote(p, FALSE) = q /\ IsPoller(p)
  BY DEF Remote, PollerOK, PollerType
<1>2. IsPoller(q) /\ SameBut(p, q, {"remote"})
  BY <1>1, Zenon DEF IsPoller, SameBut
<1>3. q.remote = FALSE
  BY <1>1, SMT DEF IsPoller, PollerFields
<1> HIDE DEF q
<1>4. /\ q.credential = p.credential /\ q.expired = p.expired /\ q.refused = p.refused
      /\ q.running = p.running /\ q.suspended = p.suspended
      /\ q.tracked = p.tracked /\ q.timer = p.timer /\ q.batch = p.batch /\ q.reads = p.reads
  BY <1>2 DEF SameBut, PollerFields
<1>5. PollerType(q)
  BY <1>2, <1>3, <1>4 DEF PollerOK, PollerType
<1>6. ReadsCurrent(q)
  BY <1>3, <1>4, ReadsAsBefore DEF PollerOK, CanPoll
<1> QED
  BY <1>1, <1>2, <1>3, <1>4, <1>5, <1>6 DEF PollerOK

LEMMA StartedOK ==
    ASSUME NEW p, PollerOK(p), p.running /\ ~p.suspended => StepArmed(p)
    PROVE  LET q == Started(p)
           IN  /\ PollerOK(q) /\ StepArmed(q) /\ q.running = TRUE /\ q.suspended = FALSE
               /\ q.remote = p.remote /\ q.credential = p.credential
               /\ q.tracked = p.tracked /\ q.expired = p.expired
<1>1. p.running \in BOOLEAN /\ p.suspended \in BOOLEAN /\ IsPoller(p)
  BY DEF PollerOK, PollerType
<1>2. CASE p.running /\ ~p.suspended
  <2>1. Started(p) = p
    BY <1>2 DEF Started
  <2> QED
    BY <1>1, <1>2, <2>1
<1>3. CASE ~(p.running /\ ~p.suspended)
  <2> DEFINE e == [p EXCEPT !.running = TRUE, !.suspended = FALSE]
  <2>1. Started(p) = Scheduled(e)
    BY <1>3 DEF Started
  <2>2. IsPoller(e) /\ SameBut(p, e, {"running", "suspended"})
    BY <1>1, Zenon DEF IsPoller, SameBut
  <2>3. e.running = TRUE /\ e.suspended = FALSE
    BY <1>1, SMT DEF IsPoller, PollerFields
  <2> HIDE DEF e
  <2>4. /\ e.credential = p.credential /\ e.expired = p.expired /\ e.refused = p.refused
        /\ e.remote = p.remote
        /\ e.tracked = p.tracked /\ e.timer = p.timer /\ e.batch = p.batch /\ e.reads = p.reads
    BY <2>2 DEF SameBut, PollerFields
  <2>5. PollerType(e)
    BY <2>2, <2>3, <2>4 DEF PollerOK, PollerType
  <2>6. ReadsCurrent(e)
    BY <2>3, <2>4, ReadsAsBefore DEF PollerOK, CanPoll
  <2>7. PollerOK(e)
    BY <2>4, <2>5, <2>6 DEF PollerOK
  <2>8. /\ PollerOK(Scheduled(e)) /\ StepArmed(Scheduled(e))
        /\ SameBut(e, Scheduled(e), {"timer"})
    BY <2>7, ScheduledOK
  <2> QED
    BY <2>1, <2>3, <2>4, <2>8 DEF SameBut, PollerFields
<1> QED
  BY <1>1, <1>2, <1>3

LEMMA StoppedOK ==
    ASSUME NEW p, PollerOK(p)
    PROVE  LET q == Stopped(p)
           IN  PollerOK(q) /\ q.running = FALSE /\ q.suspended = TRUE
<1> DEFINE e == [p EXCEPT !.running = FALSE, !.suspended = TRUE]
<1>1. Stopped(p) = Fenced(e) /\ IsPoller(p)
  BY DEF Stopped, PollerOK, PollerType
<1>2. IsPoller(e) /\ SameBut(p, e, {"running", "suspended"})
  BY <1>1, Zenon DEF IsPoller, SameBut
<1>3. e.running = FALSE /\ e.suspended = TRUE
  BY <1>1, SMT DEF IsPoller, PollerFields
<1> HIDE DEF e
<1>4. /\ e.credential = p.credential /\ e.expired = p.expired /\ e.refused = p.refused
      /\ e.remote = p.remote
      /\ e.tracked = p.tracked /\ e.timer = p.timer /\ e.batch = p.batch /\ e.reads = p.reads
  BY <1>2 DEF SameBut, PollerFields
<1>5. PollerType(e)
  BY <1>2, <1>3, <1>4 DEF PollerOK, PollerType
<1>6. PollerOK(Fenced(e)) /\ SameBut(e, Fenced(e), {"timer", "batch", "reads"})
  BY <1>4, <1>5, FencedOK, FencedIs DEF PollerOK
<1>7. Fenced(e).running = FALSE /\ Fenced(e).suspended = TRUE
  BY <1>3, <1>6 DEF SameBut, PollerFields
<1> QED
  BY <1>1, <1>6, <1>7

-------------------------------------------------------------------------------
(* What the poller does by itself *)

\* What only the calls of the poller's owner change.
SameOwner(p, q) ==
    /\ q.credential = p.credential /\ q.running = p.running /\ q.suspended = p.suspended
    /\ q.remote = p.remote /\ q.tracked = p.tracked

LEMMA ReadEndsOK ==
    ASSUME PollerOK(poller), StepArmed(poller), NEW r \in poller.reads, ReadEnds(r)
    PROVE  PollerOK(poller') /\ StepArmed(poller') /\ SameOwner(poller, poller')
           /\ (poller.expired => poller'.expired)
<1> DEFINE p == Ended(poller, r)
<1>1. PollerOK(p) /\ SameBut(poller, p, {"reads"})
  BY EndedOK
<1> HIDE DEF p
<1>2. /\ p.credential = poller.credential /\ p.running = poller.running
      /\ p.suspended = poller.suspended /\ p.remote = poller.remote
      /\ p.tracked = poller.tracked /\ p.expired = poller.expired
      /\ p.timer = poller.timer /\ p.batch = poller.batch
  BY <1>1 DEF SameBut, PollerFields
<1>3. StepArmed(p) /\ SameOwner(poller, p)
  BY <1>2 DEF StepArmed, SameOwner, CanPoll
<1>4. CASE poller' = p
  BY <1>1, <1>2, <1>3, <1>4
<1>5. CASE poller' = Scheduled(p)
  <2>1. PollerOK(Scheduled(p)) /\ StepArmed(Scheduled(p)) /\ SameBut(p, Scheduled(p), {"timer"})
    BY <1>1, ScheduledOK
  <2> QED
    BY <1>2, <1>5, <2>1 DEF SameBut, PollerFields, SameOwner
<1>6. CASE Lands(poller, r) /\ poller' = Expired(p, r.key)
  <2>1. r.key = p.credential
    BY <1>2, <1>6 DEF Lands, PollerOK, ReadsCurrent
  <2>2. LET q == Expired(p, r.key)
        IN  /\ PollerOK(q) /\ StepArmed(q) /\ q.credential = p.credential
            /\ q.expired \/ p.credential = NULL
            /\ q.running = p.running /\ q.suspended = p.suspended /\ q.remote = p.remote
            /\ q.tracked = p.tracked
    BY <1>1, <1>3, <2>1, ExpiredOK
  <2>3. p.credential = NULL => Expired(p, r.key) = p
    BY DEF Expired
  <2> QED
    BY <1>2, <1>6, <2>2, <2>3 DEF SameOwner
<1> QED
  BY <1>4, <1>5, <1>6 DEF ReadEnds, p

LEMMA BatchEndsOK ==
    ASSUME PollerOK(poller), BatchEnds
    PROVE  PollerOK(poller') /\ StepArmed(poller') /\ SameOwner(poller, poller')
           /\ poller'.expired = poller.expired
<1> DEFINE p == [poller EXCEPT !.batch = FALSE]
<1>1. poller' = Scheduled(p) /\ IsPoller(poller)
  BY DEF BatchEnds, AfterBatch, PollerOK, PollerType
<1>2. IsPoller(p) /\ SameBut(poller, p, {"batch"})
  BY <1>1, Zenon DEF IsPoller, SameBut
<1>3. p.batch = FALSE
  BY <1>1, SMT DEF IsPoller, PollerFields
<1> HIDE DEF p
<1>4. /\ p.credential = poller.credential /\ p.expired = poller.expired
      /\ p.refused = poller.refused /\ p.running = poller.running
      /\ p.suspended = poller.suspended /\ p.remote = poller.remote
      /\ p.tracked = poller.tracked /\ p.timer = poller.timer /\ p.reads = poller.reads
  BY <1>2 DEF SameBut, PollerFields
<1>5. PollerType(p)
  BY <1>2, <1>3, <1>4 DEF PollerOK, PollerType
<1>6. ReadsCurrent(p)
  BY <1>4, ReadsAsBefore DEF PollerOK, CanPoll
<1>7. PollerOK(p)
  BY <1>3, <1>4, <1>5, <1>6 DEF PollerOK
<1>8. PollerOK(Scheduled(p)) /\ StepArmed(Scheduled(p)) /\ SameBut(p, Scheduled(p), {"timer"})
  BY <1>7, ScheduledOK
<1> QED
  BY <1>1, <1>4, <1>8 DEF SameBut, PollerFields, SameOwner

LEMMA TimerFiresOK ==
    ASSUME PollerOK(poller), NEW due \in SUBSET poller.tracked, TimerFires(due)
    PROVE  PollerOK(poller') /\ StepArmed(poller') /\ SameOwner(poller, poller')
           /\ poller'.expired = poller.expired
<1> DEFINE p == [poller EXCEPT !.timer = FALSE]
           a == Asked(p, due)
<1>1. poller' = Scheduled(a) /\ IsPoller(poller)
  BY DEF TimerFires, PollerOK, PollerType
<1>2. IsPoller(p) /\ SameBut(poller, p, {"timer"})
  BY <1>1, Zenon DEF IsPoller, SameBut
<1>3. p.timer = FALSE
  BY <1>1, SMT DEF IsPoller, PollerFields
<1> HIDE DEF p
<1>4. /\ p.credential = poller.credential /\ p.expired = poller.expired
      /\ p.refused = poller.refused /\ p.running = poller.running
      /\ p.suspended = poller.suspended /\ p.remote = poller.remote
      /\ p.tracked = poller.tracked /\ p.batch = poller.batch /\ p.reads = poller.reads
  BY <1>2 DEF SameBut, PollerFields
<1>5. PollerType(p)
  BY <1>2, <1>3, <1>4 DEF PollerOK, PollerType
<1>6. ReadsCurrent(p)
  BY <1>4, ReadsAsBefore DEF PollerOK, CanPoll
<1>7. PollerOK(p) /\ due \in SUBSET p.tracked
  BY <1>3, <1>4, <1>5, <1>6 DEF PollerOK
<1>8. PollerOK(a) /\ SameBut(p, a, {"reads"})
  BY <1>7, AskedOK
<1> HIDE DEF a
<1>9. PollerOK(Scheduled(a)) /\ StepArmed(Scheduled(a)) /\ SameBut(a, Scheduled(a), {"timer"})
  BY <1>8, ScheduledOK
<1> QED
  BY <1>1, <1>4, <1>8, <1>9 DEF SameBut, PollerFields, SameOwner

LEMMA PollerStepsOK ==
    ASSUME PollerOK(poller), StepArmed(poller), PollerSteps
    PROVE  PollerOK(poller') /\ StepArmed(poller') /\ SameOwner(poller, poller')
           /\ (poller.expired => poller'.expired)
BY ReadEndsOK, BatchEndsOK, TimerFiresOK DEF PollerSteps

LEMMA NewOK == PollerOK(New) /\ StepArmed(New)
<1>1. IsPoller(New)
  BY DEF IsPoller, PollerFields, New
<1> QED
  BY <1>1 DEF PollerOK, PollerType, ReadsCurrent, StepArmed, New

-------------------------------------------------------------------------------
(* A client *)

\* While the Hub polls, the client's poller is stopped and shows the Hub's
\* answers; while it does not, the poller runs.
ClientInv ==
    /\ PollerOK(poller) /\ StepArmed(poller) /\ onHub \in BOOLEAN
    /\ poller.remote = onHub /\ poller.suspended = onHub /\ poller.running = ~onHub

LEMMA ClientInit ==
    ASSUME Init
    PROVE  ClientInv
<1>1. PICK os \in SUBSET Organizations : poller = Started(Tracked(New, os))
  BY DEF Init
<1> DEFINE p == Tracked(New, os)
<1>2. PollerOK(p) /\ StepArmed(p) /\ p.remote = New.remote
  BY NewOK, TrackedOK
<1> HIDE DEF p
<1>3. LET q == Started(p)
      IN  /\ PollerOK(q) /\ StepArmed(q) /\ q.running = TRUE /\ q.suspended = FALSE
          /\ q.remote = p.remote
  BY <1>2, StartedOK
<1>4. New.remote = FALSE
  BY DEF New
<1> QED
  BY <1>1, <1>2, <1>3, <1>4 DEF Init, ClientInv, p

LEMMA CredentialKeeps ==
    ASSUME ClientInv, NEW k \in AccessKeys \cup {NULL}, Credential(k)
    PROVE  ClientInv'
<1> DEFINE p == SetCredential(poller, k)
<1>1. PollerType(poller)
  BY DEF ClientInv, PollerOK
<1>2. /\ PollerOK(p) /\ StepArmed(p) /\ p.running = poller.running
      /\ p.suspended = poller.suspended /\ p.remote = poller.remote
  BY <1>1, SetCredentialOK
<1>3. (poller' = p \/ poller' = PolledOnce(p)) /\ onHub' = onHub
  BY DEF Credential
<1> HIDE DEF p
<1>4. /\ PollerOK(PolledOnce(p)) /\ StepArmed(PolledOnce(p))
      /\ SameBut(p, PolledOnce(p), {"timer", "batch", "reads"})
  BY <1>2, PolledOnceOK
<1> QED
  BY <1>2, <1>3, <1>4 DEF ClientInv, SameBut, PollerFields

LEMMA TrackKeeps ==
    ASSUME ClientInv, NEW os \in SUBSET Organizations, Track(os)
    PROVE  ClientInv'
<1>1. LET q == Tracked(poller, os)
      IN  /\ PollerOK(q) /\ StepArmed(q)
          /\ q.running = poller.running /\ q.suspended = poller.suspended
          /\ q.remote = poller.remote
  BY TrackedOK DEF ClientInv
<1> QED
  BY <1>1 DEF ClientInv, Track

LEMMA HandOverKeeps ==
    ASSUME ClientInv, HandOver
    PROVE  ClientInv'
<1>1. CASE onHub
  <2>1. LET q == Remote(poller, TRUE)
        IN  /\ PollerOK(q) /\ StepArmed(q) /\ q.remote = TRUE
            /\ q.running = poller.running /\ q.suspended = poller.suspended
    BY RemoteOnOK DEF ClientInv
  <2> QED
    BY <1>1, <2>1 DEF ClientInv, HandOver
<1>2. CASE ~onHub
  <2> DEFINE p == Stopped(poller)
  <2>1. PollerOK(p) /\ p.running = FALSE /\ p.suspended = TRUE
    BY StoppedOK DEF ClientInv
  <2>2. poller' = Remote(p, TRUE) /\ onHub' = TRUE
    BY <1>2 DEF HandOver, HandedOver
  <2> HIDE DEF p
  <2>3. LET q == Remote(p, TRUE)
        IN  /\ PollerOK(q) /\ StepArmed(q) /\ q.remote = TRUE
            /\ q.running = p.running /\ q.suspended = p.suspended
    BY <2>1, RemoteOnOK
  <2> QED
    BY <2>1, <2>2, <2>3 DEF ClientInv
<1> QED
  BY <1>1, <1>2 DEF ClientInv

LEMMA TakeBackKeeps ==
    ASSUME ClientInv, NEW fell \in BOOLEAN, TakeBack(fell)
    PROVE  ClientInv'
<1> DEFINE p == Remote(poller, FALSE)
           q == Started(p)
<1>1. PollerOK(p) /\ SameBut(poller, p, {"remote"}) /\ p.remote = FALSE
  BY RemoteOffOK DEF ClientInv
<1>2. (poller' = q \/ poller' = PolledOnce(q)) /\ onHub' = FALSE
  BY DEF TakeBack
<1> HIDE DEF p
<1>3. p.running /\ ~p.suspended => StepArmed(p)
  <2>1. /\ p.credential = poller.credential /\ p.expired = poller.expired
        /\ p.running = poller.running /\ p.suspended = poller.suspended
        /\ p.tracked = poller.tracked /\ p.timer = poller.timer /\ p.batch = poller.batch
    BY <1>1 DEF SameBut, PollerFields
  <2> QED
    BY <1>1, <2>1 DEF ClientInv, StepArmed, CanPoll
<1>4. /\ PollerOK(q) /\ StepArmed(q) /\ q.running = TRUE /\ q.suspended = FALSE
      /\ q.remote = p.remote
  BY <1>1, <1>3, StartedOK
<1> HIDE DEF q
<1>5. /\ PollerOK(PolledOnce(q)) /\ StepArmed(PolledOnce(q))
      /\ SameBut(q, PolledOnce(q), {"timer", "batch", "reads"})
  BY <1>4, PolledOnceOK
<1> QED
  BY <1>1, <1>2, <1>4, <1>5 DEF ClientInv, SameBut, PollerFields

LEMMA ClientStep ==
    ASSUME ClientInv, [Next]_pollerVars
    PROVE  ClientInv'
<1>1. CASE PollerSteps /\ UNCHANGED onHub
  <2>1. PollerOK(poller') /\ StepArmed(poller') /\ SameOwner(poller, poller')
    BY <1>1, PollerStepsOK DEF ClientInv
  <2> QED
    BY <1>1, <2>1 DEF ClientInv, SameOwner
<1>2. ASSUME NEW k \in AccessKeys \cup {NULL}, Credential(k) PROVE ClientInv'
  BY <1>2, CredentialKeeps
<1>3. ASSUME NEW os \in SUBSET Organizations, Track(os) PROVE ClientInv'
  BY <1>3, TrackKeeps
<1>4. CASE HandOver
  BY <1>4, HandOverKeeps
<1>5. ASSUME NEW fell \in BOOLEAN, TakeBack(fell) PROVE ClientInv'
  BY <1>5, TakeBackKeeps
<1>6. CASE UNCHANGED pollerVars
  BY <1>6 DEF ClientInv, pollerVars
<1> QED
  BY <1>1, <1>2, <1>3, <1>4, <1>5, <1>6 DEF Next

\* What an owner's invariant says of its poller.
LEMMA PollerOKIs ==
    ASSUME PollerOK(poller), StepArmed(poller)
    PROVE  PollingHolds
BY DEF PollerOK, PollerType, ReadsCurrent, StepArmed, PollingHolds, UsagePollerTypeOK,
       LandsCurrent, NeverIdle, RefusedIsTheKey

\* A client's poller, over any number of Organizations, keys and reads: it and
\* the Hub never poll both, and every read in flight that counts was asked by
\* who polls now, with the present key, of a tracked Organization, once
\* (`fence`, `pollOrganization` and `schedule` of poller.ts).
THEOREM ClientInvariant == Spec => []ClientInv
<1>1. ClientInv /\ [Next]_pollerVars => ClientInv'
  BY ClientStep
<1> QED
  BY <1>1, ClientInit, PTL DEF Spec

\* What may still land was asked with the key and by the process that poll
\* now, polling that is on has its next step armed, and only a refused key is
\* shown as expired (poller.ts:201-248).
THEOREM PollingHoldsAlways == Spec => []PollingHolds
<1>1. ClientInv => PollingHolds
  BY PollerOKIs DEF ClientInv
<1> QED
  BY <1>1, ClientInvariant, PTL

-------------------------------------------------------------------------------
(* The Hub *)

\* The Hub's poller runs, and is the one that polls.
HubPolls == poller.running = TRUE /\ poller.suspended = FALSE /\ poller.remote = FALSE

\* A listing is of the key the poller holds, or is superseded; one at most is
\* not, and then the timer is off.
ListingsOK ==
    /\ \A l \in listings :
          /\ l = [key |-> l.key, live |-> l.live, post |-> l.post]
          /\ l.key \in AccessKeys /\ l.key # NULL /\ l.live \in BOOLEAN
          /\ l.live => l.key = poller.credential /\ next = NULL
    /\ \A l, m \in listings : l.live /\ m.live => l = m

\* The timer lists with the poller's key; one that lists with none has been
\* refused its own.
TimerOK ==
    /\ next # NULL => next = poller.credential
    /\ poller.credential # NULL /\ ~poller.expired =>
          next # NULL \/ \E l \in listings : l.live

HubInv ==
    /\ PollerOK(poller) /\ StepArmed(poller) /\ HubPolls
    /\ {next, stored} \cup posts \subseteq AccessKeys \cup {NULL}
    /\ roster \subseteq Organizations
    /\ keyed = poller.credential
    /\ poller.credential = NULL => poller.tracked = {}
    /\ ListingsOK /\ TimerOK

\* What a Hub's start makes of the stored key and the roster.
LEMMA BootOK ==
    ASSUME NEW k \in AccessKeys \cup {NULL}, NEW os \in SUBSET Organizations
    PROVE  LET p == BootWith(k, os)
           IN  /\ PollerOK(p) /\ StepArmed(p) /\ p.running = TRUE /\ p.suspended = FALSE
               /\ p.remote = FALSE /\ p.credential = k /\ p.expired = FALSE
               /\ k = NULL => p.tracked = {}
<1>1. /\ New.remote = FALSE /\ New.credential = NULL /\ New.expired = FALSE
      /\ New.running = FALSE /\ New.tracked = {}
  BY DEF New
<1>2. CASE k = NULL
  <2>1. LET q == Started(New)
        IN  /\ PollerOK(q) /\ StepArmed(q) /\ q.running = TRUE /\ q.suspended = FALSE
            /\ q.remote = New.remote /\ q.credential = New.credential
            /\ q.tracked = New.tracked /\ q.expired = New.expired
    BY NewOK, StartedOK
  <2> QED
    BY <1>1, <1>2, <2>1 DEF BootWith
<1>3. CASE k # NULL
  <2> DEFINE c == SetCredential(New, k)
             t == Tracked(c, os)
  <2>1. PollerType(New)
    BY NewOK DEF PollerOK
  <2>2. /\ PollerOK(c) /\ StepArmed(c) /\ c.credential = k /\ c.expired = FALSE
        /\ c.running = New.running /\ c.remote = New.remote
    BY <2>1, SetCredentialOK
  <2> HIDE DEF c
  <2>3. /\ PollerOK(t) /\ StepArmed(t) /\ t.credential = c.credential /\ t.expired = c.expired
        /\ t.remote = c.remote
    BY <2>2, TrackedOK
  <2> HIDE DEF t
  <2>4. LET q == Started(t)
        IN  /\ PollerOK(q) /\ StepArmed(q) /\ q.running = TRUE /\ q.suspended = FALSE
            /\ q.remote = t.remote /\ q.credential = t.credential /\ q.expired = t.expired
    BY <2>3, StartedOK
  <2>5. BootWith(k, os) = Started(t)
    BY <1>3 DEF BootWith, c, t
  <2> QED
    BY <1>1, <1>3, <2>2, <2>3, <2>4, <2>5
<1> QED
  BY <1>2, <1>3

LEMMA HubInitOK ==
    ASSUME PollSetInit
    PROVE  HubInv
<1>1. LET p == BootWith(NULL, {})
      IN  /\ PollerOK(p) /\ StepArmed(p) /\ p.running = TRUE /\ p.suspended = FALSE
          /\ p.remote = FALSE /\ p.credential = NULL /\ p.expired = FALSE
          /\ NULL = NULL => p.tracked = {}
  BY BootOK
<1> QED
  BY <1>1 DEF PollSetInit, HubInv, HubPolls, ListingsOK, TimerOK

\* A later generation supersedes every listing.
LEMMA SupersededIs ==
    ASSUME HubInv
    PROVE  \A l \in Superseded :
              /\ l = [key |-> l.key, live |-> l.live, post |-> l.post]
              /\ l.key \in AccessKeys /\ l.key # NULL /\ l.live = FALSE
<1> SUFFICES ASSUME NEW l \in Superseded
             PROVE  /\ l = [key |-> l.key, live |-> l.live, post |-> l.post]
                    /\ l.key \in AccessKeys /\ l.key # NULL /\ l.live = FALSE
  OBVIOUS
<1>1. PICK m \in listings : l = [m EXCEPT !.live = FALSE]
  BY DEF Superseded
<1>2. m = [key |-> m.key, live |-> m.live, post |-> m.post] /\ m.key \in AccessKeys /\ m.key # NULL
  BY DEF HubInv, ListingsOK
<1> QED
  BY <1>1, <1>2

\* A new generation lists with the key the poller is left with.
LEMMA RefreshOK ==
    ASSUME HubInv, NEW k \in AccessKeys, k # NULL, NEW for \in BOOLEAN, Refresh(k, for),
           poller'.credential = k
    PROVE  ListingsOK' /\ TimerOK' /\ next' \in AccessKeys \cup {NULL} /\ keyed' = poller'.credential
<1> DEFINE new == [key |-> k, live |-> TRUE, post |-> for]
<1>1. /\ listings' = Superseded \cup {new} /\ next' = NULL /\ keyed' = k
  BY DEF Refresh
<1>2. /\ new = [key |-> new.key, live |-> new.live, post |-> new.post]
      /\ new.key = k /\ new.live = TRUE
  OBVIOUS
<1> HIDE DEF new
<1>3. \A l \in Superseded : /\ l = [key |-> l.key, live |-> l.live, post |-> l.post]
                            /\ l.key \in AccessKeys /\ l.key # NULL /\ l.live = FALSE
  BY SupersededIs
<1>4. ListingsOK'
  BY <1>1, <1>2, <1>3 DEF ListingsOK
<1>5. TimerOK'
  BY <1>1, <1>2 DEF TimerOK
<1> QED
  BY <1>1, <1>4, <1>5

LEMMA PersistedKeeps ==
    ASSUME HubInv, NEW k \in AccessKeys \cup {NULL}, Persisted(k)
    PROVE  HubInv'
<1>1. /\ stored' \in AccessKeys \cup {NULL} /\ posts' \subseteq AccessKeys \cup {NULL}
      /\ UNCHANGED <<poller, listings, next, failed, keyed, roster>>
  BY DEF Persisted, setVars, HubInv
<1> QED
  BY <1>1 DEF HubInv, HubPolls, ListingsOK, TimerOK

LEMMA ArmedKeeps ==
    ASSUME HubInv, NEW k \in posts, Armed(k)
    PROVE  HubInv'
<1>1. /\ k \in AccessKeys /\ k # NULL /\ posts' \subseteq posts
      /\ poller' = SetCredential(poller, k) /\ Refresh(k, TRUE) /\ UNCHANGED <<roster, stored>>
  BY DEF Armed, HubInv
<1>2. LET q == SetCredential(poller, k)
      IN  /\ PollerOK(q) /\ StepArmed(q) /\ q.credential = k /\ q.expired = FALSE
          /\ q.running = poller.running /\ q.suspended = poller.suspended
          /\ q.remote = poller.remote /\ q.tracked = poller.tracked
  BY <1>1, SetCredentialOK DEF HubInv, PollerOK
<1>3. poller'.credential = k
  BY <1>1, <1>2
<1>4. ListingsOK' /\ TimerOK' /\ next' \in AccessKeys \cup {NULL} /\ keyed' = poller'.credential
  BY <1>1, <1>3, RefreshOK
<1> QED
  BY <1>1, <1>2, <1>3, <1>4 DEF HubInv, HubPolls

LEMMA DisarmedKeeps ==
    ASSUME HubInv, Disarmed
    PROVE  HubInv'
<1> DEFINE t == Tracked(poller, {})
           q == SetCredential(t, NULL)
<1>1. /\ posts' \subseteq posts /\ listings' = Superseded /\ next' = NULL /\ keyed' = NULL
      /\ poller' = q /\ UNCHANGED <<roster, stored>>
  BY DEF Disarmed, Cleared
<1>2. /\ PollerOK(t) /\ t.tracked = {} /\ t.running = poller.running
      /\ t.suspended = poller.suspended /\ t.remote = poller.remote
  BY TrackedOK DEF HubInv
<1> HIDE DEF t
<1>3. /\ PollerOK(q) /\ StepArmed(q) /\ q.credential = NULL
      /\ q.running = t.running /\ q.suspended = t.suspended /\ q.remote = t.remote
      /\ q.tracked = t.tracked
  <2>1. PollerType(t) /\ NULL \in AccessKeys \cup {NULL}
    BY <1>2 DEF PollerOK
  <2> QED
    BY <2>1, SetCredentialOK
<1> HIDE DEF q
<1>4. \A l \in Superseded : /\ l = [key |-> l.key, live |-> l.live, post |-> l.post]
                            /\ l.key \in AccessKeys /\ l.key # NULL /\ l.live = FALSE
  BY SupersededIs
<1>5. ListingsOK'
  BY <1>1, <1>4 DEF ListingsOK
<1>6. TimerOK'
  BY <1>1, <1>3 DEF TimerOK
<1> QED
  BY <1>1, <1>2, <1>3, <1>5, <1>6 DEF HubInv, HubPolls

\* The answer of a request's own poll.
LEMMA ThenPolledOK ==
    ASSUME NEW l, NEW p, PollerOK(p), StepArmed(p)
    PROVE  LET q == ThenPolled(l, p)
           IN  /\ PollerOK(q) /\ StepArmed(q) /\ SameOwner(p, q) /\ q.expired = p.expired
<1>1. /\ PollerOK(PolledOnce(p)) /\ StepArmed(PolledOnce(p))
      /\ SameBut(p, PolledOnce(p), {"timer", "batch", "reads"})
  BY PolledOnceOK
<1>2. SameOwner(p, PolledOnce(p)) /\ PolledOnce(p).expired = p.expired /\ SameOwner(p, p)
  BY <1>1 DEF SameBut, PollerFields, SameOwner
<1>3. ThenPolled(l, p) = PolledOnce(p) \/ ThenPolled(l, p) = p
  BY DEF ThenPolled
<1> QED
  BY <1>1, <1>2, <1>3

LEMMA ListedLateKeeps ==
    ASSUME HubInv, NEW l \in listings, ListedLate(l)
    PROVE  HubInv'
<1>1. /\ l.live = FALSE /\ listings' = listings \ {l} /\ poller' = ThenPolled(l, poller)
      /\ UNCHANGED <<next, failed, keyed, roster, stored, posts>>
  BY DEF ListedLate, ThenPolled, setVars, HubInv, ListingsOK
<1>2. LET q == ThenPolled(l, poller)
      IN  PollerOK(q) /\ StepArmed(q) /\ SameOwner(poller, q) /\ q.expired = poller.expired
  BY ThenPolledOK DEF HubInv
<1>3. /\ PollerOK(poller') /\ StepArmed(poller') /\ SameOwner(poller, poller')
      /\ poller'.expired = poller.expired
  BY <1>1, <1>2
<1>4. ListingsOK'
  BY <1>1, <1>3 DEF HubInv, ListingsOK, SameOwner
<1>5. TimerOK'
  BY <1>1, <1>3 DEF HubInv, TimerOK, SameOwner
<1> QED
  BY <1>1, <1>3, <1>4, <1>5 DEF HubInv, HubPolls, SameOwner

LEMMA ListedKeeps ==
    ASSUME HubInv, NEW l \in listings, NEW os \in SUBSET Organizations, Listed(l, os)
    PROVE  HubInv'
<1> DEFINE t == Tracked(poller, os)
<1>1. /\ l.live = TRUE /\ listings' = listings \ {l} /\ roster' \in {roster, os}
      /\ next' = l.key /\ poller' = ThenPolled(l, t) /\ UNCHANGED <<keyed, stored, posts>>
  BY DEF Listed, HubInv, ListingsOK
<1>2. /\ PollerOK(t) /\ StepArmed(t) /\ t.credential = poller.credential
      /\ t.running = poller.running /\ t.suspended = poller.suspended
      /\ t.remote = poller.remote
  BY TrackedOK DEF HubInv
<1> HIDE DEF t
<1>3. PollerOK(poller') /\ StepArmed(poller') /\ SameOwner(t, poller')
  BY <1>1, <1>2, ThenPolledOK
<1>4. l.key = poller.credential /\ l.key # NULL /\ l.key \in AccessKeys
  BY <1>1 DEF HubInv, ListingsOK
<1>5. ListingsOK'
  BY <1>1, <1>2, <1>3 DEF HubInv, ListingsOK, SameOwner
<1>6. TimerOK'
  BY <1>1, <1>2, <1>3, <1>4 DEF TimerOK, SameOwner
<1> QED
  BY <1>1, <1>2, <1>3, <1>4, <1>5, <1>6 DEF HubInv, HubPolls, SameOwner

LEMMA ListedRefusedKeeps ==
    ASSUME HubInv, NEW l \in listings, ListedRefused(l)
    PROVE  HubInv'
<1> DEFINE e == Expired(poller, l.key)
<1>1. /\ l.live = TRUE /\ listings' = listings \ {l}
      /\ poller' = ThenPolled(l, e) /\ UNCHANGED <<next, keyed, roster, stored, posts>>
  BY DEF ListedRefused, HubInv, ListingsOK
<1>2. l.key = poller.credential /\ l.key # NULL /\ l.key \in AccessKeys /\ next = NULL
  BY <1>1 DEF HubInv, ListingsOK
<1>3. /\ PollerOK(e) /\ StepArmed(e) /\ e.credential = poller.credential
      /\ e.expired \/ poller.credential = NULL
      /\ e.running = poller.running /\ e.suspended = poller.suspended
      /\ e.remote = poller.remote /\ e.tracked = poller.tracked
  BY <1>2, ExpiredOK DEF HubInv
<1> HIDE DEF e
<1>4. /\ PollerOK(poller') /\ StepArmed(poller') /\ SameOwner(e, poller')
      /\ poller'.expired = e.expired
  BY <1>1, <1>3, ThenPolledOK
<1>5. ListingsOK'
  BY <1>1, <1>3, <1>4 DEF HubInv, ListingsOK, SameOwner
<1>6. TimerOK'
  BY <1>1, <1>2, <1>3, <1>4 DEF TimerOK, SameOwner
<1> QED
  BY <1>1, <1>2, <1>3, <1>4, <1>5, <1>6 DEF HubInv, HubPolls, SameOwner

LEMMA ListedNothingKeeps ==
    ASSUME HubInv, NEW l \in listings, ListedNothing(l)
    PROVE  HubInv'
<1>1. /\ l.live = TRUE /\ listings' = listings \ {l} /\ next' = l.key
      /\ poller' = ThenPolled(l, poller) /\ UNCHANGED <<keyed, roster, stored, posts>>
  BY DEF ListedNothing, HubInv, ListingsOK
<1>2. l.key = poller.credential /\ l.key # NULL /\ l.key \in AccessKeys
  BY <1>1 DEF HubInv, ListingsOK
<1>3. PollerOK(poller') /\ StepArmed(poller') /\ SameOwner(poller, poller')
  BY <1>1, ThenPolledOK DEF HubInv
<1>4. ListingsOK'
  BY <1>1, <1>3 DEF HubInv, ListingsOK, SameOwner
<1>5. TimerOK'
  BY <1>1, <1>2, <1>3 DEF TimerOK, SameOwner
<1> QED
  BY <1>1, <1>2, <1>3, <1>4, <1>5 DEF HubInv, HubPolls, SameOwner

LEMMA NextFiresKeeps ==
    ASSUME HubInv, NextFires
    PROVE  HubInv'
<1>1. /\ next # NULL /\ next \in AccessKeys /\ Refresh(next, FALSE) /\ poller'.credential = next
      /\ UNCHANGED <<poller, roster, stored, posts>>
  BY DEF NextFires, HubInv, TimerOK
<1>2. ListingsOK' /\ TimerOK' /\ next' \in AccessKeys \cup {NULL} /\ keyed' = poller'.credential
  BY <1>1, RefreshOK
<1> QED
  BY <1>1, <1>2 DEF HubInv, HubPolls

LEMMA RestartKeeps ==
    ASSUME HubInv, Restart
    PROVE  HubInv'
<1> DEFINE p == BootWith(stored, roster)
           new == [key |-> stored, live |-> TRUE, post |-> FALSE]
<1>1. /\ poller' = p /\ listings' = (IF stored = NULL THEN {} ELSE {new})
      /\ next' = NULL /\ keyed' = stored /\ posts' = {} /\ UNCHANGED <<roster, stored>>
  BY DEF Restart
<1>2. /\ PollerOK(p) /\ StepArmed(p) /\ p.running = TRUE /\ p.suspended = FALSE
      /\ p.remote = FALSE /\ p.credential = stored /\ p.expired = FALSE
      /\ stored = NULL => p.tracked = {}
  BY BootOK DEF HubInv
<1> HIDE DEF p
<1>3. stored \in AccessKeys \cup {NULL}
  BY DEF HubInv
<1>4. /\ new = [key |-> new.key, live |-> new.live, post |-> new.post]
      /\ new.key = stored /\ new.live = TRUE
  OBVIOUS
<1> HIDE DEF new
<1>5. ListingsOK'
  BY <1>1, <1>2, <1>3, <1>4 DEF ListingsOK
<1>6. TimerOK'
  BY <1>1, <1>2, <1>3, <1>4 DEF TimerOK
<1> QED
  BY <1>1, <1>2, <1>3, <1>5, <1>6 DEF HubInv, HubPolls

LEMMA HubStep ==
    ASSUME HubInv, [PollSetNext]_<<pollSetVars, onHub>>
    PROVE  HubInv'
<1>1. CASE PollerSteps /\ UNCHANGED <<listings, setVars, roster, stored, posts, restarts>>
  <2>1. /\ PollerOK(poller') /\ StepArmed(poller') /\ SameOwner(poller, poller')
        /\ (poller.expired => poller'.expired)
    BY <1>1, PollerStepsOK DEF HubInv
  <2>2. UNCHANGED <<listings, next, failed, keyed, roster, stored, posts>>
    BY <1>1 DEF setVars
  <2>3. ListingsOK'
    BY <2>1, <2>2 DEF HubInv, ListingsOK, SameOwner
  <2>4. TimerOK'
    BY <2>1, <2>2 DEF HubInv, TimerOK, SameOwner
  <2> QED
    BY <2>1, <2>2, <2>3, <2>4 DEF HubInv, HubPolls, SameOwner
<1>2. CASE PollSetSteps
  <2>1. ASSUME NEW k \in AccessKeys \cup {NULL}, Persisted(k) PROVE HubInv'
    BY <2>1, PersistedKeeps
  <2>2. ASSUME NEW k \in posts, Armed(k) PROVE HubInv'
    BY <2>2, ArmedKeeps
  <2>3. ASSUME NEW l \in listings, ListedLate(l) PROVE HubInv'
    BY <2>3, ListedLateKeeps
  <2>4. ASSUME NEW l \in listings, ListedRefused(l) PROVE HubInv'
    BY <2>4, ListedRefusedKeeps
  <2>5. ASSUME NEW l \in listings, ListedNothing(l) PROVE HubInv'
    BY <2>5, ListedNothingKeeps
  <2>6. ASSUME NEW l \in listings, NEW os \in SUBSET Organizations, Listed(l, os) PROVE HubInv'
    BY <2>6, ListedKeeps
  <2> QED
    BY <1>2, <2>1, <2>2, <2>3, <2>4, <2>5, <2>6, DisarmedKeeps, NextFiresKeeps, RestartKeeps
    DEF PollSetSteps
<1>3. CASE UNCHANGED <<pollSetVars, onHub>>
  <2>1. UNCHANGED <<poller, listings, next, failed, keyed, roster, stored, posts>>
    BY <1>3 DEF pollSetVars, setVars
  <2> QED
    BY <2>1 DEF HubInv, HubPolls, ListingsOK, TimerOK
<1> QED
  BY <1>1, <1>2, <1>3 DEF PollSetNext

\* The Hub's poller and its listings, over any number of keys, posts, listings
\* and restarts: what is listed, timed or shown is of the key the poller holds
\* (`refresh`, `clear` and the generation of poll-set.ts).
THEOREM HubPollInvariant == PollSetSpec => []HubInv
<1>1. HubInv /\ [PollSetNext]_<<pollSetVars, onHub>> => HubInv'
  BY HubStep
<1> QED
  BY <1>1, HubInitOK, PTL DEF PollSetSpec

\* The Hub polls with the key it holds, and goes on polling
\* (poller.ts:201-248, under the calls of poll-set.ts and server.ts).
THEOREM HubPollingHolds == PollSetSpec => []PollingHolds
<1>1. HubInv => PollingHolds
  BY PollerOKIs DEF HubInv
<1> QED
  BY <1>1, HubPollInvariant, PTL

\* A listing that may still act, the timer and the failure shown are of the
\* poller's key; and with no key nothing is polled (poll-set.ts:20-29).
THEOREM SetIsTheKeysHolds == PollSetSpec => [](PollSetTypeOK /\ SetIsTheKeys)
<1>1. HubInv => PollSetTypeOK /\ SetIsTheKeys
  <2> SUFFICES ASSUME HubInv PROVE PollSetTypeOK /\ SetIsTheKeys
    OBVIOUS
  <2>1. UsagePollerTypeOK
    BY DEF HubInv, PollerOK, PollerType, UsagePollerTypeOK
  <2>2. PollSetTypeOK
    BY <2>1 DEF HubInv, PollSetTypeOK, ListingsOK, PollerOK, PollerType
  <2> QED
    BY <2>2 DEF HubInv, SetIsTheKeys, ListingsOK, TimerOK
<1> QED
  BY <1>1, HubPollInvariant, PTL

\* A key that no listing refused is listed again: one listing is out or the
\* timer is armed, and never both (poll-set.ts:10-11).
THEOREM ListsAgainHolds == PollSetSpec => []ListsAgain
<1>1. HubInv => ListsAgain
  <2> SUFFICES ASSUME HubInv, poller.credential # NULL, ~poller.expired
               PROVE  \/ next # NULL /\ \A l \in listings : ~l.live
                      \/ next = NULL /\ Cardinality({l \in listings : l.live}) = 1
    BY DEF ListsAgain
  <2>1. CASE next # NULL
    BY <2>1 DEF HubInv, ListingsOK
  <2>2. CASE next = NULL
    <3>1. PICK l \in listings : l.live
      BY <2>2 DEF HubInv, TimerOK
    <3>2. {m \in listings : m.live} = {l}
      BY <3>1 DEF HubInv, ListingsOK
    <3> QED
      BY <2>2, <3>2, FS_Singleton
  <2> QED
    BY <2>1, <2>2
<1> QED
  BY <1>1, HubPollInvariant, PTL

\* The Hub polls and lists with the key it holds, whatever is posted, listed,
\* refused, cleared or restarted, for any number of keys and Organizations.
THEOREM PollSetHoldsAlways == PollSetSpec => []PollSetHolds
<1>1. (PollSetTypeOK /\ SetIsTheKeys) /\ PollingHolds /\ ListsAgain => PollSetHolds
  BY DEF PollSetHolds
<1> QED
  BY <1>1, SetIsTheKeysHolds, HubPollingHolds, ListsAgainHolds, PTL

USE PurgeAssumption

-------------------------------------------------------------------------------
(* The inductive invariant *)

Entries == [into : MachineIds \cup {NoMachine}, era : Nat]
OpRecords == [machine : MachineIds, era : Nat, complete : BOOLEAN, boot : Nat]

IsDirectory(d) ==
    /\ d = [m \in DOMAIN d |-> d[m]] /\ DOMAIN d \subseteq MachineIds
    /\ \A m \in DOMAIN d : d[m] \in Entries

\* Following aliases stays in the directory, and does not go on for ever.
Resolves(d) ==
    /\ \A m \in DOMAIN d : d[m].into \in DOMAIN d \cup {NoMachine}
    /\ \A S \in SUBSET DOMAIN d : S # {} => \E m \in S : d[m].into \notin S

MachinesType ==
    /\ ops \in Seq(OpRecords) /\ boots \in Nat
    /\ events \subseteq MachineIds \X Nat /\ ids \subseteq MachineIds \X Nat
    /\ idsDisk \subseteq MachineIds \X Nat
    /\ recoveredActions \in BOOLEAN /\ actionRecoveryFailed \in BOOLEAN
    /\ identityDegraded \in BOOLEAN
    /\ proc \in {"down", "serving", "cli"} /\ why \in {"none", "recovery", "purge"}
    /\ step \in {"none", "committed", "identity", "directory", "complete"}

\* Receipts are completed by a process that runs, the offline command one.
JobOK ==
    /\ work \subseteq DOMAIN ops
    /\ step = "none" <=> work = {}
    /\ work = {} => why = "none"
    /\ proc = "down" => work = {}
    /\ proc = "cli" => \E o \in work : work = {o}

\* A process may know of more machines than the file, never of fewer.
DirectoriesOK ==
    /\ IsDirectory(names) /\ IsDirectory(namesDisk)
    /\ proc # "down" => DOMAIN namesDisk \subseteq DOMAIN names

AliasesOK == Resolves(names) /\ Resolves(namesDisk)

\* A machine that is born again is of a later era than its purges.
ReceiptsOK == \A o \in DOMAIN ops : ops[o].era < Era(ops[o].machine) /\ ops[o].boot <= boots

\* What is in S of the purge's machine is of a later era; likewise its entry in d.
Purged(o, S) == \A r \in S : r[1] = ops[o].machine => r[2] > ops[o].era
Unnamed(o, d) == ops[o].machine \in DOMAIN d => d[ops[o].machine].era > ops[o].era

RowsOK == \A o \in DOMAIN ops : Purged(o, events)

CompleteOK ==
    \A o \in DOMAIN ops : ops[o].complete =>
        /\ Purged(o, idsDisk) /\ Unnamed(o, namesDisk)
        /\ proc # "down" => Purged(o, ids) /\ Unnamed(o, names)

\* How far the receipt under way is.
UnderWay ==
    work # {} =>
        /\ step \in {"directory", "complete"} => \A r \in ids \cup idsDisk : r[1] # Machine
        /\ step = "complete" => Machine \notin DOMAIN names \cup DOMAIN namesDisk

\* A process that has recovered left no purge of an earlier one pending; while
\* it recovers it holds them all.
RecoveredOK ==
    /\ proc = "serving" /\ recoveredActions =>
          \A o \in DOMAIN ops : ops[o].boot < boots => ops[o].complete
    /\ why = "recovery" =>
          \A o \in DOMAIN ops : ops[o].boot < boots /\ ~ops[o].complete => o \in work

PurgeInv ==
    MachinesType /\ JobOK /\ DirectoriesOK /\ ReceiptsOK /\ RowsOK /\ CompleteOK /\ UnderWay
    /\ RecoveredOK

LEMMA PurgeStarts ==
    ASSUME PurgeInit
    PROVE  PurgeInv
<1>1. ops = <<>> /\ DOMAIN ops = {} /\ names = <<>> /\ namesDisk = <<>> /\ DOMAIN names = {}
  BY DEF PurgeInit
<1>2. IsDirectory(names) /\ IsDirectory(namesDisk)
  BY <1>1 DEF IsDirectory
<1>3. MachinesType
  <2>1. ops \in Seq(OpRecords)
    BY <1>1
  <2> QED
    BY <2>1 DEF PurgeInit, MachinesType
<1> QED
  BY <1>1, <1>2, <1>3
  DEF PurgeInit, PurgeInv, JobOK, DirectoriesOK, ReceiptsOK, RowsOK, CompleteOK, UnderWay,
      RecoveredOK

-------------------------------------------------------------------------------
(* Eras *)

LEMMA EraIsNat ==
    ASSUME MachinesType, NEW m
    PROVE  Era(m) \in Nat /\ IsFiniteSet({o \in DOMAIN ops : ops[o].machine = m})
<1>1. Len(ops) \in Nat /\ DOMAIN ops = 1 .. Len(ops)
  BY DEF MachinesType
<1>2. IsFiniteSet(DOMAIN ops)
  BY <1>1, FS_Interval
<1>3. IsFiniteSet({o \in DOMAIN ops : ops[o].machine = m})
  BY <1>2, FS_Subset
<1> QED
  BY <1>3, FS_CardinalityType DEF Era

\* Purges are counted by their receipts' machines alone.
LEMMA EraSame ==
    ASSUME DOMAIN ops' = DOMAIN ops, \A o \in DOMAIN ops : ops'[o].machine = ops[o].machine, NEW m
    PROVE  Era(m)' = Era(m)
<1>1. {o \in DOMAIN ops : ops[o].machine = m}' = {o \in DOMAIN ops : ops[o].machine = m}
  OBVIOUS
<1> QED
  BY <1>1 DEF Era

\* A purge ends its machine's era, and no other's.
LEMMA CommitIs ==
    ASSUME PurgeInv, NEW m \in MachineIds, Commit(m), boots' \in Nat
    PROVE  LET n == Len(ops) + 1
               op == [machine |-> m, era |-> Era(m), complete |-> FALSE, boot |-> boots']
           IN  /\ ops' \in Seq(OpRecords) /\ DOMAIN ops' = DOMAIN ops \cup {n}
               /\ n \notin DOMAIN ops /\ ops'[n] = op
               /\ \A o \in DOMAIN ops : ops'[o] = ops[o]
               /\ Era(m)' = Era(m) + 1
               /\ \A k : k # m => Era(k)' = Era(k)
<1> DEFINE n == Len(ops) + 1
           op == [machine |-> m, era |-> Era(m), complete |-> FALSE, boot |-> boots']
           of(k) == {o \in DOMAIN ops : ops[o].machine = k}
<1>1. ops \in Seq(OpRecords) /\ ops' = Append(ops, op) /\ Era(m) \in Nat
  BY EraIsNat DEF PurgeInv, MachinesType, Commit
<1>2. op \in OpRecords /\ op.machine = m
  BY <1>1 DEF OpRecords
<1> HIDE DEF op
<1>3. /\ ops' \in Seq(OpRecords) /\ DOMAIN ops' = DOMAIN ops \cup {n} /\ n \notin DOMAIN ops
      /\ ops'[n] = op /\ \A o \in DOMAIN ops : ops'[o] = ops[o]
  BY <1>1, <1>2
<1> HIDE DEF n
<1>4. of(m)' = of(m) \cup {n} /\ n \notin of(m)
  BY <1>2, <1>3
<1>5. Era(m)' = Era(m) + 1
  <2>1. IsFiniteSet(of(m))
    BY EraIsNat DEF PurgeInv
  <2> QED
    BY <1>4, <2>1, FS_AddElement DEF Era
<1>6. ASSUME NEW k, k # m PROVE Era(k)' = Era(k)
  <2>1. of(k)' = of(k)
    BY <1>2, <1>3, <1>6
  <2> QED
    BY <2>1 DEF Era
<1> QED
  BY <1>3, <1>5, <1>6 DEF n, op

-------------------------------------------------------------------------------
(* The Machine directory *)

LEMMA RegisteredIs ==
    ASSUME NEW d, IsDirectory(d), NEW m \in MachineIds, m \notin DOMAIN d,
           NEW e \in Nat, NEW t,
           t = [k \in DOMAIN d \cup {m} |-> IF k = m THEN [into |-> NoMachine, era |-> e] ELSE d[k]]
    PROVE  /\ IsDirectory(t) /\ (Resolves(d) => Resolves(t)) /\ DOMAIN t = DOMAIN d \cup {m}
           /\ t[m].era = e /\ \A k \in DOMAIN d : t[k] = d[k]
<1> DEFINE entry == [into |-> NoMachine, era |-> e]
<1>0. t = [k \in DOMAIN d \cup {m} |-> IF k = m THEN entry ELSE d[k]]
  OBVIOUS
<1>1. entry \in Entries /\ entry.into = NoMachine /\ entry.era = e
  BY DEF Entries
<1> HIDE DEF entry
<1>2. /\ DOMAIN t = DOMAIN d \cup {m} /\ t[m] = entry /\ \A k \in DOMAIN d : t[k] = d[k]
      /\ t = [k \in DOMAIN t |-> t[k]]
  BY <1>0
<1>3. IsDirectory(t)
  BY <1>1, <1>2 DEF IsDirectory
<1>4. ASSUME Resolves(d) PROVE Resolves(t)
  <2>1. \A k \in DOMAIN t : t[k].into \in DOMAIN t \cup {NoMachine}
    BY <1>1, <1>2, <1>4 DEF Resolves
  <2>2. ASSUME NEW S \in SUBSET DOMAIN t, S # {} PROVE \E k \in S : t[k].into \notin S
    <3>1. CASE m \in S
      BY <1>1, <1>2, <1>3, <3>1 DEF IsDirectory
    <3>2. CASE m \notin S
      BY <1>2, <1>4, <2>2, <3>2 DEF Resolves
    <3> QED
      BY <3>1, <3>2
  <2> QED
    BY <2>1, <2>2 DEF Resolves
<1> QED
  BY <1>1, <1>2, <1>3, <1>4

Merged(m, into) == [names EXCEPT ![m].into = into]

\* A merge that closes no loop leaves none.
LEMMA MergedIs ==
    ASSUME IsDirectory(names), NEW m \in DOMAIN names, NEW into \in DOMAIN names,
           ~ClosesLoop(m, into), NEW t, t = Merged(m, into)
    PROVE  /\ IsDirectory(t) /\ (Resolves(names) => Resolves(t)) /\ DOMAIN t = DOMAIN names
           /\ \A k \in DOMAIN names : t[k].era = names[k].era
<1>1. names[m] \in Entries /\ into \in MachineIds
  BY DEF IsDirectory
<1>2. /\ DOMAIN t = DOMAIN names /\ t[m] \in Entries /\ t[m].into = into /\ t[m].era = names[m].era
      /\ \A k \in DOMAIN names : k # m => t[k] = names[k]
      /\ t = [k \in DOMAIN t |-> t[k]]
  BY <1>1 DEF Entries, IsDirectory, Merged
<1>3. IsDirectory(t)
  BY <1>2 DEF IsDirectory
<1>4. ASSUME Resolves(names) PROVE Resolves(t)
  <2>1. \A k \in DOMAIN t : t[k].into \in DOMAIN t \cup {NoMachine}
    BY <1>2, <1>4 DEF Resolves
  <2>2. ASSUME NEW S \in SUBSET DOMAIN t, S # {} PROVE \E k \in S : t[k].into \notin S
    <3> SUFFICES ASSUME \A k \in S : t[k].into \in S PROVE FALSE
      OBVIOUS
    <3>1. PICK T \in SUBSET DOMAIN names :
             /\ into \in T /\ \A k \in T : names[k].into \in T \cup {NoMachine}
             /\ m \notin T
      BY DEF ClosesLoop
    <3>2. m \in S
      <4> SUFFICES ASSUME m \notin S PROVE FALSE
        OBVIOUS
      <4> QED
        BY <1>2, <1>4, <2>2 DEF Resolves
    <3>3. into \in S \cap T
      BY <1>2, <3>1, <3>2
    <3>4. \A k \in S \cap T : names[k].into \in S \cap T
      BY <1>2, <3>1, <1>3 DEF IsDirectory
    <3> QED
      BY <1>2, <1>4, <3>3, <3>4 DEF Resolves
  <2> QED
    BY <2>1, <2>2 DEF Resolves
<1>5. \A k \in DOMAIN names : t[k].era = names[k].era
  BY <1>2
<1> QED
  BY <1>2, <1>3, <1>4, <1>5

\* What was merged into a machine stands alone without it.
LEMMA WithoutIs ==
    ASSUME IsDirectory(names), NEW m \in DOMAIN names
    PROVE  /\ IsDirectory(Without(m)) /\ (Resolves(names) => Resolves(Without(m)))
           /\ DOMAIN Without(m) = DOMAIN names \ {m}
           /\ \A k \in DOMAIN names \ {m} : Without(m)[k].era = names[k].era
<1> DEFINE t == Without(m)
<1>1. /\ DOMAIN t = DOMAIN names \ {m} /\ t = [k \in DOMAIN t |-> t[k]]
      /\ \A k \in DOMAIN t : names[k].into # m => t[k] = names[k]
      /\ \A k \in DOMAIN t : names[k].into = m => t[k] = [names[k] EXCEPT !.into = NoMachine]
  BY DEF Without
<1> HIDE DEF t
<1>2. \A k \in DOMAIN t : names[k] \in Entries
  BY <1>1 DEF IsDirectory
<1>3. \A k \in DOMAIN t : names[k].into = m =>
         t[k] \in Entries /\ t[k].into = NoMachine /\ t[k].era = names[k].era
  BY <1>1, <1>2 DEF Entries
<1>4. IsDirectory(t)
  BY <1>1, <1>2, <1>3 DEF IsDirectory
<1>5. ASSUME Resolves(names) PROVE Resolves(t)
  <2>1. \A k \in DOMAIN t : t[k].into \in DOMAIN t \cup {NoMachine}
    BY <1>1, <1>3, <1>5 DEF Resolves
  <2>2. ASSUME NEW S \in SUBSET DOMAIN t, S # {} PROVE \E k \in S : t[k].into \notin S
    <3>1. PICK k \in S : names[k].into \notin S
      BY <1>1, <1>5, <2>2 DEF Resolves
    <3>2. t[k].into = names[k].into \/ t[k].into = NoMachine
      BY <1>1, <1>3, <3>1
    <3> QED
      BY <1>4, <3>1, <3>2 DEF IsDirectory
  <2> QED
    BY <2>1, <2>2 DEF Resolves
<1> QED
  BY <1>1, <1>3, <1>4, <1>5 DEF t

-------------------------------------------------------------------------------
(* Processes *)

\* The receipts are as they were, and no earlier process is newer.
LEMMA ReceiptsStay ==
    ASSUME ReceiptsOK, MachinesType, ops' = ops, boots' \in Nat, boots' >= boots
    PROVE  ReceiptsOK'
<1>1. \A m : Era(m)' = Era(m)
  BY EraSame
<1>2. \A o \in DOMAIN ops : ops[o] \in OpRecords
  BY DEF MachinesType
<1>3. \A o \in DOMAIN ops : ops[o].boot \in Nat
  BY <1>2 DEF OpRecords
<1> QED
  BY <1>1, <1>3 DEF ReceiptsOK, MachinesType

LEMMA BootKeeps ==
    ASSUME PurgeInv, Boot
    PROVE  PurgeInv'
<1>1. /\ proc = "down" /\ proc' = "serving" /\ boots' = boots + 1 /\ boots \in Nat
      /\ identityDegraded' \in BOOLEAN /\ ids' \in {{}, idsDisk} /\ names' = namesDisk
      /\ recoveredActions' = FALSE /\ actionRecoveryFailed' = FALSE
      /\ UNCHANGED <<events, ops, namesDisk, idsDisk, work, step, why>>
      /\ work = {}
  BY DEF Boot, job, PurgeInv, MachinesType, JobOK
<1>2. MachinesType'
  <2>1. boots' \in Nat /\ ids' \subseteq MachineIds \X Nat
    BY <1>1 DEF PurgeInv, MachinesType
  <2>2. recoveredActions' \in BOOLEAN /\ actionRecoveryFailed' \in BOOLEAN
    BY <1>1
  <2> QED
    BY <1>1, <2>1, <2>2 DEF PurgeInv, MachinesType
<1>3. JobOK'
  BY <1>1 DEF PurgeInv, JobOK
<1>4. DirectoriesOK'
  BY <1>1 DEF PurgeInv, DirectoriesOK
<1>5. ReceiptsOK'
  BY <1>1, ReceiptsStay DEF PurgeInv
<1>6. RowsOK'
  BY <1>1 DEF PurgeInv, RowsOK, Purged
<1>7. CompleteOK'
  BY <1>1 DEF PurgeInv, CompleteOK, Purged, Unnamed
<1>8. UnderWay'
  BY <1>1 DEF UnderWay
<1>9. RecoveredOK'
  BY <1>1 DEF PurgeInv, RecoveredOK, JobOK
<1> QED
  BY <1>2, <1>3, <1>4, <1>5, <1>6, <1>7, <1>8, <1>9 DEF PurgeInv

LEMMA StopKeeps ==
    ASSUME PurgeInv, Stop
    PROVE  PurgeInv'
<1>1. /\ proc' = "down" /\ work' = {} /\ step' = "none" /\ why' = "none"
      /\ UNCHANGED <<recoveredActions, actionRecoveryFailed, identityDegraded, events, ops, names,
                     namesDisk, ids, idsDisk, boots>>
  BY DEF Stop
<1>2. MachinesType'
  BY <1>1 DEF PurgeInv, MachinesType
<1>3. JobOK'
  BY <1>1 DEF PurgeInv, JobOK
<1>4. DirectoriesOK'
  BY <1>1 DEF PurgeInv, DirectoriesOK
<1>5. ReceiptsOK'
  BY <1>1, ReceiptsStay DEF PurgeInv, MachinesType
<1>6. RowsOK'
  BY <1>1 DEF PurgeInv, RowsOK, Purged
<1>7. CompleteOK'
  BY <1>1 DEF PurgeInv, CompleteOK, Purged, Unnamed
<1>8. UnderWay'
  BY <1>1 DEF UnderWay
<1>9. RecoveredOK'
  BY <1>1 DEF PurgeInv, RecoveredOK
<1> QED
  BY <1>2, <1>3, <1>4, <1>5, <1>6, <1>7, <1>8, <1>9 DEF PurgeInv

LEMMA RecoverKeeps ==
    ASSUME PurgeInv, Recover
    PROVE  PurgeInv'
<1>1. /\ proc = "serving" /\ work = {}
      /\ \/ PendingOps = {} /\ recoveredActions' = TRUE /\ UNCHANGED <<work, step, why>>
         \/ /\ PendingOps # {} /\ work' = PendingOps /\ step' = "identity" /\ why' = "recovery"
            /\ UNCHANGED recoveredActions
      /\ UNCHANGED <<proc, actionRecoveryFailed, identityDegraded, events, ops, names,
                     namesDisk, ids, idsDisk, boots>>
  BY DEF Recover
<1>2. MachinesType'
  BY <1>1 DEF PurgeInv, MachinesType
<1>3. JobOK'
  BY <1>1 DEF PurgeInv, JobOK, PendingOps
<1>4. DirectoriesOK'
  BY <1>1 DEF PurgeInv, DirectoriesOK
<1>5. ReceiptsOK'
  BY <1>1, ReceiptsStay DEF PurgeInv, MachinesType
<1>6. RowsOK'
  BY <1>1 DEF PurgeInv, RowsOK, Purged
<1>7. CompleteOK'
  BY <1>1 DEF PurgeInv, CompleteOK, Purged, Unnamed
<1>8. UnderWay'
  BY <1>1 DEF UnderWay
<1>9. RecoveredOK'
  BY <1>1 DEF PurgeInv, RecoveredOK, PendingOps, JobOK
<1> QED
  BY <1>2, <1>3, <1>4, <1>5, <1>6, <1>7, <1>8, <1>9 DEF PurgeInv

-------------------------------------------------------------------------------
(* Requests *)

\* A receipt under way at its first step, or none.
LEMMA ServedIs ==
    ASSUME Served, PurgeInv
    PROVE  /\ proc = "serving" /\ step \notin {"directory", "complete"}
           /\ ~identityDegraded /\ ~actionRecoveryFailed => recoveredActions
BY DEF Served, OwesRecovery, PurgeInv, JobOK, MachinesType

\* What a request may leave of the directories while it is served.
LEMMA NamesKeep ==
    ASSUME PurgeInv, Served, UNCHANGED <<process, events, ops, ids, idsDisk, job, boots>>,
           IsDirectory(names'), DOMAIN names \subseteq DOMAIN names',
           namesDisk' \in {namesDisk, names'},
           \A o \in DOMAIN ops : ops[o].complete => Unnamed(o, names')
    PROVE  PurgeInv'
<1>1. /\ proc = "serving" /\ step \notin {"directory", "complete"}
      /\ UNCHANGED <<proc, recoveredActions, actionRecoveryFailed, identityDegraded, events, ops,
                     ids, idsDisk, work, step, why, boots>>
  BY ServedIs DEF process, job
<1>2. MachinesType'
  BY <1>1 DEF PurgeInv, MachinesType
<1>3. JobOK'
  BY <1>1 DEF PurgeInv, JobOK
<1>4. DirectoriesOK'
  BY <1>1 DEF PurgeInv, DirectoriesOK
<1>5. ReceiptsOK'
  BY <1>1, ReceiptsStay DEF PurgeInv, MachinesType
<1>6. RowsOK'
  BY <1>1 DEF PurgeInv, RowsOK, Purged
<1>7. CompleteOK'
  <2>1. ASSUME NEW o \in DOMAIN ops, ops[o].complete
        PROVE  Purged(o, idsDisk) /\ Unnamed(o, namesDisk) /\ Purged(o, ids) /\ Unnamed(o, names')
    BY <1>1, <2>1 DEF PurgeInv, CompleteOK
  <2> QED
    BY <1>1, <2>1 DEF CompleteOK, Purged, Unnamed
<1>8. UnderWay'
  BY <1>1 DEF UnderWay
<1>9. RecoveredOK'
  BY <1>1 DEF PurgeInv, RecoveredOK
<1> QED
  BY <1>2, <1>3, <1>4, <1>5, <1>6, <1>7, <1>8, <1>9 DEF PurgeInv

LEMMA RegisterKeeps ==
    ASSUME PurgeInv, NEW m \in MachineIds, NEW written \in BOOLEAN,
           Register(m, written)
    PROVE  PurgeInv' /\ (AliasesOK => AliasesOK')
<1>1. /\ Served /\ m \notin DOMAIN names /\ namesDisk' \in {namesDisk, names'}
      /\ names' = [k \in DOMAIN names \cup {m} |->
                      IF k = m THEN [into |-> NoMachine, era |-> Era(m)] ELSE names[k]]
      /\ UNCHANGED <<process, events, ops, ids, idsDisk, job, boots>>
  BY DEF Register
<1>2. Era(m) \in Nat /\ IsDirectory(names)
  BY EraIsNat DEF PurgeInv, DirectoriesOK
<1>3. /\ IsDirectory(names') /\ (Resolves(names) => Resolves(names'))
      /\ DOMAIN names' = DOMAIN names \cup {m}
      /\ names'[m].era = Era(m) /\ \A k \in DOMAIN names : names'[k] = names[k]
  BY <1>1, <1>2, RegisteredIs
<1>4. ASSUME NEW o \in DOMAIN ops, ops[o].complete PROVE Unnamed(o, names')
  <2>1. CASE ops[o].machine = m
    BY <1>3, <2>1 DEF Unnamed, PurgeInv, ReceiptsOK
  <2>2. CASE ops[o].machine # m
    <3>1. Unnamed(o, names)
      BY <1>1, <1>4, ServedIs DEF PurgeInv, CompleteOK
    <3> QED
      BY <1>3, <2>2, <3>1 DEF Unnamed
  <2> QED
    BY <2>1, <2>2
<1>5. PurgeInv'
  BY <1>1, <1>3, <1>4, NamesKeep
<1> QED
  BY <1>1, <1>3, <1>5 DEF AliasesOK

LEMMA MergeKeeps ==
    ASSUME PurgeInv, NEW m, NEW into, NEW written \in BOOLEAN,
           Merge(m, into, written)
    PROVE  PurgeInv' /\ (AliasesOK => AliasesOK')
<1>1. /\ Served /\ m \in DOMAIN names /\ into \in DOMAIN names /\ ~ClosesLoop(m, into)
      /\ names' = Merged(m, into) /\ namesDisk' \in {namesDisk, names'}
      /\ UNCHANGED <<process, events, ops, ids, idsDisk, job, boots>>
  BY DEF Merge, Merged
<1>2. IsDirectory(names)
  BY DEF PurgeInv, DirectoriesOK
<1>3. /\ IsDirectory(names') /\ (Resolves(names) => Resolves(names'))
      /\ DOMAIN names' = DOMAIN names /\ \A k \in DOMAIN names : names'[k].era = names[k].era
  BY <1>1, <1>2, MergedIs
<1>4. ASSUME NEW o \in DOMAIN ops, ops[o].complete PROVE Unnamed(o, names')
  <2>1. Unnamed(o, names)
    BY <1>1, <1>4, ServedIs DEF PurgeInv, CompleteOK
  <2> QED
    BY <1>3, <2>1 DEF Unnamed
<1>5. PurgeInv'
  BY <1>1, <1>3, <1>4, NamesKeep
<1> QED
  BY <1>1, <1>3, <1>5 DEF AliasesOK

LEMMA ContributeKeeps ==
    ASSUME PurgeInv, NEW m \in MachineIds, Contribute(m)
    PROVE  PurgeInv'
<1>1. /\ events' = events \cup {<<m, Era(m)>>} /\ Era(m) \in Nat
      /\ UNCHANGED <<proc, recoveredActions, actionRecoveryFailed, identityDegraded, ops, names,
                     namesDisk, ids, idsDisk, work, step, why, boots>>
  BY EraIsNat DEF Contribute, process, job, PurgeInv
<1>2. MachinesType'
  BY <1>1 DEF PurgeInv, MachinesType
<1>3. JobOK'
  BY <1>1 DEF PurgeInv, JobOK
<1>4. DirectoriesOK'
  BY <1>1 DEF PurgeInv, DirectoriesOK
<1>5. ReceiptsOK'
  BY <1>1, ReceiptsStay DEF PurgeInv, MachinesType
<1>6. RowsOK'
  BY <1>1 DEF PurgeInv, RowsOK, Purged, ReceiptsOK
<1>7. CompleteOK'
  BY <1>1 DEF PurgeInv, CompleteOK, Purged, Unnamed
<1>8. UnderWay'
  BY <1>1 DEF PurgeInv, UnderWay, Machine, Receipt
<1>9. RecoveredOK'
  BY <1>1 DEF PurgeInv, RecoveredOK
<1> QED
  BY <1>2, <1>3, <1>4, <1>5, <1>6, <1>7, <1>8, <1>9 DEF PurgeInv

LEMMA IdentifyKeeps ==
    ASSUME PurgeInv, NEW m \in MachineIds, NEW written \in BOOLEAN, Identify(m, written)
    PROVE  PurgeInv'
<1>1. /\ ids' = ids \cup {<<m, Era(m)>>} /\ idsDisk' \in {idsDisk, ids'} /\ Era(m) \in Nat
      /\ UNCHANGED <<proc, recoveredActions, actionRecoveryFailed, identityDegraded, ops, names,
                     namesDisk, events, work, step, why, boots>>
      /\ proc = "serving" /\ step \notin {"directory", "complete"}
  BY EraIsNat, ServedIs DEF Identify, process, job, PurgeInv
<1>2. MachinesType'
  BY <1>1 DEF PurgeInv, MachinesType
<1>3. JobOK'
  BY <1>1 DEF PurgeInv, JobOK
<1>4. DirectoriesOK'
  BY <1>1 DEF PurgeInv, DirectoriesOK
<1>5. ReceiptsOK'
  BY <1>1, ReceiptsStay DEF PurgeInv, MachinesType
<1>6. RowsOK'
  BY <1>1 DEF PurgeInv, RowsOK, Purged
<1>7. CompleteOK'
  <2>1. ASSUME NEW o \in DOMAIN ops, ops[o].complete PROVE Purged(o, ids')
    BY <1>1, <2>1 DEF PurgeInv, CompleteOK, Purged, ReceiptsOK
  <2> QED
    BY <1>1, <2>1 DEF PurgeInv, CompleteOK, Purged, Unnamed
<1>8. UnderWay'
  BY <1>1 DEF UnderWay
<1>9. RecoveredOK'
  BY <1>1 DEF PurgeInv, RecoveredOK
<1> QED
  BY <1>2, <1>3, <1>4, <1>5, <1>6, <1>7, <1>8, <1>9 DEF PurgeInv

-------------------------------------------------------------------------------
(* A purge begins, in the process that serves or in the offline command's *)

Eras == [k \in MachineIds |-> Era(k)]

\* Its receipt is a new one of this process, or one that was pending.
Begun(n) ==
    /\ step' = "committed" /\ work' = {n} /\ n \in DOMAIN ops' /\ events' \subseteq events
    /\ ops' \in Seq(OpRecords) /\ DOMAIN ops' = DOMAIN ops \cup {n}
    /\ \A o \in DOMAIN ops : ops'[o] = ops[o]
    /\ \A o \in DOMAIN ops' : ops'[o].era < Eras'[ops'[o].machine]
    /\ n \notin DOMAIN ops =>
          /\ ~ops'[n].complete /\ ops'[n].boot = boots'
          /\ \A r \in events' : r[1] # ops'[n].machine

LEMMA ReceiptsTyped ==
    ASSUME PurgeInv, NEW o \in DOMAIN ops
    PROVE  /\ ops[o] \in OpRecords /\ ops[o].machine \in MachineIds /\ ops[o].era \in Nat
           /\ ops[o].boot \in Nat /\ ops[o].boot <= boots /\ boots \in Nat
           /\ ops[o].era < Eras[ops[o].machine] /\ Eras[ops[o].machine] \in Nat
<1>1. ops[o] \in OpRecords /\ boots \in Nat
  BY DEF PurgeInv, MachinesType
<1>2. ops[o].machine \in MachineIds /\ ops[o].era \in Nat /\ ops[o].boot \in Nat
  BY <1>1 DEF OpRecords
<1>3. Eras[ops[o].machine] = Era(ops[o].machine) /\ Era(ops[o].machine) \in Nat
  BY <1>2, EraIsNat DEF Eras, PurgeInv
<1> QED
  BY <1>1, <1>2, <1>3 DEF PurgeInv, ReceiptsOK

LEMMA CommitBegins ==
    ASSUME PurgeInv, boots' \in Nat, NEW m \in MachineIds, Commit(m)
    PROVE  Begun(Len(ops) + 1)
<1> DEFINE n == Len(ops) + 1
           op == [machine |-> m, era |-> Era(m), complete |-> FALSE, boot |-> boots']
<1>1. /\ ops' \in Seq(OpRecords) /\ DOMAIN ops' = DOMAIN ops \cup {n}
      /\ n \notin DOMAIN ops /\ ops'[n] = op
      /\ \A o \in DOMAIN ops : ops'[o] = ops[o]
      /\ Era(m)' = Era(m) + 1
      /\ \A k : k # m => Era(k)' = Era(k)
  BY CommitIs
<1>2. /\ step' = "committed" /\ work' = {n} /\ events' = {r \in events : r[1] # m}
      /\ op.machine = m /\ op.era = Era(m) /\ ~op.complete /\ op.boot = boots'
  BY DEF Commit
<1>3. Era(m) \in Nat
  BY EraIsNat DEF PurgeInv
<1>4. /\ Eras'[m] = Eras[m] + 1 /\ Eras[m] = Era(m)
      /\ \A k \in MachineIds : k # m => Eras'[k] = Eras[k]
  BY <1>1 DEF Eras
<1> HIDE DEF n, op
<1>5. ASSUME NEW o \in DOMAIN ops' PROVE ops'[o].era < Eras'[ops'[o].machine]
  <2>1. CASE o = n
    BY <1>1, <1>2, <1>3, <1>4, <2>1
  <2>2. CASE o # n
    <3>1. o \in DOMAIN ops /\ ops'[o] = ops[o]
      BY <1>1, <2>2
    <3>2. /\ ops[o].machine \in MachineIds /\ ops[o].era \in Nat
          /\ ops[o].era < Eras[ops[o].machine] /\ Eras[ops[o].machine] \in Nat
      BY <3>1, ReceiptsTyped
    <3> QED
      BY <1>4, <3>1, <3>2
  <2> QED
    BY <2>1, <2>2
<1>6. Begun(n)
  BY <1>1, <1>2, <1>5 DEF Begun
<1> QED
  BY <1>6 DEF n

LEMMA AgainBegins ==
    ASSUME PurgeInv, NEW o \in DOMAIN ops, Again(o)
    PROVE  Begun(o)
<1>1. step' = "committed" /\ work' = {o} /\ events' = events /\ ops' = ops
  BY DEF Again
<1>2. Eras' = Eras
  BY <1>1, EraSame DEF Eras
<1> QED
  BY <1>1, <1>2, ReceiptsTyped DEF Begun, PurgeInv, MachinesType

LEMMA PurgeBegins ==
    ASSUME PurgeInv, boots' \in Nat, boots' >= boots, why' = "purge", NEW n, Begun(n),
           UNCHANGED <<namesDisk, idsDisk, recoveredActions>>,
           actionRecoveryFailed' \in BOOLEAN, identityDegraded' \in BOOLEAN,
           \/ proc = "serving" /\ UNCHANGED <<proc, names, ids, boots>>
           \/ proc' = "cli" /\ names' = namesDisk /\ ids' = idsDisk
    PROVE  PurgeInv'
<1>1. /\ proc' \in {"serving", "cli"} /\ IsDirectory(names') /\ ids' \subseteq MachineIds \X Nat
      /\ DOMAIN namesDisk \subseteq DOMAIN names'
  BY DEF PurgeInv, MachinesType, DirectoriesOK
<1>2. MachinesType'
  BY <1>1 DEF PurgeInv, MachinesType, Begun
<1>3. JobOK'
  BY <1>1 DEF Begun, JobOK
<1>4. DirectoriesOK'
  BY <1>1 DEF PurgeInv, DirectoriesOK
<1>5. ReceiptsOK'
  <2>1. \A o \in DOMAIN ops : ops[o].boot \in Nat /\ ops[o].boot <= boots /\ boots \in Nat
    BY ReceiptsTyped
  <2>2. ASSUME NEW o \in DOMAIN ops'
        PROVE  ops'[o].era < Eras'[ops'[o].machine] /\ ops'[o].boot <= boots'
    BY <2>1 DEF Begun
  <2>3. ASSUME NEW o \in DOMAIN ops' PROVE ops'[o].machine \in MachineIds
    <3>1. ops'[o] \in OpRecords
      <4>1. ops' \in Seq(OpRecords)
        BY DEF Begun
      <4>2. \A q \in Seq(OpRecords) : \A i \in DOMAIN q : q[i] \in OpRecords
        OBVIOUS
      <4> QED
        BY <4>1, <4>2, Zenon
    <3> QED
      BY <3>1 DEF OpRecords
  <2> QED
    BY <2>2, <2>3 DEF ReceiptsOK, Eras
<1>6. RowsOK'
  <2>1. ASSUME NEW o \in DOMAIN ops', NEW r \in events', r[1] = ops'[o].machine
        PROVE  r[2] > ops'[o].era
    BY <2>1 DEF Begun, PurgeInv, RowsOK, Purged
  <2> QED
    BY <2>1 DEF RowsOK, Purged
<1>7. CompleteOK'
  <2>1. ASSUME NEW o \in DOMAIN ops', ops'[o].complete
        PROVE  o \in DOMAIN ops /\ ops'[o] = ops[o] /\ ops[o].complete
    BY <2>1 DEF Begun
  <2>2. ASSUME NEW o \in DOMAIN ops, ops[o].complete
        PROVE  /\ Purged(o, idsDisk) /\ Unnamed(o, namesDisk)
               /\ Purged(o, ids') /\ Unnamed(o, names')
    BY <2>2 DEF PurgeInv, CompleteOK
  <2> QED
    BY <2>1, <2>2 DEF CompleteOK, Purged, Unnamed
<1>8. UnderWay'
  BY DEF UnderWay, Begun
<1>9. RecoveredOK'
  <2>1. why' # "recovery"
    OBVIOUS
  <2>2. ASSUME proc' = "serving", recoveredActions', NEW o \in DOMAIN ops', ops'[o].boot < boots'
        PROVE  ops'[o].complete
    <3>1. proc = "serving" /\ boots' = boots /\ recoveredActions
      BY <2>2
    <3>2. o \in DOMAIN ops
      BY <2>2 DEF Begun
    <3> QED
      BY <2>2, <3>1, <3>2 DEF Begun, PurgeInv, RecoveredOK
  <2> QED
    BY <2>1, <2>2 DEF RecoveredOK
<1> QED
  BY <1>2, <1>3, <1>4, <1>5, <1>6, <1>7, <1>8, <1>9 DEF PurgeInv

LEMMA PurgeKeeps ==
    ASSUME PurgeInv, NEW m \in MachineIds, Purge(m)
    PROVE  PurgeInv'
<1>1. /\ proc = "serving" /\ boots' = boots /\ boots \in Nat /\ why' = "purge"
      /\ UNCHANGED <<proc, names, ids, boots, namesDisk, idsDisk, recoveredActions>>
      /\ actionRecoveryFailed' \in BOOLEAN /\ identityDegraded' \in BOOLEAN
      /\ Commit(m) \/ \E o \in DOMAIN ops : Again(o)
  BY DEF Purge, Served, process, PurgeInv, MachinesType
<1>2. \E n : Begun(n)
  BY <1>1, CommitBegins, AgainBegins
<1> QED
  BY <1>1, <1>2, PurgeBegins

LEMMA PurgeOfflineKeeps ==
    ASSUME PurgeInv, NEW m \in MachineIds, PurgeOffline(m)
    PROVE  PurgeInv' /\ names' = namesDisk /\ namesDisk' = namesDisk
<1>1. /\ boots' = boots + 1 /\ boots \in Nat /\ why' = "purge" /\ proc' = "cli"
      /\ names' = namesDisk /\ ids' = idsDisk
      /\ UNCHANGED <<namesDisk, idsDisk, recoveredActions>>
      /\ actionRecoveryFailed' \in BOOLEAN /\ identityDegraded' \in BOOLEAN
      /\ Commit(m) \/ \E o \in DOMAIN ops : Again(o)
  BY DEF PurgeOffline, PurgeInv, MachinesType
<1>2. \E n : Begun(n)
  BY <1>1, CommitBegins, AgainBegins
<1> QED
  BY <1>1, <1>2, PurgeBegins

-------------------------------------------------------------------------------
(* A receipt is completed *)

\* A set of numbers has a least one.
LEMMA LeastReceipt ==
    ASSUME NEW S \in SUBSET Nat, S # {}
    PROVE  \E least \in S : \A n \in S : least <= n
<1> DEFINE R == {ss \in Nat \X Nat : ss[1] < ss[2]}
<1>1. R = OpToRel(<, Nat)
  BY DEF OpToRel
<1>2. IsWellFoundedOn(R, Nat)
  BY <1>1, NatLessThanWellFounded
<1>3. \E least \in S : \A n \in S : ~(<<n, least>> \in R)
  <2> HIDE DEF R
  <2> QED
    BY <1>2, WFMin
<1>4. \E least \in S : \A n \in S : ~(n < least)
  BY <1>3
<1> QED
  BY <1>4

LEMMA ReceiptIs ==
    ASSUME PurgeInv, work # {}
    PROVE  /\ Receipt \in work /\ Receipt \in DOMAIN ops /\ ops[Receipt] \in OpRecords
           /\ proc # "down" /\ Machine \in MachineIds
<1>1. work \subseteq DOMAIN ops /\ proc # "down" /\ ops \in Seq(OpRecords)
  BY DEF PurgeInv, JobOK, MachinesType
<1>2. work \in SUBSET Nat
  BY <1>1
<1>3. Receipt \in work
  BY <1>2, LeastReceipt DEF Receipt
<1>4. Receipt \in DOMAIN ops
  BY <1>1, <1>3
<1>5. ops[Receipt] \in OpRecords
  BY <1>1, <1>4
<1>6. ops[Receipt].machine \in MachineIds
  BY <1>5 DEF OpRecords
<1> QED
  BY <1>1, <1>3, <1>4, <1>5, <1>6 DEF Machine

LEMMA DropIdentityKeeps ==
    ASSUME PurgeInv, DropIdentity
    PROVE  PurgeInv'
<1>1. /\ work # {} /\ step' = "directory"
      /\ ids' = {r \in ids : r[1] # Machine} /\ idsDisk' = ids'
      /\ UNCHANGED <<proc, recoveredActions, actionRecoveryFailed, identityDegraded, events, ops,
                     names, namesDisk, work, why, boots>>
  BY DEF DropIdentity, Completing, process
<1>2. MachinesType'
  BY <1>1 DEF PurgeInv, MachinesType
<1>3. JobOK'
  BY <1>1 DEF PurgeInv, JobOK
<1>4. DirectoriesOK'
  BY <1>1 DEF PurgeInv, DirectoriesOK
<1>5. ReceiptsOK'
  BY <1>1, ReceiptsStay DEF PurgeInv, MachinesType
<1>6. RowsOK'
  BY <1>1 DEF PurgeInv, RowsOK, Purged
<1>7. CompleteOK'
  BY <1>1, ReceiptIs DEF PurgeInv, CompleteOK, Purged, Unnamed
<1>8. UnderWay'
  BY <1>1 DEF UnderWay, Machine, Receipt
<1>9. RecoveredOK'
  BY <1>1 DEF PurgeInv, RecoveredOK
<1> QED
  BY <1>2, <1>3, <1>4, <1>5, <1>6, <1>7, <1>8, <1>9 DEF PurgeInv

LEMMA DropNameKeeps ==
    ASSUME PurgeInv, DropName
    PROVE  PurgeInv' /\ (AliasesOK => AliasesOK')
<1>1. /\ work # {} /\ step = "directory" /\ step' = "complete"
      /\ UNCHANGED <<proc, recoveredActions, actionRecoveryFailed, identityDegraded, events, ops,
                     ids, idsDisk, work, why, boots>>
  BY DEF DropName, Completing, process
<1>2. proc # "down" /\ Machine' = Machine
  BY <1>1, ReceiptIs DEF Machine, Receipt
<1>3. /\ IsDirectory(names') /\ IsDirectory(namesDisk')
      /\ DOMAIN namesDisk' \subseteq DOMAIN names'
      /\ Machine \notin DOMAIN names'
      /\ \A d \in {names', namesDisk'} : \A k \in DOMAIN d :
            \E old \in {names, namesDisk} : k \in DOMAIN old /\ d[k].era = old[k].era
      /\ AliasesOK => AliasesOK'
  <2>1. IsDirectory(names) /\ IsDirectory(namesDisk) /\ DOMAIN namesDisk \subseteq DOMAIN names
    BY <1>2 DEF PurgeInv, DirectoriesOK
  <2>2. CASE Machine \in DOMAIN names
    <3>1. names' = Without(Machine) /\ namesDisk' = names'
      BY <2>2 DEF DropName
    <3>2. /\ IsDirectory(names') /\ (Resolves(names) => Resolves(names'))
          /\ DOMAIN names' = DOMAIN names \ {Machine}
          /\ \A k \in DOMAIN names \ {Machine} : names'[k].era = names[k].era
      BY <2>1, <2>2, <3>1, WithoutIs
    <3> QED
      BY <3>1, <3>2 DEF AliasesOK
  <2>3. CASE Machine \notin DOMAIN names
    <3>1. names' = names /\ namesDisk' = namesDisk
      BY <2>3 DEF DropName
    <3> QED
      BY <2>1, <2>3, <3>1 DEF AliasesOK
  <2> QED
    BY <2>2, <2>3
<1>4. MachinesType'
  BY <1>1 DEF PurgeInv, MachinesType
<1>5. JobOK'
  BY <1>1 DEF PurgeInv, JobOK
<1>6. DirectoriesOK'
  BY <1>3 DEF DirectoriesOK
<1>7. ReceiptsOK'
  BY <1>1, ReceiptsStay DEF PurgeInv, MachinesType
<1>8. RowsOK'
  BY <1>1 DEF PurgeInv, RowsOK, Purged
<1>9. CompleteOK'
  <2>1. ASSUME NEW o \in DOMAIN ops, ops[o].complete
        PROVE  /\ Purged(o, idsDisk) /\ Purged(o, ids)
               /\ Unnamed(o, names) /\ Unnamed(o, namesDisk)
    BY <1>2, <2>1 DEF PurgeInv, CompleteOK
  <2>2. ASSUME NEW o \in DOMAIN ops, ops[o].complete
        PROVE  Unnamed(o, names') /\ Unnamed(o, namesDisk')
    BY <1>3, <2>1, <2>2 DEF Unnamed
  <2> QED
    BY <1>1, <2>1, <2>2 DEF CompleteOK, Purged, Unnamed
<1>10. UnderWay'
  BY <1>1, <1>2, <1>3 DEF PurgeInv, UnderWay
<1>11. RecoveredOK'
  BY <1>1 DEF PurgeInv, RecoveredOK
<1> QED
  BY <1>3, <1>4, <1>5, <1>6, <1>7, <1>8, <1>9, <1>10, <1>11 DEF PurgeInv

LEMMA CompleteKeeps ==
    ASSUME PurgeInv, Complete
    PROVE  PurgeInv'
<1>1. /\ work # {} /\ step = "complete" /\ ops' = [ops EXCEPT ![Receipt].complete = TRUE]
      /\ work' = work \ {Receipt}
      /\ UNCHANGED <<actionRecoveryFailed, identityDegraded, events, names, namesDisk, ids, idsDisk,
                     boots>>
      /\ \/ work' # {} /\ step' = "identity" /\ UNCHANGED <<why, recoveredActions>>
         \/ work' = {} /\ step' = "none" /\ why' = "none"
      /\ recoveredActions' => recoveredActions \/ (work' = {} /\ why = "recovery")
      /\ proc' = "serving" => proc = "serving"
      /\ \/ proc = "serving" /\ proc' = "serving"
         \/ proc = "cli" /\ proc' = "down"
  BY ReceiptIs DEF Complete, Completing, PurgeInv, MachinesType
<1>2. recoveredActions' \in BOOLEAN
  BY DEF Complete, PurgeInv, MachinesType
<1>3. Receipt \in work /\ Receipt \in DOMAIN ops /\ ops[Receipt] \in OpRecords /\ proc # "down"
  BY <1>1, ReceiptIs
<1>4. /\ DOMAIN ops' = DOMAIN ops /\ ops' \in Seq(OpRecords)
      /\ \A o \in DOMAIN ops : /\ ops'[o].machine = ops[o].machine /\ ops'[o].era = ops[o].era
                               /\ ops'[o].boot = ops[o].boot
                               /\ o # Receipt => ops'[o] = ops[o]
  <2>1. ops \in Seq(OpRecords) /\ \A o \in DOMAIN ops : ops[o] \in OpRecords
    BY DEF PurgeInv, MachinesType
  <2> DEFINE op == [ops[Receipt] EXCEPT !.complete = TRUE]
  <2>2. /\ op \in OpRecords /\ op.machine = ops[Receipt].machine /\ op.era = ops[Receipt].era
        /\ op.boot = ops[Receipt].boot
    BY <1>3 DEF OpRecords
  <2>3. ops' = [ops EXCEPT ![Receipt] = op]
    BY <1>1
  <2> HIDE DEF op
  <2> QED
    BY <1>3, <2>1, <2>2, <2>3
<1>5. MachinesType'
  BY <1>1, <1>2, <1>4 DEF PurgeInv, MachinesType
<1>6. JobOK'
  BY <1>1, <1>3, <1>4 DEF PurgeInv, JobOK
<1>7. DirectoriesOK'
  BY <1>1 DEF PurgeInv, DirectoriesOK
<1>8. ReceiptsOK'
  <2>1. \A m : Era(m)' = Era(m)
    BY <1>4, EraSame
  <2> QED
    BY <1>1, <1>4, <2>1 DEF PurgeInv, ReceiptsOK
<1>9. RowsOK'
  BY <1>1, <1>4 DEF PurgeInv, RowsOK, Purged
<1>10. CompleteOK'
  <2>1. /\ \A r \in ids \cup idsDisk : r[1] # ops[Receipt].machine
        /\ ops[Receipt].machine \notin DOMAIN names \cup DOMAIN namesDisk
    BY <1>1 DEF PurgeInv, UnderWay, Machine
  <2>2. ASSUME NEW o \in DOMAIN ops, ops'[o].complete
        PROVE  /\ Purged(o, idsDisk) /\ Purged(o, ids)
               /\ Unnamed(o, names) /\ Unnamed(o, namesDisk)
    <3>1. CASE o = Receipt
      BY <2>1, <3>1 DEF Purged, Unnamed
    <3>2. CASE o # Receipt
      BY <1>3, <1>4, <2>2, <3>2 DEF PurgeInv, CompleteOK
    <3> QED
      BY <3>1, <3>2
  <2> QED
    BY <1>1, <1>4, <2>2 DEF CompleteOK, Purged, Unnamed
<1>11. UnderWay'
  BY <1>1 DEF UnderWay
<1>12. RecoveredOK'
  <2>1. \A o \in DOMAIN ops : o # Receipt /\ ops[o].complete => ops'[o].complete
    BY <1>4
  <2>2. ops'[Receipt].complete
    BY <1>1, <1>3 DEF OpRecords
  <2>3. ASSUME proc' = "serving", recoveredActions', NEW o \in DOMAIN ops, ops[o].boot < boots
        PROVE  ops'[o].complete
    <3>1. CASE recoveredActions
      BY <1>1, <2>1, <2>2, <2>3, <3>1 DEF PurgeInv, RecoveredOK
    <3>2. CASE work' = {} /\ why = "recovery"
      BY <1>1, <2>1, <2>2, <2>3, <3>2 DEF PurgeInv, RecoveredOK
    <3> QED
      BY <1>1, <2>3, <3>1, <3>2
  <2>4. ASSUME why' = "recovery", NEW o \in DOMAIN ops, ops[o].boot < boots, ~ops'[o].complete
        PROVE  o \in work'
    BY <1>1, <2>1, <2>2, <2>4 DEF PurgeInv, RecoveredOK
  <2> QED
    BY <1>1, <1>4, <2>3, <2>4 DEF RecoveredOK
<1> QED
  BY <1>5, <1>6, <1>7, <1>8, <1>9, <1>10, <1>11, <1>12 DEF PurgeInv

LEMMA WriteFailsKeeps ==
    ASSUME PurgeInv, WriteFails
    PROVE  PurgeInv'
<1>1. /\ work' = {} /\ step' = "none" /\ why' = "none" /\ proc' \in {proc, "down"}
      /\ actionRecoveryFailed' \in BOOLEAN
      /\ UNCHANGED <<recoveredActions, identityDegraded, events, ops, names, namesDisk, ids,
                     idsDisk, boots>>
      /\ proc' # "cli"
  BY DEF WriteFails, GivenUp, Latch, PurgeInv, MachinesType
<1>2. MachinesType'
  BY <1>1 DEF PurgeInv, MachinesType
<1>3. JobOK'
  BY <1>1 DEF PurgeInv, JobOK
<1>4. DirectoriesOK'
  BY <1>1 DEF PurgeInv, DirectoriesOK
<1>5. ReceiptsOK'
  BY <1>1, ReceiptsStay DEF PurgeInv, MachinesType
<1>6. RowsOK'
  BY <1>1 DEF PurgeInv, RowsOK, Purged
<1>7. CompleteOK'
  BY <1>1 DEF PurgeInv, CompleteOK, Purged, Unnamed
<1>8. UnderWay'
  BY <1>1 DEF UnderWay
<1>9. RecoveredOK'
  BY <1>1 DEF PurgeInv, RecoveredOK
<1> QED
  BY <1>2, <1>3, <1>4, <1>5, <1>6, <1>7, <1>8, <1>9 DEF PurgeInv

-------------------------------------------------------------------------------
(* The theorems *)

LEMMA PurgeStep ==
    ASSUME PurgeInv, [PurgeNext]_purgeVars
    PROVE  PurgeInv'
<1>1. CASE UNCHANGED purgeVars
  <2>1. UNCHANGED <<proc, recoveredActions, actionRecoveryFailed, identityDegraded, events, ops,
                    names, namesDisk, ids, idsDisk, work, step, why, boots>>
    BY <1>1 DEF purgeVars, process, job
  <2>2. ReceiptsOK'
    BY <2>1, ReceiptsStay DEF PurgeInv, MachinesType
  <2>3. MachinesType'
    BY <2>1 DEF PurgeInv, MachinesType
  <2>4. JobOK'
    BY <2>1 DEF PurgeInv, JobOK
  <2>5. DirectoriesOK'
    BY <2>1 DEF PurgeInv, DirectoriesOK
  <2>6. RowsOK'
    BY <2>1 DEF PurgeInv, RowsOK, Purged
  <2>7. CompleteOK'
    BY <2>1 DEF PurgeInv, CompleteOK, Purged, Unnamed
  <2>8. UnderWay'
    BY <2>1 DEF PurgeInv, UnderWay, Machine, Receipt
  <2>9. RecoveredOK'
    BY <2>1 DEF PurgeInv, RecoveredOK
  <2> QED
    BY <2>2, <2>3, <2>4, <2>5, <2>6, <2>7, <2>8, <2>9 DEF PurgeInv
<1>2. CASE Boot
  BY <1>2, BootKeeps
<1>3. CASE Stop
  BY <1>3, StopKeeps
<1>4. CASE Recover
  BY <1>4, RecoverKeeps
<1>5. CASE \E m \in MachineIds, written \in Writes : Register(m, written)
  BY <1>5, RegisterKeeps DEF Writes
<1>6. CASE \E m \in MachineIds : Contribute(m)
  BY <1>6, ContributeKeeps
<1>7. CASE \E m \in MachineIds, written \in Writes : Identify(m, written)
  BY <1>7, IdentifyKeeps DEF Writes
<1>8. CASE \E m \in MachineIds, into \in MachineIds, written \in Writes : Merge(m, into, written)
  BY <1>8, MergeKeeps DEF Writes
<1>9. CASE \E m \in MachineIds : Purge(m)
  BY <1>9, PurgeKeeps
<1>10. CASE \E m \in MachineIds : PurgeOffline(m)
  BY <1>10, PurgeOfflineKeeps
<1>11. CASE DropIdentity
  BY <1>11, DropIdentityKeeps
<1>12. CASE DropName
  BY <1>12, DropNameKeeps
<1>13. CASE Complete
  BY <1>13, CompleteKeeps
<1>14. CASE WriteFails
  BY <1>14, WriteFailsKeeps
<1> QED
  BY <1>1, <1>2, <1>3, <1>4, <1>5, <1>6, <1>7, <1>8, <1>9, <1>10, <1>11, <1>12, <1>13, <1>14
  DEF PurgeNext

\* The inductive invariant of a purge holds in every reachable state: what the
\* receipts, the two directories in RAM and in their files, and the archive
\* owe one another, through failed writes, restarts and the offline command.
THEOREM PurgeInvariant == PurgeSpec => []PurgeInv
<1>1. PurgeInit => PurgeInv
  BY PurgeStarts
<1>2. PurgeInv /\ [PurgeNext]_purgeVars => PurgeInv'
  BY PurgeStep
<1> QED
  BY <1>1, <1>2, PTL DEF PurgeSpec

\* server.ts, index.ts: a purge whose receipt is complete left nothing that the
\* machine had before it, in the archive, in either directory, or on disk.
THEOREM PurgedIsGoneHolds == PurgeSpec => [](HubMachinesTypeOK /\ PurgedIsGone)
<1>1. PurgeInv => HubMachinesTypeOK
  BY DEF PurgeInv, HubMachinesTypeOK, MachinesType, JobOK, DirectoriesOK, IsDirectory
<1>2. ASSUME PurgeInv PROVE PurgedIsGone
  <2>1. ASSUME NEW o \in DOMAIN ops, ops[o].complete
        PROVE  /\ Purged(o, events) /\ Purged(o, idsDisk) /\ Unnamed(o, namesDisk)
               /\ proc # "down" => Purged(o, ids) /\ Unnamed(o, names)
    BY <1>2, <2>1 DEF PurgeInv, RowsOK, CompleteOK
  <2> QED
    BY <2>1 DEF PurgedIsGone, Purged, Unnamed
<1>3. PurgeSpec => []PurgeInv
  BY PurgeInvariant
<1>4. PurgeInv => HubMachinesTypeOK /\ PurgedIsGone
  BY <1>1, <1>2
<1> QED
  BY <1>3, <1>4, PTL

LEMMA AliasesStep ==
    ASSUME PurgeInv, AliasesOK, [PurgeNext]_purgeVars
    PROVE  AliasesOK'
<1>1. CASE UNCHANGED <<names, namesDisk>>
  BY <1>1 DEF AliasesOK, Resolves
<1>2. CASE names' = namesDisk /\ namesDisk' = namesDisk
  BY <1>2 DEF AliasesOK, Resolves
<1>3. CASE \E m \in MachineIds, written \in Writes : Register(m, written)
  BY <1>3, RegisterKeeps DEF Writes
<1>4. CASE \E m \in MachineIds, into \in MachineIds, written \in Writes : Merge(m, into, written)
  BY <1>4, MergeKeeps DEF Writes
<1>5. CASE DropName
  BY <1>5, DropNameKeeps
<1>6. CASE Boot
  BY <1>2, <1>6 DEF Boot
<1>7. CASE \E m \in MachineIds : PurgeOffline(m)
  BY <1>2, <1>7 DEF PurgeOffline
<1>8. CASE \/ Stop \/ Recover \/ \E m \in MachineIds : Contribute(m)
           \/ \E m \in MachineIds, written \in Writes : Identify(m, written)
           \/ \E m \in MachineIds : Purge(m)
           \/ DropIdentity \/ Complete \/ WriteFails
  BY <1>1, <1>8 DEF Stop, Recover, Contribute, Identify, Purge, DropIdentity, Complete, WriteFails
<1> QED
  BY <1>1, <1>3, <1>4, <1>5, <1>6, <1>7, <1>8 DEF PurgeNext, purgeVars

\* Following aliases ends, in RAM and in the file, whatever was merged, purged
\* and not written.
THEOREM AliasesResolveHolds == PurgeSpec => []AliasesResolve
<1>1. PurgeInit => AliasesOK
  BY DEF PurgeInit, AliasesOK, Resolves
<1>2. PurgeInv /\ AliasesOK /\ [PurgeNext]_purgeVars => AliasesOK'
  BY AliasesStep
<1>3. AliasesOK => AliasesResolve
  BY DEF AliasesOK, Resolves, AliasesResolve
<1>4. PurgeSpec => []PurgeInv
  BY PurgeInvariant
<1> QED
  BY <1>1, <1>2, <1>3, <1>4, PTL DEF PurgeSpec

\* The two together, for every number of machines, purges, failed writes and
\* processes: a complete purge left nothing, and aliases resolve.
THEOREM PurgeHoldsAlways == PurgeSpec => []PurgeHolds
<1>1. HubMachinesTypeOK /\ PurgedIsGone /\ AliasesResolve => PurgeHolds
  BY DEF PurgeHolds
<1> QED
  BY <1>1, PurgedIsGoneHolds, AliasesResolveHolds, PTL

\* A process that can read the identity file changes the archive only when no
\* purge of an earlier process is left half done.
THEOREM ServedAfterRecoveryHolds == PurgeSpec => ServedAfterRecovery
<1> DEFINE Serves == proc = "serving" /\ events' # events /\ ~identityDegraded =>
                        \A o \in DOMAIN ops : ops[o].boot < boots => ops[o].complete
<1>1. ASSUME PurgeInv, [PurgeNext]_purgeVars PROVE [Serves]_purgeVars
  <2> SUFFICES ASSUME proc = "serving", events' # events, ~identityDegraded
               PROVE  \A o \in DOMAIN ops : ops[o].boot < boots => ops[o].complete
    OBVIOUS
  <2>1. Served /\ ~actionRecoveryFailed
    <3>1. PurgeNext
      BY <1>1 DEF purgeVars
    <3>2. (\E m \in MachineIds : Contribute(m)) \/ (\E m \in MachineIds : Purge(m))
      BY <3>1
      DEF PurgeNext, Boot, Stop, Recover, Register, Identify, Merge, PurgeOffline, DropIdentity,
          DropName, Complete, WriteFails
    <3> QED
      BY <3>2 DEF Contribute, Purge
  <2>2. recoveredActions
    BY <1>1, <2>1, ServedIs
  <2> QED
    BY <1>1, <2>2 DEF PurgeInv, RecoveredOK
<1>2. PurgeSpec => []PurgeInv
  BY PurgeInvariant
<1>3. PurgeInv /\ [PurgeNext]_purgeVars => [Serves]_purgeVars
  BY <1>1
<1> QED
  BY <1>2, <1>3, PTL DEF PurgeSpec, ServedAfterRecovery

-------------------------------------------------------------------------------
(* The inductive invariant of a restore *)

DirStates == [mark : BOOLEAN, files : SUBSET Backup]

\* The files between two places of the order they are renamed in.
Between(i, j) == {Restored[k] : k \in i .. j}

\* With hub.json the backup is whole, and without the mark it is whole or not there.
DirFine(d) ==
    /\ hubFile \in d.files => d.files = Backup
    /\ d.files # {} /\ ~d.mark => d.files = Backup

\* Every state a loss of power may leave is fine, and what is whole stays whole.
DirsFine(ds) ==
    /\ ds \in Seq(DirStates) /\ ds # <<>>
    /\ \A i \in 1 .. Len(ds) : DirFine(ds[i])
    /\ \A i, j \in 1 .. Len(ds) : i <= j /\ ds[i].files = Backup => ds[j].files = Backup

\* What was copied, in the order it was copied in.
CopiedOK ==
    /\ Len(copied) \in 1 .. 3 /\ copied \in [1 .. Len(copied) -> Int]
    /\ \A i, j \in 1 .. Len(copied) : i <= j => copied[i] <= copied[j]
    /\ \A i \in 1 .. Len(copied) : copied[i] <= source

\* How far the restore is, and what the data dir holds by then.
RunOK ==
    /\ run \in {"none", "copying", "placing", "takingBack", "placed"}
    /\ run # "none" => ~own /\ Dir.mark
    /\ run = "copying" => CopiedOK /\ Dir.files = {} /\ renamed = 0 /\ back = 0
    /\ run \in {"placing", "placed"} =>
         /\ synced /\ spoilt = {} /\ back = 0
         /\ renamed \in 0 .. Len(Restored) /\ Dir.files = Between(1, renamed)
    /\ run = "takingBack" =>
         /\ renamed \in 0 .. Len(Restored) - 1 /\ back \in 0 .. renamed
         /\ Dir.files = Between(back + 1, renamed)
    /\ run = "placed" => Durable.files = Backup

\* Only whole and durable files make a data dir whole, and what was served is that.
WholeOK ==
    /\ Dir.files = Backup => synced /\ spoilt = {}
    /\ reported => Durable.files = Backup
    /\ booted # Unserved =>
         own /\ (booted = {} \/ (booted = Backup /\ synced /\ spoilt = {}))

RestoreInv == source \in Int /\ DirsFine(dirs) /\ RunOK /\ WholeOK

-------------------------------------------------------------------------------
(* The files, and the states of the directory *)

LEMMA FilesInOrder ==
    /\ Backup = Between(1, Len(Restored)) /\ hubFile \in Backup /\ Backup # {}
    /\ Between(1, 0) = {}
    /\ \A n \in 0 .. Len(Restored) : Between(n + 1, n) = {} /\ Between(1, n) \subseteq Backup
    /\ \A n \in 0 .. Len(Restored) - 1 : hubFile \notin Between(1, n)
<1>1. Len(Restored) \in Nat /\ Len(Restored) > 0 /\ Restored[Len(Restored)] = hubFile
      /\ \A i, j \in 1 .. Len(Restored) : Restored[i] = Restored[j] => i = j
  BY RestoreAssumption
<1>2. PICK N \in Nat : N = Len(Restored) /\ N > 0
  BY <1>1
<1>3. Backup = Between(1, N) /\ Restored[N] \in Backup
  BY <1>2 DEF Backup, Between
<1>4. ASSUME NEW n \in 0 .. N
      PROVE  Between(n + 1, n) = {} /\ Between(1, n) \subseteq Backup
  BY <1>2 DEF Between, Backup
<1>5. ASSUME NEW n \in 0 .. N - 1
      PROVE  Restored[N] \notin Between(1, n)
  BY <1>1, <1>2 DEF Between
<1>6. Between(1, 0) = {}
  BY DEF Between
<1> QED
  BY <1>1, <1>2, <1>3, <1>4, <1>5, <1>6

LEMMA StateAppended ==
    ASSUME NEW ds, DirsFine(ds), NEW d \in DirStates, DirFine(d),
           ds[Len(ds)].files = Backup => d.files = Backup
    PROVE  /\ DirsFine(Append(ds, d)) /\ Append(ds, d)[Len(Append(ds, d))] = d
           /\ Append(ds, d)[1] = ds[1]
<1>1. PICK es : es = Append(ds, d)
  OBVIOUS
<1>2. ds \in Seq(DirStates) /\ Len(ds) \in Nat /\ Len(ds) > 0
  BY EmptySeq, LenProperties DEF DirsFine
<1>3. /\ es \in Seq(DirStates) /\ Len(es) = Len(ds) + 1 /\ es[Len(ds) + 1] = d
      /\ \A i \in 1 .. Len(ds) : es[i] = ds[i]
  BY <1>1, <1>2, AppendProperties
<1>4. \A i \in 1 .. Len(es) : i \in 1 .. Len(ds) \/ i = Len(ds) + 1
  BY <1>2, <1>3
<1>5. \A i \in 1 .. Len(es) : DirFine(es[i])
  BY <1>3, <1>4 DEF DirsFine
<1>6. ASSUME NEW i \in 1 .. Len(es), NEW j \in 1 .. Len(es), i <= j, es[i].files = Backup
      PROVE  es[j].files = Backup
  <2>1. CASE i = Len(ds) + 1
    BY <1>2, <1>3, <1>6, <2>1
  <2>2. CASE i \in 1 .. Len(ds)
    <3>1. ds[i].files = Backup /\ Len(ds) \in 1 .. Len(ds) /\ i <= Len(ds)
      BY <1>2, <1>3, <1>6, <2>2
    <3>2. CASE j \in 1 .. Len(ds)
      BY <1>3, <1>6, <2>2, <3>1, <3>2 DEF DirsFine
    <3>3. CASE j = Len(ds) + 1
      BY <1>3, <2>2, <3>1, <3>3 DEF DirsFine
    <3> QED
      BY <1>4, <3>2, <3>3
  <2> QED
    BY <1>4, <2>1, <2>2
<1>7. es # <<>> /\ 1 \in 1 .. Len(ds)
  BY <1>2, <1>3, EmptySeq
<1> QED
  BY <1>1, <1>3, <1>5, <1>6, <1>7 DEF DirsFine

\* One state, one that may be left, is fine by itself.
LEMMA OneState ==
    ASSUME NEW ds, DirsFine(ds), NEW n \in 1 .. Len(ds)
    PROVE  /\ DirsFine(<<ds[n]>>) /\ <<ds[n]>>[1] = ds[n] /\ Len(<<ds[n]>>) = 1
           /\ ds[n] \in DirStates /\ DirFine(ds[n])
<1>1. ds[n] \in DirStates /\ DirFine(ds[n])
  BY DEF DirsFine
<1>2. PICK d : d = ds[n]
  OBVIOUS
<1>3. <<d>> \in Seq(DirStates) /\ Len(<<d>>) = 1 /\ <<d>>[1] = d /\ <<d>> # <<>>
  BY <1>1, <1>2
<1>4. DirsFine(<<d>>)
  <2>1. \A i \in 1 .. Len(<<d>>) : i = 1
    BY <1>3
  <2> QED
    BY <1>1, <1>2, <1>3, <2>1 DEF DirsFine
<1> QED
  BY <1>1, <1>2, <1>3, <1>4

LEMMA DirIsAState ==
    ASSUME DirsFine(dirs)
    PROVE  /\ Len(dirs) \in Nat /\ Len(dirs) \in 1 .. Len(dirs) /\ 1 \in 1 .. Len(dirs)
           /\ Dir \in DirStates /\ DirFine(Dir)
           /\ \A n \in 1 .. Len(dirs) : dirs[n].files = Backup => Dir.files = Backup
           /\ Durable.files = Backup => Dir.files = Backup
<1>1. Len(dirs) \in Nat /\ Len(dirs) > 0
  BY EmptySeq, LenProperties DEF DirsFine
<1>2. Len(dirs) \in 1 .. Len(dirs) /\ 1 \in 1 .. Len(dirs)
  BY <1>1
<1>3. Dir \in DirStates /\ DirFine(Dir)
  BY <1>2 DEF Dir, DirsFine
<1>4. \A n \in 1 .. Len(dirs) : dirs[n].files = Backup => Dir.files = Backup
  BY <1>1, <1>2 DEF Dir, DirsFine
<1> QED
  BY <1>1, <1>2, <1>3, <1>4 DEF Durable

\* What a change of the directory leaves.
LEMMA ChangeKeeps ==
    ASSUME DirsFine(dirs), NEW d \in DirStates, DirFine(d), Changes(d),
           Dir.files = Backup => d.files = Backup
    PROVE  DirsFine(dirs') /\ Dir' = d /\ Durable' = Durable
<1>1. /\ DirsFine(Append(dirs, d)) /\ Append(dirs, d)[Len(Append(dirs, d))] = d
      /\ Append(dirs, d)[1] = dirs[1]
  BY StateAppended DEF Dir
<1> QED
  BY <1>1 DEF Changes, Dir, Durable

LEMMA SyncedKeeps ==
    ASSUME DirsFine(dirs), Synced
    PROVE  DirsFine(dirs') /\ Dir' = Dir /\ Durable' = Dir
<1>1. Len(dirs) \in 1 .. Len(dirs)
  BY DirIsAState
<1>2. DirsFine(<<Dir>>) /\ <<Dir>>[1] = Dir /\ Len(<<Dir>>) = 1
  BY <1>1, OneState DEF Dir
<1>3. dirs' = <<Dir>>
  BY DEF Synced
<1>4. Dir' = dirs'[Len(dirs')] /\ Durable' = dirs'[1]
  BY DEF Dir, Durable
<1> QED
  BY <1>2, <1>3, <1>4

LEMMA MarkedIs ==
    ASSUME NEW d \in DirStates, NEW m \in BOOLEAN
    PROVE  Marked(d, m) \in DirStates /\ Marked(d, m).mark = m /\ Marked(d, m).files = d.files
BY DEF Marked, DirStates

-------------------------------------------------------------------------------
(* The steps *)

LEMMA SameDir ==
    ASSUME UNCHANGED dirs
    PROVE  Dir' = Dir /\ Durable' = Durable
BY DEF Dir, Durable

LEMMA BeginRestoreKeeps ==
    ASSUME RestoreInv, BeginRestore
    PROVE  RestoreInv'
<1>0. /\ DirsFine(dirs) /\ source \in Int /\ ~own /\ Dir.files = {} /\ run' = "copying"
      /\ copied' = <<source>> /\ synced' = FALSE /\ renamed' = 0 /\ back' = 0 /\ spoilt' = {}
      /\ source' = source /\ own' = own /\ booted' = booted /\ reported' = reported
  BY DEF RestoreInv, BeginRestore
<1>1. Dir \in DirStates /\ DirFine(Dir) /\ Len(dirs) \in Nat
  BY <1>0, DirIsAState
<1>2. Backup # {} /\ hubFile \in Backup
  BY FilesInOrder
<1>3. PICK a : a = Marked(Dir, FALSE)
  OBVIOUS
<1>4. PICK b : b = Marked(Dir, TRUE)
  OBVIOUS
<1>5. a \in DirStates /\ a.mark = FALSE /\ a.files = {} /\ DirFine(a)
  BY <1>0, <1>1, <1>3, MarkedIs DEF DirFine
<1>6. b \in DirStates /\ b.mark = TRUE /\ b.files = {} /\ DirFine(b)
  BY <1>0, <1>1, <1>4, MarkedIs DEF DirFine
<1>7. DirsFine(dirs') /\ Dir'.mark = TRUE /\ Dir'.files = {} /\ Durable' = Durable
  <2>1. Dir' = dirs'[Len(dirs')] /\ Durable' = dirs'[1] /\ Durable = dirs[1]
        /\ Dir = dirs[Len(dirs)]
    BY DEF Dir, Durable
  <2>2. CASE Dir.mark
    <3>1. PICK one : one = Append(dirs, a)
      OBVIOUS
    <3>2. PICK two : two = Append(one, Dir)
      OBVIOUS
    <3>3. DirsFine(one) /\ one[Len(one)] = a /\ one[1] = dirs[1]
      BY <1>0, <1>2, <1>5, <2>1, <3>1, StateAppended
    <3>4. DirsFine(two) /\ two[Len(two)] = Dir /\ two[1] = one[1]
      BY <1>1, <1>2, <1>5, <3>2, <3>3, StateAppended
    <3>5. dirs' = dirs \o <<a, Dir>>
      BY <1>3, <2>2 DEF BeginRestore
    <3>6. dirs' = two
      <4>1. dirs \in Seq(DirStates) /\ a \in DirStates /\ Dir \in DirStates
        BY <1>0, <1>1, <1>5 DEF DirsFine
      <4> QED
        BY <3>1, <3>2, <3>5, <4>1
    <3> QED
      BY <1>0, <2>1, <2>2, <3>3, <3>4, <3>6
  <2>3. CASE ~Dir.mark
    <3>1. PICK one : one = Append(dirs, b)
      OBVIOUS
    <3>2. DirsFine(one) /\ one[Len(one)] = b /\ one[1] = dirs[1]
      BY <1>0, <1>2, <1>6, <2>1, <3>1, StateAppended
    <3>3. dirs' = dirs \o <<b>>
      BY <1>4, <2>3 DEF BeginRestore
    <3>4. dirs' = one
      <4>1. dirs \in Seq(DirStates) /\ b \in DirStates
        BY <1>0, <1>6 DEF DirsFine
      <4> QED
        BY <3>1, <3>3, <4>1
    <3> QED
      BY <1>6, <2>1, <3>2, <3>4
  <2> QED
    BY <2>2, <2>3
<1>8. CopiedOK'
  <2>1. PICK c : c = <<source>>
    OBVIOUS
  <2>2. Len(c) = 1 /\ c[1] = source /\ c \in [1 .. 1 -> Int]
    BY <1>0, <2>1
  <2>3. \A i \in 1 .. 1 : i = 1
    OBVIOUS
  <2> QED
    BY <1>0, <2>1, <2>2, <2>3 DEF CopiedOK
<1>9. RunOK'
  BY <1>0, <1>7, <1>8 DEF RunOK
<1>10. WholeOK'
  <2>1. ~reported
    BY <1>0, <1>2, DirIsAState DEF RestoreInv, WholeOK
  <2>2. booted = Unserved
    BY <1>0 DEF RestoreInv, WholeOK
  <2> QED
    BY <1>0, <1>2, <1>7, <2>1, <2>2 DEF WholeOK
<1> QED
  BY <1>0, <1>7, <1>9, <1>10 DEF RestoreInv

LEMMA SourceWriteKeeps ==
    ASSUME RestoreInv, SourceWrite
    PROVE  RestoreInv'
<1>1. /\ source \in Int /\ source' = source + 1 /\ run = "copying"
      /\ UNCHANGED <<dirs, run, copied, synced, renamed, back, spoilt, own, booted, reported>>
  BY DEF RestoreInv, SourceWrite
<1>2. Dir' = Dir /\ Durable' = Durable /\ DirsFine(dirs')
  BY <1>1, SameDir DEF RestoreInv
<1>3. CopiedOK'
  <2>1. CopiedOK
    BY <1>1 DEF RestoreInv, RunOK
  <2>2. \A i \in 1 .. Len(copied) : copied[i] <= source + 1
    BY <1>1, <2>1 DEF CopiedOK
  <2> QED
    BY <1>1, <2>1, <2>2 DEF CopiedOK
<1> QED
  BY <1>1, <1>2, <1>3 DEF RestoreInv, RunOK, WholeOK

LEMMA CopyPartKeeps ==
    ASSUME RestoreInv, CopyPart
    PROVE  RestoreInv'
<1>1. /\ source \in Int /\ run = "copying" /\ Len(copied) < 3
      /\ copied' = Append(copied, source)
      /\ UNCHANGED <<dirs, run, source, synced, renamed, back, spoilt, own, booted, reported>>
  BY DEF RestoreInv, CopyPart
<1>2. Dir' = Dir /\ Durable' = Durable /\ DirsFine(dirs')
  BY <1>1, SameDir DEF RestoreInv
<1>3. CopiedOK
  BY <1>1 DEF RestoreInv, RunOK
<1>4. PICK N \in 1 .. 2 : N = Len(copied)
  BY <1>1, <1>3 DEF CopiedOK
<1>5. PICK c : c = Append(copied, source)
  OBVIOUS
<1>6. copied \in Seq(Int)
  <2>1. PICK S : S = Int
    OBVIOUS
  <2>2. PICK d : d = copied
    OBVIOUS
  <2>3. d \in [1 .. N -> S] /\ N \in Nat
    BY <1>3, <1>4, <2>1, <2>2 DEF CopiedOK
  <2>4. d \in Seq(S)
    BY <2>3, SeqDef
  <2> QED
    BY <2>1, <2>2, <2>4
<1>7. /\ Len(c) = N + 1 /\ c \in [1 .. N + 1 -> Int] /\ c[N + 1] = source
      /\ \A i \in 1 .. N : c[i] = copied[i]
  <2>1. PICK d : d = copied
    OBVIOUS
  <2>2. PICK v \in Int : v = source
    BY <1>1
  <2>3. d \in Seq(Int) /\ Len(d) = N /\ c = Append(d, v)
    BY <1>4, <1>5, <1>6, <2>1, <2>2
  <2>4. c \in Seq(Int) /\ Len(c) = N + 1 /\ c[N + 1] = v /\ \A i \in 1 .. N : c[i] = d[i]
    BY <2>3, AppendProperties
  <2>5. c \in [1 .. N + 1 -> Int]
    BY <2>4
  <2> QED
    BY <2>1, <2>2, <2>4, <2>5
<1>8. \A i \in 1 .. N + 1 : c[i] <= source
  BY <1>1, <1>3, <1>4, <1>7 DEF CopiedOK
<1>9. \A i, j \in 1 .. N + 1 : i <= j => c[i] <= c[j]
  <2> SUFFICES ASSUME NEW i \in 1 .. N + 1, NEW j \in 1 .. N + 1, i <= j
               PROVE  c[i] <= c[j]
    OBVIOUS
  <2>1. CASE j = N + 1
    BY <1>7, <1>8, <2>1
  <2>2. CASE j \in 1 .. N
    <3>1. i \in 1 .. N
      BY <2>2
    <3> QED
      BY <1>3, <1>4, <1>7, <2>2, <3>1 DEF CopiedOK
  <2> QED
    BY <2>1, <2>2
<1>10. CopiedOK'
  BY <1>1, <1>4, <1>5, <1>7, <1>8, <1>9 DEF CopiedOK
<1> QED
  BY <1>1, <1>2, <1>10 DEF RestoreInv, RunOK, WholeOK

\* The mark is taken away where nothing was placed, or everything.
LEMMA UnmarkKeeps ==
    ASSUME RestoreInv, Leave(FALSE), Dir.files = {} \/ Dir.files = Backup,
           UNCHANGED <<source, synced, spoilt, own, booted>>,
           reported' => reported \/ Durable.files = Backup
    PROVE  RestoreInv'
<1>1. DirsFine(dirs) /\ Dir \in DirStates /\ Changes(Marked(Dir, FALSE)) /\ run' = "none"
  BY DirIsAState DEF RestoreInv, Leave
<1>2. PICK d : d = Marked(Dir, FALSE)
  OBVIOUS
<1>3. d \in DirStates /\ d.files = Dir.files /\ d.mark = FALSE
  BY <1>1, <1>2, MarkedIs
<1>4. hubFile \in Backup
  BY FilesInOrder
<1>5. DirFine(d)
  BY <1>3, <1>4 DEF DirFine
<1>6. DirsFine(dirs') /\ Dir' = d /\ Durable' = Durable
  BY <1>1, <1>2, <1>3, <1>5, ChangeKeeps
<1>7. RunOK'
  BY <1>1 DEF RunOK
<1>8. WholeOK'
  BY <1>3, <1>6 DEF RestoreInv, WholeOK
<1> QED
  BY <1>6, <1>7, <1>8 DEF RestoreInv

LEMMA CheckStagedKeeps ==
    ASSUME RestoreInv, CheckStaged
    PROVE  RestoreInv'
<1>1. /\ run = "copying" /\ Len(copied) = 3 /\ CopiedOK /\ Dir.files = {} /\ Dir.mark
      /\ renamed = 0 /\ back = 0 /\ ~own /\ source \in Int /\ DirsFine(dirs)
      /\ UNCHANGED <<source, copied, renamed, back, own, booted, reported>>
  BY DEF RestoreInv, RunOK, CheckStaged
<1>2. CASE Untouched
  <2>1. /\ run' = "placing" /\ synced' = TRUE /\ Synced
        /\ spoilt' = IF copied[2] = copied[3] THEN {} ELSE {archiveFile}
    BY <1>2 DEF CheckStaged
  <2>2. DirsFine(dirs') /\ Dir' = Dir /\ Durable' = Dir
    BY <1>1, <2>1, SyncedKeeps
  <2>3. copied[2] = copied[3]
    <3>1. copied[1] \in Int /\ copied[2] \in Int /\ copied[3] \in Int
      BY <1>1 DEF CopiedOK
    <3>2. copied[1] <= copied[2] /\ copied[2] <= copied[3] /\ copied[3] <= source
      BY <1>1 DEF CopiedOK
    <3>3. copied[1] = source
      BY <1>2 DEF Untouched
    <3> QED
      BY <1>1, <3>1, <3>2, <3>3
  <2>4. Between(1, 0) = {} /\ 0 \in 0 .. Len(Restored)
    BY FilesInOrder, RestoreAssumption
  <2>5. RunOK'
    <3>1. /\ run' = "placing" /\ ~own' /\ synced' /\ spoilt' = {} /\ back' = 0
          /\ renamed' = 0 /\ Dir' = Dir
      BY <1>1, <2>1, <2>2, <2>3
    <3>2. Dir'.files = Between(1, 0) /\ Dir'.mark
      BY <1>1, <2>4, <3>1
    <3> QED
      BY <2>4, <3>1, <3>2 DEF RunOK
  <2>6. ~reported /\ booted = Unserved
    BY <1>1, FilesInOrder, DirIsAState DEF RestoreInv, WholeOK
  <2>7. WholeOK'
    BY <1>1, <2>1, <2>3, <2>6 DEF WholeOK
  <2> QED
    BY <1>1, <2>2, <2>5, <2>7 DEF RestoreInv
<1>3. CASE ~Untouched
  <2>1. Leave(FALSE) /\ UNCHANGED <<synced, spoilt>>
    BY <1>3 DEF CheckStaged
  <2> QED
    BY <1>1, <2>1, UnmarkKeeps
<1> QED
  BY <1>2, <1>3

LEMMA RenameKeeps ==
    ASSUME RestoreInv, Rename
    PROVE  RestoreInv'
<1>1. /\ run = "placing" /\ synced /\ spoilt = {} /\ back = 0 /\ ~own /\ Dir.mark
      /\ renamed \in 0 .. Len(Restored) /\ renamed < Len(Restored)
      /\ Dir.files = Between(1, renamed) /\ renamed' = renamed + 1 /\ DirsFine(dirs)
      /\ Changes(Placing(Dir, Restored[renamed + 1]))
      /\ UNCHANGED <<run, source, synced, back, spoilt, own, booted, reported>>
  BY DEF RestoreInv, RunOK, Rename, Placed
<1>2. PICK N \in Nat : N = Len(Restored) /\ N > 0
  BY RestoreAssumption
<1>3. PICK k \in 0 .. N - 1 : k = renamed
  BY <1>1, <1>2
<1>4. PICK d : d = Placing(Dir, Restored[k + 1])
  OBVIOUS
<1>5. Dir \in DirStates
  BY <1>1, DirIsAState
<1>6. /\ d.files = Between(1, k) \cup {Restored[k + 1]} /\ d.mark
      /\ d = [mark |-> TRUE, files |-> d.files]
  BY <1>1, <1>3, <1>4, <1>5 DEF Placing, DirStates
<1>7. d.files = Between(1, k + 1)
  <2>1. 1 .. k + 1 = (1 .. k) \cup {k + 1}
    OBVIOUS
  <2> QED
    BY <1>6, <2>1 DEF Between
<1>8. d \in DirStates
  <2>1. k + 1 \in 0 .. N
    OBVIOUS
  <2>2. d.files \subseteq Backup
    BY <1>2, <1>7, <2>1, FilesInOrder
  <2> QED
    BY <1>6, <2>2 DEF DirStates
<1>9. hubFile \in d.files => d.files = Backup
  <2>1. CASE k + 1 = N
    BY <1>2, <1>7, <2>1, FilesInOrder
  <2>2. CASE k + 1 \in 0 .. N - 1
    BY <1>2, <1>7, <2>2, FilesInOrder
  <2> QED
    BY <2>1, <2>2
<1>10. DirFine(d)
  BY <1>6, <1>9 DEF DirFine
<1>11. Dir.files # Backup
  BY <1>1, <1>2, <1>3, FilesInOrder
<1>12. DirsFine(dirs') /\ Dir' = d /\ Durable' = Durable
  BY <1>1, <1>3, <1>4, <1>8, <1>10, <1>11, ChangeKeeps
<1>13. RunOK'
  <2>1. /\ run' = "placing" /\ ~own' /\ synced' /\ spoilt' = {} /\ back' = 0
        /\ renamed' = k + 1 /\ Dir' = d
    BY <1>1, <1>3, <1>12
  <2>2. renamed' \in 0 .. Len(Restored) /\ Dir'.files = Between(1, renamed') /\ Dir'.mark
    BY <1>2, <1>6, <1>7, <2>1
  <2> QED
    BY <2>1, <2>2 DEF RunOK
<1>14. WholeOK'
  BY <1>1, <1>12 DEF RestoreInv, WholeOK
<1> QED
  BY <1>1, <1>12, <1>13, <1>14 DEF RestoreInv

LEMMA RenameFailsKeeps ==
    ASSUME RestoreInv, RenameFails
    PROVE  RestoreInv'
<1>1. /\ run = "placing" /\ synced /\ spoilt = {} /\ back = 0 /\ ~own /\ Dir.mark
      /\ renamed \in 0 .. Len(Restored) /\ renamed < Len(Restored)
      /\ Dir.files = Between(1, renamed) /\ run' = "takingBack"
      /\ UNCHANGED <<dirs, source, synced, renamed, back, spoilt, own, booted, reported>>
  BY DEF RestoreInv, RunOK, RenameFails
<1>2. Dir' = Dir /\ Durable' = Durable /\ DirsFine(dirs')
  BY <1>1, SameDir DEF RestoreInv
<1>3. Len(Restored) \in Nat
  BY RestoreAssumption
<1>4. /\ renamed \in 0 .. Len(Restored) - 1 /\ back \in 0 .. renamed
      /\ Dir.files = Between(back + 1, renamed)
  BY <1>1, <1>3
<1>5. RunOK'
  BY <1>1, <1>2, <1>4 DEF RunOK
<1> QED
  BY <1>1, <1>2, <1>5 DEF RestoreInv, WholeOK

LEMMA TakeOneBackKeeps ==
    ASSUME RestoreInv, TakeOneBack
    PROVE  RestoreInv'
<1>1. /\ run = "takingBack" /\ ~own /\ Dir.mark /\ DirsFine(dirs)
      /\ renamed \in 0 .. Len(Restored) - 1 /\ back \in 0 .. renamed /\ back < renamed
      /\ Dir.files = Between(back + 1, renamed) /\ back' = back + 1
      /\ Changes(Removing(Dir, Restored[back + 1]))
      /\ UNCHANGED <<run, source, synced, renamed, spoilt, own, booted, reported>>
  BY DEF RestoreInv, RunOK, TakeOneBack, Placed
<1>2. PICK N \in Nat : N = Len(Restored) /\ N > 0
                       /\ \A i, j \in 1 .. N : Restored[i] = Restored[j] => i = j
  BY RestoreAssumption
<1>3. PICK k \in 0 .. N - 1 : k = renamed
  BY <1>1, <1>2
<1>4. PICK l \in 0 .. k : l = back /\ l < k
  BY <1>1, <1>3
<1>5. PICK d : d = Removing(Dir, Restored[l + 1])
  OBVIOUS
<1>6. Dir \in DirStates
  BY <1>1, DirIsAState
<1>7. /\ d.files = Between(l + 1, k) \ {Restored[l + 1]} /\ d.mark
      /\ d = [mark |-> TRUE, files |-> d.files]
  BY <1>1, <1>3, <1>4, <1>5, <1>6 DEF Removing, DirStates
<1>8. d.files = Between(l + 2, k)
  <2>1. l + 1 .. k = {l + 1} \cup (l + 2 .. k) /\ l + 1 .. k \subseteq 1 .. N
    BY <1>4
  <2>2. \A i \in l + 2 .. k : Restored[i] # Restored[l + 1]
    <3>1. \A i \in l + 2 .. k : i \in 1 .. N /\ i # l + 1 /\ l + 1 \in 1 .. N
      BY <1>4
    <3> QED
      BY <1>2, <3>1
  <2> QED
    BY <1>7, <2>1, <2>2 DEF Between
<1>9. d.files \subseteq Between(1, k)
  <2>1. l + 2 .. k \subseteq 1 .. k
    BY <1>4
  <2> QED
    BY <1>8, <2>1 DEF Between
<1>10. Between(1, k) \subseteq Backup /\ hubFile \notin Between(1, k) /\ hubFile \in Backup
  <2>1. k \in 0 .. N
    OBVIOUS
  <2> QED
    BY <1>2, <2>1, FilesInOrder
<1>11. d \in DirStates /\ DirFine(d)
  BY <1>7, <1>9, <1>10 DEF DirFine, DirStates
<1>12. Dir.files # Backup
  <2>1. Dir.files \subseteq Between(1, k)
    <3>1. l + 1 .. k \subseteq 1 .. k
      BY <1>4
    <3> QED
      BY <1>1, <1>3, <1>4, <3>1 DEF Between
  <2> QED
    BY <1>10, <2>1
<1>13. DirsFine(dirs') /\ Dir' = d /\ Durable' = Durable
  BY <1>1, <1>4, <1>5, <1>11, <1>12, ChangeKeeps
<1>14. RunOK'
  <2>1. back' \in 0 .. renamed' /\ renamed' \in 0 .. Len(Restored) - 1
        /\ Dir'.files = Between(back' + 1, renamed')
    BY <1>1, <1>2, <1>3, <1>4, <1>8, <1>13
  <2> QED
    BY <1>1, <1>7, <1>13, <2>1 DEF RunOK
<1>15. d.files # Backup
  BY <1>9, <1>10
<1>16. WholeOK'
  BY <1>1, <1>13, <1>15 DEF RestoreInv, WholeOK
<1> QED
  BY <1>1, <1>13, <1>14, <1>16 DEF RestoreInv

\* A restore that stops where it is, marked or not.
LEMMA HaltKeeps ==
    ASSUME RestoreInv, run' = "none",
           UNCHANGED <<dirs, source, synced, spoilt, own, booted, reported>>
    PROVE  RestoreInv'
<1>1. Dir' = Dir /\ Durable' = Durable /\ DirsFine(dirs')
  BY SameDir DEF RestoreInv
<1> QED
  BY <1>1 DEF RestoreInv, RunOK, WholeOK

LEMMA EndsKeep ==
    ASSUME RestoreInv,
           \/ CopyFails \/ TakenBack \/ TakeBackFails \/ SyncDirFails \/ Report \/ Killed
    PROVE  RestoreInv'
<1>1. CASE CopyFails
  <2>1. Dir.files = {}
    BY <1>1 DEF CopyFails, RestoreInv, RunOK
  <2> QED
    BY <1>1, <2>1, UnmarkKeeps DEF CopyFails
<1>2. CASE TakenBack
  <2>1. /\ renamed \in 0 .. Len(Restored) - 1 /\ back = renamed
        /\ Dir.files = Between(back + 1, renamed)
    BY <1>2 DEF TakenBack, RestoreInv, RunOK
  <2>2. Between(renamed + 1, renamed) = {}
    <3>1. renamed \in 0 .. Len(Restored)
      BY <2>1, RestoreAssumption
    <3> QED
      BY <3>1, FilesInOrder
  <2> QED
    BY <1>2, <2>1, <2>2, UnmarkKeeps DEF TakenBack
<1>3. CASE TakeBackFails
  BY <1>3, HaltKeeps DEF TakeBackFails, Leave, KeepsMark
<1>4. CASE SyncDirFails
  BY <1>4, HaltKeeps DEF SyncDirFails, Leave, KeepsMark
<1>5. CASE Report
  <2>1. Durable.files = Backup
    BY <1>5 DEF Report, RestoreInv, RunOK
  <2>2. Dir.files = Backup
    BY <2>1, DirIsAState DEF RestoreInv
  <2> QED
    BY <1>5, <2>1, <2>2, UnmarkKeeps DEF Report
<1>6. CASE Killed
  BY <1>6, HaltKeeps DEF Killed
<1> QED
  BY <1>1, <1>2, <1>3, <1>4, <1>5, <1>6

LEMMA SyncDirKeeps ==
    ASSUME RestoreInv, SyncDir
    PROVE  RestoreInv'
<1>1. /\ run = "placing" /\ synced /\ spoilt = {} /\ back = 0 /\ ~own /\ Dir.mark
      /\ renamed \in 0 .. Len(Restored) /\ renamed = Len(Restored)
      /\ Dir.files = Between(1, renamed) /\ run' = "placed" /\ Synced /\ DirsFine(dirs)
      /\ UNCHANGED <<source, synced, renamed, back, spoilt, own, booted, reported>>
  BY DEF RestoreInv, RunOK, SyncDir
<1>2. DirsFine(dirs') /\ Dir' = Dir /\ Durable' = Dir
  BY <1>1, SyncedKeeps
<1>3. Dir.files = Backup
  BY <1>1, FilesInOrder
<1>4. RunOK'
  BY <1>1, <1>2, <1>3 DEF RunOK
<1>5. WholeOK'
  BY <1>1, <1>2, <1>3 DEF RestoreInv, WholeOK
<1> QED
  BY <1>1, <1>2, <1>4, <1>5 DEF RestoreInv

LEMMA PowerLossKeeps ==
    ASSUME RestoreInv, PowerLoss
    PROVE  RestoreInv'
<1>1. PICK n \in 1 .. Len(dirs) :
        /\ dirs' = <<dirs[n]>> /\ spoilt' = (IF synced THEN spoilt ELSE Backup)
        /\ run' = "none"
        /\ UNCHANGED <<source, synced, own, booted, reported>>
  BY DEF PowerLoss
<1>2. DirsFine(dirs)
  BY DEF RestoreInv
<1>3. DirsFine(dirs') /\ dirs'[1] = dirs[n] /\ Len(dirs') = 1
  BY <1>1, <1>2, OneState
<1>4. Dir' = dirs[n] /\ Durable' = dirs[n]
  BY <1>3 DEF Dir, Durable
<1>5. RunOK'
  BY <1>1 DEF RunOK
<1>6. dirs[n].files = Backup => Dir.files = Backup
  BY <1>2, DirIsAState
<1>7. Durable.files = Backup => dirs[n].files = Backup
  <2>1. 1 \in 1 .. Len(dirs) /\ 1 <= n
    BY <1>2, DirIsAState
  <2> QED
    BY <1>2, <2>1 DEF Durable, DirsFine
<1>8. WholeOK'
  BY <1>1, <1>4, <1>6, <1>7 DEF RestoreInv, WholeOK
<1> QED
  BY <1>1, <1>3, <1>5, <1>8 DEF RestoreInv

LEMMA ServeDataKeeps ==
    ASSUME RestoreInv, ServeData
    PROVE  RestoreInv'
<1>1. /\ run = "none" /\ ~Dir.mark /\ booted' = Dir.files /\ own' = TRUE
      /\ UNCHANGED <<dirs, run, source, synced, spoilt, reported>>
  BY DEF ServeData
<1>2. Dir' = Dir /\ Durable' = Durable /\ DirsFine(dirs')
  BY <1>1, SameDir DEF RestoreInv
<1>3. Dir.files = {} \/ (Dir.files = Backup /\ synced /\ spoilt = {})
  BY <1>1, DirIsAState DEF RestoreInv, WholeOK, DirFine
<1>4. RunOK'
  BY <1>1 DEF RunOK
<1>5. WholeOK'
  BY <1>1, <1>2, <1>3 DEF RestoreInv, WholeOK
<1> QED
  BY <1>1, <1>2, <1>4, <1>5 DEF RestoreInv

-------------------------------------------------------------------------------
(* The theorems of a restore *)

LEMMA StagingStarts == StagingInit => RestoreInv
<1> SUFFICES ASSUME StagingInit PROVE RestoreInv
  OBVIOUS
<1>1. PICK d : d = [mark |-> FALSE, files |-> {}]
  OBVIOUS
<1>2. d \in DirStates /\ d.files = {} /\ DirFine(d)
  BY <1>1 DEF DirStates, DirFine
<1>3. dirs = <<d>> /\ Len(dirs) = 1 /\ dirs[1] = d
  BY <1>1 DEF StagingInit
<1>4. DirsFine(dirs)
  <2>1. dirs \in Seq(DirStates) /\ dirs # <<>>
    BY <1>2, <1>3
  <2>2. \A i \in 1 .. Len(dirs) : i = 1
    BY <1>3
  <2> QED
    BY <1>2, <1>3, <2>1, <2>2 DEF DirsFine
<1>5. Dir = d /\ Durable = d
  BY <1>3 DEF Dir, Durable
<1>6. Backup # {}
  BY FilesInOrder
<1> QED
  BY <1>2, <1>4, <1>5, <1>6 DEF StagingInit, RestoreInv, RunOK, WholeOK

LEMMA StagingStep == RestoreInv /\ [StagingNext]_stagingVars => RestoreInv'
<1> SUFFICES ASSUME RestoreInv, [StagingNext]_stagingVars PROVE RestoreInv'
  OBVIOUS
<1>1. CASE BeginRestore
  BY <1>1, BeginRestoreKeeps
<1>2. CASE SourceWrite
  BY <1>2, SourceWriteKeeps
<1>3. CASE CopyPart
  BY <1>3, CopyPartKeeps
<1>4. CASE CheckStaged
  BY <1>4, CheckStagedKeeps
<1>5. CASE Rename
  BY <1>5, RenameKeeps
<1>6. CASE RenameFails
  BY <1>6, RenameFailsKeeps
<1>7. CASE TakeOneBack
  BY <1>7, TakeOneBackKeeps
<1>8. CASE CopyFails \/ TakenBack \/ TakeBackFails \/ SyncDirFails \/ Report \/ Killed
  BY <1>8, EndsKeep
<1>9. CASE SyncDir
  BY <1>9, SyncDirKeeps
<1>10. CASE PowerLoss
  BY <1>10, PowerLossKeeps
<1>11. CASE ServeData
  BY <1>11, ServeDataKeeps
<1>12. CASE UNCHANGED stagingVars
  <2>1. Dir' = Dir /\ Durable' = Durable
    BY <1>12, SameDir DEF stagingVars
  <2> QED
    BY <1>12, <2>1 DEF stagingVars, RestoreInv, RunOK, WholeOK, CopiedOK
<1> QED
  BY <1>1, <1>2, <1>3, <1>4, <1>5, <1>6, <1>7, <1>8, <1>9, <1>10, <1>11, <1>12 DEF StagingNext

\* The inductive invariant of a restore: every state that a loss of power may
\* leave of the data dir is marked, empty or whole, and holds hub.json only when
\* whole (restore.ts:60-63, 91-99).
THEOREM RestoreInvariant == StagingSpec => []RestoreInv
BY StagingStarts, StagingStep, PTL DEF StagingSpec

\* Of any sequence of files, through any kills, failures, losses of power and
\* writers of the backup: what is served is empty or the whole backup, hub.json
\* means a whole restore, and what was reported survives a loss of power.
THEOREM RestoreIsWholeHolds == StagingSpec => []RestoreIsWhole
<1>1. RestoreInv => RestoreIsWhole
  <2> SUFFICES ASSUME RestoreInv PROVE RestoreIsWhole
    OBVIOUS
  <2>1. DirFine(Dir)
    BY DirIsAState DEF RestoreInv
  <2> QED
    BY <2>1 DEF RestoreInv, WholeOK, DirFine, RestoreIsWhole, ServesWhole, HubMeansWhole,
        ReportedIsDurable
<1> QED
  BY <1>1, RestoreInvariant, PTL

===============================================================================
