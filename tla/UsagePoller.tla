------------------------------ MODULE UsagePoller ------------------------------
(***************************************************************************)
(* The poller of the usage limits (packages/usage-core/src/poller.ts): one *)
(* key, one timer, a read in flight per tracked Organization, and a fence  *)
(* that ends what is in flight when the key, the tracked set or the owner  *)
(* of polling changes.  Its calls are functions on the record `poller`, so *)
(* that its two owners compose them: here a client, which hands polling to *)
(* its Hub and takes it back; in PollSet the Hub.  Deadlines are a timer   *)
(* that is armed or not; a reading is the key and the Organization it was  *)
(* asked for.                                                              *)
(***************************************************************************)
EXTENDS Integers, FiniteSets

CONSTANTS Organizations, AccessKeys, NULL, MaxReads     \* reads in flight at a time

VARIABLES
    poller,          \* the poller's own state
    onHub            \* the client's connection: the Hub polls

pollerVars == <<poller, onHub>>

New == [credential |-> NULL, expired |-> FALSE, refused |-> NULL, running |-> FALSE,
        suspended |-> FALSE, remote |-> FALSE, tracked |-> {}, timer |-> FALSE,
        batch |-> FALSE, reads |-> {}]

\* canPoll: this process is the one that reads, and has a key to read with.
CanPoll(p) == ~p.suspended /\ ~p.remote /\ p.credential # NULL /\ ~p.expired

\* fence: a new epoch.  What was asked in an earlier one cannot land.
Fenced(p) == [p EXCEPT !.timer = FALSE, !.batch = FALSE,
                       !.reads = {[r EXCEPT !.live = FALSE] : r \in @}]

\* schedule: the timer is armed for the next deadline, unless a batch is out.
Scheduled(p) == [p EXCEPT !.timer = p.running /\ CanPoll(p) /\ ~p.batch /\ p.tracked # {}]

Held(p, o) == \E r \in p.reads : r.live /\ r.org = o

\* pollOrganization, of each in os that has no read of this epoch out.
Asked(p, os) ==
    LET new == IF CanPoll(p) THEN {o \in os : ~Held(p, o)} ELSE {}
        free == (1 .. MaxReads + Cardinality(Organizations)) \ {r.id : r \in p.reads}
        id == CHOOSE f \in [new -> free] : \A a, b \in new : f[a] = f[b] => a = b
    IN [p EXCEPT !.reads = @ \cup {[id |-> id[o], org |-> o, key |-> p.credential,
                                    live |-> TRUE] : o \in new}]

\* pollOnce: every tracked Organization is read; a batch that is out is joined.
PolledOnce(p) ==
    IF ~CanPoll(p) \/ p.batch THEN p
    ELSE Asked([p EXCEPT !.timer = FALSE, !.batch = TRUE], p.tracked)

\* Mutant: the readings of the key before may land.
SetCredentialUnfenced(p, k) ==
    Scheduled([p EXCEPT !.credential = k, !.expired = FALSE, !.refused = NULL])

SetCredential(p, k) ==
    Scheduled([Fenced(p) EXCEPT !.credential = k, !.expired = FALSE, !.refused = NULL])

\* expireCredential, on the word that `key` is refused; the poller is not told which.
Expired(p, key) ==
    IF p.credential = NULL \/ p.expired THEN p
    ELSE Fenced([p EXCEPT !.expired = TRUE, !.refused = key])

\* setOrganizations: a changed set is read at once.
Tracked(p, os) ==
    IF os = p.tracked THEN p ELSE PolledOnce([Fenced(p) EXCEPT !.tracked = os])

\* setRemoteState: with a state the Hub's answers are shown; with none, this
\* process's, but only `start` arms the timer again.
Remote(p, on) == IF on THEN Fenced([p EXCEPT !.remote = TRUE]) ELSE [p EXCEPT !.remote = FALSE]

Started(p) ==
    IF p.running /\ ~p.suspended THEN p
    ELSE Scheduled([p EXCEPT !.running = TRUE, !.suspended = FALSE])

Stopped(p) == Fenced([p EXCEPT !.running = FALSE, !.suspended = TRUE])

-------------------------------------------------------------------------------
\* What the poller does by itself, whoever owns it.

\* runPoll resumes: an answer of an earlier epoch is dropped, a refusal of the
\* key ends polling, and any other answer is recorded.
Lands(p, r) == r.live /\ r.org \in p.tracked

Ended(p, r) == [p EXCEPT !.reads = @ \ {r}]

ReadEnds(r) ==
    IF ~Lands(poller, r) THEN poller' = Ended(poller, r)
    ELSE \/ poller' = Scheduled(Ended(poller, r))
         \/ poller' = Expired(Ended(poller, r), r.key)

AfterBatch == Scheduled([poller EXCEPT !.batch = FALSE])

\* The reads of the batch have all ended.
BatchEnds ==
    /\ poller.batch /\ \A r \in poller.reads : ~r.live
    /\ poller' = AfterBatch

\* The timer fires, with some Organizations due.
TimerFires(due) ==
    /\ poller.timer
    /\ poller' = Scheduled(Asked([poller EXCEPT !.timer = FALSE], due))

PollerSteps ==
    \/ \E r \in poller.reads : ReadEnds(r)
    \/ BatchEnds
    \/ \E due \in (SUBSET poller.tracked) \ {{}} : TimerFires(due)

-------------------------------------------------------------------------------
\* A client's poller: the process starts it, idle until a key arrives.
Init ==
    /\ \E os \in SUBSET Organizations : poller = Started(Tracked(New, os))
    /\ onHub = FALSE

\* POST /api/usage/credential, with a key or with none.
Credential(k) ==
    /\ poller' = IF k = NULL THEN SetCredential(poller, NULL)
                 ELSE PolledOnce(SetCredential(poller, k))
    /\ UNCHANGED onHub

Track(os) == os # poller.tracked /\ poller' = Tracked(poller, os) /\ UNCHANGED onHub

HandedOver(p) == Remote(Stopped(p), TRUE)

\* The Hub client connected, or had a status frame on its stream.
HandOver ==
    /\ onHub' = TRUE
    /\ poller' = IF onHub THEN Remote(poller, TRUE) ELSE HandedOver(poller)

\* The Hub client fell back, or was told of no Hub; a fall polls at once.
TakeBack(fell) ==
    /\ onHub \/ fell
    /\ onHub' = FALSE
    /\ LET back == Started(Remote(poller, FALSE))
       IN poller' = IF fell THEN PolledOnce(back) ELSE back

Next ==
    \/ PollerSteps /\ Cardinality(poller'.reads) <= MaxReads /\ UNCHANGED onHub
    \/ /\ \/ \E k \in AccessKeys \cup {NULL} : Credential(k)
          \/ \E os \in SUBSET Organizations : Track(os)
          \/ HandOver
          \/ \E fell \in BOOLEAN : TakeBack(fell)
       /\ Cardinality(poller'.reads) <= MaxReads

Spec == Init /\ [][Next]_pollerVars

-------------------------------------------------------------------------------
\* The poller's fields; a batch and the timer exclude one another.
UsagePollerTypeOK ==
    /\ poller.credential \in AccessKeys \cup {NULL} /\ poller.refused \in AccessKeys \cup {NULL}
    /\ poller.tracked \subseteq Organizations
    /\ ~(poller.timer /\ poller.batch)

\* poller.ts:242: a read that may still land was asked with the present
\* key, by the process that polls, and is the only one of its Organization.
LandsCurrent ==
    \A r \in poller.reads : r.live /\ r.org \in poller.tracked =>
        /\ r.key = poller.credential /\ CanPoll(poller)
        /\ \A q \in poller.reads : q.live /\ q.org = r.org => q = r

\* poller.ts:201-219: polling that is on has a timer armed or a batch out, after every
\* order of calls; nothing else would ever poll again.
NeverIdle ==
    poller.running /\ CanPoll(poller) /\ poller.tracked # {} => poller.timer \/ poller.batch

\* poller.ts:243-248, 322: a key is shown as expired only if it was itself refused.
RefusedIsTheKey == poller.expired => poller.refused = poller.credential

\* What may still land was asked with the key and by the process that poll now,
\* polling that is on has its next step armed, and only a refused key is shown so.
PollingHolds == UsagePollerTypeOK /\ LandsCurrent /\ NeverIdle /\ RefusedIsTheKey

===============================================================================
