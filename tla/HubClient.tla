-------------------------------- MODULE HubClient --------------------------------
(***************************************************************************)
(* A client's connection to its Hub (packages/usage-core/src/hub-client.ts)*)
(* as far as polling and usage samples go: an attempt reads the status,    *)
(* backfills the Hub's samples, pushes up what it captured while the Hub   *)
(* was out of reach, hands polling to the Hub and opens the live stream;   *)
(* any failure hands polling back and arms a retry.  Attempts and streams  *)
(* of an earlier configuration resume after it.  A sample is its capture   *)
(* time.  The kinds of fallback are one; healing the Hub's key is left out.*)
(***************************************************************************)
EXTENDS Integers, FiniteSets, Sequences, FiniteSetsExt

CONSTANTS
    NoFloor,                                \* nothing is known to be owed
    MaxTime, MaxFailures, MaxConfigures     \* bounds

ASSUME HubClientAssumption == MaxTime \in Nat /\ \A t \in 0 .. MaxTime : t # NoFloor

VARIABLES
    config, state, stateBeforeConnecting, epoch, retryTimer,
    conns,              \* attempts in flight, of any epoch
    streams,            \* streams not yet unwound, of any epoch
    supplements,        \* supplemental backfills in flight
    pollerSuspended, remote,  \* the local poller is stopped; the Hub's state is shown
    atClient, atHub,         \* the samples each holds
    pushUpFloor,
    clock,
    captured, owed, midPush, \* samples captured here, under a floor, and under a push
    failures, configures

link == <<config, state, stateBeforeConnecting, epoch, retryTimer, pushUpFloor>>
polling == <<pollerSuspended, remote>>
samplesHeld == <<atClient, atHub, clock>>
aux == <<captured, owed, midPush>>
limits == <<failures, configures>>
hubClientVars == <<link, polling, conns, streams, supplements, samplesHeld, aux, limits>>

Tip(samples) == Max(samples \cup {0})
Before(s, t) == {x \in s : x > t}

HubClientInit ==
    /\ config = FALSE /\ state = "off" /\ stateBeforeConnecting = "off" /\ epoch = 0
    /\ retryTimer = FALSE /\ pushUpFloor = NoFloor
    /\ conns = {} /\ streams = {} /\ supplements = {}
    /\ pollerSuspended = FALSE /\ remote = FALSE
    /\ atClient = {} /\ atHub = {} /\ clock = 0 /\ captured = {} /\ owed = {} /\ midPush = {}
    /\ failures = 0 /\ configures = 0

Fault == failures < MaxFailures /\ failures' = failures + 1

-------------------------------------------------------------------------------
\* connect begins: an attempt of the present epoch.
Attempt(e) == [epoch |-> e, phase |-> "status", from |-> 0, since |-> 0, cutoff |-> 0,
               got |-> {}, todo |-> {}]

Connecting ==
    /\ state' = "connecting"
    /\ stateBeforeConnecting' = IF state # "connecting" THEN state ELSE stateBeforeConnecting

\* teardownCurrent clears the retry.
RetryCleared == FALSE

\* configure: what is in flight is of an earlier epoch from now on.
Configure(on) ==
    /\ configures < MaxConfigures /\ configures' = configures + 1
    /\ epoch' = epoch + 1 /\ config' = on
    /\ streams' = {[s EXCEPT !.aborted = TRUE] : s \in streams}
    /\ retryTimer' = RetryCleared
    /\ IF on THEN /\ Connecting /\ conns' = conns \cup {Attempt(epoch + 1)}
                  /\ UNCHANGED polling
       ELSE /\ state' = "off" /\ UNCHANGED <<stateBeforeConnecting, conns>>
            /\ pollerSuspended' = FALSE /\ remote' = FALSE
    /\ UNCHANGED <<pushUpFloor, supplements, samplesHeld, aux, failures>>

\* The retry timer fires.
Retry ==
    /\ retryTimer /\ retryTimer' = FALSE
    /\ config /\ Connecting
    /\ conns' = conns \cup {Attempt(epoch)}
    /\ UNCHANGED <<config, epoch, pushUpFloor, polling, streams, supplements, samplesHeld, aux,
                   limits>>

\* What the client was doing before this attempt.
Settled == IF state = "connecting" THEN stateBeforeConnecting ELSE state

\* The floor of a new episode, or of the oldest one not resolved.
FloorAfterFall ==
    IF Settled = "fallback" THEN pushUpFloor
    ELSE IF pushUpFloor = NoFloor THEN Tip(atClient) ELSE Min({pushUpFloor, Tip(atClient)})

\* fail: polling comes back, streams end, a retry is armed.
Fail ==
    /\ state' = "fallback" /\ pollerSuspended' = FALSE /\ remote' = FALSE
    /\ pushUpFloor' = FloorAfterFall
    /\ retryTimer' = TRUE
    /\ UNCHANGED <<config, epoch, stateBeforeConnecting>>

\* An attempt or a stream resumes after an await: of another epoch, it ends.
Stale(x) == x.epoch # epoch

Unwind(c) ==
    /\ Stale(c) /\ conns' = conns \ {c}
    /\ UNCHANGED <<link, polling, streams, supplements, samplesHeld, aux, limits>>

\* A request of the connect phase fails, is refused, or names a dead key.
ConnectFails(c) ==
    /\ ~Stale(c) /\ c.phase \in {"status", "samples", "answered"} /\ Fault
    /\ conns' = conns \ {c} /\ Fail
    /\ streams' = {[s EXCEPT !.aborted = TRUE] : s \in streams}
    /\ UNCHANGED <<supplements, samplesHeld, aux, configures>>

Moved(c, d) == conns' = (conns \ {c}) \cup {d}

\* The status names the Hub's tip; the backfill is asked from the local one.
StatusRead(c) ==
    /\ ~Stale(c) /\ c.phase = "status"
    /\ Moved(c, [c EXCEPT !.phase = "samples", !.since = Tip(atClient), !.cutoff = Tip(atHub)])
    /\ UNCHANGED <<link, polling, streams, supplements, samplesHeld, aux, limits>>

\* The Hub answers the backfill with what it holds at that moment.
HubAnswers(c) ==
    /\ c.phase = "samples"
    /\ Moved(c, [c EXCEPT !.phase = "answered", !.got = Before(atHub, c.since), !.from = clock])
    /\ UNCHANGED <<link, polling, streams, supplements, samplesHeld, aux, limits>>

\* The smaller of the Hub's tip and the floor; everything when it holds nothing.
Cutoff(c) == IF pushUpFloor = NoFloor THEN c.cutoff ELSE Min({c.cutoff, pushUpFloor})

\* The Hub is the poller now.
HandPolling == pollerSuspended' = TRUE /\ remote' = TRUE

\* The end of an attempt: connected, with a stream to open.
Connected(c) ==
    /\ state' = "connected" /\ HandPolling
    /\ streams' = streams \cup {[epoch |-> epoch, aborted |-> FALSE, open |-> FALSE,
                                 frames |-> <<>>, swept |-> FALSE, hole |-> FALSE,
                                 from |-> c.from]}
    /\ conns' = conns \ {c}

\* The backfill is merged, and what the Hub lacks is to be pushed.
Backfilled(c) ==
    LET merged == atClient \cup c.got
        todo == Before(merged, Cutoff(c))
    IN /\ ~Stale(c) /\ c.phase = "answered"
       /\ atClient' = merged
       /\ IF todo = {} THEN Connected(c)
          ELSE /\ Moved(c, [c EXCEPT !.phase = "pushing", !.todo = todo])
               /\ UNCHANGED <<state, polling, streams>>
       /\ UNCHANGED <<config, stateBeforeConnecting, epoch, retryTimer, pushUpFloor, supplements,
                      atHub, clock, aux, limits>>

\* Mutant: the floor is cleared by the first batch acknowledged.
FloorClearedEarly(rest, s) == NoFloor
\* An acknowledged batch moves the floor, the last one clears it.
FloorAfter(rest, s) == IF rest = {} THEN NoFloor ELSE s

\* The oldest batch is taken and acknowledged.
PushAcked(c) ==
    LET s == Min(c.todo) IN
    /\ ~Stale(c) /\ c.phase = "pushing"
    /\ atHub' = atHub \cup {s}
    /\ pushUpFloor' = FloorAfter(c.todo \ {s}, s)
    /\ IF c.todo = {s} THEN Connected(c)
       ELSE /\ Moved(c, [c EXCEPT !.todo = @ \ {s}])
            /\ UNCHANGED <<state, polling, streams>>
    /\ UNCHANGED <<config, stateBeforeConnecting, epoch, retryTimer, supplements, atClient, clock,
                   aux, limits>>

\* A batch is refused or its answer lost: connected all the same.
PushFails(c) ==
    /\ ~Stale(c) /\ c.phase = "pushing" /\ Fault
    /\ \E taken \in BOOLEAN : atHub' = IF taken THEN atHub \cup {Min(c.todo)} ELSE atHub
    /\ Connected(c)
    /\ UNCHANGED <<config, stateBeforeConnecting, epoch, retryTimer, pushUpFloor, supplements,
                   atClient, clock, aux, configures>>

-------------------------------------------------------------------------------
Replaced(s, t) == streams' = (streams \ {s}) \cup {t}

\* The Hub subscribes the stream; a status frame comes first.
StreamOpens(s) ==
    /\ ~s.open /\ ~s.aborted
    /\ Replaced(s, [s EXCEPT !.open = TRUE, !.frames = <<0>>])
    /\ UNCHANGED <<link, polling, conns, supplements, samplesHeld, aux, limits>>

\* A stream refused, ended, idle too long, or whose frame names a dead key.
StreamLost(s) ==
    /\ ~Stale(s) /\ ~s.aborted /\ Fault
    /\ Fail /\ streams' = streams \ {s}
    /\ UNCHANGED <<conns, supplements, samplesHeld, aux, configures>>

\* A stream aborted or of another epoch handles nothing more.
Dead(s) == Stale(s) \/ s.aborted

StreamUnwinds(s) ==
    /\ Dead(s) /\ streams' = streams \ {s}
    /\ UNCHANGED <<link, polling, conns, supplements, samplesHeld, aux, limits>>

\* The first frame proves the subscription: one more backfill.
Resweep(s) ==
    IF s.swept THEN {}
    ELSE {[epoch |-> epoch, since |-> Tip(atClient), got |-> {}, answered |-> FALSE, of |-> s.from]}

\* The next frame: a status (0) or a sample.
Frame(s) ==
    /\ ~Dead(s) /\ s.frames # <<>>
    /\ LET f == Head(s.frames) IN
         /\ atClient' = IF f = 0 THEN atClient ELSE atClient \cup {f}
         /\ remote' = (remote \/ f = 0)
         /\ supplements' = supplements \cup Resweep(s)
         /\ Replaced(s, [s EXCEPT !.frames = Tail(@), !.swept = TRUE])
    /\ UNCHANGED <<link, pollerSuspended, conns, atHub, clock, aux, limits>>

SupplementAnswered(b) ==
    /\ ~b.answered
    /\ supplements' = (supplements \ {b}) \cup
                      {[b EXCEPT !.answered = TRUE, !.got = Before(atHub, b.since)]}
    /\ UNCHANGED <<link, polling, conns, streams, samplesHeld, aux, limits>>

SupplementRead(b) ==
    /\ b.answered /\ supplements' = supplements \ {b}
    /\ atClient' = IF Stale(b) THEN atClient ELSE atClient \cup b.got
    /\ UNCHANGED <<link, polling, conns, streams, atHub, clock, aux, limits>>

\* The sweep fails: logged, and the stream stays up.
SupplementFails(b) ==
    /\ Fault /\ supplements' = supplements \ {b}
    /\ streams' = {IF s.epoch = b.epoch /\ s.from = b.of THEN [s EXCEPT !.hole = TRUE] ELSE s :
                      s \in streams}
    /\ UNCHANGED <<link, polling, conns, samplesHeld, aux, configures>>

-------------------------------------------------------------------------------
Tick == clock < MaxTime /\ clock' = clock + 1

\* The local poller captures a sample.
LocalPoll ==
    /\ ~pollerSuspended /\ ~remote /\ Tick
    /\ atClient' = atClient \cup {clock'}
    /\ captured' = captured \cup {clock'}
    /\ owed' = IF pushUpFloor # NoFloor THEN owed \cup {clock'} ELSE owed
    /\ midPush' = IF \E c \in conns : ~Stale(c) /\ c.phase = "pushing"
                  THEN midPush \cup {clock'} ELSE midPush
    /\ UNCHANGED <<link, polling, conns, streams, supplements, atHub, failures, configures>>

\* The Hub's poller captures one, and fans it out.
HubPoll ==
    /\ Tick /\ atHub' = atHub \cup {clock'}
    /\ streams' = {IF s.open THEN [s EXCEPT !.frames = Append(@, clock')] ELSE s : s \in streams}
    /\ UNCHANGED <<link, polling, conns, supplements, atClient, aux, limits>>

HubClientNext ==
    \/ \E on \in BOOLEAN : Configure(on)
    \/ Retry \/ LocalPoll \/ HubPoll
    \/ \E c \in conns : Unwind(c) \/ ConnectFails(c) \/ StatusRead(c) \/ HubAnswers(c)
    \/ \E c \in conns : Backfilled(c) \/ PushAcked(c) \/ PushFails(c)
    \/ \E s \in streams : StreamOpens(s) \/ StreamLost(s) \/ StreamUnwinds(s) \/ Frame(s)
    \/ \E b \in supplements : SupplementAnswered(b) \/ SupplementRead(b) \/ SupplementFails(b)

HubClientSpec == HubClientInit /\ [][HubClientNext]_hubClientVars

-------------------------------------------------------------------------------
\* A configured client is never left waiting for nothing, nor connects twice: one
\* attempt, one live stream or one retry is under way; and one side polls.
OneWayOn ==
    /\ config => Cardinality({c \in conns : ~Stale(c)}) + Cardinality({s \in streams : ~Dead(s)})
                   + (IF retryTimer THEN 1 ELSE 0) = 1
    /\ ~config => ~retryTimer
    /\ state \in {"off", "fallback"} => ~pollerSuspended /\ ~remote
    /\ state = "connected" => pollerSuspended /\ remote

\* A sample captured while the Hub was out of reach is on the Hub, or above the
\* floor from which the next connection pushes up: across failed pushes, lost
\* answers, further episodes and reconfigurations.  Those the poller captures
\* while a push is under way are the exception AckedIsAll is about.
FallbackIsOwed ==
    \A s \in owed \ midPush : s \in atHub \/ (pushUpFloor # NoFloor /\ pushUpFloor < s)

\* On a live stream whose sweep was answered, no sample the Hub captured since
\* this connection's backfill is missing here, unless the client captured one of
\* its own meanwhile: the sweep asks from the newest sample held.
NoSilentHole ==
    \A s \in streams :
        ~Dead(s) /\ s.open /\ s.swept /\ s.frames = <<>> /\ ~s.hole
          /\ (\A b \in supplements : b.epoch # s.epoch \/ b.of # s.from)
          /\ Before(captured, s.from) = {}
            => Before(atHub, s.from) \subseteq atClient

\* One client is on its way to the Hub at a time; a sample this machine takes while
\* it is off the Hub reaches it, or the client knows that it owes it.
SamplesAreOwed == OneWayOn /\ FallbackIsOwed /\ NoSilentHole

\* hub-client.ts:518 says "Every batch acked => nothing pending; clear the
\* floor": no sample of an episode is dropped from what the next push sends.
AckedIsAll ==
    \A s \in owed : s \in atHub \/ (pushUpFloor # NoFloor /\ pushUpFloor < s)

==================================================================================
