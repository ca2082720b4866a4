-------------------------------- MODULE PollSet --------------------------------
(***************************************************************************)
(* What the Hub polls (apps/hub/src/poll-set.ts): the Organizations its    *)
(* key lists.  The key is posted, stored and armed across awaits           *)
(* (apps/hub/src/server.ts, POST /api/credential); a listing is asked on   *)
(* its arrival and by one timer, and is fenced by a generation.  The       *)
(* poller itself is UsagePoller's record.  Restarting the Hub reads back   *)
(* the stored key and the roster of the last listing.                      *)
(***************************************************************************)
EXTENDS UsagePoller

CONSTANTS MaxListings, MaxPosts, MaxRestarts        \* bounds

VARIABLES
    listings,        \* requests for a listing in flight
    next,            \* the key the timer lists with, or NULL
    failed, keyed,   \* discovery failed, and with which key
    roster,          \* organization-roster.json
    stored,          \* the credential store
    posts,           \* the keys that requests have stored and not yet armed
    restarts

setVars == <<next, failed, keyed>>
pollSetVars == <<poller, listings, setVars, roster, stored, posts, restarts>>

-------------------------------------------------------------------------------
\* refresh(k): a new generation; its listing is the only one that counts.
Superseded == {[l EXCEPT !.live = FALSE] : l \in listings}

Refresh(k, for) ==
    /\ listings' = Superseded \cup {[key |-> k, live |-> TRUE, post |-> for]}
    /\ next' = NULL /\ keyed' = k /\ failed' = (failed /\ keyed = k)

\* Mutant: a clear leaves the listing of the key it clears.
ClearUnfenced == listings
\* clear: nothing is listed and nothing is polled.
Cleared == Superseded

-------------------------------------------------------------------------------
\* POST /api/credential, with a key or with none: the store's write of it ends.
\* Concurrent writes end in any order, and one can fail after it wrote.
Persisted(k) ==
    /\ stored' = k
    /\ posts' \in {posts, posts \cup {k}} /\ Cardinality(posts') <= MaxPosts
    /\ UNCHANGED <<poller, listings, setVars, roster, restarts>>

\* The request resumes and arms the key and its listing, with no await between.
Armed(k) ==
    /\ k # NULL /\ posts' = posts \ {k}
    /\ poller' = SetCredential(poller, k)
    /\ Refresh(k, TRUE)
    /\ UNCHANGED <<roster, stored, restarts>>

\* The request with no key: the poll set is cleared, then the poller's key.
Disarmed ==
    /\ NULL \in posts /\ posts' = posts \ {NULL}
    /\ listings' = Cleared /\ next' = NULL /\ keyed' = NULL /\ failed' = FALSE
    /\ poller' = SetCredential(Tracked(poller, {}), NULL)
    /\ UNCHANGED <<roster, stored, restarts>>

\* A listing a later one replaced: only its request's explicit poll is left.
ListedLate(l) ==
    /\ ~l.live /\ listings' = listings \ {l}
    /\ poller' = IF l.post THEN PolledOnce(poller) ELSE poller
    /\ UNCHANGED <<setVars, roster, stored, posts, restarts>>

\* The request's explicit poll, which joins the one a changed set started.
ThenPolled(l, p) == IF l.post THEN PolledOnce(p) ELSE p

\* The key's Organizations: kept in the roster, if it can be written, and polled.
Listed(l, os) ==
    /\ l.live /\ listings' = listings \ {l}
    /\ roster' \in {roster, os}
    /\ failed' = FALSE /\ next' = l.key
    /\ poller' = ThenPolled(l, Tracked(poller, os))
    /\ UNCHANGED <<keyed, stored, posts, restarts>>

\* A refused key: expired, and not listed with again.
ListedRefused(l) ==
    /\ l.live /\ listings' = listings \ {l}
    /\ failed' = FALSE
    /\ poller' = ThenPolled(l, Expired(poller, l.key))
    /\ UNCHANGED <<next, keyed, roster, stored, posts, restarts>>

\* No answer, or one that names nothing.
ListedNothing(l) ==
    /\ l.live /\ listings' = listings \ {l}
    /\ failed' = TRUE /\ next' = l.key
    /\ poller' = ThenPolled(l, poller)
    /\ UNCHANGED <<keyed, roster, stored, posts, restarts>>

NextFires ==
    /\ next # NULL /\ Refresh(next, FALSE)
    /\ UNCHANGED <<poller, roster, stored, posts, restarts>>

\* The Hub starts: the stored key, the roster installed, a listing, then start.
BootWith(k, os) == Started(IF k = NULL THEN New ELSE Tracked(SetCredential(New, k), os))

Restart ==
    /\ restarts < MaxRestarts /\ restarts' = restarts + 1
    /\ poller' = BootWith(stored, roster)
    /\ listings' = IF stored = NULL THEN {} ELSE {[key |-> stored, live |-> TRUE, post |-> FALSE]}
    /\ next' = NULL /\ keyed' = stored /\ failed' = FALSE
    /\ posts' = {}
    /\ UNCHANGED <<roster, stored>>

PollSetInit ==
    /\ stored = NULL /\ roster = {}
    /\ poller = BootWith(NULL, {}) /\ onHub = FALSE
    /\ listings = {} /\ next = NULL /\ keyed = NULL /\ failed = FALSE
    /\ posts = {} /\ restarts = 0

PollSetSteps ==
    \/ \E k \in AccessKeys \cup {NULL} : Persisted(k)
    \/ \E k \in posts : Armed(k)
    \/ Disarmed
    \/ \E l \in listings :
        \/ ListedLate(l) \/ ListedRefused(l) \/ ListedNothing(l)
        \/ \E os \in (SUBSET Organizations) \ {{}} : Listed(l, os)
    \/ NextFires
    \/ Restart

PollSetNext ==
    /\ \/ PollerSteps /\ UNCHANGED <<listings, setVars, roster, stored, posts, restarts>>
       \/ PollSetSteps
    /\ UNCHANGED onHub
    /\ Cardinality(poller'.reads) <= MaxReads /\ Cardinality(listings') <= MaxListings

PollSetSpec == PollSetInit /\ [][PollSetNext]_<<pollSetVars, onHub>>

-------------------------------------------------------------------------------
PollSetTypeOK ==
    /\ UsagePollerTypeOK
    /\ \A l \in listings : l.key \in AccessKeys
    /\ {next, keyed, stored} \subseteq AccessKeys \cup {NULL}
    /\ roster \subseteq Organizations

\* poll-set.ts:20-29: what may still act on a refusal or a listing is the key the
\* poller holds: the live listing, the timer and the failure flag are of it.
SetIsTheKeys ==
    /\ \A l \in listings : l.live => l.key = poller.credential
    /\ next # NULL => next = poller.credential
    /\ failed => keyed = poller.credential
    /\ poller.credential = NULL => poller.tracked = {}

\* poll-set.ts:10-11: a key that was not refused by its listing is listed again:
\* one listing is out or the timer is armed, and never both.
ListsAgain ==
    poller.credential # NULL /\ ~poller.expired =>
        \/ next # NULL /\ \A l \in listings : ~l.live
        \/ next = NULL /\ Cardinality({l \in listings : l.live}) = 1

\* The Hub polls and lists with the key it holds: what may still act is of that
\* key, polling and listing go on, and only a refused key is shown so.
PollSetHolds == PollSetTypeOK /\ PollingHolds /\ SetIsTheKeys /\ ListsAgain

===============================================================================
