------------------------------- MODULE MCFleet --------------------------------
(***************************************************************************)
(* What a client keeps and contributes: its Local archive (LocalArchive),  *)
(* the forgets it sends (FleetForget), what it pushes of its contributions *)
(* (ContributionView) and of its samples (HubClient), and its own poller   *)
(* of the usage limits (UsagePoller). One of the five moves, the others    *)
(* rest.                                                                   *)
(***************************************************************************)
EXTENDS UsagePoller, LocalArchive, ContributionView, FleetForget, HubClient, TLC

CONSTANTS k1, k2, a1, x1, a2, p1, p2, h1, h2

VARIABLE part          \* the component that moves, on which instance

OnePair == [k \in {k1, k2} |-> p1]
TwoPairs == [k \in {k1, k2} |-> IF k = k1 THEN p1 ELSE p2]

\* The first pair has an admitted and an excluded key.
ForgetPairOf == (a1 :> p1) @@ (x1 :> p1) @@ (a2 :> p2)
UserForget == [pairs |-> <<p1, p2>>, mode |-> "pair"]
Repair == [pairs |-> <<p1>>, mode |-> "excluded"]
BothForgets == {UserForget, Repair}

-------------------------------------------------------------------------------
allVars == <<part, pollerVars, archiveVars, forgetVars, contributionVars, hubClientVars>>

SuiteInit ==
    /\ part \in {"poller", "archive", "faulty archive", "serial archive", "forget", "moved",
             "view", "client", "settings"}
    /\ Init
    /\ part # "poller" => poller.tracked = {}
    /\ ArchiveInit
    /\ ForgetInit
    /\ part \notin {"forget", "moved"} => \A h \in Hubs : hubs[h].rows = {}
    /\ part = "forget" => hubs[h2].rows = {}
    /\ ViewInit
    /\ part # "view" => contributions = [k \in {k1, k2} |-> 0]
    /\ HubClientInit

\* One component moves and the rest stay as they are.
PollerMove ==
    /\ part = "poller"
    /\ UNCHANGED <<part, archiveVars, forgetVars, contributionVars,
                    hubClientVars>>
ArchiveMoves ==
    /\ part \in {"archive", "faulty archive", "serial archive"}
    /\ UNCHANGED <<part, pollerVars, forgetVars, contributionVars, hubClientVars>>

\* A disk that works; one that fails, with one step of the Hub; or that with both
\* steps, and one operation queued at a time.
ArchiveBounds ==
    \/ part = "archive" /\ faults' = faults
    \/ part = "faulty archive" /\ hubSteps' # 0
    \/ part = "serial archive" /\ Len(chain') <= 1

ForgetMoves ==
    /\ part \in {"forget", "moved"}
    /\ UNCHANGED <<part, pollerVars, archiveVars, contributionVars, hubClientVars>>

\* A user's forget and a repair with one Hub that is restored; or a user's forget
\* while the client changes Hubs.
ForgetBounds ==
    \/ part = "forget" /\ conn' # h2 /\ hubs'[h2] = hubs[h2] /\ connGen' < 4
    \/ /\ part = "moved" /\ asked' \subseteq {UserForget}
       /\ \A h \in Hubs : hubs'[h].epoch = hubs[h].epoch
ViewMoves ==
    /\ part = "view"
    /\ UNCHANGED <<part, pollerVars, archiveVars, forgetVars, hubClientVars>>
ClientMoves ==
    /\ part \in {"client", "settings"}
    /\ UNCHANGED <<part, pollerVars, archiveVars, forgetVars, contributionVars>>

\* Three samples and two failures under one configuration; or two samples and one
\* failure while the settings change.
ClientBounds ==
    \/ part = "client" /\ configures' <= 1
    \/ part = "settings" /\ clock' <= 2 /\ failures' <= 1

SuiteNext ==
    \/ PollerMove /\ Next
    \/ ArchiveMoves /\ ArchiveNext /\ ArchiveBounds
    \/ ForgetMoves /\ ForgetNext /\ ForgetBounds
    \/ ViewMoves /\ ViewNext
    \/ ClientMoves /\ HubClientNext /\ ClientBounds

SuiteSpec == SuiteInit /\ [][SuiteNext]_allVars

===============================================================================
