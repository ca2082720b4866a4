----------------------------- MODULE MCFleetLive ------------------------------
(***************************************************************************)
(* What the client's work comes to: the rows and deletes of the Local      *)
(* archive (LocalArchive), forgets (FleetForget) and contributions         *)
(* (ContributionView), each under the fairness its module states. One of   *)
(* the three moves, the others rest.                                       *)
(***************************************************************************)
EXTENDS Integers, Sequences, TLC

CONSTANTS k1, k2, a1, x1, a2, p1, p2, h1, NULL

VARIABLES
    part,           \* the component that moves, on which instance
    (* LocalArchive *)
    file, scripts, lIntent, disk, faults, booted, open, stopped, chain, forgottenPairs,
    pendingForgets, pendingExcludedForgets, call, live, own, excluded, fresh, lHub, heard,
    copy, caughtUp, hubSteps,
    (* FleetForget *)
    archive, forgetIntent, replica, engine, barred, hubs, late, conn, connGen, suspended, pc,
    on, read, landed, asked, committed, gone, ops, mishaps,
    (* ContributionView *)
    installed, contributions, ingestible, bars, revision, current, tracked, seen, changed,
    wholesale, fullPass, dirty, fence, source, pushed, pass, full, todo, acked, losses

OnePair == [k \in {k1} |-> p1]
TwoPairs == [k \in {k1, k2} |-> IF k = k1 THEN p1 ELSE p2]

\* The first pair has an admitted and an excluded key.
SessionOf == (a1 :> p1) @@ (x1 :> p1) @@ (a2 :> p2)
Repair == [pairs |-> <<p1>>, mode |-> "excluded"]
Dormant == [pairs |-> <<p1>>, mode |-> "lossless"]

-------------------------------------------------------------------------------
\* A key that grows, two disk failures, one step of the Hub.
Archive == INSTANCE LocalArchive WITH
    Keys <- {k1}, Pairs <- {p1}, PairOf <- OnePair, NoPair <- NULL, MaxTotal <- 2,
    MaxChain <- 2, MaxFaults <- 2, MaxHub <- 1,
    intent <- lIntent, hub <- lHub

\* Repairs of either kind, one Hub that is restored, a crash or a loss.
Forget == INSTANCE FleetForget WITH
    RowKeys <- {a1, x1, a2}, Sessions <- {p1, p2}, Hubs <- {h1}, Absent <- NULL,
    Excluded <- {x1}, Backed <- {}, Archived <- {a1, x1}, Callers <- {Repair, Dormant},
    MaxOps <- 8, MaxConnects <- 2, MaxRestores <- 1, MaxMishaps <- 1

\* A key of each of two pairs; one changed key fills the feed, and one row a push.
View == INSTANCE ContributionView WITH
    ViewKeys <- {k1, k2}, ViewPairs <- {p1, p2}, ViewPairOf <- TwoPairs, MaxFullness <- 1,
    ChangedKeysMax <- 1, BatchMax <- 1, MaxSwaps <- 1, MaxIntents <- 1, MaxFences <- 1,
    MaxLosses <- 1

-------------------------------------------------------------------------------
localArchiveVars == <<file, scripts, lIntent, disk, faults, booted, open, stopped, chain,
    forgottenPairs, pendingForgets, pendingExcludedForgets, call, live, own, excluded,
    fresh, lHub, heard, copy, caughtUp, hubSteps>>
fleetForgetVars == <<archive, forgetIntent, replica, engine, barred, hubs, late, conn, connGen,
    suspended, pc, on, read, landed, asked, committed, gone, ops, mishaps>>
contributionViewVars == <<installed, contributions, ingestible, bars, revision, current,
    tracked, seen, changed, wholesale, fullPass, dirty, fence, source, pushed, pass, full,
    todo, acked, losses>>

allVars == <<part, localArchiveVars, fleetForgetVars, contributionViewVars>>

SuiteInit ==
    /\ part \in {"archive", "forget", "view"}
    /\ Archive!ArchiveInit
    /\ Forget!ForgetInit
    /\ part # "forget" => \A h \in DOMAIN hubs : hubs[h].rows = {}
    /\ View!ViewInit
    /\ part # "view" => contributions = [k \in {k1, k2} |-> 0]

\* One component moves and the rest stay as they are.
ArchiveMoves ==
    /\ part = "archive"
    /\ UNCHANGED <<part, fleetForgetVars, contributionViewVars>>
ForgetMoves == part = "forget" /\ UNCHANGED <<part, localArchiveVars, contributionViewVars>>
ViewMoves == part = "view" /\ UNCHANGED <<part, localArchiveVars, fleetForgetVars>>

SuiteNext ==
    \/ ArchiveMoves /\ Archive!ArchiveNext
    \/ ForgetMoves /\ Forget!ForgetNext
    \/ ViewMoves /\ View!ViewNext

SuiteSpec == SuiteInit /\ [][SuiteNext]_allVars

\* The fairness of each component, as its own specification states it;
\* `part` never changes, so a strong condition of several components is one.
SuiteFairSpec ==
    /\ SuiteSpec
    /\ WF_localArchiveVars(/\ part = "archive"
                /\ \/ Archive!RunAppend \/ Archive!RunRetry
                   \/ Archive!RunForget \/ Archive!RunForgetExcluded)
    /\ WF_localArchiveVars(part = "archive" /\ Archive!TryOpen)
    /\ WF_localArchiveVars(part = "archive" /\ Archive!DiskHeals)
    /\ WF_localArchiveVars(part = "archive" /\ Archive!StopCloses)
    /\ WF_fleetForgetVars(part = "forget" /\ \E h \in {h1} : Forget!Connect(h))
    /\ WF_fleetForgetVars(part = "forget" /\ \E request \in late : Forget!Arrives(request))
    /\ WF_fleetForgetVars(part = "forget" /\ Forget!Resume)
    /\ WF_fleetForgetVars(/\ part = "forget"
              /\ \/ Forget!ReadEpoch \/ Forget!Post \/ Forget!Posted \/ Forget!ArchiveHalf
                 \/ Forget!Stamp \/ Forget!ArchiveDone \/ Forget!Engine \/ Forget!Learned
                 \/ Forget!ForgetRefused)
    /\ WF_contributionViewVars(part = "view" /\ View!Ingested)
    /\ WF_contributionViewVars(part = "view" /\ View!Pass)
    /\ SF_allVars(\/ ArchiveMoves /\ Archive!Sweep
                  \/ ForgetMoves /\ Forget!Pull)
    /\ SF_fleetForgetVars(part = "forget" /\ Forget!Push)

-------------------------------------------------------------------------------
\* A local row is archived in the end, and a delete that failed is applied,
\* whatever the disk does, by the sweep or at the next open.
ArchiveSettles ==
    []<>(part = "archive" => stopped # "no" \/ (Archive!IsArchived(k1) /\ Archive!Landed(p1)))

\* A pending deletion ends, and what it spared is on the Hub again; every
\* contribution is in the end on the Hub, or barred, or gone.
HubSettles ==
    <>[](/\ part = "forget" => Forget!ForgetsAreOver
         /\ part = "view" => View!AllOnHub)

===============================================================================
