---------------------------- MODULE WatcherRestarts ----------------------------
(***************************************************************************)
(* The transcript watcher's one restart path                               *)
(* (apps/sidecar/src/watcher-restarts.ts, the watcher's loss report in     *)
(* watcher.ts, and the wiring in boot.ts): a settings edit or a watch loss *)
(* replaces the watcher, one restart at a time, recoveries being bounded.  *)
(***************************************************************************)
EXTENDS Integers, FiniteSets, Sequences

CONSTANTS
    Roots,                          \* what the settings may name
    RecoveryLimit,                  \* RECOVERY_LIMIT
    MaxWatchers, MaxEdits, MaxFaults, MaxQuiets, MaxLates    \* bounds on what happens

ASSUME WatcherRestartsAssumption == RecoveryLimit \in Nat

VARIABLES
    wantedRoots,                    \* the roots settings.json names
    watchers,                       \* every watcher built: roots, state, owed report
    current, currentRoots,          \* the installed one
    recheckOwed, lossOwed, running, closed,
    pc, restart,                    \* restartOnce: where it is, and what it took
    incidentRestarts, exhausted, quiet,     \* the recovery bound
    degraded,                       \* watcherDegraded
    recovered,                      \* recoveries in a row with no quiet minute
    edits, faults, quiets           \* counters

owedVars == <<recheckOwed, lossOwed, running, closed>>
boundVars == <<incidentRestarts, exhausted, quiet, recovered>>
counters == <<edits, faults, quiets>>
watcherVars == <<wantedRoots, watchers, current, currentRoots, owedVars, pc, restart,
                 boundVars, degraded, counters>>

NoRestart == [recheck |-> FALSE, lost |-> 0, next |-> {}, reason |-> "none", first |-> FALSE]

WatcherInit ==
    /\ wantedRoots \in Roots /\ currentRoots = wantedRoots
    /\ watchers = <<[roots |-> wantedRoots, state |-> "live", report |-> FALSE,
                   timedOut |-> FALSE, late |-> FALSE]>>
    /\ current = 1
    /\ recheckOwed = FALSE /\ lossOwed = 0 /\ running = FALSE /\ closed = FALSE
    /\ pc = "loop" /\ restart = NoRestart
    /\ incidentRestarts = 0 /\ exhausted = FALSE /\ quiet = TRUE /\ recovered = 0
    /\ degraded = FALSE /\ edits = 0 /\ faults = 0 /\ quiets = 0

Open(w) == watchers[w].state # "closed"

-------------------------------------------------------------------------------
(* Requests *)

\* A settings edit reaches recheckRoots.
EditRoots(roots) ==
    /\ edits < MaxEdits /\ roots # wantedRoots
    /\ edits' = edits + 1 /\ wantedRoots' = roots
    /\ IF closed THEN UNCHANGED <<recheckOwed, running>>
       ELSE recheckOwed' = TRUE /\ running' = TRUE
    /\ UNCHANGED <<watchers, current, currentRoots, lossOwed, closed, pc, restart, boundVars,
                   degraded, faults, quiets>>

\* The tree is rebuilt under a watcher: its watches die, and chokidar says so.
Lose(w) ==
    /\ watchers[w].state = "live" /\ Len(watchers) < MaxWatchers
    /\ watchers' = [watchers EXCEPT ![w].state = "deaf", ![w].report = TRUE]
    /\ UNCHANGED <<wantedRoots, current, currentRoots, owedVars, pc, restart, boundVars,
                   degraded, counters>>

\* The burst has settled: recover, of a watcher handed out and not closed.
Report(w) ==
    /\ watchers[w].report /\ Open(w)
    /\ watchers' = [watchers EXCEPT ![w].report = FALSE]
    /\ IF closed THEN UNCHANGED <<lossOwed, running>>
       ELSE lossOwed' = w /\ running' = TRUE
    /\ UNCHANGED <<wantedRoots, current, currentRoots, recheckOwed, closed, pc, restart,
                   boundVars, degraded, counters>>

\* `ready` after the timeout: the flag heals, unless the watcher is closed.
LateReady(w) ==
    /\ watchers[w].late
    /\ watchers' = [watchers EXCEPT ![w].late = FALSE]
    /\ degraded' = (degraded /\ ~Open(w))
    /\ UNCHANGED <<wantedRoots, current, currentRoots, owedVars, pc, restart, boundVars,
                   counters>>

\* A minute with no loss.
QuietMinute ==
    /\ ~quiet /\ quiets < MaxQuiets /\ quiets' = quiets + 1
    /\ quiet' = TRUE /\ recovered' = 0
    /\ UNCHANGED <<wantedRoots, watchers, current, currentRoots, owedVars, pc, restart,
                   incidentRestarts, exhausted, degraded, edits, faults>>

Close ==
    /\ ~closed /\ closed' = TRUE
    /\ UNCHANGED <<wantedRoots, watchers, current, currentRoots, recheckOwed, lossOwed,
                   running, pc, restart, boundVars, degraded, counters>>

-------------------------------------------------------------------------------
(* restartOnce *)

\* What a restart leaves owed once it ends: whatever came while it ran.
OwedAfter == UNCHANGED <<recheckOwed, lossOwed>>

\* What is owed is taken, once per iteration.
Take ==
    /\ running /\ pc = "loop" /\ (recheckOwed \/ lossOwed # 0)
    /\ restart' = [NoRestart EXCEPT !.recheck = recheckOwed, !.lost = lossOwed]
    /\ recheckOwed' = FALSE /\ lossOwed' = 0
    /\ pc' = "resolve"
    /\ UNCHANGED <<wantedRoots, watchers, current, currentRoots, running, closed, boundVars,
                   degraded, counters>>

\* The loop ends with nothing owed.
LoopEnds ==
    /\ running /\ pc = "loop" /\ ~recheckOwed /\ lossOwed = 0
    /\ running' = FALSE
    /\ UNCHANGED <<wantedRoots, watchers, current, currentRoots, recheckOwed, lossOwed,
                   closed, pc, restart, boundVars, degraded, counters>>

\* The incident's restarts so far: a quiet minute ended the last one.
RestartsHeard == IF quiet THEN 0 ELSE incidentRestarts

\* A watcher that lost its watches is closed before its replacement is built.
ClosedFirst == restart.lost # 0 /\ restart.lost = current

\* Another set of roots: a fresh watcher, the recovery bound starting over.
ResolveToRoots ==
    /\ pc = "resolve" /\ restart.recheck /\ wantedRoots # currentRoots
    /\ restart' = [restart EXCEPT !.next = wantedRoots, !.reason = "roots", !.first = ClosedFirst]
    /\ incidentRestarts' = 0 /\ exhausted' = FALSE /\ recovered' = 0
    /\ pc' = "close"
    /\ UNCHANGED <<wantedRoots, watchers, current, currentRoots, owedVars, quiet, degraded,
                   counters>>

Unchanged == ~restart.recheck \/ wantedRoots = currentRoots

\* The installed watcher lost its watches, and the bound allows a recovery.
ResolveToRecovery ==
    /\ pc = "resolve" /\ Unchanged /\ restart.lost = current
    /\ RestartsHeard < RecoveryLimit
    /\ incidentRestarts' = RestartsHeard + 1 /\ exhausted' = (exhausted /\ ~quiet)
    /\ quiet' = FALSE /\ recovered' = recovered + 1
    /\ restart' = [restart EXCEPT !.next = currentRoots, !.reason = "recovery",
                                  !.first = ClosedFirst]
    /\ pc' = "close"
    /\ UNCHANGED <<wantedRoots, watchers, current, currentRoots, owedVars, degraded,
                   counters>>

\* The bound is met: said once an episode, and degraded.
ResolveExhausted ==
    /\ pc = "resolve" /\ Unchanged /\ restart.lost = current
    /\ RestartsHeard >= RecoveryLimit
    /\ quiet' = FALSE /\ exhausted' = TRUE /\ degraded' = (degraded \/ ~exhausted)
    /\ pc' = "loop" /\ restart' = NoRestart
    /\ UNCHANGED <<wantedRoots, watchers, current, currentRoots, owedVars, incidentRestarts,
                   recovered, counters>>

\* The roots are the same, and nothing is lost that was not replaced since.
ResolveToNothing ==
    /\ pc = "resolve" /\ Unchanged /\ restart.lost # current
    /\ pc' = "loop" /\ restart' = NoRestart
    /\ UNCHANGED <<wantedRoots, watchers, current, currentRoots, owedVars, boundVars,
                   degraded, counters>>

Closing(w) == watchers' = [watchers EXCEPT ![w].state = "closed", ![w].report = FALSE]

\* The lost watcher's close, awaited; or none to close first.
CloseFirst ==
    /\ pc = "close" /\ pc' = "create"
    /\ IF restart.first THEN Closing(current) ELSE UNCHANGED watchers
    /\ UNCHANGED <<wantedRoots, current, currentRoots, owedVars, restart, boundVars, degraded,
                   counters>>

\* A replacement built while a deaf watcher holds one of its paths is born deaf,
\* and never reports it; mute, where that watcher's loss had not been heard.
Born ==
    IF \E w \in DOMAIN watchers :
           watchers[w].state \in {"deaf", "mute"} /\ watchers[w].roots \cap restart.next # {}
    THEN IF restart.lost = current THEN "deaf" ELSE "mute"
    ELSE "live"

\* The roots the replacement was built for.
InstalledRoots == restart.next

\* Mutant: the superseded watcher is left open.
SupersededLeftOpen(ws) == ws
\* The superseded watcher is closed once its replacement is installed.
Superseded(ws) ==
    [ws EXCEPT ![current].state = "closed", ![current].report = FALSE]

\* The replacement is live: installed, its health published, its roots walked.
Create(timedOut) ==
    /\ pc = "create"
    /\ timedOut => Cardinality({w \in DOMAIN watchers : watchers[w].timedOut}) < MaxLates
    /\ watchers' = Append(Superseded(watchers),
                          [roots |-> restart.next, state |-> Born,
                           report |-> FALSE,
                           timedOut |-> timedOut, late |-> timedOut])
    /\ current' = Len(watchers) + 1 /\ currentRoots' = InstalledRoots
    /\ degraded' = timedOut
    /\ OwedAfter
    /\ pc' = "loop" /\ restart' = NoRestart
    /\ UNCHANGED <<wantedRoots, running, closed, boundVars, counters>>

\* resolveRoots, the close or createJsonlWatcher rejects: the flag is raised.
RestartFails ==
    /\ pc \in {"resolve", "close", "create"} /\ faults < MaxFaults /\ faults' = faults + 1
    /\ degraded' = TRUE
    /\ OwedAfter
    /\ pc' = "loop" /\ restart' = NoRestart
    /\ UNCHANGED <<wantedRoots, watchers, current, currentRoots, running, closed, boundVars,
                   edits, quiets>>

-------------------------------------------------------------------------------
WatcherNext ==
    \/ \E roots \in Roots : EditRoots(roots)
    \/ \E w \in DOMAIN watchers : Lose(w)
    \/ \E w \in DOMAIN watchers : Report(w)
    \/ \E w \in DOMAIN watchers : LateReady(w)
    \/ QuietMinute
    \/ Close
    \/ Take
    \/ LoopEnds
    \/ ResolveToRoots
    \/ ResolveToRecovery
    \/ ResolveExhausted
    \/ ResolveToNothing
    \/ CloseFirst
    \/ \E timedOut \in BOOLEAN : Create(timedOut)
    \/ RestartFails

WatcherSpec == WatcherInit /\ [][WatcherNext]_watcherVars

\* A burst settles, and the restart's code runs on.
WatcherFairSpec ==
    /\ WatcherSpec
    /\ WF_watcherVars(\E w \in DOMAIN watchers : Report(w))
    /\ WF_watcherVars(Take \/ LoopEnds \/ ResolveToRoots \/ ResolveToRecovery
                        \/ ResolveExhausted \/ ResolveToNothing \/ CloseFirst
                        \/ \E timedOut \in BOOLEAN : Create(timedOut))

-------------------------------------------------------------------------------
WatcherRestartsTypeOK ==
    /\ wantedRoots \in Roots /\ currentRoots \in Roots
    /\ current \in DOMAIN watchers /\ watchers[current].roots = currentRoots
    /\ lossOwed \in {0} \cup DOMAIN watchers
    /\ pc \in {"loop", "resolve", "close", "create"} /\ (pc # "loop" => running)
    /\ incidentRestarts \in 0 .. RecoveryLimit

\* Between restarts the installed watcher is the only one open.
OnlyInstalledIsOpen ==
    pc = "loop" => \A w \in DOMAIN watchers : Open(w) => w = current

\* An installed watcher that is deaf or closed will be replaced, or says so: its
\* report is on its way, owed or being answered, or the flag is up.
DeafIsAnswered ==
    watchers[current].state \in {"deaf", "closed"} =>
        watchers[current].report \/ lossOwed = current \/ restart.lost = current
        \/ degraded \/ closed

\* The same, of a watcher born deaf with nobody told as well.
DeafIsNeverSilent ==
    watchers[current].state = "mute" =>
        lossOwed = current \/ restart.lost = current \/ degraded \/ closed

\* At most RECOVERY_LIMIT recoveries, each a corpus walk, without a quiet minute
\* or new roots.
RecoveriesAreBounded == recovered <= RecoveryLimit

\* A `ready` came after its timeout and cleared the flag, whatever had raised it.
ReadyCameLate == \E w \in DOMAIN watchers : watchers[w].timedOut /\ ~watchers[w].late

\* Only the installed watcher is open, recoveries do not repeat without end, and
\* until a late `ready` a watcher that is deaf is being replaced or says so.
WatcherHolds ==
    /\ WatcherRestartsTypeOK /\ OnlyInstalledIsOpen /\ RecoveriesAreBounded
    /\ ReadyCameLate \/ DeafIsAnswered

\* The last edit takes effect, and a loss that was heard is answered for.
LastEditLanded ==
    closed \/ /\ currentRoots = wantedRoots
              /\ watchers[current].state \in {"deaf", "closed"} => degraded
LastEditLands == <>[]LastEditLanded

\* While no restart is under way, watching other roots than the settings name
\* raises the flag.
MismatchIsDegraded == ~running /\ ~closed /\ currentRoots # wantedRoots => degraded

================================================================================
