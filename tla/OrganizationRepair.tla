--------------------------- MODULE OrganizationRepair ---------------------------
(***************************************************************************)
(* The Organization repair (apps/sidecar/src/organization-repair.ts): rows *)
(* of an Organization that left the tracked set, and of a session asserted *)
(* to one outside it, are forgotten on the Hub and in the Local archive,   *)
(* once, by done lists in a marker on disk.                                *)
(*                                                                         *)
(* An admission is what the tracked and the dormant sets exclude: the pairs*)
(* whose tagged rows are foreign, or NoHome for the null set, and the      *)
(* dormant pairs, whose untagged rows are.  `adm` is the admission now and *)
(* `walked` the live store's; the settings driver rebuilds and repairs     *)
(* after each edit, or resets the marker when another edit overtook it.    *)
(***************************************************************************)
EXTENDS Naturals, Sequences

CONSTANTS
    Pairs,          \* (projectSlug, sessionId) pairs of this machine
    NoHome,         \* the key of the null tracked set
    NoMarker,       \* an absent or unreadable marker
    Booting,        \* whether it starts at a boot's run, or at rest after one
    MaxEdits, MaxEvidence,      \* bounds on what asks for a repair
    MaxHubs,        \* bound on Hub epochs
    MaxHubFaults, MaxWriteFaults, MaxCrashes   \* bounds on what goes wrong

VARIABLES
    adm, walked,        \* the admission now, and the live store's
    hubT, hubB, arch,   \* pairs with tagged, untagged rows on the Hub; archived tagged rows
    up, epoch,          \* connected to the Hub; its epoch
    driver, fresh,      \* the driver: "idle", "walk" or "await"; its walk's admission
    owed,               \* an edit is queued behind it
    marker,             \* the file
    gen, diskGen,       \* markerGeneration, diskGeneration
    ops,                \* the operations queue: 0 is a run, n the reset of generation n
    inflight, rerun, retry, invalidated,
    pc, r,              \* the run under way: where it is and what it has read
    left                \* what the bounds leave

hubVars == <<hubT, hubB>>
corpusVars == <<hubVars, arch>>
driverVars == <<driver, fresh, owed>>
queueVars == <<gen, diskGen, ops, inflight, rerun>>
vars == <<adm, walked, corpusVars, up, epoch, driverVars, marker, queueVars, retry,
          invalidated, pc, r, left>>

Admissions == [ex : {NoHome} \cup SUBSET Pairs, dorm : SUBSET Pairs]
ForeignSessions == IF walked.ex = NoHome THEN {} ELSE walked.ex
DormantPairs == walked.dorm
HubEpoch == IF up THEN epoch ELSE 0     \* 0: not known

Marked(ex, dorm, at, archiveDone, hubDone, dormantHubDone) ==
    [ex |-> ex, dorm |-> dorm, epoch |-> at, archiveDone |-> archiveDone,
     hubDone |-> hubDone, dormantHubDone |-> dormantHubDone]
FreshMarker(ex, dorm, at) == Marked(ex, dorm, at, {}, {}, {})
NoRun == [gen |-> 0, known |-> FALSE, m |-> FreshMarker(NoHome, {}, 0), sessions |-> {},
          pending |-> {}, taken |-> {}, attempted |-> {}, changed |-> FALSE,
          hubPending |-> FALSE]

\* A repaired machine, an upgraded one whose archive disowns its done lists, or
\* one that has no marker yet.
Init ==
    /\ adm \in {a \in Admissions : a.ex = NoHome => a.dorm = {}} /\ walked = adm
    /\ up = TRUE /\ epoch = 1
    /\ LET foreign == IF adm.ex = NoHome THEN {} ELSE adm.ex
       IN  \/ /\ marker = Marked(adm.ex, adm.dorm, 1, foreign, foreign, foreign \cup adm.dorm)
              /\ arch \in {Pairs \ foreign} \cup IF Booting THEN {Pairs} ELSE {}
              /\ hubT \in {Pairs \ foreign, arch} /\ hubB = Pairs \ adm.dorm
           \/ /\ Booting /\ marker = NoMarker /\ arch = Pairs /\ hubT = Pairs /\ hubB = Pairs
    /\ driver = "idle" /\ fresh = adm /\ owed = FALSE
    /\ gen = 0 /\ diskGen = 0 /\ retry = FALSE /\ invalidated = {}
    /\ ops = IF Booting THEN <<0>> ELSE <<>>
    /\ inflight = Booting /\ rerun = FALSE
    /\ pc = "idle" /\ r = NoRun
    /\ left = [edits |-> MaxEdits, evidence |-> MaxEvidence, hub |-> MaxHubFaults,
               write |-> MaxWriteFaults, crash |-> MaxCrashes]

Spend(what) == left[what] > 0 /\ left' = [left EXCEPT ![what] = @ - 1]

-------------------------------------------------------------------------------
(* Requests *)

\* run: queue a run, or ask the one in flight for one more pass.
Run ==
    IF inflight THEN rerun' = TRUE /\ UNCHANGED <<ops, inflight>>
    ELSE inflight' = TRUE /\ ops' = Append(ops, 0) /\ UNCHANGED rerun

\* reset: every save a run has not made yet is stale at once; the wipe queues.
Reset == gen' = gen + 1 /\ ops' = Append(ops, gen + 1)

\* A wipe reaches the disk, or fails and leaves diskGeneration behind.
Wipe ==
    /\ pc = "idle" /\ ops # <<>> /\ Head(ops) # 0
    /\ ops' = Tail(ops)
    /\ \/ /\ marker' = FreshMarker(adm.ex, walked.dorm, HubEpoch)
          /\ diskGen' = Head(ops) /\ UNCHANGED left
       \/ Spend("write") /\ UNCHANGED <<marker, diskGen>>
    /\ UNCHANGED <<adm, walked, corpusVars, up, epoch, driverVars, gen, inflight, rerun,
                   retry, invalidated, pc, r>>

-------------------------------------------------------------------------------
(* A run *)

\* loadMarker: done lists under another key are wiped; those of another Hub,
\* or of another dormant set, in part.  An unknown epoch judges nothing.
Loaded(m, ex, dorm, at) ==
    IF m = NoMarker \/ m.ex # ex THEN FreshMarker(ex, dorm, at)
    ELSE LET sameHub == at \in {0, m.epoch}
         IN  [m EXCEPT !.dorm = dorm,
                       !.epoch = IF at = 0 THEN @ ELSE at,
                       !.hubDone = IF sameHub THEN @ ELSE {},
                       !.dormantHubDone = IF sameHub /\ m.dorm = dorm THEN @ ELSE {}]
PersistNow(m, ex, dorm) == m # NoMarker /\ (m.ex # ex \/ m.dorm # dorm)

\* A pass starts: the keys are read live and the file under them, unless a
\* reset's wipe has not reached it.
Begin ==
    /\ pc = "again" \/ (pc = "idle" /\ ops # <<>> /\ Head(ops) = 0)
    /\ LET trusted == IF gen = diskGen THEN marker ELSE NoMarker
       IN  /\ r' = [NoRun EXCEPT !.gen = gen, !.known = HubEpoch # 0,
                                 !.m = Loaded(trusted, adm.ex, walked.dorm, HubEpoch)]
           /\ pc' = IF PersistNow(trusted, adm.ex, walked.dorm) THEN "rekey" ELSE "evidence"
    /\ rerun' = FALSE
    /\ UNCHANGED <<adm, walked, corpusVars, up, epoch, driverVars, marker, gen, diskGen,
                   ops, inflight, retry, invalidated, left>>

\* persist: only while no reset has come since the run began.
Persist == marker' = IF r.gen = gen THEN r.m ELSE marker

\* A run's pass is over: another if one was asked for, in the same step.
PassEnds ==
    IF rerun THEN pc' = "again" /\ UNCHANGED <<inflight, ops>>
    ELSE pc' = "idle" /\ inflight' = FALSE /\ ops' = Tail(ops)

\* Its save, archive delete or rebuild throws.
PassThrows ==
    /\ pc \in {"rekey", "strike", "archive forget", "rebuild", "save"} /\ Spend("write")
    /\ PassEnds
    /\ r' = NoRun
    /\ UNCHANGED <<adm, walked, corpusVars, up, epoch, driverVars, marker, gen, diskGen,
                   rerun, retry, invalidated>>

\* The rekey, the strike or the last save reaches the disk.
Saves ==
    /\ pc \in {"rekey", "strike", "save"}
    /\ Persist
    /\ pc' = CASE pc = "rekey" -> "evidence" [] pc = "strike" -> "hub" [] OTHER -> "end"
    /\ invalidated' = IF pc = "strike" THEN invalidated \ r.taken ELSE invalidated
    /\ UNCHANGED <<adm, walked, corpusVars, up, epoch, driverVars, queueVars, retry, r, left>>

\* The pairs no done list answers for: invalidated, or still archived although
\* the store excludes them.
Struck == invalidated \cup (arch \cap ForeignSessions)

\* Mutant: what was struck is saved with the run's last save.
StrikeFirstNot(doubted, taken) == FALSE
\* Whether the strike goes to the disk before any forget does.
StrikeFirst(doubted, taken) ==
    doubted \cap (r.m.archiveDone \cup r.m.hubDone) # {} \/ taken # {}

\* The evidence half begins; under the null set there is nothing to do.
Evidence ==
    /\ pc = "evidence"
    /\ IF r.m.ex = NoHome
       THEN retry' = FALSE /\ PassEnds /\ r' = NoRun
       ELSE /\ LET doubted == IF ForeignSessions = {} THEN {} ELSE Struck
                   taken == IF ForeignSessions = {} THEN {} ELSE invalidated
               IN  /\ r' = [r EXCEPT !.sessions = ForeignSessions, !.taken = taken,
                                     !.m.archiveDone = @ \ doubted, !.m.hubDone = @ \ doubted]
                   /\ pc' = CASE ForeignSessions = {} -> "dormant"
                              [] StrikeFirst(doubted, taken) -> "strike"
                              [] OTHER -> "hub"
            /\ UNCHANGED <<retry, inflight, ops>>
    /\ UNCHANGED <<adm, walked, corpusVars, up, epoch, driverVars, marker, gen, diskGen,
                   rerun, invalidated, left>>

\* Ask the Hub to forget the foreign pairs it is not done with.
AskHub ==
    /\ pc = "hub"
    /\ LET pending == r.sessions \ r.m.hubDone
       IN  IF pending = {} \/ ~r.known
           THEN r' = [r EXCEPT !.hubPending = pending # {}] /\ pc' = "archive"
           ELSE r' = [r EXCEPT !.pending = pending, !.attempted = pending]
                /\ pc' = "hub forget"
    /\ UNCHANGED <<adm, walked, corpusVars, up, epoch, driverVars, marker, queueVars, retry,
                   invalidated, left>>

\* The Hub drops every own row of the pairs; what is admitted is pushed again.
Forgotten(pairs) == hubT' = hubT \ pairs /\ hubB' = hubB \ pairs

\* fleet.repairOrganizations answers: done, here and in the archive, or not
\* yet, whether or not the Hub had got to it.
HubForgets ==
    /\ pc \in {"hub forget", "dormant forget"} /\ up
    /\ Forgotten(r.pending)
    /\ IF pc = "hub forget"
       THEN /\ arch' = arch \ (r.pending \cap ForeignSessions)
            /\ r' = [r EXCEPT !.changed = TRUE,
                              !.m.hubDone = @ \cup r.pending,
                              !.m.archiveDone = @ \cup r.pending,
                              !.m.dormantHubDone = @ \cup r.pending]
            /\ pc' = "archive"
       ELSE /\ r' = [r EXCEPT !.changed = TRUE, !.m.dormantHubDone = @ \cup r.pending]
            /\ pc' = "last" /\ UNCHANGED arch
    /\ UNCHANGED <<adm, walked, up, epoch, driverVars, marker, queueVars, retry,
                   invalidated, left>>

HubFails ==
    /\ pc \in {"hub forget", "dormant forget"}
    /\ (~up /\ UNCHANGED left) \/ Spend("hub")
    /\ UNCHANGED hubVars \/ (up /\ Forgotten(r.pending))
    /\ r' = [r EXCEPT !.hubPending = TRUE]
    /\ pc' = IF pc = "hub forget" THEN "archive" ELSE "last"
    /\ UNCHANGED <<adm, walked, arch, up, epoch, driverVars, marker, queueVars, retry,
                   invalidated>>

\* The archive half of the pairs the Hub's answer did not cover.
AskArchive ==
    /\ pc = "archive"
    /\ LET pending == r.sessions \ r.m.archiveDone
       IN  /\ r' = [r EXCEPT !.pending = pending]
           /\ pc' = IF pending = {} THEN "dormant" ELSE "archive forget"
    /\ UNCHANGED <<adm, walked, corpusVars, up, epoch, driverVars, marker, queueVars, retry,
                   invalidated, left>>

ArchiveForgets ==
    /\ pc = "archive forget" /\ pc' = "rebuild"
    /\ arch' = arch \ (r.pending \cap ForeignSessions)
    /\ r' = [r EXCEPT !.changed = TRUE, !.m.archiveDone = @ \cup r.pending]
    /\ UNCHANGED <<adm, walked, hubVars, up, epoch, driverVars, marker, queueVars, retry,
                   invalidated, left>>

RunRebuilds ==
    /\ pc = "rebuild" /\ pc' = "dormant"
    /\ walked' = adm
    /\ UNCHANGED <<adm, corpusVars, up, epoch, driverVars, marker, queueVars, retry,
                   invalidated, r, left>>

DormantPending == DormantPairs \ (r.m.dormantHubDone \cup r.attempted)

\* The dormant half: the Hub only, and not the pairs just attempted.
AskHubDormant ==
    /\ pc = "dormant"
    /\ IF DormantPending = {} \/ ~r.known
       THEN /\ r' = [r EXCEPT !.hubPending = @ \/ DormantPending # {}]
            /\ pc' = "last"
       ELSE r' = [r EXCEPT !.pending = DormantPending] /\ pc' = "dormant forget"
    /\ UNCHANGED <<adm, walked, corpusVars, up, epoch, driverVars, marker, queueVars, retry,
                   invalidated, left>>

\* The last save if anything changed, then the retry timer and the next pass.
LastSave ==
    /\ pc = "last" /\ pc' = IF r.changed THEN "save" ELSE "end"
    /\ UNCHANGED <<adm, walked, corpusVars, up, epoch, driverVars, marker, queueVars, retry,
                   invalidated, r, left>>

ArmRetry == r.hubPending

EndPass ==
    /\ pc = "end"
    /\ retry' = ArmRetry
    /\ PassEnds /\ r' = NoRun
    /\ UNCHANGED <<adm, walked, corpusVars, up, epoch, driverVars, marker, gen, diskGen,
                   rerun, invalidated, left>>

RetryTimer ==
    /\ retry /\ ~inflight
    /\ Run
    /\ UNCHANGED <<adm, walked, corpusVars, up, epoch, driverVars, marker, gen, diskGen,
                   retry, invalidated, pc, r, left>>

-------------------------------------------------------------------------------
(* The settings driver, the stores, the Hub and the process *)

Edit(next) ==
    /\ Spend("edits") /\ next # adm
    /\ adm' = next /\ owed' = TRUE
    /\ UNCHANGED <<walked, corpusVars, up, epoch, driver, fresh, marker, queueVars, retry,
                   invalidated, pc, r>>

DriverWalks ==
    /\ driver = "idle" /\ owed
    /\ driver' = "walk" /\ fresh' = adm /\ owed' = FALSE
    /\ UNCHANGED <<adm, walked, corpusVars, up, epoch, marker, queueVars, retry,
                   invalidated, pc, r, left>>

\* The walk's store is live: repair under it, or reset when it was overtaken.
DriverRepairs ==
    /\ driver = "walk" /\ driver' = "await"
    /\ walked' = fresh
    /\ IF fresh = adm THEN Run /\ UNCHANGED gen
       ELSE Reset /\ UNCHANGED <<inflight, rerun>>
    /\ UNCHANGED <<adm, corpusVars, up, epoch, fresh, owed, marker, diskGen, retry,
                   invalidated, pc, r, left>>

DriverDone ==
    /\ driver = "await" /\ ~inflight /\ ops = <<>>
    /\ driver' = "idle"
    /\ UNCHANGED <<adm, walked, corpusVars, up, epoch, fresh, owed, marker, queueVars, retry,
                   invalidated, pc, r, left>>

\* Event-sync pushes, and the archive sweeps, what the live store admits.
Contribute ==
    \/ /\ up /\ hubT' = hubT \cup (Pairs \ ForeignSessions)
       /\ hubB' = hubB \cup (Pairs \ DormantPairs) /\ UNCHANGED arch
    \/ arch' = arch \cup (Pairs \ ForeignSessions) /\ UNCHANGED hubVars

Contributes ==
    /\ Contribute
    /\ UNCHANGED <<adm, walked, up, epoch, driverVars, marker, queueVars, retry,
                   invalidated, pc, r, left>>

\* Live evidence makes a row foreign that its pair had contributed untagged.
Invalidate(p) ==
    /\ Spend("evidence") /\ p \in ForeignSessions
    /\ hubT' = hubT \cup {p} /\ arch' = arch \cup {p}
    /\ invalidated' = invalidated \cup {p}
    /\ Run
    /\ UNCHANGED <<adm, walked, hubB, up, epoch, driverVars, marker, gen, diskGen, retry,
                   pc, r>>

\* The Hub goes away; it comes back, perhaps restored to rows it had forgotten
\* and so under another epoch.  A connect asks for a run.
Disconnect ==
    /\ up /\ Spend("hub") /\ up' = FALSE
    /\ UNCHANGED <<adm, walked, corpusVars, epoch, driverVars, marker, queueVars, retry,
                   invalidated, pc, r>>

Connect ==
    /\ ~up /\ up' = TRUE
    /\ \/ UNCHANGED <<hubVars, epoch>>
       \/ epoch < MaxHubs /\ epoch' = epoch + 1 /\ hubT' = Pairs /\ hubB' = Pairs
    /\ Run
    /\ UNCHANGED <<adm, walked, arch, driverVars, marker, gen, diskGen, retry, invalidated,
                   pc, r, left>>

\* The sidecar dies and boots: the boot walk admits under the settings, and the
\* boot asks for a run.
Crash ==
    /\ Spend("crash")
    /\ walked' = adm /\ up' = FALSE
    /\ driver' = "idle" /\ fresh' = adm /\ owed' = FALSE
    /\ gen' = 0 /\ diskGen' = 0 /\ ops' = <<0>> /\ inflight' = TRUE /\ rerun' = FALSE
    /\ retry' = FALSE /\ invalidated' = {} /\ pc' = "idle" /\ r' = NoRun
    /\ UNCHANGED <<adm, corpusVars, epoch, marker>>

\* What follows an await on the same turn of the event loop.
Turn ==
    \/ pc \in {"evidence", "hub", "archive", "dormant", "last", "end", "again"}
    \/ pc = "idle" /\ ops # <<>> /\ Head(ops) = 0
Continuation ==
    Evidence \/ AskHub \/ AskArchive \/ AskHubDormant \/ LastSave \/ EndPass
    \/ Begin
Answer == ~Turn /\ (Wipe \/ Saves \/ HubForgets \/ ArchiveForgets \/ RunRebuilds)
DriverSteps == ~Turn /\ (DriverWalks \/ DriverRepairs \/ DriverDone)

Next ==
    \/ Continuation \/ Answer \/ DriverSteps
    \/ ~Turn /\ (HubFails \/ PassThrows \/ RetryTimer \/ Contributes \/ Disconnect
                 \/ Connect \/ Crash)
    \/ ~Turn /\ ((\E next \in Admissions : Edit(next)) \/ (\E p \in Pairs : Invalidate(p)))

Spec == Init /\ [][Next]_vars

\* Promises settle, the retry timer fires, and a Hub that can be reached is.
FairSpec ==
    /\ Spec
    /\ WF_vars(Continuation) /\ WF_vars(Answer) /\ WF_vars(DriverSteps)
    /\ WF_vars(~Turn /\ HubFails /\ ~up)
    /\ SF_vars(~Turn /\ Connect) /\ SF_vars(~Turn /\ RetryTimer)

-------------------------------------------------------------------------------
MarkerOK(m) ==
    /\ m.ex \in {NoHome} \cup SUBSET Pairs /\ m.epoch \in 0 .. MaxHubs
    /\ {m.dorm, m.archiveDone, m.hubDone, m.dormantHubDone} \subseteq SUBSET Pairs

OrganizationRepairTypeOK ==
    /\ {adm, walked, fresh} \subseteq Admissions
    /\ {hubT, hubB, arch, invalidated} \subseteq SUBSET Pairs
    /\ marker = NoMarker \/ MarkerOK(marker)
    /\ MarkerOK(r.m) /\ diskGen <= gen
    /\ inflight = (0 \in {ops[i] : i \in DOMAIN ops})
    /\ pc # "idle" => ops # <<>> /\ Head(ops) = 0

Clean ==
    /\ (hubT \cup arch) \cap ForeignSessions = {}
    /\ hubB \cap DormantPairs = {}

\* When the repair rests, connected and with no retry armed, nothing the store
\* excludes is on the Hub or in the archive: no request was answered by a run
\* that had not read it, no done list of another key, Hub or dormant set was
\* trusted, no save crossed a reset (runInner, run, reset).
RestsOnlyWhenClean ==
    /\ ~inflight /\ ops = <<>> /\ ~retry /\ up /\ driver = "idle" /\ ~owed
    /\ adm.ex # NoHome
    => Clean

\* A done list on disk never vouches for a pair the Hub still holds, unless the
\* archive still holds its rows too, which strikes it, or the process knows it
\* is to be doubted (archivedExcludedPairs, the strike saved before a forget).
DoneIsTrueOrDoubted ==
    marker # NoMarker /\ gen = diskGen /\ marker.ex = adm.ex /\ marker.epoch = epoch
    => marker.hubDone \cap hubT \cap ForeignSessions \subseteq arch \cup invalidated

\* A Hub that fails, disconnects or is restored, and a sidecar that restarts,
\* only delay it: the retry timer and the connect's run finish the work.  A pass
\* that throws arms no timer: what it owed waits for the next run.
AsAdmitted == adm.ex # NoHome => Clean
EventuallyClean == <>[]AsAdmitted

\* What runInner says of its rekey: at rest, a set excluded, re-tracked and
\* excluded again has not met the done list its first exclusion wrote.
NoStaleDone ==
    /\ ~inflight /\ ops = <<>> /\ ~retry /\ up /\ driver = "idle" /\ ~owed
    /\ marker # NoMarker /\ marker.ex = adm.ex /\ adm.ex # NoHome
    => marker.hubDone \cap hubT \cap ForeignSessions = {}
===============================================================================
