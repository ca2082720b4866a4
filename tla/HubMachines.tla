------------------------------ MODULE HubMachines ------------------------------
(***************************************************************************)
(* Purging a machine from a Hub (apps/hub/src/server.ts, index.ts): one    *)
(* transaction takes its archive rows and stores a receipt, then the       *)
(* identity rows, the Machine directory's entry and the receipt's          *)
(* completion are written one after the other, in three files.  A write    *)
(* may fail and the process may die between any two; the next process      *)
(* completes what is pending at its first request, the offline command     *)
(* what is pending for its machine.  What a machine owns is told apart by  *)
(* how many purges of it were committed before it was born.                *)
(***************************************************************************)
EXTENDS Integers, FiniteSets, Sequences

CONSTANTS
    MachineIds, NoMachine,
    MaxOps, MaxFailures, MaxBoots       \* bounds

ASSUME PurgeAssumption == NoMachine \notin MachineIds

VARIABLES
    proc,               \* "down", "serving", or "cli" for the offline command
    events,             \* archive rows, as <<machine, era of birth>>
    ops,                \* deletion receipts, complete or not
    names, namesDisk,   \* the Machine directory in RAM and in its file
    ids, idsDisk,       \* the identity rows, likewise
    work,               \* receipts being completed, the oldest of them at `step`
    step, why,
    recoveredActions, actionRecoveryFailed, identityDegraded,
    offline,            \* the offline command's machine
    boots, failures

process == <<proc, recoveredActions, actionRecoveryFailed, identityDegraded>>
job == <<work, step, why, offline>>
purgeVars == <<process, events, ops, names, namesDisk, ids, idsDisk, job, boots, failures>>

Era(m) == Cardinality({o \in DOMAIN ops : ops[o].machine = m})

PurgeInit ==
    /\ proc = "down" /\ events = {} /\ ops = <<>>
    /\ names = <<>> /\ namesDisk = <<>> /\ ids = {} /\ idsDisk = {}
    /\ work = {} /\ step = "none" /\ why = "none" /\ offline = NoMachine
    /\ recoveredActions = FALSE /\ actionRecoveryFailed = FALSE /\ identityDegraded = FALSE
    /\ boots = 0 /\ failures = 0

-------------------------------------------------------------------------------
\* A process starts from the files; it may fail to read the identity file, and
\* then serves no identity route.
Boot ==
    /\ proc = "down" /\ boots < MaxBoots /\ boots' = boots + 1
    /\ \E degraded \in BOOLEAN :
         /\ identityDegraded' = degraded
         /\ ids' = IF degraded THEN {} ELSE idsDisk
    /\ proc' = "serving" /\ names' = namesDisk
    /\ recoveredActions' = FALSE /\ actionRecoveryFailed' = FALSE
    /\ UNCHANGED <<events, ops, namesDisk, idsDisk, job, failures>>

\* The process ends, at any point.
Stop ==
    /\ proc # "down" /\ proc' = "down"
    /\ work' = {} /\ step' = "none" /\ why' = "none" /\ offline' = NoMachine
    /\ UNCHANGED <<recoveredActions, actionRecoveryFailed, identityDegraded, events, ops, names,
                   namesDisk, ids, idsDisk, boots, failures>>

PendingOps == {o \in DOMAIN ops : ~ops[o].complete}

\* Mutant: only what this process began is completed.
OwesRecoveryNever == FALSE
\* The recovery middleware has work before any handler runs.
OwesRecovery ==
    ~recoveredActions /\ ~actionRecoveryFailed /\ ~identityDegraded

\* A request finds the process recovered, recovers it, or does without.
Served ==
    /\ proc = "serving" /\ ~OwesRecovery
    /\ work = {} \/ step = "committed"

\* The first request of a process: every pending receipt is completed in turn.
Recover ==
    /\ proc = "serving" /\ work = {}
    /\ OwesRecovery
    /\ IF PendingOps = {}
       THEN recoveredActions' = TRUE /\ UNCHANGED <<work, step, why>>
       ELSE /\ work' = PendingOps /\ step' = "identity" /\ why' = "recovery"
            /\ UNCHANGED recoveredActions
    /\ UNCHANGED <<proc, actionRecoveryFailed, identityDegraded, offline, events, ops, names,
                   namesDisk, ids, idsDisk, boots, failures>>

-------------------------------------------------------------------------------
\* ensureRegistered at a machine's contact: RAM, then the file, which may fail.
Register(m, written) ==
    /\ Served /\ m \notin DOMAIN names
    /\ names' = [k \in DOMAIN names \cup {m} |->
                    IF k = m THEN [into |-> NoMachine, era |-> Era(m)] ELSE names[k]]
    /\ namesDisk' = IF written THEN names' ELSE namesDisk
    /\ failures' = failures + IF written THEN 0 ELSE 1
    /\ UNCHANGED <<process, events, ops, ids, idsDisk, job, boots>>

\* POST /api/events of a machine that is registered.
Contribute(m) ==
    /\ Served /\ ~actionRecoveryFailed /\ m \in DOMAIN names
    /\ events' = events \cup {<<m, Era(m)>>}
    /\ UNCHANGED <<process, ops, names, namesDisk, ids, idsDisk, job, boots, failures>>

\* PUT of identity rows: RAM, then a write whose failure is only logged.
Identify(m, written) ==
    /\ Served /\ ~identityDegraded /\ m \in DOMAIN names
    /\ ids' = ids \cup {<<m, Era(m)>>}
    /\ idsDisk' = IF written THEN ids' ELSE idsDisk
    /\ failures' = failures + IF written THEN 0 ELSE 1
    /\ UNCHANGED <<process, events, ops, names, namesDisk, job, boots>>

\* merge walks the target's aliases: the source is among them, as it is in every
\* set of machines that holds the target and what its members are merged into.
ClosesLoop(m, into) ==
    \A S \in SUBSET DOMAIN names :
        into \in S /\ (\A k \in S : names[k].into \in S \cup {NoMachine}) => m \in S

Merge(m, into, written) ==
    /\ Served /\ {m, into} \subseteq DOMAIN names
    /\ ~ClosesLoop(m, into)
    /\ names' = [names EXCEPT ![m].into = into]
    /\ namesDisk' = IF written THEN names' ELSE namesDisk
    /\ failures' = failures + IF written THEN 0 ELSE 1
    /\ UNCHANGED <<process, events, ops, ids, idsDisk, job, boots>>

-------------------------------------------------------------------------------
\* remove: the rows of the machine, and the receipt, in one transaction.
Commit(m) ==
    /\ Len(ops) < MaxOps
    /\ events' = {r \in events : r[1] # m}
    /\ ops' = Append(ops, [machine |-> m, era |-> Era(m), complete |-> FALSE,
                           boot |-> boots'])
    /\ work' = {Len(ops) + 1} /\ step' = "committed"

\* remove of an operation it holds a receipt of changes nothing.
Again(o) ==
    /\ work' = {o} /\ step' = "committed"
    /\ UNCHANGED <<events, ops>>

\* DELETE /api/machines/:id, under a new operation or one it retries.
Purge(m) ==
    /\ Served /\ work = {} /\ ~actionRecoveryFailed /\ ~identityDegraded
    /\ UNCHANGED boots
    /\ \/ m \in DOMAIN names /\ Commit(m)
       \/ \E o \in DOMAIN ops : ops[o].machine = m /\ ~ops[o].complete /\ Again(o)
    /\ why' = "purge"
    /\ UNCHANGED <<process, names, namesDisk, ids, idsDisk, offline, failures>>

\* purge-machine, with no Hub running: it completes the machine's pending
\* receipt if there is one.
PurgeOffline(m) ==
    LET pending == {o \in DOMAIN ops : ops[o].machine = m /\ ~ops[o].complete}
    IN /\ proc = "down" /\ boots < MaxBoots /\ boots' = boots + 1
       /\ m \in DOMAIN namesDisk \/ pending # {}
       /\ proc' = "cli" /\ names' = namesDisk /\ ids' = idsDisk
       /\ identityDegraded' = FALSE /\ offline' = m
       /\ IF pending # {} THEN \E o \in pending : (\A q \in pending : o <= q) /\ Again(o)
          ELSE Commit(m)
       /\ why' = "purge"
       /\ UNCHANGED <<recoveredActions, actionRecoveryFailed, namesDisk, idsDisk, failures>>

-------------------------------------------------------------------------------
\* The receipt under way: a recovery takes them as they were stored.
Receipt == CHOOSE o \in work : \A q \in work : o <= q
Machine == ops[Receipt].machine

\* The next write of the receipt being completed begins once the last is done.
Completing(s) == work # {} /\ step \in s

\* removeMachine of the identity rows: the file, then RAM.
DropIdentity ==
    /\ Completing({"committed", "identity"})
    /\ ids' = {r \in ids : r[1] # Machine} /\ idsDisk' = {r \in ids : r[1] # Machine}
    /\ step' = "directory"
    /\ UNCHANGED <<process, events, ops, names, namesDisk, work, why, offline, boots, failures>>

\* The directory without the machine: what was merged into it stands alone.
Without(m) == [k \in DOMAIN names \ {m} |->
                  IF names[k].into = m THEN [names[k] EXCEPT !.into = NoMachine] ELSE names[k]]

\* remove of the directory's entry: the file, then RAM.
DropName ==
    /\ Completing({"directory"})
    /\ IF Machine \in DOMAIN names
       THEN names' = Without(Machine) /\ namesDisk' = Without(Machine)
       ELSE UNCHANGED <<names, namesDisk>>
    /\ step' = "complete"
    /\ UNCHANGED <<process, events, ops, ids, idsDisk, work, why, offline, boots, failures>>

\* completeOperation, and the next pending receipt of a recovery.
Complete ==
    /\ Completing({"complete"})
    /\ ops' = [ops EXCEPT ![Receipt].complete = TRUE]
    /\ work' = work \ {Receipt}
    /\ IF work' # {} THEN step' = "identity" /\ UNCHANGED <<why, recoveredActions>>
       ELSE /\ step' = "none" /\ why' = "none"
            /\ recoveredActions' = (recoveredActions \/ why = "recovery")
    /\ proc' = IF proc = "cli" THEN "down" ELSE proc
    /\ UNCHANGED <<actionRecoveryFailed, identityDegraded, offline, events, names, namesDisk,
                   ids, idsDisk, boots, failures>>

\* Mutant: a receipt is completed although a write failed.
GivenUpComplete(o) == [ops EXCEPT ![o].complete = TRUE]
\* A write that fails leaves the receipt as it is.
GivenUp(o) == ops

\* A recovery that failed closes the archive to mutations.
Latch == actionRecoveryFailed \/ why = "recovery"

\* One of the three writes fails: a purge answers 500, a recovery latches, the
\* offline command exits.
WriteFails ==
    /\ Completing({"committed", "identity", "directory", "complete"})
    /\ failures < MaxFailures /\ failures' = failures + 1
    /\ ops' = GivenUp(Receipt)
    /\ actionRecoveryFailed' = Latch
    /\ work' = {} /\ step' = "none" /\ why' = "none" /\ offline' = NoMachine
    /\ proc' = IF proc = "cli" THEN "down" ELSE proc
    /\ UNCHANGED <<recoveredActions, identityDegraded, events, names, namesDisk, ids, idsDisk,
                   boots>>

-------------------------------------------------------------------------------
Writes == IF failures < MaxFailures THEN BOOLEAN ELSE {TRUE}

PurgeNext ==
    \/ Boot \/ Stop \/ Recover
    \/ \E m \in MachineIds, written \in Writes : Register(m, written)
    \/ \E m \in MachineIds : Contribute(m)
    \/ \E m \in MachineIds, written \in Writes : Identify(m, written)
    \/ \E m \in MachineIds, into \in MachineIds, written \in Writes : Merge(m, into, written)
    \/ \E m \in MachineIds : Purge(m)
    \/ \E m \in MachineIds : PurgeOffline(m)
    \/ DropIdentity \/ DropName \/ Complete \/ WriteFails

PurgeSpec == PurgeInit /\ [][PurgeNext]_purgeVars

-------------------------------------------------------------------------------
HubMachinesTypeOK ==
    /\ proc \in {"down", "serving", "cli"}
    /\ step = "none" <=> work = {}
    /\ DOMAIN names \cup DOMAIN namesDisk \subseteq MachineIds

\* A purge whose receipt is complete left nothing the machine had before it: not
\* in the archive, not in either directory, not on disk and so not after a
\* restart, whichever writes failed on the way.
PurgedIsGone ==
    \A o \in DOMAIN ops : ops[o].complete =>
        LET m == ops[o].machine IN
        /\ \A r \in events \cup idsDisk : r[1] = m => r[2] > ops[o].era
        /\ m \in DOMAIN namesDisk => namesDisk[m].era > ops[o].era
        /\ proc # "down" => /\ \A r \in ids : r[1] = m => r[2] > ops[o].era
                            /\ m \in DOMAIN names => names[m].era > ops[o].era

\* Following aliases from any machine ends at one that stands alone, in RAM and
\* in the file, whatever was merged, purged, or not written.
AliasesResolve ==
    \A d \in {names, namesDisk} :
        /\ \A m \in DOMAIN d : d[m].into \in DOMAIN d \cup {NoMachine}
        /\ \A S \in SUBSET DOMAIN d : S # {} => \E m \in S : d[m].into \notin S

\* A complete purge left nothing the machine had before, and every alias of a
\* machine ends at one that stands alone, in RAM and in the file.
PurgeHolds == HubMachinesTypeOK /\ PurgedIsGone /\ AliasesResolve

\* A process serves changes to the archive only when no purge of an earlier
\* process is left half done, unless it cannot read the identity file.
ServedAfterRecovery ==
    [][proc = "serving" /\ events' # events /\ ~identityDegraded =>
         \A o \in DOMAIN ops : ops[o].boot < boots => ops[o].complete]_purgeVars

\* README.md of the Hub, on purge-machine: "Its Fleet events leave the archive,
\* with its identity rows and its Machine directory entry".
PurgeIsWhole ==
    [][proc = "cli" /\ proc' = "down" /\ work' = {} /\ ops' # ops =>
         \A r \in events' : r[1] # offline]_purgeVars

=================================================================================
