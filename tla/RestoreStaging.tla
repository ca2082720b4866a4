----------------------------- MODULE RestoreStaging -----------------------------
(***************************************************************************)
(* Placing a backup in an empty data dir (apps/hub/src/restore.ts): the    *)
(* files are copied into a staging dir, which is also the mark of a        *)
(* restore that has not finished, checked, made durable and renamed one by *)
(* one.  The process may be killed and the machine lose power at any step; *)
(* a writer may change the backup; a rename, or taking one back, may fail. *)
(* What the data dir's directory holds is durable up to its last fsync,    *)
(* and after that as far as some prefix of the changes made since: its     *)
(* states since then are kept in order, the durable one first.             *)
(***************************************************************************)
EXTENDS Integers, Sequences

CONSTANTS
    Restored,           \* the backup's files in the order they are renamed
    archiveFile, hubFile,       \* events.sqlite, and hub.json
    Unserved,
    MaxWrites, MaxRuns, MaxSetbacks         \* bounds

Backup == {Restored[i] : i \in 1 .. Len(Restored)}

\* RESTORED: each file once, hub.json last.
ASSUME RestoreAssumption ==
    /\ Len(Restored) \in Nat \ {0} /\ Restored[Len(Restored)] = hubFile
    /\ \A i, j \in 1 .. Len(Restored) : Restored[i] = Restored[j] => i = j

VARIABLES
    dirs,               \* the data dir as durable, and after each change since
    run,                \* how far the running restore is; "none" when it is not
    source,             \* the backup archive's version
    copied,             \* versions of the archive, its WAL, and before the copy
    synced,             \* the staged files are durable
    renamed, back,      \* how many files this restore has renamed, and taken back
    spoilt,             \* files whose contents are not the backup's
    own,                \* a Hub has served this data dir, which is its own now
    booted,             \* what the first `serve` found, or Unserved
    reported,           \* a restore reported success
    runs, setbacks

stagingVars == <<dirs, run, source, copied, synced, renamed, back, spoilt, own, booted,
                 reported, runs, setbacks>>

\* The data dir as a process sees it, and as it is durable.
Dir == dirs[Len(dirs)]
Durable == dirs[1]

\* A change of the data dir: the mark made or removed, a file placed or removed.
Changes(dir) == dirs' = Append(dirs, dir)
Marked(dir, mark) == [dir EXCEPT !.mark = mark]
Placing(dir, f) == [dir EXCEPT !.files = @ \cup {f}]
Removing(dir, f) == [dir EXCEPT !.files = @ \ {f}]

StagingInit ==
    /\ dirs = <<[mark |-> FALSE, files |-> {}]>>
    /\ run = "none" /\ source = 0 /\ copied = <<>> /\ synced = FALSE /\ renamed = 0 /\ back = 0
    /\ spoilt = {} /\ own = FALSE /\ booted = Unserved /\ reported = FALSE
    /\ runs = 0 /\ setbacks = 0

-------------------------------------------------------------------------------
\* restore takes the lock; it refuses a data dir that holds a Hub's files, and
\* clears a mark that stands alone.
BeginRestore ==
    /\ run = "none" /\ runs < MaxRuns /\ ~own /\ Dir.files = {}
    /\ runs' = runs + 1
    /\ dirs' = dirs \o IF Dir.mark THEN <<Marked(Dir, FALSE), Dir>> ELSE <<Marked(Dir, TRUE)>>
    /\ run' = "copying" /\ copied' = <<source>> /\ synced' = FALSE /\ renamed' = 0 /\ back' = 0
    /\ spoilt' = {}
    /\ UNCHANGED <<source, own, booted, reported, setbacks>>

\* A Hub or another program writes the backup's archive meanwhile.
SourceWrite ==
    /\ run = "copying" /\ source < MaxWrites
    /\ source' = source + 1
    /\ UNCHANGED <<dirs, run, copied, synced, renamed, back, spoilt, own, booted, reported,
                   runs, setbacks>>

\* The archive is copied, then its WAL and journal.
CopyPart ==
    /\ run = "copying" /\ Len(copied) < 3
    /\ copied' = Append(copied, source)
    /\ UNCHANGED <<dirs, run, source, synced, renamed, back, spoilt, own, booted, reported,
                   runs, setbacks>>

\* What a failure does to the mark: removed when no file was placed.
Leave(keeps) ==
    /\ run' = "none"
    /\ IF keeps THEN UNCHANGED dirs ELSE Changes(Marked(Dir, FALSE))

\* The group is read the same before the copy and after it.
Untouched == copied[1] = source

\* The data dir is fsynced.
Synced == dirs' = <<Dir>>

\* The checks of what was copied, and the fsync of each staged file.
CheckStaged ==
    /\ run = "copying" /\ Len(copied) = 3
    /\ IF Untouched
       THEN /\ run' = "placing" /\ synced' = TRUE /\ Synced
            /\ spoilt' = IF copied[2] = copied[3] THEN {} ELSE {archiveFile}
       ELSE Leave(FALSE) /\ UNCHANGED <<synced, spoilt>>
    /\ UNCHANGED <<source, copied, renamed, back, own, booted, reported, runs, setbacks>>

\* Mutant: hub.json is not the last.
PlacedReversed(i) == Restored[Len(Restored) + 1 - i]
\* The i-th file renamed.
Placed(i) == Restored[i]

Rename ==
    /\ run = "placing" /\ renamed < Len(Restored)
    /\ Changes(Placing(Dir, Placed(renamed + 1)))
    /\ renamed' = renamed + 1
    /\ UNCHANGED <<run, source, copied, synced, back, spoilt, own, booted, reported, runs, setbacks>>

SetBack == setbacks < MaxSetbacks /\ setbacks' = setbacks + 1

\* Anything before the renames may fail too: nothing was placed.
CopyFails ==
    /\ run = "copying" /\ SetBack /\ Leave(FALSE)
    /\ UNCHANGED <<source, copied, synced, renamed, back, spoilt, own, booted, reported, runs>>

RenameFails ==
    /\ run = "placing" /\ renamed < Len(Restored) /\ SetBack
    /\ run' = "takingBack"
    /\ UNCHANGED <<dirs, source, copied, synced, renamed, back, spoilt, own, booted, reported, runs>>

\* The files placed before are taken back, from the first.
TakeOneBack ==
    /\ run = "takingBack" /\ back < renamed
    /\ back' = back + 1
    /\ Changes(Removing(Dir, Placed(back + 1)))
    /\ UNCHANGED <<run, source, copied, synced, renamed, spoilt, own, booted, reported, runs, setbacks>>

TakenBack ==
    /\ run = "takingBack" /\ back = renamed /\ Leave(FALSE)
    /\ UNCHANGED <<source, copied, synced, renamed, back, spoilt, own, booted, reported, runs, setbacks>>

\* A file that could not be taken back stays beside the mark.
KeepsMark == TRUE

TakeBackFails ==
    /\ run = "takingBack" /\ back < renamed /\ SetBack /\ Leave(KeepsMark)
    /\ UNCHANGED <<source, copied, synced, renamed, back, spoilt, own, booted, reported, runs>>

SyncDir ==
    /\ run = "placing" /\ renamed = Len(Restored)
    /\ run' = "placed" /\ Synced
    /\ UNCHANGED <<source, copied, synced, renamed, back, spoilt, own, booted, reported, runs, setbacks>>

\* The fsync fails: the mark stays beside the placed files.
SyncDirFails ==
    /\ run = "placing" /\ renamed = Len(Restored) /\ SetBack /\ Leave(KeepsMark)
    /\ UNCHANGED <<source, copied, synced, renamed, back, spoilt, own, booted, reported, runs>>

\* The staging dir is removed and the report printed.
Report ==
    /\ run = "placed" /\ Leave(FALSE) /\ reported' = TRUE
    /\ UNCHANGED <<source, copied, synced, renamed, back, spoilt, own, booted, runs, setbacks>>

-------------------------------------------------------------------------------
\* The process is killed: the data dir is as it left it.
Killed ==
    /\ run # "none" /\ run' = "none"
    /\ UNCHANGED <<dirs, source, copied, synced, renamed, back, spoilt, own, booted, reported,
                   runs, setbacks>>

\* Power is lost: some prefix of the changes survived; a file renamed before
\* its contents were durable may be empty.
PowerLoss ==
    \E n \in 1 .. Len(dirs) :
        /\ dirs' = <<dirs[n]>>
        /\ dirs[n] # Dir \/ run # "none"
        /\ spoilt' = IF synced THEN spoilt ELSE Backup
        /\ run' = "none"
        /\ UNCHANGED <<source, copied, synced, renamed, back, own, booted, reported, runs, setbacks>>

\* serve refuses a data dir with a mark, and otherwise serves what it holds.
ServeData ==
    /\ run = "none" /\ ~Dir.mark /\ booted = Unserved
    /\ booted' = Dir.files /\ own' = TRUE
    /\ UNCHANGED <<dirs, run, source, copied, synced, renamed, back, spoilt, reported, runs, setbacks>>

StagingNext ==
    \/ BeginRestore \/ SourceWrite \/ CopyPart \/ CheckStaged \/ CopyFails
    \/ Rename \/ RenameFails \/ TakeOneBack \/ TakenBack \/ TakeBackFails
    \/ SyncDir \/ SyncDirFails \/ Report
    \/ Killed \/ PowerLoss \/ ServeData

StagingSpec == StagingInit /\ [][StagingNext]_stagingVars

-------------------------------------------------------------------------------
\* A Hub serves an empty data dir or the whole of one backup, each file as it
\* was at one moment, whatever was killed, failed or lost power before it.
ServesWhole == booted # Unserved => booted = {} \/ (booted = Backup /\ spoilt = {})

\* A verb that finds hub.json finds a whole restore.
HubMeansWhole == run = "none" /\ ~own /\ hubFile \in Dir.files => Dir.files = Backup

\* What a restore has reported survives a loss of power.
ReportedIsDurable == reported => Durable.files = Backup

\* A restored Hub is the whole backup or nothing: what is served, what a file
\* hub.json means, and what was reported as done, across kills and power loss.
RestoreIsWhole == ServesWhole /\ HubMeansWhole /\ ReportedIsDurable

=================================================================================
