------------------------------- MODULE TailReader -------------------------------
(***************************************************************************)
(* The incremental reading of transcripts (apps/sidecar/src/tail-reader.ts *)
(* and the flushes of watcher.ts): file events are debounced a path, a     *)
(* flush reads the parent session before a subagent's file, the reads of a *)
(* path follow one another, each resumes at the offset and the attribution *)
(* cursor its predecessor left.  A file is counted in half lines: an odd   *)
(* length ends in a line not yet terminated.                               *)
(***************************************************************************)
EXTENDS Integers, Sequences

CONSTANTS
    parent, sub, NoPath,    \* a session's transcript, and its subagent's
    MaxHalves, MaxGens, MaxFileOps, MaxIoErrors     \* bounds

ASSUME TailAssumption ==
    parent # sub /\ NoPath \notin {parent, sub} /\ MaxGens \in Nat /\ MaxHalves \in Nat

Paths == {parent, sub}
ParentOf(p) == IF p = sub THEN parent ELSE NoPath

VARIABLES
    file,           \* each transcript: its generation, length, and existence
    cut,            \* truncated, and no read has noticed yet
    notices, timer, \* watch events not yet delivered; the debounce is running
    reads,          \* the reads of a path, in order; each with the read it precedes
    head,           \* how far the first of them is, and what it sampled
    offsets, cursorAtEnd,
    landed,         \* the lines of each generation handed to the engine, in order
    spawned,        \* what the parent held when the subagent's file appeared
    crossed,        \* paths of which a read resumed before an unlink was heard
    thrown,         \* paths of which a flush was cut short by a read that threw
    fileOps, ioErrors

transcripts == <<file, cut, spawned, fileOps>>
tailVars == <<file, cut, notices, timer, reads, head, offsets, cursorAtEnd, landed,
              spawned, crossed, thrown, fileOps, ioErrors>>

Fresh == [gen |-> 0, at |-> 0]
Idle == [phase |-> "idle", size |-> -1, gen |-> 0, from |-> 0]

TailInit ==
    /\ file = [p \in Paths |-> [gen |-> 0, len |-> 0, alive |-> FALSE]]
    /\ cut = [p \in Paths |-> FALSE] /\ notices = [p \in Paths |-> <<>>]
    /\ timer = [p \in Paths |-> FALSE] /\ reads = [p \in Paths |-> <<>>]
    /\ head = [p \in Paths |-> Idle] /\ offsets = [p \in Paths |-> 0]
    /\ cursorAtEnd = [p \in Paths |-> Fresh]
    /\ landed = [p \in Paths |-> [g \in 1 .. MaxGens |-> <<>>]]
    /\ spawned = Fresh /\ crossed = {} /\ thrown = {}
    /\ fileOps = 0 /\ ioErrors = 0

-------------------------------------------------------------------------------
\* The file system tells of each change, several not yet heard at once.
Heard(news, e) == IF news # <<>> /\ news[Len(news)] = e THEN news ELSE Append(news, e)
Tells(p, e) == notices' = [notices EXCEPT ![p] = Heard(@, e)]

Changed == fileOps < MaxFileOps /\ fileOps' = fileOps + 1

\* Claude Code appends a whole line, a part of one, or the rest of it.  After a
\* truncation it does so once that was noticed: a file that regrew past the
\* offset meanwhile looks like one that only grew.
Grow(p, by) ==
    /\ Changed /\ file[p].alive /\ ~cut[p] /\ file[p].len + by <= MaxHalves
    /\ file' = [file EXCEPT ![p].len = @ + by]
    /\ Tells(p, "change")
    /\ UNCHANGED <<cut, spawned, timer, reads, head, offsets, cursorAtEnd, landed, crossed, thrown, ioErrors>>

\* A transcript appears; a session's again once its unlink was heard, a
\* subagent's under a name of its own.
CreateFile(p, n) ==
    /\ Changed /\ ~file[p].alive /\ notices[p] = <<>> /\ file[p].gen < MaxGens
    /\ p = sub => file[parent].alive /\ file[p].gen = 0
    /\ file' = [file EXCEPT ![p] = [gen |-> @.gen + 1, len |-> n, alive |-> TRUE]]
    /\ spawned' = IF p = sub THEN [gen |-> file[parent].gen, at |-> file[parent].len \div 2]
                  ELSE spawned
    /\ Tells(p, "change")
    /\ UNCHANGED <<cut, timer, reads, head, offsets, cursorAtEnd, landed, crossed, thrown, ioErrors>>

Truncate(p) ==
    /\ Changed /\ file[p].alive /\ file[p].len > 0 /\ file[p].gen < MaxGens
    /\ file' = [file EXCEPT ![p] = [gen |-> @.gen + 1, len |-> 0, alive |-> TRUE]]
    /\ cut' = [cut EXCEPT ![p] = TRUE]
    /\ Tells(p, "change")
    /\ UNCHANGED <<spawned, timer, reads, head, offsets, cursorAtEnd, landed, crossed, thrown, ioErrors>>

Unlink(p) ==
    /\ Changed /\ file[p].alive
    /\ file' = [file EXCEPT ![p].alive = FALSE]
    /\ cut' = [cut EXCEPT ![p] = FALSE]
    /\ Tells(p, "unlink")
    /\ UNCHANGED <<spawned, timer, reads, head, offsets, cursorAtEnd, landed, crossed, thrown, ioErrors>>

-------------------------------------------------------------------------------
\* forget: a recreated file is read from byte 0.
Forgotten(p) == [offsets EXCEPT ![p] = 0]

\* The watcher's handlers: every event restarts the debounce, an unlink also
\* drops the offset and the cursor.
Deliver(p) ==
    /\ notices[p] # <<>>
    /\ notices' = [notices EXCEPT ![p] = Tail(@)]
    /\ timer' = [timer EXCEPT ![p] = TRUE]
    /\ IF Head(notices[p]) = "unlink"
       THEN /\ offsets' = Forgotten(p)
            /\ cursorAtEnd' = [cursorAtEnd EXCEPT ![p] = Fresh]
            /\ crossed' = IF head[p].phase \in {"slicing", "sliced"} THEN crossed \cup {p} ELSE crossed
       ELSE UNCHANGED <<offsets, cursorAtEnd, crossed>>
    /\ UNCHANGED <<transcripts, reads, head, landed, thrown, ioErrors>>

\* Mutant: a subagent's file is read without its parent's.
FlushOwn(p) == [reads EXCEPT ![p] = Append(@, NoPath)]
\* flush: the parent's read first, the path's own when that has ended.
Flush(p) ==
    IF ParentOf(p) = NoPath THEN [reads EXCEPT ![p] = Append(@, NoPath)]
    ELSE [reads EXCEPT ![ParentOf(p)] = Append(@, p)]

Fire(p) ==
    /\ timer[p]
    /\ timer' = [timer EXCEPT ![p] = FALSE]
    /\ reads' = Flush(p)
    /\ UNCHANGED <<transcripts, notices, head, offsets, cursorAtEnd, landed, crossed, thrown, ioErrors>>

-------------------------------------------------------------------------------
\* A read's end lets the next of the path begin, and of the flush.
Ended(p) ==
    /\ head' = [head EXCEPT ![p] = Idle]
    /\ reads' = LET rest == [reads EXCEPT ![p] = Tail(@)]
                    next == Head(reads[p])
                IN IF next = NoPath THEN rest ELSE [rest EXCEPT ![next] = Append(@, NoPath)]

\* A read that throws: its flush goes no further, the path's next read runs.
Thrown(p) ==
    /\ head' = [head EXCEPT ![p] = Idle]
    /\ reads' = [reads EXCEPT ![p] = Tail(@)]
    /\ thrown' = thrown \cup ({p, Head(reads[p])} \ {NoPath})

\* doRead's stat is answered by the file system.
StatSample(p) ==
    /\ reads[p] # <<>> /\ head[p].phase = "idle"
    /\ head' = [head EXCEPT ![p] = [phase |-> "sized", gen |-> file[p].gen, from |-> 0,
                                    size |-> IF file[p].alive THEN file[p].len ELSE -1]]
    /\ UNCHANGED <<transcripts, notices, timer, reads, offsets, cursorAtEnd, landed, crossed, thrown, ioErrors>>

\* Truncated or rotated: from the top.
ResumeAt(p) == IF head[p].size < offsets[p] THEN 0 ELSE offsets[p]

\* A read that starts at byte zero drops the cursor, even with no line to parse.
EmptyReadCursor(p, from) ==
    IF from = 0 THEN [cursorAtEnd EXCEPT ![p] = Fresh] ELSE cursorAtEnd

\* doRead goes on after its stat: gone or nothing new ends it.
StatResume(p) ==
    LET size == head[p].size
        from == ResumeAt(p)
    IN /\ head[p].phase = "sized"
       /\ CASE size = -1 -> Ended(p) /\ UNCHANGED <<offsets, cursorAtEnd>>
            [] size # -1 /\ size <= from ->
                 /\ offsets' = [offsets EXCEPT ![p] = size]
                 /\ cursorAtEnd' = EmptyReadCursor(p, from)
                 /\ Ended(p)
            [] size > from ->
                 /\ head' = [head EXCEPT ![p] = [@ EXCEPT !.phase = "slicing", !.from = from]]
                 /\ UNCHANGED <<reads, offsets, cursorAtEnd>>
       /\ cut' = [cut EXCEPT ![p] = @ /\ ~(size = 0 /\ head[p].gen = file[p].gen)]
       /\ UNCHANGED <<file, spawned, fileOps, notices, timer, landed, crossed, thrown, ioErrors>>

\* The file system answers with the bytes from there to the end; a file that
\* is gone makes the read throw.
SliceSample(p) ==
    /\ head[p].phase = "slicing"
    /\ IF file[p].alive
       THEN /\ head' = [head EXCEPT ![p] = [@ EXCEPT !.phase = "sliced", !.gen = file[p].gen,
                                                     !.size = file[p].len]]
            /\ UNCHANGED <<reads, thrown>>
       ELSE Thrown(p)
    /\ UNCHANGED <<transcripts, notices, timer, offsets, cursorAtEnd, landed, crossed, ioErrors>>

\* Up to the last newline.
Consumed(h) == IF h.size > h.from THEN 2 * (h.size \div 2) ELSE h.from

\* The lines of a chunk, each with the cursor it is resolved under.
Parsed(h, cursor) ==
    [i \in 1 .. (Consumed(h) - h.from) \div 2 |->
        [line |-> h.from \div 2 + i,
         after |-> IF i = 1 THEN cursor ELSE [gen |-> h.gen, at |-> h.from \div 2 + i - 1]]]

\* The read ends and its flush parses what it read into the engine.
Finish(p) ==
    LET h == head[p]
        lines == Parsed(h, IF h.from = 0 THEN Fresh ELSE cursorAtEnd[p])
    IN /\ h.phase = "sliced"
       /\ offsets' = [offsets EXCEPT ![p] = Consumed(h)]
       /\ landed' = [landed EXCEPT ![p][h.gen] = @ \o lines]
       /\ cursorAtEnd' =
            [cursorAtEnd EXCEPT ![p] =
                IF lines # <<>> THEN [gen |-> h.gen, at |-> lines[Len(lines)].line]
                ELSE IF h.from = 0 THEN Fresh ELSE @]
       /\ Ended(p)
       /\ UNCHANGED <<transcripts, notices, timer, crossed, thrown, ioErrors>>

\* A disk error in the slice: no line of it is consumed.
SliceFails(p) ==
    /\ ioErrors < MaxIoErrors /\ head[p].phase = "slicing"
    /\ Thrown(p)
    /\ ioErrors' = ioErrors + 1
    /\ UNCHANGED <<transcripts, notices, timer, offsets, cursorAtEnd, landed, crossed>>

-------------------------------------------------------------------------------
TailNext ==
    \/ \E p \in Paths, by \in 1 .. 2 : Grow(p, by)
    \/ \E p \in Paths, n \in 1 .. 2 : CreateFile(p, n)
    \/ \E p \in Paths : Truncate(p)
    \/ \E p \in Paths : Unlink(p)
    \/ \E p \in Paths : Deliver(p)
    \/ \E p \in Paths : Fire(p)
    \/ \E p \in Paths : StatSample(p)
    \/ \E p \in Paths : StatResume(p)
    \/ \E p \in Paths : SliceSample(p)
    \/ \E p \in Paths : Finish(p)
    \/ \E p \in Paths : SliceFails(p)

TailSpec == TailInit /\ [][TailNext]_tailVars

\* Events are delivered, timers fire, and I/O is answered.
TailFairness == \A p \in Paths :
    /\ WF_tailVars(Deliver(p)) /\ WF_tailVars(Fire(p))
    /\ WF_tailVars(StatSample(p) \/ StatResume(p) \/ SliceSample(p) \/ Finish(p))

TailFairSpec == TailSpec /\ TailFairness

-------------------------------------------------------------------------------
\* Each line of a file's life reaches the engine once, whole and in order, and
\* is resolved under the attribution of the lines before it in that life alone;
\* a read that an unlink crossed is the one exception.
LinesExactly ==
    \A p \in Paths : p \notin crossed =>
        \A g \in 1 .. MaxGens : LET lines == landed[p][g] IN
            \A i \in DOMAIN lines :
                /\ lines[i].line = i
                /\ lines[i].after = IF i = 1 THEN Fresh ELSE [gen |-> g, at |-> i - 1]

\* A subagent's lines reach the engine after all its parent held when it was
\* spawned, or the parent's file is not that one any more.
ParentFirst ==
    (\E g \in 1 .. MaxGens : landed[sub][g] # <<>>)
      /\ file[parent].alive /\ file[parent].gen = spawned.gen /\ parent \notin crossed
        => Len(landed[parent][spawned.gen]) >= spawned.at

\* Every line reaches the engine once, whole, in order, and after what spawned it.
LinesLandOnce == LinesExactly /\ ParentFirst

\* What a file holds is read, however events, debounces and reads interleave.
AllLanded ==
    \A p \in Paths : file[p].alive /\ p \notin crossed \cup thrown =>
        Len(landed[p][file[p].gen]) >= file[p].len \div 2
EveryLineLands == <>[]AllLanded

\* watcher.ts: "A recreated file re-reads from byte 0 with a fresh cursor."
RecreatedRereads ==
    \A p \in Paths : \A g \in 1 .. MaxGens :
        landed[p][g] # <<>> => landed[p][g][1].line = 1 /\ landed[p][g][1].after = Fresh

=================================================================================
