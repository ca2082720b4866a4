------------------------------ MODULE FleetCopy -------------------------------
(***************************************************************************)
(* What a Fleet replica promises, without requests, pages or recoveries:   *)
(* a disposable copy of one archive at one position of its history.  It is *)
(* taken at some position, only moves forward along that history, and is   *)
(* dropped whole.  It never holds a mixture of two positions or of two     *)
(* archives.                                                               *)
(***************************************************************************)
EXTENDS Naturals

CONSTANTS
    Readers,    \* who may hold a copy
    NoCopy      \* a reader that holds none

VARIABLES
    archive,    \* archive[e][n]: what archive e held at its position n
    copies      \* each reader's copy: of which archive, where, and its content

copyVars == <<archive, copies>>

Last(e) == CHOOSE n \in DOMAIN archive[e] : \A p \in DOMAIN archive[e] : p <= n

\* A copy is exact: the archive's own content at the position it names.
CopyAt(e, n) == [epoch |-> e, at |-> n, content |-> archive[e][n]]

Init ==
    /\ DOMAIN archive = {1} /\ DOMAIN archive[1] = {0}
    /\ copies = [c \in Readers |-> NoCopy]

\* The newest archive changes: one more position, the earlier ones kept.
Append ==
    /\ \E e \in DOMAIN archive :
         /\ e + 1 \notin DOMAIN archive
         /\ DOMAIN archive' = DOMAIN archive
         /\ DOMAIN archive'[e] = 0 .. (Last(e) + 1)
         /\ \A n \in DOMAIN archive[e] : archive'[e][n] = archive[e][n]
         /\ \A d \in DOMAIN archive \ {e} : archive'[d] = archive[d]
    /\ UNCHANGED copies

\* Another archive follows, which begins as an earlier one once was.
Renew ==
    /\ \E e \in DOMAIN archive :
         /\ e + 1 \notin DOMAIN archive
         /\ DOMAIN archive' = DOMAIN archive \cup {e + 1}
         /\ \A d \in DOMAIN archive : archive'[d] = archive[d]
         /\ \E d \in DOMAIN archive : \E n \in DOMAIN archive[d] :
              archive'[e + 1] = [p \in 0 .. n |-> archive[d][p]]
    /\ UNCHANGED copies

Take(c) ==
    /\ copies[c] = NoCopy
    /\ \E e \in DOMAIN archive : \E n \in DOMAIN archive[e] :
         copies' = [copies EXCEPT ![c] = CopyAt(e, n)]
    /\ UNCHANGED archive

Advance(c) ==
    /\ copies[c] # NoCopy
    /\ \E n \in DOMAIN archive[copies[c].epoch] :
         /\ n > copies[c].at
         /\ copies' = [copies EXCEPT ![c] = CopyAt(copies[c].epoch, n)]
    /\ UNCHANGED archive

Drop(c) ==
    /\ copies[c] # NoCopy
    /\ copies' = [copies EXCEPT ![c] = NoCopy]
    /\ UNCHANGED archive

Next ==
    \/ Append \/ Renew
    \/ \E c \in Readers : Take(c) \/ Advance(c) \/ Drop(c)

Spec == Init /\ [][Next]_copyVars
===============================================================================
