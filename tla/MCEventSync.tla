----------------------------- MODULE MCEventSync ------------------------------
(***************************************************************************)
(* Small fleets for the event sync: a replicating client `rep`, a          *)
(* share-only client `shr`, and a peer that is seen only by its pushes.    *)
(***************************************************************************)
EXTENDS EventSync, TLC

CONSTANTS rep, shr, peer, k1, k2, s1

\* A streamed message's partial line, and its final line.
Low  == [total |-> 1, tag |-> NoTag, session |-> s1]
High == [total |-> 2, tag |-> NoTag, session |-> s1]

ProducesNothing == [c \in Clients |-> {}]
ProducesOne == [c \in Clients |-> {<<k1, High>>}]
ProducesTwo == [c \in Clients |-> {<<k1, Low>>, <<k1, High>>}]
===============================================================================
