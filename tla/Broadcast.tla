------------------------------- MODULE Broadcast -------------------------------
(***************************************************************************)
(* What the shared buffer promises to guests that keep the order of        *)
(* accesses: the writer publishes one message at a time, every reader gets *)
(* each message at most once and whole, and no message is taken back or    *)
(* replaced before every reader has it.  A run may stop at any point.      *)
(***************************************************************************)
EXTENDS Sequences

CONSTANTS Readers, Byte

VARIABLES
    offered,    \* <<m>> while m is being broadcast, or Nothing
    taken       \* taken[r]: <<m>> once r has got m in this broadcast, or Nothing

Nothing == <<>>
Init == offered = Nothing /\ taken = [r \in Readers |-> Nothing]

Offer ==
    /\ offered = Nothing
    /\ offered' \in Seq(Seq(Byte)) /\ Len(offered') = 1
    /\ UNCHANGED taken

Take(r) ==
    /\ offered # Nothing /\ taken[r] = Nothing
    /\ taken' = [taken EXCEPT ![r] = offered]
    /\ UNCHANGED offered

Complete ==
    /\ offered # Nothing
    /\ \A r \in Readers : taken[r] = offered
    /\ offered' = Nothing
    /\ taken' = [r \in Readers |-> Nothing]

Next == Offer \/ Complete \/ \E r \in Readers : Take(r)

Spec == Init /\ [][Next]_<<offered, taken>>
=============================================================================
