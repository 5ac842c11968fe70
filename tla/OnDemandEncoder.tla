-------------------------- MODULE OnDemandEncoder --------------------------
(***************************************************************************)
(* What the shared-encoder table promises: per tier an encoder that is     *)
(* built for the first client, shared by all, and dismantled after the     *)
(* last.  An encoder is named by a number, 0 is none; a dismantled one     *)
(* lingers in the pipeline until it is reclaimed.                          *)
(***************************************************************************)
EXTENDS Naturals

CONSTANTS Keys, Clients

VARIABLES users, encoder, lingering

vars == <<users, encoder, lingering>>

Init ==
    /\ users = [k \in Keys |-> {}]
    /\ encoder = [k \in Keys |-> 0]
    /\ lingering = {}

InUse == {encoder[k] : k \in Keys} \cup lingering

Join(k, c) ==
    /\ c \notin users[k]
    /\ users' = [users EXCEPT ![k] = @ \cup {c}]
    /\ IF users[k] = {}
       THEN /\ encoder'[k] \notin InUse \cup {0}
            /\ encoder' = [encoder EXCEPT ![k] = encoder'[k]]
       ELSE UNCHANGED encoder
    /\ UNCHANGED lingering

Leave(k, c) ==
    /\ c \in users[k]
    /\ users' = [users EXCEPT ![k] = @ \ {c}]
    /\ IF users[k] = {c}
       THEN /\ encoder' = [encoder EXCEPT ![k] = 0]
            /\ lingering' = lingering \cup {encoder[k]}
       ELSE UNCHANGED <<encoder, lingering>>

Reclaim(e) ==
    /\ e \in lingering
    /\ lingering' = lingering \ {e}
    /\ UNCHANGED <<users, encoder>>

Next ==
    \/ \E k \in Keys, c \in Clients : Join(k, c) \/ Leave(k, c)
    \/ \E e \in lingering : Reclaim(e)

Spec == Init /\ [][Next]_vars
=============================================================================
