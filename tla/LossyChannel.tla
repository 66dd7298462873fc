---------------------------- MODULE LossyChannel ----------------------------
(***************************************************************************)
(* What the uplink promises about plate messages, and all it promises: a   *)
(* message that was accepted may be lost, but those that arrive do so in   *)
(* the order of acceptance and once.  Messages are numbered as accepted.   *)
(***************************************************************************)
EXTENDS Naturals, Sequences

VARIABLES
    accepted,       \* messages accepted so far
    outstanding,    \* accepted, neither delivered nor lost
    delivered       \* what has arrived, in order

vars == <<accepted, outstanding, delivered>>

Init ==
    /\ accepted = 0
    /\ outstanding = {}
    /\ delivered = <<>>

(* A message is accepted; older ones may have to make room. *)
Accept ==
    /\ accepted' = accepted + 1
    /\ \E kept \in SUBSET outstanding : outstanding' = kept \cup {accepted + 1}
    /\ UNCHANGED delivered

Lose ==
    /\ outstanding' \subseteq outstanding
    /\ UNCHANGED <<accepted, delivered>>

(* The oldest outstanding message arrives. *)
Deliver ==
    /\ \E m \in outstanding :
         /\ \A n \in outstanding : m <= n
         /\ delivered' = Append(delivered, m)
         /\ outstanding' = outstanding \ {m}
    /\ UNCHANGED accepted

Next == Accept \/ Lose \/ Deliver

Spec == Init /\ [][Next]_vars
=============================================================================
