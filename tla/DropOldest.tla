----------------------------- MODULE DropOldest -----------------------------
(***************************************************************************)
(* The drop-oldest buffer that BoundedQueue (frames) and                   *)
(* TcpNetworkTransport (outgoing messages) share: a FIFO whose push makes  *)
(* room by discarding its head.  Pure operators on sequences.              *)
(***************************************************************************)
EXTENDS Naturals, Sequences

(* The elements of a sequence, as a set. *)
Elements(q) == {q[i] : i \in 1..Len(q)}

(* size() >= capacity: the push that follows evicts the head. *)
Full(q, cap) == Len(q) >= cap

(* Deviant: everything queued is discarded to make room. *)
PushDropAll(q, x, cap) == IF Full(q, cap) THEN <<x>> ELSE Append(q, x)

(* Deviant: the new element goes to the front. *)
PushFront(q, x, cap) ==
    IF Full(q, cap) THEN <<x>> \o Tail(q) ELSE <<x>> \o q

(* if (size() >= capacity) pop_front(); push_back(x). *)
PushDropOldest(q, x, cap) ==
    IF Full(q, cap) THEN Append(Tail(q), x) ELSE Append(q, x)
=============================================================================
