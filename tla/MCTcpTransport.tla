--------------------------- MODULE MCTcpTransport ---------------------------
(* Model-checking instances of TcpTransport. *)
EXTENDS TcpTransport, TLC

SenderSymmetry == Permutations(Senders)
=============================================================================
