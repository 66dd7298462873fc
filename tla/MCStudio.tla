------------------------------ MODULE MCStudio ------------------------------
(* Model-checking instance of Studio: a file of one camera or a legacy    *)
(* one, and a network with the addresses 1 and 12 - "10.0.0.1" is part of  *)
(* the text "10.0.0.12".                                                   *)
EXTENDS Studio

Yard == <<Camera(1, 1, 12)>>
TwoFiles == {Yard, <<>>}
OneScan == {<<>>, <<1, 3>>}
Texts == {<<1, 12>>}
=============================================================================
