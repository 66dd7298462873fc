-------------------------- MODULE MCPlateReporting --------------------------
(* Model-checking instance of PlateReporting.  Three vehicles: one with a  *)
(* jittery plate, one with another plate beside it, and one with the       *)
(* first one's plate far away.                                             *)
EXTENDS PlateReporting

Sighting(text, conf, place) == [text |-> text, conf |-> conf, place |-> place]

Scene == {Sighting(<<1, 1>>, 3, 0), Sighting(<<1, 2>>, 2, 1), Sighting(<<1>>, 1, 0),
          Sighting(<<3, 3>>, 2, 1), Sighting(<<1, 1>>, 1, 9)}
=============================================================================
