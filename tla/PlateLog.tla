------------------------------ MODULE PlateLog ------------------------------
(***************************************************************************)
(* What the plate reporting of the pipeline promises, whoever does it:     *)
(* readings are grouped into tracks while the pipeline runs; a track with  *)
(* enough readings is reported once, and only such a track; the others are *)
(* given up; and when the run has ended no track is left open and nothing  *)
(* is reported any more.                                                   *)
(***************************************************************************)
EXTENDS Naturals, Sequences, FiniteSets

CONSTANTS
    Readings,
    Needed       \* the readings a report is made of, at least

Enough(t) == Cardinality(t) >= Needed

VARIABLES open, log, ended

vars == <<open, log, ended>>

Init ==
    /\ open = {}
    /\ log = <<>>
    /\ ended = FALSE

Known == (UNION open) \cup (UNION {log[i] : i \in 1..Len(log)})

(* A reading nobody has seen before starts a track or joins an open one. *)
Observe ==
    /\ ~ended
    /\ \E r \in Readings \ Known :
         \/ open' = open \cup {{r}}
         \/ \E t \in open : open' = (open \ {t}) \cup {t \cup {r}}
    /\ UNCHANGED <<log, ended>>

(* An open track of enough readings is reported. *)
Report ==
    /\ ~ended
    /\ \E t \in open : Enough(t) /\ log' = Append(log, t) /\ open' = open \ {t}
    /\ UNCHANGED ended

(* Open tracks are given up, for want of readings and for nothing else. *)
Forget ==
    /\ ~ended
    /\ open' \subseteq open
    /\ \A t \in open : Enough(t) => t \in open'
    /\ UNCHANGED <<log, ended>>

End ==
    /\ open = {}
    /\ ended' = TRUE
    /\ UNCHANGED <<open, log>>

Next == Observe \/ Report \/ Forget \/ End

Spec == Init /\ [][Next]_vars
=============================================================================
