-------------------------- MODULE PlateDeduplicator --------------------------
(***************************************************************************)
(* processing/PlateDeduplicator.h: without consolidation, a plate that was *)
(* reported is not reported again for a while.  shouldReport is called     *)
(* under dedupMutex; time is the steady clock, in ticks.                   *)
(***************************************************************************)
EXTENDS Integers, Sequences

CONSTANTS
    Plates,      \* the keys: camera and text
    Window,      \* dedupWindowSeconds, in ticks
    MaxTime      \* bound: ticks

VARIABLES
    now,             \* the clock
    lastReported,    \* lastReported_: when each plate in it was reported
    reports,         \* history: when each plate was reported
    withheld         \* history: when a sighting of it was not reported

dedupVars == <<lastReported, reports, withheld>>
vars == <<now, dedupVars>>

Init ==
    /\ now = 0
    /\ lastReported = [p \in {} |-> 0]
    /\ reports = [p \in Plates |-> <<>>]
    /\ withheld = [p \in Plates |-> {}]

(* Deviant: the entry is renewed by every sighting. *)
RenewedEntry(p, old) == now

(* A sighting inside the window "refreshes nothing". *)
Entry(p, old) == old

(* Deviant: an entry expires a tick early. *)
FreshShort == {p \in DOMAIN lastReported : now - lastReported[p] < Window - 1}

(* pruneExpired *)
Fresh == {p \in DOMAIN lastReported : now - lastReported[p] < Window}

(* shouldReport.  After pruneExpired an entry that is found is inside the  *)
(* window: the code's second test of the window never succeeds.            *)
ShouldReport(p) ==
    /\ lastReported' = [q \in Fresh \cup {p} |->
          IF q \in Fresh THEN (IF q = p THEN Entry(p, lastReported[p]) ELSE lastReported[q])
                         ELSE now]
    /\ IF p \in Fresh
         THEN withheld' = [withheld EXCEPT ![p] = @ \cup {now}] /\ UNCHANGED reports
         ELSE reports' = [reports EXCEPT ![p] = Append(@, now)] /\ UNCHANGED withheld
    /\ UNCHANGED now

Tick ==
    /\ now < MaxTime
    /\ now' = now + 1
    /\ UNCHANGED dedupVars

Next == Tick \/ \E p \in Plates : ShouldReport(p)

Spec == Init /\ [][Next]_vars

-----------------------------------------------------------------------------
(* Properties.                                                             *)

(* "It is reported again only after windowSeconds have passed since the    *)
(* last accepted report": two reports of a plate are a window apart, even  *)
(* though its entry may have been pruned in between ...                    *)
ReportsApart ==
    \A p \in Plates : \A i, j \in DOMAIN reports[p] :
      i < j => reports[p][j] - reports[p][i] >= Window

(* ... and "a car parked in view reports once per window": a sighting is   *)
(* withheld only inside the window of an earlier report, which sightings   *)
(* in between do not extend.                                               *)
WithheldOnlyInWindow ==
    \A p \in Plates : \A t \in withheld[p] : \E i \in DOMAIN reports[p] :
      reports[p][i] <= t /\ t - reports[p][i] < Window
=============================================================================
