------------------------ MODULE PlateReportingProofs ------------------------
(***************************************************************************)
(* Proofs about PlateReporting: the deduplicator alone, the deduplicator   *)
(* as the worker uses it, and the tracker with the texts it compares and   *)
(* votes on - for any sightings, limits, numbers of readings and times.    *)
(***************************************************************************)
EXTENDS PlateReporting, CommonLemmas

-----------------------------------------------------------------------------
(* PlateDeduplicator, for any number of plates and any window.             *)

(* The type of the deduplicator's variables. *)
DedupType ==
    /\ now \in Nat
    /\ DOMAIN lastReported \subseteq Plates
    /\ \A p \in DOMAIN lastReported : lastReported[p] \in Nat
    /\ reports \in [Plates -> Seq(Nat)]
    /\ withheld \in [Plates -> SUBSET Nat]

(* An entry is the time of a report, and of the latest. *)
EntryIsLatest ==
    \A p \in DOMAIN lastReported :
      /\ \E i \in DOMAIN reports[p] : reports[p][i] = lastReported[p]
      /\ \A i \in DOMAIN reports[p] : reports[p][i] <= lastReported[p]
      /\ lastReported[p] <= now

(* A plate without an entry was last reported a window ago. *)
PrunedWhenOld ==
    \A p \in Plates \ DOMAIN lastReported : \A i \in DOMAIN reports[p] :
      now - reports[p][i] >= Window

DedupInv == DedupType /\ EntryIsLatest /\ PrunedWhenOld /\ Dedup!ReportsApart /\ Dedup!WithheldOnlyInWindow

(* Initially there is no entry and no report. *)
LEMMA DedupInitially == Dedup!Init => DedupInv
  BY DEF Dedup!Init, DedupInv, DedupType, EntryIsLatest, PrunedWhenOld, Dedup!ReportsApart,
         Dedup!WithheldOnlyInWindow

(* What pruneExpired leaves out is a window old. *)
LEMMA ForgottenIsOld ==
    ASSUME DedupInv, NEW p \in Plates, p \notin Dedup!Fresh
    PROVE  \A i \in DOMAIN reports[p] : now - reports[p][i] >= Window
<1>1. CASE p \notin DOMAIN lastReported
  BY <1>1 DEF DedupInv, PrunedWhenOld
<1>2. CASE p \in DOMAIN lastReported
  <2>1. now - lastReported[p] >= Window /\ lastReported[p] \in Nat /\ now \in Nat
    BY ReportingAssumption, <1>2 DEF Dedup!Fresh, DedupInv, DedupType
  <2>2. \A i \in DOMAIN reports[p] : reports[p][i] \in Nat /\ reports[p][i] <= lastReported[p]
    BY <1>2 DEF DedupInv, DedupType, EntryIsLatest
  <2> QED BY ReportingAssumption, <2>1, <2>2
<1> QED BY <1>1, <1>2

(* The clock may pass the end of any window. *)
LEMMA DedupTick == DedupInv /\ Dedup!Tick => DedupInv'
<1> SUFFICES ASSUME DedupInv, Dedup!Tick PROVE DedupInv'
  OBVIOUS
<1>1. now \in Nat /\ now' = now + 1
  BY DEF DedupInv, DedupType, Dedup!Tick
<1>2. UNCHANGED <<lastReported, reports, withheld>>
  BY DEF Dedup!Tick, Dedup!dedupVars
<1>3. DedupType'
  BY <1>1, <1>2 DEF DedupInv, DedupType
<1>4. EntryIsLatest'
  BY <1>1, <1>2 DEF DedupInv, EntryIsLatest, DedupType
<1>5. PrunedWhenOld'
  <2> SUFFICES ASSUME NEW p \in Plates, p \notin DOMAIN lastReported, NEW i \in DOMAIN reports[p]
               PROVE  now' - reports[p][i] >= Window
    BY <1>2 DEF PrunedWhenOld
  <2>1. now - reports[p][i] >= Window /\ reports[p][i] \in Nat
    BY DEF DedupInv, PrunedWhenOld, DedupType
  <2> QED BY ReportingAssumption, <1>1, <2>1
<1>6. Dedup!ReportsApart' /\ Dedup!WithheldOnlyInWindow'
  BY <1>2 DEF DedupInv, Dedup!ReportsApart, Dedup!WithheldOnlyInWindow
<1> QED BY <1>3, <1>4, <1>5, <1>6 DEF DedupInv

(* What the pruning keeps is an entry as before; what it drops was last    *)
(* reported a window ago.                                                  *)
LEMMA SightingPreserves ==
    ASSUME DedupInv, NEW p \in Plates, Dedup!ShouldReport(p)
    PROVE  DedupInv'
<1>1. now' = now /\ now \in Nat /\ DOMAIN lastReported' = Dedup!Fresh \cup {p}
  BY DEF Dedup!ShouldReport, DedupInv, DedupType
<1>2. Dedup!Fresh \subseteq DOMAIN lastReported /\ Dedup!Fresh \subseteq Plates
  BY DEF Dedup!Fresh, DedupInv, DedupType
<1>3. \A q \in Dedup!Fresh : lastReported'[q] = lastReported[q]
  BY DEF Dedup!ShouldReport, Dedup!Entry
<1>4. \A q \in Plates \ Dedup!Fresh : \A i \in DOMAIN reports[q] : now - reports[q][i] >= Window
  BY ForgottenIsOld
<1>5. CASE p \in Dedup!Fresh
  <2>1. DOMAIN lastReported' = Dedup!Fresh /\ reports' = reports
        /\ withheld' = [withheld EXCEPT ![p] = @ \cup {now}]
    BY <1>1, <1>5 DEF Dedup!ShouldReport
  <2>2. DedupType'
    <3>1. \A q \in DOMAIN lastReported' : lastReported'[q] \in Nat
      BY <1>2, <1>3, <2>1 DEF DedupInv, DedupType
    <3> QED BY <1>1, <1>2, <2>1, <3>1 DEF DedupInv, DedupType
  <2>3. EntryIsLatest'
    BY <1>1, <1>2, <1>3, <2>1 DEF DedupInv, EntryIsLatest
  <2>4. PrunedWhenOld'
    BY <1>1, <1>4, <2>1 DEF PrunedWhenOld
  <2>5. Dedup!ReportsApart'
    BY <2>1 DEF DedupInv, Dedup!ReportsApart
  <2>6. Dedup!WithheldOnlyInWindow'
    <3>1. \E i \in DOMAIN reports[p] : reports[p][i] <= now /\ now - reports[p][i] < Window
      BY <1>5 DEF Dedup!Fresh, DedupInv, EntryIsLatest
    <3> SUFFICES ASSUME NEW q \in Plates, NEW t \in withheld'[q]
                 PROVE  \E i \in DOMAIN reports[q] : reports[q][i] <= t /\ t - reports[q][i] < Window
      BY <2>1 DEF Dedup!WithheldOnlyInWindow
    <3>2. t \in withheld[q] \/ (q = p /\ t = now)
      BY <2>1 DEF DedupInv, DedupType
    <3> QED BY <3>1, <3>2 DEF DedupInv, Dedup!WithheldOnlyInWindow
  <2> QED BY <2>2, <2>3, <2>4, <2>5, <2>6 DEF DedupInv
<1>6. CASE p \notin Dedup!Fresh
  <2>1. /\ withheld' = withheld /\ lastReported'[p] = now
        /\ reports' = [reports EXCEPT ![p] = Append(reports[p], now)]
    BY <1>1, <1>6 DEF Dedup!ShouldReport
  <2>2. reports[p] \in Seq(Nat) /\ reports'[p] = Append(reports[p], now)
    BY <2>1 DEF DedupInv, DedupType
  <2>3. \A q \in Plates : q # p => reports'[q] = reports[q]
    BY <2>1 DEF DedupInv, DedupType
  <2>4. /\ DOMAIN reports'[p] = 1..(Len(reports[p]) + 1)
        /\ DOMAIN reports[p] = 1..Len(reports[p]) /\ Len(reports[p]) \in Nat
        /\ reports'[p][Len(reports[p]) + 1] = now
        /\ \A i \in 1..Len(reports[p]) : reports'[p][i] = reports[p][i] /\ reports[p][i] \in Nat
    BY <1>1, <2>2
  <2>5. DedupType'
    <3>1. \A q \in DOMAIN lastReported' : lastReported'[q] \in Nat
      BY <1>1, <1>2, <1>3, <2>1 DEF DedupInv, DedupType
    <3>2. reports' \in [Plates -> Seq(Nat)]
      BY <1>1, <2>1, <2>2 DEF DedupInv, DedupType
    <3> QED BY <1>1, <1>2, <2>1, <3>1, <3>2 DEF DedupInv, DedupType
  <2>6. EntryIsLatest'
    <3> SUFFICES ASSUME NEW q \in DOMAIN lastReported'
                 PROVE  /\ \E i \in DOMAIN reports'[q] : reports'[q][i] = lastReported'[q]
                        /\ \A i \in DOMAIN reports'[q] : reports'[q][i] <= lastReported'[q]
                        /\ lastReported'[q] <= now'
      BY DEF EntryIsLatest
    <3>1. CASE q = p
      <4>1. \A i \in 1..Len(reports[p]) : reports[p][i] <= now
        BY ReportingAssumption, <1>1, <1>4, <1>6, <2>4
      <4> QED BY <1>1, <2>1, <2>4, <3>1, <4>1
    <3>2. CASE q # p
      <4>1. q \in Dedup!Fresh /\ reports'[q] = reports[q] /\ lastReported'[q] = lastReported[q]
        BY <1>1, <1>2, <1>3, <2>3, <3>2
      <4> QED BY <1>1, <1>2, <4>1 DEF DedupInv, EntryIsLatest
    <3> QED BY <3>1, <3>2
  <2>7. PrunedWhenOld'
    <3>1. \A q \in Plates \ DOMAIN lastReported' : q # p /\ q \notin Dedup!Fresh
      BY <1>1
    <3> QED BY <1>1, <1>4, <2>3, <3>1 DEF PrunedWhenOld
  <2>8. Dedup!ReportsApart'
    <3> SUFFICES ASSUME NEW q \in Plates, NEW i \in DOMAIN reports'[q],
                        NEW j \in DOMAIN reports'[q], i < j
                 PROVE  reports'[q][j] - reports'[q][i] >= Window
      BY DEF Dedup!ReportsApart
    <3>1. CASE q # p
      BY <2>3, <3>1 DEF DedupInv, Dedup!ReportsApart
    <3>2. CASE q = p /\ j = Len(reports[p]) + 1
      BY <1>4, <1>6, <2>4, <3>2
    <3>3. CASE q = p /\ j # Len(reports[p]) + 1
      <4>1. i \in DOMAIN reports[p] /\ j \in DOMAIN reports[p]
        BY <2>4, <3>3
      <4> QED BY <2>4, <3>3, <4>1 DEF DedupInv, Dedup!ReportsApart
    <3> QED BY <3>1, <3>2, <3>3
  <2>9. Dedup!WithheldOnlyInWindow'
    <3>1. \A q \in Plates : \A i \in DOMAIN reports[q] :
            i \in DOMAIN reports'[q] /\ reports'[q][i] = reports[q][i]
      BY <2>3, <2>4
    <3> QED BY <2>1, <3>1 DEF DedupInv, Dedup!WithheldOnlyInWindow
  <2> QED BY <2>5, <2>6, <2>7, <2>8, <2>9 DEF DedupInv
<1> QED BY <1>5, <1>6

(* The invariant holds in every reachable state. *)
LEMMA DedupInvariance == Dedup!Spec => []DedupInv
<1>1. DedupInv /\ [Dedup!Next]_(Dedup!vars) => DedupInv'
  <2> SUFFICES ASSUME DedupInv, [Dedup!Next]_(Dedup!vars) PROVE DedupInv'
    OBVIOUS
  <2>1. CASE Dedup!Tick
    BY <2>1, DedupTick
  <2>2. CASE \E p \in Plates : Dedup!ShouldReport(p)
    BY <2>2, SightingPreserves
  <2>3. CASE UNCHANGED Dedup!vars
    BY <2>3 DEF Dedup!vars, Dedup!dedupVars, DedupInv, DedupType, EntryIsLatest, PrunedWhenOld,
                Dedup!ReportsApart, Dedup!WithheldOnlyInWindow
  <2> QED BY <2>1, <2>2, <2>3 DEF Dedup!Next
<1> QED BY DedupInitially, <1>1, PTL DEF Dedup!Spec

(* Two reports of a plate are at least dedupWindowSeconds apart, although  *)
(* shouldReport forgets expired entries.                                   *)
THEOREM ReportsStayApart == Dedup!Spec => []Dedup!ReportsApart
<1>1. DedupInv => Dedup!ReportsApart
  BY DEF DedupInv
<1> QED BY DedupInvariance, <1>1, PTL

(* A sighting is withheld only inside the window of an accepted report.    *)
THEOREM WithheldInsideWindow == Dedup!Spec => []Dedup!WithheldOnlyInWindow
<1>1. DedupInv => Dedup!WithheldOnlyInWindow
  BY DEF DedupInv
<1> QED BY DedupInvariance, <1>1, PTL

-----------------------------------------------------------------------------
(* Its use by the worker.                                                  *)

(* With consolidation only the clock moves, as the deduplicator's may.     *)
LEMMA DedupStep == [ReportingNext]_reportingVars => [Dedup!Next]_(Dedup!vars)
<1> SUFFICES ASSUME [ReportingNext]_reportingVars PROVE [Dedup!Next]_(Dedup!vars)
  OBVIOUS
<1>1. CASE enabled /\ Tick /\ UNCHANGED dedupVars
  BY <1>1 DEF Tick, dedupVars, Dedup!Next, Dedup!Tick, Dedup!dedupVars
<1>2. CASE enabled /\ (Add \/ CollectFinalized \/ FlushAll \/ Report \/ End) /\ UNCHANGED dedupVars
  <2>1. now' = now
    BY <1>2 DEF Add, CollectFinalized, FlushAll, Report, End
  <2> QED BY <1>2, <2>1 DEF dedupVars, Dedup!vars, Dedup!dedupVars
<1>3. CASE Dedup!Next
  BY <1>3
<1>4. CASE UNCHANGED reportingVars
  BY <1>4 DEF reportingVars, dedupVars, Dedup!vars, Dedup!dedupVars
<1> QED BY <1>1, <1>2, <1>3, <1>4 DEF ReportingNext, Next

(* The deduplicator inside the worker implements the deduplicator alone.   *)
THEOREM UsesDeduplicator == ReportingSpec => Dedup!Spec
<1>1. ReportingInit => Dedup!Init
  BY DEF ReportingInit
<1> QED BY <1>1, DedupStep, PTL DEF ReportingSpec, Dedup!Spec

(* With or without consolidation, two reports the deduplicator let through *)
(* for one plate are a window apart.                                       *)
THEOREM ReportedApart == ReportingSpec => []ReportsApart
<1>1. Dedup!ReportsApart => ReportsApart
  BY DEF ReportsApart
<1> QED BY <1>1, UsesDeduplicator, ReportsStayApart, PTL

(* A sighting is withheld only inside the window of an earlier report,     *)
(* with or without consolidation.                                          *)
THEOREM WithheldOnlyClose == ReportingSpec => []WithheldOnlyInWindow
<1>1. Dedup!WithheldOnlyInWindow => WithheldOnlyInWindow
  BY DEF WithheldOnlyInWindow
<1> QED BY <1>1, UsesDeduplicator, WithheldInsideWindow, PTL
-----------------------------------------------------------------------------
(* The edit distance.                                                      *)

LEMMA MinOfNumbers ==
  ASSUME NEW S, S \subseteq Nat, S # {}
  PROVE  Min(S) \in S /\ \A y \in S : Min(S) <= y
BY LeastExists DEF Min

Cell(above, left, corner, cost) == Min({above + 1, left + 1, corner + cost})

LEMMA CellType ==
  ASSUME NEW above \in Nat, NEW left \in Nat, NEW corner \in Nat, NEW cost \in Nat
  PROVE  Cell(above, left, corner, cost) \in Nat
<1>1. {above + 1, left + 1, corner + cost} \subseteq Nat /\ {above + 1, left + 1, corner + cost} # {}
  OBVIOUS
<1> HIDE DEF Cell
<1>2. Min({above + 1, left + 1, corner + cost}) \in Nat
  <2> DEFINE S == {above + 1, left + 1, corner + cost}
  <2>1. S \subseteq Nat /\ S # {}
    BY <1>1
  <2> HIDE DEF S
  <2>2. Min(S) \in Nat
    BY <2>1, MinOfNumbers
  <2> QED BY <2>2 DEF S
<1> QED BY <1>2 DEF Cell

LEMMA CostType == \A x, y : Cost(x, y) \in Nat
  BY DEF Cost

(* editDistance's next row is a row. *)
NextRow(a, b, prev, i) ==
    CHOOSE curr : curr = [j \in 0..Len(b) |->
      IF j = 0 THEN i ELSE Min({prev[j] + 1, curr[j - 1] + 1, prev[j - 1] + Cost(a[i], b[j])})]

Follows(curr, a, b, prev, i) ==
    /\ curr \in [0..Len(b) -> Nat]
    /\ curr[0] = i
    /\ \A j \in 1..Len(b) : curr[j] = Cell(prev[j], curr[j - 1], prev[j - 1], Cost(a[i], b[j]))

LEMMA NextRowCells ==
  ASSUME NEW a, NEW b, Len(b) \in Nat, NEW prev \in [0..Len(b) -> Nat], NEW i \in Nat
  PROVE  Follows(NextRow(a, b, prev, i), a, b, prev, i)
<1> DEFINE m == Len(b)
           step == [p \in (1..m) \X Nat |-> Cell(prev[p[1]], p[2], prev[p[1] - 1], Cost(a[i], b[p[1]]))]
           Row(curr) == curr = [j \in 0..m |->
             IF j = 0 THEN i ELSE Min({prev[j] + 1, curr[j - 1] + 1, prev[j - 1] + Cost(a[i], b[j])})]
           curr == NextRow(a, b, prev, i)
<1>1. m \in Nat /\ \A j \in 1..m : j \in 0..m /\ j - 1 \in 0..m /\ prev[j] \in Nat /\ prev[j - 1] \in Nat
  <2>1. \A j \in 1..m : j \in 0..m /\ j - 1 \in 0..m
    OBVIOUS
  <2> QED BY <2>1
<1>2. step \in [(1..m) \X Nat -> Nat]
  BY <1>1, CellType, CostType
<1>3. PICK f : f \in Recursions(m, Nat, i, step)
  <2>1. ASSUME NEW G, G = Nat, NEW base \in G PROVE Recursions(m, G, base, step) # {}
    <3>1. step \in [(1..m) \X G -> G]
      BY <1>2, <2>1
    <3> HIDE DEF step, m
    <3> QED BY <1>1, <3>1, RecursionExists
  <2> QED BY <2>1
<1>4. f \in [0..m -> Nat] /\ f[0] = i
  BY <1>3 DEF Recursions
<1>5. ASSUME NEW j \in 1..m
      PROVE  f[j] = Min({prev[j] + 1, f[j - 1] + 1, prev[j - 1] + Cost(a[i], b[j])})
  <2>1. f[j] = step[<<j, f[j - 1]>>] /\ f[j - 1] \in Nat
    BY <1>1, <1>3, <1>4 DEF Recursions
  <2>2. step[<<j, f[j - 1]>>] = Cell(prev[j], f[j - 1], prev[j - 1], Cost(a[i], b[j]))
    BY <2>1
  <2> QED BY <2>1, <2>2 DEF Cell
<1>6. Row(f)
  <2>1. ASSUME NEW j \in 0..m
        PROVE  f[j] = IF j = 0 THEN i
                      ELSE Min({prev[j] + 1, f[j - 1] + 1, prev[j - 1] + Cost(a[i], b[j])})
    <3>1. j # 0 => j \in 1..m
      BY <1>1
    <3> QED BY <1>4, <1>5, <3>1
  <2> QED BY <1>4, <2>1
<1>7. Row(curr)
  BY <1>6 DEF NextRow
<1> HIDE DEF curr
<1>8. curr[0] = i
  BY <1>1, <1>7
<1>9. ASSUME NEW j \in 1..m
      PROVE  curr[j] = Cell(prev[j], curr[j - 1], prev[j - 1], Cost(a[i], b[j]))
  <2>1. j \in 0..m /\ j # 0
    BY <1>1
  <2>2. curr[j] = Min({prev[j] + 1, curr[j - 1] + 1, prev[j - 1] + Cost(a[i], b[j])})
    BY <1>7, <2>1
  <2> QED BY <2>2 DEF Cell
<1>10. \A j \in 0..m : curr[j] \in Nat
  <2> DEFINE Good == {j \in Nat : j <= m => curr[j] \in Nat}
  <2>1. 0 \in Good
    BY <1>8
  <2>2. ASSUME NEW j \in Nat, j \in Good PROVE j + 1 \in Good
    <3> SUFFICES ASSUME j + 1 <= m PROVE curr[j + 1] \in Nat
      OBVIOUS
    <3>1. j + 1 \in 1..m /\ (j + 1) - 1 = j /\ curr[j] \in Nat
      BY <2>2, <1>1
    <3> DEFINE k == j + 1
    <3>2. curr[k] = Cell(prev[k], curr[k - 1], prev[k - 1], Cost(a[i], b[k]))
      BY <1>9, <3>1
    <3>3. prev[k] \in Nat /\ curr[k - 1] \in Nat /\ prev[k - 1] \in Nat
      BY <1>1, <3>1
    <3>4. Cost(a[i], b[k]) \in Nat
      BY CostType
    <3> HIDE DEF k
    <3>5. Cell(prev[k], curr[k - 1], prev[k - 1], Cost(a[i], b[k])) \in Nat
      BY <3>3, <3>4, CellType
    <3> QED BY <3>2, <3>5 DEF k
  <2>3. Nat \subseteq Good
    <3> HIDE DEF Good
    <3> QED BY <2>1, <2>2, NatInductionSet
  <2> QED BY <2>3
<1>11. curr \in [0..m -> Nat]
  BY <1>7, <1>10
<1> QED BY <1>8, <1>9, <1>11 DEF curr, Follows

(* The table editDistance fills, and where its answer is. *)
IsTable(T, a, b) ==
    /\ T \in [0..Len(a) -> [0..Len(b) -> Nat]]
    /\ \A j \in 0..Len(b) : T[0][j] = j
    /\ \A i \in 0..Len(a) : T[i][0] = i
    /\ \A i \in 1..Len(a) : \A j \in 1..Len(b) :
         T[i][j] = Cell(T[i - 1][j], T[i][j - 1], T[i - 1][j - 1], Cost(a[i], b[j]))

LEMMA EditTable ==
  ASSUME NEW a, NEW b, Len(a) \in Nat, Len(b) \in Nat
  PROVE  \E T : IsTable(T, a, b) /\ EditDistance(a, b) = T[Len(a)][Len(b)]
<1> DEFINE n == Len(a)
           m == Len(b)
           G == [0..m -> Nat]
           first == [j \in 0..m |-> j]
           step == [p \in (1..n) \X G |-> NextRow(a, b, p[2], p[1])]
           Table(T) == T = [i \in 0..n |-> IF i = 0 THEN first ELSE NextRow(a, b, T[i - 1], i)]
           T == CHOOSE T : Table(T)
<1>1. EditDistance(a, b) = T[n][m]
  BY DEF EditDistance, NextRow
<1>2. n \in Nat /\ m \in Nat /\ \A i \in 1..n : i \in 0..n /\ i - 1 \in 0..n /\ i \in Nat /\ i # 0
  OBVIOUS
<1>3. first \in G
  BY <1>2
<1>4. \A prev \in G, i \in Nat : NextRow(a, b, prev, i) \in G
  BY NextRowCells DEF Follows
<1>5. step \in [(1..n) \X G -> G]
  <2> HIDE DEF G
  <2> QED BY <1>2, <1>4
<1>6. PICK f : f \in Recursions(n, G, first, step)
  <2> HIDE DEF G, n, first, step
  <2> QED BY <1>2, <1>3, <1>5, RecursionExists
<1> HIDE DEF G, first
<1>7. f \in [0..n -> G] /\ f[0] = first
  BY <1>6 DEF Recursions
<1>8. ASSUME NEW i \in 1..n PROVE f[i] = NextRow(a, b, f[i - 1], i)
  <2>1. f[i] = step[<<i, f[i - 1]>>] /\ f[i - 1] \in G
    BY <1>2, <1>6, <1>7 DEF Recursions
  <2> QED BY <2>1
<1>9. Table(f)
  BY <1>7, <1>8
<1>10. Table(T)
  BY <1>9
<1> HIDE DEF T
<1>11. T[0] = first /\ \A i \in 1..n : T[i] = NextRow(a, b, T[i - 1], i)
  BY <1>2, <1>10
<1>12. \A i \in 0..n : T[i] \in G
  <2> DEFINE Good == {i \in Nat : i <= n => T[i] \in G}
  <2>1. 0 \in Good
    BY <1>3, <1>11
  <2>2. ASSUME NEW i \in Nat, i \in Good PROVE i + 1 \in Good
    <3> SUFFICES ASSUME i + 1 <= n PROVE T[i + 1] \in G
      OBVIOUS
    <3>1. i + 1 \in 1..n /\ (i + 1) - 1 = i /\ T[i] \in G /\ i + 1 \in Nat
      BY <2>2, <1>2
    <3>2. T[i + 1] = NextRow(a, b, T[(i + 1) - 1], i + 1)
      BY <1>11, <3>1
    <3> QED BY <1>4, <3>1, <3>2
  <2>3. Nat \subseteq Good
    <3> HIDE DEF Good
    <3> QED BY <2>1, <2>2, NatInductionSet
  <2> QED BY <2>3
<1>13. T \in [0..n -> G]
  BY <1>10, <1>12
<1>14. \A j \in 0..m : T[0][j] = j
  BY <1>11 DEF first
<1>15. ASSUME NEW i \in 1..n
       PROVE  /\ T[i][0] = i
              /\ \A j \in 1..m :
                   T[i][j] = Cell(T[i - 1][j], T[i][j - 1], T[i - 1][j - 1], Cost(a[i], b[j]))
  <2>1. T[i] = NextRow(a, b, T[i - 1], i) /\ T[i - 1] \in [0..m -> Nat] /\ i \in Nat
    BY <1>2, <1>11, <1>12 DEF G
  <2>2. ASSUME NEW prev, prev \in [0..m -> Nat]
        PROVE  Follows(NextRow(a, b, prev, i), a, b, prev, i)
    BY <1>2, <2>1, <2>2, NextRowCells
  <2>3. Follows(T[i], a, b, T[i - 1], i)
    BY <2>1, <2>2
  <2> QED BY <2>3 DEF Follows
<1>16. \A i \in 0..n : T[i][0] = i
  <2>1. T[0][0] = 0
    BY <1>2, <1>14
  <2> QED BY <1>15, <2>1
<1>17. IsTable(T, a, b)
  BY <1>13, <1>14, <1>15, <1>16 DEF IsTable, G
<1> QED BY <1>1, <1>17

LEMMA EditDistanceType ==
  ASSUME NEW a, NEW b, Len(a) \in Nat, Len(b) \in Nat
  PROVE  EditDistance(a, b) \in Nat
<1>1. PICK T : IsTable(T, a, b) /\ EditDistance(a, b) = T[Len(a)][Len(b)]
  BY EditTable
<1>2. Len(a) \in 0..Len(a) /\ Len(b) \in 0..Len(b)
  OBVIOUS
<1> QED BY <1>1, <1>2 DEF IsTable

(* A text is no edits away from itself. *)
LEMMA NoDistanceToItself ==
  ASSUME NEW a, Len(a) \in Nat
  PROVE  EditDistance(a, a) = 0
<1>1. PICK T : IsTable(T, a, a) /\ EditDistance(a, a) = T[Len(a)][Len(a)]
  BY EditTable
<1> DEFINE n == Len(a)
           Good == {i \in Nat : i <= n => T[i][i] = 0}
<1>2. 0 \in Good
  <2>1. 0 \in 0..n
    OBVIOUS
  <2> QED BY <1>1, <2>1 DEF IsTable
<1>3. ASSUME NEW i \in Nat, i \in Good PROVE i + 1 \in Good
  <2> SUFFICES ASSUME i + 1 <= n PROVE T[i + 1][i + 1] = 0
    OBVIOUS
  <2> DEFINE k == i + 1
  <2>1. k \in 1..n /\ k - 1 = i /\ i \in 0..n /\ k \in 0..n /\ T[i][i] = 0
    BY <1>3
  <2> HIDE DEF k
  <2>2. T[k][k] = Cell(T[i][k], T[k][i], 0, Cost(a[k], a[k]))
    BY <1>1, <2>1 DEF IsTable
  <2>3. Cost(a[k], a[k]) = 0 /\ T[i][k] \in Nat /\ T[k][i] \in Nat
    BY <1>1, <2>1 DEF IsTable, Cost
  <2> DEFINE S == {T[i][k] + 1, T[k][i] + 1, 0 + 0}
  <2>4. S \subseteq Nat /\ 0 \in S
    BY <2>3
  <2>5. T[k][k] = Min(S)
    BY <2>2, <2>3 DEF Cell
  <2> HIDE DEF S
  <2>6. Min(S) \in Nat /\ Min(S) <= 0
    BY <2>4, MinOfNumbers
  <2>7. T[k][k] = 0
    BY <2>5, <2>6
  <2> QED BY <2>7 DEF k
<1>4. Nat \subseteq Good
  <2> HIDE DEF Good
  <2> QED BY <1>2, <1>3, NatInductionSet
<1> QED BY <1>1, <1>4

-----------------------------------------------------------------------------
(* The vote.                                                               *)

(* A reading, whenever it was made. *)
AnyReading == [text : Seq(Nat), conf : Nat, place : Int, id : Nat \ {0}]

Confidences(readings) == [i \in DOMAIN readings |-> readings[i].conf]

(* Total is the sum of the confidences of a part of the readings. *)
LEMMA Totals ==
  ASSUME NEW readings \in Seq(AnyReading)
  PROVE  \E g : /\ IsSum(g, DOMAIN readings, Confidences(readings))
                /\ \A I \in SUBSET DOMAIN readings : Total(readings, I) = g[I]
<1> DEFINE D == DOMAIN readings
           w == Confidences(readings)
<1>1. IsFiniteSet(D) /\ D = 1..Len(readings)
  BY LenProperties, FS_Interval
<1>2. w \in [D -> Nat] /\ \A i \in D : w[i] = readings[i].conf
  <2>1. \A i \in D : readings[i] \in AnyReading
    BY <1>1, ElementOfSeq
  <2>2. \A i \in D : readings[i].conf \in Nat
    BY <2>1 DEF AnyReading
  <2> QED BY <2>2 DEF Confidences
<1> HIDE DEF D, w
<1>3. PICK g : IsSum(g, D, w)
  BY <1>1, <1>2, SumExists
<1>4. ASSUME NEW I \in SUBSET D PROVE Total(readings, I) = g[I]
  <2> DEFINE Made(h) == h = [s \in SUBSET I |-> IF s = {} THEN 0
                ELSE readings[CHOOSE x \in s : TRUE].conf + h[s \ {CHOOSE x \in s : TRUE}]]
             h == CHOOSE h : Made(h)
             v == [i \in I |-> w[i]]
  <2>1. Total(readings, I) = h[I]
    BY DEF Total, MapThenSumSet, MapThenFoldSet, Weight
  <2>2. \A s \in SUBSET I : s # {} => (CHOOSE x \in s : TRUE) \in I
    OBVIOUS
  <2>3. PICK f \in [SUBSET I -> Nat] : AddsUp(f, I, v)
    <3>1. IsFiniteSet(I) /\ v \in [I -> Nat]
      BY <1>1, <1>2, FS_Subset
    <3> HIDE DEF v
    <3> QED BY <3>1, AddsUpExists
  <2>4. Made(f)
    <3>1. ASSUME NEW s \in SUBSET I
          PROVE  f[s] = IF s = {} THEN 0
                   ELSE readings[CHOOSE x \in s : TRUE].conf + f[s \ {CHOOSE x \in s : TRUE}]
      <4> DEFINE c == CHOOSE x \in s : TRUE
      <4>1. f[s] = IF s = {} THEN 0 ELSE v[c] + f[s \ {c}]
        BY <2>3 DEF AddsUp
      <4>2. s # {} => c \in I
        BY <2>2
      <4> HIDE DEF c
      <4>3. s # {} => v[c] = readings[c].conf
        BY <1>2, <4>2
      <4>4. f[s] = IF s = {} THEN 0 ELSE readings[c].conf + f[s \ {c}]
        BY <4>1, <4>3
      <4> QED BY <4>4 DEF c
    <3> QED BY <3>1
  <2>5. Made(h)
    BY <2>4
  <2> HIDE DEF h
  <2>6. AddsUp(h, I, w)
    <3>1. \A s \in SUBSET I : h[s] = IF s = {} THEN 0
             ELSE readings[CHOOSE x \in s : TRUE].conf + h[s \ {CHOOSE x \in s : TRUE}]
      BY <2>5
    <3> QED BY <1>2, <2>2, <3>1 DEF AddsUp
  <2>7. h[I] = g[I]
    BY <1>1, <1>3, <2>6, SumOfPart
  <2> QED BY <2>1, <2>7
<1> QED BY <1>3, <1>4 DEF D, w

(* The votes the readings V give to their keys. *)
Votes(g, V, key) == [c \in {key[i] : i \in V} |-> g[{i \in V : key[i] = c}]]

(* The winner is one of the keys. *)
LEMMA HeaviestOfVotes ==
  ASSUME NEW D, IsFiniteSet(D), NEW w, NEW g, IsSum(g, D, w),
         NEW V \in SUBSET D, V # {}, NEW key \in [V -> Nat]
  PROVE  Heaviest(Votes(g, V, key)) \in {key[i] : i \in V}
<1> DEFINE K == {key[i] : i \in V}
           votes == Votes(g, V, key)
<1>1. IsFiniteSet(K) /\ K # {} /\ K \subseteq Nat
  <2>1. IsFiniteSet(V)
    BY FS_Subset
  <2>2. key \in Surjection(V, K)
    BY DEF Surjection
  <2>3. IsFiniteSet(K)
    <3> HIDE DEF K
    <3> QED BY <2>1, <2>2, FS_Surjection
  <2> QED BY <2>3
<1>2. votes \in [K -> Nat]
  BY DEF IsSum, Votes
<1> HIDE DEF votes, K
<1>3. PICK k \in K : \A l \in K : votes[l] <= votes[k]
  BY <1>1, <1>2, HeaviestExists
<1> DEFINE S == {m \in K : \A l \in K : votes[l] <= votes[m]}
<1>4. S \subseteq Nat /\ S # {}
  BY <1>1, <1>3
<1>5. Min(S) \in S
  <2> HIDE DEF S
  <2> QED BY <1>4, MinOfNumbers
<1>6. Heaviest(votes) = Min(S)
  BY <1>2 DEF Heaviest
<1>7. Heaviest(votes) \in K
  BY <1>5, <1>6
<1> QED BY <1>7 DEF votes, K

(* Among the voters V, some of those for c have more than half of all. *)
HasMajority(c, g, D, V, key) ==
    /\ V \in SUBSET D /\ key \in [V -> Nat] /\ c \in Nat
    /\ \E I \in SUBSET V : (\A i \in I : key[i] = c) /\ 2 * g[I] > g[D]

(* More than half of all the confidence decides the vote. *)
LEMMA MajorityOfVotes ==
  ASSUME NEW D, IsFiniteSet(D), NEW w \in [D -> Nat], NEW g, IsSum(g, D, w),
         NEW V, NEW key, NEW c, HasMajority(c, g, D, V, key)
  PROVE  Heaviest(Votes(g, V, key)) = c
<1> V \in SUBSET D /\ key \in [V -> Nat] /\ c \in Nat
  BY DEF HasMajority
<1> PICK I \in SUBSET V : (\A i \in I : key[i] = c) /\ 2 * g[I] > g[D]
  BY DEF HasMajority
<1>0. Additive(g, D)
  BY SumOfUnion
<1> DEFINE K == {key[i] : i \in V}
           votes == Votes(g, V, key)
           Of(l) == {i \in V : key[i] = l}
<1>1. K \subseteq Nat
  OBVIOUS
<1>2. votes \in [K -> Nat] /\ \A l \in K : votes[l] = g[Of(l)]
  BY DEF IsSum, Votes
<1>3. D \in SUBSET D /\ I \in SUBSET D /\ g[D] \in Nat /\ g[I] \in Nat
  BY DEF IsSum
<1>4. I # {}
  <2>1. g[{}] = 0
    BY DEF IsSum
  <2>2. ~(2 * 0 > g[D])
    BY <1>3
  <2> SUFFICES ASSUME I = {} PROVE FALSE
    OBVIOUS
  <2>3. g[I] = 0
    BY <2>1
  <2> QED BY <2>2, <2>3
<1>5. c \in K
  BY <1>4
<1>6. g[I] <= votes[c]
  <2>1. I \in SUBSET Of(c) /\ Of(c) \in SUBSET D
    OBVIOUS
  <2> HIDE DEF Of
  <2>2. g[I] <= g[Of(c)]
    BY <2>1, SumOfSubset
  <2> QED BY <1>2, <1>5, <2>2
<1>7. ASSUME NEW l \in K, l # c PROVE votes[l] < g[I]
  <2>1. Of(l) \in SUBSET D /\ I \cap Of(l) = {}
    BY <1>7
  <2> DEFINE A == Of(l)
             B == I \cup A
  <2>2. A \in SUBSET D /\ B \in SUBSET D /\ I \cap A = {}
    BY <2>1
  <2> HIDE DEF Of, A
  <2>3. g[A] \in Nat /\ g[B] = g[I] + g[A]
    BY <1>0, <1>3, <2>2 DEF Additive
  <2>4. g[B] \in Nat /\ g[B] <= g[D]
    <3> HIDE DEF B
    <3> QED BY <1>3, <2>2, SumOfSubset
  <2>5. g[A] < g[I]
    <3> HIDE DEF B
    <3> QED BY <1>3, <2>3, <2>4
  <2> QED BY <1>2, <2>5 DEF A
<1> HIDE DEF votes, K
<1> DEFINE S == {m \in K : \A l \in K : votes[l] <= votes[m]}
<1>8. S = {c}
  <2>1. c \in S
    <3>1. \A l \in K : votes[l] \in Nat
      BY <1>2
    <3> QED BY <1>3, <1>5, <1>6, <1>7, <3>1
  <2>2. ASSUME NEW m \in S, m # c PROVE FALSE
    <3>1. votes[m] < g[I] /\ votes[c] <= votes[m] /\ votes[m] \in Nat /\ votes[c] \in Nat
      BY <1>2, <1>5, <1>7, <2>2
    <3> QED BY <1>3, <1>6, <3>1
  <2> QED BY <2>1, <2>2
<1>9. Min(S) = c
  <2>1. Min(S) \in S
    <3>1. S \subseteq Nat /\ S # {}
      BY <1>8
    <3> HIDE DEF S
    <3> QED BY <3>1, MinOfNumbers
  <2> HIDE DEF S
  <2>2. \A m \in {c} : m = c
    OBVIOUS
  <2> QED BY <1>8, <2>1, <2>2
<1>10. Heaviest(votes) = Min(S)
  BY <1>2 DEF Heaviest
<1> QED BY <1>9, <1>10 DEF votes

(* TargetLength is a vote on the lengths ... *)
LEMMA LengthVote ==
  ASSUME NEW readings, NEW g,
         \A I \in SUBSET DOMAIN readings : Total(readings, I) = g[I]
  PROVE  TargetLength(readings)
           = Heaviest(Votes(g, DOMAIN readings, [i \in DOMAIN readings |-> Len(readings[i].text)]))
<1> DEFINE D == DOMAIN readings
           key == [i \in D |-> Len(readings[i].text)]
           votes == [n \in {Len(readings[i].text) : i \in D} |->
                       Total(readings, {i \in D : Len(readings[i].text) = n})]
<1>1. TargetLength(readings) = Heaviest(votes)
  BY DEF TargetLength
<1>2. \A n : {i \in D : key[i] = n} = {i \in D : Len(readings[i].text) = n}
  OBVIOUS
<1>3. {key[i] : i \in D} = {Len(readings[i].text) : i \in D}
  OBVIOUS
<1>4. \A n : Total(readings, {i \in D : Len(readings[i].text) = n})
               = g[{i \in D : Len(readings[i].text) = n}]
  OBVIOUS
<1>5. Votes(g, D, key) = votes
  <2> HIDE DEF D, key
  <2> QED BY <1>2, <1>3, <1>4 DEF Votes
<1> QED BY <1>1, <1>5

(* ... and each character one among the readings of that length. *)
Voters(readings) == {i \in DOMAIN readings : Len(readings[i].text) = TargetLength(readings)}

LEMMA CharacterVote ==
  ASSUME NEW readings, NEW g, NEW p \in 1..TargetLength(readings),
         \A I \in SUBSET DOMAIN readings : Total(readings, I) = g[I]
  PROVE  Consolidate(readings)[p]
           = Heaviest(Votes(g, Voters(readings), [i \in Voters(readings) |-> readings[i].text[p]]))
<1> DEFINE V == Voters(readings)
           key == [i \in V |-> readings[i].text[p]]
           votes == [c \in {readings[i].text[p] : i \in V} |->
                       Total(readings, {i \in V : readings[i].text[p] = c})]
<1>1. Consolidate(readings)[p] = Heaviest(votes)
  BY DEF Consolidate, Voters
<1>2. \A n : {i \in V : key[i] = n} = {i \in V : readings[i].text[p] = n}
  OBVIOUS
<1>3. {key[i] : i \in V} = {readings[i].text[p] : i \in V}
  OBVIOUS
<1>4. \A n : Total(readings, {i \in V : readings[i].text[p] = n})
               = g[{i \in V : readings[i].text[p] = n}]
  BY DEF Voters
<1>5. Votes(g, V, key) = votes
  <2> HIDE DEF V, key
  <2> QED BY <1>2, <1>3, <1>4 DEF Votes
<1> QED BY <1>1, <1>5

(* The vote makes a text. *)
LEMMA ConsolidateType ==
  ASSUME NEW readings \in Seq(AnyReading), readings # <<>>
  PROVE  Consolidate(readings) \in Seq(Nat)
<1> DEFINE D == DOMAIN readings
           w == Confidences(readings)
           lengths == [i \in D |-> Len(readings[i].text)]
<1>1. IsFiniteSet(D) /\ D # {} /\ \A i \in D : readings[i] \in AnyReading
  <2>1. D = 1..Len(readings) /\ Len(readings) \in Nat \ {0}
    BY LenProperties, EmptySeq
  <2>2. IsFiniteSet(D)
    BY <2>1, FS_Interval
  <2>3. 1 \in D
    BY <2>1
  <2> QED BY <2>1, <2>2, <2>3, ElementOfSeq
<1>2. \A i \in D : readings[i].text \in Seq(Nat) /\ Len(readings[i].text) \in Nat
  BY <1>1, LenProperties DEF AnyReading
<1>3. PICK g : IsSum(g, D, w) /\ \A I \in SUBSET D : Total(readings, I) = g[I]
  BY Totals
<1> DEFINE n == TargetLength(readings)
           V == Voters(readings)
<1>4. n \in {lengths[i] : i \in D}
  <2>1. lengths \in [D -> Nat] /\ D \in SUBSET D
    BY <1>2
  <2>2. n = Heaviest(Votes(g, D, lengths))
    BY <1>3, LengthVote
  <2> HIDE DEF lengths, D, w
  <2> QED BY <1>1, <1>3, <2>1, <2>2, HeaviestOfVotes
<1>5. V # {} /\ V \in SUBSET D /\ n \in Nat
  BY <1>2, <1>4 DEF Voters
<1>6. ASSUME NEW p \in 1..n PROVE Consolidate(readings)[p] \in Nat
  <2> DEFINE key == [i \in V |-> readings[i].text[p]]
  <2>1. key \in [V -> Nat]
    <3>1. ASSUME NEW i \in V PROVE readings[i].text[p] \in Nat
      <4>1. readings[i].text \in Seq(Nat) /\ p \in 1..Len(readings[i].text)
        BY <1>2 DEF Voters
      <4> QED BY <4>1, ElementOfSeq
    <3> QED BY <3>1
  <2>2. Consolidate(readings)[p] = Heaviest(Votes(g, V, key))
    BY <1>3, CharacterVote
  <2>3. {key[i] : i \in V} \subseteq Nat
    BY <2>1
  <2>4. Heaviest(Votes(g, V, key)) \in {key[i] : i \in V}
    <3> HIDE DEF key, V, D, w
    <3> QED BY <1>1, <1>3, <1>5, <2>1, HeaviestOfVotes
  <2> QED BY <2>2, <2>3, <2>4
<1>7. Consolidate(readings) = [p \in 1..n |-> Consolidate(readings)[p]]
  BY DEF Consolidate
<1> QED BY <1>5, <1>6, <1>7, IsASeq

(* A text with more than half of the confidence behind it wins the vote.   *)
LEMMA MajorityDecides ==
  ASSUME NEW readings \in Seq(AnyReading), NEW k \in DOMAIN readings,
         2 * Total(readings, {i \in DOMAIN readings : readings[i].text = readings[k].text})
           > Total(readings, DOMAIN readings)
  PROVE  Consolidate(readings) = readings[k].text
<1> DEFINE D == DOMAIN readings
           w == Confidences(readings)
           text == readings[k].text
           I == {i \in D : readings[i].text = text}
           lengths == [i \in D |-> Len(readings[i].text)]
           n == TargetLength(readings)
           V == Voters(readings)
<1>1. IsFiniteSet(D) /\ \A i \in D : readings[i] \in AnyReading
  <2>1. D = 1..Len(readings) /\ Len(readings) \in Nat
    BY LenProperties
  <2> QED BY <2>1, FS_Interval, ElementOfSeq
<1>2. \A i \in D : readings[i].text \in Seq(Nat) /\ Len(readings[i].text) \in Nat /\ readings[i].conf \in Nat
  BY <1>1, LenProperties DEF AnyReading
<1>3. w \in [D -> Nat]
  BY <1>2 DEF Confidences
<1>4. PICK g : IsSum(g, D, w) /\ \A J \in SUBSET D : Total(readings, J) = g[J]
  BY Totals
<1>5. 2 * g[I] > g[D] /\ I \in SUBSET D /\ D \in SUBSET D
  BY <1>4
<1>6. n = Len(text)
  <2>1. lengths \in [D -> Nat] /\ Len(text) \in Nat /\ \A i \in I : lengths[i] = Len(text)
    BY <1>2
  <2>2. n = Heaviest(Votes(g, D, lengths))
    BY <1>4, LengthVote
  <2>3. /\ IsFiniteSet(D) /\ w \in [D -> Nat] /\ IsSum(g, D, w)
        /\ I \in SUBSET D /\ D \in SUBSET D /\ 2 * g[I] > g[D]
    BY <1>1, <1>3, <1>4, <1>5
  <2> DEFINE c == Len(text)
  <2>4. c \in Nat /\ \A i \in I : lengths[i] = c
    BY <2>1
  <2> HIDE DEF lengths, D, w, I, n, c
  <2>5. HasMajority(c, g, D, D, lengths)
    BY <2>1, <2>3, <2>4 DEF HasMajority
  <2>6. Heaviest(Votes(g, D, lengths)) = c
    BY <2>3, <2>5, MajorityOfVotes
  <2> QED BY <2>2, <2>6 DEF c
<1>7. I \in SUBSET V /\ V \in SUBSET D
  BY <1>6 DEF Voters
<1>8. text \in Seq(Nat) /\ n \in Nat
  BY <1>2, <1>6
<1>9. ASSUME NEW p \in 1..n PROVE Consolidate(readings)[p] = text[p]
  <2> DEFINE key == [i \in V |-> readings[i].text[p]]
  <2>1. key \in [V -> Nat]
    <3>1. ASSUME NEW i \in V PROVE readings[i].text[p] \in Nat
      <4>1. readings[i].text \in Seq(Nat) /\ p \in 1..Len(readings[i].text)
        BY <1>2 DEF Voters
      <4> QED BY <4>1, ElementOfSeq
    <3> QED BY <3>1
  <2>2. Consolidate(readings)[p] = Heaviest(Votes(g, V, key))
    BY <1>4, CharacterVote
  <2>3. \A i \in I : key[i] = text[p]
    BY <1>7
  <2>4. text[p] \in Nat
    BY <1>6, <1>8, ElementOfSeq
  <2>5. /\ IsFiniteSet(D) /\ w \in [D -> Nat] /\ IsSum(g, D, w)
        /\ V \in SUBSET D /\ I \in SUBSET V /\ 2 * g[I] > g[D]
    BY <1>1, <1>3, <1>4, <1>5, <1>7
  <2> DEFINE c == text[p]
  <2>6. c \in Nat /\ \A i \in I : key[i] = c
    BY <2>3, <2>4
  <2> HIDE DEF key, V, D, w, I, n, c
  <2>7. HasMajority(c, g, D, V, key)
    BY <2>1, <2>5, <2>6 DEF HasMajority
  <2>8. Heaviest(Votes(g, V, key)) = c
    BY <2>5, <2>7, MajorityOfVotes
  <2> QED BY <2>2, <2>8 DEF c
<1>10. Consolidate(readings) = [p \in 1..n |-> Consolidate(readings)[p]]
  BY DEF Consolidate
<1>11. text = [p \in 1..n |-> text[p]]
  <2> HIDE DEF text
  <2>1. text \in [1..Len(text) -> Nat]
    BY <1>8, LenProperties
  <2>2. text \in [1..n -> Nat]
    BY <1>6, <2>1
  <2> QED BY <2>2
<1> QED BY <1>9, <1>10, <1>11

(* The first of the strongest readings, and that it is what max_element    *)
(* returns.                                                                *)
FirstStrongest(readings, m) ==
    /\ m \in DOMAIN readings
    /\ \A j \in DOMAIN readings : readings[j].conf <= readings[m].conf
    /\ \A j \in DOMAIN readings : j < m => readings[j].conf < readings[m].conf

LEMMA StrongestIsFirst ==
  ASSUME NEW readings \in Seq(AnyReading), NEW m, FirstStrongest(readings, m)
  PROVE  Strongest(readings) = m
<1> DEFINE D == DOMAIN readings
           S == {i \in D : \A j \in D : readings[j].conf <= readings[i].conf}
<1>1. D \subseteq Nat /\ \A i \in D : readings[i].conf \in Nat
  <2>1. D = 1..Len(readings) /\ Len(readings) \in Nat
    BY LenProperties
  <2>2. \A i \in D : readings[i] \in AnyReading
    BY <2>1, ElementOfSeq
  <2> QED BY <2>1, <2>2 DEF AnyReading
<1>2. m \in S /\ S \subseteq Nat
  BY <1>1 DEF FirstStrongest
<1>3. \A i \in S : ~(i < m)
  BY <1>1, <1>2 DEF FirstStrongest
<1>4. Strongest(readings) = Min(S)
  BY DEF Strongest
<1> HIDE DEF S
<1>5. Min(S) \in S /\ Min(S) <= m
  BY <1>2, MinOfNumbers
<1>6. Min(S) \in Nat /\ m \in Nat /\ ~(Min(S) < m)
  BY <1>2, <1>3, <1>5
<1> QED BY <1>4, <1>5, <1>6

-----------------------------------------------------------------------------
(* The tracker's state.                                                    *)

OpenTrack == [readings : Seq(AnyReading) \ {<<>>}, firstSeen : Nat, lastSeen : Nat,
              bestFrame : Nat \ {0}, bestFrameConf : Nat]
AnyFinal == [text : Seq(Nat), box : Nat \ {0}, frame : Nat \ {0},
             readings : Seq(AnyReading) \ {<<>>}]

TrackerType ==
    /\ now \in 0..MaxTime
    /\ phase \in {"running", "flushing", "over"}
    /\ added \in 0..MaxReadings
    /\ tracks \in Seq(OpenTrack)
    /\ finals \subseteq AnyFinal
    /\ log \in Seq(AnyFinal)

(* Some sighting read what r says. *)
Seen(r) == \E s \in Sightings : s.text = r.text /\ s.place = r.place

(* A track's image is that of the first of its strongest readings, its     *)
(* times are in order, and its readings are among the first n.             *)
SoundTrack(t, time, n) ==
    /\ \E m : /\ FirstStrongest(t.readings, m)
              /\ t.bestFrame = t.readings[m].id
              /\ t.bestFrameConf = t.readings[m].conf
    /\ t.firstSeen <= t.lastSeen /\ t.lastSeen <= time
    /\ \A i \in 1..Len(t.readings) : t.readings[i].id <= n /\ Seen(t.readings[i])

(* A finished track is what its readings make of it. *)
SoundFinal(f, n) ==
    /\ f.text = Consolidate(f.readings)
    /\ f.box = f.frame /\ f.box <= n
    /\ \A i \in 1..Len(f.readings) : f.readings[i].id <= n

TracksSound == \A i \in 1..Len(tracks) : SoundTrack(tracks[i], now, added)
FinalsSound == \A f \in finals : SoundFinal(f, added)
LogSound == \A i \in 1..Len(log) : SoundFinal(log[i], added)

(* No reading is in two tracks, open or finished. *)
ReadingsApart ==
    /\ \A i, j \in 1..Len(tracks) : i # j =>
         Ids(tracks[i].readings) \cap Ids(tracks[j].readings) = {}
    /\ \A f, h \in finals : f # h => Ids(f.readings) \cap Ids(h.readings) = {}
    /\ \A i \in 1..Len(tracks), f \in finals :
         Ids(tracks[i].readings) \cap Ids(f.readings) = {}

(* After the final flush nothing is open; at the end all has been reported. *)
PhasesInOrder ==
    /\ phase # "running" => tracks = <<>>
    /\ phase = "over" => finals = {}

TrackerInv ==
    /\ TrackerType /\ TracksSound /\ FinalsSound /\ LogSound
    /\ ReadingsApart /\ PhasesInOrder /\ OneTrackPerPlate

-----------------------------------------------------------------------------
(* What the steps do to the tracks.                                        *)

(* A track's latest reading. *)
LEMMA LastReading ==
  ASSUME NEW t \in OpenTrack
  PROVE  /\ t.readings \in Seq(AnyReading) /\ Len(t.readings) \in Nat \ {0}
         /\ DOMAIN t.readings = 1..Len(t.readings)
         /\ \A i \in 1..Len(t.readings) : t.readings[i] \in AnyReading
         /\ Last(t) = t.readings[Len(t.readings)] /\ Last(t) \in AnyReading
<1>1. t.readings \in Seq(AnyReading) /\ t.readings # <<>>
  BY DEF OpenTrack
<1>2. Len(t.readings) \in Nat \ {0} /\ DOMAIN t.readings = 1..Len(t.readings)
  BY <1>1, EmptySeq, LenProperties
<1>3. \A i \in 1..Len(t.readings) : t.readings[i] \in AnyReading
  BY <1>1, ElementOfSeq
<1>4. Len(t.readings) \in 1..Len(t.readings)
  BY <1>2
<1> QED BY <1>1, <1>2, <1>3, <1>4 DEF Last

LEMMA ReadingIsOne ==
  ASSUME TrackerType, NEW s \in Sightings
  PROVE  /\ Reading(s) \in AnyReading
         /\ Reading(s).id = added + 1 /\ Reading(s).conf = s.conf
         /\ Seen(Reading(s))
<1>1. s.conf \in Nat /\ s.place \in Int /\ s.text \in Seq(Nat) /\ added \in Nat
  BY TrackerAssumption DEF TrackerType
<1> QED BY <1>1 DEF Reading, AnyReading, Seen

(* The best track is one in reach. *)
LEMMA BestInReach ==
  ASSUME TrackerType, NEW s \in Sightings, InReach(s) # {}
  PROVE  Best(s, InReach(s)) \in InReach(s)
<1> DEFINE I == InReach(s)
           scores == {Score(s, Last(tracks[i])) : i \in I}
           S == {i \in I : \A j \in I : Score(s, Last(tracks[i])) <= Score(s, Last(tracks[j]))}
<1>1. I \subseteq 1..Len(tracks) /\ I \subseteq Nat
  <2>1. Len(tracks) \in Nat
    BY LenProperties DEF TrackerType
  <2> QED BY <2>1 DEF InReach
<1>2. \A i \in I : Score(s, Last(tracks[i])) \in Nat
  <2> SUFFICES ASSUME NEW i \in I PROVE Score(s, Last(tracks[i])) \in Nat
    OBVIOUS
  <2>1. tracks[i] \in OpenTrack
    BY <1>1, ElementOfSeq DEF TrackerType
  <2>2. Last(tracks[i]).text \in Seq(Nat)
    BY <2>1, LastReading DEF AnyReading
  <2>3. Len(s.text) \in Nat /\ Len(Last(tracks[i]).text) \in Nat
    BY <2>2, TrackerAssumption, LenProperties
  <2> QED BY <2>3, EditDistanceType DEF Score
<1>3. S # {} /\ S \subseteq Nat
  <2>1. scores \subseteq Nat /\ scores # {}
    BY <1>2
  <2>2. PICK x \in scores : \A y \in scores : x <= y
    <3> HIDE DEF scores
    <3> QED BY <2>1, LeastExists
  <2>3. PICK i \in I : x = Score(s, Last(tracks[i]))
    BY <2>2
  <2>4. i \in S
    BY <2>2, <2>3
  <2> QED BY <1>1, <2>4
<1>4. Min(S) \in S
  <2> HIDE DEF S
  <2> QED BY <1>3, MinOfNumbers
<1>5. Best(s, I) = Min(S)
  BY DEF Best
<1> QED BY <1>4, <1>5

(* A reading opens a track ... *)
Opens(s) ==
    /\ InReach(s) = {}
    /\ tracks' \in Seq(OpenTrack)
    /\ Len(tracks) \in Nat /\ Len(tracks') = Len(tracks) + 1
    /\ \A i \in 1..Len(tracks) : tracks'[i] = tracks[i]
    /\ tracks'[Len(tracks) + 1] = Opened(s)

(* ... or joins one. *)
Joins(s, b) ==
    /\ b \in InReach(s)
    /\ tracks' \in Seq(OpenTrack)
    /\ Len(tracks) \in Nat /\ Len(tracks') = Len(tracks)
    /\ \A i \in 1..Len(tracks) : tracks'[i] = IF i = b THEN Extended(tracks[b], s) ELSE tracks[i]

LEMMA OpenedTrack ==
  ASSUME TrackerType, NEW s \in Sightings
  PROVE  /\ Opened(s) \in OpenTrack
         /\ Opened(s).readings = <<Reading(s)>>
         /\ SoundTrack(Opened(s), now, added + 1)
         /\ Ids(Opened(s).readings) = {added + 1}
         /\ Last(Opened(s)) = Reading(s)
<1> DEFINE r == Reading(s)
           q == <<r>>
<1>1. r \in AnyReading /\ r.id = added + 1 /\ r.conf = s.conf /\ Seen(r) /\ r.conf \in Nat
  BY ReadingIsOne DEF AnyReading
<1>2. now \in Nat /\ added \in Nat
  BY DEF TrackerType
<1> HIDE DEF r
<1>3. q \in Seq(AnyReading) /\ q # <<>> /\ Len(q) = 1 /\ q[1] = r /\ DOMAIN q = {1}
  BY <1>1
<1>4. /\ Opened(s).readings = q /\ Opened(s).firstSeen = now /\ Opened(s).lastSeen = now
      /\ Opened(s).bestFrame = added + 1 /\ Opened(s).bestFrameConf = r.conf
  BY <1>1 DEF Opened, r
<1>5. Opened(s) \in OpenTrack
  BY <1>1, <1>2, <1>3 DEF Opened, OpenTrack, r
<1> HIDE DEF q
<1>6. FirstStrongest(q, 1)
  BY <1>1, <1>3 DEF FirstStrongest
<1>7. SoundTrack(Opened(s), now, added + 1)
  <2>1. \A i \in 1..1 : i = 1
    OBVIOUS
  <2> DEFINE t == Opened(s)
  <2>2. /\ FirstStrongest(t.readings, 1) /\ t.bestFrame = t.readings[1].id
        /\ t.bestFrameConf = t.readings[1].conf
    BY <1>1, <1>3, <1>4, <1>6
  <2>3. t.firstSeen <= t.lastSeen /\ t.lastSeen <= now
    BY <1>2, <1>4
  <2>4. \A i \in 1..Len(t.readings) : t.readings[i].id <= added + 1 /\ Seen(t.readings[i])
    <3> SUFFICES ASSUME NEW i \in 1..Len(t.readings)
                 PROVE  t.readings[i].id <= added + 1 /\ Seen(t.readings[i])
      OBVIOUS
    <3>1. i = 1 /\ t.readings[1] = r
      BY <1>3, <1>4, <2>1
    <3> QED BY <1>1, <1>2, <3>1
  <2> HIDE DEF t
  <2> QED BY <2>2, <2>3, <2>4 DEF SoundTrack, t
<1>8. Ids(q) = {added + 1}
  BY <1>1, <1>3 DEF Ids
<1> QED BY <1>3, <1>4, <1>5, <1>7, <1>8 DEF Last, q, r

LEMMA ExtendedTrack ==
  ASSUME TrackerType, NEW s \in Sightings, NEW t \in OpenTrack, SoundTrack(t, now, added)
  PROVE  /\ Extended(t, s) \in OpenTrack
         /\ Extended(t, s).readings = Append(t.readings, Reading(s))
         /\ SoundTrack(Extended(t, s), now, added + 1)
         /\ Ids(Extended(t, s).readings) = Ids(t.readings) \cup {added + 1}
         /\ Last(Extended(t, s)) = Reading(s)
<1> DEFINE r == Reading(s)
           q == Append(t.readings, r)
           u == Extended(t, s)
           n == Len(t.readings)
<1>1. r \in AnyReading /\ r.id = added + 1 /\ r.conf = s.conf /\ Seen(r) /\ r.conf \in Nat
  BY ReadingIsOne DEF AnyReading
<1>2. now \in Nat /\ added \in Nat
  BY DEF TrackerType
<1>3. /\ t.readings \in Seq(AnyReading) /\ n \in Nat \ {0} /\ DOMAIN t.readings = 1..n
      /\ \A i \in 1..n : t.readings[i] \in AnyReading /\ t.readings[i].conf \in Nat
  BY LastReading DEF AnyReading
<1>4. /\ t.firstSeen \in Nat /\ t.lastSeen \in Nat /\ t.bestFrame \in Nat \ {0} /\ t.bestFrameConf \in Nat
      /\ t = [readings |-> t.readings, firstSeen |-> t.firstSeen, lastSeen |-> t.lastSeen,
              bestFrame |-> t.bestFrame, bestFrameConf |-> t.bestFrameConf]
  BY DEF OpenTrack
<1>5. /\ u.readings = q /\ u.firstSeen = t.firstSeen /\ u.lastSeen = now
      /\ u.bestFrame = IF r.conf > t.bestFrameConf THEN added + 1 ELSE t.bestFrame
      /\ u.bestFrameConf = IF r.conf > t.bestFrameConf THEN r.conf ELSE t.bestFrameConf
      /\ u = [readings |-> u.readings, firstSeen |-> u.firstSeen, lastSeen |-> u.lastSeen,
              bestFrame |-> u.bestFrame, bestFrameConf |-> u.bestFrameConf]
  <2>1. u = [t EXCEPT !.readings = q, !.lastSeen = now,
                      !.bestFrame = IF s.conf > t.bestFrameConf THEN added + 1 ELSE t.bestFrame,
                      !.bestFrameConf = IF s.conf > t.bestFrameConf THEN s.conf ELSE t.bestFrameConf]
    BY DEF Extended, Stronger
  <2>2. u = [readings |-> q, firstSeen |-> t.firstSeen, lastSeen |-> now,
             bestFrame |-> IF s.conf > t.bestFrameConf THEN added + 1 ELSE t.bestFrame,
             bestFrameConf |-> IF s.conf > t.bestFrameConf THEN s.conf ELSE t.bestFrameConf]
    <3> HIDE DEF u, q, r
    <3> QED BY <1>4, <2>1
  <2> HIDE DEF u, q, r
  <2>3. r.conf = s.conf
    BY <1>1
  <2> QED BY <2>2, <2>3
<1> HIDE DEF r, u
<1>6. /\ q \in Seq(AnyReading) /\ q # <<>> /\ Len(q) = n + 1 /\ DOMAIN q = 1..(n + 1)
      /\ \A i \in 1..n : q[i] = t.readings[i]
      /\ q[n + 1] = r
  BY <1>1, <1>3, AppendProperties, LenProperties
<1> HIDE DEF q, n
<1>7. u \in OpenTrack
  <2>1. u.readings \in Seq(AnyReading) \ {<<>>} /\ u.firstSeen \in Nat /\ u.lastSeen \in Nat
    BY <1>2, <1>4, <1>5, <1>6
  <2>2. u.bestFrame \in Nat \ {0} /\ u.bestFrameConf \in Nat
    BY <1>1, <1>2, <1>4, <1>5
  <2> QED BY <1>5, <2>1, <2>2 DEF OpenTrack
<1>8. \A i \in 1..(n + 1) : i \in 1..n \/ i = n + 1
  BY <1>3
<1>9. \E m : FirstStrongest(q, m) /\ u.bestFrame = q[m].id /\ u.bestFrameConf = q[m].conf
  <2>1. PICK m : /\ FirstStrongest(t.readings, m)
                 /\ t.bestFrame = t.readings[m].id /\ t.bestFrameConf = t.readings[m].conf
    BY DEF SoundTrack
  <2>2. m \in 1..n /\ \A j \in 1..n : /\ t.readings[j].conf <= t.readings[m].conf
                                      /\ j < m => t.readings[j].conf < t.readings[m].conf
    BY <1>3, <2>1 DEF FirstStrongest
  <2>3. CASE r.conf > t.bestFrameConf
    <3>1. FirstStrongest(q, n + 1)
      <4>1. \A j \in 1..n : q[j].conf < r.conf
        <5> SUFFICES ASSUME NEW j \in 1..n PROVE q[j].conf < r.conf
          OBVIOUS
        <5>1. /\ q[j] = t.readings[j] /\ t.readings[j].conf \in Nat /\ t.bestFrameConf \in Nat
              /\ t.readings[j].conf <= t.bestFrameConf
          BY <1>3, <1>4, <1>6, <2>1, <2>2
        <5> QED BY <1>1, <2>3, <5>1
      <4>2. n + 1 \in 1..(n + 1) /\ r.conf <= r.conf /\ ~(n + 1 < n + 1)
        BY <1>1, <1>3
      <4>3. \A j \in 1..n : q[j].conf \in Nat
        BY <1>3, <1>6
      <4>4. \A j \in 1..n : q[j].conf <= r.conf
        BY <1>1, <4>1, <4>3
      <4> QED BY <1>6, <1>8, <4>1, <4>2, <4>4 DEF FirstStrongest
    <3> QED BY <1>1, <1>5, <1>6, <2>3, <3>1
  <2>4. CASE ~(r.conf > t.bestFrameConf)
    <3>1. FirstStrongest(q, m)
      <4>1. m \in 1..(n + 1) /\ q[m] = t.readings[m] /\ ~(n + 1 < m)
        BY <1>3, <1>6, <2>2
      <4>2. r.conf <= q[m].conf
        BY <1>1, <1>3, <2>1, <2>2, <2>4, <4>1
      <4> QED BY <1>6, <1>8, <2>2, <4>1, <4>2 DEF FirstStrongest
    <3>2. q[m] = t.readings[m]
      BY <1>6, <2>2
    <3> QED BY <1>5, <2>1, <2>4, <3>1, <3>2
  <2> QED BY <2>3, <2>4
<1>10. SoundTrack(u, now, added + 1)
  <2>1. u.firstSeen <= u.lastSeen /\ u.lastSeen <= now
    BY <1>2, <1>4, <1>5 DEF SoundTrack
  <2>2. \A i \in 1..(n + 1) : q[i].id <= added + 1 /\ Seen(q[i])
    <3>1. ASSUME NEW i \in 1..n PROVE q[i].id <= added + 1 /\ Seen(q[i])
      <4>1. q[i].id <= added /\ Seen(q[i]) /\ q[i].id \in Nat
        BY <1>3, <1>6 DEF SoundTrack, AnyReading, n
      <4> QED BY <1>2, <4>1
    <3> QED BY <1>1, <1>2, <1>6, <1>8, <3>1
  <2> QED BY <1>5, <1>6, <1>9, <2>1, <2>2 DEF SoundTrack
<1>11. Ids(q) = Ids(t.readings) \cup {added + 1}
  <2>1. n + 1 \in 1..(n + 1) /\ \A i \in 1..n : i \in 1..(n + 1)
    BY <1>3
  <2> QED BY <1>1, <1>3, <1>6, <1>8, <2>1 DEF Ids
<1> QED BY <1>5, <1>6, <1>7, <1>10, <1>11 DEF Last, u, q, r

LEMMA AddEffect ==
  ASSUME TrackerType, TracksSound, Add
  PROVE  /\ added' = added + 1 /\ added < MaxReadings /\ phase = "running"
         /\ UNCHANGED <<now, finals, phase, log>>
         /\ \E s \in Sightings : Opens(s) \/ \E b \in 1..Len(tracks) : Joins(s, b)
<1>1. PICK s \in Sightings :
        tracks' = IF InReach(s) = {} THEN Append(tracks, Opened(s))
                  ELSE [tracks EXCEPT ![Best(s, InReach(s))] = Extended(@, s)]
  BY DEF Add
<1>2. Len(tracks) \in Nat /\ tracks \in Seq(OpenTrack)
  BY LenProperties DEF TrackerType
<1>3. CASE InReach(s) = {}
  <2>1. Opened(s) \in OpenTrack /\ tracks' = Append(tracks, Opened(s))
    BY <1>1, <1>3, OpenedTrack
  <2>2. Opens(s)
    BY <1>2, <1>3, <2>1, AppendProperties DEF Opens
  <2> QED BY <2>2 DEF Add
<1>4. CASE InReach(s) # {}
  <2> DEFINE b == Best(s, InReach(s))
             e == Extended(tracks[b], s)
  <2>1. b \in InReach(s)
    BY <1>4, BestInReach
  <2>2. b \in 1..Len(tracks)
    BY <2>1 DEF InReach
  <2>3. tracks' = [tracks EXCEPT ![b] = e]
    BY <1>1, <1>4
  <2> HIDE DEF b
  <2>4. tracks[b] \in OpenTrack /\ SoundTrack(tracks[b], now, added)
    BY <1>2, <2>2, ElementOfSeq DEF TracksSound
  <2>5. e \in OpenTrack
    BY <2>4, ExtendedTrack
  <2> HIDE DEF e
  <2>6. Joins(s, b)
    BY <1>2, <2>1, <2>2, <2>3, <2>5, ExceptSeq DEF Joins, e
  <2> QED BY <2>2, <2>6 DEF Add
<1> QED BY <1>3, <1>4

(* Collecting and flushing finish the tracks of done and keep others; only *)
(* what has not enough sightings is given up.                              *)
Closes(done, from) ==
    /\ done \in SUBSET (1..Len(tracks))
    /\ \A i \in done : Enough(tracks[i])
    /\ \A i \in (1..Len(tracks)) \ done :
         Enough(tracks[i]) => \E k \in 1..Len(tracks') : from[k] = i
    /\ finals = {} /\ finals' = {Final(tracks[i]) : i \in done}
    /\ tracks' \in Seq(OpenTrack) /\ Len(tracks') \in Nat
    /\ from \in [1..Len(tracks') -> (1..Len(tracks)) \ done]
    /\ \A i \in 1..Len(tracks') : tracks'[i] = tracks[from[i]]
    /\ \A i, j \in 1..Len(tracks') : i # j => from[i] # from[j]
    /\ UNCHANGED <<now, added, log>>
    /\ phase = "running"

LEMMA CollectCloses ==
  ASSUME TrackerType, CollectFinalized
  PROVE  \E done, from : Closes(done, from)
<1> DEFINE n == Len(tracks)
           kept == {i \in DOMAIN tracks : ~Over(tracks[i])}
           done == {j \in 1..n : Over(tracks[j]) /\ Enough(tracks[j])}
           q == Select(tracks, kept)
<1>1. tracks \in Seq(OpenTrack) /\ DOMAIN tracks = 1..n /\ n \in Nat
  BY LenProperties DEF TrackerType
<1>2. kept \in SUBSET (1..n) /\ kept \subseteq (1..n) \ done
  BY <1>1
<1>3. tracks' = q
  BY DEF CollectFinalized, StillOpen
<1> HIDE DEF kept, done
<1>4. q \in Seq(OpenTrack) /\ Len(q) \in Nat
  BY <1>1, <1>2, SelectPlaces
<1>5. PICK from \in [1..Len(q) -> kept] :
        /\ \A i \in 1..Len(q) : q[i] = tracks[from[i]]
        /\ \A i, j \in 1..Len(q) : i < j => from[i] < from[j]
        /\ \A k \in kept : \E i \in 1..Len(q) : from[i] = k
  <2>1. \E from : PlacesOf(from, q, tracks, kept)
    BY <1>1, <1>2, SelectPlaces
  <2> HIDE DEF q, n
  <2> QED BY <2>1 DEF PlacesOf
<1> HIDE DEF q, n
<1>6. ASSUME NEW i \in 1..Len(q), NEW j \in 1..Len(q), i # j PROVE from[i] # from[j]
  <2>1. i < j \/ j < i
    BY <1>4, <1>6
  <2>2. from[i] \in Nat /\ from[j] \in Nat
    <3>1. from[i] \in kept /\ from[j] \in kept
      BY <1>5
    <3>2. \A k \in kept : k \in Nat
      BY <1>1, <1>2
    <3> QED BY <3>1, <3>2
  <2> QED BY <1>5, <2>1, <2>2
<1>7. from \in [1..Len(q) -> (1..n) \ done]
  BY <1>2, <1>5
<1>8. Closes(done, from)
  <2>1. done \in SUBSET (1..n)
    BY DEF done
  <2>2. finals = {} /\ finals' = {Final(tracks[i]) : i \in done} /\ UNCHANGED <<now, added, log>> /\ phase = "running"
    BY DEF CollectFinalized, done, n
  <2>3. \A i \in done : Enough(tracks[i])
    BY DEF done
  <2>4. \A i \in (1..n) \ done : Enough(tracks[i]) => i \in kept
    BY <1>1 DEF done, kept
  <2> QED BY <1>3, <1>4, <1>5, <1>6, <1>7, <2>1, <2>2, <2>3, <2>4 DEF Closes, n
<1> QED BY <1>8

LEMMA FlushCloses ==
  ASSUME TrackerType, FlushAll
  PROVE  \E done, from : Closes(done, from)
<1> DEFINE done == {j \in 1..Len(tracks) : Enough(tracks[j])}
           from == [i \in 1..0 |-> 0]
<1>1. tracks' = <<>> /\ <<>> \in Seq(OpenTrack) /\ Len(<<>>) = 0 /\ 1..0 = {}
  BY EmptySeq DEF FlushAll
<1>2. done \in SUBSET (1..Len(tracks)) /\ finals' = {Final(tracks[i]) : i \in done}
  BY DEF FlushAll
<1>3. finals = {} /\ phase = "running" /\ UNCHANGED <<now, added, log>>
  BY DEF FlushAll
<1>4. from \in [1..0 -> (1..Len(tracks)) \ done]
  BY <1>1
<1>5. Len(tracks') = 0 /\ \A i \in 1..Len(tracks) : i \in done <=> Enough(tracks[i])
  BY <1>1
<1> HIDE DEF done, from
<1>6. Closes(done, from)
  BY <1>1, <1>2, <1>3, <1>4, <1>5 DEF Closes
<1> QED BY <1>6

(* What Final makes of a track. *)
LEMMA FinishedTrack ==
  ASSUME TrackerType, NEW t \in OpenTrack, SoundTrack(t, now, added)
  PROVE  Final(t) \in AnyFinal /\ Final(t).readings = t.readings /\ SoundFinal(Final(t), added)
<1> DEFINE f == Final(t)
<1>1. /\ t.readings \in Seq(AnyReading) /\ t.readings # <<>> /\ DOMAIN t.readings = 1..Len(t.readings)
      /\ \A i \in 1..Len(t.readings) : t.readings[i] \in AnyReading
  BY LastReading DEF OpenTrack
<1>2. PICK m : FirstStrongest(t.readings, m) /\ t.bestFrame = t.readings[m].id
  BY DEF SoundTrack
<1>3. Strongest(t.readings) = m /\ m \in 1..Len(t.readings)
  BY <1>1, <1>2, StrongestIsFirst DEF FirstStrongest
<1>4. Consolidate(t.readings) \in Seq(Nat)
  BY <1>1, ConsolidateType
<1>5. t.bestFrame \in Nat \ {0}
  BY DEF OpenTrack
<1>6. /\ f.text = Consolidate(t.readings) /\ f.box = t.bestFrame /\ f.frame = t.bestFrame
      /\ f.readings = t.readings
      /\ f = [text |-> f.text, box |-> f.box, frame |-> f.frame, readings |-> f.readings]
  BY <1>2, <1>3 DEF Final
<1> HIDE DEF f
<1>7. f \in AnyFinal
  BY <1>1, <1>4, <1>5, <1>6 DEF AnyFinal
<1>8. t.bestFrame <= added /\ \A i \in 1..Len(t.readings) : t.readings[i].id <= added
  BY <1>2, <1>3 DEF SoundTrack
<1>9. SoundFinal(f, added)
  BY <1>6, <1>8 DEF SoundFinal
<1> QED BY <1>6, <1>7, <1>9 DEF f

-----------------------------------------------------------------------------
(* Every step of the tracker preserves the invariant.                      *)

(* What was sound stays so as numbers and time go on. *)
LEMMA SoundLonger ==
  ASSUME NEW t \in OpenTrack, NEW time \in Nat, NEW n \in Nat, NEW later \in Nat, NEW more \in Nat,
         SoundTrack(t, time, n), time <= later, n <= more
  PROVE  SoundTrack(t, later, more)
<1>1. t.lastSeen \in Nat /\ t.lastSeen <= later
  BY DEF SoundTrack, OpenTrack
<1>2. \A i \in 1..Len(t.readings) : t.readings[i].id <= more
  <2>1. \A i \in 1..Len(t.readings) : t.readings[i].id \in Nat /\ t.readings[i].id <= n
    BY LastReading DEF SoundTrack, AnyReading
  <2> QED BY <2>1
<1> QED BY <1>1, <1>2 DEF SoundTrack

LEMMA SoundFinalLonger ==
  ASSUME NEW f \in AnyFinal, NEW n \in Nat, NEW more \in Nat, SoundFinal(f, n), n <= more
  PROVE  SoundFinal(f, more)
<1>1. f.box \in Nat /\ f.box <= more
  BY DEF SoundFinal, AnyFinal
<1>2. \A i \in 1..Len(f.readings) : f.readings[i].id <= more
  <2>1. f.readings \in Seq(AnyReading)
    BY DEF AnyFinal
  <2>2. \A i \in 1..Len(f.readings) : f.readings[i] \in AnyReading
    BY <2>1, ElementOfSeq
  <2>3. \A i \in 1..Len(f.readings) : f.readings[i].id \in Nat /\ f.readings[i].id <= n
    BY <2>2 DEF SoundFinal, AnyReading
  <2> QED BY <2>3
<1> QED BY <1>1, <1>2 DEF SoundFinal

(* The reading that is added has a number of its own. *)
LEMMA NewNumber ==
  ASSUME TrackerType, TracksSound, FinalsSound
  PROVE  /\ \A i \in 1..Len(tracks) : added + 1 \notin Ids(tracks[i].readings)
         /\ \A f \in finals : added + 1 \notin Ids(f.readings)
<1>1. added \in Nat
  BY DEF TrackerType
<1>2. ASSUME NEW i \in 1..Len(tracks) PROVE added + 1 \notin Ids(tracks[i].readings)
  <2>1. tracks[i] \in OpenTrack
    BY ElementOfSeq DEF TrackerType
  <2>2. DOMAIN tracks[i].readings = 1..Len(tracks[i].readings)
    BY <2>1, LastReading
  <2> QED BY <1>1, <2>2 DEF TracksSound, SoundTrack, Ids
<1>3. ASSUME NEW f \in finals PROVE added + 1 \notin Ids(f.readings)
  <2>1. f.readings \in Seq(AnyReading)
    BY DEF TrackerType, AnyFinal
  <2>2. DOMAIN f.readings = 1..Len(f.readings)
    BY <2>1, LenProperties
  <2> QED BY <1>1, <2>2 DEF FinalsSound, SoundFinal, Ids
<1> QED BY <1>2, <1>3

(* The distance of two readings is that of the sightings they come from.   *)
LEMMA CloseReadings ==
  ASSUME Separated, NEW r, NEW q, NEW u, Seen(r), Seen(q), Seen(u)
  PROVE  (Close(r, q) => Close(q, r)) /\ (Close(r, q) /\ Close(q, u) => Close(r, u))
<1>1. PICK s \in Sightings : s.text = r.text /\ s.place = r.place
  BY DEF Seen
<1>2. PICK t \in Sightings : t.text = q.text /\ t.place = q.place
  BY DEF Seen
<1>3. PICK v \in Sightings : v.text = u.text /\ v.place = u.place
  BY DEF Seen
<1>4. /\ Close(s, t) <=> Close(r, q)
      /\ Close(t, s) <=> Close(q, r)
      /\ Close(t, v) <=> Close(q, u)
      /\ Close(s, v) <=> Close(r, u)
  BY <1>1, <1>2, <1>3 DEF Close, Score
<1> QED BY <1>4 DEF Separated

LEMMA CloseToItself ==
  ASSUME NEW r, r.text \in Seq(Nat), r.place \in Int
  PROVE  Close(r, r)
<1>1. EditDistance(r.text, r.text) = 0
  BY LenProperties, NoDistanceToItself
<1>2. Abs(r.place - r.place) = 0
  BY DEF Abs
<1> QED BY <1>1, <1>2, TrackerAssumption DEF Close, Score

(* A new reading, whether it opens a track or joins one.                   *)
LEMMA AddPreserves ==
  ASSUME TrackerInv, Add
  PROVE  TrackerInv'
<1>1. /\ added' = added + 1 /\ added < MaxReadings /\ phase = "running" /\ added \in Nat /\ now \in Nat
      /\ UNCHANGED <<now, finals, phase, log>>
  BY AddEffect DEF TrackerInv, TrackerType
<1>2. PICK s \in Sightings : Opens(s) \/ \E b \in 1..Len(tracks) : Joins(s, b)
  BY AddEffect DEF TrackerInv
<1> DEFINE r == Reading(s)
           n == Len(tracks)
<1>3. \A i \in 1..n : tracks[i] \in OpenTrack /\ SoundTrack(tracks[i], now, added)
  BY ElementOfSeq DEF TrackerInv, TrackerType, TracksSound
<1>4. \A i \in 1..n : SoundTrack(tracks[i], now, added + 1)
  BY <1>1, <1>3, SoundLonger
<1>5. /\ Opened(s) \in OpenTrack
      /\ Opened(s).readings = <<r>>
      /\ SoundTrack(Opened(s), now, added + 1)
      /\ Ids(Opened(s).readings) = {added + 1}
      /\ Last(Opened(s)) = r
  BY OpenedTrack DEF TrackerInv
<1>6. ASSUME NEW b \in 1..n
      PROVE  LET u == Extended(tracks[b], s) IN
             /\ u \in OpenTrack /\ u.readings = Append(tracks[b].readings, r)
             /\ SoundTrack(u, now, added + 1)
             /\ Ids(u.readings) = Ids(tracks[b].readings) \cup {added + 1}
             /\ Last(u) = r
  BY <1>3, ExtendedTrack DEF TrackerInv
<1>7. r \in AnyReading /\ Seen(r)
  BY ReadingIsOne DEF TrackerInv
<1> HIDE DEF r
<1>8. TrackerType'
  <2>1. tracks' \in Seq(OpenTrack)
    BY <1>2 DEF Opens, Joins
  <2>2. added' \in 0..MaxReadings
    BY <1>1, TrackerAssumption
  <2> QED BY <1>1, <2>1, <2>2 DEF TrackerInv, TrackerType
<1>9. TracksSound'
  <2>1. CASE Opens(s)
    <3>1. \A i \in 1..Len(tracks') : i \in 1..n \/ i = n + 1
      BY <2>1 DEF Opens
    <3> QED BY <1>1, <1>4, <1>5, <2>1, <3>1 DEF TracksSound, Opens
  <2>2. CASE \E b \in 1..n : Joins(s, b)
    BY <1>1, <1>4, <1>6, <2>2 DEF TracksSound, Joins
  <2> QED BY <1>2, <2>1, <2>2
<1>10. FinalsSound' /\ LogSound'
  <2>1. \A f \in finals : SoundFinal(f, added + 1)
    BY <1>1, SoundFinalLonger DEF TrackerInv, TrackerType, FinalsSound
  <2>2. ASSUME NEW i \in 1..Len(log) PROVE SoundFinal(log[i], added + 1)
    <3>1. log[i] \in AnyFinal
      BY ElementOfSeq DEF TrackerInv, TrackerType
    <3> QED BY <1>1, <3>1, SoundFinalLonger DEF TrackerInv, LogSound
  <2> QED BY <1>1, <2>1, <2>2 DEF FinalsSound, LogSound
<1>11. ReadingsApart'
  <2>1. /\ \A i \in 1..n : added + 1 \notin Ids(tracks[i].readings)
        /\ \A f \in finals : added + 1 \notin Ids(f.readings)
    BY NewNumber DEF TrackerInv
  <2> DEFINE ids(i) == Ids(tracks[i].readings)
             ids2(i) == Ids(tracks'[i].readings)
  <2>4. /\ \A i, j \in 1..n : i # j => ids(i) \cap ids(j) = {}
        /\ \A f, h \in finals : f # h => Ids(f.readings) \cap Ids(h.readings) = {}
        /\ \A i \in 1..n, f \in finals : ids(i) \cap Ids(f.readings) = {}
    BY DEF TrackerInv, ReadingsApart
  <2>5. ASSUME \A i, j \in 1..Len(tracks') : i # j => ids2(i) \cap ids2(j) = {},
               \A i \in 1..Len(tracks'), f \in finals : ids2(i) \cap Ids(f.readings) = {}
        PROVE  ReadingsApart'
    BY <1>1, <2>4, <2>5 DEF ReadingsApart
  <2>2. CASE Opens(s)
    <3>1. \A i \in 1..Len(tracks') : i \in 1..n \/ i = n + 1
      BY <2>2 DEF Opens
    <3>2. ids2(n + 1) = {added + 1} /\ \A i \in 1..n : ids2(i) = ids(i)
      BY <1>5, <2>2 DEF Opens
    <3>3. \A i \in 1..n : added + 1 \notin ids(i)
      BY <2>1
    <3> HIDE DEF ids, ids2
    <3>4. \A i, j \in 1..Len(tracks') : i # j => ids2(i) \cap ids2(j) = {}
      BY <2>4, <3>1, <3>2, <3>3
    <3>5. \A i \in 1..Len(tracks'), f \in finals : ids2(i) \cap Ids(f.readings) = {}
      BY <2>1, <2>4, <3>1, <3>2
    <3> QED BY <2>5, <3>4, <3>5
  <2>3. ASSUME NEW b \in 1..n, Joins(s, b) PROVE ReadingsApart'
    <3>1. \A i \in 1..n : ids2(i) = IF i = b THEN ids(i) \cup {added + 1} ELSE ids(i)
      BY <1>6, <2>3 DEF Joins
    <3>2. Len(tracks') = n
      BY <2>3 DEF Joins
    <3>3. \A i \in 1..n : added + 1 \notin ids(i)
      BY <2>1
    <3> HIDE DEF ids, ids2
    <3>4. \A i, j \in 1..n : i # j => ids2(i) \cap ids2(j) = {}
      BY <2>4, <3>1, <3>3
    <3>5. \A i \in 1..n, f \in finals : ids2(i) \cap Ids(f.readings) = {}
      BY <2>1, <2>4, <3>1
    <3> QED BY <2>5, <3>2, <3>4, <3>5
  <2> QED BY <1>2, <2>2, <2>3
<1>12. PhasesInOrder'
  BY <1>1 DEF PhasesInOrder
<1>13. OneTrackPerPlate'
  <2> SUFFICES ASSUME Separated
               PROVE  /\ \A i, j \in 1..Len(tracks') :
                           i # j => ~Close(Last(tracks'[i]), Last(tracks'[j]))
                      /\ \A i \in 1..Len(tracks') : \A k, l \in DOMAIN tracks'[i].readings :
                           Close(tracks'[i].readings[k], tracks'[i].readings[l])
    BY DEF OneTrackPerPlate
  <2>1. /\ \A i, j \in 1..n : i # j => ~Close(Last(tracks[i]), Last(tracks[j]))
        /\ \A i \in 1..n : \A k, l \in DOMAIN tracks[i].readings :
             Close(tracks[i].readings[k], tracks[i].readings[l])
    BY DEF TrackerInv, OneTrackPerPlate
  <2>2. \A i \in 1..n : /\ DOMAIN tracks[i].readings = 1..Len(tracks[i].readings)
                        /\ \A k \in DOMAIN tracks[i].readings : Seen(tracks[i].readings[k])
                        /\ Last(tracks[i]) = tracks[i].readings[Len(tracks[i].readings)]
                        /\ Len(tracks[i].readings) \in DOMAIN tracks[i].readings
                        /\ Seen(Last(tracks[i]))
    <3> SUFFICES ASSUME NEW i \in 1..n
                 PROVE  /\ DOMAIN tracks[i].readings = 1..Len(tracks[i].readings)
                        /\ \A k \in DOMAIN tracks[i].readings : Seen(tracks[i].readings[k])
                        /\ Last(tracks[i]) = tracks[i].readings[Len(tracks[i].readings)]
                        /\ Len(tracks[i].readings) \in DOMAIN tracks[i].readings
                        /\ Seen(Last(tracks[i]))
      OBVIOUS
    <3>1. /\ DOMAIN tracks[i].readings = 1..Len(tracks[i].readings)
          /\ Last(tracks[i]) = tracks[i].readings[Len(tracks[i].readings)]
          /\ Len(tracks[i].readings) \in Nat \ {0}
      BY <1>3, LastReading
    <3>2. \A k \in 1..Len(tracks[i].readings) : Seen(tracks[i].readings[k])
      BY <1>3 DEF SoundTrack
    <3>3. Len(tracks[i].readings) \in 1..Len(tracks[i].readings)
      BY <3>1
    <3> QED BY <3>1, <3>2, <3>3
  <2>3. \A i \in 1..n : (i \in InReach(s)) <=> Close(r, Last(tracks[i]))
    BY DEF InReach, Close, Score, r, Reading
  <2>4. Close(r, r)
    BY <1>7, CloseToItself DEF AnyReading
  <2>5. CASE Opens(s)
    <3>1. \A i \in 1..n : ~Close(r, Last(tracks[i])) /\ ~Close(Last(tracks[i]), r)
      BY <1>7, <2>2, <2>3, <2>5, CloseReadings DEF Opens
    <3>2. \A i \in 1..Len(tracks') : i \in 1..n \/ i = n + 1
      BY <2>5 DEF Opens
    <3>3. tracks'[n + 1] = Opened(s) /\ \A i \in 1..n : tracks'[i] = tracks[i]
      BY <2>5 DEF Opens
    <3>4. DOMAIN <<r>> = {1} /\ <<r>>[1] = r
      OBVIOUS
    <3> QED BY <1>5, <2>1, <2>4, <3>1, <3>2, <3>3, <3>4
  <2>6. ASSUME NEW b \in 1..n, Joins(s, b)
        PROVE  /\ \A i, j \in 1..Len(tracks') :
                    i # j => ~Close(Last(tracks'[i]), Last(tracks'[j]))
               /\ \A i \in 1..Len(tracks') : \A k, l \in DOMAIN tracks'[i].readings :
                    Close(tracks'[i].readings[k], tracks'[i].readings[l])
    <3> DEFINE q == tracks[b].readings
               u == Extended(tracks[b], s)
    <3>1. Len(tracks') = n /\ \A i \in 1..n : tracks'[i] = IF i = b THEN u ELSE tracks[i]
      BY <2>6 DEF Joins
    <3>2. u.readings = Append(q, r) /\ Last(u) = r
      BY <1>6
    <3>3. Close(r, Last(tracks[b])) /\ Close(Last(tracks[b]), r)
      BY <1>7, <2>2, <2>3, <2>6, CloseReadings DEF Joins
    <3>4. \A k \in DOMAIN q : Close(r, q[k]) /\ Close(q[k], r)
      <4> SUFFICES ASSUME NEW k \in DOMAIN q PROVE Close(r, q[k]) /\ Close(q[k], r)
        OBVIOUS
      <4>1. Close(Last(tracks[b]), q[k]) /\ Close(q[k], Last(tracks[b])) /\ Seen(q[k]) /\ Seen(Last(tracks[b]))
        BY <2>1, <2>2
      <4> QED BY <1>7, <3>3, <4>1, CloseReadings
    <3>5. ASSUME NEW j \in 1..n, j # b PROVE ~Close(r, Last(tracks[j])) /\ ~Close(Last(tracks[j]), r)
      <4>1. ~Close(Last(tracks[b]), Last(tracks[j])) /\ Seen(Last(tracks[b])) /\ Seen(Last(tracks[j]))
        BY <2>1, <2>2, <3>5
      <4>2. Close(r, Last(tracks[j])) => FALSE
        BY <1>7, <3>3, <4>1, CloseReadings
      <4> QED BY <1>7, <4>1, <4>2, CloseReadings
    <3> HIDE DEF u
    <3>6. \A i, j \in 1..n : i # j => ~Close(Last(tracks'[i]), Last(tracks'[j]))
      BY <2>1, <3>1, <3>2, <3>5
    <3>7. \A k \in DOMAIN Append(q, r) : (k \in DOMAIN q /\ Append(q, r)[k] = q[k]) \/ Append(q, r)[k] = r
      <4>1. q \in Seq(AnyReading)
        BY <1>3, LastReading
      <4>2. /\ Len(q) \in Nat /\ DOMAIN q = 1..Len(q) /\ DOMAIN Append(q, r) = 1..(Len(q) + 1)
            /\ \A k \in 1..Len(q) : Append(q, r)[k] = q[k]
            /\ Append(q, r)[Len(q) + 1] = r
        BY <1>7, <4>1, AppendProperties, LenProperties
      <4>3. \A k \in 1..(Len(q) + 1) : k \in 1..Len(q) \/ k = Len(q) + 1
        BY <4>2
      <4> QED BY <4>2, <4>3
    <3>8. \A k, l \in DOMAIN u.readings : Close(u.readings[k], u.readings[l])
      BY <2>1, <2>4, <3>2, <3>4, <3>7
    <3> QED BY <2>1, <3>1, <3>6, <3>8
  <2> QED BY <1>2, <2>5, <2>6
<1> QED BY <1>8, <1>9, <1>10, <1>11, <1>12, <1>13 DEF TrackerInv

(* Finished tracks leave the tracker, the others stay as they are. *)
LEMMA ClosePreserves ==
  ASSUME TrackerInv, CollectFinalized \/ FlushAll
  PROVE  TrackerInv'
<1>1. PICK done, from : Closes(done, from)
  BY CollectCloses, FlushCloses DEF TrackerInv
<1> DEFINE n == Len(tracks)
           m == Len(tracks')
           ids(i) == Ids(tracks[i].readings)
<1>2. /\ done \in SUBSET (1..n) /\ UNCHANGED <<now, added, log>> /\ finals = {}
      /\ finals' = {Final(tracks[i]) : i \in done}
      /\ \A i \in 1..m : /\ from[i] \in 1..n /\ from[i] \notin done
                         /\ tracks'[i] = tracks[from[i]]
      /\ \A i, j \in 1..m : i # j => from[i] # from[j]
  BY <1>1 DEF Closes
<1>3. \A i \in 1..n : tracks[i] \in OpenTrack /\ SoundTrack(tracks[i], now, added)
  BY ElementOfSeq DEF TrackerInv, TrackerType, TracksSound
<1>4. \A i \in done : /\ Final(tracks[i]) \in AnyFinal /\ Final(tracks[i]).readings = tracks[i].readings
                      /\ SoundFinal(Final(tracks[i]), added)
  BY <1>2, <1>3, FinishedTrack DEF TrackerInv
<1>5. TrackerType'
  <2>1. phase' \in {"running", "flushing", "over"}
    BY DEF TrackerInv, TrackerType, CollectFinalized, FlushAll
  <2>2. tracks' \in Seq(OpenTrack)
    BY <1>1 DEF Closes
  <2> QED BY <1>2, <1>4, <2>1, <2>2 DEF TrackerInv, TrackerType
<1>6. TracksSound'
  BY <1>2, <1>3 DEF TracksSound
<1>7. FinalsSound' /\ LogSound'
  BY <1>2, <1>4 DEF FinalsSound, LogSound, TrackerInv
<1>8. ReadingsApart'
  <2>1. \A i, j \in 1..n : i # j => ids(i) \cap ids(j) = {}
    BY DEF TrackerInv, ReadingsApart
  <2>2. \A f \in finals' : \E i \in done : f = Final(tracks[i]) /\ Ids(f.readings) = ids(i)
    BY <1>2, <1>4
  <2>3. \A i \in 1..m : Ids(tracks'[i].readings) = ids(from[i])
    BY <1>2
  <2> HIDE DEF ids
  <2>4. \A f, h \in finals' : f # h => Ids(f.readings) \cap Ids(h.readings) = {}
    <3> SUFFICES ASSUME NEW f \in finals', NEW h \in finals', f # h
                 PROVE  Ids(f.readings) \cap Ids(h.readings) = {}
      OBVIOUS
    <3>1. PICK i \in done : f = Final(tracks[i]) /\ Ids(f.readings) = ids(i)
      BY <2>2
    <3>2. PICK j \in done : h = Final(tracks[j]) /\ Ids(h.readings) = ids(j)
      BY <2>2
    <3> QED BY <1>2, <2>1, <3>1, <3>2
  <2>5. \A i \in 1..m, f \in finals' : Ids(tracks'[i].readings) \cap Ids(f.readings) = {}
    <3> SUFFICES ASSUME NEW i \in 1..m, NEW f \in finals'
                 PROVE  Ids(tracks'[i].readings) \cap Ids(f.readings) = {}
      OBVIOUS
    <3>1. PICK j \in done : Ids(f.readings) = ids(j)
      BY <2>2
    <3> QED BY <1>2, <2>1, <2>3, <3>1
  <2>6. \A i, j \in 1..m : i # j => Ids(tracks'[i].readings) \cap Ids(tracks'[j].readings) = {}
    BY <1>2, <2>1, <2>3
  <2> QED BY <2>4, <2>5, <2>6 DEF ReadingsApart
<1>9. PhasesInOrder'
  <2>1. phase = "running"
    BY <1>1 DEF Closes
  <2> QED BY <2>1 DEF PhasesInOrder, CollectFinalized, FlushAll
<1>10. OneTrackPerPlate'
  BY <1>2 DEF TrackerInv, OneTrackPerPlate
<1> QED BY <1>5, <1>6, <1>7, <1>8, <1>9, <1>10 DEF TrackerInv

(* A finished track goes into the log. *)
LEMMA ReportPreserves ==
  ASSUME TrackerInv, Report
  PROVE  TrackerInv'
<1>1. PICK f \in finals : log' = Append(log, f) /\ finals' = finals \ {f}
  BY DEF Report
<1>2. UNCHANGED <<now, tracks, phase, added>>
  BY DEF Report
<1>3. f \in AnyFinal /\ SoundFinal(f, added) /\ log \in Seq(AnyFinal)
  BY DEF TrackerInv, TrackerType, FinalsSound
<1>4. /\ log' \in Seq(AnyFinal) /\ Len(log) \in Nat /\ Len(log') = Len(log) + 1
      /\ \A i \in 1..Len(log) : log'[i] = log[i]
      /\ log'[Len(log) + 1] = f
  BY <1>1, <1>3, AppendProperties, LenProperties
<1>5. TrackerType'
  BY <1>1, <1>2, <1>4 DEF TrackerInv, TrackerType
<1>6. TracksSound' /\ FinalsSound'
  BY <1>1, <1>2 DEF TrackerInv, TracksSound, FinalsSound
<1>7. LogSound'
  <2>1. \A i \in 1..Len(log') : i \in 1..Len(log) \/ i = Len(log) + 1
    BY <1>4
  <2> QED BY <1>2, <1>3, <1>4, <2>1 DEF TrackerInv, LogSound
<1>8. ReadingsApart' /\ PhasesInOrder'
  BY <1>1, <1>2 DEF TrackerInv, ReadingsApart, PhasesInOrder
<1>9. OneTrackPerPlate'
  BY <1>2 DEF TrackerInv, OneTrackPerPlate
<1> QED BY <1>5, <1>6, <1>7, <1>8, <1>9 DEF TrackerInv

(* Only time passes, or nothing. *)
LEMMA ClockPreserves ==
  ASSUME TrackerInv, now' = now \/ (now < MaxTime /\ now' = now + 1), UNCHANGED trackerVars
  PROVE  TrackerInv'
<1>1. now \in Nat /\ now' \in 0..MaxTime /\ now <= now' /\ now' \in Nat /\ added \in Nat
  BY TrackerAssumption DEF TrackerInv, TrackerType
<1>2. UNCHANGED <<tracks, finals, phase, added, log>>
  BY DEF trackerVars
<1>3. TrackerType'
  BY <1>1, <1>2 DEF TrackerInv, TrackerType
<1>4. TracksSound'
  <2>1. \A i \in 1..Len(tracks) : tracks[i] \in OpenTrack /\ SoundTrack(tracks[i], now, added)
    BY ElementOfSeq DEF TrackerInv, TrackerType, TracksSound
  <2>2. \A i \in 1..Len(tracks) : SoundTrack(tracks[i], now', added)
    BY <1>1, <2>1, SoundLonger
  <2> QED BY <1>2, <2>2 DEF TracksSound
<1>5. FinalsSound' /\ LogSound' /\ ReadingsApart' /\ PhasesInOrder' /\ OneTrackPerPlate'
  BY <1>2 DEF TrackerInv, FinalsSound, LogSound, ReadingsApart, PhasesInOrder, OneTrackPerPlate
<1> QED BY <1>3, <1>4, <1>5 DEF TrackerInv

(* The end comes when all is reported. *)
LEMMA EndPreserves ==
  ASSUME TrackerInv, End
  PROVE  TrackerInv'
<1>1. phase = "flushing" /\ finals = {} /\ phase' = "over" /\ UNCHANGED <<now, tracks, finals, added, log>>
  BY DEF End
<1>2. PhasesInOrder'
  BY <1>1 DEF TrackerInv, PhasesInOrder
<1>3. TrackerType' /\ TracksSound' /\ FinalsSound' /\ LogSound' /\ ReadingsApart' /\ OneTrackPerPlate'
  BY <1>1 DEF TrackerInv, TrackerType, TracksSound, FinalsSound, LogSound, ReadingsApart, OneTrackPerPlate
<1> QED BY <1>2, <1>3 DEF TrackerInv

LEMMA TrackerInitially == ReportingInit => TrackerInv
<1> SUFFICES ASSUME Init PROVE TrackerInv
  BY DEF ReportingInit
<1>1. /\ now = 0 /\ tracks = <<>> /\ finals = {} /\ phase = "running" /\ added = 0 /\ log = <<>>
      /\ 1..Len(tracks) = {} /\ 1..Len(log) = {}
  BY EmptySeq DEF Init
<1>2. TrackerType
  BY <1>1, TrackerAssumption, EmptySeq DEF TrackerType
<1>3. OneTrackPerPlate
  BY <1>1 DEF OneTrackPerPlate
<1>4. TracksSound /\ FinalsSound /\ LogSound /\ ReadingsApart /\ PhasesInOrder
  BY <1>1 DEF TracksSound, FinalsSound, LogSound, ReadingsApart, PhasesInOrder
<1> QED BY <1>2, <1>3, <1>4 DEF TrackerInv

LEMMA TrackerStep == TrackerInv /\ [ReportingNext]_reportingVars => TrackerInv'
<1> SUFFICES ASSUME TrackerInv, [ReportingNext]_reportingVars PROVE TrackerInv'
  OBVIOUS
<1>1. CASE Add
  BY <1>1, AddPreserves
<1>2. CASE CollectFinalized \/ FlushAll
  BY <1>2, ClosePreserves
<1>3. CASE Report
  BY <1>3, ReportPreserves
<1>4. CASE End
  BY <1>4, EndPreserves
<1>5. CASE Tick
  BY <1>5, ClockPreserves DEF Tick, trackerVars
<1>6. CASE Dedup!Next /\ UNCHANGED trackerVars
  <2>1. now' = now \/ (now < MaxTime /\ now' = now + 1)
    BY <1>6 DEF Dedup!Next, Dedup!Tick, Dedup!ShouldReport
  <2> QED BY <1>6, <2>1, ClockPreserves
<1>7. CASE UNCHANGED reportingVars
  <2>1. now' = now /\ UNCHANGED trackerVars
    BY <1>7 DEF reportingVars
  <2> QED BY <2>1, ClockPreserves
<1> QED BY <1>1, <1>2, <1>3, <1>4, <1>5, <1>6, <1>7 DEF ReportingNext, Next

LEMMA TrackerInvariance == ReportingSpec => []TrackerInv
  BY TrackerInitially, TrackerStep, PTL DEF ReportingSpec

(* The tracker's variables keep their types, whoever sees what when.       *)
THEOREM TrackerTypes == ReportingSpec => []TypeOK
<1>1. TrackerInv => TypeOK
  <2> SUFFICES ASSUME TrackerInv PROVE TypeOK
    OBVIOUS
  <2>1. added \in Nat /\ now \in Nat
    BY DEF TrackerInv, TrackerType
  <2>2. ASSUME NEW q \in Seq(AnyReading), \A i \in 1..Len(q) : q[i].id <= added
        PROVE  q \in Seq(ReadingType)
    <3>1. \A i \in 1..Len(q) : q[i] \in ReadingType
      <4> SUFFICES ASSUME NEW i \in 1..Len(q) PROVE q[i] \in ReadingType
        OBVIOUS
      <4>1. q[i] \in AnyReading /\ q[i].id \in 1..added
        <5>1. q[i] \in AnyReading /\ q[i].id <= added
          BY <2>2, ElementOfSeq
        <5> QED BY <2>1, <5>1 DEF AnyReading
      <4> QED BY <4>1 DEF AnyReading, ReadingType
    <3>2. Len(q) \in Nat /\ q = [i \in 1..Len(q) |-> q[i]]
      BY LenProperties
    <3> QED BY <3>1, <3>2, IsASeq
  <2>3. ASSUME NEW f \in AnyFinal, SoundFinal(f, added) PROVE f \in FinalType
    <3>1. f.readings \in Seq(ReadingType)
      BY <2>2, <2>3 DEF SoundFinal, AnyFinal
    <3>2. f.box \in 1..added /\ f.frame \in 1..added
      BY <2>1, <2>3 DEF SoundFinal, AnyFinal
    <3> QED BY <3>1, <3>2 DEF AnyFinal, FinalType
  <2>4. finals \subseteq FinalType
    BY <2>3 DEF TrackerInv, TrackerType, FinalsSound
  <2>5. log \in Seq(FinalType)
    <3>1. log \in Seq(AnyFinal)
      BY DEF TrackerInv, TrackerType
    <3>2. Len(log) \in Nat /\ log = [i \in 1..Len(log) |-> log[i]]
      BY <3>1, LenProperties
    <3>3. \A i \in 1..Len(log) : log[i] \in FinalType
      BY <2>3, <3>1, ElementOfSeq DEF TrackerInv, LogSound
    <3> QED BY <3>2, <3>3, IsASeq
  <2>6. ASSUME NEW i \in 1..Len(tracks)
        PROVE  /\ tracks[i].readings \in Seq(ReadingType) \ {<<>>}
               /\ 0 <= tracks[i].firstSeen /\ tracks[i].firstSeen <= tracks[i].lastSeen
               /\ tracks[i].lastSeen <= now
               /\ tracks[i].bestFrame \in 1..added /\ tracks[i].bestFrameConf \in Nat
    <3>1. tracks[i] \in OpenTrack /\ SoundTrack(tracks[i], now, added)
      BY ElementOfSeq DEF TrackerInv, TrackerType, TracksSound
    <3>2. tracks[i].readings \in Seq(ReadingType)
      BY <2>2, <3>1 DEF OpenTrack, SoundTrack
    <3>3. tracks[i].bestFrame <= added
      <4>1. PICK m : FirstStrongest(tracks[i].readings, m) /\ tracks[i].bestFrame = tracks[i].readings[m].id
        BY <3>1 DEF SoundTrack
      <4>2. m \in 1..Len(tracks[i].readings)
        BY <3>1, <4>1, LastReading DEF FirstStrongest
      <4> QED BY <3>1, <4>1, <4>2 DEF SoundTrack
    <3> QED BY <2>1, <3>1, <3>2, <3>3 DEF OpenTrack, SoundTrack
  <2> QED BY <2>4, <2>5, <2>6 DEF TrackerInv, TrackerType, TypeOK
<1> QED BY <1>1, TrackerInvariance, PTL

(* In a scene whose plates keep apart, a plate never has two open tracks   *)
(* and no track mixes two plates.                                          *)
THEOREM OnePlateOneTrack == ReportingSpec => []OneTrackPerPlate
<1>1. TrackerInv => OneTrackPerPlate
  BY DEF TrackerInv
<1> QED BY <1>1, TrackerInvariance, PTL

(* Every finished track, reported or not, is what its readings make of it. *)
LEMMA OutcomesAreSound ==
  ASSUME TrackerInv, NEW f \in Outcomes
  PROVE  /\ f.readings \in Seq(AnyReading)
         /\ f.text = Consolidate(f.readings) /\ f.frame = f.box
<1>1. f \in AnyFinal /\ SoundFinal(f, added)
  <2>1. CASE f \in finals
    BY <2>1 DEF TrackerInv, TrackerType, FinalsSound
  <2>2. CASE f \in {log[i] : i \in DOMAIN log}
    <3>1. log \in Seq(AnyFinal) /\ DOMAIN log = 1..Len(log)
      BY LenProperties DEF TrackerInv, TrackerType
    <3> QED BY <2>2, <3>1, ElementOfSeq DEF TrackerInv, LogSound
  <2> QED BY <2>1, <2>2 DEF Outcomes
<1> QED BY <1>1 DEF AnyFinal, SoundFinal

(* The image of a report is the frame its box was seen in.                 *)
THEOREM ImageAndBoxAgree == ReportingSpec => []ImageShowsBox
<1>1. TrackerInv => ImageShowsBox
  BY OutcomesAreSound DEF ImageShowsBox
<1> QED BY <1>1, TrackerInvariance, PTL

(* A text with more than half of a track's confidence is the one reported. *)
THEOREM MajorityIsReported == ReportingSpec => []MajorityWins
<1>1. TrackerInv => MajorityWins
  <2> SUFFICES ASSUME TrackerInv, NEW f \in Outcomes, NEW k \in DOMAIN f.readings,
                      2 * Total(f.readings, {i \in DOMAIN f.readings : f.readings[i].text = f.readings[k].text})
                        > Total(f.readings, DOMAIN f.readings)
               PROVE  f.text = f.readings[k].text
    BY DEF MajorityWins, Total, Weight
  <2>1. f.readings \in Seq(AnyReading) /\ f.text = Consolidate(f.readings)
    BY OutcomesAreSound
  <2> QED BY <2>1, MajorityDecides
<1> QED BY <1>1, TrackerInvariance, PTL

-----------------------------------------------------------------------------
(* The tracker keeps PlateLog's promise.                                   *)

OpenIds == {Ids(tracks[i].readings) : i \in DOMAIN tracks} \cup {Ids(f.readings) : f \in finals}
LogIds == [i \in DOMAIN log |-> Ids(log[i].readings)]

(* The readings of a track have numbers, of those that were given. *)
LEMMA IdsOfReadings ==
  ASSUME NEW q \in Seq(AnyReading), q # <<>>, NEW n \in Nat, \A i \in 1..Len(q) : q[i].id <= n
  PROVE  Ids(q) \subseteq 1..n /\ Ids(q) # {}
<1>1. DOMAIN q = 1..Len(q) /\ Len(q) \in Nat \ {0} /\ \A i \in 1..Len(q) : q[i] \in AnyReading
  BY LenProperties, EmptySeq, ElementOfSeq
<1>2. ASSUME NEW i \in 1..Len(q) PROVE q[i].id \in 1..n
  <2>1. q[i].id \in Nat \ {0} /\ q[i].id <= n
    BY <1>1 DEF AnyReading
  <2> QED BY <2>1
<1>3. 1 \in 1..Len(q)
  BY <1>1
<1> QED BY <1>1, <1>2, <1>3 DEF Ids

(* A reading is counted once: a track has as many numbers as readings, and *)
(* what was returned has enough of them.                                   *)
Numbered ==
    /\ \A i \in 1..Len(tracks) :
         Cardinality(Ids(tracks[i].readings)) = Len(tracks[i].readings)
    /\ \A f \in finals : Cardinality(Ids(f.readings)) >= MinSightings

LEMMA EnoughIs ==
  ASSUME NEW t
  PROVE  Promise!Enough(t) <=> Cardinality(t) >= MinSightings
BY Zenon DEF Promise!Enough, Promise!Cardinality, Cardinality

LEMMA AddNumbers ==
  ASSUME TrackerInv, Numbered, Add
  PROVE  Numbered'
<1>1. UNCHANGED finals /\ added \in Nat
  BY AddEffect DEF TrackerInv, TrackerType
<1>2. PICK s \in Sightings : Opens(s) \/ \E b \in 1..Len(tracks) : Joins(s, b)
  BY AddEffect DEF TrackerInv
<1>3. CASE Opens(s)
  <2>1. \A i \in 1..Len(tracks') : i \in 1..Len(tracks) \/ i = Len(tracks) + 1
    BY <1>3 DEF Opens
  <2>2. Cardinality(Ids(Opened(s).readings)) = Len(Opened(s).readings)
    <3>1. Ids(Opened(s).readings) = {added + 1} /\ Opened(s).readings = <<Reading(s)>>
      BY OpenedTrack DEF TrackerInv
    <3>2. Len(<<Reading(s)>>) = 1 /\ Cardinality({added + 1}) = 1
      BY FS_Singleton
    <3> QED BY <3>1, <3>2
  <2> QED BY <1>1, <1>3, <2>1, <2>2 DEF Numbered, Opens
<1>4. ASSUME NEW b \in 1..Len(tracks), Joins(s, b) PROVE Numbered'
  <2> DEFINE q == tracks[b].readings
             e == Extended(tracks[b], s).readings
  <2>1. tracks[b] \in OpenTrack /\ SoundTrack(tracks[b], now, added)
    BY ElementOfSeq DEF TrackerInv, TrackerType, TracksSound
  <2>2. e = Append(q, Reading(s)) /\ Ids(e) = Ids(q) \cup {added + 1}
    BY <2>1, ExtendedTrack DEF TrackerInv
  <2>3. q \in Seq(AnyReading) /\ Reading(s) \in AnyReading
    BY <2>1, LastReading, ReadingIsOne DEF TrackerInv
  <2>4. Len(e) = Len(q) + 1
    BY <2>2, <2>3, AppendProperties
  <2>5. added + 1 \notin Ids(q)
    BY NewNumber DEF TrackerInv
  <2>6. IsFiniteSet(Ids(q))
    <3>1. Ids(q) \in SUBSET (1..added)
      <4>1. q # <<>> /\ \A i \in 1..Len(q) : q[i].id <= added
        BY <2>1 DEF OpenTrack, SoundTrack
      <4> QED BY <1>1, <2>3, <4>1, IdsOfReadings
    <3>2. IsFiniteSet(1..added)
      BY <1>1, FS_Interval
    <3> QED BY <3>1, <3>2, FS_Subset
  <2>7. Cardinality(Ids(e)) = Cardinality(Ids(q)) + 1
    BY <2>2, <2>5, <2>6, FS_AddElement
  <2>8. Cardinality(Ids(q)) = Len(q)
    BY DEF Numbered
  <2>9. Cardinality(Ids(e)) = Len(e)
    BY <2>4, <2>7, <2>8
  <2> QED BY <1>1, <1>4, <2>9 DEF Numbered, Joins
<1> QED BY <1>2, <1>3, <1>4

LEMMA CloseNumbers ==
  ASSUME TrackerInv, Numbered, CollectFinalized \/ FlushAll
  PROVE  Numbered'
<1>1. PICK done, from : Closes(done, from)
  BY CollectCloses, FlushCloses DEF TrackerInv
<1>2. ASSUME NEW i \in 1..Len(tracks')
      PROVE  Cardinality(Ids(tracks'[i].readings)) = Len(tracks'[i].readings)
  BY <1>1 DEF Closes, Numbered
<1>3. ASSUME NEW f \in finals' PROVE Cardinality(Ids(f.readings)) >= MinSightings
  <2>1. PICK i \in done : f = Final(tracks[i])
    BY <1>1 DEF Closes
  <2>2. i \in 1..Len(tracks) /\ Len(tracks[i].readings) >= MinSightings
    BY <1>1 DEF Closes, Enough
  <2>3. f.readings = tracks[i].readings
    BY <2>1 DEF Final
  <2> QED BY <2>2, <2>3 DEF Numbered
<1> QED BY <1>2, <1>3 DEF Numbered

LEMMA NumberedInitially == ReportingInit => Numbered
<1> SUFFICES ASSUME Init PROVE Numbered
  BY DEF ReportingInit
<1>1. 1..Len(tracks) = {} /\ finals = {}
  BY EmptySeq DEF Init
<1> QED BY <1>1 DEF Numbered

LEMMA NumberedStep == TrackerInv /\ Numbered /\ [ReportingNext]_reportingVars => Numbered'
<1> SUFFICES ASSUME TrackerInv, Numbered, [ReportingNext]_reportingVars PROVE Numbered'
  OBVIOUS
<1>1. CASE Add
  BY <1>1, AddNumbers
<1>2. CASE CollectFinalized \/ FlushAll
  BY <1>2, CloseNumbers
<1>3. CASE tracks' = tracks /\ finals' \subseteq finals
  BY <1>3 DEF Numbered
<1>4. Report \/ End \/ Tick \/ UNCHANGED trackerVars \/ UNCHANGED reportingVars
        => tracks' = tracks /\ finals' \subseteq finals
  BY DEF Report, End, Tick, trackerVars, reportingVars
<1> QED BY <1>1, <1>2, <1>3, <1>4 DEF ReportingNext, Next

LEMMA MappedTypes ==
  ASSUME TrackerInv
  PROVE  /\ DOMAIN tracks = 1..Len(tracks)
         /\ OpenIds \subseteq SUBSET (1..added) /\ {} \notin OpenIds
         /\ LogIds \in Seq(SUBSET (1..added)) /\ Len(LogIds) = Len(log)
         /\ \A i \in 1..Len(log) : LogIds[i] = Ids(log[i].readings)
         /\ Promise!Known \subseteq 1..added
<1>1. added \in Nat /\ DOMAIN tracks = 1..Len(tracks)
  BY LenProperties DEF TrackerInv, TrackerType
<1>2. ASSUME NEW i \in 1..Len(tracks)
      PROVE  Ids(tracks[i].readings) \subseteq 1..added /\ Ids(tracks[i].readings) # {}
  <2>1. tracks[i] \in OpenTrack /\ SoundTrack(tracks[i], now, added)
    BY ElementOfSeq DEF TrackerInv, TrackerType, TracksSound
  <2>2. /\ tracks[i].readings \in Seq(AnyReading) /\ tracks[i].readings # <<>>
        /\ \A k \in 1..Len(tracks[i].readings) : tracks[i].readings[k].id <= added
    BY <2>1 DEF OpenTrack, SoundTrack
  <2> QED BY <1>1, <2>2, IdsOfReadings
<1>3. ASSUME NEW f \in AnyFinal, SoundFinal(f, added)
      PROVE  Ids(f.readings) \subseteq 1..added /\ Ids(f.readings) # {}
  <2>1. /\ f.readings \in Seq(AnyReading) /\ f.readings # <<>>
        /\ \A k \in 1..Len(f.readings) : f.readings[k].id <= added
    BY <1>3 DEF AnyFinal, SoundFinal
  <2> QED BY <1>1, <2>1, IdsOfReadings
<1>4. OpenIds \subseteq SUBSET (1..added) /\ {} \notin OpenIds
  <2>1. \A f \in finals : f \in AnyFinal /\ SoundFinal(f, added)
    BY DEF TrackerInv, TrackerType, FinalsSound
  <2> QED BY <1>1, <1>2, <1>3, <2>1 DEF OpenIds
<1>5. log \in Seq(AnyFinal) /\ Len(log) \in Nat /\ DOMAIN log = 1..Len(log)
  BY LenProperties DEF TrackerInv, TrackerType
<1>6. \A i \in 1..Len(log) : Ids(log[i].readings) \in SUBSET (1..added)
  <2>1. \A i \in 1..Len(log) : log[i] \in AnyFinal /\ SoundFinal(log[i], added)
    BY <1>5, ElementOfSeq DEF TrackerInv, LogSound
  <2> QED BY <1>3, <2>1
<1>7. LogIds = [i \in 1..Len(log) |-> Ids(log[i].readings)]
  BY <1>5 DEF LogIds
<1>8. LogIds \in Seq(SUBSET (1..added))
  <2> DEFINE g == [i \in 1..Len(log) |-> Ids(log[i].readings)]
  <2>1. g \in Seq(SUBSET (1..added))
    BY <1>5, <1>6, IsASeq
  <2> QED BY <1>7, <2>1
<1>9. Len(LogIds) = Len(log)
  <2>1. DOMAIN LogIds = 1..Len(LogIds) /\ Len(LogIds) \in Nat
    BY <1>8, LenProperties
  <2>2. DOMAIN LogIds = 1..Len(log)
    BY <1>7
  <2> DEFINE a == Len(LogIds)
             b == Len(log)
  <2>3. a \in Nat /\ b \in Nat /\ 1..a = 1..b
    BY <1>5, <2>1, <2>2
  <2> HIDE DEF a, b
  <2>4. (a = 0 \/ a \in 1..a) /\ (b = 0 \/ b \in 1..b)
    BY <2>3
  <2>5. (a = 0 \/ a \in 1..b) /\ (b = 0 \/ b \in 1..a)
    BY <2>3, <2>4
  <2>6. a = b
    BY <2>3, <2>5
  <2> QED BY <2>6 DEF a, b
<1>10. Promise!Known = (UNION OpenIds) \cup UNION {LogIds[i] : i \in 1..Len(LogIds)}
  BY DEF Promise!Known, OpenIds, LogIds
<1>11. Promise!Known \subseteq 1..added
  <2>1. \A i \in 1..Len(LogIds) : LogIds[i] \subseteq 1..added
    BY <1>6, <1>7, <1>9
  <2>2. UNION OpenIds \subseteq 1..added
    BY <1>4
  <2>3. UNION {LogIds[i] : i \in 1..Len(LogIds)} \subseteq 1..added
    BY <2>1
  <2> QED BY <1>10, <2>2, <2>3
<1> QED BY <1>1, <1>4, <1>7, <1>8, <1>9, <1>11

(* A new reading is observed. *)
LEMMA AddObserves ==
  ASSUME TrackerInv, Add
  PROVE  Promise!Observe
<1> DEFINE r == added + 1
           n == Len(tracks)
           ids(i) == Ids(tracks[i].readings)
           F == {Ids(f.readings) : f \in finals}
<1>1. /\ added' = added + 1 /\ added < MaxReadings /\ phase = "running" /\ added \in Nat
      /\ UNCHANGED <<now, finals, phase, log>>
  BY AddEffect DEF TrackerInv, TrackerType
<1>2. PICK s \in Sightings : Opens(s) \/ \E b \in 1..n : Joins(s, b)
  BY AddEffect DEF TrackerInv
<1>3. r \in (1..MaxReadings) \ Promise!Known
  <2>1. r \notin 1..added /\ r \in 1..MaxReadings
    BY <1>1, TrackerAssumption
  <2> QED BY <2>1, MappedTypes
<1>4. TrackerInv'
  BY AddPreserves
<1>5. DOMAIN tracks = 1..n /\ DOMAIN tracks' = 1..Len(tracks')
  <2>1. tracks' \in Seq(OpenTrack)
    BY <1>4 DEF TrackerInv, TrackerType
  <2> QED BY <2>1, MappedTypes, LenProperties
<1>6. OpenIds = {ids(i) : i \in 1..n} \cup F
  BY <1>5 DEF OpenIds
<1>7. OpenIds' = {Ids(tracks'[i].readings) : i \in 1..Len(tracks')} \cup F
  BY <1>1, <1>5 DEF OpenIds
<1>8. \/ OpenIds' = OpenIds \cup {{r}}
      \/ \E t \in OpenIds : OpenIds' = (OpenIds \ {t}) \cup {t \cup {r}}
  <2>1. CASE Opens(s)
    <3>1. /\ \A i \in 1..n : Ids(tracks'[i].readings) = ids(i) /\ i \in 1..Len(tracks')
          /\ Ids(tracks'[n + 1].readings) = {r} /\ n + 1 \in 1..Len(tracks')
      BY <2>1, OpenedTrack DEF Opens, TrackerInv
    <3>2. \A i \in 1..Len(tracks') : i \in 1..n \/ i = n + 1
      BY <2>1 DEF Opens
    <3> HIDE DEF ids, F, n
    <3> QED BY <1>6, <1>7, <3>1, <3>2
  <2>2. ASSUME NEW b \in 1..n, Joins(s, b)
        PROVE  \E t \in OpenIds : OpenIds' = (OpenIds \ {t}) \cup {t \cup {r}}
    <3>1. tracks[b] \in OpenTrack /\ SoundTrack(tracks[b], now, added)
      BY ElementOfSeq DEF TrackerInv, TrackerType, TracksSound
    <3>2. Ids(Extended(tracks[b], s).readings) = ids(b) \cup {r}
      BY <3>1, ExtendedTrack DEF TrackerInv
    <3>3. /\ Len(tracks') = n
          /\ \A i \in 1..n : Ids(tracks'[i].readings) = IF i = b THEN ids(b) \cup {r} ELSE ids(i)
      BY <2>2, <3>2 DEF Joins
    <3>4. ids(b) \in OpenIds /\ ids(b) # {}
      BY <1>6, MappedTypes
    <3>5. /\ \A i \in 1..n : i # b => ids(i) \cap ids(b) = {}
          /\ \A x \in F : x \cap ids(b) = {}
      <4>1. ReadingsApart
        BY DEF TrackerInv
      <4>2. \A i \in 1..n : i # b => ids(i) \cap ids(b) = {}
        BY <4>1 DEF ReadingsApart
      <4>3. \A f \in finals : ids(b) \cap Ids(f.readings) = {}
        BY <4>1 DEF ReadingsApart
      <4> QED BY <4>2, <4>3
    <3> HIDE DEF ids, F, n
    <3>6. OpenIds \ {ids(b)} = {ids(i) : i \in {j \in 1..n : j # b}} \cup F
      BY <1>6, <3>4, <3>5
    <3>7. {Ids(tracks'[i].readings) : i \in 1..n}
            = {ids(i) : i \in {j \in 1..n : j # b}} \cup {ids(b) \cup {r}}
      BY <3>3
    <3>8. OpenIds' = (OpenIds \ {ids(b)}) \cup {ids(b) \cup {r}}
      BY <1>7, <3>3, <3>6, <3>7
    <3> QED BY <3>4, <3>8
  <2> QED BY <1>2, <2>1, <2>2
<1>9. LogIds' = LogIds
  BY <1>1 DEF LogIds
<1> HIDE DEF r
<1> QED BY <1>1, <1>3, <1>8, <1>9 DEF Promise!Observe, OpenIds, LogIds

(* Finished and abandoned tracks: nothing new is open, and of what is no   *)
(* longer open nothing had enough sightings.                               *)
LEMMA ClosingForgets ==
  ASSUME TrackerInv, Numbered, CollectFinalized \/ FlushAll
  PROVE  Promise!Forget
<1>1. PICK done, from : Closes(done, from)
  BY CollectCloses, FlushCloses DEF TrackerInv
<1>2. TrackerInv'
  BY ClosePreserves
<1>3. DOMAIN tracks = 1..Len(tracks) /\ DOMAIN tracks' = 1..Len(tracks')
  <2>1. tracks' \in Seq(OpenTrack)
    BY <1>2 DEF TrackerInv, TrackerType
  <2> QED BY <2>1, MappedTypes, LenProperties
<1>4. /\ done \in SUBSET (1..Len(tracks)) /\ log' = log /\ phase = "running"
      /\ finals' = {Final(tracks[i]) : i \in done}
      /\ \A i \in 1..Len(tracks') : from[i] \in 1..Len(tracks) /\ tracks'[i] = tracks[from[i]]
  BY <1>1 DEF Closes
<1>5. phase' # "over"
  BY <1>4 DEF CollectFinalized, FlushAll
<1>6. OpenIds' \subseteq OpenIds
  <2>1. ASSUME NEW f \in finals' PROVE Ids(f.readings) \in OpenIds
    <3>1. PICK i \in done : f = Final(tracks[i])
      BY <1>4
    <3>2. f.readings = tracks[i].readings
      BY <3>1 DEF Final
    <3> QED BY <1>3, <1>4, <3>2 DEF OpenIds
  <2>2. ASSUME NEW i \in 1..Len(tracks') PROVE Ids(tracks'[i].readings) \in OpenIds
    BY <1>3, <1>4 DEF OpenIds
  <2> QED BY <1>3, <2>1, <2>2 DEF OpenIds
<1>7. LogIds' = LogIds
  BY <1>4 DEF LogIds
<1>8. ASSUME NEW t \in OpenIds, Promise!Enough(t) PROVE t \in OpenIds'
  <2>1. finals = {}
    BY <1>1 DEF Closes
  <2>2. PICK i \in 1..Len(tracks) : t = Ids(tracks[i].readings)
    BY <1>3, <2>1 DEF OpenIds
  <2>3. Cardinality(t) >= MinSightings
    BY <1>8, EnoughIs
  <2>4. Enough(tracks[i])
    BY <2>2, <2>3 DEF Numbered, Enough
  <2>5. CASE i \in done
    <3>1. Final(tracks[i]) \in finals' /\ Final(tracks[i]).readings = tracks[i].readings
      BY <1>4, <2>5 DEF Final
    <3> QED BY <2>2, <3>1 DEF OpenIds
  <2>6. CASE i \notin done
    <3>1. PICK k \in 1..Len(tracks') : from[k] = i
      BY <1>1, <2>4, <2>6 DEF Closes
    <3> QED BY <1>3, <1>4, <2>2, <3>1 DEF OpenIds
  <2> QED BY <2>5, <2>6
<1> QED BY <1>4, <1>5, <1>6, <1>7, <1>8 DEF Promise!Forget, OpenIds, LogIds

(* A report takes one track, of enough readings, from those that were open. *)
LEMMA ReportReports ==
  ASSUME TrackerInv, Numbered, Report
  PROVE  Promise!Report
<1>1. PICK f \in finals : log' = Append(log, f) /\ finals' = finals \ {f}
  BY DEF Report
<1>2. UNCHANGED <<now, tracks, phase, added>> /\ phase # "over"
  BY <1>1 DEF Report, TrackerInv, PhasesInOrder
<1> DEFINE t == Ids(f.readings)
           T == {Ids(tracks[i].readings) : i \in DOMAIN tracks}
<1>3. t \in OpenIds /\ t # {} /\ t \in SUBSET (1..added)
  BY MappedTypes DEF OpenIds
<1>4. OpenIds' = OpenIds \ {t}
  <2>1. \A x \in T : x \cap t = {}
    <3>1. DOMAIN tracks = 1..Len(tracks)
      BY MappedTypes
    <3> QED BY <3>1 DEF TrackerInv, ReadingsApart
  <2>2. \A h \in finals : h # f => Ids(h.readings) \cap t = {}
    BY DEF TrackerInv, ReadingsApart
  <2>3. OpenIds = T \cup {Ids(h.readings) : h \in finals}
    BY DEF OpenIds
  <2>4. OpenIds' = T \cup {Ids(h.readings) : h \in finals \ {f}}
    BY <1>1, <1>2 DEF OpenIds
  <2> HIDE DEF T
  <2>5. \A x \in T : x # t
    BY <1>3, <2>1
  <2>6. \A h \in finals \ {f} : Ids(h.readings) # t
    BY <1>3, <2>2
  <2> QED BY <2>3, <2>4, <2>5, <2>6
<1>5. LogIds' = Append(LogIds, t)
  <2>1. log \in Seq(AnyFinal) /\ f \in AnyFinal
    BY DEF TrackerInv, TrackerType
  <2>2. /\ log' \in Seq(AnyFinal) /\ Len(log) \in Nat /\ Len(log') = Len(log) + 1
        /\ \A i \in 1..Len(log) : log'[i] = log[i]
        /\ log'[Len(log) + 1] = f
    BY <1>1, <2>1, AppendProperties, LenProperties
  <2>3. /\ LogIds \in Seq(SUBSET (1..added)) /\ Len(LogIds) = Len(log)
        /\ \A i \in 1..Len(log) : LogIds[i] = Ids(log[i].readings)
    BY MappedTypes
  <2> DEFINE a == Append(LogIds, t)
  <2> HIDE DEF t
  <2>4. /\ a \in Seq(SUBSET (1..added)) /\ Len(a) = Len(log) + 1
        /\ \A i \in 1..Len(log) : a[i] = Ids(log[i].readings)
        /\ a[Len(log) + 1] = t
    BY <1>3, <2>3, AppendProperties
  <2>5. LogIds' = [i \in 1..(Len(log) + 1) |-> Ids(log'[i].readings)]
    <3>1. DOMAIN log' = 1..Len(log')
      BY <2>2, LenProperties
    <3> QED BY <2>2, <3>1 DEF LogIds
  <2>6. \A i \in 1..(Len(log) + 1) : a[i] = Ids(log'[i].readings)
    <3>1. \A i \in 1..(Len(log) + 1) : i \in 1..Len(log) \/ i = Len(log) + 1
      BY <2>2
    <3> QED BY <2>2, <2>4, <3>1 DEF t
  <2>7. a = [i \in 1..(Len(log) + 1) |-> a[i]]
    BY <2>4, LenProperties
  <2> QED BY <2>5, <2>6, <2>7
<1>6. Promise!Enough(t)
  BY EnoughIs DEF Numbered
<1> HIDE DEF t
<1> QED BY <1>2, <1>3, <1>4, <1>5, <1>6 DEF Promise!Report, OpenIds, LogIds

(* The end: nothing is open. *)
LEMMA EndEnds ==
  ASSUME TrackerInv, End
  PROVE  Promise!End
<1>1. tracks = <<>> /\ finals = {} /\ phase' = "over" /\ UNCHANGED <<now, tracks, finals, added, log>>
  BY DEF End, TrackerInv, PhasesInOrder
<1>2. DOMAIN tracks = {}
  BY <1>1
<1>3. OpenIds = {}
  BY <1>1, <1>2 DEF OpenIds
<1> QED BY <1>1, <1>3 DEF Promise!End, OpenIds

(* The tracker implements PlateLog: a reading is in one track, a track     *)
(* with enough of them is kept until it is reported, once, no other one    *)
(* is, and at the end none is left open.                                   *)
THEOREM TrackerKeepsPromise == ReportingSpec => KeepsPromise
<1>1. ReportingInit => Promise!Init
  <2> SUFFICES ASSUME Init PROVE Promise!Init
    BY DEF ReportingInit
  <2>1. tracks = <<>> /\ finals = {} /\ log = <<>> /\ phase = "running"
    BY DEF Init
  <2>2. DOMAIN tracks = {} /\ DOMAIN log = {}
    BY <2>1
  <2>3. [i \in {} |-> Ids(log[i].readings)] = <<>>
    OBVIOUS
  <2> QED BY <2>1, <2>2, <2>3 DEF Promise!Init
<1>2. TrackerInv /\ Numbered /\ [ReportingNext]_reportingVars => [Promise!Next]_(Promise!vars)
  <2> SUFFICES ASSUME TrackerInv, Numbered, [ReportingNext]_reportingVars
               PROVE  [Promise!Next]_(Promise!vars)
    OBVIOUS
  <2>1. CASE Add
    BY <2>1, AddObserves DEF Promise!Next
  <2>2. CASE CollectFinalized \/ FlushAll
    BY <2>2, ClosingForgets DEF Promise!Next
  <2>3. CASE Report
    BY <2>3, ReportReports DEF Promise!Next
  <2>4. CASE End
    BY <2>4, EndEnds DEF Promise!Next
  <2>5. CASE UNCHANGED trackerVars
    BY <2>5 DEF trackerVars, Promise!vars
  <2>6. Tick \/ UNCHANGED reportingVars => UNCHANGED trackerVars
    BY DEF Tick, reportingVars, trackerVars
  <2> QED BY <2>1, <2>2, <2>3, <2>4, <2>5, <2>6 DEF ReportingNext, Next
<1>3. ReportingSpec => []Numbered
  BY TrackerInvariance, NumberedInitially, NumberedStep, PTL DEF ReportingSpec
<1> QED BY <1>1, <1>2, <1>3, TrackerInvariance, PTL DEF ReportingSpec, KeepsPromise, Promise!Spec

-----------------------------------------------------------------------------
(* The edit distance counts edits.                                         *)

(* A cell of the table is the least of three numbers. *)
IsLeast(x, up, left, corner, cost) ==
    /\ x <= up + 1 /\ x <= left + 1 /\ x <= corner + cost
    /\ x = up + 1 \/ x = left + 1 \/ x = corner + cost

LEMMA CellIsLeast ==
  ASSUME NEW up \in Nat, NEW left \in Nat, NEW corner \in Nat, NEW cost \in Nat
  PROVE  IsLeast(Cell(up, left, corner, cost), up, left, corner, cost)
<1> DEFINE S == {up + 1, left + 1, corner + cost}
<1>1. S \subseteq Nat /\ S # {}
  OBVIOUS
<1>2. Min(S) \in S /\ \A y \in S : Min(S) <= y
  <2> HIDE DEF S
  <2> QED BY <1>1, MinOfNumbers
<1>3. Cell(up, left, corner, cost) = Min(S)
  BY DEF Cell
<1> DEFINE x == Min(S)
<1>4. x \in S /\ \A y \in S : x <= y
  BY <1>2
<1> HIDE DEF x
<1> QED BY <1>3, <1>4 DEF IsLeast, x

LEMMA TableCells ==
  ASSUME NEW a, NEW b, Len(a) \in Nat, Len(b) \in Nat, NEW T, IsTable(T, a, b),
         NEW i \in 1..Len(a), NEW j \in 1..Len(b)
  PROVE  IsLeast(T[i][j], T[i - 1][j], T[i][j - 1], T[i - 1][j - 1], Cost(a[i], b[j]))
<1>1. i \in 0..Len(a) /\ i - 1 \in 0..Len(a) /\ j \in 0..Len(b) /\ j - 1 \in 0..Len(b)
  OBVIOUS
<1>2. T[i - 1][j] \in Nat /\ T[i][j - 1] \in Nat /\ T[i - 1][j - 1] \in Nat
  <2>1. \A k \in 0..Len(a), l \in 0..Len(b) : T[k][l] \in Nat
    BY DEF IsTable
  <2> QED BY <1>1, <2>1
<1>3. T[i][j] = Cell(T[i - 1][j], T[i][j - 1], T[i - 1][j - 1], Cost(a[i], b[j]))
  BY DEF IsTable
<1>4. Cost(a[i], b[j]) \in Nat
  BY CostType
<1>5. IsLeast(Cell(T[i - 1][j], T[i][j - 1], T[i - 1][j - 1], Cost(a[i], b[j])),
              T[i - 1][j], T[i][j - 1], T[i - 1][j - 1], Cost(a[i], b[j]))
  BY <1>2, <1>4, CellIsLeast
<1> QED BY <1>3, <1>5

LEMMA TableNumbers ==
  ASSUME NEW a, NEW b, NEW T, IsTable(T, a, b), NEW i \in 0..Len(a), NEW j \in 0..Len(b)
  PROVE  T[i][j] \in Nat
  BY DEF IsTable

(* What holds of a cell when it holds of all above and to the left of it   *)
(* holds of every cell.                                                    *)
Hereditary(G, n, m) ==
    \A i \in 0..n, j \in 0..m :
      (\A k \in 0..n, l \in 0..m : k + l < i + j => <<k, l>> \in G) => <<i, j>> \in G

LEMMA TableInduction ==
  ASSUME NEW n \in Nat, NEW m \in Nat, NEW G, Hereditary(G, n, m),
         NEW i \in 0..n, NEW j \in 0..m
  PROVE  <<i, j>> \in G
<1> DEFINE Good == {s \in Nat : \A k \in 0..n, l \in 0..m : k + l <= s => <<k, l>> \in G}
<1>1. 0 \in Good
  <2> SUFFICES ASSUME NEW k \in 0..n, NEW l \in 0..m, k + l <= 0 PROVE <<k, l>> \in G
    OBVIOUS
  <2>1. \A k2 \in 0..n, l2 \in 0..m : ~(k2 + l2 < k + l)
    OBVIOUS
  <2> QED BY <2>1 DEF Hereditary
<1>2. ASSUME NEW s \in Nat, s \in Good PROVE s + 1 \in Good
  <2> SUFFICES ASSUME NEW k \in 0..n, NEW l \in 0..m, k + l <= s + 1 PROVE <<k, l>> \in G
    OBVIOUS
  <2>1. ASSUME NEW k2 \in 0..n, NEW l2 \in 0..m, k2 + l2 < k + l PROVE <<k2, l2>> \in G
    BY <1>2, <2>1
  <2> QED BY <2>1 DEF Hereditary
<1>3. Nat \subseteq Good
  <2> HIDE DEF Good
  <2> QED BY <1>1, <1>2, NatInductionSet
<1>4. i + j \in Nat
  OBVIOUS
<1> QED BY <1>3, <1>4

(* The texts agree in their first p characters. *)
Agree(u, v, p) == \A j \in 1..p : u[j] = v[j]

(* Two tables of the same first text agree where the second texts do. *)
LEMMA SamePrefix ==
  ASSUME NEW a, NEW u, NEW v, Len(a) \in Nat, Len(u) \in Nat, Len(v) \in Nat,
         NEW T, IsTable(T, a, u), NEW R, IsTable(R, a, v),
         NEW p \in Nat, p <= Len(u), p <= Len(v), Agree(u, v, p),
         NEW i \in 0..Len(a)
  PROVE  R[i][p] = T[i][p]
<1> DEFINE n == Len(a)
           G == {c \in (0..n) \X (0..p) : R[c[1]][c[2]] = T[c[1]][c[2]]}
<1>1. ASSUME NEW k \in 0..n, NEW l \in 0..p,
             \A k2 \in 0..n, l2 \in 0..p : k2 + l2 < k + l => <<k2, l2>> \in G
      PROVE  <<k, l>> \in G
  <2>0. \A k2 \in 0..n, l2 \in 0..p : k2 + l2 < k + l => R[k2][l2] = T[k2][l2]
    BY <1>1
  <2>1. l \in 0..Len(u) /\ l \in 0..Len(v)
    OBVIOUS
  <2>2. CASE k = 0
    BY <2>1, <2>2 DEF IsTable
  <2>3. CASE l = 0
    BY <2>1, <2>3 DEF IsTable
  <2>4. CASE k # 0 /\ l # 0
    <3>1. /\ k \in 1..n /\ l \in 1..Len(u) /\ l \in 1..Len(v) /\ l \in 1..p
          /\ k - 1 \in 0..n /\ l - 1 \in 0..p
          /\ (k - 1) + l < k + l /\ k + (l - 1) < k + l /\ (k - 1) + (l - 1) < k + l
      BY <2>1, <2>4
    <3>2. R[k - 1][l] = T[k - 1][l] /\ R[k][l - 1] = T[k][l - 1] /\ R[k - 1][l - 1] = T[k - 1][l - 1]
      BY <2>0, <3>1
    <3>3. T[k][l] = Cell(T[k - 1][l], T[k][l - 1], T[k - 1][l - 1], Cost(a[k], u[l]))
      BY <3>1 DEF IsTable
    <3>4. R[k][l] = Cell(R[k - 1][l], R[k][l - 1], R[k - 1][l - 1], Cost(a[k], v[l]))
      BY <3>1 DEF IsTable
    <3>5. u[l] = v[l]
      BY <3>1 DEF Agree
    <3> QED BY <3>2, <3>3, <3>4, <3>5
  <2> QED BY <2>2, <2>3, <2>4
<1>2. Hereditary(G, n, p)
  <2> HIDE DEF G
  <2> QED BY <1>1 DEF Hereditary
<1>3. <<i, p>> \in G
  <2>1. p \in 0..p
    OBVIOUS
  <2> HIDE DEF G
  <2> QED BY <1>2, <2>1, TableInduction
<1> QED BY <1>3

(* Neighbours in a row differ by at most one. *)
LEMMA Neighbours ==
  ASSUME NEW a, NEW u, Len(a) \in Nat, Len(u) \in Nat, NEW T, IsTable(T, a, u),
         NEW i \in 0..Len(a), NEW j \in 1..Len(u)
  PROVE  T[i][j - 1] <= T[i][j] + 1
<1> DEFINE n == Len(a)
           Good == {k \in Nat : k <= n => \A l \in 1..Len(u) : T[k][l - 1] <= T[k][l] + 1}
<1>1. 0 \in Good
  <2> SUFFICES ASSUME NEW l \in 1..Len(u) PROVE T[0][l - 1] <= T[0][l] + 1
    OBVIOUS
  <2>1. T[0][l - 1] = l - 1 /\ T[0][l] = l
    BY DEF IsTable
  <2> QED BY <2>1
<1>2. ASSUME NEW k \in Nat, k \in Good PROVE k + 1 \in Good
  <2> SUFFICES ASSUME k + 1 <= n, NEW l \in 1..Len(u) PROVE T[k + 1][l - 1] <= T[k + 1][l] + 1
    OBVIOUS
  <2>1. /\ k + 1 \in 1..n /\ k + 1 \in 0..n /\ k \in 0..n /\ (k + 1) - 1 = k
        /\ l \in 0..Len(u) /\ l - 1 \in 0..Len(u)
    OBVIOUS
  <2>2. T[k][l - 1] <= T[k][l] + 1
    BY <1>2, <2>1
  <2>3. /\ T[k][l - 1] \in Nat /\ T[k][l] \in Nat
        /\ T[k + 1][l - 1] \in Nat /\ T[k + 1][l] \in Nat
    BY <2>1, TableNumbers
  <2>4. T[k + 1][l - 1] <= T[k][l - 1] + 1
    <3>1. CASE l = 1
      <4>1. T[k + 1][0] = k + 1 /\ T[k][0] = k
        BY <2>1 DEF IsTable
      <4> QED BY <3>1, <4>1
    <3>2. CASE l # 1
      <4>1. l - 1 \in 1..Len(u)
        BY <3>2
      <4>2. IsLeast(T[k + 1][l - 1], T[(k + 1) - 1][l - 1], T[k + 1][(l - 1) - 1],
                    T[(k + 1) - 1][(l - 1) - 1], Cost(a[k + 1], u[l - 1]))
        BY <2>1, <4>1, TableCells
      <4> QED BY <2>1, <4>2 DEF IsLeast
    <3> QED BY <3>1, <3>2
  <2>5. IsLeast(T[k + 1][l], T[k][l], T[k + 1][l - 1], T[k][l - 1], Cost(a[k + 1], u[l]))
    <3>1. IsLeast(T[k + 1][l], T[(k + 1) - 1][l], T[k + 1][l - 1], T[(k + 1) - 1][l - 1],
                  Cost(a[k + 1], u[l]))
      BY <2>1, TableCells
    <3> QED BY <2>1, <3>1
  <2>6. Cost(a[k + 1], u[l]) \in Nat
    BY CostType
  <2>7. ASSUME NEW x \in Nat, NEW left \in Nat, NEW up \in Nat, NEW corner \in Nat, NEW cost \in Nat,
               IsLeast(x, up, left, corner, cost), corner <= up + 1, left <= corner + 1
        PROVE  left <= x + 1
    BY <2>7 DEF IsLeast
  <2> DEFINE x == T[k + 1][l]
             left == T[k + 1][l - 1]
             up == T[k][l]
             corner == T[k][l - 1]
             cost == Cost(a[k + 1], u[l])
  <2>8. /\ x \in Nat /\ left \in Nat /\ up \in Nat /\ corner \in Nat /\ cost \in Nat
        /\ IsLeast(x, up, left, corner, cost) /\ corner <= up + 1 /\ left <= corner + 1
    BY <2>2, <2>3, <2>4, <2>5, <2>6
  <2> HIDE DEF x, left, up, corner, cost
  <2>9. left <= x + 1
    BY <2>7, <2>8
  <2> QED BY <2>9 DEF x, left
<1>3. Nat \subseteq Good
  <2> HIDE DEF Good
  <2> QED BY <1>1, <1>2, NatInductionSet
<1> QED BY <1>3

(* A cell is at most one more than its like, when the three it is made of  *)
(* are at most one more than theirs and the costs are the same.            *)
LEMMA OneMore ==
  ASSUME NEW x \in Nat, NEW up \in Nat, NEW left \in Nat, NEW corner \in Nat, NEW cost \in Nat,
         NEW x2 \in Nat, NEW up2 \in Nat, NEW left2 \in Nat, NEW corner2 \in Nat,
         IsLeast(x, up, left, corner, cost), IsLeast(x2, up2, left2, corner2, cost),
         up2 <= up + 1, left2 <= left + 1, corner2 <= corner + 1
  PROVE  x2 <= x + 1
BY DEF IsLeast

(* From columns p of the one and q of the other on the texts agree. *)
LEMMA SameTail ==
  ASSUME NEW a, NEW u, NEW v, Len(a) \in Nat, Len(u) \in Nat, Len(v) \in Nat,
         NEW T, IsTable(T, a, u), NEW R, IsTable(R, a, v),
         NEW p \in 0..Len(u), NEW q \in 0..Len(v), NEW m \in Nat, Len(u) = p + m, Len(v) = q + m,
         \A t \in 1..m : u[p + t] = v[q + t], q <= p + 1,
         \A i \in 0..Len(a) : R[i][q] <= T[i][p] + 1
  PROVE  R[Len(a)][Len(v)] <= T[Len(a)][Len(u)] + 1
<1> DEFINE n == Len(a)
           G == {c \in (0..n) \X (0..m) : R[c[1]][q + c[2]] <= T[c[1]][p + c[2]] + 1}
<1>1. ASSUME NEW k \in 0..n, NEW l \in 0..m,
             \A k2 \in 0..n, l2 \in 0..m : k2 + l2 < k + l => <<k2, l2>> \in G
      PROVE  <<k, l>> \in G
  <2>0. \A k2 \in 0..n, l2 \in 0..m : k2 + l2 < k + l => R[k2][q + l2] <= T[k2][p + l2] + 1
    BY <1>1
  <2>1. q + l \in 0..Len(v) /\ p + l \in 0..Len(u)
    OBVIOUS
  <2> SUFFICES R[k][q + l] <= T[k][p + l] + 1
    OBVIOUS
  <2>2. CASE k = 0
    <3>1. R[k][q + l] = q + l /\ T[k][p + l] = p + l
      BY <2>1, <2>2 DEF IsTable
    <3> QED BY <3>1
  <2>3. CASE l = 0
    <3>1. q + l = q /\ p + l = p
      BY <2>3
    <3> QED BY <3>1
  <2>4. CASE k # 0 /\ l # 0
    <3>1. /\ k \in 1..n /\ l \in 1..m /\ p + l \in 1..Len(u) /\ q + l \in 1..Len(v)
          /\ k - 1 \in 0..n /\ l - 1 \in 0..m
          /\ (k - 1) + l < k + l /\ k + (l - 1) < k + l /\ (k - 1) + (l - 1) < k + l
          /\ (p + l) - 1 = p + (l - 1) /\ (q + l) - 1 = q + (l - 1)
          /\ (p + l) - 1 \in 0..Len(u) /\ (q + l) - 1 \in 0..Len(v)
      BY <2>1, <2>4
    <3> DEFINE x == T[k][p + l]
               up == T[k - 1][p + l]
               left == T[k][(p + l) - 1]
               corner == T[k - 1][(p + l) - 1]
               x2 == R[k][q + l]
               up2 == R[k - 1][q + l]
               left2 == R[k][(q + l) - 1]
               corner2 == R[k - 1][(q + l) - 1]
               cost == Cost(a[k], u[p + l])
    <3>2. up2 <= up + 1 /\ left2 <= left + 1 /\ corner2 <= corner + 1
      BY <2>0, <3>1
    <3>3. x \in Nat /\ up \in Nat /\ left \in Nat /\ corner \in Nat /\ cost \in Nat
      BY <2>1, <3>1, TableNumbers, CostType
    <3>4. x2 \in Nat /\ up2 \in Nat /\ left2 \in Nat /\ corner2 \in Nat
      BY <2>1, <3>1, TableNumbers
    <3>5. IsLeast(x, up, left, corner, cost)
      BY <3>1, TableCells
    <3>6. IsLeast(x2, up2, left2, corner2, Cost(a[k], v[q + l]))
      BY <3>1, TableCells
    <3>7. u[p + l] = v[q + l]
      BY <3>1
    <3>8. IsLeast(x2, up2, left2, corner2, cost)
      BY <3>6, <3>7
    <3> HIDE DEF x, up, left, corner, x2, up2, left2, corner2, cost
    <3>9. x2 <= x + 1
      BY <3>2, <3>3, <3>4, <3>5, <3>8, OneMore
    <3> QED BY <3>9 DEF x, x2
  <2> QED BY <2>2, <2>3, <2>4
<1>2. Hereditary(G, n, m)
  <2> HIDE DEF G
  <2> QED BY <1>1 DEF Hereditary
<1>3. <<n, m>> \in G
  <2>1. n \in 0..n /\ m \in 0..m
    OBVIOUS
  <2> HIDE DEF G
  <2> QED BY <1>2, <2>1, TableInduction
<1> QED BY <1>3

(* Another character in column p changes that column by at most one. *)
LEMMA OtherCharacter ==
  ASSUME NEW a, NEW u, NEW v, Len(a) \in Nat, Len(u) \in Nat, Len(v) \in Nat,
         NEW T, IsTable(T, a, u), NEW R, IsTable(R, a, v),
         NEW p \in 1..Len(u), p <= Len(v), \A j \in 1..(p - 1) : u[j] = v[j],
         NEW i \in 0..Len(a)
  PROVE  R[i][p] <= T[i][p] + 1
<1> DEFINE n == Len(a)
           Good == {k \in Nat : k <= n => R[k][p] <= T[k][p] + 1}
<1>1. p \in 0..Len(u) /\ p \in 0..Len(v) /\ p \in 1..Len(v) /\ p - 1 \in Nat
      /\ p - 1 \in 0..Len(u) /\ p - 1 \in 0..Len(v) /\ p - 1 <= Len(u) /\ p - 1 <= Len(v)
  OBVIOUS
<1>2. 0 \in Good
  <2>1. R[0][p] = p /\ T[0][p] = p
    BY <1>1 DEF IsTable
  <2> QED BY <1>1, <2>1
<1>3. ASSUME NEW k \in 0..n PROVE R[k][p - 1] = T[k][p - 1]
  <2> DEFINE q == p - 1
  <2>1. q \in Nat /\ q <= Len(u) /\ q <= Len(v) /\ Agree(u, v, q)
    BY <1>1 DEF Agree
  <2> HIDE DEF q
  <2>2. R[k][q] = T[k][q]
    BY <2>1, SamePrefix
  <2> QED BY <2>2 DEF q
<1>4. ASSUME NEW k \in Nat, k \in Good PROVE k + 1 \in Good
  <2> SUFFICES ASSUME k + 1 <= n PROVE R[k + 1][p] <= T[k + 1][p] + 1
    OBVIOUS
  <2> DEFINE i2 == k + 1
             x == T[i2][p]
             up == T[i2 - 1][p]
             left == T[i2][p - 1]
             corner == T[i2 - 1][p - 1]
             x2 == R[i2][p]
             up2 == R[i2 - 1][p]
             left2 == R[i2][p - 1]
             corner2 == R[i2 - 1][p - 1]
             cost == Cost(a[i2], u[p])
             cost2 == Cost(a[i2], v[p])
  <2>1. i2 \in 1..n /\ i2 \in 0..n /\ i2 - 1 \in 0..n /\ i2 - 1 = k
    OBVIOUS
  <2>2. up2 <= up + 1 /\ left2 = left /\ corner2 = corner
    BY <1>3, <1>4, <2>1
  <2> HIDE DEF i2
  <2>3. x \in Nat /\ up \in Nat /\ left \in Nat /\ corner \in Nat
    BY <1>1, <2>1, TableNumbers
  <2>4. x2 \in Nat /\ up2 \in Nat
    BY <1>1, <2>1, TableNumbers
  <2>5. IsLeast(x, up, left, corner, cost)
    BY <2>1, TableCells
  <2>6. IsLeast(x2, up2, left2, corner2, cost2)
    BY <1>1, <2>1, TableCells
  <2>7. cost \in {0, 1} /\ cost2 \in {0, 1}
    BY DEF Cost
  <2> HIDE DEF x, up, left, corner, x2, up2, left2, corner2, cost, cost2
  <2>8. x2 <= x + 1
    BY <2>2, <2>3, <2>4, <2>5, <2>6, <2>7 DEF IsLeast
  <2> QED BY <2>8 DEF x, x2, i2
<1>5. Nat \subseteq Good
  <2> HIDE DEF Good
  <2> QED BY <1>2, <1>4, NatInductionSet
<1> QED BY <1>5

(* One edit between two texts. *)
Substituted(u, v) ==
    /\ Len(u) = Len(v)
    /\ \E p \in 1..Len(u) : \A j \in 1..Len(u) : j # p => u[j] = v[j]

Inserted(u, v) ==
    /\ Len(v) = Len(u) + 1
    /\ \E p \in 0..Len(u) : /\ \A j \in 1..p : u[j] = v[j]
                            /\ \A j \in (p + 1)..Len(u) : u[j] = v[j + 1]

OneEdit(u, v) == Substituted(u, v) \/ Inserted(u, v) \/ Inserted(v, u)

(* ... is one step of the distance from any third. *)
LEMMA EditIsOneStep ==
  ASSUME NEW a, NEW u, NEW v, Len(a) \in Nat, Len(u) \in Nat, Len(v) \in Nat, OneEdit(u, v)
  PROVE  EditDistance(a, v) <= EditDistance(a, u) + 1
<1> DEFINE n == Len(a)
<1>1. PICK T : IsTable(T, a, u) /\ EditDistance(a, u) = T[n][Len(u)]
  BY EditTable
<1>2. PICK R : IsTable(R, a, v) /\ EditDistance(a, v) = R[n][Len(v)]
  BY EditTable
<1>3. CASE Substituted(u, v)
  <2>1. PICK p \in 1..Len(u) : \A j \in 1..Len(u) : j # p => u[j] = v[j]
    BY <1>3 DEF Substituted
  <2> DEFINE m == Len(u) - p
  <2>2. /\ p \in 0..Len(u) /\ p \in 0..Len(v) /\ p <= Len(v) /\ p <= p + 1
        /\ m \in Nat /\ Len(u) = p + m /\ Len(v) = p + m
    BY <1>3 DEF Substituted
  <2>3. \A j \in 1..(p - 1) : u[j] = v[j]
    BY <2>1
  <2>4. \A t \in 1..m : u[p + t] = v[p + t]
    BY <2>1
  <2>5. ASSUME NEW i \in 0..n PROVE R[i][p] <= T[i][p] + 1
    BY <1>1, <1>2, <2>2, <2>3, OtherCharacter
  <2> HIDE DEF m
  <2>6. R[n][Len(v)] <= T[n][Len(u)] + 1
    BY <1>1, <1>2, <2>2, <2>4, <2>5, SameTail
  <2> QED BY <1>1, <1>2, <2>6
<1>4. CASE Inserted(u, v)
  <2>1. PICK p \in 0..Len(u) : /\ \A j \in 1..p : u[j] = v[j]
                               /\ \A j \in (p + 1)..Len(u) : u[j] = v[j + 1]
    BY <1>4 DEF Inserted
  <2> DEFINE m == Len(u) - p
             q == p + 1
  <2>2. /\ p \in Nat /\ p <= Len(u) /\ p <= Len(v) /\ q \in 0..Len(v) /\ q <= p + 1
        /\ m \in Nat /\ Len(u) = p + m /\ Len(v) = q + m /\ q \in 1..Len(v)
        /\ p \in 0..Len(v) /\ q - 1 = p
    BY <1>4 DEF Inserted
  <2>3. \A t \in 1..m : u[p + t] = v[q + t]
    <3> SUFFICES ASSUME NEW t \in 1..m PROVE u[p + t] = v[q + t]
      OBVIOUS
    <3>1. p + t \in (p + 1)..Len(u) /\ (p + t) + 1 = q + t
      BY <2>2
    <3> QED BY <2>1, <3>1
  <2> HIDE DEF m
  <2>4. \A i \in 0..n : R[i][q] <= T[i][p] + 1
    <3> SUFFICES ASSUME NEW i \in 0..n PROVE R[i][q] <= T[i][p] + 1
      OBVIOUS
    <3> HIDE DEF q
    <3>1. R[i][p] = T[i][p]
      <4>1. Agree(u, v, p)
        BY <2>1 DEF Agree
      <4>2. p \in Nat /\ p <= Len(u) /\ p <= Len(v)
        BY <2>2
      <4>3. IsTable(T, a, u) /\ IsTable(R, a, v)
        BY <1>1, <1>2
      <4> QED BY <4>1, <4>2, <4>3, SamePrefix
    <3>2. R[i][q] <= R[i][p] + 1
      <4>1. CASE i = 0
        <5>1. R[0][q] = q /\ R[0][p] = p
          BY <1>2, <2>2 DEF IsTable
        <5> QED BY <2>2, <4>1, <5>1
      <4>2. CASE i # 0
        <5>1. i \in 1..n
          BY <4>2
        <5>2. IsLeast(R[i][q], R[i - 1][q], R[i][q - 1], R[i - 1][q - 1], Cost(a[i], v[q]))
          BY <1>2, <2>2, <5>1, TableCells
        <5>3. q - 1 = p
          BY <2>2
        <5> DEFINE here == R[i][q]
                   left == R[i][p]
                   up == R[i - 1][q]
                   corner == R[i - 1][p]
                   cost == Cost(a[i], v[q])
        <5>4. IsLeast(here, up, left, corner, cost)
          BY <5>2, <5>3
        <5> HIDE DEF here, left, up, corner, cost
        <5>5. here <= left + 1
          BY <5>4 DEF IsLeast
        <5> QED BY <5>5 DEF here, left
      <4> QED BY <4>1, <4>2
    <3> QED BY <3>1, <3>2
  <2> HIDE DEF m, q
  <2>5. R[n][Len(v)] <= T[n][Len(u)] + 1
    BY <1>1, <1>2, <2>2, <2>3, <2>4, SameTail
  <2> QED BY <1>1, <1>2, <2>5
<1>5. CASE Inserted(v, u)
  <2>1. PICK q \in 0..Len(v) : /\ \A j \in 1..q : v[j] = u[j]
                               /\ \A j \in (q + 1)..Len(v) : v[j] = u[j + 1]
    BY <1>5 DEF Inserted
  <2> DEFINE m == Len(v) - q
             p == q + 1
  <2>2. /\ q \in Nat /\ q <= Len(u) /\ q <= Len(v) /\ p \in 0..Len(u) /\ q <= p + 1
        /\ m \in Nat /\ Len(u) = p + m /\ Len(v) = q + m /\ p \in 1..Len(u) /\ p - 1 = q
    BY <1>5 DEF Inserted
  <2>3. \A t \in 1..m : u[p + t] = v[q + t]
    <3> SUFFICES ASSUME NEW t \in 1..m PROVE u[p + t] = v[q + t]
      OBVIOUS
    <3>1. q + t \in (q + 1)..Len(v) /\ (q + t) + 1 = p + t
      BY <2>2
    <3> QED BY <2>1, <3>1
  <2>4. \A i \in 0..n : R[i][q] <= T[i][p] + 1
    <3> SUFFICES ASSUME NEW i \in 0..n PROVE R[i][q] <= T[i][p] + 1
      OBVIOUS
    <3>1. R[i][q] = T[i][q]
      <4>1. Agree(u, v, q)
        BY <2>1 DEF Agree
      <4>2. q \in Nat /\ q <= Len(u) /\ q <= Len(v)
        BY <2>2
      <4>3. IsTable(T, a, u) /\ IsTable(R, a, v)
        BY <1>1, <1>2
      <4> QED BY <4>1, <4>2, <4>3, SamePrefix
    <3>2. T[i][p - 1] <= T[i][p] + 1
      BY <1>1, <2>2, Neighbours
    <3> QED BY <2>2, <3>1, <3>2
  <2> HIDE DEF m, p
  <2>5. R[n][Len(v)] <= T[n][Len(u)] + 1
    BY <1>1, <1>2, <2>2, <2>3, <2>4, SameTail
  <2> QED BY <1>1, <1>2, <2>5
<1> QED BY <1>3, <1>4, <1>5 DEF OneEdit

(* Where the texts agree along the rest of a diagonal nothing is added. *)
LEMMA Diagonal ==
  ASSUME NEW a, NEW u, Len(a) \in Nat, Len(u) \in Nat, NEW R, IsTable(R, a, u),
         NEW i \in 0..Len(a), NEW j \in 0..Len(u), NEW c \in Nat,
         Len(a) = i + c, Len(u) = j + c, \A t \in 1..c : a[i + t] = u[j + t]
  PROVE  R[Len(a)][Len(u)] <= R[i][j]
<1> DEFINE Good == {d \in Nat : d <= c => R[i + d][j + d] <= R[i][j]}
<1>1. 0 \in Good
  <2>1. i + 0 = i /\ j + 0 = j /\ R[i][j] \in Nat
    BY TableNumbers
  <2> QED BY <2>1
<1>2. ASSUME NEW d \in Nat, d \in Good PROVE d + 1 \in Good
  <2> SUFFICES ASSUME d + 1 <= c PROVE R[i + (d + 1)][j + (d + 1)] <= R[i][j]
    OBVIOUS
  <2> DEFINE k == i + (d + 1)
             l == j + (d + 1)
             x == R[k][l]
             up == R[k - 1][l]
             left == R[k][l - 1]
             corner == R[k - 1][l - 1]
  <2>1. /\ k \in 1..Len(a) /\ l \in 1..Len(u) /\ k - 1 = i + d /\ l - 1 = j + d
        /\ k \in 0..Len(a) /\ k - 1 \in 0..Len(a) /\ l \in 0..Len(u) /\ l - 1 \in 0..Len(u)
    OBVIOUS
  <2>2. R[k - 1][l - 1] <= R[i][j]
    BY <1>2, <2>1
  <2>3. a[k] = u[l]
    OBVIOUS
  <2> HIDE DEF k, l
  <2>4. IsLeast(x, up, left, corner, Cost(a[k], u[l]))
    BY <2>1, TableCells
  <2>5. Cost(a[k], u[l]) = 0
    BY <2>3 DEF Cost
  <2>6. corner <= R[i][j] /\ corner \in Nat /\ x \in Nat /\ R[i][j] \in Nat
    BY <2>1, <2>2, TableNumbers
  <2> HIDE DEF x, up, left, corner
  <2>7. x <= corner
    BY <2>4, <2>5, <2>6 DEF IsLeast
  <2>8. x <= R[i][j]
    BY <2>6, <2>7
  <2> QED BY <2>8 DEF x, k, l
<1>3. Nat \subseteq Good
  <2> HIDE DEF Good
  <2> QED BY <1>1, <1>2, NatInductionSet
<1>4. c \in Good
  BY <1>3
<1> QED BY <1>4

(* The cell (p, q) is one more than one of the three it is made of. *)
Edge(T, p, q) ==
    \/ p # 0 /\ T[p][q] = T[p - 1][q] + 1
    \/ q # 0 /\ T[p][q] = T[p][q - 1] + 1
    \/ p # 0 /\ q # 0 /\ T[p][q] = T[p - 1][q - 1] + 1

(* Up and to the left from the cell (i, j) the texts agree as far as such  *)
(* a cell.                                                                 *)
EdgeAt(T, a, b, i, j, p, q, c) ==
    /\ p \in Nat /\ q \in Nat /\ c \in Nat /\ i = p + c /\ j = q + c
    /\ T[p][q] = T[i][j] /\ Edge(T, p, q)
    /\ \A t \in 1..c : a[p + t] = b[q + t]

HasEdge(T, a, b, i, j) == \E p, q, c : EdgeAt(T, a, b, i, j, p, q, c)

LEMMA EdgeHere ==
  ASSUME NEW T, NEW a, NEW b, NEW i \in Nat, NEW j \in Nat, Edge(T, i, j)
  PROVE  HasEdge(T, a, b, i, j)
<1>1. EdgeAt(T, a, b, i, j, i, j, 0)
  BY DEF EdgeAt
<1> QED BY <1>1 DEF HasEdge

LEMMA LastEdge ==
  ASSUME NEW a, NEW b, Len(a) \in Nat, Len(b) \in Nat, NEW T, IsTable(T, a, b),
         T[Len(a)][Len(b)] # 0
  PROVE  HasEdge(T, a, b, Len(a), Len(b))
<1> DEFINE n == Len(a)
           m == Len(b)
           G == {x \in (0..n) \X (0..m) : T[x[1]][x[2]] # 0 => HasEdge(T, a, b, x[1], x[2])}
<1>1. ASSUME NEW k \in 0..n, NEW l \in 0..m,
             \A k2 \in 0..n, l2 \in 0..m : k2 + l2 < k + l => <<k2, l2>> \in G
      PROVE  <<k, l>> \in G
  <2>0. \A k2 \in 0..n, l2 \in 0..m :
          k2 + l2 < k + l /\ T[k2][l2] # 0 => HasEdge(T, a, b, k2, l2)
    BY <1>1
  <2> SUFFICES ASSUME T[k][l] # 0 PROVE HasEdge(T, a, b, k, l)
    OBVIOUS
  <2> HIDE DEF G
  <2>1. k \in Nat /\ l \in Nat
    OBVIOUS
  <2>2. CASE k = 0
    <3>1. T[0][l] = l /\ l # 0
      BY <2>2 DEF IsTable
    <3>2. l - 1 \in 0..m
      BY <3>1
    <3>3. T[0][l - 1] = l - 1
      BY <3>2 DEF IsTable
    <3>4. Edge(T, k, l)
      BY <2>2, <3>1, <3>3 DEF Edge
    <3> QED BY <2>1, <3>4, EdgeHere
  <2>3. CASE l = 0
    <3>1. T[k][0] = k /\ k # 0
      BY <2>3 DEF IsTable
    <3>2. k - 1 \in 0..n
      BY <3>1
    <3>3. T[k - 1][0] = k - 1
      BY <3>2 DEF IsTable
    <3>4. Edge(T, k, l)
      BY <2>3, <3>1, <3>3 DEF Edge
    <3> QED BY <2>1, <3>4, EdgeHere
  <2>4. CASE k # 0 /\ l # 0
    <3> DEFINE k1 == k - 1
               l1 == l - 1
    <3>1. /\ k \in 1..n /\ l \in 1..m /\ k1 \in 0..n /\ l1 \in 0..m /\ k1 + l1 < k + l
          /\ k = k1 + 1 /\ l = l1 + 1 /\ k1 \in Nat /\ l1 \in Nat
      BY <2>4
    <3>2. IsLeast(T[k][l], T[k1][l], T[k][l1], T[k1][l1], Cost(a[k], b[l]))
      BY <3>1, TableCells
    <3>3. T[k1][l1] \in Nat
      BY <3>1, TableNumbers
    <3>4. CASE Edge(T, k, l)
      BY <2>1, <3>4, EdgeHere
    <3>5. CASE ~Edge(T, k, l)
      <4>1. T[k][l] # T[k1][l] + 1 /\ T[k][l] # T[k][l1] + 1 /\ T[k][l] # T[k1][l1] + 1
        BY <2>4, <3>5 DEF Edge
      <4>2. T[k][l] = T[k1][l1] + Cost(a[k], b[l])
        BY <3>2, <4>1 DEF IsLeast
      <4>3. a[k] = b[l] /\ T[k1][l1] = T[k][l]
        BY <3>3, <4>1, <4>2 DEF Cost
      <4> HIDE DEF k1, l1
      <4>4. HasEdge(T, a, b, k1, l1)
        BY <2>0, <3>1, <4>3
      <4>5. PICK p, q, c : EdgeAt(T, a, b, k1, l1, p, q, c)
        BY <4>4 DEF HasEdge
      <4> DEFINE c1 == c + 1
      <4>6. p \in Nat /\ q \in Nat /\ c1 \in Nat /\ k = p + c1 /\ l = q + c1
        BY <3>1, <4>5 DEF EdgeAt
      <4>7. ASSUME NEW t \in 1..c1 PROVE a[p + t] = b[q + t]
        <5>1. CASE t = c1
          BY <4>3, <4>6, <5>1
        <5>2. CASE t # c1
          <6>1. t \in 1..c
            BY <4>5, <5>2 DEF EdgeAt
          <6> QED BY <4>5, <6>1 DEF EdgeAt
        <5> QED BY <5>1, <5>2
      <4>8. T[p][q] = T[k][l] /\ Edge(T, p, q)
        BY <4>3, <4>5 DEF EdgeAt
      <4> HIDE DEF c1
      <4>9. EdgeAt(T, a, b, k, l, p, q, c1)
        BY <4>6, <4>7, <4>8 DEF EdgeAt
      <4> QED BY <4>9 DEF HasEdge
    <3> QED BY <3>4, <3>5
  <2> QED BY <2>2, <2>3, <2>4
<1>2. Hereditary(G, n, m)
  <2> HIDE DEF G
  <2> QED BY <1>1 DEF Hereditary
<1>3. <<n, m>> \in G
  <2>1. n \in 0..n /\ m \in 0..m
    OBVIOUS
  <2> HIDE DEF G
  <2> QED BY <1>2, <2>1, TableInduction
<1> QED BY <1>3

(* What is left of both texts from the cell (i, j) on is the same. *)
Along(a, u, i, j, c) ==
    /\ c \in Nat /\ Len(a) = i + c /\ Len(u) = j + c
    /\ \A t \in 1..c : a[i + t] = u[j + t]

(* A text that keeps the first j characters of b and continues from the    *)
(* cell (i, j) along a diagonal is nearer than b by what the rest of b     *)
(* costs from that cell on.                                                *)
LEMMA Nearer ==
  ASSUME NEW a, NEW b, NEW u, Len(a) \in Nat, Len(b) \in Nat, Len(u) \in Nat,
         NEW T, IsTable(T, a, b), NEW i \in 0..Len(a),
         NEW j \in Nat, j <= Len(u), j <= Len(b), Agree(b, u, j),
         NEW c, Along(a, u, i, j, c), T[i][j] + 1 = EditDistance(a, b)
  PROVE  EditDistance(a, u) + 1 <= EditDistance(a, b)
<1>1. PICK R : IsTable(R, a, u) /\ EditDistance(a, u) = R[Len(a)][Len(u)]
  BY EditTable
<1>2. R[i][j] = T[i][j]
  BY <1>1, SamePrefix
<1>3. j \in 0..Len(u) /\ j \in 0..Len(b)
  OBVIOUS
<1>4. R[Len(a)][Len(u)] <= R[i][j]
  BY <1>1, <1>3, Diagonal DEF Along
<1>5. EditDistance(a, u) \in Nat /\ T[i][j] \in Nat
  BY <1>3, TableNumbers, EditDistanceType
<1> DEFINE near == EditDistance(a, u)
           far == EditDistance(a, b)
           x == T[i][j]
<1>6. near <= x /\ x + 1 = far /\ near \in Nat /\ x \in Nat
  BY <1>1, <1>2, <1>4, <1>5
<1> HIDE DEF near, far, x
<1>7. near + 1 <= far
  BY <1>6
<1> QED BY <1>7 DEF near, far

(* A text without its i-th character. *)
IsWithout(r, t, i) ==
    /\ Len(r) + 1 = Len(t)
    /\ \A j \in 1..(i - 1) : r[j] = t[j]
    /\ \A j \in i..Len(r) : r[j] = t[j + 1]

LEMMA Deleted ==
  ASSUME NEW S, NEW t \in Seq(S), NEW i \in 1..Len(t), NEW r, r = Without(t, i)
  PROVE  r \in Seq(S) /\ IsWithout(r, t, i)
<1> DEFINE x == SubSeq(t, 1, i - 1)
           y == SubSeq(t, i + 1, Len(t))
<1>0. Len(t) \in Nat /\ \A j \in 1..Len(t) : t[j] \in S
  BY LenProperties, ElementOfSeq
<1>1. /\ x \in Seq(S) /\ Len(x) = i - 1
      /\ \A j \in 1..(i - 1) : x[j] = t[j]
  BY <1>0, SubSeqProperties
<1>2. /\ y \in Seq(S) /\ Len(y) = Len(t) - i
      /\ \A j \in 1..(Len(t) - i) : y[j] = t[i + j]
  <2>1. \A j \in (i + 1)..Len(t) : t[j] \in S
    BY <1>0
  <2> QED BY <1>0, <2>1, SubSeqProperties
<1> HIDE DEF x, y
<1>3. /\ r \in Seq(S) /\ Len(r) = Len(x) + Len(y)
      /\ \A j \in 1..(Len(x) + Len(y)) : r[j] = IF j <= Len(x) THEN x[j] ELSE y[j - Len(x)]
  <2> DEFINE w == x \o y
  <2>1. r = w
    BY DEF x, y, Without
  <2>2. /\ w \in Seq(S) /\ Len(w) = Len(x) + Len(y)
        /\ \A j \in 1..(Len(x) + Len(y)) : w[j] = IF j <= Len(x) THEN x[j] ELSE y[j - Len(x)]
    BY <1>1, <1>2, ConcatProperties
  <2> HIDE DEF w
  <2> QED BY <2>1, <2>2
<1>4. Len(r) + 1 = Len(t)
  BY <1>0, <1>1, <1>2, <1>3
<1>5. ASSUME NEW j \in 1..(i - 1) PROVE r[j] = t[j]
  <2>1. j \in 1..(Len(x) + Len(y)) /\ j <= Len(x)
    BY <1>0, <1>1, <1>2
  <2> QED BY <1>1, <1>3, <2>1
<1>6. ASSUME NEW j \in i..Len(r) PROVE r[j] = t[j + 1]
  <2> DEFINE k == j - Len(x)
  <2>1. /\ j \in 1..(Len(x) + Len(y)) /\ ~(j <= Len(x))
        /\ k \in 1..(Len(t) - i) /\ i + k = j + 1
    BY <1>0, <1>1, <1>2, <1>3
  <2>2. r[j] = y[k]
    BY <1>3, <2>1
  <2> HIDE DEF k
  <2> QED BY <1>2, <2>1, <2>2
<1> QED BY <1>3, <1>4, <1>5, <1>6 DEF IsWithout

(* A text with a character more after its i-th. *)
IsWith(r, t, i, c) ==
    /\ Len(r) = Len(t) + 1
    /\ \A j \in 1..i : r[j] = t[j]
    /\ r[i + 1] = c
    /\ \A j \in (i + 1)..Len(t) : r[j + 1] = t[j]

LEMMA WithOneMore ==
  ASSUME NEW S, NEW t \in Seq(S), NEW i \in 0..Len(t), NEW c \in S,
         NEW r, r = With(t, i, c)
  PROVE  r \in Seq(S) /\ IsWith(r, t, i, c)
<1> DEFINE x == SubSeq(t, 1, i)
           z == x \o <<c>>
           y == SubSeq(t, i + 1, Len(t))
<1>0. Len(t) \in Nat /\ \A j \in 1..Len(t) : t[j] \in S
  BY LenProperties, ElementOfSeq
<1>1. /\ x \in Seq(S) /\ Len(x) = i
      /\ \A j \in 1..i : x[j] = t[j]
  <2>1. \A j \in 1..i : t[j] \in S
    BY <1>0
  <2> QED BY <2>1, SubSeqProperties
<1>2. /\ y \in Seq(S) /\ Len(y) = Len(t) - i
      /\ \A j \in 1..(Len(t) - i) : y[j] = t[i + j]
  <2>1. \A j \in (i + 1)..Len(t) : t[j] \in S
    BY <1>0
  <2> QED BY <1>0, <2>1, SubSeqProperties
<1> HIDE DEF x, y
<1>3. /\ z \in Seq(S) /\ Len(z) = i + 1 /\ z[i + 1] = c
      /\ \A j \in 1..i : z[j] = t[j]
  <2>1. <<c>> \in Seq(S) /\ Len(<<c>>) = 1 /\ <<c>>[1] = c
    OBVIOUS
  <2>2. /\ z \in Seq(S) /\ Len(z) = Len(x) + 1
        /\ \A j \in 1..(Len(x) + 1) : z[j] = IF j <= Len(x) THEN x[j] ELSE <<c>>[j - Len(x)]
    BY <1>1, <2>1, ConcatProperties
  <2> QED BY <1>1, <2>1, <2>2
<1>4. r = z \o y
  BY DEF x, y, With
<1> HIDE DEF z
<1>5. /\ r \in Seq(S) /\ Len(r) = Len(z) + Len(y)
      /\ \A j \in 1..(Len(z) + Len(y)) : r[j] = IF j <= Len(z) THEN z[j] ELSE y[j - Len(z)]
  <2> DEFINE w == z \o y
  <2>1. /\ w \in Seq(S) /\ Len(w) = Len(z) + Len(y)
        /\ \A j \in 1..(Len(z) + Len(y)) : w[j] = IF j <= Len(z) THEN z[j] ELSE y[j - Len(z)]
    BY <1>2, <1>3, ConcatProperties
  <2>2. r = w
    BY <1>4
  <2> HIDE DEF w
  <2> QED BY <2>1, <2>2
<1>6. Len(r) = Len(t) + 1
  BY <1>0, <1>2, <1>3, <1>5
<1>7. ASSUME NEW j \in 1..(i + 1) PROVE r[j] = z[j]
  <2>1. j \in 1..(Len(z) + Len(y)) /\ j <= Len(z)
    BY <1>0, <1>2, <1>3
  <2> QED BY <1>5, <2>1
<1>8. ASSUME NEW j \in (i + 1)..Len(t) PROVE r[j + 1] = t[j]
  <2> DEFINE k == j - i
             l == j + 1
  <2>1. /\ l \in 1..(Len(z) + Len(y)) /\ ~(l <= Len(z))
        /\ k \in 1..(Len(t) - i) /\ i + k = j /\ l - Len(z) = k
    BY <1>0, <1>2, <1>3
  <2> HIDE DEF k, l
  <2>2. r[l] = y[k]
    BY <1>5, <2>1
  <2>3. r[l] = t[j]
    BY <1>2, <2>1, <2>2
  <2> QED BY <2>3 DEF l
<1>9. r[i + 1] = c /\ \A j \in 1..i : r[j] = t[j]
  <2>1. i + 1 \in 1..(i + 1) /\ \A j \in 1..i : j \in 1..(i + 1)
    OBVIOUS
  <2> QED BY <1>3, <1>7, <2>1
<1> QED BY <1>5, <1>6, <1>8, <1>9 DEF IsWith

(* A text that is not a is one edit away from a text nearer to a. *)
LEMMA EditTowards ==
  ASSUME NEW S, NEW a \in Seq(S), NEW b \in Seq(S), EditDistance(a, b) # 0
  PROVE  \E u \in Seq(S) : OneEdit(u, b) /\ EditDistance(a, u) + 1 <= EditDistance(a, b)
<1> DEFINE n == Len(a)
           m == Len(b)
<1>0. /\ n \in Nat /\ m \in Nat
      /\ \A t \in 1..n : a[t] \in S
      /\ \A t \in 1..m : b[t] \in S
  BY LenProperties, ElementOfSeq
<1>1. PICK T : IsTable(T, a, b) /\ EditDistance(a, b) = T[n][m]
  BY <1>0, EditTable
<1>2. HasEdge(T, a, b, n, m)
  BY <1>0, <1>1, LastEdge
<1>3. PICK p, q, c : EdgeAt(T, a, b, n, m, p, q, c)
  BY <1>2 DEF HasEdge
<1>4. /\ p \in Nat /\ q \in Nat /\ c \in Nat /\ n = p + c /\ m = q + c
      /\ T[p][q] = T[n][m] /\ \A t \in 1..c : a[p + t] = b[q + t]
  BY <1>3 DEF EdgeAt
<1> HIDE DEF n, m
<1>5. CASE q # 0 /\ T[p][q] = T[p][q - 1] + 1
  <2> DEFINE j == q - 1
             k == m - 1
             u == Without(b, q)
  <2>1. j \in Nat /\ k \in Nat /\ m = k + 1 /\ q = j + 1 /\ k = j + c /\ p \in 0..n /\ q \in 1..m
    BY <1>0, <1>4, <1>5
  <2>2. u \in Seq(S) /\ IsWithout(u, b, q)
    BY <2>1, Deleted DEF m
  <2> HIDE DEF j, k, u
  <2>3. u \in Seq(S)
    BY <2>2
  <2>4. Len(u) = k
    BY <2>1, <2>2, LenProperties DEF IsWithout, m
  <2>5. \A t \in 1..j : u[t] = b[t]
    BY <2>1, <2>2 DEF IsWithout
  <2>6. \A t \in (j + 1)..k : u[t] = b[t + 1]
    BY <2>1, <2>2, <2>4 DEF IsWithout
  <2>7. Inserted(u, b)
    <3>1. j \in 0..Len(u) /\ Len(b) = Len(u) + 1
      BY <1>4, <2>1, <2>4 DEF m
    <3> QED BY <2>4, <2>5, <2>6, <3>1 DEF Inserted
  <2>8. ASSUME NEW t \in 1..c PROVE a[p + t] = u[j + t]
    <3>1. j + t \in (j + 1)..k /\ (j + t) + 1 = q + t
      BY <1>4, <2>1
    <3>2. u[j + t] = b[(j + t) + 1]
      BY <2>6, <3>1
    <3> QED BY <1>4, <3>1, <3>2
  <2>9. T[p][j] + 1 = T[n][m]
    BY <1>4, <1>5 DEF j
  <2>10. EditDistance(a, u) + 1 <= EditDistance(a, b)
    <3>1. j <= Len(u) /\ j <= Len(b) /\ Len(u) = j + c /\ Len(u) \in Nat
      BY <1>4, <2>1, <2>4 DEF m
    <3>2. \A t \in 1..j : b[t] = u[t]
      BY <2>5
    <3>3. Agree(b, u, j)
      BY <3>2 DEF Agree
    <3>4. Along(a, u, p, j, c)
      BY <1>4, <2>1, <2>8, <3>1 DEF Along, n
    <3>5. T[p][j] + 1 = EditDistance(a, b)
      BY <1>1, <2>9
    <3>6. p \in 0..Len(a) /\ j \in Nat /\ Len(a) \in Nat /\ Len(b) \in Nat
      BY <1>0, <1>4, <2>1 DEF n, m
    <3> QED BY <1>1, <3>1, <3>3, <3>4, <3>5, <3>6, Nearer
  <2> QED BY <2>3, <2>7, <2>10 DEF OneEdit
<1>6. CASE p # 0 /\ T[p][q] = T[p - 1][q] + 1
  <2> DEFINE i == p - 1
             k == m + 1
             c1 == c + 1
             u == With(b, q, a[p])
  <2>1. /\ i \in Nat /\ k \in Nat /\ c1 \in Nat /\ p = i + 1 /\ c1 = c + 1 /\ k = m + 1
        /\ k = q + c1 /\ n = i + c1 /\ i \in 0..n /\ p \in 1..n /\ q \in 0..m
    BY <1>0, <1>4, <1>6
  <2>2. u \in Seq(S) /\ IsWith(u, b, q, a[p])
    <3>1. a[p] \in S
      BY <1>0, <2>1
    <3> QED BY <2>1, <3>1, WithOneMore DEF m
  <2> HIDE DEF i, k, c1, u
  <2>3. u \in Seq(S)
    BY <2>2
  <2>4. Len(u) = k
    BY <2>1, <2>2 DEF IsWith, m
  <2>5. \A t \in 1..q : u[t] = b[t]
    BY <2>2 DEF IsWith
  <2>6. u[q + 1] = a[p]
    BY <2>2 DEF IsWith
  <2>7. \A t \in (q + 1)..m : u[t + 1] = b[t]
    BY <2>2 DEF IsWith, m
  <2>8. Inserted(b, u)
    <3>1. q \in 0..Len(b) /\ Len(u) = Len(b) + 1
      BY <1>0, <1>4, <2>1, <2>4 DEF m
    <3>2. \A t \in 1..q : b[t] = u[t]
      BY <2>5
    <3>3. \A t \in (q + 1)..Len(b) : b[t] = u[t + 1]
      BY <2>7 DEF m
    <3> QED BY <3>1, <3>2, <3>3 DEF Inserted
  <2>9. ASSUME NEW t \in 1..c1 PROVE a[i + t] = u[q + t]
    <3>1. CASE t = 1
      BY <2>1, <2>6, <3>1
    <3>2. CASE t # 1
      <4> DEFINE r == t - 1
      <4>1. r \in 1..c /\ i + t = p + r /\ q + t = (q + r) + 1 /\ q + r \in (q + 1)..m
        BY <1>4, <2>1, <3>2
      <4> HIDE DEF r
      <4>2. a[p + r] = b[q + r] /\ u[(q + r) + 1] = b[q + r]
        BY <1>4, <2>7, <4>1
      <4> QED BY <4>1, <4>2
    <3> QED BY <3>1, <3>2
  <2>10. T[i][q] + 1 = T[n][m]
    BY <1>4, <1>6 DEF i
  <2>11. EditDistance(a, u) + 1 <= EditDistance(a, b)
    <3>1. q <= Len(u) /\ q <= Len(b) /\ Len(u) = q + c1 /\ Len(u) \in Nat
      BY <1>4, <2>1, <2>4 DEF m
    <3>2. \A t \in 1..q : b[t] = u[t]
      BY <2>5
    <3>3. Agree(b, u, q)
      BY <3>2 DEF Agree
    <3>4. Along(a, u, i, q, c1)
      BY <1>4, <2>1, <2>9, <3>1 DEF Along, n
    <3>5. T[i][q] + 1 = EditDistance(a, b)
      BY <1>1, <2>10
    <3>6. i \in 0..Len(a) /\ q \in Nat /\ Len(a) \in Nat /\ Len(b) \in Nat
      BY <1>0, <1>4, <2>1 DEF n, m
    <3> QED BY <1>1, <3>1, <3>3, <3>4, <3>5, <3>6, Nearer
  <2> QED BY <2>3, <2>8, <2>11 DEF OneEdit
<1>7. CASE p # 0 /\ q # 0 /\ T[p][q] = T[p - 1][q - 1] + 1
  <2> DEFINE i == p - 1
             j == q - 1
             c1 == c + 1
             u == [b EXCEPT ![q] = a[p]]
  <2>1. /\ i \in Nat /\ j \in Nat /\ c1 \in Nat /\ p = i + 1 /\ q = j + 1 /\ c1 = c + 1
        /\ m = j + c1 /\ n = i + c1 /\ i \in 0..n /\ p \in 1..n /\ q \in 1..m
    BY <1>0, <1>4, <1>7
  <2> HIDE DEF i, j, c1
  <2>2. a[p] \in S
    BY <1>0, <2>1
  <2>3. /\ u \in Seq(S) /\ Len(u) = m
        /\ \A t \in 1..m : u[t] = IF t = q THEN a[p] ELSE b[t]
    BY <2>1, <2>2, ExceptSeq DEF m
  <2> HIDE DEF u
  <2>4. Substituted(u, b)
    <3>1. Len(u) = Len(b) /\ q \in 1..Len(u)
      BY <2>1, <2>3 DEF m
    <3>2. \A t \in 1..Len(u) : t # q => u[t] = b[t]
      BY <2>3
    <3> QED BY <3>1, <3>2 DEF Substituted
  <2>5. ASSUME NEW t \in 1..c1 PROVE a[i + t] = u[j + t]
    <3>1. CASE t = 1
      BY <2>1, <2>3, <3>1
    <3>2. CASE t # 1
      <4> DEFINE r == t - 1
      <4>1. r \in 1..c /\ i + t = p + r /\ j + t = q + r /\ q + r \in 1..m /\ q + r # q
        BY <1>4, <2>1, <3>2
      <4> HIDE DEF r
      <4>2. a[p + r] = b[q + r] /\ u[q + r] = b[q + r]
        BY <1>4, <2>3, <4>1
      <4> QED BY <4>1, <4>2
    <3> QED BY <3>1, <3>2
  <2>6. T[i][j] + 1 = T[n][m]
    BY <1>4, <1>7 DEF i, j
  <2>7. EditDistance(a, u) + 1 <= EditDistance(a, b)
    <3>1. j <= Len(u) /\ j <= Len(b) /\ Len(u) = j + c1 /\ Len(u) \in Nat
      BY <1>0, <2>1, <2>3 DEF m
    <3>2. \A t \in 1..j : b[t] = u[t]
      <4>1. \A t \in 1..j : t \in 1..m /\ t # q
        BY <2>1, <1>0
      <4> QED BY <2>3, <4>1
    <3>3. Agree(b, u, j)
      BY <3>2 DEF Agree
    <3>4. Along(a, u, i, j, c1)
      BY <1>4, <2>1, <2>5, <3>1 DEF Along, n
    <3>5. T[i][j] + 1 = EditDistance(a, b)
      BY <1>1, <2>6
    <3>6. i \in 0..Len(a) /\ j \in Nat /\ Len(a) \in Nat /\ Len(b) \in Nat
      BY <1>0, <1>4, <2>1 DEF n, m
    <3> QED BY <1>1, <3>1, <3>3, <3>4, <3>5, <3>6, Nearer
  <2> QED BY <2>3, <2>4, <2>7 DEF OneEdit
<1>8. Edge(T, p, q)
  BY <1>3 DEF EdgeAt
<1> QED BY <1>5, <1>6, <1>7, <1>8 DEF Edge

SameUpTo(a, b, k, l) == k = l /\ \A t \in 1..k : a[t] = b[t]

(* No edits lead from a text to itself only. *)
LEMMA NoDistanceIsSame ==
  ASSUME NEW S, NEW a \in Seq(S), NEW b \in Seq(S), EditDistance(a, b) = 0
  PROVE  a = b
<1> DEFINE n == Len(a)
           m == Len(b)
<1>0. n \in Nat /\ m \in Nat
  BY LenProperties
<1>1. PICK T : IsTable(T, a, b) /\ EditDistance(a, b) = T[n][m]
  BY <1>0, EditTable
<1> DEFINE G == {x \in (0..n) \X (0..m) : T[x[1]][x[2]] = 0 => SameUpTo(a, b, x[1], x[2])}
<1>2. ASSUME NEW k \in 0..n, NEW l \in 0..m,
             \A k2 \in 0..n, l2 \in 0..m : k2 + l2 < k + l => <<k2, l2>> \in G
      PROVE  <<k, l>> \in G
  <2>0. \A k2 \in 0..n, l2 \in 0..m : k2 + l2 < k + l /\ T[k2][l2] = 0 => SameUpTo(a, b, k2, l2)
    BY <1>2
  <2> SUFFICES ASSUME T[k][l] = 0 PROVE SameUpTo(a, b, k, l)
    OBVIOUS
  <2> HIDE DEF G
  <2>1. CASE k = 0 \/ l = 0
    <3>1. k = l /\ k = 0
      <4>1. T[0][l] = l /\ T[k][0] = k
        BY <1>1 DEF IsTable
      <4> QED BY <2>1, <4>1
    <3> QED BY <3>1 DEF SameUpTo
  <2>2. CASE k # 0 /\ l # 0
    <3> DEFINE k1 == k - 1
               l1 == l - 1
    <3>1. /\ k \in 1..n /\ l \in 1..m /\ k1 \in 0..n /\ l1 \in 0..m /\ k1 + l1 < k + l
          /\ k = k1 + 1 /\ l = l1 + 1
      BY <2>2
    <3>2. IsLeast(T[k][l], T[k1][l], T[k][l1], T[k1][l1], Cost(a[k], b[l]))
      BY <1>0, <1>1, <3>1, TableCells
    <3>3. T[k1][l1] \in Nat /\ T[k1][l] \in Nat /\ T[k][l1] \in Nat
      BY <1>1, <3>1, TableNumbers
    <3>4. T[k1][l1] = 0 /\ a[k] = b[l]
      <4> DEFINE up == T[k1][l]
                 left == T[k][l1]
                 corner == T[k1][l1]
                 cost == Cost(a[k], b[l])
      <4>1. IsLeast(0, up, left, corner, cost) /\ up \in Nat /\ left \in Nat /\ corner \in Nat
        BY <3>2, <3>3
      <4>2. cost \in Nat /\ (cost = 0 => a[k] = b[l])
        BY DEF Cost
      <4> HIDE DEF up, left, corner, cost
      <4>3. corner = 0 /\ cost = 0
        BY <4>1, <4>2 DEF IsLeast
      <4> QED BY <4>2, <4>3 DEF corner
    <3> HIDE DEF k1, l1
    <3>5. k1 = l1 /\ \A t \in 1..k1 : a[t] = b[t]
      BY <2>0, <3>1, <3>4 DEF SameUpTo
    <3>6. k = l
      BY <3>1, <3>5
    <3>7. ASSUME NEW t \in 1..k PROVE a[t] = b[t]
      <4>1. t = k \/ t \in 1..k1
        BY <3>1
      <4> QED BY <3>4, <3>5, <3>6, <4>1
    <3> QED BY <3>6, <3>7 DEF SameUpTo
  <2> QED BY <2>1, <2>2
<1>3. Hereditary(G, n, m)
  <2> HIDE DEF G
  <2> QED BY <1>2 DEF Hereditary
<1>4. <<n, m>> \in G
  <2>1. n \in 0..n /\ m \in 0..m
    BY <1>0
  <2> HIDE DEF G
  <2> QED BY <1>0, <1>3, <2>1, TableInduction
<1>5. n = m /\ \A t \in 1..n : a[t] = b[t]
  BY <1>1, <1>4 DEF SameUpTo
<1> QED BY <1>5, SeqEqual

(* Edits are the texts one edit away. *)
LEMMA EditsAreOneEdit ==
  ASSUME NEW t \in Seq(Letters), NEW v \in Edits(t)
  PROVE  v \in Seq(Letters) /\ OneEdit(t, v)
<1>0. Len(t) \in Nat
  BY LenProperties
<1>1. \/ \E i \in 1..Len(t) : v = Without(t, i)
      \/ \E i \in 0..Len(t) : \E c \in Letters : v = With(t, i, c)
      \/ \E i \in 1..Len(t) : \E c \in Letters : v = Instead(t, i, c)
  BY DEF Edits
<1>2. ASSUME NEW i \in 1..Len(t), v = Without(t, i)
      PROVE  v \in Seq(Letters) /\ OneEdit(t, v)
  <2> DEFINE p == i - 1
  <2>1. /\ v \in Seq(Letters) /\ Len(v) + 1 = Len(t)
        /\ \A j \in 1..(i - 1) : v[j] = t[j]
        /\ \A j \in i..Len(v) : v[j] = t[j + 1]
    <3>1. v \in Seq(Letters) /\ IsWithout(v, t, i)
      BY <1>2, Deleted
    <3> QED BY <3>1 DEF IsWithout
  <2>2. p + 1 = i /\ p \in 0..Len(v) /\ Len(v) \in Nat /\ Len(t) = Len(v) + 1
    BY <1>0, <2>1, LenProperties
  <2>3. \A j \in 1..p : v[j] = t[j]
    BY <2>1
  <2>4. \A j \in (p + 1)..Len(v) : v[j] = t[j + 1]
    BY <2>1, <2>2
  <2> HIDE DEF p
  <2>5. Inserted(v, t)
    BY <2>2, <2>3, <2>4 DEF Inserted
  <2> QED BY <2>1, <2>5 DEF OneEdit
<1>3. ASSUME NEW i \in 0..Len(t), NEW c \in Letters, v = With(t, i, c)
      PROVE  v \in Seq(Letters) /\ OneEdit(t, v)
  <2>1. /\ v \in Seq(Letters) /\ Len(v) = Len(t) + 1
        /\ \A j \in 1..i : v[j] = t[j]
        /\ \A j \in (i + 1)..Len(t) : v[j + 1] = t[j]
    <3>1. v \in Seq(Letters) /\ IsWith(v, t, i, c)
      BY <1>3, WithOneMore
    <3> QED BY <3>1 DEF IsWith
  <2>2. (\A j \in 1..i : t[j] = v[j]) /\ \A j \in (i + 1)..Len(t) : t[j] = v[j + 1]
    BY <2>1
  <2>3. Inserted(t, v)
    BY <2>1, <2>2 DEF Inserted
  <2> QED BY <2>1, <2>3 DEF OneEdit
<1>4. ASSUME NEW i \in 1..Len(t), NEW c \in Letters, v = Instead(t, i, c)
      PROVE  v \in Seq(Letters) /\ OneEdit(t, v)
  <2> DEFINE w == [t EXCEPT ![i] = c]
  <2>1. /\ w \in Seq(Letters) /\ Len(w) = Len(t)
        /\ \A j \in 1..Len(t) : w[j] = IF j = i THEN c ELSE t[j]
    BY ExceptSeq
  <2> HIDE DEF w
  <2>2. Substituted(t, w)
    BY <2>1 DEF Substituted
  <2>3. v = w
    BY <1>4 DEF Instead, w
  <2> QED BY <2>1, <2>2, <2>3 DEF OneEdit
<1> QED BY <1>1, <1>2, <1>3, <1>4

LEMMA OneEditIsAnEdit ==
  ASSUME NEW t \in Seq(Letters), NEW v \in Seq(Letters), OneEdit(t, v)
  PROVE  v \in Edits(t)
<1>0. /\ Len(t) \in Nat /\ Len(v) \in Nat
      /\ \A j \in 1..Len(t) : t[j] \in Letters
      /\ \A j \in 1..Len(v) : v[j] \in Letters
  BY LenProperties, ElementOfSeq
<1>1. CASE Substituted(t, v)
  <2>1. PICK p \in 1..Len(t) : \A j \in 1..Len(t) : j # p => t[j] = v[j]
    BY <1>1 DEF Substituted
  <2>2. Len(t) = Len(v) /\ v[p] \in Letters
    BY <1>0, <1>1 DEF Substituted
  <2> DEFINE c == v[p]
             w == [t EXCEPT ![p] = c]
  <2> HIDE DEF c
  <2>3. /\ w \in Seq(Letters) /\ Len(w) = Len(t)
        /\ \A j \in 1..Len(t) : w[j] = IF j = p THEN c ELSE t[j]
    BY <2>2, ExceptSeq DEF c
  <2>4. w \in Edits(t)
    <3>1. c \in Letters
      BY <2>2 DEF c
    <3>2. w = Instead(t, p, c)
      BY DEF Instead
    <3> HIDE DEF w
    <3> QED BY <3>1, <3>2 DEF Edits
  <2> HIDE DEF w
  <2>5. \A j \in 1..Len(w) : w[j] = v[j]
    BY <2>1, <2>3 DEF c
  <2>6. w = v
    BY <2>2, <2>3, <2>5, SeqEqual
  <2> QED BY <2>4, <2>6
<1>2. CASE Inserted(t, v)
  <2>1. PICK p \in 0..Len(t) : /\ \A j \in 1..p : t[j] = v[j]
                               /\ \A j \in (p + 1)..Len(t) : t[j] = v[j + 1]
    BY <1>2 DEF Inserted
  <2> DEFINE q == p + 1
             w == With(t, p, v[q])
  <2>2. Len(v) = Len(t) + 1 /\ q \in 1..Len(v) /\ v[q] \in Letters
    BY <1>0, <1>2 DEF Inserted
  <2>3. /\ w \in Seq(Letters) /\ Len(w) = Len(t) + 1
        /\ \A j \in 1..p : w[j] = t[j]
        /\ w[p + 1] = v[q]
        /\ \A j \in (p + 1)..Len(t) : w[j + 1] = t[j]
    <3>1. w \in Seq(Letters) /\ IsWith(w, t, p, v[q])
      BY <2>2, WithOneMore
    <3> HIDE DEF w
    <3> QED BY <3>1 DEF IsWith
  <2>4. w \in Edits(t)
    BY <2>2 DEF Edits
  <2> HIDE DEF w
  <2>5. ASSUME NEW j \in 1..Len(w) PROVE w[j] = v[j]
    <3>1. CASE j < q
      BY <2>1, <2>3, <3>1
    <3>2. CASE j = q
      BY <2>3, <3>2
    <3>3. CASE j > q
      <4> DEFINE k == j - 1
      <4>1. k \in (p + 1)..Len(t) /\ j = k + 1
        BY <1>0, <2>3, <3>3
      <4> HIDE DEF k
      <4> QED BY <2>1, <2>3, <4>1
    <3> QED BY <3>1, <3>2, <3>3
  <2>6. w = v
    BY <2>2, <2>3, <2>5, SeqEqual
  <2> QED BY <2>4, <2>6
<1>3. CASE Inserted(v, t)
  <2>1. PICK p \in 0..Len(v) : /\ \A j \in 1..p : v[j] = t[j]
                               /\ \A j \in (p + 1)..Len(v) : v[j] = t[j + 1]
    BY <1>3 DEF Inserted
  <2> DEFINE i == p + 1
             w == Without(t, i)
  <2>2. Len(t) = Len(v) + 1 /\ i \in 1..Len(t) /\ i - 1 = p
    BY <1>0, <1>3 DEF Inserted
  <2> HIDE DEF i
  <2>3. /\ w \in Seq(Letters) /\ Len(w) + 1 = Len(t)
        /\ \A j \in 1..(i - 1) : w[j] = t[j]
        /\ \A j \in i..Len(w) : w[j] = t[j + 1]
    <3>1. w \in Seq(Letters) /\ IsWithout(w, t, i)
      BY <2>2, Deleted
    <3> HIDE DEF w
    <3> QED BY <3>1 DEF IsWithout
  <2>4. w \in Edits(t)
    BY <2>2 DEF Edits
  <2> HIDE DEF w
  <2>5. Len(w) = Len(v)
    BY <1>0, <2>2, <2>3, LenProperties
  <2>6. ASSUME NEW j \in 1..Len(w) PROVE w[j] = v[j]
    <3>1. CASE j <= p
      BY <2>1, <2>2, <2>3, <3>1
    <3>2. CASE j > p
      <4>1. j \in i..Len(w) /\ j \in (p + 1)..Len(v)
        BY <1>0, <2>2, <2>5, <3>2
      <4> QED BY <2>1, <2>3, <4>1
    <3> QED BY <3>1, <3>2
  <2>7. w = v
    BY <2>3, <2>5, <2>6, SeqEqual
  <2> QED BY <2>4, <2>7
<1> QED BY <1>1, <1>2, <1>3 DEF OneEdit

(* The texts within k of t, by the distance ... *)
Near(k, t) == {v \in Seq(Letters) : EditDistance(t, v) <= k}

(* ... are those within k - 1 and those an edit away from one of them. *)
LEMMA NearByEdits ==
  ASSUME NEW t \in Seq(Letters), NEW k \in Nat
  PROVE  Near(k + 1, t) = Near(k, t) \cup UNION {Edits(u) : u \in Near(k, t)}
<1>0. /\ Len(t) \in Nat
      /\ \A v \in Seq(Letters) : Len(v) \in Nat /\ EditDistance(t, v) \in Nat
  BY LenProperties, EditDistanceType
<1>1. ASSUME NEW v \in Near(k + 1, t), v \notin Near(k, t)
      PROVE  \E u \in Near(k, t) : v \in Edits(u)
  <2>1. v \in Seq(Letters) /\ EditDistance(t, v) <= k + 1 /\ ~(EditDistance(t, v) <= k)
    BY <1>1 DEF Near
  <2>2. EditDistance(t, v) = k + 1
    BY <1>0, <2>1
  <2>3. PICK u \in Seq(Letters) : OneEdit(u, v) /\ EditDistance(t, u) + 1 <= EditDistance(t, v)
    BY <2>1, <2>2, EditTowards
  <2>4. u \in Near(k, t)
    BY <1>0, <2>2, <2>3 DEF Near
  <2>5. v \in Edits(u)
    BY <2>1, <2>3, OneEditIsAnEdit
  <2> QED BY <2>4, <2>5
<1>2. ASSUME NEW u \in Near(k, t), NEW v \in Edits(u) PROVE v \in Near(k + 1, t)
  <2>1. u \in Seq(Letters) /\ EditDistance(t, u) <= k
    BY DEF Near
  <2>2. v \in Seq(Letters) /\ OneEdit(u, v)
    BY <2>1, EditsAreOneEdit
  <2>3. EditDistance(t, v) <= EditDistance(t, u) + 1
    BY <1>0, <2>1, <2>2, EditIsOneStep
  <2> QED BY <1>0, <2>1, <2>2, <2>3 DEF Near
<1>3. Near(k, t) \subseteq Near(k + 1, t)
  BY <1>0 DEF Near
<1> QED BY <1>1, <1>2, <1>3

LEMMA NearAtFirst ==
  ASSUME NEW t \in Seq(Letters)
  PROVE  Near(0, t) = {t}
<1>0. /\ Len(t) \in Nat
      /\ \A v \in Seq(Letters) : Len(v) \in Nat /\ EditDistance(t, v) \in Nat
  BY LenProperties, EditDistanceType
<1>1. EditDistance(t, t) = 0
  BY <1>0, NoDistanceToItself
<1>2. ASSUME NEW v \in Near(0, t) PROVE v = t
  <2>1. v \in Seq(Letters) /\ EditDistance(t, v) <= 0
    BY DEF Near
  <2>2. EditDistance(t, v) = 0
    BY <1>0, <2>1
  <2> QED BY <2>1, <2>2, NoDistanceIsSame
<1> QED BY <1>1, <1>2 DEF Near

(* The definition Within makes, for every number of edits. *)
Grows(ball) == ball = [k \in Nat |->
    IF k = 0 THEN [t \in Texts |-> {t}]
    ELSE [t \in Texts |-> ball[k - 1][t] \cup UNION {Edits(u) : u \in ball[k - 1][t]}]]

(* Within[k] is what is within k of every text. *)
LEMMA WithinIsNear ==
  ASSUME Texts \subseteq Seq(Letters), NEW k \in 0..MaxEditDistance, NEW t \in Texts
  PROVE  Within[k][t] = Near(k, t)
<1> DEFINE near == [n \in Nat |-> [x \in Texts |-> Near(n, x)]]
           ball == CHOOSE ball : Grows(ball)
<1>1. Grows(near)
  <2>1. ASSUME NEW n \in Nat
        PROVE  near[n] = IF n = 0 THEN [x \in Texts |-> {x}]
                 ELSE [x \in Texts |-> near[n - 1][x] \cup UNION {Edits(u) : u \in near[n - 1][x]}]
    <3>1. CASE n = 0
      <4>1. \A x \in Texts : Near(n, x) = {x}
        BY <3>1, NearAtFirst
      <4> QED BY <3>1, <4>1
    <3>2. CASE n # 0
      <4> DEFINE m == n - 1
      <4>1. m \in Nat /\ n = m + 1
        BY <3>2
      <4> HIDE DEF m
      <4>2. \A x \in Texts : Near(n, x) = Near(m, x) \cup UNION {Edits(u) : u \in Near(m, x)}
        BY <4>1, NearByEdits
      <4>3. \A x \in Texts : near[m][x] = Near(m, x)
        BY <4>1
      <4>4. near[n] = [x \in Texts |-> Near(n, x)]
        OBVIOUS
      <4> HIDE DEF near
      <4>5. near[n] = [x \in Texts |-> near[m][x] \cup UNION {Edits(u) : u \in near[m][x]}]
        BY <4>2, <4>3, <4>4
      <4> QED BY <3>2, <4>5 DEF m
    <3> QED BY <3>1, <3>2
  <2>2. near = [n \in Nat |-> near[n]]
    OBVIOUS
  <2> HIDE DEF near
  <2> QED BY <2>1, <2>2 DEF Grows
<1>2. Grows(ball)
  BY <1>1
<1> HIDE DEF ball
<1>3. /\ \A x \in Texts : ball[0][x] = {x}
      /\ \A n \in Nat : n # 0 =>
           \A x \in Texts : ball[n][x] = ball[n - 1][x] \cup UNION {Edits(u) : u \in ball[n - 1][x]}
  <2>1. \A n \in Nat : ball[n] = IF n = 0 THEN [x \in Texts |-> {x}]
             ELSE [x \in Texts |-> ball[n - 1][x] \cup UNION {Edits(u) : u \in ball[n - 1][x]}]
    BY <1>2 DEF Grows
  <2> QED BY <2>1
<1> DEFINE Good == {n \in Nat : \A x \in Texts : ball[n][x] = Near(n, x)}
<1>4. 0 \in Good
  BY <1>3, NearAtFirst
<1>5. ASSUME NEW n \in Nat, n \in Good PROVE n + 1 \in Good
  <2> SUFFICES ASSUME NEW x \in Texts PROVE ball[n + 1][x] = Near(n + 1, x)
    OBVIOUS
  <2> DEFINE l == n + 1
  <2>1. l \in Nat /\ l # 0 /\ l - 1 = n
    OBVIOUS
  <2>2. ball[n][x] = Near(n, x)
    BY <1>5
  <2>3. Near(n + 1, x) = Near(n, x) \cup UNION {Edits(u) : u \in Near(n, x)}
    BY NearByEdits
  <2> HIDE DEF l
  <2>4. ball[l][x] = ball[n][x] \cup UNION {Edits(u) : u \in ball[n][x]}
    BY <1>3, <2>1
  <2> QED BY <2>2, <2>3, <2>4 DEF l
<1>6. Nat \subseteq Good
  <2> HIDE DEF Good
  <2> QED BY <1>4, <1>5, NatInductionSet
<1>7. MaxEditDistance \in Nat /\ k \in Nat
  BY TrackerAssumption
<1>8. Within = [n \in 0..MaxEditDistance |-> ball[n]]
  BY DEF Within, ball, Grows
<1> QED BY <1>6, <1>7, <1>8

(* PlateTracker::add compares texts by the number of edits between them:   *)
(* whatever the sightings, a reading joins the track whose last text is at *)
(* most maxEditDistance insertions, deletions and substitutions away.      *)
THEOREM DistanceIsEdits == ReportingSpec => []DistanceCountsEdits
<1>1. Texts \subseteq Seq(Letters)
  <2> SUFFICES ASSUME NEW s \in Sightings PROVE s.text \in Seq(Letters)
    BY DEF Texts
  <2>1. s.text \in Seq(Nat)
    BY TrackerAssumption
  <2> DEFINE x == s.text
  <2>2. Len(x) \in Nat /\ DOMAIN x = 1..Len(x) /\ x = [i \in 1..Len(x) |-> x[i]]
    BY <2>1, LenProperties
  <2>3. \A i \in 1..Len(x) : x[i] \in Letters
    BY <2>2 DEF Letters
  <2> HIDE DEF x
  <2>4. [i \in 1..Len(x) |-> x[i]] \in Seq(Letters)
    BY <2>2, <2>3, IsASeq
  <2> QED BY <2>2, <2>4 DEF x
<1>2. TrackerInv => DistanceCountsEdits
  <2> SUFFICES ASSUME TrackerInv, NEW i \in 1..Len(tracks), NEW s \in Sightings,
                      NEW k \in 0..MaxEditDistance
               PROVE  EditDistance(s.text, Last(tracks[i]).text) <= k
                        <=> Last(tracks[i]).text \in Within[k][s.text]
    BY DEF DistanceCountsEdits
  <2> DEFINE v == Last(tracks[i]).text
  <2>1. v \in Texts
    <3> DEFINE t == tracks[i]
    <3>1. SoundTrack(t, now, added) /\ t \in OpenTrack
      BY ElementOfSeq DEF TrackerInv, TracksSound, TrackerType
    <3> HIDE DEF t
    <3>2. Len(t.readings) \in 1..Len(t.readings) /\ Last(t) = t.readings[Len(t.readings)]
      BY <3>1, LastReading
    <3>3. Seen(Last(t))
      BY <3>1, <3>2 DEF SoundTrack
    <3> QED BY <3>3 DEF Seen, Texts, t
  <2>2. s.text \in Texts
    BY DEF Texts
  <2>3. Within[k][s.text] = Near(k, s.text)
    BY <1>1, <2>2, WithinIsNear
  <2> HIDE DEF v
  <2> QED BY <1>1, <2>1, <2>3 DEF Near, v
<1> QED BY <1>2, TrackerInvariance, PTL
=============================================================================
