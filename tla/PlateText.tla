------------------------------ MODULE PlateText ------------------------------
(***************************************************************************)
(* The pure part of processing/PlateTracker.cpp: the edit distance between *)
(* two plate texts, and the confidence-weighted vote that makes one text   *)
(* of many readings.  A text is a sequence of characters, characters are   *)
(* numbers in the order of their codes; a reading is a record with fields  *)
(* text and conf, the latter a whole number (the code adds floats).        *)
(***************************************************************************)
EXTENDS Integers, Sequences, FiniteSets, FiniteSetsExt

(* Deviant: a substitution counts as two edits. *)
CostTwice(x, y) == IF x = y THEN 0 ELSE 2

(* (a[i - 1] == b[j - 1]) ? 0 : 1 *)
Cost(x, y) == IF x = y THEN 0 ELSE 1

(* editDistance: one row of the table after the other. *)
EditDistance(a, b) ==
    LET row[i \in 0..Len(a)] ==
          IF i = 0 THEN [j \in 0..Len(b) |-> j]
          ELSE LET prev == row[i - 1]
                   curr[j \in 0..Len(b)] ==
                     IF j = 0 THEN i
                     ELSE Min({prev[j] + 1, curr[j - 1] + 1, prev[j - 1] + Cost(a[i], b[j])})
               IN  curr
    IN  row[Len(a)][Len(b)]

(* Deviant: every reading has the same say. *)
WeightOne(r) == 1

(* ocrConfidence *)
Weight(r) == r.conf

Total(readings, I) == MapThenSumSet(LAMBDA i : Weight(readings[i]), I)

(* std::max_element over a std::map from keys to weights: the least of the *)
(* keys with the greatest weight.                                          *)
Heaviest(map) == Min({k \in DOMAIN map : \A l \in DOMAIN map : map[l] <= map[k]})

(* The length with the most confidence behind it. *)
TargetLength(readings) ==
    LET D == DOMAIN readings
    IN  Heaviest([n \in {Len(readings[i].text) : i \in D} |->
                    Total(readings, {i \in D : Len(readings[i].text) = n})])

(* consolidate: the vote at every position, among the readings of that     *)
(* length.                                                                 *)
Consolidate(readings) ==
    LET n == TargetLength(readings)
        Voters == {i \in DOMAIN readings : Len(readings[i].text) = n}
    IN  [p \in 1..n |->
           Heaviest([c \in {readings[i].text[p] : i \in Voters} |->
                       Total(readings, {i \in Voters : readings[i].text[p] = c})])]

(* std::max_element over the readings: the first of the strongest. *)
Strongest(readings) ==
    Min({i \in DOMAIN readings : \A j \in DOMAIN readings :
           readings[j].conf <= readings[i].conf})
=============================================================================
