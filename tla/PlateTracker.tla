---------------------------- MODULE PlateTracker ----------------------------
(***************************************************************************)
(* processing/PlateTracker.cpp and its caller's side: one camera's         *)
(* tracker, to which workers add readings under trackerMutex and from      *)
(* which the main thread collects finished tracks and, at shutdown, all.   *)
(*                                                                         *)
(* A reading carries its text, its OCR confidence and the place of its box *)
(* (one coordinate; the code compares the distance of two centres with a   *)
(* limit).  Readings are numbered in the order in which they are added.    *)
(* Time is the steady clock, in ticks.                                     *)
(***************************************************************************)
EXTENDS PlateText, Subsequences

CONSTANTS
    Sightings,           \* what the recognizer may read: [text, conf, place]
    MaxEditDistance,     \* consolidation.maxEditDistance
    MaxCenterDistance,   \* consolidation.maxCenterDistance, as a distance
    FinalizeAfter,       \* consolidation.finalizeAfterSeconds, in ticks
    MaxTrack,            \* consolidation.maxTrackSeconds, in ticks
    MinSightings,        \* consolidation.minSightings
    MaxReadings,         \* bound: readings added
    MaxTime              \* bound: ticks

ASSUME TrackerAssumption ==
    /\ \A s \in Sightings : s.conf \in Nat /\ s.place \in Int /\ s.text \in Seq(Nat)
    /\ MaxEditDistance \in Nat /\ MaxCenterDistance \in Nat
    /\ FinalizeAfter \in Nat /\ MaxTrack \in Nat /\ MinSightings \in Nat
    /\ MaxReadings \in Nat /\ MaxTime \in Nat

VARIABLES
    now,          \* the clock
    tracks,       \* tracks_
    finals,       \* what collectFinalized or flushAll returned, unreported
    phase,        \* "running"; "flushing" after flushAll; "over"
    added,        \* history: readings added
    log           \* history: tracks reported, in order

vars == <<now, tracks, finals, phase, added, log>>

Init ==
    /\ now = 0
    /\ tracks = <<>>
    /\ finals = {}
    /\ phase = "running"
    /\ added = 0
    /\ log = <<>>

Last(track) == track.readings[Len(track.readings)]
Abs(n) == IF n < 0 THEN -n ELSE n
Score(s, r) == EditDistance(s.text, r.text)

(* The spatial gate, and the comparison of the texts. *)
Close(s, r) ==
    /\ Abs(s.place - r.place) <= MaxCenterDistance
    /\ Score(s, r) <= MaxEditDistance

(* Deviant: the spatial gate is left out. *)
InReachOfText(s) == {i \in 1..Len(tracks) : Score(s, Last(tracks[i])) <= MaxEditDistance}

(* The tracks whose latest reading is close. *)
InReach(s) == {i \in 1..Len(tracks) : Close(s, Last(tracks[i]))}

(* The first of the tracks whose latest text is closest. *)
Best(s, I) == Min({i \in I : \A j \in I :
                     Score(s, Last(tracks[i])) <= Score(s, Last(tracks[j]))})

(* Deviant: a reading as strong as the best one replaces its image. *)
AsStrong(s, track) == s.conf >= track.bestFrameConf

(* reading.ocrConfidence > best->bestFrameConf *)
Stronger(s, track) == s.conf > track.bestFrameConf

Reading(s) == [text |-> s.text, conf |-> s.conf, place |-> s.place, id |-> added + 1]

(* A reading joins a track ... *)
Extended(track, s) ==
    [track EXCEPT !.readings = Append(@, Reading(s)),
                  !.lastSeen = now,
                  !.bestFrame = IF Stronger(s, track) THEN added + 1 ELSE @,
                  !.bestFrameConf = IF Stronger(s, track) THEN s.conf ELSE @]

(* ... or opens one. *)
Opened(s) ==
    [readings |-> <<Reading(s)>>, firstSeen |-> now, lastSeen |-> now,
     bestFrame |-> added + 1, bestFrameConf |-> s.conf]

Add ==
    /\ phase = "running"
    /\ added < MaxReadings
    /\ added' = added + 1
    /\ \E s \in Sightings :
         tracks' = IF InReach(s) = {} THEN Append(tracks, Opened(s))
                   ELSE [tracks EXCEPT ![Best(s, InReach(s))] = Extended(@, s)]
    /\ UNCHANGED <<now, finals, phase, log>>

Enough(track) == Len(track.readings) >= MinSightings
Final(track) == [text |-> Consolidate(track.readings),
                 box |-> track.readings[Strongest(track.readings)].id,
                 frame |-> track.bestFrame,
                 readings |-> track.readings]

(* idle || tooOld *)
Over(track) == now - track.lastSeen >= FinalizeAfter \/ now - track.firstSeen >= MaxTrack

(* Deviant: the tracks that are returned stay in the tracker. *)
AllTracks(q) == q

(* tracks_.erase *)
StillOpen(q) == Select(q, {i \in DOMAIN q : ~Over(q[i])})

(* finalizePlates: the caller has reported what it got before. *)
CollectFinalized ==
    /\ phase = "running" /\ finals = {}
    /\ finals' = {Final(tracks[i]) : i \in {j \in 1..Len(tracks) :
                                              Over(tracks[j]) /\ Enough(tracks[j])}}
    /\ tracks' = StillOpen(tracks)
    /\ UNCHANGED <<now, phase, added, log>>

FlushAll ==
    /\ phase = "running" /\ finals = {}
    /\ phase' = "flushing"
    /\ finals' = {Final(tracks[i]) : i \in {j \in 1..Len(tracks) : Enough(tracks[j])}}
    /\ tracks' = <<>>
    /\ UNCHANGED <<now, added, log>>

(* reportPlate, for one after the other. *)
Report ==
    /\ \E f \in finals : log' = Append(log, f) /\ finals' = finals \ {f}
    /\ UNCHANGED <<now, tracks, phase, added>>

(* The last one has been reported: nothing uses the tracker any more. *)
End ==
    /\ phase = "flushing" /\ finals = {}
    /\ phase' = "over"
    /\ UNCHANGED <<now, tracks, finals, added, log>>

Tick ==
    /\ now < MaxTime
    /\ now' = now + 1
    /\ UNCHANGED <<tracks, finals, phase, added, log>>

Next == Add \/ CollectFinalized \/ FlushAll \/ Report \/ End \/ Tick

Spec == Init /\ [][Next]_vars

-----------------------------------------------------------------------------
(* Properties.                                                             *)

Ids(readings) == {readings[i].id : i \in DOMAIN readings}

ReadingType ==
    [text : Seq(Nat), conf : Nat, place : Int, id : 1..added]
FinalType == [text : Seq(Nat), box : 1..added, frame : 1..added, readings : Seq(ReadingType)]

(* The type of every variable; a track has readings, and was seen last no  *)
(* earlier than first.                                                     *)
TypeOK ==
    /\ now \in 0..MaxTime
    /\ phase \in {"running", "flushing", "over"}
    /\ added \in 0..MaxReadings
    /\ \A i \in 1..Len(tracks) :
         LET t == tracks[i] IN
           /\ t.readings \in Seq(ReadingType) \ {<<>>}
           /\ 0 <= t.firstSeen /\ t.firstSeen <= t.lastSeen /\ t.lastSeen <= now
           /\ t.bestFrame \in 1..added /\ t.bestFrameConf \in Nat
    /\ finals \subseteq FinalType
    /\ log \in Seq(FinalType)

(* The scene lends itself to tracking: closeness divides the possible      *)
(* readings into plates.                                                   *)
Separated ==
    /\ \A s, t \in Sightings : Close(s, t) => Close(t, s)
    /\ \A s, t, u \in Sightings : Close(s, t) /\ Close(t, u) => Close(s, u)

(* "Groups per-frame plate readings of the same physical plate"            *)
(* (PlateTracker.h:17): in such a scene a plate never has two open tracks, *)
(* and no track mixes two plates, whatever jitter the OCR adds.            *)
OneTrackPerPlate ==
    Separated =>
      /\ \A i, j \in 1..Len(tracks) :
           i # j => ~Close(Last(tracks[i]), Last(tracks[j]))
      /\ \A i \in 1..Len(tracks) : \A k, l \in DOMAIN tracks[i].readings :
           Close(tracks[i].readings[k], tracks[i].readings[l])

Outcomes == finals \cup {log[i] : i \in DOMAIN log}

(* The vote corrects noise: a text that has more than half of a track's    *)
(* confidence behind it, as a whole, is the one reported - although the    *)
(* vote is taken on the length and on every position apart.                *)
MajorityWins ==
    \A f \in Outcomes : LET D == DOMAIN f.readings IN
      \A k \in D : LET text == f.readings[k].text IN
        2 * MapThenSumSet(LAMBDA i : f.readings[i].conf, {i \in D : f.readings[i].text = text})
            > MapThenSumSet(LAMBDA i : f.readings[i].conf, D)
          => f.text = text

(* The verification image of a report is the frame in which the reported   *)
(* box was seen: add's running maximum and consolidate's max_element agree *)
(* on the strongest reading, ties included.                                *)
ImageShowsBox == \A f \in Outcomes : f.frame = f.box

(* The texts one deletion, insertion or substitution away. *)
Letters == UNION {{s.text[i] : i \in DOMAIN s.text} : s \in Sightings}
Without(t, i) == SubSeq(t, 1, i - 1) \o SubSeq(t, i + 1, Len(t))
With(t, i, c) == SubSeq(t, 1, i) \o <<c>> \o SubSeq(t, i + 1, Len(t))
Instead(t, i, c) == [t EXCEPT ![i] = c]
Edits(t) ==
    {Without(t, i) : i \in 1..Len(t)}
    \cup {With(t, i, c) : i \in 0..Len(t), c \in Letters}
    \cup {Instead(t, i, c) : i \in 1..Len(t), c \in Letters}

Texts == {s.text : s \in Sightings}
Within ==
    LET ball[k \in Nat] ==
          IF k = 0 THEN [t \in Texts |-> {t}]
          ELSE [t \in Texts |-> ball[k - 1][t] \cup UNION {Edits(u) : u \in ball[k - 1][t]}]
    IN  [k \in 0..MaxEditDistance |-> ball[k]]

(* editDistance is the least number of edits, as far as add asks: two      *)
(* texts are within k exactly when k edits lead from one to the other.     *)
DistanceCountsEdits ==
    \A i \in 1..Len(tracks), s \in Sightings, k \in 0..MaxEditDistance :
      EditDistance(s.text, Last(tracks[i]).text) <= k
        <=> Last(tracks[i]).text \in Within[k][s.text]

(* The tracker keeps PlateLog's promise: a reading is in one track, a      *)
(* track with at least MinSightings of them is reported, once, whether it  *)
(* went idle, grew too old or was flushed; no other track is; and after    *)
(* the final flush nothing is open.                                        *)
Promise == INSTANCE PlateLog
             WITH Readings <- 1..MaxReadings, Needed <- MinSightings,
                  open <- {Ids(tracks[i].readings) : i \in DOMAIN tracks}
                            \cup {Ids(f.readings) : f \in finals},
                  log <- [i \in DOMAIN log |-> Ids(log[i].readings)],
                  ended <- phase = "over"

KeepsPromise == Promise!Spec
=============================================================================
