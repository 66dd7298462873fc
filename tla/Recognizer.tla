----------------------------- MODULE Recognizer -----------------------------
(***************************************************************************)
(* processing/OpenCvDnnPlateRecognizer.cpp: what is made of the networks'  *)
(* answers.  A box is the set of the cells it covers, on one axis; scores  *)
(* are percentages.  A network is modelled by what it marks: a sequence of *)
(* [box, scores, glyphs], the scores by class, the glyphs what the OCR     *)
(* network says of it.  Run on a part of the image it marks what it sees   *)
(* of the same things.  Scaling to the network's input and back is exact.  *)
(***************************************************************************)
EXTENDS Integers, SequencesExt, Subsequences

CONSTANTS
    VehicleClasses,   \* vehicle.classIds
    RoiExpand,        \* vehicle.roiExpand, in percent
    DetThreshold,     \* confidenceThreshold of both detectors
    OcrThreshold,
    NmsThreshold,     \* nmsThreshold, in percent
    PadChar

Shifted(box, by) == {x + by : x \in box}

(* The best of the allowed classes; an empty filter allows all. *)
BestClass(mark, filter) ==
    LET allowed == IF filter = {} THEN DOMAIN mark.scores ELSE filter \cap DOMAIN mark.scores
    IN  IF allowed = {} THEN -1 ELSE Max({mark.scores[c] : c \in allowed})

(* The rows that pass the threshold and the image, in the coordinates of   *)
(* the image the network ran on, which begins at cell origin.              *)
Candidates(marks, view, origin, filter) ==
    LET seen(mark) == [box |-> Shifted(mark.box \cap view, -origin),
                       score |-> BestClass(mark, filter), glyphs |-> mark.glyphs]
        rows == [k \in DOMAIN marks |-> seen(marks[k])]
    IN  Select(rows, {k \in DOMAIN rows : rows[k].score >= DetThreshold /\ rows[k].box # {}})

(* The candidates that stay ahead of candidate k, and k itself, in a       *)
(* stable sort by falling score.                                           *)
NoLater(candidates, k) ==
    LET score(j) == candidates[j].score
    IN  {j \in DOMAIN candidates : score(j) > score(k) \/ (score(j) = score(k) /\ j <= k)}

ByScore(candidates) ==
    [i \in DOMAIN candidates |->
       candidates[CHOOSE k \in DOMAIN candidates : Cardinality(NoLater(candidates, k)) = i]]

Overlap(a, b) == 100 * Cardinality(a.box \cap b.box) > NmsThreshold * Cardinality(a.box \cup b.box)

(* cv::dnn::NMSBoxes: of the scores above the threshold, by falling score, *)
(* what does not overlap a box that is kept.                               *)
WithBox(kept, c) ==
    IF c.score <= DetThreshold \/ \E k \in DOMAIN kept : Overlap(kept[k], c)
    THEN kept ELSE Append(kept, c)

NMSBoxes(candidates) == FoldLeft(WithBox, <<>>, ByScore(candidates))

(* runYoloDetection *)
RunYolo(marks, view, origin, filter) == NMSBoxes(Candidates(marks, view, origin, filter))

(* The vehicle's box, grown on both sides, within the image. *)
Roi(vehicle, image) ==
    LET dx == (Cardinality(vehicle.box) * RoiExpand) \div 200
    IN  ((Min(vehicle.box) - dx)..(Max(vehicle.box) + dx)) \cap image

(* Deviant: the candidate stays in the coordinates of the region. *)
RegionLocal(candidate, roi) == candidate

(* "ROI-local -> frame coordinates." *)
ToFrame(candidate, roi) == [candidate EXCEPT !.box = Shifted(@, Min(roi))]

(* "One physical plate per vehicle: keep only the strongest candidate."    *)
(* NMSBoxes puts it first, and max_element takes the first of the best.    *)
PlateOf(vehicle, frame) ==
    LET roi == Roi(vehicle, frame.image)
        found == RunYolo(frame.plates, roi, Min(roi), {})
    IN  IF found = <<>> THEN <<>> ELSE <<ToFrame(found[1], roi)>>

Vehicles(frame) == RunYolo(frame.vehicles, frame.image, 0, VehicleClasses)

(* detectPlates.  "Plates without a vehicle are ignored." *)
DetectPlates(frame, vehicleFirst) ==
    IF vehicleFirst
    THEN LET vehicles == Vehicles(frame)
             bearing == {k \in DOMAIN vehicles : PlateOf(vehicles[k], frame) # <<>>}
         IN  [k \in DOMAIN Select(vehicles, bearing) |->
                PlateOf(Select(vehicles, bearing)[k], frame)[1]]
    ELSE RunYolo(frame.plates, frame.image, 0, {})

(* readPlate: the best character of every slot, pads left out of the text  *)
(* but not of the mean confidence.                                         *)
Text(glyphs) ==
    LET written(g) == g.char # PadChar
    IN  [k \in DOMAIN SelectSeq(glyphs, written) |-> SelectSeq(glyphs, written)[k].char]

Readable(glyphs) ==
    LET add(sum, g) == sum + g.score
    IN  Text(glyphs) # <<>> /\ FoldLeft(add, 0, glyphs) >= OcrThreshold * Len(glyphs)

(* recognize *)
Recognize(frame, vehicleFirst) ==
    LET found == DetectPlates(frame, vehicleFirst)
    IN  Select(found, {k \in DOMAIN found : Readable(found[k].glyphs)})
=============================================================================
