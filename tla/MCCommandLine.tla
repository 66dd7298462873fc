--------------------------- MODULE MCCommandLine ---------------------------
(* Model-checking instance of CommandLine: a network with two new cameras  *)
(* at the factory's address and one that sends no serial number, seen      *)
(* through two interfaces on one subnet and a tunnel; configurations of    *)
(* one to three cameras; frames with a car beside a truck, and a sign.     *)
EXTENDS CommandLine, TLC

Host(serial, address, net, open, isapi) ==
    [serial |-> serial, address |-> address, from |-> address, net |-> net, open |-> open,
     sadp |-> isapi, isapi |-> isapi]

Lan == {Host("S1", 64, "lan", {8000, 554}, TRUE), Host("S2", 64, "lan", {8000}, TRUE),
        [Host(None, 65, "lan", {8000, 554}, TRUE) EXCEPT !.address = None],
        Host(None, 66, "lan", {554}, FALSE), Host("S3", 67, "vpn", {8000, 554}, TRUE)}
Adapters == <<"lan", "vpn", "lan">>
NotVpn(net) == net # "vpn"

Arg(key, value) == [key |-> key, value |-> value]
Lines == {<<>>, <<Arg("help", ""), Arg("bogus", "")>>, <<Arg("discover", ""), Arg("help", "")>>,
          <<Arg("discover", "")>>, <<Arg("image", "a"), Arg("source", "webcam")>>,
          <<Arg("source", "camera"), Arg("source", "webcam")>>, <<Arg("display", "")>>}

Pre == [color |-> "RGB", channels |-> 3, layout |-> "nhwc"]
ProfileOf(backend, vehicleFirst, installed) ==
    [engine |-> "opencv_dnn", backend |-> backend, preprocess |-> [ocr |-> Pre],
     vehicleFirst |-> vehicleFirst, installed |-> installed]
All == {"detection", "ocr", "charset", "vehicle"}
Profiles == {[generic |-> ProfileOf("cpu", FALSE, All)], [generic |-> ProfileOf("cuda", TRUE, All)],
             [generic |-> ProfileOf("cpu", TRUE, All \ {"vehicle"})],
             [other |-> ProfileOf("cpu", FALSE, All)],
             [generic |-> ProfileOf("tpu", FALSE, All)], <<>>}

Cam(id, enabled, source) == [id |-> id, enabled |-> enabled, source |-> source]
Lists == {<<>>, <<Cam(0, TRUE, "camera"), Cam(0, TRUE, "simulation")>>,
          <<Cam(2, TRUE, "camera"), Cam(0, TRUE, "simulation")>>, <<Cam(3, FALSE, "camera")>>,
          <<Cam(3, TRUE, "webcam")>>, [k \in 1..4 |-> Cam(0, TRUE, "camera")]}
Configs ==
    [readable : BOOLEAN, capture : {"simulation", "webcam"}, listed : {TRUE}, cameras : Lists,
     processing : [workers : {0, 17}, everyN : {0, 2}, profiles : Profiles, active : {"generic"}]]
    \cup [readable : {TRUE}, capture : {"camera"}, listed : {FALSE}, cameras : {<<>>},
          processing : [workers : {2}, everyN : {1}, profiles : Profiles, active : {"generic"}]]

Glyphs(char, score) == <<[char |-> char, score |-> score], [char |-> "_", score |-> 90]>>
Mark(lo, hi, score, char) ==
    [box |-> lo..hi, scores |-> 0 :> score, glyphs |-> Glyphs(char, 80)]
Car(lo, hi, class, score) == [box |-> lo..hi, scores |-> class :> score, glyphs |-> <<>>]
Scene(vehicles, marks) == [image |-> 0..19, vehicles |-> vehicles, plates |-> marks]
Scenes ==
    {Scene(<<Car(2, 9, 2, 80), Car(12, 19, 7, 70), Car(0, 1, 0, 90)>>,
           <<Mark(4, 6, 60, "A"), Mark(5, 7, 75, "B"), Mark(15, 17, 80, "C"), Mark(0, 0, 90, "S")>>),
     Scene(<<Car(2, 9, 2, 80), Car(3, 9, 2, 60)>>, <<Mark(-2, 3, 60, "A"), Mark(8, 9, 50, "_")>>),
     Scene(<<Car(2, 7, 2, 80), Car(9, 14, 2, 70)>>, <<Mark(7, 9, 60, "A"), Mark(3, 4, 30, "B")>>)}
=============================================================================
