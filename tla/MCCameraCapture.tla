-------------------------- MODULE MCCameraCapture --------------------------
(* Model-checking instance of CameraCapture: two cameras with different    *)
(* transports, or one video that loops, loops without a frame, or ends.    *)
EXTENDS CameraCapture, TLC

CONSTANTS c1, c2

Camera(transport, frames) ==
    [enabled |-> TRUE, source |-> "camera", transport |-> transport, frames |-> frames,
     skip |-> 0, loop |-> FALSE, realtime |-> TRUE, gated |-> FALSE]

Video(frames, skip, loop, realtime, gated) ==
    [enabled |-> TRUE, source |-> "simulation", transport |-> "unset", frames |-> frames,
     skip |-> skip, loop |-> loop, realtime |-> realtime, gated |-> gated]

Only(video) == c1 :> video @@ c2 :> [video EXCEPT !.enabled = FALSE]

Yards ==
    {c1 :> Camera("tcp", 2) @@ c2 :> Camera("udp", 1), Only(Video(3, 0, TRUE, TRUE, FALSE)),
     Only(Video(3, 0, TRUE, FALSE, TRUE)), Only(Video(0, 0, TRUE, FALSE, FALSE)),
     Only(Video(3, 1, FALSE, TRUE, TRUE))}
=============================================================================
