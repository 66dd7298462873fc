----------------------------- MODULE MotionGate -----------------------------
(***************************************************************************)
(* processing/MotionGate.cpp: which frames deserve inference.  Whether a   *)
(* frame shows motion (the share of pixels the background subtractor marks *)
(* reaches minAreaFraction) is an input; the gate is a record of what the  *)
(* object keeps between frames.                                            *)
(***************************************************************************)
EXTENDS Integers

CONSTANTS
    WarmUp,      \* kWarmupFrames (15)
    Cooldown     \* motion.cooldownSeconds, in ticks

(* warmupFrames_, sawMotion_ and lastMotionAt_ *)
NewGate == [warmed |-> 0, saw |-> FALSE, at |-> 0]

Settling(gate) == gate.warmed < WarmUp

(* Deviant: only the first motion opens the cooldown window. *)
FirstMotion(gate, moved) == moved /\ ~gate.saw

(* Motion is remembered. *)
Noted(gate, moved) == moved

(* What shouldProcess leaves behind.  While the background model settles   *)
(* frames are counted and motion is not remembered.                        *)
AfterFrame(gate, moved, now) ==
    IF Settling(gate) THEN [gate EXCEPT !.warmed = @ + 1]
    ELSE IF Noted(gate, moved) THEN [gate EXCEPT !.saw = TRUE, !.at = now]
    ELSE gate

(* What it returns. *)
ShouldProcess(gate, moved, now) ==
    Settling(gate) \/ moved \/ (gate.saw /\ now - gate.at < Cooldown)
=============================================================================
