--------------------------- MODULE SilenceDetector ---------------------------
(***************************************************************************)
(* What a watchdog on a stream of frames promises, in discrete time: it    *)
(* stops the node after a silence longer than the limit and never after a  *)
(* shorter one, before the silence exceeds a bound, and in the end it does *)
(* so unless a frame comes.                                                *)
(***************************************************************************)
EXTENDS Integers

CONSTANTS Limit,   \* the longest silence the node must survive
          Bound    \* no silence lasts longer before the node is stopped

VARIABLES on,      \* the detector has been started
          silence, \* time without a frame since then
          up

detectorVars == <<on, silence, up>>

DetectorInit == on = FALSE /\ silence = 0 /\ up = TRUE

Start  == ~on /\ on' = TRUE /\ silence' = 0 /\ UNCHANGED up
Elapse == on /\ up /\ silence < Bound /\ silence' = silence + 1 /\ UNCHANGED <<on, up>>
Hear   == up /\ silence' = 0 /\ UNCHANGED <<on, up>>
Stop   == on /\ up /\ silence > Limit /\ up' = FALSE /\ UNCHANGED <<on, silence>>

DetectorNext == Start \/ Elapse \/ Hear \/ Stop

\* Only a frame keeps time from reaching the bound, and the node from stopping.
DetectorSpec == /\ DetectorInit /\ [][DetectorNext]_detectorVars
                /\ WF_detectorVars(Elapse \/ Stop)
=============================================================================
