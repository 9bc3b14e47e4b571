------------------------------ MODULE MCWatchdog ------------------------------
(* Two ticks to the millisecond, a timer's period shorter than the timeout,   *)
(* callbacks that may keep the executor for more than a period, so that calls *)
(* of the timer are skipped, and a unit that is just quick enough.            *)
EXTENDS Watchdog

ASSUME UnitIsJustQuickEnough == Interval = MaxAge
=============================================================================
