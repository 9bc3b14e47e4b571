------------------------------- MODULE Watchdog -------------------------------
(***************************************************************************)
(* The watchdog of the node: on_frame, in the serial thread, stamps the    *)
(* time of every frame; a timer of the executor compares it with the       *)
(* clock, and shuts the node down when it is older than the timeout.       *)
(*                                                                         *)
(* Time is discrete, TicksPerMs ticks to the millisecond to which the code *)
(* truncates the age of the stamp.  Time that does not change a decision   *)
(* does not pass: not while the executor is idle and the timer is due, not *)
(* while a unit that streams has to send.                                  *)
(*                                                                         *)
(* The executor (external) takes what is ready in one wait, due timers     *)
(* first; the callbacks of one wait keep it at most MaxBusy ticks.  They   *)
(* are those of the services, and the statistics timer, which only prints. *)
(* The unit (external) sends a frame at least every Interval ticks while   *)
(* it streams; it may fall silent and come back, and in IDLE it never      *)
(* streams.                                                                *)
(***************************************************************************)
EXTENDS Integers

CONSTANTS
  Timeout,     \* watchdog_timeout_ms; a fraction of a millisecond has no effect
  TicksPerMs,  \* ticks in a millisecond
  Period,      \* ticks between two calls of the timer: one second
  MaxBusy,     \* longest the callbacks of one wait keep the executor
  Interval     \* longest time between two frames of a unit that streams

ASSUME WatchdogAssumption ==
  /\ Timeout \in Nat
  /\ TicksPerMs \in Nat \ {0} /\ Period \in Nat \ {0}
  /\ MaxBusy \in Nat \ {0} /\ Interval \in Nat \ {0}

VARIABLES
  publish_enable,    \* the constructor has configured the unit and started the timer
  startup_received,  \* startup_received_
  up,                \* the node has not been shut down
  age,               \* time since last_frame_time_
  untilDue,          \* time until the timer is due, negative when it is late
  busy,              \* time until the executor is back from its callbacks
  streaming,         \* the unit sends frames
  silence,           \* history: time since a frame came, or the watchdog started
  interrupted        \* history: the unit has not streamed all the time

nodeVars == <<publish_enable, startup_received, up>>
timeVars == <<age, untilDue, busy, silence>>
unitVars == <<streaming, interrupted>>
vars == <<nodeVars, timeVars, unitVars>>

\* The oldest stamp whose age in milliseconds is not above the timeout.
MaxAge == (Timeout + 1) * TicksPerMs - 1

\* The longest silence: the timer has just not seen it, is due a period later,
\* and finds the executor just gone.
LongestSilence == MaxAge + Period + MaxBusy - 1

Init ==
  /\ publish_enable = FALSE /\ startup_received = FALSE /\ up = TRUE
  /\ age = 0 /\ untilDue = Period /\ busy = 0 /\ silence = 0
  /\ streaming \in BOOLEAN /\ interrupted = ~streaming

-----------------------------------------------------------------------------
(* The node                                                                *)

\* Mutant of OnFrame: only a startup frame is stamped.
OnFrameStampsStartup(type) ==
  /\ up
  /\ age' = (IF type = "startup" THEN 0 ELSE age) /\ silence' = 0
  /\ startup_received' = (startup_received \/ type = "startup")
  /\ UNCHANGED <<publish_enable, up, untilDue, busy, unitVars>>

\* on_frame: a frame of any type is stamped, a startup frame is noted.
OnFrame(type) ==
  /\ up
  /\ age' = 0 /\ silence' = 0
  /\ startup_received' = (startup_received \/ type = "startup")
  /\ UNCHANGED <<publish_enable, up, untilDue, busy, unitVars>>

\* The configuration is verified, by a startup frame; the watchdog starts.
EnablePublish ==
  /\ ~publish_enable /\ startup_received
  /\ publish_enable' = TRUE
  /\ age' = 0 /\ untilDue' = Period /\ silence' = 0
  /\ UNCHANGED <<startup_received, up, busy, unitVars>>

\* rcl_timer_call (external): the next multiple of the period that is not past.
Rearm == IF untilDue = 0 THEN Period ELSE untilDue % Period

\* Mutant of Expired: the age is not truncated, and the limit is included.
ExpiredAtLimit == age >= Timeout * TicksPerMs

\* Mutant of Expired: the two are compared in whole seconds.
ExpiredInSeconds == age \div Period > (Timeout * TicksPerMs) \div Period

\* elapsed > watchdog_timeout_ms_, in whole milliseconds
Expired == age \div TicksPerMs > Timeout

\* The timer's callback.  Shutdown ends spin, and no callback runs any more.
Look ==
  /\ publish_enable /\ up /\ busy = 0 /\ untilDue <= 0
  /\ untilDue' = Rearm
  /\ up' = ~(startup_received /\ Expired)
  /\ UNCHANGED <<publish_enable, startup_received, age, busy, silence, unitVars>>

\* The executor takes the callbacks that are ready, when the timer is not.
TakeCallbacks ==
  /\ publish_enable /\ up /\ busy = 0 /\ untilDue > 0
  /\ busy' \in 1 .. MaxBusy
  /\ UNCHANGED <<nodeVars, age, untilDue, silence, unitVars>>

-----------------------------------------------------------------------------
(* Time and the unit (external)                                            *)

\* Time counts from EnablePublish on.
Tick ==
  /\ publish_enable /\ up
  /\ busy > 0 \/ untilDue > 0
  /\ streaming => silence < Interval
  /\ age' = age + 1 /\ silence' = silence + 1 /\ untilDue' = untilDue - 1
  /\ busy' = IF busy > 0 THEN busy - 1 ELSE 0
  /\ UNCHANGED <<nodeVars, unitVars>>

\* Frames come also from a unit that does not stream: answers to SUF, during the
\* configuration, and the startup frame of a unit that restarts.
SendFrame == \E type \in {"data", "startup"} : OnFrame(type)

FallSilent ==
  /\ up /\ streaming
  /\ streaming' = FALSE /\ interrupted' = TRUE
  /\ UNCHANGED <<nodeVars, timeVars>>

ComeBack ==
  /\ up /\ ~streaming /\ silence < Interval
  /\ streaming' = TRUE
  /\ UNCHANGED <<nodeVars, timeVars, interrupted>>

-----------------------------------------------------------------------------

Next == \/ EnablePublish \/ Look \/ TakeCallbacks
        \/ Tick \/ SendFrame \/ FallSilent \/ ComeBack

\* Time passes, the executor serves a timer that is due, a unit that streams
\* sends.  Nothing obliges the unit to stream.
Fairness == WF_vars(Tick) /\ WF_vars(Look) /\ WF_vars(streaming /\ silence = Interval /\ SendFrame)

Spec == Init /\ [][Next]_vars /\ Fairness

-----------------------------------------------------------------------------
(* Properties                                                              *)

\* The variables keep their types; a timer is late by less than the callbacks of
\* one wait; and a look that lets the node go on leaves so little silence that the
\* next one is due before it exceeds the timeout by more than a period: lateness
\* does not add up from one look to the next.
TypeOK ==
  /\ publish_enable \in BOOLEAN /\ startup_received \in BOOLEAN /\ up \in BOOLEAN
  /\ streaming \in BOOLEAN /\ interrupted \in BOOLEAN
  /\ age \in Nat /\ busy \in 0 .. MaxBusy
  /\ publish_enable => startup_received
  /\ untilDue \in Int /\ untilDue <= Period
  /\ untilDue >= busy + 1 - MaxBusy
  /\ silence = age
  /\ up /\ publish_enable => age + untilDue <= MaxAge + Period

\* The timer and the stamps are a detector of silence: they stop the node only
\* when no frame came for more than the timeout, however the executor delays
\* them, and before a silence exceeds the timeout by the period and a wait.
Detector == INSTANCE SilenceDetector WITH
  Limit <- MaxAge, Bound <- LongestSilence, on <- publish_enable

DetectsSilence == Detector!DetectorSpec

\* A node whose unit has streamed all along, within the timeout, is not stopped.
HealthyStaysUp == ~interrupted /\ Interval <= MaxAge => up
=============================================================================
