--------------------------- MODULE WatchdogProofs ---------------------------
(***************************************************************************)
(* Proofs about the watchdog, for every timeout, period, resolution of the *)
(* clock and busy executor.  TypeOK is inductive: the age of the stamp and *)
(* the time until the next look are bounded together, so that a late look  *)
(* cannot make the next one later.  That the watchdog is a detector of     *)
(* silence, as far as safety goes, follows from it step by step.           *)
(***************************************************************************)
EXTENDS Watchdog, TLAPS

\* A unit that has streamed all the time has sent in time.
StreamInv == /\ ~interrupted => streaming
             /\ streaming => silence <= Interval

IInv == TypeOK /\ StreamInv /\ HealthyStaysUp

-----------------------------------------------------------------------------

\* A product of naturals grows with a factor.
LEMMA ProductGrows ==
  ASSUME NEW a \in Nat, NEW b \in Nat, NEW d \in Nat \ {0}, a <= b
  PROVE  a * d <= b * d
OBVIOUS

\* The limit is a number of ticks.
LEMMA MaxAgeType == MaxAge \in Nat
<1>1. (Timeout + 1) * TicksPerMs \in Nat /\ (Timeout + 1) * TicksPerMs >= TicksPerMs
  <2>1. 1 * TicksPerMs <= (Timeout + 1) * TicksPerMs
    BY ProductGrows, WatchdogAssumption
  <2>. QED
    BY <2>1, WatchdogAssumption
<1>. QED
  BY <1>1, WatchdogAssumption DEF MaxAge

\* The longest age a stamp may have does not change.
LEMMA MaxAgeConstant == MaxAge' = MaxAge
BY DEF MaxAge

\* The comparison of truncated milliseconds is one of ticks.
LEMMA ExpiredIsLater ==
  ASSUME age \in Nat
  PROVE  Expired <=> age > MaxAge
<1>. DEFINE q == age \div TicksPerMs
            r == age % TicksPerMs
<1>1. q \in Nat /\ r \in Nat /\ r < TicksPerMs /\ age = q * TicksPerMs + r
  BY WatchdogAssumption
<1>2. Timeout \in Nat /\ TicksPerMs \in Nat \ {0}
  BY WatchdogAssumption
<1>3. Expired <=> q > Timeout
  BY DEF Expired
<1>. HIDE DEF q, r
<1>4. CASE q > Timeout
  <2>1. (Timeout + 1) * TicksPerMs <= q * TicksPerMs
    BY <1>1, <1>2, <1>4, ProductGrows
  <2>. QED
    BY <1>1, <1>2, <1>3, <1>4, <2>1 DEF MaxAge
<1>5. CASE q <= Timeout
  <2>1. q * TicksPerMs <= Timeout * TicksPerMs
    BY <1>1, <1>2, <1>5, ProductGrows
  <2>2. (Timeout + 1) * TicksPerMs = Timeout * TicksPerMs + TicksPerMs
    BY <1>2
  <2>. QED
    BY <1>1, <1>2, <1>3, <1>5, <2>1, <2>2 DEF MaxAge
<1>. QED
  BY <1>1, <1>2, <1>4, <1>5

\* A timer that is called is due again within a period.
LEMMA RearmType ==
  ASSUME untilDue \in Int
  PROVE  Rearm \in 0 .. Period
BY WatchdogAssumption DEF Rearm

\* Callbacks taken before the timer is due make it late by less than MaxBusy.
LEMMA LateByLess ==
  ASSUME NEW d \in Int, d > 0, NEW b \in 1 .. MaxBusy
  PROVE  b \in 0 .. MaxBusy /\ d >= b + 1 - MaxBusy
BY WatchdogAssumption

-----------------------------------------------------------------------------
(* The invariant                                                           *)

\* The node before its constructor has configured the unit.
LEMMA InitInv == Init => IInv
<1>. SUFFICES ASSUME Init PROVE IInv
  OBVIOUS
<1>. USE WatchdogAssumption, MaxAgeType
<1>a. /\ publish_enable = FALSE /\ startup_received = FALSE /\ up = TRUE
      /\ age = 0 /\ untilDue = Period /\ busy = 0 /\ silence = 0
  BY DEF Init
<1>b. streaming \in BOOLEAN /\ interrupted \in BOOLEAN
  BY Zenon DEF Init
<1>c. ~interrupted => streaming
  BY Zenon DEF Init
<1>1. TypeOK
  <2>1. /\ publish_enable \in BOOLEAN /\ startup_received \in BOOLEAN /\ up \in BOOLEAN
        /\ publish_enable => startup_received
    BY <1>a, Zenon
  <2>2. ~publish_enable
    BY <1>a, Zenon
  <2>3. /\ age \in Nat /\ busy \in 0 .. MaxBusy /\ untilDue \in Int /\ untilDue <= Period
        /\ untilDue >= busy + 1 - MaxBusy /\ silence = age
    BY <1>a
  <2>. QED
    BY <1>b, <2>1, <2>2, <2>3 DEF TypeOK
<1>2. StreamInv /\ HealthyStaysUp
  BY <1>a, <1>c DEF StreamInv, HealthyStaysUp
<1>. QED
  BY <1>1, <1>2 DEF IInv

\* A frame of any type starts the silence anew.
LEMMA FrameInv ==
  ASSUME IInv, NEW type, OnFrame(type)
  PROVE  IInv'
<1>. USE WatchdogAssumption, MaxAgeType, MaxAgeConstant DEF OnFrame, unitVars
<1>1. TypeOK'
  BY DEF IInv, TypeOK
<1>2. StreamInv' /\ HealthyStaysUp'
  BY DEF IInv, StreamInv, HealthyStaysUp
<1>. QED
  BY <1>1, <1>2 DEF IInv

\* The watchdog starts with a fresh stamp and a whole period.
LEMMA EnableInv ==
  ASSUME IInv, EnablePublish
  PROVE  IInv'
<1>. USE WatchdogAssumption, MaxAgeType, MaxAgeConstant DEF EnablePublish, unitVars
<1>1. TypeOK'
  BY DEF IInv, TypeOK
<1>2. StreamInv' /\ HealthyStaysUp'
  BY DEF IInv, StreamInv, HealthyStaysUp
<1>. QED
  BY <1>1, <1>2 DEF IInv

\* A look that leaves the node up has seen an age within the limit, and a
\* node whose unit streams within the limit is left up.
LEMMA LookInv ==
  ASSUME IInv, Look
  PROVE  IInv'
<1>. USE WatchdogAssumption, MaxAgeType, MaxAgeConstant DEF Look, unitVars
<1>1. /\ age \in Nat /\ untilDue \in Int /\ startup_received /\ up /\ publish_enable
      /\ silence = age /\ busy = 0 /\ MaxBusy \in Nat \ {0}
  BY DEF IInv, TypeOK
<1>2. untilDue' \in 0 .. Period
  BY <1>1, RearmType
<1>3. up' \in BOOLEAN /\ (up' <=> ~(age > MaxAge))
  <2>1. up' = ~(startup_received /\ Expired)
    OBVIOUS
  <2>2. Expired <=> age > MaxAge
    BY <1>1, ExpiredIsLater
  <2>. HIDE DEF Look
  <2>. QED
    BY <1>1, <2>1, <2>2, Zenon
<1>4. TypeOK'
  BY <1>1, <1>2, <1>3 DEF IInv, TypeOK
<1>5. StreamInv'
  BY DEF IInv, StreamInv
<1>6. HealthyStaysUp'
  <2>. SUFFICES ASSUME ~interrupted, Interval <= MaxAge PROVE up'
    BY DEF HealthyStaysUp
  <2>1. age <= Interval
    BY <1>1 DEF IInv, StreamInv
  <2>. QED
    BY <1>1, <1>3, <2>1
<1>. QED
  BY <1>4, <1>5, <1>6 DEF IInv

\* Callbacks are taken when the timer is not due, so they make it late by less
\* than the longest of them.
LEMMA CallbacksInv ==
  ASSUME IInv, TakeCallbacks
  PROVE  IInv'
<1>. USE WatchdogAssumption, MaxAgeType, MaxAgeConstant
<1>1. /\ UNCHANGED <<publish_enable, startup_received, up, age, untilDue, silence,
                     streaming, interrupted>>
      /\ busy' \in 1 .. MaxBusy /\ untilDue > 0
  BY DEF TakeCallbacks, nodeVars, unitVars
<1>2. /\ untilDue \in Int /\ busy' \in 0 .. MaxBusy
      /\ untilDue' >= busy' + 1 - MaxBusy
  <2>1. untilDue \in Int
    BY DEF IInv, TypeOK
  <2>. QED
    BY <1>1, <2>1, LateByLess
<1>3. TypeOK'
  <2>1. publish_enable => startup_received
    BY DEF IInv, TypeOK
  <2>2. up /\ publish_enable => age + untilDue <= MaxAge + Period
    BY DEF IInv, TypeOK
  <2>3. /\ publish_enable \in BOOLEAN /\ startup_received \in BOOLEAN /\ up \in BOOLEAN
        /\ streaming \in BOOLEAN /\ interrupted \in BOOLEAN
        /\ age \in Nat /\ untilDue <= Period /\ silence = age
    BY DEF IInv, TypeOK
  <2>. QED
    BY <1>1, <1>2, <2>1, <2>2, <2>3 DEF TypeOK
<1>4. StreamInv' /\ HealthyStaysUp'
  BY <1>1 DEF IInv, StreamInv, HealthyStaysUp
<1>. QED
  BY <1>3, <1>4 DEF IInv

\* Time adds to the age what it takes from the time until the timer is due.
LEMMA TickInv ==
  ASSUME IInv, Tick
  PROVE  IInv'
<1>. USE WatchdogAssumption, MaxAgeType, MaxAgeConstant DEF Tick, nodeVars, unitVars
<1>1. TypeOK'
  BY DEF IInv, TypeOK
<1>2. StreamInv' /\ HealthyStaysUp'
  BY DEF IInv, TypeOK, StreamInv, HealthyStaysUp
<1>. QED
  BY <1>1, <1>2 DEF IInv

\* What the unit does changes no clock.
LEMMA UnitInv ==
  ASSUME IInv, FallSilent \/ ComeBack
  PROVE  IInv'
<1>. USE WatchdogAssumption, MaxAgeType, MaxAgeConstant
<1>1. UNCHANGED <<publish_enable, startup_received, up, age, untilDue, busy, silence>>
  BY DEF FallSilent, ComeBack, nodeVars, timeVars
<1>2. streaming' \in BOOLEAN /\ interrupted' \in BOOLEAN
  BY Zenon DEF FallSilent, ComeBack, IInv, TypeOK
<1>3. TypeOK'
  BY <1>1, <1>2 DEF IInv, TypeOK
<1>4. StreamInv'
  <2>1. CASE FallSilent
    BY <2>1 DEF FallSilent, StreamInv
  <2>2. CASE ComeBack
    BY <1>1, <2>2 DEF ComeBack, IInv, TypeOK, StreamInv
  <2>. QED
    BY <2>1, <2>2
<1>5. HealthyStaysUp'
  BY <1>1, <1>2 DEF FallSilent, ComeBack, IInv, TypeOK, HealthyStaysUp
<1>. QED
  BY <1>3, <1>4, <1>5 DEF IInv

\* Every step preserves the invariant.
LEMMA StepInv == IInv /\ [Next]_vars => IInv'
<1>. SUFFICES ASSUME IInv, [Next]_vars PROVE IInv'
  OBVIOUS
<1>1. CASE SendFrame
  BY <1>1, FrameInv DEF SendFrame
<1>2. CASE UNCHANGED vars
  BY <1>2 DEF vars, nodeVars, timeVars, unitVars, IInv, TypeOK, StreamInv, HealthyStaysUp
<1>. QED
  BY <1>1, <1>2, EnableInv, LookInv, CallbacksInv, TickInv, UnitInv DEF Next

\* Whatever the executor does, a look is late by less than the callbacks of one
\* wait, and age and time until it are bounded together.
THEOREM LooksAreBounded == Spec => []TypeOK
<1>1. IInv => TypeOK
  BY DEF IInv
<1>. QED
  BY <1>1, InitInv, StepInv, PTL DEF Spec

\* For every timeout and every rate within it, a unit that streams all along
\* is never taken for silent.
THEOREM HealthyNeverStopped == Spec => []HealthyStaysUp
<1>1. IInv => HealthyStaysUp
  BY DEF IInv
<1>. QED
  BY <1>1, InitInv, StepInv, PTL DEF Spec

-----------------------------------------------------------------------------
(* The watchdog is a detector of silence                                   *)

\* Before a tick the silence is below its bound: the timer is not due yet, or
\* it is late by less than the callbacks under way.
LEMMA TickElapses ==
  ASSUME IInv, Tick
  PROVE  Detector!Elapse
<1>. USE WatchdogAssumption, MaxAgeType, MaxAgeConstant DEF Tick, nodeVars
<1>1. /\ age + untilDue <= MaxAge + Period
      /\ untilDue >= busy + 1 - MaxBusy /\ silence = age
      /\ age \in Nat /\ untilDue \in Int /\ busy \in Nat
  BY DEF IInv, TypeOK
<1>2. silence < LongestSilence
  BY <1>1 DEF LongestSilence
<1>. QED
  BY <1>2 DEF Detector!Elapse

\* A look stops the node only after a silence beyond the limit.
LEMMA LookStops ==
  ASSUME IInv, Look
  PROVE  Detector!Stop \/ UNCHANGED <<publish_enable, silence, up>>
<1>1. age \in Nat /\ silence = age
  BY DEF IInv, TypeOK
<1>2. CASE up'
  BY <1>2 DEF Look
<1>3. CASE ~up'
  <2>1. silence > MaxAge
    BY <1>1, <1>3, ExpiredIsLater DEF Look
  <2>2. up' = FALSE
    BY <1>3 DEF Look
  <2>. QED
    BY <2>1, <2>2 DEF Look, Detector!Stop
<1>. QED
  BY <1>2, <1>3

\* Every step of the watchdog is one of the detector, or leaves it as it is.
LEMMA StepDetects ==
  IInv /\ [Next]_vars => [Detector!DetectorNext]_(Detector!detectorVars)
<1>. SUFFICES ASSUME IInv, [Next]_vars
              PROVE  [Detector!DetectorNext]_(Detector!detectorVars)
  OBVIOUS
<1>. USE DEF Detector!DetectorNext, Detector!detectorVars
<1>1. CASE EnablePublish
  BY <1>1 DEF EnablePublish, Detector!Start
<1>2. CASE Look
  BY <1>2, LookStops
<1>3. CASE TakeCallbacks
  BY <1>3 DEF TakeCallbacks, nodeVars
<1>4. CASE Tick
  BY <1>4, TickElapses
<1>5. CASE SendFrame
  BY <1>5 DEF SendFrame, OnFrame, Detector!Hear
<1>6. CASE FallSilent \/ ComeBack
  BY <1>6 DEF FallSilent, ComeBack, nodeVars, timeVars
<1>7. CASE UNCHANGED vars
  BY <1>7 DEF vars, nodeVars, timeVars
<1>. QED
  BY <1>1, <1>2, <1>3, <1>4, <1>5, <1>6, <1>7 DEF Next

DetectorSafety == Detector!DetectorInit /\ [][Detector!DetectorNext]_(Detector!detectorVars)

\* The watchdog does what a detector of silence may do and nothing else: no
\* silence outlasts the timeout by more than the period and the callbacks of one
\* wait, and the node is not stopped before the timeout.
THEOREM WatchdogIsDetector == Spec => DetectorSafety
<1>1. Init => Detector!DetectorInit
  BY DEF Init, Detector!DetectorInit
<1>. QED
  BY <1>1, InitInv, StepInv, StepDetects, PTL DEF Spec, DetectorSafety
=============================================================================
