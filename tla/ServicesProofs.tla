---------------------------- MODULE ServicesProofs ----------------------------
(***************************************************************************)
(* The services' safety, for any forms, registers and number of requests:  *)
(* type correctness, the life of the calibration thread, what is saved in  *)
(* CONFIG and the correction of published orientations.                    *)
(*                                                                         *)
(* The inductive invariant has one part per question.  TypeInv bounds the  *)
(* positions in the sequences.  ThreadInv ties active and joinable to      *)
(* where the calibration thread is.  SavedInv follows the registers of a   *)
(* request up to its SAVE.  ZeroInv says which references are complete     *)
(* while the callback walks through the forms, and ReadInv what a reader   *)
(* that nothing disturbed has read.                                        *)
(***************************************************************************)
EXTENDS Services, TLAPS

\* Where the callback is.
PcType ==
  /\ pc \in {"spin", "join", "start", "zero", "mag", "down", "closed"}
  /\ step \in 0 .. Len(Orientation) + Len(MagRegister) + 1
  /\ requests \in 0 .. MaxRequests /\ applied \in 0 .. requests
  /\ pc = "zero" => step \in 1 .. Len(Orientation) + 1
  /\ pc = "mag" => step \in 1 .. Len(MagRegister) + 1

\* Where the calibration thread is.
WorkerType ==
  /\ worker \in {"none", "measure", "write", "save", "clear", "finish", "exiting", "exited"}
  /\ wstep \in 0 .. Len(BiasRegister) + Len(Orientation)
  /\ measuring \in 0 .. requests
  /\ worker = "write" => wstep \in 1 .. Len(BiasRegister)
  /\ worker = "clear" => wstep \in 1 .. Len(Orientation)

FlagType ==
  joinable \in BOOLEAN /\ active \in BOOLEAN /\ terminated \in BOOLEAN /\ quiet \in BOOLEAN

FormType ==
  /\ seen \subseteq Form /\ taken \subseteq seen
  /\ zeroed \in [Form -> BOOLEAN]
  /\ reading \in {Idle} \cup [form : Form, flag : BOOLEAN]

ReferenceType ==
  /\ reference \in [Form -> {Torn} \cup 0 .. requests]
  /\ latestZero \in [Form -> 0 .. requests]

UnitType ==
  /\ mode \in Modes
  /\ register \in [Register -> 0 .. requests] /\ saved \in [Register -> 0 .. requests]
  /\ faults \in 0 .. MaxFaults

TypeInv == PcType /\ WorkerType /\ FlagType /\ FormType /\ ReferenceType /\ UnitType

ThreadInv ==
  /\ ~terminated
  /\ worker \in {"none", "exiting", "exited"}
                  \cup {"measure", "write", "save", "clear", "finish"}
  /\ active <=> worker \in {"measure", "write", "save", "clear", "finish"}
  /\ ~joinable => worker \in {"none", "exited"}
  /\ joinable => worker # "none"
  /\ pc = "start" => ~joinable
  /\ pc = "join" => joinable /\ ~active

SavedInv ==
  mode = "CONFIG" /\ faults = 0 =>
    /\ pc # "mag" /\ applied # 0
         => \A r \in Elements(MagRegister) : register[r] = applied /\ saved[r] = applied
    /\ pc = "mag"
         => \A i \in 1 .. Len(MagRegister) : i < step => register[MagRegister[i]] = requests

\* The correction of form f is the one it should have.
Exact(f) == IF zeroed[f] THEN reference[f] = latestZero[f] ELSE latestZero[f] = NotZeroed

ZeroInv ==
  /\ pc # "zero" => \A f \in Form : Exact(f)
  /\ pc = "zero" => \A i \in 1 .. Len(Orientation) :
       IF Orientation[i] \notin taken THEN Exact(Orientation[i])
       ELSE i < step => Exact(Orientation[i]) /\ reference[Orientation[i]] = requests
  /\ \A f \in Form : ~zeroed[f] => latestZero[f] = NotZeroed

ReadInv == reading # Idle /\ quiet => pc # "zero" /\ reading.flag = zeroed[reading.form]

-----------------------------------------------------------------------------
(* Type correctness                                                        *)

\* The lengths of the sequences of registers are natural numbers.
LEMMA Lengths ==
  /\ Len(Orientation) \in Nat /\ Len(Orientation) > 0
  /\ Len(BiasRegister) \in Nat /\ Len(BiasRegister) > 0
  /\ Len(MagRegister) \in Nat
BY ServicesAssumption

\* Registers at a position belong to the set of their sequence.
LEMMA Members ==
  /\ \A i \in 1 .. Len(Orientation) : Orientation[i] \in Form
  /\ \A i \in 1 .. Len(BiasRegister) : BiasRegister[i] \in Register
  /\ \A i \in 1 .. Len(MagRegister) : MagRegister[i] \in Register
BY DEF Form, Register, Elements

\* The number of faults is bounded by a number.
LEMMA FaultLimit == MaxFaults \in Nat
BY ServicesAssumption

\* A function stays one when a value changes.
LEMMA ExceptType ==
  ASSUME NEW D, NEW S, NEW f \in [D -> S], NEW d, NEW v \in S
  PROVE  [f EXCEPT ![d] = v] \in [D -> S]
OBVIOUS

\* The types hold when the services are created.
LEMMA TypeInit == Init => TypeInv
<1>. SUFFICES ASSUME Init PROVE TypeInv
  OBVIOUS
<1>. USE ServicesAssumption, Lengths DEF Init
<1>1. PcType
  BY DEF PcType
<1>2. WorkerType
  BY DEF WorkerType
<1>3. FlagType
  BY DEF FlagType
<1>4. FormType
  BY DEF FormType
<1>5. ReferenceType
  BY DEF ReferenceType, NotZeroed
<1>6. UnitType
  BY DEF UnitType
<1>. QED
  BY <1>1, <1>2, <1>3, <1>4, <1>5, <1>6 DEF TypeInv

\* What the unit holds stays in range whatever it makes of a command.
LEMMA RegisterType ==
  ASSUME TypeInv, NEW r \in Register, NEW value \in 0 .. requests, WriteRegister(r, value)
  PROVE  /\ mode' \in Modes /\ faults' \in 0 .. MaxFaults
         /\ register' \in [Register -> 0 .. requests]
         /\ saved' \in [Register -> 0 .. requests]
<1>1. register' = register \/ register' = [register EXCEPT ![r] = value]
  BY DEF WriteRegister, Obeys, unitVars
<1>2. /\ mode' = mode /\ saved' = saved
      /\ faults' = faults \/ (faults < MaxFaults /\ faults' = faults + 1)
  BY DEF WriteRegister, Obeys, unitVars
<1>3. /\ mode \in Modes /\ register \in [Register -> 0 .. requests]
      /\ saved \in [Register -> 0 .. requests] /\ faults \in 0 .. MaxFaults
  BY DEF TypeInv, UnitType
<1>4. register' \in [Register -> 0 .. requests]
  BY <1>1, <1>3, ExceptType
<1>5. faults' \in 0 .. MaxFaults
  BY <1>2, <1>3, FaultLimit
<1>. QED
  BY <1>2, <1>3, <1>4, <1>5

\* A SAVE keeps what is saved well typed.
LEMMA SaveType ==
  ASSUME TypeInv, Save
  PROVE  /\ mode' \in Modes /\ faults' \in 0 .. MaxFaults
         /\ register' \in [Register -> 0 .. requests]
         /\ saved' \in [Register -> 0 .. requests]
<1>1. /\ mode \in Modes /\ register \in [Register -> 0 .. requests]
      /\ saved \in [Register -> 0 .. requests] /\ faults \in 0 .. MaxFaults
  BY DEF TypeInv, UnitType
<1>2. /\ mode' = mode /\ register' = register
      /\ saved' = saved \/ saved' = register
      /\ faults' = faults \/ (faults < MaxFaults /\ faults' = faults + 1)
  BY DEF Save, Obeys, unitVars
<1>3. faults' \in 0 .. MaxFaults
  BY <1>1, <1>2, FaultLimit
<1>. QED
  BY <1>1, <1>2, <1>3

\* The number of the latest request only grows.
LEMMA RequestsGrow ==
  ASSUME PcType, [Next]_vars
  PROVE  requests' = requests \/ (requests < MaxRequests /\ requests' = requests + 1)
BY DEF Next, WorkerStep, CallbackStep, NewRequest, vars, callbackVars,
       Measure, WriteBias, SaveBias, ClearZeroed, Finish, Exit,
       CalibrateRequest, JoinWorker, StartCalibration,
       ZeroRequest, ZeroReference, ZeroFlag, ZeroSkip, ZeroRespond,
       MagRequest, WriteMag, SaveMag, EndSpin, JoinAtExit, BeginPublish, EndPublish

\* Every step keeps the executor at a known place.
LEMMA PcTypeStep == PcType /\ [Next]_vars => PcType'
<1>. SUFFICES ASSUME PcType, [Next]_vars PROVE PcType'
  OBVIOUS
<1>. USE ServicesAssumption, Lengths DEF PcType
<1>1. ASSUME UNCHANGED callbackVars PROVE PcType'
  BY <1>1 DEF callbackVars
<1>2. CASE WorkerStep \/ EndPublish \/ (\E f \in Form : BeginPublish(f)) \/ UNCHANGED vars
  BY <1>1, <1>2 DEF WorkerStep, Measure, WriteBias, SaveBias, ClearZeroed, Finish, Exit,
                    BeginPublish, EndPublish, vars
<1>3. CASE CalibrateRequest \/ ZeroRequest \/ MagRequest
  BY <1>3 DEF CalibrateRequest, ZeroRequest, MagRequest, NewRequest
<1>4. CASE EndSpin \/ JoinAtExit \/ JoinWorker \/ StartCalibration \/ ZeroRespond
  BY <1>4 DEF EndSpin, JoinAtExit, JoinWorker, StartCalibration, ZeroRespond
<1>5. CASE ZeroReference \/ ZeroFlag \/ ZeroSkip
  BY <1>5, SMTT(30) DEF ZeroReference, ZeroFlag, ZeroSkip, callbackVars
<1>6. CASE WriteMag \/ SaveMag
  BY <1>6 DEF WriteMag, SaveMag
<1>. QED
  BY <1>2, <1>3, <1>4, <1>5, <1>6 DEF Next, CallbackStep

\* Every step keeps the calibration thread at a known place.
LEMMA WorkerTypeStep == TypeInv /\ [Next]_vars => WorkerType'
<1>. SUFFICES ASSUME PcType, WorkerType, [Next]_vars PROVE WorkerType'
  BY DEF TypeInv
<1>1. /\ requests \in Nat /\ requests' \in Nat /\ requests <= requests'
      /\ Len(Orientation) \in Nat /\ Len(Orientation) > 0
      /\ Len(BiasRegister) \in Nat /\ Len(BiasRegister) > 0
  BY RequestsGrow, Lengths, ServicesAssumption DEF PcType
<1>. USE <1>1 DEF WorkerType
<1>2. ASSUME UNCHANGED <<worker, wstep, measuring>> PROVE WorkerType'
  BY <1>2
<1>3. CASE Measure
  BY <1>3 DEF Measure
<1>4. CASE WriteBias
  BY <1>4 DEF WriteBias
<1>5. CASE SaveBias
  BY <1>5 DEF SaveBias
<1>6. CASE ClearZeroed
  BY <1>6 DEF ClearZeroed
<1>7. CASE Finish \/ Exit
  BY <1>7 DEF Finish, Exit
<1>8. CASE StartCalibration
  BY <1>8 DEF StartCalibration
<1>9. CASE JoinWorker \/ JoinAtExit
  BY <1>2, <1>9 DEF JoinWorker, JoinAtExit
<1>10. CASE \/ CalibrateRequest \/ ZeroRequest \/ MagRequest \/ EndSpin
            \/ ZeroReference \/ ZeroFlag \/ ZeroSkip \/ ZeroRespond \/ WriteMag \/ SaveMag
  BY <1>2, <1>10 DEF CalibrateRequest, ZeroRequest, MagRequest, EndSpin, ZeroReference,
                     ZeroFlag, ZeroSkip, ZeroRespond, WriteMag, SaveMag, workerVars
<1>11. CASE EndPublish \/ (\E f \in Form : BeginPublish(f)) \/ UNCHANGED vars
  BY <1>2, <1>11 DEF EndPublish, BeginPublish, vars, workerVars
<1>. QED
  BY <1>3, <1>4, <1>5, <1>6, <1>7, <1>8, <1>9, <1>10, <1>11 DEF Next, WorkerStep, CallbackStep

\* Every step keeps the flags Boolean.
LEMMA FlagTypeStep == FlagType /\ [Next]_vars => FlagType'
<1>. SUFFICES ASSUME FlagType, [Next]_vars PROVE FlagType'
  OBVIOUS
<1>. USE DEF FlagType
<1>1. CASE WorkerStep
  BY <1>1 DEF WorkerStep, Measure, WriteBias, SaveBias, ClearZeroed, Finish, Exit, threadVars
<1>2. CASE CalibrateRequest \/ ZeroRequest \/ MagRequest \/ EndSpin
  BY <1>2 DEF CalibrateRequest, ZeroRequest, MagRequest, EndSpin, workerVars, threadVars
<1>3. CASE JoinWorker \/ StartCalibration \/ JoinAtExit
  BY <1>3 DEF JoinWorker, StartCalibration, JoinAtExit
<1>4. CASE ZeroReference \/ ZeroFlag \/ ZeroSkip \/ ZeroRespond \/ WriteMag \/ SaveMag
  BY <1>4 DEF ZeroReference, ZeroFlag, ZeroSkip, ZeroRespond, WriteMag, SaveMag,
              workerVars, threadVars
<1>5. CASE EndPublish \/ (\E f \in Form : BeginPublish(f)) \/ UNCHANGED vars
  BY <1>5 DEF EndPublish, BeginPublish, vars, workerVars, threadVars
<1>. QED
  BY <1>1, <1>2, <1>3, <1>4, <1>5 DEF Next, CallbackStep

\* Every step keeps the sets of forms among the orientations.
LEMMA FormTypeStep == TypeInv /\ [Next]_vars => FormType'
<1>. SUFFICES ASSUME FormType, WorkerType, PcType, [Next]_vars PROVE FormType'
  BY DEF TypeInv
<1>. USE DEF FormType
<1>1. ASSUME UNCHANGED <<seen, taken, zeroed, reading>> PROVE FormType'
  BY <1>1
<1>2. CASE Measure \/ WriteBias \/ SaveBias \/ Finish \/ Exit
  BY <1>1, <1>2 DEF Measure, WriteBias, SaveBias, Finish, Exit, zeroVars, publishVars
<1>3. CASE ClearZeroed
  BY <1>3 DEF ClearZeroed, publishVars
<1>4. CASE CalibrateRequest \/ MagRequest \/ EndSpin
  BY <1>1, <1>4 DEF CalibrateRequest, MagRequest, EndSpin, zeroVars, publishVars
<1>5. CASE JoinWorker \/ StartCalibration \/ JoinAtExit
  BY <1>1, <1>5 DEF JoinWorker, StartCalibration, JoinAtExit, zeroVars, publishVars
<1>6. CASE ZeroRequest
  BY <1>6 DEF ZeroRequest, publishVars
<1>7. CASE ZeroReference
  BY <1>1, <1>7 DEF ZeroReference, publishVars
<1>8. CASE ZeroFlag
  BY <1>8 DEF ZeroFlag, publishVars
<1>9. CASE ZeroSkip \/ ZeroRespond \/ WriteMag \/ SaveMag
  BY <1>1, <1>9 DEF ZeroSkip, ZeroRespond, WriteMag, SaveMag, zeroVars, publishVars
<1>10. ASSUME NEW f \in Form, BeginPublish(f) PROVE FormType'
  BY <1>10 DEF BeginPublish, zeroVars
<1>11. CASE EndPublish
  BY <1>11 DEF EndPublish, zeroVars
<1>12. CASE UNCHANGED vars
  BY <1>1, <1>12 DEF vars, zeroVars, publishVars
<1>. QED
  BY <1>2, <1>3, <1>4, <1>5, <1>6, <1>7, <1>8, <1>9, <1>10, <1>11, <1>12
     DEF Next, WorkerStep, CallbackStep

\* Every step keeps the references well typed.
LEMMA ReferenceTypeStep == TypeInv /\ [Next]_vars => ReferenceType'
<1>. SUFFICES ASSUME PcType, ReferenceType, [Next]_vars PROVE ReferenceType'
  BY DEF TypeInv
<1>1. /\ requests \in Nat /\ requests' \in Nat /\ requests <= requests'
  BY RequestsGrow, ServicesAssumption DEF PcType
<1>. USE <1>1 DEF ReferenceType
<1>2. ASSUME UNCHANGED <<reference, latestZero>> PROVE ReferenceType'
  BY <1>2
<1>3. CASE Measure \/ WriteBias \/ SaveBias \/ Finish \/ Exit
  BY <1>2, <1>3 DEF Measure, WriteBias, SaveBias, Finish, Exit, zeroVars
<1>4. CASE ClearZeroed
  <2>1. NotZeroed \in 0 .. requests
    BY DEF NotZeroed
  <2>2. latestZero' \in [Form -> 0 .. requests]
    BY <1>4, <2>1, ExceptType DEF ClearZeroed
  <2>. QED
    BY <1>4, <2>2 DEF ClearZeroed, callbackVars
<1>5. CASE CalibrateRequest \/ ZeroRequest \/ MagRequest \/ EndSpin
  BY <1>2, <1>5 DEF CalibrateRequest, ZeroRequest, MagRequest, EndSpin, zeroVars
<1>6. CASE JoinWorker \/ StartCalibration \/ JoinAtExit
  BY <1>2, <1>6 DEF JoinWorker, StartCalibration, JoinAtExit, zeroVars
<1>7. CASE ZeroReference
  <2>. DEFINE v == IF reference[Zeroing] = Torn THEN requests ELSE Torn
  <2>1. reference' = [reference EXCEPT ![Zeroing] = v]
    BY <1>7 DEF ZeroReference
  <2>2. v \in {Torn} \cup 0 .. requests
    OBVIOUS
  <2>. HIDE DEF v
  <2>3. reference' \in [Form -> {Torn} \cup 0 .. requests]
    BY <2>1, <2>2, ExceptType
  <2>. QED
    BY <1>7, <2>3 DEF ZeroReference, callbackVars
<1>8. CASE ZeroFlag
  <2>1. requests \in 0 .. requests /\ requests' = requests /\ reference' = reference
    BY <1>8 DEF ZeroFlag
  <2>2. latestZero' = [latestZero EXCEPT ![Zeroing] = requests]
    BY <1>8 DEF ZeroFlag
  <2>3. latestZero' \in [Form -> 0 .. requests]
    BY <2>1, <2>2, ExceptType
  <2>. QED
    BY <2>1, <2>3
<1>9. CASE ZeroSkip \/ ZeroRespond \/ WriteMag \/ SaveMag
  BY <1>2, <1>9 DEF ZeroSkip, ZeroRespond, WriteMag, SaveMag, zeroVars
<1>10. CASE EndPublish \/ (\E f \in Form : BeginPublish(f)) \/ UNCHANGED vars
  BY <1>2, <1>10 DEF EndPublish, BeginPublish, vars, zeroVars
<1>. QED
  BY <1>3, <1>4, <1>5, <1>6, <1>7, <1>8, <1>9, <1>10 DEF Next, WorkerStep, CallbackStep

\* Every step keeps the unit's registers well typed.
LEMMA UnitTypeStep == TypeInv /\ [Next]_vars => UnitType'
<1>. SUFFICES ASSUME TypeInv, [Next]_vars PROVE UnitType'
  OBVIOUS
<1>1. /\ requests \in Nat /\ requests' \in Nat /\ requests <= requests'
  BY RequestsGrow, ServicesAssumption DEF TypeInv, PcType
<1>2. ASSUME UNCHANGED unitVars PROVE UnitType'
  BY <1>1, <1>2 DEF TypeInv, UnitType, unitVars
<1>3. CASE WriteBias
  <2>1. BiasRegister[wstep] \in Register /\ measuring \in 0 .. requests
    BY <1>3, Members DEF WriteBias, TypeInv, WorkerType
  <2>. QED
    BY <1>1, <1>3, <2>1, RegisterType DEF WriteBias, UnitType
<1>4. CASE WriteMag
  <2>1. MagRegister[step] \in Register /\ requests \in 0 .. requests
    BY <1>1, <1>4, Members DEF WriteMag, TypeInv, PcType
  <2>. QED
    BY <1>1, <1>4, <2>1, RegisterType DEF WriteMag, UnitType
<1>5. CASE SaveBias
  BY <1>1, <1>5, SaveType DEF SaveBias, UnitType
<1>6. CASE SaveMag
  <2>1. CASE Save
    BY <1>1, <2>1, SaveType DEF UnitType
  <2>2. CASE faults < MaxFaults /\ faults' = faults + 1 /\ UNCHANGED <<mode, register, saved>>
    BY <1>1, <2>2, ServicesAssumption DEF TypeInv, UnitType
  <2>. QED
    BY <1>6, <2>1, <2>2 DEF SaveMag
<1>7. CASE Measure \/ ClearZeroed \/ Finish \/ Exit
  BY <1>2, <1>7 DEF Measure, ClearZeroed, Finish, Exit
<1>8. CASE CalibrateRequest \/ ZeroRequest \/ MagRequest \/ EndSpin
  BY <1>2, <1>8 DEF CalibrateRequest, ZeroRequest, MagRequest, EndSpin
<1>9. CASE JoinWorker \/ StartCalibration \/ JoinAtExit
  BY <1>2, <1>9 DEF JoinWorker, StartCalibration, JoinAtExit
<1>10. CASE ZeroReference \/ ZeroFlag \/ ZeroSkip \/ ZeroRespond
  BY <1>2, <1>10 DEF ZeroReference, ZeroFlag, ZeroSkip, ZeroRespond
<1>11. CASE EndPublish \/ (\E f \in Form : BeginPublish(f)) \/ UNCHANGED vars
  BY <1>2, <1>11 DEF EndPublish, BeginPublish, vars
<1>. QED
  BY <1>3, <1>4, <1>5, <1>6, <1>7, <1>8, <1>9, <1>10, <1>11 DEF Next, WorkerStep, CallbackStep

\* Every step preserves the types.
LEMMA TypeStep == TypeInv /\ [Next]_vars => TypeInv'
BY PcTypeStep, WorkerTypeStep, FlagTypeStep, FormTypeStep, ReferenceTypeStep, UnitTypeStep
   DEF TypeInv

\* TypeOK for any forms, registers and bounds: among others, only forms that came
\* in a frame are zeroed, and no register or reference is of a request to come.
THEOREM ServicesTypeCorrect == Spec => []TypeOK
<1>1. TypeInv => TypeOK
  BY DEF TypeInv, TypeOK, PcType, WorkerType, FlagType, FormType, ReferenceType, UnitType
<1>. QED
  BY <1>1, TypeInit, TypeStep, PTL DEF Spec

-----------------------------------------------------------------------------
(* The life of the calibration thread                                      *)

\* There is no calibration thread at first.
LEMMA ThreadInit == Init => ThreadInv
BY DEF Init, ThreadInv

\* Every step keeps the flag and the thread object in agreement.
LEMMA ThreadStep == ThreadInv /\ [Next]_vars => ThreadInv'
<1>. SUFFICES ASSUME ThreadInv, [Next]_vars PROVE ThreadInv'
  OBVIOUS
<1>. USE DEF ThreadInv

\* Steps that leave the threads alone.
<1>1. ASSUME UNCHANGED <<worker, threadVars>>,
             pc' = pc \/ pc' \notin {"start", "join"}
      PROVE  ThreadInv'
  BY <1>1 DEF threadVars
<1>2. CASE Measure
  BY <1>2 DEF Measure, callbackVars, threadVars
<1>3. CASE WriteBias
  BY <1>3 DEF WriteBias, callbackVars, threadVars
<1>4. CASE SaveBias
  BY <1>4 DEF SaveBias, callbackVars, threadVars
<1>5. CASE ClearZeroed
  BY <1>5 DEF ClearZeroed, callbackVars, threadVars
<1>6. CASE Finish
  BY <1>6 DEF Finish, callbackVars
<1>7. CASE Exit
  BY <1>7 DEF Exit, callbackVars, threadVars
<1>8. CASE CalibrateRequest
  BY <1>8 DEF CalibrateRequest, NewRequest, workerVars, threadVars
<1>9. CASE JoinWorker
  BY <1>9 DEF JoinWorker
<1>10. CASE StartCalibration
  BY <1>10 DEF StartCalibration
<1>11. CASE ZeroRequest \/ MagRequest \/ EndSpin
  BY <1>1, <1>11 DEF ZeroRequest, MagRequest, EndSpin, workerVars
<1>12. CASE ZeroReference \/ ZeroFlag \/ ZeroSkip \/ ZeroRespond
  BY <1>1, <1>12
     DEF ZeroReference, ZeroFlag, ZeroSkip, ZeroRespond, callbackVars, workerVars
<1>13. CASE WriteMag \/ SaveMag
  BY <1>1, <1>13 DEF WriteMag, SaveMag, workerVars
<1>14. CASE JoinAtExit
  BY <1>14 DEF JoinAtExit
<1>15. CASE EndPublish \/ (\E f \in Form : BeginPublish(f))
  BY <1>1, <1>15 DEF EndPublish, BeginPublish, callbackVars, workerVars
<1>16. CASE UNCHANGED vars
  BY <1>1, <1>16 DEF vars, callbackVars, workerVars
<1>. QED
  BY <1>2, <1>3, <1>4, <1>5, <1>6, <1>7, <1>8, <1>9, <1>10, <1>11, <1>12, <1>13, <1>14,
     <1>15, <1>16 DEF Next, WorkerStep, CallbackStep

\* CalibrationsDoNotOverlap for every number of requests: a calibration thread is
\* joined before the next is started, and only when it has done its work.
THEOREM CalibrationsSeparate == Spec => []CalibrationsDoNotOverlap
<1>1. ThreadInv => CalibrationsDoNotOverlap
  BY DEF ThreadInv, CalibrationsDoNotOverlap
<1>. QED
  BY <1>1, ThreadInit, ThreadStep, PTL DEF Spec

-----------------------------------------------------------------------------
(* What the unit keeps in CONFIG                                           *)

Trusted == mode = "CONFIG" /\ faults = 0

\* Nothing has been applied at first.
LEMMA SavedInit == Init => SavedInv
BY DEF Init, SavedInv

\* A command in a unit that obeys does what it says, and faults stay.
LEMMA Obeyed ==
  ASSUME UnitType, Trusted', NEW r, NEW value
  PROVE  /\ WriteRegister(r, value)
              => Trusted /\ register' = [register EXCEPT ![r] = value] /\ saved' = saved
         /\ Save => Trusted /\ saved' = register /\ register' = register
BY ServicesAssumption DEF UnitType, Trusted, WriteRegister, Save, Obeys, unitVars

\* Every step preserves what is known of a request's registers.
LEMMA SavedStep == TypeInv /\ SavedInv /\ [Next]_vars => SavedInv'
<1>. SUFFICES ASSUME TypeInv, SavedInv, [Next]_vars, Trusted' PROVE SavedInv'
  BY DEF SavedInv, Trusted
<1>. USE Lengths DEF TypeInv, SavedInv, Trusted
<1>1. ASSUME UNCHANGED <<unitVars, applied>>, pc' # "mag", pc # "mag" PROVE SavedInv'
  BY <1>1 DEF unitVars
<1>2. ASSUME UNCHANGED <<unitVars, callbackVars>> PROVE SavedInv'
  BY <1>2 DEF unitVars, callbackVars
<1>3. CASE WriteBias
  <2>1. BiasRegister[wstep] \notin Elements(MagRegister)
    BY <1>3, ServicesAssumption DEF WriteBias, WorkerType, Elements
  <2>2. /\ mode = "CONFIG" /\ faults = 0 /\ saved' = saved
        /\ register' = [register EXCEPT ![BiasRegister[wstep]] = measuring]
    BY <1>3, Obeyed DEF WriteBias
  <2>3. \A r \in Elements(MagRegister) : register'[r] = register[r]
    BY <2>1, <2>2 DEF UnitType, Register
  <2>4. \A i \in 1 .. Len(MagRegister) : MagRegister[i] \in Elements(MagRegister)
    BY DEF Elements
  <2>. QED
    BY <1>3, <2>2, <2>3, <2>4 DEF WriteBias, callbackVars
<1>4. CASE SaveBias
  BY <1>4, Obeyed DEF SaveBias, callbackVars
<1>5. CASE WriteMag
  <2>1. /\ mode = "CONFIG" /\ faults = 0
        /\ register' = [register EXCEPT ![MagRegister[step]] = requests]
    BY <1>5, Obeyed DEF WriteMag
  <2>2. \A i \in 1 .. Len(MagRegister) : i < step + 1 => register'[MagRegister[i]] = requests
    BY <1>5, <2>1, Members DEF WriteMag, UnitType, PcType
  <2>. QED
    BY <1>5, <2>1, <2>2 DEF WriteMag
<1>6. CASE SaveMag
  <2>1. CASE Save /\ applied' = requests
    <3>1. /\ mode = "CONFIG" /\ faults = 0 /\ saved' = register /\ register' = register
      BY <2>1, Obeyed
    <3>2. \A r \in Elements(MagRegister) : register[r] = requests
      BY <1>6, <3>1 DEF SaveMag, Elements, PcType
    <3>. QED
      BY <1>6, <2>1, <3>1, <3>2 DEF SaveMag
  <2>2. CASE faults' = faults + 1
    BY <2>2 DEF UnitType
  <2>. QED
    BY <1>6, <2>1, <2>2 DEF SaveMag
<1>7. CASE MagRequest
  BY <1>7 DEF MagRequest, NewRequest, PcType, unitVars
<1>8. CASE CalibrateRequest \/ ZeroRequest \/ EndSpin
  BY <1>1, <1>8 DEF CalibrateRequest, ZeroRequest, EndSpin, NewRequest
<1>9. CASE JoinWorker \/ StartCalibration \/ JoinAtExit
  BY <1>1, <1>9 DEF JoinWorker, StartCalibration, JoinAtExit
<1>10. CASE ZeroReference \/ ZeroFlag \/ ZeroSkip \/ ZeroRespond
  BY <1>1, <1>10 DEF ZeroReference, ZeroFlag, ZeroSkip, ZeroRespond, callbackVars
<1>11. CASE Measure \/ ClearZeroed \/ Finish \/ Exit
  BY <1>2, <1>11 DEF Measure, ClearZeroed, Finish, Exit
<1>12. CASE EndPublish \/ (\E f \in Form : BeginPublish(f)) \/ UNCHANGED vars
  BY <1>2, <1>12 DEF EndPublish, BeginPublish, vars
<1>. QED
  BY <1>3, <1>4, <1>5, <1>6, <1>7, <1>8, <1>9, <1>10, <1>11, <1>12
     DEF Next, WorkerStep, CallbackStep

\* SavedInConfig for any registers and any number of requests: what a
\* magnetometer request was answered for is saved, and calibrations do not harm it.
THEOREM AppliedIsSaved == Spec => []SavedInConfig
<1>1. SavedInv => SavedInConfig
  BY DEF SavedInv, SavedInConfig
<1>. QED
  BY <1>1, TypeInit, TypeStep, SavedInit, SavedStep, PTL DEF Spec

-----------------------------------------------------------------------------
(* The correction of published orientations                                *)

\* No reference is set at first.
LEMMA ZeroInit == Init => ZeroInv
BY DEF Init, ZeroInv, Exact

\* Every step preserves what is known of the references.
LEMMA ZeroStep == TypeInv /\ ZeroInv /\ [Next]_vars => ZeroInv'
<1>. SUFFICES ASSUME TypeInv, ZeroInv, [Next]_vars PROVE ZeroInv'
  OBVIOUS
<1>. USE Lengths, Members DEF TypeInv, ZeroInv, Exact
<1>1. ASSUME UNCHANGED zeroVars, pc # "zero", pc' # "zero" PROVE ZeroInv'
  BY <1>1 DEF zeroVars
<1>2. ASSUME UNCHANGED <<zeroVars, callbackVars>> PROVE ZeroInv'
  BY <1>2 DEF zeroVars, callbackVars
<1>3. CASE ClearZeroed
  <2>. DEFINE g == Orientation[wstep]
  <2>1. /\ g \in Form
        /\ zeroed' = [zeroed EXCEPT ![g] = FALSE]
        /\ latestZero' = [latestZero EXCEPT ![g] = NotZeroed]
    BY <1>3 DEF ClearZeroed, WorkerType
  <2>. HIDE DEF g
  <2>2. /\ \A f \in Form : ~zeroed'[f] => latestZero'[f] = NotZeroed
        /\ \A f \in Form : Exact(f) => Exact(f)'
    BY <1>3, <2>1 DEF ClearZeroed, FormType, ReferenceType
  <2>. QED
    BY <1>3, <2>2 DEF ClearZeroed, callbackVars
<1>4. CASE ZeroRequest
  BY <1>4 DEF ZeroRequest, NewRequest
<1>5. CASE ZeroReference
  <2>1. /\ Zeroing \in Form /\ reference[Zeroing] # requests
        /\ \E v : reference' = [reference EXCEPT ![Zeroing] = v]
        /\ pc = "zero" /\ Zeroing \in taken
        /\ UNCHANGED <<callbackVars, taken, zeroed, latestZero>>
    BY <1>5 DEF ZeroReference, FormType
  <2>2. \A i \in 1 .. Len(Orientation) :
          i < step \/ Orientation[i] \notin taken => Orientation[i] # Zeroing
    BY <2>1
  <2>3. \A i \in 1 .. Len(Orientation) :
          i < step \/ Orientation[i] \notin taken
            => reference'[Orientation[i]] = reference[Orientation[i]]
    BY <2>1, <2>2 DEF ReferenceType
  <2>. QED
    BY <2>1, <2>3 DEF callbackVars
<1>6. CASE ZeroFlag
  <2>1. /\ Zeroing \in Form /\ reference[Zeroing] = requests
        /\ zeroed' = [zeroed EXCEPT ![Zeroing] = TRUE]
        /\ latestZero' = [latestZero EXCEPT ![Zeroing] = requests]
        /\ step' = step + 1 /\ pc = "zero"
        /\ UNCHANGED <<pc, requests, taken, reference>>
    BY <1>6 DEF ZeroFlag, FormType
  <2>2. /\ zeroed'[Zeroing] = TRUE /\ latestZero'[Zeroing] = requests
        /\ \A f \in Form \ {Zeroing} : zeroed'[f] = zeroed[f] /\ latestZero'[f] = latestZero[f]
    BY <2>1 DEF FormType, ReferenceType
  <2>3. \A i \in 1 .. Len(Orientation) : i < step' => i < step \/ Orientation[i] = Zeroing
    BY <2>1 DEF PcType, Zeroing
  <2>. QED
    BY <2>1, <2>2, <2>3, SMTT(30)
<1>7. CASE ZeroSkip
  <2>1. \A i \in 1 .. Len(Orientation) : i < step' => i < step \/ Orientation[i] = Zeroing
    BY <1>7 DEF ZeroSkip, PcType, Zeroing
  <2>. QED
    BY <1>7, <2>1 DEF ZeroSkip, zeroVars
<1>8. CASE ZeroRespond
  <2>1. \A f \in Form : \E i \in 1 .. Len(Orientation) : f = Orientation[i]
    BY DEF Form, Elements
  <2>2. \A i \in 1 .. Len(Orientation) : i < step
    BY <1>8 DEF ZeroRespond, PcType
  <2>. QED
    BY <1>8, <2>1, <2>2 DEF ZeroRespond, zeroVars
<1>9. CASE CalibrateRequest \/ MagRequest \/ EndSpin
  BY <1>1, <1>9 DEF CalibrateRequest, MagRequest, EndSpin, NewRequest
<1>10. CASE JoinWorker \/ StartCalibration \/ JoinAtExit \/ WriteMag \/ SaveMag
  BY <1>1, <1>10 DEF JoinWorker, StartCalibration, JoinAtExit, WriteMag, SaveMag
<1>11. CASE Measure \/ WriteBias \/ SaveBias \/ Finish \/ Exit
  BY <1>2, <1>11 DEF Measure, WriteBias, SaveBias, Finish, Exit
<1>12. CASE EndPublish \/ (\E f \in Form : BeginPublish(f)) \/ UNCHANGED vars
  BY <1>2, <1>12 DEF EndPublish, BeginPublish, vars
<1>. QED
  BY <1>3, <1>4, <1>5, <1>6, <1>7, <1>8, <1>9, <1>10, <1>11, <1>12
     DEF Next, WorkerStep, CallbackStep

\* No message is being corrected at first.
LEMMA ReadInit == Init => ReadInv
BY DEF Init, ReadInv

\* Every step preserves what is known of an undisturbed reader.
LEMMA ReadStep == TypeInv /\ ReadInv /\ [Next]_vars => ReadInv'
<1>. SUFFICES ASSUME TypeInv, ReadInv, [Next]_vars PROVE ReadInv'
  OBVIOUS
<1>. USE DEF ReadInv
<1>1. ASSUME UNCHANGED <<reading, quiet, zeroed>>, pc' = pc \/ pc' # "zero" PROVE ReadInv'
  BY <1>1
<1>2. CASE Measure \/ WriteBias \/ SaveBias \/ Finish \/ Exit
  BY <1>1, <1>2
     DEF Measure, WriteBias, SaveBias, Finish, Exit, zeroVars, publishVars, callbackVars
<1>3. CASE ClearZeroed
  BY <1>3 DEF ClearZeroed, publishVars
<1>4. CASE CalibrateRequest \/ MagRequest \/ EndSpin
  BY <1>1, <1>4 DEF CalibrateRequest, MagRequest, EndSpin, zeroVars, publishVars
<1>5. CASE ZeroRequest
  BY <1>5 DEF ZeroRequest, publishVars
<1>6. CASE JoinWorker \/ StartCalibration \/ JoinAtExit \/ WriteMag \/ SaveMag
  BY <1>1, <1>6 DEF JoinWorker, StartCalibration, JoinAtExit, WriteMag, SaveMag,
                    zeroVars, publishVars
<1>7. CASE ZeroReference \/ ZeroSkip \/ ZeroRespond
  BY <1>1, <1>7 DEF ZeroReference, ZeroSkip, ZeroRespond, zeroVars, publishVars, callbackVars
<1>8. CASE ZeroFlag
  BY <1>8 DEF ZeroFlag, publishVars
<1>9. ASSUME NEW f \in Form, BeginPublish(f) PROVE ReadInv'
  BY <1>9 DEF BeginPublish, callbackVars, zeroVars
<1>10. CASE EndPublish
  BY <1>10 DEF EndPublish
<1>11. CASE UNCHANGED vars
  BY <1>1, <1>11 DEF vars, zeroVars, publishVars, callbackVars
<1>. QED
  BY <1>2, <1>3, <1>4, <1>5, <1>6, <1>7, <1>8, <1>9, <1>10, <1>11
     DEF Next, WorkerStep, CallbackStep

\* A publication ends in EndPublish only.
LEMMA PublicationEnds ==
  ASSUME [Next]_vars, reading # Idle, reading' = Idle
  PROVE  EndPublish
BY DEF Next, WorkerStep, CallbackStep, vars, zeroVars, publishVars, callbackVars,
       Measure, WriteBias, SaveBias, ClearZeroed, Finish, Exit,
       CalibrateRequest, JoinWorker, StartCalibration,
       ZeroRequest, ZeroReference, ZeroFlag, ZeroSkip, ZeroRespond,
       MagRequest, WriteMag, SaveMag, EndSpin, JoinAtExit, BeginPublish

\* The action of QuietMessageExact.
ExactStep ==
  reading # Idle /\ reading' = Idle /\ quiet => published'.by = latestZero[reading.form]

\* QuietMessageExact for any forms and any number of requests: an orientation that
\* nothing disturbs while it is published is corrected by the latest zeroing.
THEOREM QuietIsExact == Spec => QuietMessageExact
<1>1. TypeInv /\ ZeroInv /\ ReadInv /\ [Next]_vars => [ExactStep]_vars
  <2>. SUFFICES ASSUME TypeInv, ZeroInv, ReadInv, [Next]_vars,
                       reading # Idle, reading' = Idle, quiet
                PROVE  published'.by = latestZero[reading.form]
    BY DEF ExactStep
  <2>1. EndPublish
    BY PublicationEnds
  <2>2. reading.form \in Form /\ reading.flag = zeroed[reading.form] /\ pc # "zero"
    BY DEF TypeInv, FormType, ReadInv
  <2>3. Exact(reading.form)
    BY <2>2 DEF ZeroInv
  <2>. QED
    BY <2>1, <2>2, <2>3 DEF EndPublish, Exact
<1>2. QuietMessageExact <=> [][ExactStep]_vars
  BY DEF QuietMessageExact, ExactStep
<1>. QED
  BY <1>1, <1>2, TypeInit, TypeStep, ZeroInit, ZeroStep, ReadInit, ReadStep, PTL DEF Spec
=============================================================================
