------------------------------- MODULE Services -------------------------------
(***************************************************************************)
(* The services of the node that change its state or the unit's, once the  *)
(* constructor has configured it: stationary_calibrate, zero_orientation   *)
(* and apply_mag_config.                                                   *)
(*                                                                         *)
(* The executor's one thread runs a callback at a time, to its end.  A     *)
(* stationary calibration runs in a thread of its own, which the callback  *)
(* starts and a later callback, or the destructor, joins.  The serial      *)
(* thread publishes orientations and reads what the others write, the      *)
(* zeroing flags and references, without a lock: a reference of several    *)
(* words that is being written may be read half written.                   *)
(*                                                                         *)
(* The unit is external: as oscp_imu.h says, it obeys WR and SAVE in       *)
(* CONFIG only.  A command is lost by the line, or obeyed when it is sent. *)
(***************************************************************************)
EXTENDS Integers, Sequences, FiniteSets

CONSTANTS
  Orientation,     \* sequence: the forms an orientation is published in, as zeroed
  BiasRegister,    \* sequence: the registers of a stationary calibration
  MagRegister,     \* sequence: the registers of a magnetometer configuration
  Modes,           \* the states the unit may be in: OPERATING, as EXIT left it,
                   \* or CONFIG, when the line lost EXIT
  MaxRequests,     \* bound on service requests
  MaxFaults        \* bound on commands lost

Elements(seq) == {seq[i] : i \in 1 .. Len(seq)}
Form     == Elements(Orientation)
Register == Elements(BiasRegister) \cup Elements(MagRegister)

ASSUME ServicesAssumption ==
  /\ Orientation \in Seq(Form) \ {<<>>}
  /\ BiasRegister \in Seq(Register) \ {<<>>} /\ MagRegister \in Seq(Register)
  /\ Elements(BiasRegister) \cap Elements(MagRegister) = {}
  /\ Modes \subseteq {"OPERATING", "CONFIG"}
  /\ MaxRequests \in Nat /\ MaxFaults \in Nat

VARIABLES
  pc, step,        \* the executor's thread, and how far its callback is
  requests,        \* requests so far: the latest one's number
  applied,         \* the latest magnetometer request answered with success
  worker, wstep,   \* the calibration thread, and how far it is
  measuring,       \* the number of the request it serves
  joinable,        \* stationary_calibration_thread_.joinable()
  active,          \* stationary_calibration_active_
  terminated,      \* std::terminate: a joinable thread was assigned to
  seen,            \* forms a frame has come in: has_quat_, has_euler_, has_rotation_matrix_
  taken,           \* forms in the snapshot of the zeroing callback
  zeroed,          \* form -> its flag: zero_orientation_set_, euler_zeroed_, rotation_zeroed_
  reference,       \* form -> the request whose snapshot it holds
  reading,         \* what the serial thread is publishing, none or [form, flag]
  published,       \* its last message: form and the reference it was corrected by
  quiet,           \* history: no zeroing or clearing while it is publishing
  latestZero,      \* history: form -> the reference it should be corrected by
  mode, register, saved, faults

NotZeroed == 0
Torn == -1         \* a reference being written

callbackVars == <<pc, step, requests, applied>>
threadVars   == <<joinable, active, terminated>>
workerVars   == <<worker, wstep, measuring, threadVars>>
zeroVars     == <<taken, zeroed, reference, latestZero>>
publishVars  == <<seen, reading, published>>
unitVars     == <<mode, register, saved, faults>>
vars == <<callbackVars, workerVars, zeroVars, publishVars, quiet, unitVars>>

Idle == [form |-> "none"]

Init ==
  /\ pc = "spin" /\ step = 0 /\ requests = 0 /\ applied = 0
  /\ worker = "none" /\ wstep = 0 /\ measuring = 0
  /\ joinable = FALSE /\ active = FALSE /\ terminated = FALSE
  /\ seen = {} /\ taken = {}
  /\ zeroed = [f \in Form |-> FALSE] /\ reference = [f \in Form |-> NotZeroed]
  /\ reading = Idle /\ published = Idle /\ quiet = TRUE
  /\ latestZero = [f \in Form |-> NotZeroed]
  /\ mode \in Modes
  /\ register = [r \in Register |-> 0] /\ saved = register /\ faults = 0

-----------------------------------------------------------------------------
(* The unit (external)                                                     *)

\* What a command does to the unit: nothing when the line loses it or the unit
\* is not in CONFIG.
Obeys(effect) ==
  \/ /\ mode = "CONFIG" /\ effect
     /\ UNCHANGED <<mode, faults>>
  \/ /\ mode = "OPERATING" /\ UNCHANGED unitVars
  \/ /\ faults < MaxFaults /\ faults' = faults + 1
     /\ UNCHANGED <<mode, register, saved>>

\* write_float_register: nobody looks at its result.
WriteRegister(r, value) ==
  Obeys(register' = [register EXCEPT ![r] = value] /\ UNCHANGED saved)

Save == Obeys(saved' = register /\ UNCHANGED register)
-----------------------------------------------------------------------------
(* The stationary calibration's thread                                     *)

\* Mutant of Measure: a calibration that fails ends without clearing the flag.
MeasureReturnsEarly ==
  /\ worker = "measure"
  /\ worker' \in {"write", "exiting"}
  /\ wstep' = 1
  /\ UNCHANGED <<callbackVars, measuring, threadVars, zeroVars, publishVars, quiet, unitVars>>

\* With a raw frame there is something to average, without one it fails.  That the
\* loop ends takes a request with a finite duration, which the callback does not
\* check: CalibrationAvailableAgain and CallbacksEnd rest on it, nothing else does.
Measure ==
  /\ worker = "measure"
  /\ worker' \in {"write", "finish"}
  /\ wstep' = 1
  /\ UNCHANGED <<callbackVars, measuring, threadVars, zeroVars, publishVars, quiet, unitVars>>

WriteBias ==
  /\ worker = "write"
  /\ WriteRegister(BiasRegister[wstep], measuring)
  /\ IF wstep < Len(BiasRegister) THEN wstep' = wstep + 1 /\ UNCHANGED worker
                                  ELSE worker' = "save" /\ UNCHANGED wstep
  /\ UNCHANGED <<callbackVars, measuring, threadVars, zeroVars, publishVars, quiet>>

SaveBias ==
  /\ worker = "save"
  /\ Save
  /\ worker' = "clear" /\ wstep' = 1
  /\ UNCHANGED <<callbackVars, measuring, threadVars, zeroVars, publishVars, quiet>>

\* "Force Unzeroed State", one flag after another.
ClearZeroed ==
  /\ worker = "clear"
  /\ LET f == Orientation[wstep]
     IN  /\ zeroed' = [zeroed EXCEPT ![f] = FALSE]
         /\ latestZero' = [latestZero EXCEPT ![f] = NotZeroed]
  /\ quiet' = (reading = Idle)
  /\ IF wstep < Len(Orientation) THEN wstep' = wstep + 1 /\ UNCHANGED worker
                                 ELSE worker' = "finish" /\ UNCHANGED wstep
  /\ UNCHANGED <<callbackVars, measuring, threadVars, taken, reference, publishVars, unitVars>>

Finish ==
  /\ worker = "finish"
  /\ active' = FALSE
  /\ worker' = "exiting"
  /\ UNCHANGED <<callbackVars, wstep, measuring, joinable, terminated, zeroVars, publishVars,
                 quiet, unitVars>>

\* Mutant of Exit: the thread has the executor log its result before it ends.
ExitThroughExecutor ==
  /\ worker = "exiting" /\ pc = "spin"
  /\ worker' = "exited"
  /\ UNCHANGED <<callbackVars, wstep, measuring, threadVars, zeroVars, publishVars, quiet, unitVars>>

Exit ==
  /\ worker = "exiting"
  /\ worker' = "exited"
  /\ UNCHANGED <<callbackVars, wstep, measuring, threadVars, zeroVars, publishVars, quiet, unitVars>>

WorkerStep == Measure \/ WriteBias \/ SaveBias \/ ClearZeroed \/ Finish \/ Exit

-----------------------------------------------------------------------------
(* stationary_calibrate                                                    *)

NewRequest == /\ pc = "spin" /\ requests < MaxRequests
              /\ requests' = requests + 1

\* Mutant of CalibrateRequest: the thread that ended is not joined.
CalibrateWithoutJoin ==
  /\ NewRequest
  /\ pc' = IF joinable /\ active THEN "spin" ELSE "start"
  /\ UNCHANGED <<step, applied, workerVars, zeroVars, publishVars, quiet, unitVars>>

\* "Already in progress", or the thread that ended is joined before the next.
CalibrateRequest ==
  /\ NewRequest
  /\ pc' = IF ~joinable THEN "start" ELSE IF active THEN "spin" ELSE "join"
  /\ UNCHANGED <<step, applied, workerVars, zeroVars, publishVars, quiet, unitVars>>

JoinWorker ==
  /\ pc = "join" /\ worker = "exited"
  /\ joinable' = FALSE
  /\ pc' = "start"
  /\ UNCHANGED <<step, requests, applied, worker, wstep, measuring, active, terminated,
                 zeroVars, publishVars, quiet, unitVars>>

StartCalibration ==
  /\ pc = "start"
  /\ terminated' = joinable
  /\ active' = TRUE /\ joinable' = TRUE
  /\ worker' = "measure" /\ measuring' = requests
  /\ pc' = "spin"
  /\ UNCHANGED <<step, requests, applied, wstep, zeroVars, publishVars, quiet, unitVars>>

-----------------------------------------------------------------------------
(* zero_orientation                                                        *)

\* Mutant of ZeroRequest: every form is taken, whether a frame of it came or not.
ZeroRequestAll ==
  /\ NewRequest
  /\ taken' = Form
  /\ pc' = "zero"
  /\ step' = 1
  /\ quiet' = (reading = Idle)
  /\ UNCHANGED <<applied, workerVars, zeroed, reference, latestZero, publishVars, unitVars>>

\* The forms that came are taken under the lock; with none the request fails.
ZeroRequest ==
  /\ NewRequest
  /\ taken' = seen
  /\ pc' = IF seen = {} THEN "spin" ELSE "zero"
  /\ step' = 1
  /\ quiet' = (reading = Idle)
  /\ UNCHANGED <<applied, workerVars, zeroed, reference, latestZero, publishVars, unitVars>>

\* The form whose turn it is.
Zeroing == Orientation[step]

\* Its reference is written word by word, then its flag is set.
ZeroReference ==
  /\ pc = "zero" /\ step <= Len(Orientation) /\ Zeroing \in taken
  /\ reference[Zeroing] # requests
  /\ reference' = [reference EXCEPT ![Zeroing] = IF @ = Torn THEN requests ELSE Torn]
  /\ UNCHANGED <<callbackVars, workerVars, taken, zeroed, latestZero, publishVars, quiet, unitVars>>

\* Mutant of ZeroFlag: the flag is set while the reference is being written.
ZeroFlagEarly ==
  /\ pc = "zero" /\ step <= Len(Orientation) /\ Zeroing \in taken
  /\ zeroed' = [zeroed EXCEPT ![Zeroing] = TRUE]
  /\ latestZero' = [latestZero EXCEPT ![Zeroing] = requests]
  /\ step' = step + 1
  /\ UNCHANGED <<pc, requests, applied, workerVars, taken, reference, publishVars, quiet, unitVars>>

ZeroFlag ==
  /\ pc = "zero" /\ step <= Len(Orientation) /\ Zeroing \in taken
  /\ reference[Zeroing] = requests
  /\ zeroed' = [zeroed EXCEPT ![Zeroing] = TRUE]
  /\ latestZero' = [latestZero EXCEPT ![Zeroing] = requests]
  /\ step' = step + 1
  /\ UNCHANGED <<pc, requests, applied, workerVars, taken, reference, publishVars, quiet, unitVars>>

ZeroSkip ==
  /\ pc = "zero" /\ step <= Len(Orientation) /\ Zeroing \notin taken
  /\ step' = step + 1
  /\ UNCHANGED <<pc, requests, applied, workerVars, zeroVars, publishVars, quiet, unitVars>>

ZeroRespond ==
  /\ pc = "zero" /\ step > Len(Orientation)
  /\ pc' = "spin"
  /\ UNCHANGED <<step, requests, applied, workerVars, zeroVars, publishVars, quiet, unitVars>>

-----------------------------------------------------------------------------
(* apply_mag_config                                                        *)

\* A path, a file or a section that is missing or malformed fails the request.
MagRequest ==
  /\ NewRequest
  /\ pc' \in {"spin", "mag"} /\ step' = 1
  /\ UNCHANGED <<applied, workerVars, zeroVars, publishVars, quiet, unitVars>>

WriteMag ==
  /\ pc = "mag" /\ step <= Len(MagRegister)
  /\ WriteRegister(MagRegister[step], requests)
  /\ step' = step + 1
  /\ UNCHANGED <<pc, requests, applied, workerVars, zeroVars, publishVars, quiet>>

\* Mutant of SaveMag: the response is sent without a SAVE.
RespondWithoutSave ==
  /\ pc = "mag" /\ step > Len(MagRegister)
  /\ applied' = requests
  /\ pc' = "spin"
  /\ UNCHANGED <<step, requests, workerVars, zeroVars, publishVars, quiet, unitVars>>

\* "Applied and saved successfully", unless the SAVE cannot be written.
SaveMag ==
  /\ pc = "mag" /\ step > Len(MagRegister)
  /\ \/ Save /\ applied' = requests
     \/ /\ faults < MaxFaults /\ faults' = faults + 1
        /\ UNCHANGED <<applied, mode, register, saved>>
  /\ pc' = "spin"
  /\ UNCHANGED <<step, requests, workerVars, zeroVars, publishVars, quiet>>

-----------------------------------------------------------------------------
(* The destructor, in the executor's thread                                *)

EndSpin ==
  /\ pc = "spin" /\ pc' = "down"
  /\ UNCHANGED <<step, requests, applied, workerVars, zeroVars, publishVars, quiet, unitVars>>

\* It joins the serial thread, which stops publishing, and the calibration's.
JoinAtExit ==
  /\ pc = "down" /\ reading = Idle
  /\ joinable => worker = "exited"
  /\ joinable' = FALSE
  /\ pc' = "closed"
  /\ UNCHANGED <<step, requests, applied, worker, wstep, measuring, active, terminated,
                 zeroVars, publishVars, quiet, unitVars>>

CallbackStep ==
  \/ JoinWorker \/ StartCalibration
  \/ ZeroReference \/ ZeroFlag \/ ZeroSkip \/ ZeroRespond
  \/ WriteMag \/ SaveMag
  \/ JoinAtExit

-----------------------------------------------------------------------------
(* The serial thread: a publication of an orientation                      *)

\* A frame of form f comes; the flag is read.
BeginPublish(f) ==
  /\ pc \notin {"down", "closed"} /\ reading = Idle
  /\ seen' = seen \cup {f}
  /\ reading' = [form |-> f, flag |-> zeroed[f]]
  /\ published' = Idle
  /\ quiet' = (pc # "zero")
  /\ UNCHANGED <<callbackVars, workerVars, zeroVars, unitVars>>

\* The reference is read if the flag was set, and the message is published.
EndPublish ==
  /\ reading # Idle
  /\ published' = [form |-> reading.form,
                   by |-> IF reading.flag THEN reference[reading.form] ELSE NotZeroed]
  /\ reading' = Idle /\ quiet' = TRUE
  /\ UNCHANGED <<callbackVars, workerVars, zeroVars, seen, unitVars>>

Next == \/ WorkerStep
        \/ CalibrateRequest \/ ZeroRequest \/ MagRequest \/ EndSpin
        \/ CallbackStep
        \/ \E f \in Form : BeginPublish(f)
        \/ EndPublish
        \/ (pc = "closed" /\ UNCHANGED vars)

\* The three threads run.  Nothing obliges anyone to ask for a service, a frame
\* to come, or the process to be ended.
Fairness == WF_vars(WorkerStep) /\ WF_vars(CallbackStep) /\ WF_vars(EndPublish)

Spec == Init /\ [][Next]_vars /\ Fairness

-----------------------------------------------------------------------------
(* Properties                                                              *)

\* The state keeps its shape, and only forms that came in a frame are zeroed.
TypeOK ==
  /\ pc \in {"spin", "join", "start", "zero", "mag", "down", "closed"}
  /\ step \in 0 .. Len(Orientation) + Len(MagRegister) + 1
  /\ requests \in 0 .. MaxRequests /\ applied \in 0 .. requests
  /\ worker \in {"none", "measure", "write", "save", "clear", "finish", "exiting", "exited"}
  /\ wstep \in 0 .. Len(BiasRegister) + Len(Orientation)
  /\ measuring \in 0 .. requests
  /\ {joinable, active, terminated, quiet} \subseteq BOOLEAN
  /\ seen \subseteq Form /\ taken \subseteq seen
  /\ zeroed \in [Form -> BOOLEAN]
  /\ reference \in [Form -> {Torn} \cup 0 .. requests]
  /\ latestZero \in [Form -> 0 .. requests]
  /\ mode \in Modes
  /\ register \in [Register -> 0 .. requests] /\ saved \in [Register -> 0 .. requests]
  /\ faults \in 0 .. MaxFaults

\* An orientation published while nothing is being zeroed or unzeroed is corrected
\* by the latest zeroing of its form, by none after a calibration: a reference is
\* complete before its flag is set, and never half of one and half of another.
QuietMessageExact ==
  [][reading # Idle /\ reading' = Idle /\ quiet
       => published'.by = latestZero[reading.form]]_vars

\* A thread is started only when the last one was joined (or std::terminate ends
\* the process), and the executor never waits in a callback for a calibration
\* that is under way: it would serve nothing, and the watchdog would not run.
CalibrationsDoNotOverlap ==
  /\ ~terminated
  /\ pc = "join" => worker \in {"exiting", "exited"}

\* With the unit in CONFIG and no command lost, the unit keeps the magnetometer
\* configuration last answered with success, whole, whatever a calibration running
\* at the same time wrote and saved.
SavedInConfig ==
  mode = "CONFIG" /\ faults = 0 /\ pc # "mag" /\ applied # 0
    => \A r \in Elements(MagRegister) : saved[r] = applied

\* A calibration that was started, with frames or without, leaves room for another.
CalibrationAvailableAgain == active ~> ~active

\* Every callback, and the destructor, comes to its end, a calibration running or not.
CallbacksEnd == pc \notin {"spin", "closed"} ~> pc \in {"spin", "closed"}

\* "Magnetometer configuration applied and saved successfully": what was answered
\* is what the unit has saved.
AppliedMeansSaved ==
  pc # "mag" /\ applied # 0 => \A r \in Elements(MagRegister) : saved[r] = applied
=============================================================================
