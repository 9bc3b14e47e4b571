----------------------------- MODULE MagCalAction -----------------------------
(***************************************************************************)
(* The magnetometer calibration action server: its callbacks run on the    *)
(* threads of a MultiThreadedExecutor, all in one reentrant group.         *)
(*                                                                         *)
(* A goal is accepted when `calibrating' is false, and its execution is    *)
(* queued in the executor; the thread that takes it clears the samples,    *)
(* sets `calibrating', and polls until there are enough samples or the     *)
(* goal is being cancelled.  It keeps its thread all that time: samples,   *)
(* cancel requests and other goals need another one.                       *)
(*                                                                         *)
(* One step is one access to what the callbacks share.  The clients, the   *)
(* executor's queue and the topic /oscp/raw are external: a request is     *)
(* handled when a thread is free, a message that finds none is dropped.    *)
(* A sample is a member of one of two counts: those whose callback found   *)
(* `calibrating' set since the samples were last cleared, and the stale    *)
(* ones, whose callback had found it set before.  A copy of the list of    *)
(* samples is one access (the interpreter's lock is held), as are a length *)
(* and an append.                                                          *)
(***************************************************************************)
EXTENDS Integers, FiniteSets

CONSTANTS
  Goal,     \* goals that clients send
  Thread,   \* the executor's threads
  Target,   \* target_samples
  None      \* no goal

ASSUME MagCalAssumption ==
  /\ IsFiniteSet(Thread) /\ Cardinality(Thread) >= 2
  /\ Target \in Nat \ {0}
  /\ None \notin Goal

VARIABLES
  calibrating,   \* self.calibrating
  fresh, stale,  \* the calibrator's samples
  pc, task,      \* thread -> what it is doing, for which goal
  late,          \* threads with a message let in before the samples were cleared
  data,          \* thread -> the copy of the samples that calibrate fits
  status,        \* goal -> its status
  queued,        \* accepted goals whose execution no thread has taken yet
  cancelling,    \* goals with a cancel request no thread has handled yet
  raced,         \* history: a goal was accepted beside one still in progress
  undercut       \* history: threads whose samples another goal cleared between
                 \* calibrate's check of their number and its copy of them

store   == <<calibrating, fresh, stale>>
fitting == <<data, undercut>>
threads == <<pc, task, late, fitting>>
goals   == <<status, queued, cancelling>>
vars == <<store, threads, goals, raced>>

Nothing == [count |-> 0, stale |-> 0]

\* sample_count and ready
SampleCount == fresh + stale
Ready == SampleCount >= Target

Init ==
  /\ calibrating = FALSE /\ fresh = 0 /\ stale = 0
  /\ pc = [t \in Thread |-> "idle"] /\ task = [t \in Thread |-> None] /\ late = {}
  /\ data = [t \in Thread |-> Nothing] /\ undercut = {}
  /\ status = [g \in Goal |-> "none"] /\ queued = {} /\ cancelling = {}
  /\ raced = FALSE

Ended   == {"succeeded", "aborted", "canceled"}
Running(g)    == \E t \in Thread : task[t] = g
InProgress(g) == g \in queued \/ Running(g)
Executes(t)   == task[t] # None

\* The locations of execute_callback between setting the flag and the result.
Collecting(t) == pc[t] \in {"loop", "poll"}

Move(t, from, to) == pc[t] = from /\ pc' = [pc EXCEPT ![t] = to]

-----------------------------------------------------------------------------
(* The clients (external)                                                  *)

Request(g) ==
  /\ status[g] = "none"
  /\ status' = [status EXCEPT ![g] = "requested"]
  /\ UNCHANGED <<store, threads, queued, cancelling, raced>>

RequestCancel(g) ==
  /\ status[g] = "accepted" /\ g \notin cancelling
  /\ cancelling' = cancelling \cup {g}
  /\ UNCHANGED <<store, threads, status, queued, raced>>

-----------------------------------------------------------------------------
(* Callbacks that give their thread back at once                           *)

\* goal_callback: one calibration at a time, by the flag.  What is accepted is
\* queued for execution.
GoalCallback(t, g) ==
  /\ pc[t] = "idle" /\ status[g] = "requested"
  /\ \E start \in BOOLEAN :
       IF calibrating \/ ~start
       THEN status' = [status EXCEPT ![g] = "rejected"] /\ UNCHANGED <<queued, raced>>
       ELSE /\ status' = [status EXCEPT ![g] = "accepted"]
            /\ queued' = queued \cup {g}
            /\ raced' = (raced \/ \E h \in Goal : InProgress(h))
  /\ UNCHANGED <<store, threads, cancelling>>

\* cancel_callback accepts for any goal that has not ended.
CancelCallback(t, g) ==
  /\ pc[t] = "idle" /\ g \in cancelling
  /\ cancelling' = cancelling \ {g}
  /\ status' = [status EXCEPT ![g] = IF @ = "accepted" THEN "canceling" ELSE @]
  /\ UNCHANGED <<store, threads, queued, raced>>

\* raw_callback reads the flag: a message that comes outside a calibration is left.
RawCallback(t) ==
  /\ calibrating
  /\ Move(t, "idle", "count")
  /\ UNCHANGED <<store, task, late, fitting, goals, raced>>

\* Mutant of CheckCount: the number of samples is not looked at.
CheckCountUnbounded(t) ==
  /\ Move(t, "count", "add")
  /\ UNCHANGED <<store, task, late, fitting, goals, raced>>

\* Mutant of CheckCount: one sample short of what is waited for.
CheckCountStopsEarly(t) ==
  \/ /\ SampleCount < Target - 1
     /\ Move(t, "count", "add")
     /\ UNCHANGED <<store, task, late, fitting, goals, raced>>
  \/ /\ SampleCount >= Target - 1
     /\ Move(t, "count", "idle")
     /\ late' = late \ {t}
     /\ UNCHANGED <<store, task, fitting, goals, raced>>

\* Then it reads the number of samples: enough are not added to.
CheckCount(t) ==
  \/ /\ SampleCount < Target
     /\ Move(t, "count", "add")
     /\ UNCHANGED <<store, task, late, fitting, goals, raced>>
  \/ /\ SampleCount >= Target
     /\ Move(t, "count", "idle")
     /\ late' = late \ {t}
     /\ UNCHANGED <<store, task, fitting, goals, raced>>

\* add_sample appends the sample, or refuses one that is not finite.
AddSample(t) ==
  /\ Move(t, "add", "idle")
  /\ IF t \in late THEN stale' = stale + 1 /\ UNCHANGED fresh
                   ELSE fresh' = fresh + 1 /\ UNCHANGED stale
  /\ late' = late \ {t}
  /\ UNCHANGED <<calibrating, task, fitting, goals, raced>>

RejectSample(t) ==
  /\ Move(t, "add", "idle")
  /\ late' = late \ {t}
  /\ UNCHANGED <<store, task, fitting, goals, raced>>

-----------------------------------------------------------------------------
(* execute_callback, which keeps its thread                                *)

Execute(t, g) ==
  /\ g \in queued
  /\ Move(t, "idle", "reset")
  /\ task' = [task EXCEPT ![t] = g]
  /\ queued' = queued \ {g}
  /\ UNCHANGED <<store, late, fitting, status, cancelling, raced>>

\* Mutant of Reset: the samples of the calibration before stay.
ResetKeepsSamples(t) ==
  /\ Move(t, "reset", "start")
  /\ fresh' = 0 /\ stale' = SampleCount
  /\ late' = {u \in Thread : pc[u] \in {"count", "add"}}
  /\ undercut' = undercut \cup {u \in Thread : pc[u] = "take"}
  /\ UNCHANGED <<calibrating, task, data, goals, raced>>

\* calibrator.reset(): whoever else collects, or is about to copy the samples,
\* loses them too.
Reset(t) ==
  /\ Move(t, "reset", "start")
  /\ fresh' = 0 /\ stale' = 0
  /\ late' = {u \in Thread : pc[u] \in {"count", "add"}}
  /\ undercut' = undercut \cup {u \in Thread : pc[u] = "take"}
  /\ UNCHANGED <<calibrating, task, data, goals, raced>>

Start(t) ==
  /\ Move(t, "start", "loop")
  /\ calibrating' = TRUE
  /\ UNCHANGED <<fresh, stale, task, late, fitting, goals, raced>>

\* while not ready
Loop(t) ==
  /\ pc[t] = "loop"
  /\ pc' = [pc EXCEPT ![t] = IF Ready THEN "copy" ELSE "poll"]
  /\ UNCHANGED <<store, task, late, fitting, goals, raced>>

\* Mutant of Poll: the loop only looks at the samples.
PollSamplesOnly(t) ==
  /\ Move(t, "poll", "loop")
  /\ UNCHANGED <<store, task, late, fitting, goals, raced>>

\* is_cancel_requested: the flag is cleared first; otherwise sleep and look again.
Poll(t) ==
  /\ pc[t] = "poll"
  /\ IF status[task[t]] = "canceling"
     THEN pc' = [pc EXCEPT ![t] = "cancel"] /\ calibrating' = FALSE
     ELSE pc' = [pc EXCEPT ![t] = "loop"] /\ UNCHANGED calibrating
  /\ UNCHANGED <<fresh, stale, task, late, fitting, goals, raced>>

End(t, outcome) ==
  /\ pc' = [pc EXCEPT ![t] = "end"]
  /\ status' = [status EXCEPT ![task[t]] = outcome]
  /\ data' = [data EXCEPT ![t] = Nothing] /\ undercut' = undercut \ {t}
  /\ UNCHANGED <<store, task, late, queued, cancelling, raced>>

\* Mutant of Canceled: the goal is not told that it is canceled.
CanceledKeepsStatus(t) ==
  /\ Move(t, "cancel", "end")
  /\ UNCHANGED <<store, task, late, fitting, goals, raced>>

Canceled(t) == pc[t] = "cancel" /\ End(t, "canceled")

\* The samples are described: an exception when there are none.
Copy(t) ==
  \/ SampleCount = 0 /\ pc[t] = "copy" /\ End(t, "aborted")
  \/ /\ SampleCount # 0
     /\ Move(t, "copy", "check")
     /\ UNCHANGED <<store, task, late, fitting, goals, raced>>

\* calibrate raises when the samples are too few,
CheckReady(t) ==
  \/ ~Ready /\ pc[t] = "check" /\ End(t, "aborted")
  \/ /\ Ready
     /\ Move(t, "check", "take")
     /\ UNCHANGED <<store, task, late, fitting, goals, raced>>

\* copies those there are,
TakeData(t) ==
  /\ Move(t, "take", "fit")
  /\ data' = [data EXCEPT ![t] = [count |-> SampleCount, stale |-> stale]]
  /\ UNCHANGED <<store, task, late, undercut, goals, raced>>

\* and fits the copy, or raises when that fails.
Fit(t) ==
  \/ pc[t] = "fit" /\ End(t, "aborted")
  \/ /\ Move(t, "fit", "succeed")
     /\ UNCHANGED <<store, task, late, fitting, goals, raced>>

Succeed(t) == pc[t] = "succeed" /\ End(t, "succeeded")

\* Mutant of Finish: the flag is left as it is.
FinishKeepsFlag(t) ==
  /\ Move(t, "end", "idle")
  /\ task' = [task EXCEPT ![t] = None]
  /\ UNCHANGED <<store, late, fitting, goals, raced>>

\* finally: the flag is cleared, on every way out.
Finish(t) ==
  /\ Move(t, "end", "idle")
  /\ calibrating' = FALSE
  /\ task' = [task EXCEPT ![t] = None]
  /\ UNCHANGED <<fresh, stale, late, fitting, goals, raced>>

-----------------------------------------------------------------------------

Work(t) == \/ CheckCount(t) \/ AddSample(t) \/ RejectSample(t)
           \/ Reset(t) \/ Start(t) \/ Loop(t) \/ Poll(t) \/ Canceled(t)
           \/ Copy(t) \/ CheckReady(t) \/ TakeData(t) \/ Fit(t) \/ Succeed(t)
           \/ Finish(t)

Serve(g) == \E t \in Thread : GoalCallback(t, g) \/ CancelCallback(t, g) \/ Execute(t, g)

Next == \/ \E g \in Goal : Request(g) \/ RequestCancel(g) \/ Serve(g)
        \/ \E t \in Thread : Work(t) \/ RawCallback(t)

\* A callback under way goes on; the executor's queue is served in order, so
\* that what is in it gets a thread when threads come free again and again.
\* Nothing obliges a client to ask or the unit to stream.
Fairness == /\ \A t \in Thread : WF_vars(Work(t))
            /\ \A g \in Goal : SF_vars(Serve(g))

Spec == Init /\ [][Next]_vars /\ Fairness

-----------------------------------------------------------------------------
(* Properties                                                              *)

\* The state keeps its shape; a thread executes exactly when it has a goal, which
\* no other thread has and which is not queued any more; and execute_callback
\* has given that goal its outcome when it comes to its `finally', not before.
TypeOK ==
  /\ calibrating \in BOOLEAN /\ raced \in BOOLEAN
  /\ fresh \in Nat /\ stale \in Nat
  /\ pc \in [Thread -> {"idle", "count", "add", "reset", "start", "loop", "poll", "cancel",
                         "copy", "check", "take", "fit", "succeed", "end"}]
  /\ task \in [Thread -> Goal \cup {None}]
  /\ \A t \in Thread : Executes(t) <=> pc[t] \notin {"idle", "count", "add"}
  /\ late \subseteq {t \in Thread : pc[t] \in {"count", "add"}}
  /\ data \in [Thread -> [count : Nat, stale : Nat]]
  /\ undercut \subseteq {t \in Thread : pc[t] \in {"take", "fit", "succeed"}}
  /\ status \in [Goal -> {"none", "requested", "rejected", "accepted", "canceling"} \cup Ended]
  /\ queued \subseteq {g \in Goal : status[g] \in {"accepted", "canceling"} /\ ~Running(g)}
  /\ cancelling \subseteq Goal
  /\ \A t, u \in Thread : Executes(t) /\ task[t] = task[u] => t = u
  /\ \A t \in Thread : Executes(t) =>
       status[task[t]] \in IF pc[t] = "end" THEN Ended ELSE {"accepted", "canceling"}

\* The buffer of samples stays within what was asked for, although the check and
\* the append are apart: each further thread may add one sample too many.
SamplesBounded == SampleCount <= Target + Cardinality(Thread) - 2

\* If no goal is accepted while another is in progress, one goal executes at a
\* time, and the flag that lets samples in is set as long as it collects them.
FlagFollowsGoal ==
  ~raced => /\ \A t, u \in Thread : Executes(t) /\ Executes(u) => t = u
            /\ \A t \in Thread : Collecting(t) => calibrating
            /\ calibrating => \E t \in Thread : Executes(t)

\* A calibration that succeeds was fitted to Target samples at least, gathered
\* since the samples were last cleared, but for one per other thread that was
\* under way then; whatever other goals and cancellations did meanwhile.  The one
\* gap is calibrate's own: it checks the number of samples before it copies them,
\* and another goal that clears them in between leaves fewer to fit.
SuccessEarned ==
  [][\A g \in Goal : status[g] # "succeeded" /\ status'[g] = "succeeded" =>
       \E t \in Thread : /\ task[t] = g
                         /\ data[t].stale < Cardinality(Thread)
                         /\ t \in undercut \/ data[t].count >= Target]_vars

\* A goal being cancelled that has a thread comes to an end, also when other
\* goals run, restart the collection or clear the flag.
CancelledGoalEnds ==
  \A g \in Goal : status[g] = "canceling" /\ Running(g) ~> status[g] \in Ended

\* While the unit streams usable samples every goal accepted comes to an end:
\* the executor has a thread for the samples, and the flag lets them in; unless
\* a goal was accepted beside another.
Streams == /\ SF_vars(\E t \in Thread : RawCallback(t))
           /\ SF_vars(\E t \in Thread : AddSample(t))

AcceptedGoalEnds ==
  Streams => \A g \in Goal : status[g] = "accepted" ~> status[g] \in Ended \/ raced

\* "The MultiThreadedExecutor allows the /oscp/raw callback to continue running
\* on another thread": while a goal collects, a thread is or comes free for it.
RawCallbackContinues ==
  \A t \in Thread : pc[t] = "poll" ~> ~Collecting(t) \/ \E u \in Thread : ~Executes(u)
=============================================================================
