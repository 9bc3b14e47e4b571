------------------------- MODULE MagCalActionProofs -------------------------
(***************************************************************************)
(* Proofs about the magnetometer calibration action, for any number of     *)
(* goals and threads and any number of samples.                            *)
(*                                                                         *)
(* That the flag follows the goal rests on there being one goal in         *)
(* progress; the bounds on samples count the threads that have let a       *)
(* message in, of which one is always missing: the thread that executed    *)
(* when the last of them did.  What calibrate copies is tied to the        *)
(* samples by its check, for as long as nobody clears them in between.     *)
(***************************************************************************)
EXTENDS MagCalAction, FiniteSetTheorems, TLAPS

Busy   == {"reset", "start", "loop", "poll", "cancel", "copy", "check", "take", "fit",
           "succeed", "end"}
Fitting == {"take", "fit", "succeed"}
Messaging == {t \in Thread : pc[t] \in {"count", "add"}}
Adding    == {t \in Thread : pc[t] = "add"}

\* The flag is set by a thread that executes, and cleared before it ends.
ExecInv == calibrating => \E t \in Thread : Executes(t)

OneInv == ~raced => \A g, h \in Goal : InProgress(g) /\ InProgress(h) => g = h

CollectInv == ~raced => \A t \in Thread : Collecting(t) => calibrating

\* Not every thread has let a message in.
MessageInv == Cardinality(Messaging) <= Cardinality(Thread) - 1

\* The samples there are and those to be added; the stale ones among them.
RoomInv  == SampleCount + Cardinality(Adding) <= Target + Cardinality(Thread) - 2
StaleInv == stale + Cardinality(late) <= Cardinality(Thread) - 1

\* What is to be copied is enough, and so is what was copied.
DataInv ==
  \A t \in Thread :
    /\ pc[t] = "take" => t \in undercut \/ SampleCount >= Target
    /\ pc[t] \in {"fit", "succeed"} =>
         /\ data[t].stale < Cardinality(Thread)
         /\ t \in undercut \/ data[t].count >= Target

FlagInv    == ExecInv /\ OneInv /\ CollectInv
SamplesInv == MessageInv /\ RoomInv /\ StaleInv

-----------------------------------------------------------------------------
(* Threads and goals                                                       *)

\* No thread executes at first.
LEMMA InitThread == Init => TypeOK
<1>. SUFFICES ASSUME Init PROVE TypeOK
  OBVIOUS
<1>. USE DEF Init
<1>1. \A t \in Thread : task[t] = None /\ pc[t] = "idle"
  OBVIOUS
<1>2. \A t \in Thread : ~Executes(t)
  BY <1>1 DEF Executes
<1>3. data \in [Thread -> [count : Nat, stale : Nat]]
  BY DEF Nothing
<1>. QED
  BY <1>1, <1>2, <1>3, MagCalAssumption DEF TypeOK

\* What changes neither pc nor task, and accepts only goals that were asked for.
LEMMA GoalThread ==
  ASSUME TypeOK, NEW g \in Goal, UNCHANGED <<store, threads>>, raced' \in BOOLEAN,
         NEW s \in {"requested", "rejected", "accepted", "canceling"},
         status' = [status EXCEPT ![g] = s],
         \/ ~Running(g) /\ g \notin queued
         \/ s \in {"accepted", "canceling"} /\ status[g] \in {"accepted", "canceling"},
         queued' = queued \/ (queued' = queued \cup {g} /\ s = "accepted" /\ ~Running(g)),
         cancelling' \subseteq Goal
  PROVE  TypeOK'
<1>1. UNCHANGED <<calibrating, fresh, stale, pc, task, late, data, undercut>>
  BY DEF store, threads, fitting
<1>2. status' \in [Goal -> {"none", "requested", "rejected", "accepted", "canceling"} \cup Ended]
  BY DEF TypeOK
<1>3. queued' \subseteq {h \in Goal : status'[h] \in {"accepted", "canceling"} /\ ~Running(h)'}
  BY <1>1 DEF TypeOK, Running
<1>4. ASSUME NEW t \in Thread, task'[t] # None
      PROVE  status'[task'[t]] \in IF pc'[t] = "end" THEN Ended ELSE {"accepted", "canceling"}
  <2>1. task[t] \in Goal /\ Executes(t)
    BY <1>1, <1>4 DEF TypeOK, Executes
  <2>2. CASE task[t] # g
    BY <1>1, <2>1, <2>2 DEF TypeOK
  <2>3. CASE task[t] = g
    <3>1. Running(g)
      BY <2>3 DEF Running
    <3>2. s \in {"accepted", "canceling"} /\ pc[t] # "end"
      BY <2>1, <2>3, <3>1 DEF TypeOK, Ended
    <3>. QED
      BY <1>1, <2>1, <2>3, <3>2 DEF TypeOK
  <2>. QED
    BY <2>2, <2>3
<1>. QED
  BY <1>1, <1>2, <1>3, <1>4 DEF TypeOK, Executes, Running

\* A thread that executes goes on to another place of execute_callback.
LEMMA BusyThread ==
  ASSUME TypeOK, NEW t \in Thread, Executes(t), pc[t] # "end", NEW v \in Busy \ {"end"},
         pc' = [pc EXCEPT ![t] = v], UNCHANGED <<task, goals, raced>>,
         late' \subseteq Messaging, calibrating' \in BOOLEAN,
         fresh' \in Nat, stale' \in Nat, data' \in [Thread -> [count : Nat, stale : Nat]],
         undercut' \subseteq {u \in Thread : pc'[u] \in Fitting}
  PROVE  TypeOK'
<1>1. UNCHANGED <<task, status, queued, cancelling, raced>>
  BY DEF goals
<1>2. /\ pc'[t] = v /\ \A u \in Thread : u # t => pc'[u] = pc[u]
      /\ pc' \in [Thread -> {"idle", "count", "add"} \cup Busy]
  BY DEF TypeOK, Busy
<1>3. \A u \in Thread : Executes(u)' <=> pc'[u] \notin {"idle", "count", "add"}
  BY <1>1, <1>2 DEF TypeOK, Executes, Busy
<1>4. \A u \in Thread : Executes(u)' =>
        status'[task'[u]] \in IF pc'[u] = "end" THEN Ended ELSE {"accepted", "canceling"}
  BY <1>1, <1>2 DEF TypeOK, Executes
<1>5. late' \subseteq {u \in Thread : pc'[u] \in {"count", "add"}}
  BY <1>2 DEF TypeOK, Executes, Messaging
<1>. QED
  BY <1>1, <1>2, <1>3, <1>4, <1>5 DEF TypeOK, Executes, Running, Busy, Fitting

\* A thread takes a message, or is done with it.
LEMMA RawThread ==
  ASSUME TypeOK, NEW t \in Thread, NEW v \in {"idle", "count", "add"},
         pc[t] \in {"idle", "count", "add"}, pc' = [pc EXCEPT ![t] = v],
         (late' = late /\ v # "idle") \/ late' = late \ {t},
         UNCHANGED <<calibrating, task, fitting, goals, raced>>,
         fresh' \in Nat, stale' \in Nat
  PROVE  TypeOK'
<1>1. UNCHANGED <<task, data, undercut, status, queued, cancelling, raced>>
  BY DEF goals, fitting
<1>2. pc'[t] = v /\ \A u \in Thread : u # t => pc'[u] = pc[u]
  BY DEF TypeOK
<1>3. \A u \in Thread : Executes(u)' =>
        status'[task'[u]] \in IF pc'[u] = "end" THEN Ended ELSE {"accepted", "canceling"}
  BY <1>1, <1>2 DEF TypeOK, Executes
<1>. QED
  BY <1>1, <1>2, <1>3 DEF TypeOK, Executes, Running

\* A thread takes a queued goal, which no other thread has.
LEMMA ExecuteThread ==
  ASSUME TypeOK, NEW t \in Thread, NEW g \in Goal, Execute(t, g)
  PROVE  TypeOK'
<1>1. /\ UNCHANGED <<calibrating, fresh, stale, late, data, undercut, status, cancelling, raced>>
      /\ pc[t] = "idle" /\ pc' = [pc EXCEPT ![t] = "reset"]
      /\ task' = [task EXCEPT ![t] = g]
      /\ g \in queued /\ queued' = queued \ {g}
  BY DEF Execute, Move, store, fitting
<1>2. g # None /\ task \in [Thread -> Goal \cup {None}]
  BY MagCalAssumption DEF TypeOK
<1>3. \A u \in Thread : task[u] # g
  BY <1>1 DEF TypeOK, Running
<1>4. \A u \in Thread : u # t => task'[u] = task[u] /\ pc'[u] = pc[u]
  BY <1>1, <1>2 DEF TypeOK
<1>5. task'[t] = g /\ pc'[t] = "reset"
  BY <1>1, <1>2 DEF TypeOK
<1>6. /\ pc' \in [Thread -> {"idle", "count", "add", "reset", "start", "loop", "poll", "cancel",
                              "copy", "check", "take", "fit", "succeed", "end"}]
      /\ task' \in [Thread -> Goal \cup {None}]
  BY <1>1 DEF TypeOK
<1>7. \A u \in Thread : Executes(u)' <=> pc'[u] \notin {"idle", "count", "add"}
  BY <1>2, <1>4, <1>5 DEF TypeOK, Executes
<1>8. /\ late' \subseteq {u \in Thread : pc'[u] \in {"count", "add"}}
      /\ undercut' \subseteq {u \in Thread : pc'[u] \in {"take", "fit", "succeed"}}
  BY <1>1, <1>4 DEF TypeOK
<1>9. queued' \subseteq {h \in Goal : status'[h] \in {"accepted", "canceling"} /\ ~Running(h)'}
  BY <1>1, <1>4, <1>5 DEF TypeOK, Running
<1>10. \A u, w \in Thread : Executes(u)' /\ task'[u] = task'[w] => u = w
  BY <1>2, <1>3, <1>4, <1>5 DEF TypeOK, Executes
<1>11. \A u \in Thread : Executes(u)' =>
         status'[task'[u]] \in IF pc'[u] = "end" THEN Ended ELSE {"accepted", "canceling"}
  BY <1>1, <1>2, <1>4, <1>5 DEF TypeOK, Executes
<1>. QED
  BY <1>1, <1>6, <1>7, <1>8, <1>9, <1>10, <1>11 DEF TypeOK

\* A goal gets its outcome while its thread still has it.
LEMMA EndThread ==
  ASSUME TypeOK, NEW t \in Thread, Executes(t), NEW o \in Ended, End(t, o)
  PROVE  TypeOK'
<1>1. /\ UNCHANGED <<calibrating, fresh, stale, task, late, queued, cancelling, raced>>
      /\ pc' = [pc EXCEPT ![t] = "end"]
      /\ status' = [status EXCEPT ![task[t]] = o]
      /\ data' = [data EXCEPT ![t] = Nothing] /\ undercut' = undercut \ {t}
  BY DEF End, store
<1>2. task[t] \in Goal /\ task[t] \notin queued
  BY MagCalAssumption DEF TypeOK, Executes, Running
<1>3. pc'[t] = "end" /\ \A u \in Thread : u # t => pc'[u] = pc[u]
  BY <1>1 DEF TypeOK
<1>4. data' \in [Thread -> [count : Nat, stale : Nat]]
  BY <1>1 DEF TypeOK, Nothing
<1>5. /\ status' \in [Goal -> {"none", "requested", "rejected", "accepted", "canceling"} \cup Ended]
      /\ status'[task[t]] = o /\ \A g \in Goal : g # task[t] => status'[g] = status[g]
  BY <1>1, <1>2 DEF TypeOK
<1>6. \A u \in Thread : Executes(u)' =>
        status'[task'[u]] \in IF pc'[u] = "end" THEN Ended ELSE {"accepted", "canceling"}
  BY <1>1, <1>3, <1>5 DEF TypeOK, Executes
<1>7. \A u \in Thread : Executes(u)' <=> pc'[u] \notin {"idle", "count", "add"}
  BY <1>1, <1>3 DEF TypeOK, Executes
<1>8. queued' \subseteq {g \in Goal : status'[g] \in {"accepted", "canceling"} /\ ~Running(g)'}
  BY <1>1, <1>2, <1>5 DEF TypeOK, Running
<1>9. /\ pc' \in [Thread -> {"idle", "count", "add", "reset", "start", "loop", "poll", "cancel",
                              "copy", "check", "take", "fit", "succeed", "end"}]
      /\ late' \subseteq {u \in Thread : pc'[u] \in {"count", "add"}}
      /\ undercut' \subseteq {u \in Thread : pc'[u] \in {"take", "fit", "succeed"}}
  BY <1>1, <1>3 DEF TypeOK, Executes
<1>. QED
  BY <1>1, <1>4, <1>5, <1>6, <1>7, <1>8, <1>9 DEF TypeOK, Executes

\* A thread that has ended its goal is free.
LEMMA FinishThread ==
  ASSUME TypeOK, NEW t \in Thread, Finish(t)
  PROVE  TypeOK'
<1>1. /\ UNCHANGED <<fresh, stale, late, data, undercut, status, queued, cancelling, raced>>
      /\ pc[t] = "end" /\ pc' = [pc EXCEPT ![t] = "idle"]
      /\ task' = [task EXCEPT ![t] = None] /\ calibrating' = FALSE
  BY DEF Finish, Move, goals, fitting
<1>2. None \notin Goal
  BY MagCalAssumption
<1>3. /\ pc' \in [Thread -> {"idle", "count", "add", "reset", "start", "loop", "poll", "cancel",
                              "copy", "check", "take", "fit", "succeed", "end"}]
      /\ task' \in [Thread -> Goal \cup {None}] /\ calibrating' \in BOOLEAN
  BY <1>1 DEF TypeOK
<1>4. /\ pc'[t] = "idle" /\ task'[t] = None
      /\ \A u \in Thread : u # t => pc'[u] = pc[u] /\ task'[u] = task[u]
  BY <1>1 DEF TypeOK
<1>5. \A u \in Thread : (task'[u] # None) <=> pc'[u] \notin {"idle", "count", "add"}
  BY <1>4 DEF TypeOK, Executes
<1>6. /\ late' \subseteq {u \in Thread : pc'[u] \in {"count", "add"}}
      /\ undercut' \subseteq {u \in Thread : pc'[u] \in {"take", "fit", "succeed"}}
  BY <1>1, <1>4 DEF TypeOK
<1>7. ASSUME NEW g \in Goal, NEW u \in Thread, task'[u] = g PROVE task[u] = g
  BY <1>2, <1>4, <1>7
<1>8. \A u, v \in Thread : task'[u] # None /\ task'[u] = task'[v] => u = v
  BY <1>4 DEF TypeOK, Executes
<1>9. queued' \subseteq {g \in Goal : /\ status'[g] \in {"accepted", "canceling"}
                                     /\ ~\E u \in Thread : task'[u] = g}
  BY <1>1, <1>7 DEF TypeOK, Running
<1>10. \A u \in Thread : task'[u] # None =>
         status'[task'[u]] \in IF pc'[u] = "end" THEN Ended ELSE {"accepted", "canceling"}
  BY <1>1, <1>4 DEF TypeOK, Executes
<1>. QED
  BY <1>1, <1>3, <1>5, <1>6, <1>8, <1>9, <1>10, Zenon DEF TypeOK, Executes, Running

\* A thread that executes is nowhere else, and has a goal.
LEMMA BusyExecutes ==
  ASSUME TypeOK, NEW t \in Thread, pc[t] \in Busy
  PROVE  Executes(t) /\ task[t] \in Goal
BY MagCalAssumption DEF TypeOK, Executes, Busy

\* Who was undercut still is, when a thread goes on to where it may be.
LEMMA UndercutStays ==
  ASSUME TypeOK, NEW t \in Thread, NEW v \in Busy, pc' = [pc EXCEPT ![t] = v],
         pc[t] \notin Fitting \/ v \in Fitting, undercut' = undercut
  PROVE  undercut' \subseteq {u \in Thread : pc'[u] \in Fitting}
BY DEF TypeOK, Fitting, Busy

\* The steps of a thread that executes, up to the copy of the samples.
LEMMA CollectThread ==
  ASSUME TypeOK, NEW t \in Thread, Reset(t) \/ Start(t) \/ Loop(t) \/ Poll(t)
  PROVE  TypeOK'
<1>1. /\ fresh \in Nat /\ stale \in Nat /\ calibrating \in BOOLEAN /\ late \subseteq Messaging
      /\ data \in [Thread -> [count : Nat, stale : Nat]]
  BY DEF TypeOK, Messaging
<1>2. Executes(t)
  BY BusyExecutes DEF Reset, Start, Loop, Poll, Move, Busy
<1>3. CASE Reset(t)
  <2>1. /\ pc[t] = "reset" /\ pc' = [pc EXCEPT ![t] = "start"]
        /\ UNCHANGED <<calibrating, task, data, goals, raced>>
        /\ undercut' = undercut \cup {u \in Thread : pc[u] = "take"}
        /\ fresh' = 0 /\ stale' = 0 /\ late' = Messaging
    BY <1>3 DEF Reset, Move, Messaging
  <2>2. undercut' \subseteq {u \in Thread : pc'[u] \in Fitting}
    BY <2>1 DEF TypeOK, Fitting
  <2>. QED
    BY <1>1, <1>2, <2>1, <2>2, BusyThread DEF Busy
<1>4. ASSUME NEW v \in Busy \ {"end"}, pc' = [pc EXCEPT ![t] = v],
             pc[t] \notin Fitting \cup {"end"},
             UNCHANGED <<fresh, stale, task, late, fitting, goals, raced>>, calibrating' \in BOOLEAN
      PROVE  TypeOK'
  <2>1. undercut' \subseteq {u \in Thread : pc'[u] \in Fitting}
    BY <1>4, UndercutStays DEF fitting
  <2>2. late' \subseteq Messaging /\ data' \in [Thread -> [count : Nat, stale : Nat]]
    BY <1>1, <1>4 DEF fitting
  <2>. QED
    BY <1>1, <1>2, <1>4, <2>1, <2>2, BusyThread
<1>5. CASE Start(t)
  BY <1>4, <1>5 DEF Start, Move, Busy, Fitting
<1>6. CASE Loop(t)
  BY <1>1, <1>4, <1>6 DEF Loop, store, Busy, Fitting
<1>7. CASE Poll(t)
  BY <1>1, <1>4, <1>7 DEF Poll, Busy, Fitting
<1>. QED
  BY <1>3, <1>5, <1>6, <1>7

\* The steps from the copy on, and those with the outcome.
LEMMA ResultThread ==
  ASSUME TypeOK, NEW t \in Thread,
         Canceled(t) \/ Copy(t) \/ CheckReady(t) \/ TakeData(t) \/ Fit(t) \/ Succeed(t)
  PROVE  TypeOK'
<1>1. /\ fresh \in Nat /\ stale \in Nat /\ calibrating \in BOOLEAN /\ late \subseteq Messaging
      /\ data \in [Thread -> [count : Nat, stale : Nat]]
  BY DEF TypeOK, Messaging
<1>2. Executes(t) /\ pc[t] # "end"
  BY BusyExecutes DEF Canceled, Copy, CheckReady, TakeData, Fit, Succeed, Move, Busy
<1>3. ASSUME NEW o \in Ended, End(t, o) PROVE TypeOK'
  BY <1>2, <1>3, EndThread
<1>4. ASSUME NEW v \in Busy \ {"end"}, Move(t, pc[t], v), pc[t] \notin Fitting \/ v \in Fitting,
             UNCHANGED <<store, task, late, fitting, goals, raced>>
      PROVE  TypeOK'
  BY <1>1, <1>2, <1>4, UndercutStays, BusyThread DEF fitting, Move, store
<1>5. CASE Canceled(t) \/ Succeed(t)
  BY <1>3, <1>5 DEF Canceled, Succeed, Ended
<1>6. CASE Copy(t) \/ CheckReady(t) \/ Fit(t)
  BY <1>3, <1>4, <1>6 DEF Copy, CheckReady, Fit, Move, Ended, Busy, Fitting
<1>7. CASE TakeData(t)
  <2>1. /\ pc' = [pc EXCEPT ![t] = "fit"] /\ pc[t] = "take"
        /\ UNCHANGED <<calibrating, fresh, stale, task, late, undercut, goals, raced>>
    BY <1>7 DEF TakeData, Move, store
  <2>2. data' \in [Thread -> [count : Nat, stale : Nat]]
    BY <1>1, <1>7 DEF TakeData, SampleCount
  <2>. QED
    BY <1>1, <1>2, <2>1, <2>2, UndercutStays, BusyThread DEF Busy, Fitting
<1>. QED
  BY <1>5, <1>6, <1>7

\* The steps of a thread that has a goal or a message.
LEMMA WorkThread ==
  ASSUME TypeOK, NEW t \in Thread, Work(t)
  PROVE  TypeOK'
<1>1. fresh \in Nat /\ stale \in Nat
  BY DEF TypeOK
<1>2. CASE CheckCount(t)
  BY <1>1, <1>2, RawThread DEF CheckCount, Move, store
<1>3. CASE AddSample(t)
  <2>1. fresh' \in Nat /\ stale' \in Nat
    BY <1>1, <1>3 DEF AddSample
  <2>. QED
    BY <1>3, <2>1, RawThread DEF AddSample, Move
<1>4. CASE RejectSample(t)
  BY <1>1, <1>4, RawThread DEF RejectSample, Move, store
<1>. QED
  BY <1>2, <1>3, <1>4, CollectThread, ResultThread, FinishThread DEF Work

\* The clients, and the callbacks for them.
LEMMA ClientThread ==
  ASSUME TypeOK, NEW g \in Goal, Request(g) \/ RequestCancel(g) \/ Serve(g)
  PROVE  TypeOK'
<1>1. /\ status \in [Goal -> {"none", "requested", "rejected", "accepted", "canceling"} \cup Ended]
      /\ raced \in BOOLEAN /\ cancelling \subseteq Goal
      /\ g \in queued => status[g] \in {"accepted", "canceling"}
      /\ Running(g) => status[g] \in {"accepted", "canceling"} \cup Ended
  BY MagCalAssumption DEF TypeOK, Running, Executes
<1>2. CASE Request(g)
  <2>1. ~Running(g) /\ g \notin queued
    BY <1>1, <1>2 DEF Request, Ended
  <2>. QED
    BY <1>1, <1>2, <2>1, GoalThread DEF Request
<1>3. CASE RequestCancel(g)
  <2>1. status' = [status EXCEPT ![g] = "accepted"]
    BY <1>1, <1>3 DEF RequestCancel
  <2>. QED
    BY <1>1, <1>3, <2>1, GoalThread DEF RequestCancel
<1>4. ASSUME NEW t \in Thread, GoalCallback(t, g) PROVE TypeOK'
  <2>1. ~Running(g) /\ g \notin queued
    BY <1>1, <1>4 DEF GoalCallback, Ended
  <2>2. PICK s \in {"rejected", "accepted"} :
          /\ status' = [status EXCEPT ![g] = s]
          /\ queued' = queued \/ (queued' = queued \cup {g} /\ s = "accepted")
          /\ raced' \in BOOLEAN
    BY <1>1, <1>4 DEF GoalCallback
  <2>. QED
    BY <1>1, <1>4, <2>1, <2>2, GoalThread DEF GoalCallback
<1>5. ASSUME NEW t \in Thread, CancelCallback(t, g) PROVE TypeOK'
  <2>1. CASE status[g] = "accepted"
    <3>1. status' = [status EXCEPT ![g] = "canceling"]
      BY <1>5, <2>1 DEF CancelCallback
    <3>. QED
      BY <1>1, <1>5, <2>1, <3>1, GoalThread DEF CancelCallback
  <2>2. CASE status[g] # "accepted"
    <3>1. status' = status
      BY <1>1, <1>5, <2>2 DEF CancelCallback
    <3>2. UNCHANGED <<calibrating, fresh, stale, pc, task, late, data, undercut, queued, raced>>
      BY <1>5 DEF CancelCallback, store, threads, fitting
    <3>3. cancelling' \subseteq Goal
      BY <1>1, <1>5 DEF CancelCallback
    <3>. QED
      BY <3>1, <3>2, <3>3 DEF TypeOK, Executes, Running
  <2>. QED
    BY <2>1, <2>2
<1>. QED
  BY <1>2, <1>3, <1>4, <1>5, ExecuteThread DEF Serve

\* Every step keeps threads and goals in order.
LEMMA ThreadStep == TypeOK /\ [Next]_vars => TypeOK'
<1>. SUFFICES ASSUME TypeOK, [Next]_vars PROVE TypeOK'
  OBVIOUS
<1>1. ASSUME NEW t \in Thread, RawCallback(t) PROVE TypeOK'
  BY <1>1, RawThread DEF RawCallback, Move, store, TypeOK
<1>2. CASE UNCHANGED vars
  BY <1>2 DEF vars, store, threads, fitting, goals, TypeOK, Executes, Running
<1>. QED
  BY <1>1, <1>2, ClientThread, WorkThread DEF Next

\* For any number of goals and threads: no two threads have the same goal, only
\* goals that were accepted are queued or executed, and a goal has its outcome
\* exactly when its thread is done with it.
THEOREM ActionTypeCorrect == Spec => []TypeOK
BY InitThread, ThreadStep, PTL DEF Spec
-----------------------------------------------------------------------------
(* The flag                                                                *)

\* What a step may do to the flag and to a thread that collects: the flag is set
\* for a thread that goes on collecting, and cleared by one that does not.
LEMMA FlagSteps ==
  ASSUME TypeOK, [Next]_vars
  PROVE  \/ \E t \in Thread : Start(t)
         \/ \E t \in Thread : Executes(t) /\ calibrating' = FALSE /\ ~Collecting(t)'
                             /\ \A u \in Thread \ {t} : Collecting(u)' => Collecting(u)
         \/ calibrating' = calibrating /\ \A u \in Thread : Collecting(u)' => Collecting(u)
<1>. DEFINE G == \/ \E t \in Thread : Executes(t) /\ calibrating' = FALSE /\ ~Collecting(t)'
                                      /\ \A u \in Thread \ {t} : Collecting(u)' => Collecting(u)
                 \/ calibrating' = calibrating /\ \A u \in Thread : Collecting(u)' => Collecting(u)
<1>0. pc \in [Thread -> {"idle", "count", "add"} \cup Busy]
  BY DEF TypeOK, Busy
<1>1. ASSUME NEW t \in Thread, NEW v \in {"idle", "count", "add"} \cup Busy,
             pc' = [pc EXCEPT ![t] = v], calibrating' = calibrating,
             v \notin {"loop", "poll"} \/ pc[t] \in {"loop", "poll"}
      PROVE  G
  BY <1>0, <1>1 DEF Collecting
<1>2. ASSUME NEW t \in Thread, NEW v \in {"cancel", "idle"}, pc[t] \in Busy,
             pc' = [pc EXCEPT ![t] = v], calibrating' = FALSE
      PROVE  G
  <2>1. Executes(t)
    BY <1>2, BusyExecutes
  <2>. QED
    BY <1>0, <1>2, <2>1 DEF Collecting
<1>3. ASSUME pc' = pc, calibrating' = calibrating PROVE G
  BY <1>3 DEF Collecting
<1>. HIDE DEF G
<1>4. ASSUME NEW g \in Goal, Request(g) \/ RequestCancel(g) \/ Serve(g) PROVE G
  <2>1. CASE Request(g) \/ RequestCancel(g)
    BY <1>3, <2>1 DEF Request, RequestCancel, store, threads
  <2>2. ASSUME NEW t \in Thread, GoalCallback(t, g) \/ CancelCallback(t, g) PROVE G
    BY <1>3, <2>2 DEF GoalCallback, CancelCallback, store, threads
  <2>3. ASSUME NEW t \in Thread, Execute(t, g) PROVE G
    BY <1>1, <2>3 DEF Execute, Move, store, Busy
  <2>. QED
    BY <1>4, <2>1, <2>2, <2>3 DEF Serve
<1>5. ASSUME NEW t \in Thread, Work(t) \/ RawCallback(t), ~Start(t) PROVE G
  <2>1. CASE CheckCount(t) \/ AddSample(t) \/ RejectSample(t) \/ RawCallback(t)
    BY <1>1, <2>1 DEF CheckCount, AddSample, RejectSample, RawCallback, Move, store
  <2>2. CASE Reset(t) \/ Loop(t)
    BY <1>1, <2>2 DEF Reset, Loop, Move, store, Busy
  <2>3. CASE Poll(t)
    <3>1. CASE calibrating' = FALSE /\ pc' = [pc EXCEPT ![t] = "cancel"]
      BY <1>2, <2>3, <3>1 DEF Poll, Busy
    <3>2. CASE calibrating' = calibrating /\ pc' = [pc EXCEPT ![t] = "loop"]
      BY <1>1, <2>3, <3>2 DEF Poll, Busy
    <3>. QED
      BY <2>3, <3>1, <3>2 DEF Poll
  <2>4. CASE \/ Canceled(t) \/ Copy(t) \/ CheckReady(t)
             \/ TakeData(t) \/ Fit(t) \/ Succeed(t)
    BY <1>1, <2>4 DEF Canceled, Copy, CheckReady, TakeData, Fit, Succeed, End, Move, store, Busy
  <2>5. CASE Finish(t)
    BY <1>2, <2>5 DEF Finish, Move, Busy
  <2>. QED
    BY <1>5, <2>1, <2>2, <2>3, <2>4, <2>5 DEF Work
<1>6. ASSUME UNCHANGED vars PROVE G
  BY <1>3, <1>6 DEF vars, store, threads
<1>7. G \/ \E t \in Thread : Start(t)
  BY <1>4, <1>5, <1>6 DEF Next
<1>. QED
  BY <1>7 DEF G

\* A goal is queued or executed from its acceptance on; one that is accepted
\* beside another is noticed.
LEMMA GoalSteps ==
  ASSUME TypeOK, [Next]_vars
  PROVE  /\ raced => raced'
         /\ \A t \in Thread : Executes(t) => Executes(t)' \/ Finish(t)
         /\ \/ \A g \in Goal : InProgress(g)' => InProgress(g)
            \/ \E g \in Goal : /\ \A h \in Goal : InProgress(h)' => InProgress(h) \/ h = g
                              /\ raced' = (raced \/ \E h \in Goal : InProgress(h))
<1>. DEFINE G == /\ raced => raced'
                 /\ \A t \in Thread : Executes(t) => Executes(t)' \/ Finish(t)
                 /\ \/ \A g \in Goal : InProgress(g)' => InProgress(g)
                    \/ \E g \in Goal : /\ \A h \in Goal : InProgress(h)' => InProgress(h) \/ h = g
                                      /\ raced' = (raced \/ \E h \in Goal : InProgress(h))
<1>0. task \in [Thread -> Goal \cup {None}] /\ raced \in BOOLEAN
  BY DEF TypeOK
<1>1. ASSUME UNCHANGED <<task, queued, raced>> PROVE G
  BY <1>1 DEF InProgress, Running, Executes
<1>2. ASSUME NEW t \in Thread, NEW g \in Goal, Execute(t, g) PROVE G
  <2>1. raced' = raced /\ task' = [task EXCEPT ![t] = g] /\ queued' = queued \ {g} /\ g \in queued
    BY <1>2 DEF Execute
  <2>2. \A u \in Thread : Executes(u) => Executes(u)'
    BY <1>0, <2>1, MagCalAssumption DEF Executes
  <2>3. \A h \in Goal : InProgress(h)' => InProgress(h)
    BY <1>0, <2>1 DEF InProgress, Running
  <2>. QED
    BY <2>1, <2>2, <2>3
<1>3. ASSUME NEW t \in Thread, Finish(t) PROVE G
  <2>1. UNCHANGED <<queued, raced>> /\ task' = [task EXCEPT ![t] = None]
    BY <1>3 DEF Finish, goals
  <2>2. \A u \in Thread \ {t} : Executes(u) => Executes(u)'
    BY <1>0, <2>1 DEF Executes
  <2>3. \A h \in Goal : InProgress(h)' => InProgress(h)
    BY <1>0, <2>1, MagCalAssumption DEF InProgress, Running
  <2>. QED
    BY <1>3, <2>1, <2>2, <2>3
<1>4. ASSUME NEW t \in Thread, NEW g \in Goal, GoalCallback(t, g) PROVE G
  <2>1. task' = task
    BY <1>4 DEF GoalCallback, threads
  <2>2. \/ UNCHANGED <<queued, raced>>
        \/ queued' = queued \cup {g} /\ raced' = (raced \/ \E h \in Goal : InProgress(h))
    BY <1>4 DEF GoalCallback
  <2>3. CASE UNCHANGED <<queued, raced>>
    BY <1>1, <2>1, <2>3
  <2>4. CASE queued' = queued \cup {g} /\ raced' = (raced \/ \E h \in Goal : InProgress(h))
    <3>1. \A h \in Goal : InProgress(h)' => InProgress(h) \/ h = g
      BY <2>1, <2>4 DEF InProgress, Running
    <3>2. \A u \in Thread : Executes(u) => Executes(u)'
      BY <2>1 DEF Executes
    <3>. QED
      BY <2>4, <3>1, <3>2
  <2>. QED
    BY <2>2, <2>3, <2>4
<1>. HIDE DEF G
<1>5. ASSUME NEW g \in Goal, Request(g) \/ RequestCancel(g) \/ Serve(g) PROVE G
  <2>1. CASE Request(g) \/ RequestCancel(g)
    BY <1>1, <2>1 DEF Request, RequestCancel, threads
  <2>2. ASSUME NEW t \in Thread, CancelCallback(t, g) PROVE G
    BY <1>1, <2>2 DEF CancelCallback, threads
  <2>. QED
    BY <1>2, <1>4, <1>5, <2>1, <2>2 DEF Serve
<1>6. ASSUME NEW t \in Thread, Work(t) \/ RawCallback(t), ~Finish(t) PROVE G
  <2>1. UNCHANGED <<task, queued, raced>>
    BY <1>6 DEF Work, CheckCount, AddSample, RejectSample, RawCallback, Reset, Start, Loop,
                Poll, Canceled, Copy, CheckReady, TakeData, Fit, Succeed, End, goals
  <2>. QED
    BY <1>1, <2>1
<1>7. ASSUME UNCHANGED vars PROVE G
  BY <1>1, <1>7 DEF vars, threads, goals
<1>8. G
  BY <1>3, <1>5, <1>6, <1>7 DEF Next
<1>. QED
  BY <1>8 DEF G

\* No thread executes at first, and no goal is in progress.
LEMMA InitFlag == Init => FlagInv
BY DEF Init, FlagInv, ExecInv, OneInv, CollectInv, InProgress, Running, Collecting, MagCalAssumption

\* A thread that executes makes its goal one in progress, and has it alone.
LEMMA OneExecutes ==
  ASSUME TypeOK, OneInv, ~raced, NEW t \in Thread, NEW u \in Thread,
         Executes(t), Executes(u)
  PROVE  t = u
<1>1. task[t] \in Goal /\ task[u] \in Goal
  BY DEF TypeOK, Executes
<1>2. InProgress(task[t]) /\ InProgress(task[u])
  BY DEF InProgress, Running
<1>3. task[t] = task[u]
  BY <1>1, <1>2 DEF OneInv
<1>. QED
  BY <1>3 DEF TypeOK

\* Every step keeps the flag with the goal, whatever else runs.
LEMMA FlagStep == TypeOK /\ FlagInv /\ [Next]_vars => FlagInv'
<1>. SUFFICES ASSUME TypeOK, FlagInv, [Next]_vars PROVE FlagInv'
  OBVIOUS
<1>1. OneInv'
  <2>1. ~raced' => ~raced
    BY GoalSteps
  <2>. QED
    BY <2>1, GoalSteps DEF FlagInv, OneInv
<1>2. ExecInv'
  <2>1. ASSUME NEW t \in Thread, Start(t) PROVE ExecInv'
    <3>1. pc[t] \in Busy /\ task' = task
      BY <2>1 DEF Start, Move, Busy
    <3>. QED
      BY <3>1, BusyExecutes DEF ExecInv, Executes
  <2>2. CASE calibrating' = calibrating /\ \A t \in Thread : ~Start(t)
    <3>1. ASSUME NEW t \in Thread, Finish(t) PROVE ~calibrating'
      BY <3>1 DEF Finish
    <3>. QED
      BY <2>2, <3>1, GoalSteps DEF FlagInv, ExecInv
  <2>3. CASE calibrating' = FALSE
    BY <2>3 DEF ExecInv
  <2>. QED
    BY <2>1, <2>2, <2>3, FlagSteps
<1>3. CollectInv'
  <2>0. ~raced' => ~raced
    BY GoalSteps
  <2>1. ASSUME NEW t \in Thread, Start(t) PROVE CollectInv'
    BY <2>1 DEF Start, CollectInv
  <2>2. CASE calibrating' = calibrating /\ \A u \in Thread : Collecting(u)' => Collecting(u)
    BY <2>0, <2>2 DEF FlagInv, CollectInv
  <2>3. ASSUME NEW t \in Thread, Executes(t), ~Collecting(t)',
               \A u \in Thread \ {t} : Collecting(u)' => Collecting(u)
        PROVE  CollectInv'
    <3>1. ASSUME NEW u \in Thread, ~raced, Collecting(u)' PROVE FALSE
      <4>1. u # t /\ pc[u] \in Busy
        BY <2>3, <3>1 DEF Collecting, Busy
      <4>2. Executes(u)
        BY <4>1, BusyExecutes
      <4>. QED
        BY <2>3, <3>1, <4>1, <4>2, OneExecutes DEF FlagInv
    <3>. QED
      BY <2>0, <3>1 DEF CollectInv
  <2>. QED
    BY <2>1, <2>2, <2>3, FlagSteps
<1>. QED
  BY <1>1, <1>2, <1>3 DEF FlagInv

\* The three together are what the run checks.
LEMMA FlagMeans == TypeOK /\ FlagInv => FlagFollowsGoal
BY OneExecutes DEF FlagInv, ExecInv, CollectInv, FlagFollowsGoal

\* For any number of goals and threads: with one goal in progress one thread
\* executes, and the flag is set as long as it collects.
THEOREM FlagIsHeld == Spec => []FlagFollowsGoal
BY InitThread, ThreadStep, InitFlag, FlagStep, FlagMeans, PTL DEF Spec
-----------------------------------------------------------------------------
(* The samples                                                             *)

\* Not every thread has let a message in: one at least is missing there.
LEMMA AddingCount ==
  ASSUME TypeOK
  PROVE  /\ IsFiniteSet(Messaging) /\ IsFiniteSet(Adding) /\ IsFiniteSet(late)
         /\ Cardinality(Messaging) \in Nat /\ Cardinality(Adding) \in Nat
         /\ Cardinality(late) \in Nat /\ Cardinality(Thread) \in Nat
         /\ Cardinality(Adding) <= Cardinality(Messaging)
<1>1. Messaging \subseteq Thread /\ Adding \subseteq Messaging /\ late \subseteq Thread
  BY DEF Messaging, Adding, TypeOK
<1>2. IsFiniteSet(Thread) /\ Cardinality(Thread) \in Nat
  BY MagCalAssumption, FS_CardinalityType
<1>3. IsFiniteSet(Messaging) /\ IsFiniteSet(late)
  BY <1>1, <1>2, FS_Subset
<1>4. IsFiniteSet(Adding) /\ Cardinality(Adding) <= Cardinality(Messaging)
  BY <1>1, <1>3, FS_Subset
<1>. QED
  BY <1>2, <1>3, <1>4, FS_CardinalityType

\* What a step may do to the samples and to the threads that have let one in.
SamplesStay == UNCHANGED <<fresh, stale, late>> /\ Messaging' = Messaging /\ Adding' = Adding

LetIn(t) == /\ UNCHANGED <<fresh, stale, late>> /\ calibrating /\ pc[t] = "idle"
            /\ t \notin Messaging /\ Messaging' = Messaging \cup {t} /\ Adding' = Adding

GoesOn(t) == /\ UNCHANGED <<fresh, stale, late>> /\ SampleCount < Target
             /\ t \in Messaging /\ t \notin Adding
             /\ Messaging' = Messaging /\ Adding' = Adding \cup {t}

IsDone(t) == /\ t \in Messaging /\ Messaging' = Messaging \ {t}
             /\ Adding' = Adding \ {t} /\ late' = late \ {t}
             /\ \/ UNCHANGED <<fresh, stale>>
                \/ t \in Adding /\ t \in late /\ stale' = stale + 1 /\ fresh' = fresh
                \/ t \in Adding /\ t \notin late /\ fresh' = fresh + 1 /\ stale' = stale

Cleared == /\ fresh' = 0 /\ stale' = 0 /\ late' = Messaging
           /\ Messaging' = Messaging /\ Adding' = Adding

LEMMA SampleSteps ==
  ASSUME TypeOK, [Next]_vars
  PROVE  \/ SamplesStay \/ Cleared
         \/ \E t \in Thread : LetIn(t) \/ GoesOn(t) \/ IsDone(t)
<1>. DEFINE G == \/ SamplesStay \/ Cleared
                 \/ \E t \in Thread : LetIn(t) \/ GoesOn(t) \/ IsDone(t)
<1>0. pc \in [Thread -> {"idle", "count", "add"} \cup Busy]
  BY DEF TypeOK, Busy
<1>1. ASSUME NEW t \in Thread, NEW v, pc' = [pc EXCEPT ![t] = v]
      PROVE  /\ Messaging' = IF v \in {"count", "add"} THEN Messaging \cup {t} ELSE Messaging \ {t}
             /\ Adding' = IF v = "add" THEN Adding \cup {t} ELSE Adding \ {t}
  BY <1>0, <1>1 DEF Messaging, Adding
<1>2. ASSUME UNCHANGED <<fresh, stale, late, pc>> PROVE G
  BY <1>2 DEF SamplesStay, Messaging, Adding
<1>3. ASSUME NEW t \in Thread, NEW v \in {"idle"} \cup Busy, pc[t] \notin {"count", "add"},
             pc' = [pc EXCEPT ![t] = v], UNCHANGED <<fresh, stale, late>>
      PROVE  G
  BY <1>1, <1>3 DEF SamplesStay, Messaging, Adding, Busy
<1>4. ASSUME NEW t \in Thread, RawCallback(t) PROVE G
  <2>1. /\ UNCHANGED <<fresh, stale, late>> /\ calibrating
        /\ pc[t] = "idle" /\ pc' = [pc EXCEPT ![t] = "count"]
    BY <1>4 DEF RawCallback, Move, store
  <2>2. Messaging' = Messaging \cup {t} /\ Adding' = Adding /\ t \notin Messaging
    BY <1>1, <2>1 DEF Messaging, Adding
  <2>. QED
    BY <2>1, <2>2 DEF LetIn
<1>5. ASSUME NEW t \in Thread, pc[t] \in {"count", "add"}, pc' = [pc EXCEPT ![t] = "idle"],
             late' = late \ {t},
             \/ UNCHANGED <<fresh, stale>>
             \/ pc[t] = "add" /\ t \in late /\ stale' = stale + 1 /\ fresh' = fresh
             \/ pc[t] = "add" /\ t \notin late /\ fresh' = fresh + 1 /\ stale' = stale
      PROVE  G
  <2>0. Messaging' = Messaging \ {t} /\ Adding' = Adding \ {t}
    BY <1>0, <1>5 DEF Messaging, Adding
  <2>1. t \in Messaging
    BY <1>5 DEF Messaging
  <2>2. pc[t] = "add" => t \in Adding
    BY DEF Adding
  <2>. QED
    BY <1>5, <2>0, <2>1, <2>2 DEF IsDone
<1>6. ASSUME NEW t \in Thread, CheckCount(t) PROVE G
  <2>1. CASE pc' = [pc EXCEPT ![t] = "add"] /\ SampleCount < Target
    <3>1. UNCHANGED <<fresh, stale, late>> /\ pc[t] = "count"
      BY <1>0, <1>6, <2>1 DEF CheckCount, Move, store
    <3>2. /\ Messaging' = Messaging \cup {t} /\ Adding' = Adding \cup {t}
          /\ t \in Messaging /\ t \notin Adding
      BY <1>1, <2>1, <3>1 DEF Messaging, Adding
    <3>. QED
      BY <2>1, <3>1, <3>2 DEF GoesOn
  <2>2. CASE Move(t, "count", "idle") /\ late' = late \ {t} /\ UNCHANGED store
    BY <1>5, <2>2 DEF Move, store
  <2>. QED
    BY <1>6, <2>1, <2>2 DEF CheckCount, Move
<1>7. ASSUME NEW t \in Thread, AddSample(t) \/ RejectSample(t) PROVE G
  BY <1>5, <1>7 DEF AddSample, RejectSample, Move, store
<1>8. ASSUME NEW t \in Thread, Reset(t) PROVE G
  <2>1. /\ pc[t] = "reset" /\ pc' = [pc EXCEPT ![t] = "start"]
        /\ fresh' = 0 /\ stale' = 0 /\ late' = Messaging
    BY <1>8 DEF Reset, Move, Messaging
  <2>2. Messaging' = Messaging /\ Adding' = Adding
    BY <1>1, <2>1 DEF Messaging, Adding
  <2>. QED
    BY <2>1, <2>2 DEF Cleared
<1>. HIDE DEF G
<1>9. ASSUME NEW t \in Thread, Work(t) PROVE G
  <2>1. CASE Start(t) \/ Loop(t) \/ Poll(t) \/ Finish(t)
    BY <1>3, <2>1 DEF Start, Loop, Poll, Finish, Move, store, Busy
  <2>2. CASE \/ Canceled(t) \/ Copy(t) \/ CheckReady(t)
             \/ TakeData(t) \/ Fit(t) \/ Succeed(t)
    BY <1>3, <2>2 DEF Canceled, Copy, CheckReady, TakeData, Fit, Succeed, End, Move, store, Busy
  <2>. QED
    BY <1>6, <1>7, <1>8, <1>9, <2>1, <2>2 DEF Work
<1>10. ASSUME NEW g \in Goal, Request(g) \/ RequestCancel(g) \/ Serve(g) PROVE G
  <2>1. CASE Request(g) \/ RequestCancel(g)
    BY <1>2, <2>1 DEF Request, RequestCancel, store, threads
  <2>2. ASSUME NEW t \in Thread, GoalCallback(t, g) \/ CancelCallback(t, g) PROVE G
    BY <1>2, <2>2 DEF GoalCallback, CancelCallback, store, threads
  <2>3. ASSUME NEW t \in Thread, Execute(t, g) PROVE G
    BY <1>3, <2>3 DEF Execute, Move, store, Busy
  <2>. QED
    BY <1>10, <2>1, <2>2, <2>3 DEF Serve
<1>11. ASSUME UNCHANGED vars PROVE G
  BY <1>2, <1>11 DEF vars, store, threads
<1>12. G
  BY <1>4, <1>9, <1>10, <1>11 DEF Next
<1>. QED
  BY <1>12 DEF G

\* There are no samples at first, and no thread adds one.
LEMMA InitSamples == Init => SamplesInv
<1>. SUFFICES ASSUME Init PROVE SamplesInv
  OBVIOUS
<1>1. Messaging = {} /\ Adding = {} /\ late = {} /\ fresh = 0 /\ stale = 0
  BY DEF Init, Messaging, Adding
<1>2. /\ Cardinality(Messaging) = 0 /\ Cardinality(Adding) = 0 /\ Cardinality(late) = 0
      /\ Cardinality(Thread) \in Nat
  BY <1>1, FS_EmptySet, FS_CardinalityType, MagCalAssumption
<1>. QED
  BY <1>1, <1>2, MagCalAssumption DEF SamplesInv, MessageInv, RoomInv, StaleInv, SampleCount

\* A message is let in while another thread executes, and one that is added finds
\* room; clearing gives room again.
LEMMA SamplesStep == TypeOK /\ ExecInv /\ SamplesInv /\ [Next]_vars => SamplesInv'
<1>. SUFFICES ASSUME TypeOK, ExecInv, SamplesInv, [Next]_vars PROVE SamplesInv'
  OBVIOUS
<1>. DEFINE M == Cardinality(Messaging)
            A == Cardinality(Adding)
            L == Cardinality(late)
            T == Cardinality(Thread)
<1>0. /\ M \in Nat /\ A \in Nat /\ L \in Nat /\ T \in Nat /\ A <= M
      /\ fresh \in Nat /\ stale \in Nat /\ Target \in Nat \ {0}
  BY AddingCount, MagCalAssumption DEF TypeOK
<1>1. M <= T - 1 /\ fresh + stale + A <= Target + T - 2 /\ stale + L <= T - 1
  BY DEF SamplesInv, MessageInv, RoomInv, StaleInv, SampleCount
<1>2. ASSUME M' <= T - 1, fresh' + stale' + A' <= Target + T - 2, stale' + L' <= T - 1
      PROVE  SamplesInv'
  BY <1>2 DEF SamplesInv, MessageInv, RoomInv, StaleInv, SampleCount
<1>3. CASE SamplesStay
  BY <1>1, <1>2, <1>3 DEF SamplesStay
<1>4. ASSUME NEW t \in Thread, LetIn(t) PROVE SamplesInv'
  <2>1. PICK w \in Thread : Executes(w)
    BY <1>4 DEF ExecInv, LetIn
  <2>2. w # t /\ w \notin Messaging
    BY <1>4, <2>1 DEF TypeOK, Messaging, LetIn
  <2>3. IsFiniteSet(Thread \ {w}) /\ Cardinality(Thread \ {w}) = T - 1
    BY MagCalAssumption, FS_RemoveElement
  <2>4. Messaging' \subseteq Thread \ {w}
    BY <1>4, <2>2 DEF LetIn, Messaging
  <2>5. M' <= T - 1
    BY <2>3, <2>4, FS_Subset
  <2>. QED
    BY <1>1, <1>2, <1>4, <2>5 DEF LetIn
<1>5. ASSUME NEW t \in Thread, GoesOn(t) PROVE SamplesInv'
  <2>1. Adding' \subseteq Messaging
    BY <1>5 DEF GoesOn, Messaging, Adding
  <2>2. A' <= M
    BY <2>1, AddingCount, FS_Subset
  <2>3. IsFiniteSet(Adding') /\ A' \in Nat
    BY <1>5, AddingCount, FS_AddElement, FS_CardinalityType DEF GoesOn
  <2>4. UNCHANGED <<fresh, stale, late>> /\ M' = M /\ fresh + stale < Target
    BY <1>5 DEF GoesOn, SampleCount
  <2>5. fresh' + stale' + A' <= Target + T - 2
    BY <1>0, <1>1, <2>2, <2>3, <2>4
  <2>. QED
    BY <1>1, <1>2, <2>4, <2>5
<1>6. ASSUME NEW t \in Thread, IsDone(t) PROVE SamplesInv'
  <2>1. M' = M - 1 /\ A' = IF t \in Adding THEN A - 1 ELSE A
    BY <1>6, AddingCount, FS_RemoveElement DEF IsDone
  <2>2. L' = IF t \in late THEN L - 1 ELSE L
    BY <1>6, AddingCount, FS_RemoveElement DEF IsDone
  <2>3. \/ UNCHANGED <<fresh, stale>>
        \/ t \in Adding /\ t \in late /\ stale' = stale + 1 /\ fresh' = fresh
        \/ t \in Adding /\ t \notin late /\ fresh' = fresh + 1 /\ stale' = stale
    BY <1>6 DEF IsDone
  <2>. QED
    BY <1>0, <1>1, <1>2, <2>1, <2>2, <2>3
<1>7. CASE Cleared
  <2>1. M' = M /\ A' = A /\ L' = M /\ fresh' = 0 /\ stale' = 0
    BY <1>7 DEF Cleared
  <2>. QED
    BY <1>0, <1>1, <1>2, <2>1
<1>. QED
  BY <1>3, <1>4, <1>5, <1>6, <1>7, SampleSteps

\* For any number of goals, threads and samples: the buffer has at most one
\* sample more than asked for per thread beyond the second.
THEOREM SamplesAreBounded == Spec => []SamplesBounded
<1>1. TypeOK /\ SamplesInv => SamplesBounded
  BY AddingCount, MagCalAssumption DEF SamplesInv, RoomInv, SamplesBounded, SampleCount, TypeOK
<1>2. FlagInv => ExecInv
  BY DEF FlagInv
<1>. QED
  BY <1>1, <1>2, InitThread, ThreadStep, InitFlag, FlagStep, InitSamples, SamplesStep, PTL DEF Spec

-----------------------------------------------------------------------------
(* What is copied, and success                                             *)

Elsewhere == ({"idle", "count", "add"} \cup Busy) \ Fitting

\* A thread that goes to where nothing is copied disturbs no other, if it clears
\* no samples.
LEMMA DataKept ==
  ASSUME TypeOK, DataInv, SampleCount' >= SampleCount, SampleCount' \in Nat,
         NEW t \in Thread, NEW v \in Elsewhere, pc' = [pc EXCEPT ![t] = v],
         data' = data \/ data' = [data EXCEPT ![t] = Nothing], undercut \ {t} \subseteq undercut'
  PROVE  DataInv'
<1>1. SampleCount \in Nat /\ Target \in Nat
  BY MagCalAssumption DEF TypeOK, SampleCount
<1>2. pc'[t] = v
  BY DEF TypeOK
<1>3. ASSUME NEW u \in Thread, u # t
      PROVE  pc'[u] = pc[u] /\ data'[u] = data[u] /\ (u \in undercut => u \in undercut')
  BY <1>3 DEF TypeOK
<1>4. ASSUME NEW u \in Thread, u # t, pc[u] = "take", u \notin undercut'
      PROVE  SampleCount' >= Target
  <2>1. SampleCount >= Target
    BY <1>3, <1>4 DEF DataInv
  <2>. QED
    BY <1>1, <2>1
<1>. QED
  BY <1>2, <1>3, <1>4 DEF DataInv, Fitting, Elsewhere

\* calibrate's check, its copy and what follows.
LEMMA DataFitted ==
  ASSUME TypeOK, DataInv, SamplesInv, NEW t \in Thread, CheckReady(t) \/ TakeData(t) \/ Fit(t)
  PROVE  DataInv'
<1>1. /\ pc \in [Thread -> {"idle", "count", "add"} \cup Busy]
      /\ data \in [Thread -> [count : Nat, stale : Nat]]
      /\ fresh \in Nat /\ stale \in Nat /\ Target \in Nat /\ SampleCount \in Nat
  BY MagCalAssumption DEF TypeOK, Busy, SampleCount
<1>2. stale < Cardinality(Thread)
  BY AddingCount, <1>1 DEF SamplesInv, StaleInv
<1>3. UNCHANGED <<fresh, stale>>
  BY DEF CheckReady, TakeData, Fit, End, store
<1>4. SampleCount' = SampleCount
  BY <1>3 DEF SampleCount
<1>9. "end" \in Elsewhere /\ SampleCount' >= SampleCount /\ SampleCount' \in Nat
  BY <1>1, <1>4 DEF Elsewhere, Busy, Fitting
<1>5. ASSUME End(t, "aborted") PROVE DataInv'
  BY <1>1, <1>4, <1>5, <1>9, DataKept DEF End
<1>6. CASE CheckReady(t)
  <2>1. CASE Ready /\ Move(t, "check", "take") /\ UNCHANGED fitting
    BY <1>1, <1>4, <2>1 DEF Ready, Move, fitting, DataInv
  <2>. QED
    BY <1>5, <1>6, <2>1 DEF CheckReady
<1>7. CASE TakeData(t)
  <2>1. /\ pc[t] = "take" /\ pc' = [pc EXCEPT ![t] = "fit"] /\ undercut' = undercut
        /\ data' = [data EXCEPT ![t] = [count |-> SampleCount, stale |-> stale]]
    BY <1>7 DEF TakeData, Move
  <2>2. data'[t] = [count |-> SampleCount, stale |-> stale]
    BY <1>1, <2>1
  <2>3. \A u \in Thread : u # t => pc'[u] = pc[u] /\ data'[u] = data[u]
    BY <1>1, <2>1
  <2>4. t \in undercut \/ data'[t].count >= Target
    BY <2>1, <2>2 DEF DataInv
  <2>5. data'[t].stale < Cardinality(Thread)
    BY <1>2, <2>2
  <2>6. pc'[t] = "fit"
    BY <1>1, <2>1
  <2>. QED
    BY <1>4, <2>1, <2>3, <2>4, <2>5, <2>6 DEF DataInv
<1>8. CASE Fit(t)
  <2>1. CASE Move(t, "fit", "succeed") /\ UNCHANGED fitting
    BY <1>1, <1>4, <2>1 DEF Move, fitting, DataInv
  <2>. QED
    BY <1>5, <1>8, <2>1 DEF Fit
<1>. QED
  BY <1>6, <1>7, <1>8

\* Nothing is copied at first.
LEMMA InitData == Init => DataInv
BY DEF Init, DataInv

\* Every step keeps what is copied tied to the samples.
LEMMA DataStep == TypeOK /\ SamplesInv /\ DataInv /\ [Next]_vars => DataInv'
<1>. SUFFICES ASSUME TypeOK, SamplesInv, DataInv, [Next]_vars PROVE DataInv'
  OBVIOUS
<1>1. fresh \in Nat /\ stale \in Nat
  BY DEF TypeOK
<1>2. ASSUME UNCHANGED <<fresh, stale, pc, data, undercut>> PROVE DataInv'
  BY <1>2 DEF DataInv, SampleCount
<1>3. ASSUME NEW t \in Thread, NEW v \in Elsewhere, pc' = [pc EXCEPT ![t] = v],
             UNCHANGED fitting,
             \/ UNCHANGED <<fresh, stale>>
             \/ fresh' = fresh + 1 /\ stale' = stale
             \/ fresh' = fresh /\ stale' = stale + 1
      PROVE  DataInv'
  <2>1. SampleCount' = SampleCount \/ SampleCount' = SampleCount + 1
    <3>1. CASE UNCHANGED <<fresh, stale>>
      BY <3>1 DEF SampleCount
    <3>2. CASE fresh' = fresh + 1 /\ stale' = stale
      BY <1>1, <3>2 DEF SampleCount
    <3>3. CASE fresh' = fresh /\ stale' = stale + 1
      BY <1>1, <3>3 DEF SampleCount
    <3>. QED
      BY <1>3, <3>1, <3>2, <3>3
  <2>2. SampleCount' >= SampleCount /\ SampleCount' \in Nat
    BY <1>1, <2>1 DEF SampleCount
  <2>. QED
    BY <1>3, <2>2, DataKept DEF fitting
<1>4. ASSUME NEW t \in Thread, NEW o \in Ended, End(t, o) PROVE DataInv'
  <2>1. SampleCount' >= SampleCount /\ SampleCount' \in Nat
    BY <1>1, <1>4 DEF End, store, SampleCount
  <2>. QED
    BY <1>4, <2>1, DataKept DEF End, Elsewhere, Busy, Fitting
<1>5. ASSUME NEW t \in Thread, Reset(t) PROVE DataInv'
  <2>1. /\ pc[t] = "reset" /\ pc' = [pc EXCEPT ![t] = "start"] /\ data' = data
        /\ undercut' = undercut \cup {u \in Thread : pc[u] = "take"}
    BY <1>5 DEF Reset, Move
  <2>2. pc'[t] = "start" /\ \A u \in Thread : u # t => pc'[u] = pc[u]
    BY <2>1 DEF TypeOK
  <2>. QED
    BY <2>1, <2>2 DEF DataInv
<1>6. ASSUME NEW t \in Thread, Work(t) PROVE DataInv'
  <2>1. CASE CheckCount(t) \/ AddSample(t) \/ RejectSample(t)
    BY <1>1, <1>3, <2>1 DEF CheckCount, AddSample, RejectSample, Move, store,
                              Elsewhere, Busy, Fitting
  <2>2. CASE Start(t) \/ Loop(t) \/ Poll(t) \/ Finish(t)
    BY <1>1, <1>3, <2>2 DEF Start, Loop, Poll, Finish, Move, store, Elsewhere, Busy, Fitting
  <2>3. CASE Copy(t)
    BY <1>1, <1>3, <1>4, <2>3 DEF Copy, Move, store, Ended, Elsewhere, Busy, Fitting
  <2>4. CASE Canceled(t) \/ Succeed(t)
    BY <1>4, <2>4 DEF Canceled, Succeed, Ended
  <2>. QED
    BY <1>5, <1>6, <2>1, <2>2, <2>3, <2>4, DataFitted DEF Work
<1>7. ASSUME NEW t \in Thread, RawCallback(t) PROVE DataInv'
  BY <1>1, <1>3, <1>7 DEF RawCallback, Move, store, Elsewhere, Busy, Fitting
<1>8. ASSUME NEW g \in Goal, Request(g) \/ RequestCancel(g) \/ Serve(g) PROVE DataInv'
  <2>1. CASE Request(g) \/ RequestCancel(g)
    BY <1>2, <2>1 DEF Request, RequestCancel, store, threads, fitting
  <2>2. ASSUME NEW t \in Thread, GoalCallback(t, g) \/ CancelCallback(t, g) PROVE DataInv'
    BY <1>2, <2>2 DEF GoalCallback, CancelCallback, store, threads, fitting
  <2>3. ASSUME NEW t \in Thread, Execute(t, g) PROVE DataInv'
    BY <1>1, <1>3, <2>3 DEF Execute, Move, store, Elsewhere, Busy, Fitting
  <2>. QED
    BY <1>8, <2>1, <2>2, <2>3 DEF Serve
<1>9. CASE UNCHANGED vars
  BY <1>2, <1>9 DEF vars, store, threads, fitting
<1>. QED
  BY <1>6, <1>7, <1>8, <1>9 DEF Next

EarnedStep ==
  \A g \in Goal : status[g] # "succeeded" /\ status'[g] = "succeeded" =>
    \E t \in Thread : /\ task[t] = g
                      /\ data[t].stale < Cardinality(Thread)
                      /\ t \in undercut \/ data[t].count >= Target

\* Only Succeed ends a goal with success, after the fit of a copy.
LEMMA SuccessStep == TypeOK /\ DataInv /\ [Next]_vars => EarnedStep
<1>. SUFFICES ASSUME TypeOK, DataInv, [Next]_vars,
                     NEW g \in Goal, status[g] # "succeeded", status'[g] = "succeeded"
              PROVE  \E t \in Thread : /\ task[t] = g
                                       /\ data[t].stale < Cardinality(Thread)
                                       /\ t \in undercut \/ data[t].count >= Target
  BY DEF EarnedStep
<1>2. status \in [Goal -> {"none", "requested", "rejected", "accepted", "canceling"} \cup Ended]
  BY DEF TypeOK
<1>3. status' # status
  OBVIOUS
<1>4. ASSUME NEW h \in Goal, Request(h) \/ RequestCancel(h) \/ Serve(h) PROVE FALSE
  <2>1. PICK s \in {"requested", "rejected", "accepted", "canceling", status[h]} :
          status' = [status EXCEPT ![h] = s]
    <3>1. CASE Request(h)
      BY <3>1 DEF Request
    <3>2. CASE RequestCancel(h)
      BY <1>3, <3>2 DEF RequestCancel
    <3>3. ASSUME NEW t \in Thread, GoalCallback(t, h)
          PROVE  \E s \in {"rejected", "accepted"} : status' = [status EXCEPT ![h] = s]
      BY <3>3 DEF GoalCallback
    <3>4. ASSUME NEW t \in Thread, CancelCallback(t, h)
          PROVE  \E s \in {"canceling", status[h]} : status' = [status EXCEPT ![h] = s]
      BY <1>2, <3>4 DEF CancelCallback
    <3>5. ASSUME NEW t \in Thread, Execute(t, h) PROVE FALSE
      BY <1>3, <3>5 DEF Execute
    <3>. QED
      BY <1>4, <3>1, <3>2, <3>3, <3>4, <3>5 DEF Serve
  <2>. QED
    BY <1>2, <2>1
<1>5. ASSUME NEW t \in Thread, Work(t) \/ RawCallback(t), ~Succeed(t) PROVE FALSE
  <2>1. ASSUME NEW o \in {"aborted", "canceled"}, End(t, o) PROVE FALSE
    BY <1>2, <2>1 DEF End
  <2>2. CASE Canceled(t) \/ Copy(t) \/ CheckReady(t) \/ TakeData(t) \/ Fit(t)
    BY <1>3, <2>1, <2>2 DEF Canceled, Copy, CheckReady, TakeData, Fit, goals
  <2>3. CASE CheckCount(t) \/ AddSample(t) \/ RejectSample(t) \/ RawCallback(t)
    BY <1>3, <2>3 DEF CheckCount, AddSample, RejectSample, RawCallback, goals
  <2>4. CASE Reset(t) \/ Start(t) \/ Loop(t) \/ Poll(t) \/ Finish(t)
    BY <1>3, <2>4 DEF Reset, Start, Loop, Poll, Finish, goals
  <2>. QED
    BY <1>5, <2>2, <2>3, <2>4 DEF Work
<1>6. PICK t \in Thread : Succeed(t)
  <2>1. ~UNCHANGED vars
    BY <1>3 DEF vars, goals
  <2>. QED
    BY <1>4, <1>5, <2>1 DEF Next
<1>7. pc[t] = "succeed" /\ status' = [status EXCEPT ![task[t]] = "succeeded"]
  BY <1>6 DEF Succeed, End
<1>8. task[t] = g
  BY <1>2, <1>7
<1>. QED
  BY <1>7, <1>8 DEF DataInv

\* For any number of goals, threads and samples: a calibration that succeeds was
\* fitted to enough samples, all but one per other thread of its own collection,
\* unless another goal cleared them after calibrate had counted them.
THEOREM SuccessIsEarned == Spec => SuccessEarned
<1>1. Spec => [][EarnedStep]_vars
  <2>1. FlagInv => ExecInv
    BY DEF FlagInv
  <2>. QED
    BY <2>1, InitThread, ThreadStep, InitFlag, FlagStep, InitSamples, SamplesStep, InitData,
       DataStep, SuccessStep, PTL DEF Spec
<1>. QED
  BY <1>1 DEF SuccessEarned, EarnedStep
=============================================================================
