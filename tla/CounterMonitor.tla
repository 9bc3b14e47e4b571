---------------------------- MODULE CounterMonitor ----------------------------
(***************************************************************************)
(* The counter monitor behind the publisher: it follows the counters of    *)
(* the messages on the raw topic and adds up the frames they skip.         *)
(*                                                                         *)
(* The topic (external) is best effort: a message is delivered, in order,  *)
(* or lost; before the monitor starts and after it stops all are lost.  A  *)
(* delivery is part of the step that publishes: nothing the publisher does *)
(* meanwhile matters to the monitor.  The rates it prints are left out.    *)
(***************************************************************************)
EXTENDS FramePublisher

VARIABLES
  received_first,   \* received_first_
  last_counter,     \* last_counter_
  total_missed,     \* total_missed_
  total_counter,    \* total_counter_
  first, latestSeen,\* history: the samples of the first message and the latest
  blurred           \* history: the unit restarted between two of them, or 256
                    \* samples or more passed

counterVars == <<received_first, last_counter, total_missed, total_counter>>
monitorVars == <<counterVars, first, latestSeen, blurred>>

MonitorInit ==
  /\ received_first = FALSE /\ last_counter = 0 /\ total_missed = 0 /\ total_counter = 0
  /\ first = 0 /\ latestSeen = 0 /\ blurred = FALSE

\* Mutant of Missed8: the counter's wrap is not taken into account.
Missed8WithoutWrap(current) ==
  LET expected == last_counter + 1
  IN  IF current > expected THEN current - expected ELSE 0

\* The frames between, in the eight bits of a counter.
Missed8(current) ==
  LET expected == (last_counter + 1) % COUNTERS IN (current - expected) % COUNTERS

\* raw_callback: the first message only sets the counter.
RawCallback(current) ==
  /\ received_first' = TRUE /\ last_counter' = current
  /\ IF received_first
     THEN /\ total_missed' = total_missed + Missed8(current)
          /\ total_counter' = total_counter + 1
     ELSE UNCHANGED <<total_missed, total_counter>>

\* What the step publishes on the raw topic is delivered or lost.
Deliver ==
  LET message == out'["raw"]["raw"]
  IN  /\ RawCallback(latest'["raw"].counter)
      /\ first' = IF received_first THEN first ELSE message
      /\ latestSeen' = message
      /\ blurred' = \/ blurred
                    \/ received_first /\ (latestSeen < since \/ message - latestSeen > COUNTERS)

MonitoredInit == Init /\ MonitorInit

MonitoredNext == /\ Next
                 /\ \/ "raw" \in DOMAIN out' /\ Deliver
                    \/ UNCHANGED monitorVars

MonitoredSpec == MonitoredInit /\ [][MonitoredNext]_<<vars, monitorVars>>

-----------------------------------------------------------------------------
(* Properties                                                              *)

\* What the monitor has received and what it says was missed add up to the
\* samples the unit took from the first message to the latest, whatever lost
\* them: the line, the publisher, which holds back a frame for its counter, or
\* the topic; as long as no 256 samples in a row are lost and the unit goes on.
MissedAddsUp ==
  received_first /\ ~blurred => total_missed + total_counter = latestSeen - first
=============================================================================
