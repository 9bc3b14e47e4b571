---------------------------- MODULE FramePublisher ----------------------------
(***************************************************************************)
(* From decoded data frames to ROS messages: on_frame and publish.         *)
(*                                                                         *)
(* on_frame keeps the latest frame of each kind; once the node publishes,  *)
(* every data frame that arrives makes publish look at all the kinds: a    *)
(* topic is due when its frame's counter differs from that of the last     *)
(* message.  Native topics carry the frame of their kind; the standard     *)
(* Imu message joins the latest raw frame and the latest quaternion.  Only *)
(* the serial thread stores and publishes after the constructor, so the    *)
(* handling of a frame is one step.                                        *)
(*                                                                         *)
(* The unit (external) takes samples and sends, in any order, one frame    *)
(* per sample of each kind it streams, numbered by a counter of one byte;  *)
(* the line may lose any.  What it streams is what it had saved or what    *)
(* configure_imu asked for, less the commands the line lost: any kinds.    *)
(***************************************************************************)
EXTENDS Integers, FiniteSets

CONSTANTS
  Kind,            \* kinds of data frames
  NativeTopic,     \* the kinds published as such: publish_oscp_*
  StandardRos,     \* publish_standard_ros
  COUNTERS,        \* values of a frame counter: 256
  MaxSample        \* bound on samples in a behaviour

ASSUME PublisherAssumption ==
  /\ {"raw", "quaternion"} \subseteq Kind
  /\ NativeTopic \subseteq Kind
  /\ StandardRos \in BOOLEAN
  /\ COUNTERS \in Nat \ {0} /\ MaxSample \in Nat

VARIABLES
  publish_enable,  \* publish_enable_
  latest,          \* kind -> latest_*: the sample the frame holds and its counter
  has,             \* kinds with has_* set
  last,            \* topic -> last_*_counter_
  streaming,       \* kinds the unit streams
  sample, counter, \* the unit's latest sample and the counter of its frames
  toSend,          \* kinds whose frame of that sample is not sent yet
  out,             \* messages the last step published: topic -> kind -> sample
  shown,           \* history: topic -> the sample of its latest message
  skipped,         \* history: topics whose latest frame was not published, though
                   \* the node publishes and has all the topic's parts
  lost,            \* history: kind -> frames lost since one arrived
  since            \* history: the first sample since the unit last restarted

nodeVars == <<publish_enable, latest, has, last>>
unitVars == <<streaming, sample, counter, toSend>>
history  == <<out, shown, skipped, lost, since>>
vars == <<nodeVars, unitVars, history>>

Topic == NativeTopic \cup (IF StandardRos THEN {"imu"} ELSE {})

\* The frames a topic's message is made of, and the one whose counter it follows.
Parts(topic) == IF topic = "imu" THEN {"raw", "quaternion"} ELSE {topic}
Key(topic)   == IF topic = "imu" THEN "raw" ELSE topic

Init ==
  /\ publish_enable = FALSE
  /\ latest = [k \in Kind |-> [sample |-> 0, counter |-> 0]]
  /\ has = {}
  /\ last = [t \in Topic |-> 0]
  /\ streaming \in SUBSET Kind
  /\ sample = 0 /\ counter \in 0 .. COUNTERS - 1 /\ toSend = {}
  /\ out = <<>> /\ shown = [t \in Topic |-> 0] /\ skipped = {}
  /\ lost = [k \in Kind |-> 0] /\ since = 1

-----------------------------------------------------------------------------
(* The node                                                                *)

\* Mutant of Due: the Imu message does not wait for a quaternion.
DueWithoutQuaternion(topic, frames, kinds) ==
  /\ Key(topic) \in kinds
  /\ frames[Key(topic)].counter # last[topic]

Due(topic, frames, kinds) ==
  /\ Parts(topic) \subseteq kinds
  /\ frames[Key(topic)].counter # last[topic]

\* Mutant of Publish: the standard messages share last_raw_counter_.
PublishSharedCounter(frames, kinds) ==
  LET due == {t \in Topic : /\ Due(t, frames, kinds)
                           /\ ~(t = "imu" /\ "raw" \in Topic)}
  IN  /\ out' = [t \in due |-> [k \in Parts(t) |-> frames[k].sample]]
      /\ last' = [t \in Topic |-> IF t \in due THEN frames[Key(t)].counter ELSE last[t]]

\* Mutant of Publish: last_ros_counter_ follows the quaternion.
PublishWrongCounter(frames, kinds) ==
  LET due == {t \in Topic : Due(t, frames, kinds)}
      of(t) == IF t = "imu" THEN "quaternion" ELSE t
  IN  /\ out' = [t \in due |-> [k \in Parts(t) |-> frames[k].sample]]
      /\ last' = [t \in Topic |-> IF t \in due THEN frames[of(t)].counter ELSE last[t]]

\* publish: a message on every topic that is due, from the latest frames.
Publish(frames, kinds) ==
  LET due == {t \in Topic : Due(t, frames, kinds)}
  IN  /\ out' = [t \in due |-> [k \in Parts(t) |-> frames[k].sample]]
      /\ last' = [t \in Topic |-> IF t \in due THEN frames[Key(t)].counter ELSE last[t]]

\* Mutant of OnFrame: a frame is kept only when it is published on a topic of its own.
OnFrameKeepsNative(kind, frame) ==
  /\ latest' = [latest EXCEPT ![kind] = IF kind \in {"raw"} \cup NativeTopic
                                        \/ kind \notin has THEN frame ELSE @]
  /\ has' = has \cup {kind}
  /\ IF publish_enable THEN Publish(latest', has') ELSE out' = <<>> /\ UNCHANGED last
  /\ UNCHANGED publish_enable

\* on_frame: the frame is stored, then what is due is published.
OnFrame(kind, frame) ==
  /\ latest' = [latest EXCEPT ![kind] = frame]
  /\ has' = has \cup {kind}
  /\ IF publish_enable THEN Publish(latest', has') ELSE out' = <<>> /\ UNCHANGED last
  /\ UNCHANGED publish_enable

-----------------------------------------------------------------------------
(* The unit and the line (external)                                        *)

TakeSample ==
  /\ toSend = {} /\ sample < MaxSample
  /\ sample' = sample + 1
  /\ counter' = (counter + 1) % COUNTERS
  /\ toSend' = streaming
  /\ out' = <<>>
  /\ UNCHANGED <<nodeVars, streaming, shown, skipped, lost, since>>

\* The topics that frame k should be published on and is not.
Missed(k) == {t \in Topic : Key(t) = k /\ publish_enable
                            /\ Parts(t) \subseteq has' /\ t \notin DOMAIN out'}

Arrives(k) ==
  /\ k \in toSend
  /\ toSend' = toSend \ {k}
  /\ OnFrame(k, [sample |-> sample, counter |-> counter])
  /\ shown' = [t \in Topic |-> IF t \in DOMAIN out' THEN out'[t][Key(t)] ELSE shown[t]]
  /\ skipped' = {t \in skipped : Key(t) # k} \cup Missed(k)
  /\ lost' = [lost EXCEPT ![k] = 0]
  /\ UNCHANGED <<streaming, sample, counter, since>>

IsLost(k) ==
  /\ k \in toSend
  /\ toSend' = toSend \ {k}
  /\ lost' = [lost EXCEPT ![k] = @ + 1]
  /\ out' = <<>>
  /\ UNCHANGED <<nodeVars, streaming, sample, counter, shown, skipped, since>>

\* The unit restarts with any kinds to stream; its counters start again.
Restarted ==
  /\ streaming' \in SUBSET Kind
  /\ counter' = COUNTERS - 1 /\ toSend' = {}
  /\ since' = sample + 1
  /\ lost' = [k \in Kind |-> 0]
  /\ out' = <<>>
  /\ UNCHANGED <<sample, shown, skipped>>

\* The constructor resets and configures the unit and enables publishing: the
\* frames of the time before stay in latest_* and has_*.
EnablePublish ==
  /\ ~publish_enable
  /\ publish_enable' = TRUE
  /\ Restarted
  /\ UNCHANGED <<latest, has, last>>

\* The unit restarts by itself; the node does not notice.
UnitRestarts ==
  /\ publish_enable /\ since <= sample
  /\ Restarted
  /\ UNCHANGED nodeVars

Next == \/ TakeSample
        \/ \E k \in Kind : Arrives(k) \/ IsLost(k)
        \/ EnablePublish
        \/ UnitRestarts

Spec == Init /\ [][Next]_vars

-----------------------------------------------------------------------------
(* Properties                                                              *)

\* What is published is made of frames that arrived: never of a latest_* that
\* nothing was stored in.
TypeOK ==
  /\ publish_enable \in BOOLEAN
  /\ latest \in [Kind -> [sample : 0 .. MaxSample, counter : 0 .. COUNTERS - 1]]
  /\ has \subseteq Kind /\ toSend \subseteq streaming /\ streaming \subseteq Kind
  /\ last \in [Topic -> 0 .. COUNTERS - 1]
  /\ sample \in 0 .. MaxSample /\ counter \in 0 .. COUNTERS - 1
  /\ \A t \in DOMAIN out : t \in Topic /\ out[t] \in [Parts(t) -> 1 .. MaxSample]
  /\ shown \in [Topic -> 0 .. MaxSample] /\ skipped \subseteq Topic
  /\ lost \in [Kind -> 0 .. MaxSample] /\ since \in 1 .. MaxSample + 1

\* No sample is published twice on a topic, and none after a later one, although
\* publish looks at every kind whenever a frame of any kind arrives.
NewerSample ==
  [][\A t \in DOMAIN out' : out'[t][Key(t)] > shown[t]]_vars

\* A topic never misses two frames in a row for their counters alone: of two that
\* arrive less than COUNTERS samples apart, with no restart between, one is
\* published, whatever was published before (the first frame of a unit whose
\* counter is 0 is missed, as is one a multiple of 256 samples later).
NeverSkipsTwice ==
  [][\A t \in skipped :
       LET now == latest'[Key(t)].sample
           before == latest[Key(t)].sample
       IN  before < now /\ now - before < COUNTERS /\ since <= before
             => t \notin skipped']_vars

\* The orientation of an Imu message is of the sample of its rates or of one next
\* to it, but for frames lost, once the unit streams both and a quaternion has
\* come since it restarted.
ImuPairs ==
  [][("imu" \in DOMAIN out' /\ {"raw", "quaternion"} \subseteq streaming
      /\ \A k \in Parts("imu") : out'["imu"][k] >= since) =>
     LET m == out'["imu"]
     IN  /\ m["raw"] - m["quaternion"] <= 1 + lost["quaternion"]
         /\ m["quaternion"] - m["raw"] <= 1 + lost["raw"]]_vars
=============================================================================
