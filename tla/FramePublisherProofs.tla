------------------------- MODULE FramePublisherProofs -------------------------
(***************************************************************************)
(* For any kinds, topics, counters and number of samples: what publish     *)
(* puts on a topic was received, and is newer than what it put there last. *)
(*                                                                         *)
(* OrderInv is why.  A frame still to be sent is newer than the latest one *)
(* of its kind, and a topic that has shown its latest frame has the        *)
(* counter of it: it is not due again until another comes.                 *)
(*                                                                         *)
(* The second part is what counters of a few bits say about samples, for   *)
(* any number of values of a counter: when a topic may miss a frame, which *)
(* samples the Imu message joins, and what the monitor's sums mean.  A     *)
(* counter is Behind the unit's by the samples between, but for a multiple *)
(* of COUNTERS; this holds since the unit last restarted, and is all that  *)
(* the comparisons of counters rest on.                                    *)
(***************************************************************************)
EXTENDS CounterMonitor, TLAPS

\* The unit's side: a kind loses at most a frame per sample.
StreamInv ==
  /\ toSend \subseteq streaming /\ streaming \subseteq Kind
  /\ sample \in 0 .. MaxSample /\ counter \in 0 .. COUNTERS - 1
  /\ since \in 1 .. MaxSample + 1
  /\ lost \in [Kind -> 0 .. MaxSample]
  /\ \A k \in Kind : lost[k] <= sample /\ (k \in toSend => lost[k] < sample)

\* The node's side.
NodeType ==
  /\ publish_enable \in BOOLEAN
  /\ latest \in [Kind -> [sample : 0 .. MaxSample, counter : 0 .. COUNTERS - 1]]
  /\ has \subseteq Kind
  /\ last \in [Topic -> 0 .. COUNTERS - 1]
  /\ shown \in [Topic -> 0 .. MaxSample]

\* The messages of a step.
OutType ==
  /\ \A t \in DOMAIN out : t \in Topic /\ out[t] \in [Parts(t) -> 1 .. MaxSample]
  /\ skipped \subseteq Topic

OrderInv ==
  /\ \A k \in toSend : latest[k].sample < sample
  /\ \A k \in Kind : latest[k].sample <= sample
  /\ \A k \in has : latest[k].sample > 0
  /\ \A t \in Topic :
       /\ shown[t] <= latest[Key(t)].sample
       /\ shown[t] = latest[Key(t)].sample /\ shown[t] > 0
            => last[t] = latest[Key(t)].counter

IInv == StreamInv /\ NodeType /\ OutType /\ OrderInv

\* The assumption on the constants, in the form the provers use.
LEMMA Bounds == MaxSample \in Nat /\ COUNTERS \in Nat /\ COUNTERS > 0
BY PublisherAssumption

\* The frame whose counter a topic follows is one of its parts, and those are kinds.
LEMMA KeyIsAKind ==
  ASSUME NEW t \in Topic
  PROVE  Key(t) \in Kind /\ Key(t) \in Parts(t) /\ Parts(t) \subseteq Kind
BY PublisherAssumption DEF Topic, Key, Parts

\* Nothing is published by the empty sequence.
LEMMA NothingOut == DOMAIN <<>> = {}
OBVIOUS

\* The invariant holds before the first frame.
LEMMA InitInv == Init => IInv
<1>. SUFFICES ASSUME Init PROVE IInv
  OBVIOUS
<1>. USE Bounds, KeyIsAKind DEF Init
<1>1. StreamInv
  BY DEF StreamInv
<1>2. NodeType
  <2>1. [sample |-> 0, counter |-> 0] \in [sample : 0 .. MaxSample, counter : 0 .. COUNTERS - 1]
    OBVIOUS
  <2>. QED
    BY <2>1 DEF NodeType
<1>3. OutType
  BY NothingOut DEF OutType
<1>4. OrderInv
  BY DEF OrderInv
<1>. QED
  BY <1>1, <1>2, <1>3, <1>4 DEF IInv

-----------------------------------------------------------------------------
(* A frame arrives                                                         *)

\* What is due when a frame of kind k has been stored.
DueNow == {t \in Topic : publish_enable /\ Due(t, latest', has')}

\* What the node does with it.
LEMMA Handled ==
  ASSUME IInv, NEW k \in Kind, Arrives(k)
  PROVE  /\ latest' = [latest EXCEPT ![k] = [sample |-> sample, counter |-> counter]]
         /\ has' = has \cup {k} /\ k \in toSend
         /\ DOMAIN out' = DueNow
         /\ \A t \in DueNow : out'[t] = [j \in Parts(t) |-> latest'[j].sample]
         /\ last' = [t \in Topic |-> IF t \in DueNow THEN latest'[Key(t)].counter ELSE last[t]]
         /\ shown' = [t \in Topic |-> IF t \in DueNow THEN latest'[Key(t)].sample ELSE shown[t]]
<1>1. /\ latest' = [latest EXCEPT ![k] = [sample |-> sample, counter |-> counter]]
      /\ has' = has \cup {k} /\ k \in toSend
      /\ shown' = [t \in Topic |-> IF t \in DOMAIN out' THEN out'[t][Key(t)] ELSE shown[t]]
  BY DEF Arrives, OnFrame
<1>2. CASE publish_enable
  <2>1. /\ out' = [t \in DueNow |-> [j \in Parts(t) |-> latest'[j].sample]]
        /\ last' = [t \in Topic |-> IF t \in DueNow THEN latest'[Key(t)].counter ELSE last[t]]
    BY <1>2 DEF Arrives, OnFrame, Publish, DueNow
  <2>. QED
    BY <1>1, <2>1, KeyIsAKind DEF DueNow
<1>3. CASE ~publish_enable
  <2>1. out' = <<>> /\ last' = last /\ DueNow = {}
    BY <1>3 DEF Arrives, OnFrame, DueNow
  <2>2. /\ last = [t \in Topic |-> last[t]]
        /\ shown' = [t \in Topic |-> shown[t]]
    BY <1>1, <2>1, NothingOut DEF IInv, NodeType
  <2>. QED
    BY <1>1, <2>1, <2>2, NothingOut
<1>. QED
  BY <1>2, <1>3

\* The frame is newer than the latest one of its kind, the others stay.
LEMMA Stored ==
  ASSUME IInv, NEW k \in Kind, Arrives(k)
  PROVE  /\ latest'[k].sample = sample /\ latest[k].sample < sample
         /\ \A j \in Kind \ {k} : latest'[j] = latest[j]
         /\ \A j \in has' : latest'[j].sample > 0
         /\ latest' \in [Kind -> [sample : 0 .. MaxSample, counter : 0 .. COUNTERS - 1]]
<1>1. /\ latest' = [latest EXCEPT ![k] = [sample |-> sample, counter |-> counter]]
      /\ has' = has \cup {k} /\ k \in toSend
  BY Handled
<1>2. /\ latest'[k].sample = sample /\ latest[k].sample < sample
      /\ \A j \in Kind \ {k} : latest'[j] = latest[j]
  BY <1>1 DEF IInv, NodeType, OrderInv
<1>3. sample > 0
  BY <1>2 DEF IInv, NodeType, StreamInv
<1>4. [sample |-> sample, counter |-> counter] \in [sample : 0 .. MaxSample, counter : 0 .. COUNTERS - 1]
  BY DEF IInv, StreamInv
<1>. QED
  BY <1>1, <1>2, <1>3, <1>4 DEF IInv, NodeType, OrderInv

\* A frame that arrives keeps samples and counters in order.
LEMMA ArrivesOrder ==
  ASSUME IInv, NEW k \in Kind, Arrives(k)
  PROVE  OrderInv' /\ \A t \in DOMAIN out' : out'[t][Key(t)] > shown[t]
<1>1. /\ sample' = sample /\ sample \in Nat /\ toSend' = toSend \ {k} /\ toSend \subseteq Kind
      /\ \A j \in Kind : latest[j].sample \in Nat /\ latest'[j].sample \in Nat
      /\ \A t \in Topic : shown[t] \in Nat
  <2>1. /\ sample' = sample /\ sample \in Nat /\ toSend' = toSend \ {k} /\ toSend \subseteq Kind
    BY Bounds DEF IInv, StreamInv, Arrives
  <2>2. latest' \in [Kind -> [sample : 0 .. MaxSample, counter : 0 .. COUNTERS - 1]]
    BY Stored
  <2>3. \A j \in Kind : latest'[j].sample \in 0 .. MaxSample
    BY <2>2
  <2>4. \A j \in Kind : latest[j].sample \in 0 .. MaxSample
    BY DEF IInv, NodeType
  <2>5. \A t \in Topic : shown[t] \in 0 .. MaxSample
    BY DEF IInv, NodeType
  <2>. QED
    BY <2>1, <2>3, <2>4, <2>5
<1>2. /\ \A j \in toSend' : latest'[j].sample < sample'
      /\ \A j \in Kind : latest'[j].sample <= sample'
      /\ \A j \in has' : latest'[j].sample > 0
  BY <1>1, Stored DEF IInv, OrderInv
<1>3. ASSUME NEW t \in Topic
      PROVE  /\ shown[t] <= latest'[Key(t)].sample
             /\ shown[t] = latest'[Key(t)].sample /\ shown[t] > 0
                  => last[t] = latest'[Key(t)].counter
  <2>1. CASE Key(t) = k
    BY <1>1, <2>1, Stored, KeyIsAKind DEF IInv, OrderInv
  <2>2. CASE Key(t) # k
    BY <1>1, <2>2, Stored, KeyIsAKind DEF IInv, OrderInv
  <2>. QED
    BY <2>1, <2>2
<1>4. ASSUME NEW t \in DueNow
      PROVE  out'[t][Key(t)] = latest'[Key(t)].sample /\ latest'[Key(t)].sample > shown[t]
  <2>1. t \in Topic /\ Key(t) \in has' /\ latest'[Key(t)].counter # last[t]
    BY KeyIsAKind DEF DueNow, Due
  <2>2. latest'[Key(t)].sample # shown[t]
    BY <1>1, <1>2, <1>3, <2>1, KeyIsAKind
  <2>3. latest'[Key(t)].sample > shown[t]
    BY <1>1, <1>3, <2>1, <2>2, KeyIsAKind
  <2>4. out'[t] = [j \in Parts(t) |-> latest'[j].sample]
    BY Handled
  <2>5. out'[t][Key(t)] = latest'[Key(t)].sample
    BY <2>1, <2>4, KeyIsAKind
  <2>. QED
    BY <2>3, <2>5
<1>5. ASSUME NEW t \in Topic
      PROVE  /\ shown'[t] <= latest'[Key(t)].sample
             /\ shown'[t] = latest'[Key(t)].sample /\ shown'[t] > 0
                  => last'[t] = latest'[Key(t)].counter
  <2>1. CASE t \in DueNow
    <3>1. shown'[t] = latest'[Key(t)].sample /\ last'[t] = latest'[Key(t)].counter
      BY <2>1, Handled
    <3>. QED
      BY <1>1, <3>1, KeyIsAKind
  <2>2. CASE t \notin DueNow
    <3>1. shown'[t] = shown[t] /\ last'[t] = last[t]
      BY <2>2, Handled
    <3>. QED
      BY <1>3, <3>1
  <2>. QED
    BY <2>1, <2>2
<1>6. OrderInv'
  BY <1>2, <1>5 DEF OrderInv, Key
<1>. QED
  BY <1>4, <1>6, Handled

\* A frame that arrives, with what is published for it, preserves the invariant.
LEMMA ArrivesInv ==
  ASSUME IInv, NEW k \in Kind, Arrives(k)
  PROVE  IInv'
<1>1. StreamInv'
  <2>1. /\ toSend' = toSend \ {k} /\ lost' = [lost EXCEPT ![k] = 0]
        /\ UNCHANGED <<streaming, sample, counter, since>>
    BY DEF Arrives
  <2>2. \A j \in Kind : lost'[j] \in 0 .. MaxSample /\ (lost'[j] = 0 \/ lost'[j] = lost[j])
    BY <2>1, Bounds DEF IInv, StreamInv
  <2>3. sample > 0
    BY Stored DEF IInv, NodeType, StreamInv
  <2>. QED
    BY <2>1, <2>2, <2>3, Bounds DEF IInv, StreamInv
<1>2. NodeType'
  <2>1. publish_enable' \in BOOLEAN
    BY DEF IInv, NodeType, Arrives, OnFrame
  <2>2. has' \subseteq Kind
    BY Handled DEF IInv, NodeType
  <2>3. \A t \in Topic : latest'[Key(t)] \in [sample : 0 .. MaxSample, counter : 0 .. COUNTERS - 1]
    BY Stored, KeyIsAKind
  <2>4. \A t \in Topic : last[t] \in 0 .. COUNTERS - 1 /\ shown[t] \in 0 .. MaxSample
    BY DEF IInv, NodeType
  <2>5. last' \in [Topic -> 0 .. COUNTERS - 1] /\ shown' \in [Topic -> 0 .. MaxSample]
    BY <2>3, <2>4, Handled
  <2>. QED
    BY <2>1, <2>2, <2>5, Stored DEF NodeType
<1>3. OutType'
  <2>1. \A j \in has' : latest'[j].sample \in 1 .. MaxSample
    <3>1. \A j \in Kind : latest'[j].sample \in 0 .. MaxSample
      BY Stored
    <3>2. has' \subseteq Kind
      BY <1>2 DEF NodeType
    <3>. QED
      BY <3>1, <3>2, Stored
  <2>2. ASSUME NEW t \in DueNow PROVE out'[t] \in [Parts(t) -> 1 .. MaxSample]
    <3>1. t \in Topic /\ Parts(t) \subseteq has'
      BY DEF DueNow, Due
    <3>2. \A j \in Parts(t) : latest'[j].sample \in 1 .. MaxSample
      BY <2>1, <3>1
    <3>3. out'[t] = [j \in Parts(t) |-> latest'[j].sample]
      BY Handled
    <3>. QED
      BY <3>2, <3>3
  <2>3. skipped' \subseteq Topic
    BY DEF IInv, OutType, Arrives, Missed
  <2>4. \A t \in DOMAIN out' : t \in Topic /\ out'[t] \in [Parts(t) -> 1 .. MaxSample]
    BY <2>2, Handled DEF DueNow
  <2>. QED
    BY <2>3, <2>4 DEF OutType, Parts
<1>4. OrderInv'
  BY ArrivesOrder
<1>. QED
  BY <1>1, <1>2, <1>3, <1>4 DEF IInv

-----------------------------------------------------------------------------
(* The other steps publish nothing                                         *)

\* A step that changes nothing of the node keeps its half of the invariant.
LEMMA QuietInv ==
  ASSUME IInv, out' = <<>>, skipped' = skipped,
         publish_enable' \in BOOLEAN, UNCHANGED <<latest, has, last, shown>>
  PROVE  /\ NodeType' /\ OutType'
         /\ sample' \in Int /\ sample <= sample' /\ (\A k \in toSend' : latest[k].sample < sample')
              => OrderInv'
<1>1. NodeType'
  BY DEF IInv, NodeType
<1>2. OutType'
  BY NothingOut DEF IInv, OutType
<1>3. ASSUME sample' \in Int, sample <= sample', \A k \in toSend' : latest[k].sample < sample'
      PROVE  OrderInv'
  <2>1. \A k \in Kind : latest[k].sample \in 0 .. MaxSample
    BY DEF IInv, NodeType
  <2>2. sample \in 0 .. MaxSample /\ sample' \in Int
    BY <1>3 DEF IInv, StreamInv
  <2>3. \A k \in Kind : latest[k].sample <= sample'
    BY <1>3, <2>1, <2>2 DEF IInv, OrderInv
  <2>. QED
    BY <1>3, <2>3 DEF IInv, OrderInv, Key
<1>. QED
  BY <1>1, <1>2, <1>3

\* A restart of the unit preserves the invariant.
LEMMA RestartedInv ==
  ASSUME IInv, Restarted
  PROVE  StreamInv' /\ toSend' = {} /\ sample' = sample
BY Bounds DEF IInv, StreamInv, Restarted

\* Every step of the publisher preserves the invariant.
LEMMA StepInv == IInv /\ [Next]_vars => IInv'
<1>. SUFFICES ASSUME IInv, [Next]_vars PROVE IInv'
  OBVIOUS
<1>1. CASE TakeSample
  <2>1. /\ sample' = sample + 1 /\ counter' = (counter + 1) % COUNTERS /\ sample < MaxSample
        /\ toSend' = streaming /\ UNCHANGED <<streaming, since, lost>>
    BY <1>1 DEF TakeSample
  <2>2. StreamInv'
    <3>1. counter' \in 0 .. COUNTERS - 1
      BY <2>1, Bounds DEF IInv, StreamInv
    <3>2. \A k \in Kind : lost[k] \in 0 .. MaxSample /\ lost[k] <= sample
      BY DEF IInv, StreamInv
    <3>. QED
      BY <2>1, <3>1, <3>2, Bounds DEF IInv, StreamInv
  <2>3. \A k \in toSend' : latest[k].sample < sample'
    <3>1. \A k \in Kind : latest[k].sample \in 0 .. MaxSample /\ latest[k].sample <= sample
      BY DEF IInv, NodeType, OrderInv
    <3>. QED
      BY <2>1, <3>1, Bounds DEF IInv, StreamInv
  <2>. QED
    BY <1>1, <2>1, <2>2, <2>3, QuietInv DEF TakeSample, nodeVars, IInv, StreamInv, NodeType
<1>2. ASSUME NEW k \in Kind, Arrives(k) PROVE IInv'
  BY <1>2, ArrivesInv
<1>3. ASSUME NEW k \in Kind, IsLost(k) PROVE IInv'
  <2>1. /\ toSend' = toSend \ {k} /\ k \in toSend /\ lost' = [lost EXCEPT ![k] = lost[k] + 1]
        /\ UNCHANGED <<streaming, sample, counter, since>>
    BY <1>3 DEF IsLost
  <2>2. StreamInv'
    BY <2>1, Bounds DEF IInv, StreamInv
  <2>. QED
    BY <1>3, <2>1, <2>2, QuietInv DEF IsLost, nodeVars, IInv, StreamInv, NodeType, OrderInv
<1>4. CASE EnablePublish
  BY <1>4, RestartedInv, QuietInv DEF EnablePublish, Restarted, IInv, StreamInv
<1>5. CASE UnitRestarts
  BY <1>5, RestartedInv, QuietInv, SMTT(30) DEF UnitRestarts, Restarted, nodeVars, IInv, StreamInv, NodeType
<1>6. CASE UNCHANGED vars
  BY <1>6 DEF vars, nodeVars, unitVars, history, IInv, StreamInv, NodeType, OutType, OrderInv,
              Key, Parts
<1>. QED
  BY <1>1, <1>2, <1>3, <1>4, <1>5, <1>6 DEF Next

\* TypeOK for any kinds, topics and bounds: no message is made of a latest_* that
\* nothing was stored in.
THEOREM PublisherTypeCorrect == Spec => []TypeOK
<1>1. IInv => TypeOK
  BY DEF IInv, StreamInv, NodeType, OutType, TypeOK
<1>. QED
  BY <1>1, InitInv, StepInv, PTL DEF Spec

\* The action of NewerSample.
NewerStep == \A t \in DOMAIN out' : out'[t][Key(t)] > shown[t]

\* NewerSample for any kinds, topics and counters, with any restarts and losses.
THEOREM OnlyNewerSamples == Spec => NewerSample
<1>1. IInv /\ [Next]_vars => [NewerStep]_vars
  <2>. SUFFICES ASSUME IInv, Next PROVE NewerStep
    OBVIOUS
  <2>1. ASSUME NEW k \in Kind, Arrives(k) PROVE NewerStep
    BY <2>1, ArrivesOrder DEF NewerStep
  <2>2. CASE out' = <<>>
    BY <2>2, NothingOut DEF NewerStep
  <2>. QED
    BY <2>1, <2>2 DEF Next, TakeSample, IsLost, EnablePublish, UnitRestarts, Restarted
<1>2. NewerSample <=> [][NewerStep]_vars
  BY DEF NewerSample, NewerStep
<1>. QED
  BY <1>1, <1>2, InitInv, StepInv, PTL DEF Spec

-----------------------------------------------------------------------------
(* What counters tell                                                      *)

\* A counter of d samples ago.
Behind(c, d) == \E m \in Nat : counter + m * COUNTERS = c + d

CountInv == \A k \in Kind : latest[k].sample >= since
                              => Behind(latest[k].counter, sample - latest[k].sample)

\* A topic has missed a frame because it has the counter of its last message.
SkippedInv == \A t \in skipped : last[t] = latest[Key(t)].counter

\* The samples since the latest frame were lost, but for the one to be sent.
LostInv == \A k \in streaming : latest[k].sample >= since
             => sample - latest[k].sample = lost[k] + (IF k \in toSend THEN 1 ELSE 0)

PairInv == IInv /\ CountInv /\ SkippedInv /\ LostInv

-----------------------------------------------------------------------------
(* Counters                                                                *)

\* The unit's next counter, and a difference of two counters, in eight bits.
LEMMA Next8 ==
  ASSUME NEW c \in 0 .. COUNTERS - 1
  PROVE  (c + 1) % COUNTERS = IF c = COUNTERS - 1 THEN 0 ELSE c + 1
BY Bounds

\* A difference of two counters, in eight bits, wraps when it is negative.
LEMMA Gap8 ==
  ASSUME NEW d \in Int, -COUNTERS < d, d < COUNTERS
  PROVE  d % COUNTERS = IF d < 0 THEN d + COUNTERS ELSE d
BY Bounds

\* A counter falls one more behind with the next sample.
LEMMA BehindNext ==
  ASSUME NEW c \in Nat, NEW d \in Nat, counter \in 0 .. COUNTERS - 1, Behind(c, d),
         counter' = (counter + 1) % COUNTERS
  PROVE  \E m \in Nat : counter' + m * COUNTERS = c + (d + 1)
<1>1. PICK m \in Nat : counter + m * COUNTERS = c + d
  BY DEF Behind
<1>2. CASE counter = COUNTERS - 1
  <2>1. counter' = 0
    BY <1>2, Next8
  <2>2. (m + 1) * COUNTERS = m * COUNTERS + COUNTERS
    BY Bounds
  <2>3. counter' + (m + 1) * COUNTERS = c + (d + 1)
    <3>1. m * COUNTERS \in Nat
      BY Bounds
    <3>. QED
      BY <1>1, <1>2, <2>1, <2>2, <3>1, Bounds
  <2>. QED
    BY <2>3
<1>3. CASE counter # COUNTERS - 1
  <2>1. counter' = counter + 1
    BY <1>3, Next8
  <2>2. m * COUNTERS \in Nat
    BY Bounds
  <2>3. counter' + m * COUNTERS = c + (d + 1)
    BY <1>1, <2>1, <2>2, Bounds
  <2>. QED
    BY <2>3
<1>. QED
  BY <1>2, <1>3

\* The latest frame is not behind at all.
LEMMA BehindNone ==
  ASSUME counter \in Nat
  PROVE  Behind(counter, 0)
BY Bounds DEF Behind

\* Two counters d samples apart: they differ, and how far they are apart is what
\* the monitor computes.
LEMMA GapOf ==
  ASSUME NEW c \in 0 .. COUNTERS - 1, NEW b \in 0 .. COUNTERS - 1, NEW d \in 1 .. COUNTERS,
         NEW n \in Int, b + n * COUNTERS = c + d
  PROVE  /\ d < COUNTERS => b # c
         /\ (b - ((c + 1) % COUNTERS)) % COUNTERS = d - 1
<1>1. n * COUNTERS \in Int
  BY Bounds
<1>2. n \in {0, 1}
  <2>1. CASE n >= 2
    <3>1. n * COUNTERS >= 2 * COUNTERS
      BY <2>1, Bounds
    <3>. QED
      BY <1>1, <3>1, Bounds
  <2>2. CASE n <= -1
    <3>1. n * COUNTERS <= -COUNTERS
      BY <2>2, Bounds
    <3>. QED
      BY <1>1, <3>1, Bounds
  <2>. QED
    BY <2>1, <2>2
<1>3. b = c + d \/ b + COUNTERS = c + d
  BY <1>2, Bounds
<1>4. d < COUNTERS => b # c
  BY <1>3, Bounds
<1>5. CASE c = COUNTERS - 1
  <2>1. (c + 1) % COUNTERS = 0 /\ b = d - 1
    BY <1>3, <1>5, Next8, Bounds
  <2>. QED
    BY <1>4, <2>1, Gap8, Bounds
<1>6. CASE c # COUNTERS - 1
  <2>1. (c + 1) % COUNTERS = c + 1
    BY <1>6, Next8
  <2>2. \/ b - (c + 1) = d - 1
        \/ b - (c + 1) = d - 1 - COUNTERS
    BY <1>3, Bounds
  <2>3. (b - (c + 1)) % COUNTERS = d - 1
    BY <2>2, Gap8, Bounds
  <2>. QED
    BY <1>4, <2>1, <2>3
<1>. QED
  BY <1>5, <1>6

\* Two counters behind the unit's are apart what their samples are.
LEMMA BehindApart ==
  ASSUME counter \in Nat, NEW c \in 0 .. COUNTERS - 1, NEW b \in 0 .. COUNTERS - 1,
         NEW e \in Nat, NEW f \in Nat, Behind(c, e), Behind(b, f), e - f \in 1 .. COUNTERS
  PROVE  /\ e - f < COUNTERS => b # c
         /\ (b - ((c + 1) % COUNTERS)) % COUNTERS = (e - f) - 1
<1>1. PICK m \in Nat : counter + m * COUNTERS = c + e
  BY DEF Behind
<1>2. PICK l \in Nat : counter + l * COUNTERS = b + f
  BY DEF Behind
<1>3. m - l \in Int /\ (m - l) * COUNTERS = m * COUNTERS - l * COUNTERS
  BY Bounds
<1>4. m * COUNTERS \in Nat /\ l * COUNTERS \in Nat
  BY Bounds
<1>5. b + (m - l) * COUNTERS = c + (e - f)
  BY <1>1, <1>2, <1>3, <1>4, Bounds
<1>. QED
  BY <1>3, <1>5, GapOf

-----------------------------------------------------------------------------
(* Counters, misses and losses as the publisher runs                       *)

\* Nothing has come at first.
LEMMA InitPairs == Init => PairInv
<1>. SUFFICES ASSUME Init PROVE PairInv
  OBVIOUS
<1>1. \A k \in Kind : latest[k].sample = 0 /\ since = 1
  BY DEF Init
<1>2. StreamInv
  BY InitInv DEF IInv
<1>3. CountInv /\ LostInv
  BY <1>1, <1>2 DEF CountInv, LostInv, StreamInv
<1>4. SkippedInv
  BY DEF Init, SkippedInv
<1>. QED
  BY <1>3, <1>4, InitInv DEF PairInv

\* The numbers there are.
LEMMA Numbers ==
  ASSUME IInv
  PROVE  /\ sample \in Nat /\ since \in Nat \ {0} /\ counter \in 0 .. COUNTERS - 1
         /\ \A k \in Kind : /\ latest[k].sample \in Nat /\ latest[k].sample <= sample
                           /\ latest[k].counter \in 0 .. COUNTERS - 1 /\ lost[k] \in Nat
         /\ toSend \subseteq streaming /\ streaming \subseteq Kind
BY Bounds DEF IInv, StreamInv, NodeType, OrderInv

\* After a restart no frame is of the unit's new counters.
LEMMA RestartPairs ==
  ASSUME PairInv, Restarted, UNCHANGED <<latest, last>>
  PROVE  CountInv' /\ SkippedInv' /\ LostInv'
<1>1. /\ since' = sample + 1 /\ UNCHANGED <<sample, skipped>>
      /\ streaming' \in SUBSET Kind
  BY DEF Restarted
<1>2. \A k \in Kind : ~(latest'[k].sample >= since')
  BY <1>1, Numbers DEF PairInv
<1>3. SkippedInv'
  BY <1>1 DEF PairInv, SkippedInv
<1>. QED
  BY <1>1, <1>2, <1>3 DEF CountInv, LostInv

\* What arrives has the unit's counter, and makes up for what was lost.
LEMMA ArrivePairs ==
  ASSUME PairInv, NEW k \in Kind, Arrives(k)
  PROVE  CountInv' /\ SkippedInv' /\ LostInv'
<1>0. IInv
  BY DEF PairInv
<1>1. /\ toSend' = toSend \ {k} /\ k \in toSend
      /\ skipped' = {t \in skipped : Key(t) # k} \cup Missed(k)
      /\ lost' = [lost EXCEPT ![k] = 0]
      /\ UNCHANGED <<streaming, sample, counter, since>>
  BY DEF Arrives
<1>2. /\ latest'[k] = [sample |-> sample, counter |-> counter]
      /\ \A j \in Kind \ {k} : latest'[j] = latest[j]
  BY <1>0, Handled DEF IInv, NodeType
<1>3. CountInv'
  <2>1. ASSUME NEW j \in Kind \ {k}, latest'[j].sample >= since'
        PROVE  Behind(latest[j].counter, sample - latest[j].sample)'
    BY <1>1, <1>2, <2>1 DEF PairInv, CountInv, Behind
  <2>2. Behind(latest[k].counter, sample - latest[k].sample)'
    <3>1. sample' - latest'[k].sample = 0 /\ latest'[k].counter = counter
      BY <1>0, <1>1, <1>2, Numbers
    <3>2. counter + 0 * COUNTERS = counter + 0
      BY <1>0, Numbers, Bounds
    <3>. QED
      BY <1>1, <3>1, <3>2 DEF Behind
  <2>. QED
    BY <2>1, <2>2 DEF CountInv
<1>4. SkippedInv'
  <2>1. last' = [t \in Topic |-> IF t \in DueNow THEN latest'[Key(t)].counter ELSE last[t]]
    BY <1>0, Handled
  <2>2. DOMAIN out' = DueNow
    BY <1>0, Handled
  <2>3. ASSUME NEW t \in skipped, Key(t) # k PROVE last'[t] = latest'[Key(t)].counter
    <3>1. t \in Topic
      BY <1>0 DEF IInv, OutType
    <3>. QED
      BY <1>2, <2>1, <2>3, <3>1, KeyIsAKind DEF PairInv, SkippedInv
  <2>4. ASSUME NEW t \in Missed(k) PROVE last'[t] = latest'[Key(t)].counter
    <3>1. t \in Topic /\ publish_enable /\ Parts(t) \subseteq has' /\ t \notin DueNow
      BY <2>2 DEF Missed
    <3>. QED
      BY <2>1, <3>1, KeyIsAKind DEF DueNow, Due
  <2>. QED
    BY <1>1, <2>3, <2>4 DEF SkippedInv
<1>5. LostInv'
  <2>1. \A j \in streaming \ {k} : j \in Kind /\ lost'[j] = lost[j] /\ (j \in toSend' <=> j \in toSend)
    BY <1>0, <1>1, Numbers DEF IInv, StreamInv
  <2>2. k \notin toSend' /\ lost'[k] = 0 /\ sample' - latest'[k].sample = 0
    BY <1>0, <1>1, <1>2, Numbers DEF IInv, StreamInv
  <2>. QED
    BY <1>1, <1>2, <2>1, <2>2 DEF PairInv, LostInv
<1>. QED
  BY <1>3, <1>4, <1>5

\* Every step keeps the counters in step with the samples.
LEMMA StepPairs == PairInv /\ [Next]_vars => PairInv'
<1>. SUFFICES ASSUME PairInv, [Next]_vars PROVE CountInv' /\ SkippedInv' /\ LostInv'
  BY StepInv DEF PairInv
<1>0. IInv
  BY DEF PairInv
<1>1. CASE TakeSample
  <2>1. /\ sample' = sample + 1 /\ counter' = (counter + 1) % COUNTERS
        /\ toSend = {} /\ toSend' = streaming
        /\ UNCHANGED <<latest, last, streaming, skipped, since, lost>>
    BY <1>1 DEF TakeSample, nodeVars
  <2>2. ASSUME NEW k \in Kind, latest[k].sample >= since
        PROVE  Behind(latest[k].counter, sample - latest[k].sample)'
    <3>1. Behind(latest[k].counter, sample - latest[k].sample)
      BY <2>2 DEF PairInv, CountInv
    <3>2. sample - latest[k].sample \in Nat /\ latest[k].counter \in Nat /\ counter \in 0 .. COUNTERS - 1
      BY <1>0, Numbers, Bounds
    <3>3. sample' - latest'[k].sample = (sample - latest[k].sample) + 1
      BY <1>0, <2>1, Numbers
    <3>4. \E m \in Nat : counter' + m * COUNTERS = latest[k].counter + ((sample - latest[k].sample) + 1)
      BY <2>1, <3>1, <3>2, BehindNext
    <3>. QED
      BY <2>1, <3>3, <3>4 DEF Behind
  <2>3. CountInv'
    BY <2>1, <2>2 DEF CountInv
  <2>4. LostInv'
    BY <1>0, <2>1, Numbers DEF PairInv, LostInv
  <2>. QED
    BY <2>1, <2>3, <2>4 DEF PairInv, SkippedInv
<1>2. ASSUME NEW k \in Kind, Arrives(k) PROVE CountInv' /\ SkippedInv' /\ LostInv'
  BY <1>2, ArrivePairs
<1>3. ASSUME NEW k \in Kind, IsLost(k) PROVE CountInv' /\ SkippedInv' /\ LostInv'
  <2>1. /\ toSend' = toSend \ {k} /\ k \in toSend /\ lost' = [lost EXCEPT ![k] = lost[k] + 1]
        /\ UNCHANGED <<latest, last, streaming, sample, counter, skipped, since>>
    BY <1>3 DEF IsLost, nodeVars
  <2>2. CountInv' /\ SkippedInv'
    BY <2>1 DEF PairInv, CountInv, SkippedInv, Behind
  <2>3. LostInv'
    <3>1. \A j \in streaming \ {k} : j \in Kind /\ lost'[j] = lost[j] /\ (j \in toSend' <=> j \in toSend)
      BY <1>0, <2>1, Numbers DEF IInv, StreamInv
    <3>2. k \notin toSend' /\ lost'[k] = lost[k] + 1
      BY <1>0, <2>1, Numbers DEF IInv, StreamInv
    <3>. QED
      BY <1>0, <2>1, <3>1, <3>2, Numbers DEF PairInv, LostInv
  <2>. QED
    BY <2>2, <2>3
<1>4. CASE EnablePublish
  BY <1>4, RestartPairs DEF EnablePublish
<1>5. CASE UnitRestarts
  BY <1>5, RestartPairs DEF UnitRestarts, nodeVars
<1>6. CASE UNCHANGED vars
  BY <1>6 DEF vars, nodeVars, unitVars, history, PairInv, CountInv, SkippedInv, LostInv, Behind
<1>. QED
  BY <1>1, <1>2, <1>3, <1>4, <1>5, <1>6 DEF Next
-----------------------------------------------------------------------------
(* What the topics show                                                    *)

\* The action of NeverSkipsTwice.
TwiceStep == \A t \in skipped :
               LET now == latest'[Key(t)].sample
                   before == latest[Key(t)].sample
               IN  before < now /\ now - before < COUNTERS /\ since <= before
                     => t \notin skipped'

\* No step skips a topic twice in a row: two counters that differ by less than 256
\* samples differ.
LEMMA OnceOnly == PairInv /\ [Next]_vars => TwiceStep
<1>. SUFFICES ASSUME PairInv, [Next]_vars, NEW t \in skipped,
                     latest[Key(t)].sample < latest'[Key(t)].sample,
                     latest'[Key(t)].sample - latest[Key(t)].sample < COUNTERS,
                     since <= latest[Key(t)].sample, t \in skipped'
              PROVE  FALSE
  BY DEF TwiceStep
<1>0. IInv /\ t \in Topic /\ Key(t) \in Kind
  BY KeyIsAKind DEF PairInv, IInv, OutType
<1>1. latest' # latest
  BY <1>0, Numbers
<1>2. PICK k \in Kind : Arrives(k)
  BY <1>1 DEF Next, TakeSample, IsLost, EnablePublish, UnitRestarts, nodeVars, vars
<1>3. /\ k = Key(t) /\ latest'[k] = [sample |-> sample, counter |-> counter]
  BY <1>0, <1>2, Handled, Numbers DEF IInv, NodeType
<1>4. counter # latest[k].counter
  <2>1. Behind(latest[k].counter, sample - latest[k].sample)
    BY <1>0, <1>3, Numbers DEF PairInv, CountInv
  <2>2. /\ sample - latest[k].sample \in 1 .. COUNTERS /\ sample - latest[k].sample < COUNTERS
        /\ sample - latest[k].sample \in Nat
        /\ (sample - latest[k].sample) - 0 = sample - latest[k].sample
    BY <1>0, <1>3, Numbers, Bounds
  <2>3. /\ counter \in 0 .. COUNTERS - 1 /\ latest[k].counter \in 0 .. COUNTERS - 1
        /\ counter \in Nat /\ Behind(counter, 0)
    BY <1>0, BehindNone, Numbers, Bounds
  <2>. QED
    BY <2>1, <2>2, <2>3, BehindApart
<1>5. t \in Missed(k)
  BY <1>2, <1>3 DEF Arrives
<1>6. publish_enable /\ Parts(t) \subseteq has' /\ t \notin DueNow
  BY <1>0, <1>2, <1>5, Handled DEF Missed
<1>7. latest'[Key(t)].counter # last[t]
  BY <1>3, <1>4 DEF PairInv, SkippedInv
<1>. QED
  BY <1>0, <1>6, <1>7, KeyIsAKind DEF DueNow, Due

\* NeverSkipsTwice for any kinds, topics and number of counters.
THEOREM TopicsNeverSkipTwice == Spec => NeverSkipsTwice
<1>1. NeverSkipsTwice <=> [][TwiceStep]_vars
  BY DEF NeverSkipsTwice, TwiceStep
<1>. QED
  BY <1>1, InitPairs, StepPairs, OnceOnly, PTL DEF Spec

\* The action of ImuPairs.
PairStep ==
  ("imu" \in DOMAIN out' /\ {"raw", "quaternion"} \subseteq streaming
      /\ \A k \in Parts("imu") : out'["imu"][k] >= since) =>
     LET m == out'["imu"]
     IN  /\ m["raw"] - m["quaternion"] <= 1 + lost["quaternion"]
         /\ m["quaternion"] - m["raw"] <= 1 + lost["raw"]

\* Every step that publishes an Imu message joins neighbouring samples.
LEMMA Neighbours == PairInv /\ [Next]_vars => [PairStep]_vars
<1>. SUFFICES ASSUME PairInv, Next, "imu" \in DOMAIN out', {"raw", "quaternion"} \subseteq streaming,
                     \A k \in Parts("imu") : out'["imu"][k] >= since
              PROVE  LET m == out'["imu"]
                     IN  /\ m["raw"] - m["quaternion"] <= 1 + lost["quaternion"]
                         /\ m["quaternion"] - m["raw"] <= 1 + lost["raw"]
  BY DEF PairStep
<1>0. IInv /\ Parts("imu") = {"raw", "quaternion"}
  BY DEF PairInv, Parts
<1>1. PICK k \in Kind : Arrives(k)
  <2>1. out' # <<>>
    BY NothingOut
  <2>. QED
    BY <2>1 DEF Next, TakeSample, IsLost, EnablePublish, UnitRestarts, Restarted
<1>2. \A j \in Parts("imu") : out'["imu"][j] = latest'[j].sample
  <2>1. out'["imu"] = [j \in Parts("imu") |-> latest'[j].sample]
    BY <1>0, <1>1, Handled
  <2>. QED
    BY <2>1
<1>3. UNCHANGED <<streaming, since, sample>> /\ lost' = [lost EXCEPT ![k] = 0]
  BY <1>1 DEF Arrives
<1>4. /\ IInv' /\ LostInv'
  BY <1>1, StepPairs DEF PairInv, Next
<1>5. ASSUME NEW j \in {"raw", "quaternion"}
      PROVE  /\ latest'[j].sample \in Nat /\ sample \in Nat /\ lost[j] \in Nat
             /\ latest'[j].sample <= sample
             /\ sample - latest'[j].sample <= lost[j] + 1
  <2>1. j \in Kind /\ j \in streaming /\ latest'[j].sample >= since
    BY <1>0, <1>2, PublisherAssumption
  <2>2. latest'[j].sample \in Nat /\ sample \in Nat /\ latest'[j].sample <= sample
    <3>1. /\ latest' \in [Kind -> [sample : 0 .. MaxSample, counter : 0 .. COUNTERS - 1]]
          /\ latest'[j].sample <= sample' /\ sample' \in 0 .. MaxSample
      BY <1>4, <2>1 DEF IInv, StreamInv, NodeType, OrderInv
    <3>. QED
      BY <1>3, <2>1, <3>1, Bounds
  <2>3. sample - latest'[j].sample = lost'[j] + (IF j \in toSend' THEN 1 ELSE 0)
    BY <1>3, <1>4, <2>1 DEF LostInv
  <2>4. lost[j] \in Nat /\ (lost'[j] = lost[j] \/ lost'[j] = 0)
    BY <1>0, <1>3, <2>1, Numbers DEF IInv, StreamInv
  <2>. QED
    BY <2>2, <2>3, <2>4
<1>6. /\ out'["imu"]["raw"] = latest'["raw"].sample
      /\ out'["imu"]["quaternion"] = latest'["quaternion"].sample
  BY <1>0, <1>2
<1>. QED
  BY <1>5, <1>6

\* ImuPairs for any kinds, topics and number of counters.
THEOREM ImuJoinsNeighbours == Spec => ImuPairs
<1>1. ImuPairs <=> [][PairStep]_vars
  BY DEF ImuPairs, PairStep
<1>. QED
  BY <1>1, InitPairs, StepPairs, Neighbours, PTL DEF Spec

-----------------------------------------------------------------------------
(* The monitor                                                             *)

\* The monitor has the counter of the sample it saw last, and its sums.
MonitorInv ==
  /\ ~received_first => total_missed = 0 /\ total_counter = 0
  /\ received_first =>
        /\ "raw" \in Topic
        /\ latestSeen \in Nat /\ latestSeen <= shown["raw"] /\ first \in Nat
        /\ last_counter \in 0 .. COUNTERS - 1
        /\ total_missed \in Nat /\ total_counter \in Nat
        /\ latestSeen >= since => Behind(last_counter, sample - latestSeen)
        /\ ~blurred => total_missed + total_counter = latestSeen - first

\* What the publisher's step does to the unit's counter and to the raw topic.
LEMMA UnitSteps ==
  ASSUME PairInv, [Next]_vars
  PROVE  /\ \/ UNCHANGED <<sample, counter, since>>
            \/ /\ sample' = sample + 1 /\ counter' = (counter + 1) % COUNTERS
               /\ UNCHANGED since
            \/ since' = sample + 1
         /\ "raw" \in Topic =>
              /\ shown["raw"] \in Nat /\ shown["raw"] <= sample
              /\ shown["raw"] <= shown'["raw"] /\ shown'["raw"] \in Nat
<1>0. IInv
  BY DEF PairInv
<1>1. \/ UNCHANGED <<sample, counter, since>>
      \/ /\ sample' = sample + 1 /\ counter' = (counter + 1) % COUNTERS
         /\ UNCHANGED since
      \/ since' = sample + 1
  BY DEF Next, TakeSample, Arrives, IsLost, EnablePublish, UnitRestarts, Restarted, vars, unitVars, history
<1>2. ASSUME "raw" \in Topic PROVE shown["raw"] \in Nat /\ shown["raw"] <= sample
  <2>1. /\ shown["raw"] \in 0 .. MaxSample /\ shown["raw"] <= latest[Key("raw")].sample
    BY <1>0, <1>2 DEF IInv, NodeType, OrderInv
  <2>. QED
    BY <1>0, <1>2, <2>1, KeyIsAKind, Numbers, Bounds
<1>3. ASSUME "raw" \in Topic PROVE shown["raw"] <= shown'["raw"]
  <2>1. ASSUME NEW k \in Kind, Arrives(k) PROVE shown["raw"] <= shown'["raw"]
    <3>1. shown'["raw"] = IF "raw" \in DOMAIN out' THEN out'["raw"][Key("raw")] ELSE shown["raw"]
      BY <1>3, <2>1 DEF Arrives
    <3>2. "raw" \in DOMAIN out' => out'["raw"][Key("raw")] > shown["raw"]
      BY <1>0, <2>1, ArrivesOrder
    <3>3. "raw" \in DOMAIN out' => out'["raw"][Key("raw")] \in Nat
      <4>1. "raw" \in DOMAIN out' => out'["raw"] \in [Parts("raw") -> 1 .. MaxSample]
        BY <1>0, <1>3, <2>1, ArrivesInv DEF IInv, OutType
      <4>. QED
        BY <1>3, <4>1, KeyIsAKind, Bounds
    <3>. QED
      BY <1>2, <1>3, <3>1, <3>2, <3>3
  <2>2. CASE shown' = shown
    BY <1>2, <1>3, <2>2
  <2>. QED
    BY <2>1, <2>2 DEF Next, TakeSample, IsLost, EnablePublish, UnitRestarts, Restarted, vars, history
<1>4. "raw" \in Topic => shown'["raw"] \in Nat
  BY <1>0, StepInv, Bounds DEF IInv, NodeType
<1>. QED
  BY <1>1, <1>2, <1>3, <1>4

\* A message that the monitor does not get leaves its counter behind.
LEMMA NotDelivered ==
  ASSUME PairInv, MonitorInv, [Next]_vars, UNCHANGED monitorVars
  PROVE  MonitorInv'
<1>. SUFFICES ASSUME received_first, latestSeen >= since'
              PROVE  Behind(last_counter, sample - latestSeen)' /\ latestSeen >= since
  <2>1. /\ UNCHANGED <<received_first, last_counter, total_missed, total_counter>>
        /\ UNCHANGED <<first, latestSeen, blurred>>
    BY DEF monitorVars, counterVars
  <2>2. received_first => latestSeen <= shown'["raw"]
    BY UnitSteps DEF MonitorInv
  <2>. QED
    BY <2>1, <2>2 DEF MonitorInv
<1>0. IInv
  BY DEF PairInv
<1>1. /\ latestSeen \in Nat /\ latestSeen <= sample /\ last_counter \in 0 .. COUNTERS - 1
      /\ latestSeen >= since => Behind(last_counter, sample - latestSeen)
  BY <1>0, UnitSteps, Numbers DEF MonitorInv
<1>2. UNCHANGED <<last_counter, latestSeen>>
  BY DEF monitorVars, counterVars
<1>3. since' # sample + 1
  BY <1>0, <1>1, Numbers
<1>4. CASE UNCHANGED <<sample, counter, since>>
  BY <1>1, <1>2, <1>4 DEF Behind
<1>5. CASE sample' = sample + 1 /\ counter' = (counter + 1) % COUNTERS /\ UNCHANGED since
  <2>1. /\ sample - latestSeen \in Nat /\ last_counter \in Nat /\ counter \in 0 .. COUNTERS - 1
        /\ sample' - latestSeen = (sample - latestSeen) + 1
    BY <1>0, <1>1, <1>5, Numbers, Bounds
  <2>2. \E m \in Nat : counter' + m * COUNTERS = last_counter + ((sample - latestSeen) + 1)
    BY <1>1, <1>5, <2>1, BehindNext
  <2>. QED
    BY <1>2, <1>5, <2>1, <2>2 DEF Behind
<1>. QED
  BY <1>3, <1>4, <1>5, UnitSteps

\* A message that it gets makes up for what was missed since the one before.
LEMMA Delivered ==
  ASSUME PairInv, MonitorInv, Next, "raw" \in DOMAIN out', Deliver
  PROVE  MonitorInv'
<1>0. IInv /\ IInv' /\ CountInv' /\ "raw" \in Kind
  BY StepPairs, PublisherAssumption DEF PairInv
<1>1. "raw" \in Topic
  BY <1>0 DEF IInv, OutType
<1>2. PICK k \in Kind : Arrives(k)
  <2>1. out' # <<>>
    BY NothingOut
  <2>. QED
    BY <2>1 DEF Next, TakeSample, IsLost, EnablePublish, UnitRestarts, Restarted
<1>3. UNCHANGED <<sample, counter, since>>
  BY <1>2 DEF Arrives
<1>4. Key("raw") = "raw" /\ Parts("raw") = {"raw"}
  BY DEF Key, Parts
<1>5. out'["raw"]["raw"] = latest'["raw"].sample /\ shown'["raw"] = latest'["raw"].sample
  <2>1. out'["raw"] = [j \in Parts("raw") |-> latest'[j].sample]
    BY <1>0, <1>2, Handled
  <2>2. shown'["raw"] = latest'["raw"].sample
    BY <1>0, <1>1, <1>2, <1>4, Handled
  <2>. QED
    BY <1>4, <2>1, <2>2
<1>6. /\ sample \in Nat /\ counter \in Nat /\ shown["raw"] \in Nat
      /\ latest'["raw"].sample \in Nat /\ latest'["raw"].counter \in 0 .. COUNTERS - 1
      /\ latest'["raw"].sample <= sample
  <2>1. /\ latest' \in [Kind -> [sample : 0 .. MaxSample, counter : 0 .. COUNTERS - 1]]
        /\ latest'["raw"].sample <= sample'
    BY <1>0 DEF IInv, NodeType, OrderInv
  <2>2. sample \in Nat /\ counter \in Nat /\ shown["raw"] \in Nat
    BY <1>0, <1>1, UnitSteps, Numbers, Bounds
  <2>. QED
    BY <1>0, <1>3, <2>1, <2>2, Bounds
<1>7. PICK message \in Nat, current \in 0 .. COUNTERS - 1 :
        /\ message = out'["raw"]["raw"] /\ shown'["raw"] = message
        /\ current = latest'["raw"].counter
        /\ message > shown["raw"] /\ message <= sample
        /\ message >= since => Behind(current, sample - message)
  <2>1. out'["raw"]["raw"] > shown["raw"]
    BY <1>0, <1>2, <1>4, ArrivesOrder
  <2>2. latest'["raw"].sample >= since
          => Behind(latest'["raw"].counter, sample - latest'["raw"].sample)
    BY <1>0, <1>3 DEF CountInv, Behind
  <2>. QED
    BY <1>5, <1>6, <2>1, <2>2
<1>8. /\ received_first' = TRUE /\ last_counter' = current /\ latestSeen' = message
      /\ first' = IF received_first THEN first ELSE message
      /\ IF received_first
         THEN /\ total_missed' = total_missed + Missed8(current)
              /\ total_counter' = total_counter + 1
         ELSE UNCHANGED <<total_missed, total_counter>>
  BY <1>7 DEF Deliver, RawCallback
<1>9. blurred' = \/ blurred
                 \/ received_first /\ (latestSeen < since \/ message - latestSeen > COUNTERS)
  BY <1>7 DEF Deliver
<1>10. CASE ~received_first
  <2>1. total_missed' = 0 /\ total_counter' = 0 /\ first' = message
    BY <1>8, <1>10 DEF MonitorInv
  <2>. QED
    BY <1>1, <1>3, <1>7, <1>8, <2>1 DEF MonitorInv, Behind
<1>11. CASE received_first
  <2>1. /\ latestSeen \in Nat /\ latestSeen < message /\ first \in Nat
        /\ last_counter \in 0 .. COUNTERS - 1 /\ total_missed \in Nat /\ total_counter \in Nat
        /\ latestSeen >= since => Behind(last_counter, sample - latestSeen)
        /\ ~blurred => total_missed + total_counter = latestSeen - first
    BY <1>6, <1>7, <1>11 DEF MonitorInv
  <2>2. total_missed' = total_missed + Missed8(current) /\ total_counter' = total_counter + 1
        /\ first' = first
    BY <1>8, <1>11
  <2>3. ASSUME ~blurred' PROVE total_missed' + total_counter' = message - first
    <3>1. ~blurred /\ ~(latestSeen < since) /\ ~(message - latestSeen > COUNTERS)
      BY <1>9, <1>11, <2>3
    <3>2. /\ since \in Nat
          /\ sample - latestSeen \in Nat /\ sample - message \in Nat
          /\ (sample - latestSeen) - (sample - message) = message - latestSeen
          /\ message - latestSeen \in 1 .. COUNTERS
      BY <1>0, <1>6, <1>7, <2>1, <3>1, Numbers, Bounds
    <3>3. Behind(last_counter, sample - latestSeen) /\ Behind(current, sample - message)
      BY <1>7, <2>1, <3>1, <3>2
    <3>4. Missed8(current) = (message - latestSeen) - 1
      BY <1>6, <2>1, <3>2, <3>3, BehindApart DEF Missed8
    <3>. QED
      BY <2>1, <2>2, <3>1, <3>4
  <2>4. total_missed' \in Nat /\ total_counter' \in Nat
    <3>1. Missed8(current) \in Nat
      BY <1>7, <2>1, Bounds DEF Missed8
    <3>. QED
      BY <2>1, <2>2, <3>1
  <2>. QED
    BY <1>1, <1>3, <1>7, <1>8, <2>1, <2>2, <2>3, <2>4 DEF MonitorInv, Behind
<1>. QED
  BY <1>10, <1>11

-----------------------------------------------------------------------------

\* For any kinds, topics and number of counters, whatever is lost where: the
\* monitor's sums are the samples that passed.
THEOREM MonitorIsExact == MonitoredSpec => []MissedAddsUp
<1>1. MonitoredInit => PairInv /\ MonitorInv
  BY InitPairs DEF MonitoredInit, MonitorInit, MonitorInv
<1>2. PairInv /\ MonitorInv /\ [MonitoredNext]_<<vars, monitorVars>> => PairInv' /\ MonitorInv'
  <2>. SUFFICES ASSUME PairInv, MonitorInv, [MonitoredNext]_<<vars, monitorVars>>
                PROVE  PairInv' /\ MonitorInv'
    OBVIOUS
  <2>1. [Next]_vars
    BY DEF MonitoredNext
  <2>2. \/ Next /\ "raw" \in DOMAIN out' /\ Deliver
        \/ UNCHANGED monitorVars
    BY DEF MonitoredNext
  <2>. QED
    BY <2>1, <2>2, StepPairs, Delivered, NotDelivered
<1>3. MonitorInv => MissedAddsUp
  BY DEF MonitorInv, MissedAddsUp
<1>. QED
  BY <1>1, <1>2, <1>3, PTL DEF MonitoredSpec
=============================================================================
