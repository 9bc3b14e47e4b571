------------------------- MODULE DriverStartupProofs -------------------------
(***************************************************************************)
(* Proofs about the constructor, for any settings, any order in which they *)
(* are sent, any number of faults and any length of the buffers.           *)
(*                                                                         *)
(* That a node publishes only while the unit is set up as asked rests on   *)
(* the order of what is on the line.  When CONFIG is sent nothing of the   *)
(* restart is left, neither the command nor its startup frame (Settled).   *)
(* From there to SUF no startup frame can be made; when the flag has been  *)
(* cleared, one that arrives was made after SUF, and the settings were     *)
(* sent before that: no setting is still to come.                          *)
(***************************************************************************)
EXTENDS DriverStartup, TLAPS

-----------------------------------------------------------------------------
(* Types                                                                   *)

\* The names of the settings that are sent are settings.
LEMMA SettingTypes == SentSettings \subseteq Setting /\ Verified \subseteq Setting
BY StartupAssumption DEF SentSettings

\* What send_command does keeps the commands on their way in shape.
LEMMA SendType ==
  ASSUME TypeOK, NEW c \in CommandSet, Send(c)
  PROVE  inbox' \in Seq(CommandSet) /\ Len(inbox') <= MaxInbox /\ faults' \in 0 .. MaxFaults
<1>1. inbox \in Seq(CommandSet) /\ Len(inbox) <= MaxInbox /\ faults \in 0 .. MaxFaults
  BY DEF TypeOK
<1>2. CASE inbox' = Append(inbox, c) /\ Len(inbox) < MaxInbox /\ UNCHANGED faults
  BY <1>1, <1>2, StartupAssumption
<1>3. CASE UNCHANGED inbox /\ (FaultOccurs \/ UNCHANGED faults)
  BY <1>1, <1>3, StartupAssumption DEF FaultOccurs
<1>. QED
  BY <1>2, <1>3 DEF Send

\* A setting is sent with its value, or with another one.
LEMMA SendSettingType ==
  ASSUME TypeOK, NEW s \in SentSettings, SendSetting(s)
  PROVE  inbox' \in Seq(CommandSet) /\ Len(inbox') <= MaxInbox /\ faults' \in 0 .. MaxFaults
<1>1. inbox \in Seq(CommandSet) /\ Len(inbox) <= MaxInbox /\ faults \in 0 .. MaxFaults
  BY DEF TypeOK
<1>2. \A v \in Value : Write(s, v) \in CommandSet
  BY DEF Write, CommandSet
<1>3. Request[s] \in Value
  BY SettingTypes, StartupAssumption
<1>4. CASE Send(Write(s, Request[s]))
  BY <1>2, <1>3, <1>4, SendType
<1>5. ASSUME FaultOccurs, Len(inbox) < MaxInbox, NEW v \in Value, inbox' = Append(inbox, Write(s, v))
      PROVE  inbox' \in Seq(CommandSet) /\ Len(inbox') <= MaxInbox /\ faults' \in 0 .. MaxFaults
  BY <1>1, <1>2, <1>5, StartupAssumption DEF FaultOccurs
<1>. QED
  BY <1>4, <1>5 DEF SendSetting

\* The receive buffer keeps its shape and its limit.
LEMMA ArriveType ==
  ASSUME TypeOK, NEW f \in Frame, Arrive(f)
  PROVE  rx' \in Seq(Frame) /\ Len(rx') <= MaxRx /\ faults' \in 0 .. MaxFaults
<1>1. rx \in Seq(Frame) /\ Len(rx) <= MaxRx /\ faults \in 0 .. MaxFaults
  BY DEF TypeOK
<1>2. CASE rx' = (IF Len(rx) < MaxRx THEN Append(rx, f) ELSE rx) /\ UNCHANGED faults
  BY <1>1, <1>2, StartupAssumption
<1>3. CASE FaultOccurs /\ UNCHANGED rx
  BY <1>1, <1>3, StartupAssumption DEF FaultOccurs
<1>. QED
  BY <1>2, <1>3 DEF Arrive

\* Either thread takes the frames out of the buffer.
LEMMA TakeType ==
  ASSUME TypeOK, NEW t \in Thread, Take(t)
  PROVE  batch' \in [Thread -> Seq(Frame)] /\ rx' \in Seq(Frame) /\ Len(rx') <= MaxRx
BY StartupAssumption DEF TypeOK, Take

\* A startup frame that is fed has the fields that are compared.
LEMMA FeedType ==
  ASSUME TypeOK, NEW t \in Thread, FeedFrame(t)
  PROVE  /\ batch' \in [Thread -> Seq(Frame)]
         /\ info' \in [Verified -> Value]
         /\ received' \in BOOLEAN /\ garbled' \in BOOLEAN
         /\ received => received'
<1>1. batch \in [Thread -> Seq(Frame)] /\ info \in [Verified -> Value] /\ received \in BOOLEAN
  BY DEF TypeOK
<1>2. batch[t] \in Seq(Frame) /\ batch[t] # <<>>
  BY <1>1 DEF FeedFrame
<1>3. Head(batch[t]) \in Frame /\ Tail(batch[t]) \in Seq(Frame)
  BY <1>2
<1>4. batch' \in [Thread -> Seq(Frame)]
  BY <1>1, <1>3 DEF FeedFrame
<1>5. ASSUME OnFrame(Head(batch[t])) PROVE info' \in [Verified -> Value] /\ received' \in BOOLEAN
  <2>1. CASE Head(batch[t]).type = "STARTUP"
    <3>1. Head(batch[t]).settings \in [Setting -> Value]
      BY <1>3, <2>1 DEF Frame
    <3>. QED
      BY <1>5, <2>1, <3>1, SettingTypes DEF OnFrame
  <2>2. CASE Head(batch[t]).type # "STARTUP"
    BY <1>1, <1>5, <2>2 DEF OnFrame
  <2>. QED
    BY <2>1, <2>2
<1>6. info' \in [Verified -> Value] /\ received' \in BOOLEAN
  BY <1>1, <1>5 DEF FeedFrame
<1>7. garbled' \in BOOLEAN
  BY DEF FeedFrame, Contended
<1>8. received => received'
  BY DEF FeedFrame, OnFrame
<1>. QED
  BY <1>4, <1>6, <1>7, <1>8

\* The parts of TypeOK that the main thread alone is responsible for, and the rest.
LEMMA TypeParts ==
  ASSUME TypeOK,
         pc' \in {"open", "reset", "config", "settings", "suf", "poll", "read", "feed", "exit",
                   "check", "verify", "spin", "idle", "shutdown", "join", "closed"},
         serial' \in {"none", "loop", "read", "feed", "exited"},
         sent' \in 0 .. Len(Sent), unread' \subseteq Verified,
         stop' \in BOOLEAN, ok' \in BOOLEAN, publish_enable' \in BOOLEAN,
         pc' \in {"verify", "spin"} => received,
         UNCHANGED <<frameVars, batch, rx, inbox, unitVars, faultVars>>
  PROVE  TypeOK'
BY DEF TypeOK, frameVars, unitVars, faultVars

\* Every step keeps the state's shape.
LEMMA TypeStep == TypeOK /\ [Next]_vars => TypeOK'
<1>. SUFFICES ASSUME TypeOK, [Next]_vars PROVE TypeOK'
  OBVIOUS
<1>1. \A name \in {"RESET", "CONFIG", "SUF", "EXIT"} : Command(name) \in CommandSet
  BY DEF Command, CommandSet
<1>2. Plain \in Frame /\ Startup(unit) \in Frame /\ Startup(saved) \in Frame
  BY DEF TypeOK, Plain, Startup, Frame
<1>3. CASE Open
  BY <1>3, StartupAssumption DEF TypeOK, Open, FaultOccurs, frameVars, unitVars
<1>4. ASSUME NEW name \in {"RESET", "CONFIG", "SUF", "EXIT"}, Send(Command(name)),
             pc' \in {"config", "settings", "poll", "check"},
             UNCHANGED <<sent, unread, ok, publish_enable, stop, serial, batch, frameVars, rx,
                         unitVars, unplugged, vmin>>
      PROVE  TypeOK'
  <2>1. inbox' \in Seq(CommandSet) /\ Len(inbox') <= MaxInbox /\ faults' \in 0 .. MaxFaults
    BY <1>1, <1>4, SendType
  <2>. QED
    BY <1>4, <2>1 DEF TypeOK, frameVars, unitVars
<1>5. CASE Reset \/ EnterConfig \/ RequestStartup \/ LeaveConfig
  BY <1>4, <1>5 DEF Reset, EnterConfig, RequestStartup, LeaveConfig
<1>6. CASE ConfigureSetting
  <2>1. sent + 1 \in 1 .. Len(Sent) /\ Sent[sent + 1] \in SentSettings
    BY <1>6, StartupAssumption DEF ConfigureSetting, TypeOK, SentSettings
  <2>2. inbox' \in Seq(CommandSet) /\ Len(inbox') <= MaxInbox /\ faults' \in 0 .. MaxFaults
    BY <1>6, <2>1, SendSettingType DEF ConfigureSetting
  <2>3. /\ sent' \in 0 .. Len(Sent)
        /\ UNCHANGED <<pc, unread, ok, publish_enable, stop, serial, batch, frameVars, rx,
                       unitVars, unplugged, vmin>>
    BY <1>6, <2>1, StartupAssumption DEF ConfigureSetting, TypeOK
  <2>. QED
    BY <2>2, <2>3 DEF TypeOK, frameVars, unitVars
<1>7. CASE ClearReceived
  BY <1>7 DEF ClearReceived, TypeOK, unitVars, faultVars
<1>8. CASE MainPoll \/ Check
  BY <1>8, TypeParts DEF MainPoll, Check, TypeOK
<1>9. CASE VerifyField
  BY <1>9, TypeParts DEF VerifyField, TypeOK
<1>10. CASE EnablePublish \/ StopSerialThread \/ JoinAndClose \/ EndSpin
  BY <1>10, TypeParts DEF EnablePublish, StopSerialThread, JoinAndClose, EndSpin, TypeOK
<1>11. CASE SerialPoll \/ SerialExit
  BY <1>11, TypeParts DEF SerialPoll, SerialExit, TypeOK, mainVars
<1>12. CASE MainRead
  <2>1. batch' \in [Thread -> Seq(Frame)] /\ rx' \in Seq(Frame) /\ Len(rx') <= MaxRx
    BY <1>12, TakeType DEF MainRead, Thread, TypeOK
  <2>2. pc' \in {"feed", "exit"}
    BY <1>12 DEF MainRead
  <2>. QED
    BY <1>12, <2>1, <2>2 DEF MainRead, TypeOK, frameVars, unitVars, faultVars
<1>13. CASE SerialRead
  <2>1. batch' \in [Thread -> Seq(Frame)] /\ rx' \in Seq(Frame) /\ Len(rx') <= MaxRx
    BY <1>13, TakeType DEF SerialRead, Thread, TypeOK
  <2>2. serial' \in {"loop", "feed"}
    BY <1>13 DEF SerialRead
  <2>. QED
    BY <1>13, <2>1, <2>2 DEF SerialRead, TypeOK, mainVars, frameVars, unitVars, faultVars
<1>14. CASE MainFeed
  <2>1. CASE FeedFrame("main")
    <3>1. /\ batch' \in [Thread -> Seq(Frame)] /\ info' \in [Verified -> Value]
          /\ received' \in BOOLEAN /\ garbled' \in BOOLEAN
          /\ received => received'
      BY <2>1, FeedType DEF Thread
    <3>2. pc' \in {pc, "exit"}
      BY <1>14 DEF MainFeed
    <3>. QED
      BY <1>14, <3>1, <3>2 DEF MainFeed, TypeOK, unitVars, faultVars
  <2>2. CASE pc' = "exit" /\ UNCHANGED <<batch, frameVars>>
    BY <1>14, <2>2, TypeParts DEF MainFeed, TypeOK
  <2>. QED
    BY <1>14, <2>1, <2>2 DEF MainFeed
<1>15. CASE SerialFeed
  <2>1. CASE FeedFrame("serial")
    <3>1. /\ batch' \in [Thread -> Seq(Frame)] /\ info' \in [Verified -> Value]
          /\ received' \in BOOLEAN /\ garbled' \in BOOLEAN
          /\ received => received'
      BY <2>1, FeedType DEF Thread
    <3>2. serial' \in {serial, "loop"}
      BY <1>15 DEF SerialFeed
    <3>. QED
      BY <1>15, <3>1, <3>2 DEF SerialFeed, TypeOK, mainVars, unitVars, faultVars
  <2>2. CASE serial' = "loop" /\ UNCHANGED <<batch, frameVars>>
    BY <1>15, <2>2, TypeParts DEF SerialFeed, TypeOK, mainVars
  <2>. QED
    BY <1>15, <2>1, <2>2 DEF SerialFeed
<1>16. CASE UnitHandles
  <2>1. inbox \in Seq(CommandSet) /\ inbox # <<>> /\ inbox' = Tail(inbox)
    BY <1>16 DEF UnitHandles, UnitReset, UnitConfig, UnitSet, UnitStartup, UnitExit, Handled, TypeOK
  <2>2. inbox' \in Seq(CommandSet) /\ Len(inbox') <= MaxInbox /\ Head(inbox) \in CommandSet
    BY <2>1, StartupAssumption DEF TypeOK
  <2>3. rx' \in Seq(Frame) /\ Len(rx') <= MaxRx /\ faults' \in 0 .. MaxFaults
    <3>1. CASE UNCHANGED <<rx, faults>>
      BY <3>1 DEF TypeOK
    <3>2. CASE \E f \in Frame : Arrive(f)
      BY <3>2, ArriveType
    <3>. QED
      BY <1>2, <1>16, <3>1, <3>2
      DEF UnitHandles, UnitReset, UnitConfig, UnitSet, UnitStartup, UnitExit, faultVars
  <2>4. unit' \in [Setting -> Value]
    <3>1. CASE UnitSet
      <4>1. Head(inbox).setting \in SentSettings /\ Head(inbox).value \in Value
        BY <2>2, <3>1 DEF UnitSet, CommandSet
      <4>. QED
        BY <3>1, <4>1, SettingTypes DEF UnitSet, TypeOK
    <3>. QED
      BY <1>16, <3>1 DEF UnitHandles, UnitReset, UnitConfig, UnitStartup, UnitExit, TypeOK, unitVars
  <2>5. mode' \in {"OPERATING", "CONFIG"}
    BY <1>16 DEF UnitHandles, UnitReset, UnitConfig, UnitSet, UnitStartup, UnitExit, TypeOK, unitVars
  <2>6. UNCHANGED <<mainVars, serial, batch, frameVars, saved, restarted, unplugged, vmin>>
    BY <1>16 DEF UnitHandles, UnitReset, UnitConfig, UnitSet, UnitStartup, UnitExit, unitVars, faultVars
  <2>. QED
    BY <2>2, <2>3, <2>4, <2>5, <2>6 DEF TypeOK, mainVars, frameVars
<1>17. CASE UnitStreams
  BY <1>2, <1>17, StartupAssumption
  DEF UnitStreams, TypeOK, mainVars, frameVars, unitVars, faultVars
<1>18. CASE UnitRestarts \/ Unplug
  <2>1. inbox' = <<>> /\ faults' \in 0 .. MaxFaults
    BY <1>18, StartupAssumption DEF UnitRestarts, Unplug, FaultOccurs, TypeOK
  <2>2. rx' \in Seq(Frame) /\ Len(rx') <= MaxRx
    <3>0. rx \in Seq(Frame) /\ Len(rx) <= MaxRx /\ MaxRx \in Nat
      BY StartupAssumption DEF TypeOK
    <3>1. CASE rx' = IF Len(rx) < MaxRx THEN Append(rx, Startup(saved)) ELSE rx
      BY <1>2, <3>0, <3>1
    <3>2. CASE rx' = <<>>
      BY <3>0, <3>2
    <3>. QED
      BY <1>18, <3>1, <3>2 DEF UnitRestarts, Unplug
  <2>3. unit' \in [Setting -> Value] /\ mode' \in {"OPERATING", "CONFIG"}
        /\ restarted' \in BOOLEAN /\ unplugged' \in BOOLEAN
    BY <1>18 DEF UnitRestarts, Unplug, TypeOK, unitVars
  <2>4. UNCHANGED <<mainVars, serial, batch, frameVars, saved, vmin>>
    BY <1>18 DEF UnitRestarts, Unplug, unitVars
  <2>5. inbox' \in Seq(CommandSet) /\ Len(inbox') <= MaxInbox
    BY <2>1, StartupAssumption
  <2>. QED
    BY <2>1, <2>2, <2>3, <2>4, <2>5 DEF TypeOK, mainVars, frameVars
<1>19. CASE UNCHANGED vars
  BY <1>19, TypeParts DEF vars, mainVars, TypeOK
<1>. QED
  BY <1>3, <1>5, <1>6, <1>7, <1>8, <1>9, <1>10, <1>11, <1>12, <1>13, <1>14, <1>15, <1>16,
     <1>17, <1>18, <1>19
  DEF Next, MainStep, SerialStep, Environment

\* The constructor begins with nothing open.
LEMMA InitType == Init => TypeOK
<1>. SUFFICES ASSUME Init PROVE TypeOK
  OBVIOUS
<1>1. rx \in Seq(Frame) /\ Len(rx) <= MaxRx /\ inbox \in Seq(CommandSet) /\ Len(inbox) <= MaxInbox
  BY StartupAssumption DEF Init
<1>2. batch \in [Thread -> Seq(Frame)]
  BY DEF Init
<1>3. info \in [Verified -> Value] /\ saved \in [Setting -> Value] /\ unit \in [Setting -> Value]
  BY StartupAssumption DEF Init
<1>4. sent \in 0 .. Len(Sent) /\ faults \in 0 .. MaxFaults
  BY StartupAssumption DEF Init
<1>5. {stop, received, garbled, ok, publish_enable, restarted, unplugged} \subseteq BOOLEAN
  BY DEF Init
<1>6. /\ pc = "open" /\ serial = "none" /\ unread = {}
      /\ mode \in {"OPERATING", "CONFIG"} /\ vmin \in {0, 1}
  BY DEF Init
<1>. QED
  BY <1>1, <1>2, <1>3, <1>4, <1>5, <1>6 DEF TypeOK

\* For any settings and any bounds: commands and frames stay what they are, and
\* what verify_startup_config reads is there.
THEOREM StartupTypeCorrect == Spec => []TypeOK
BY InitType, TypeStep, PTL DEF Spec
-----------------------------------------------------------------------------
(* What is on the line                                                     *)

Name == {"RESET", "CONFIG", "SET", "SUF", "EXIT"}

Coming(name) == \E i \in 1 .. Len(inbox) : inbox[i].name = name
Startups     == {f \in InFlight : f.type = "STARTUP"}

\* No setting is sent after the request for a startup frame.
Ordered == \A i, j \in 1 .. Len(inbox) :
             i < j /\ inbox[i].name = "SUF" => inbox[j].name # "SET"

\* A command that is sent goes behind the others.
LEMMA SendOrder ==
  ASSUME TypeOK, NEW n \in Name,
         inbox' = inbox \/ \E c \in CommandSet : c.name = n /\ inbox' = Append(inbox, c)
  PROVE  /\ \A name \in Name : Coming(name)' => Coming(name) \/ name = n
         /\ Ordered /\ (n # "SET" \/ ~Coming("SUF")) => Ordered'
<1>0. inbox \in Seq(CommandSet)
  BY DEF TypeOK
<1>1. CASE inbox' = inbox
  BY <1>1 DEF Coming, Ordered
<1>2. ASSUME NEW c \in CommandSet, c.name = n, inbox' = Append(inbox, c)
      PROVE  /\ \A name \in Name : Coming(name)' => Coming(name) \/ name = n
             /\ Ordered /\ (n # "SET" \/ ~Coming("SUF")) => Ordered'
  <2>1. /\ Len(inbox) \in Nat /\ Len(inbox') = Len(inbox) + 1
        /\ inbox'[Len(inbox) + 1] = c
        /\ \A i \in 1 .. Len(inbox) : inbox'[i] = inbox[i]
    BY <1>0, <1>2
  <2>2. \A i \in 1 .. Len(inbox') : i \in 1 .. Len(inbox) \/ i = Len(inbox) + 1
    BY <2>1
  <2>3. \A name \in Name : Coming(name)' => Coming(name) \/ name = n
    BY <1>2, <2>1, <2>2 DEF Coming
  <2>4. ASSUME Ordered, n # "SET" \/ ~Coming("SUF"),
               NEW i \in 1 .. Len(inbox'), NEW j \in 1 .. Len(inbox'),
               i < j, inbox'[i].name = "SUF"
        PROVE  inbox'[j].name # "SET"
    <3>1. i \in 1 .. Len(inbox) /\ inbox[i].name = "SUF"
      BY <2>1, <2>2, <2>4
    <3>2. CASE j \in 1 .. Len(inbox)
      BY <2>1, <2>4, <3>1, <3>2 DEF Ordered
    <3>3. CASE j = Len(inbox) + 1
      BY <1>2, <2>1, <2>4, <3>1, <3>3 DEF Coming
    <3>. QED
      BY <2>2, <3>2, <3>3
  <2>. QED
    BY <2>3, <2>4 DEF Ordered
<1>. QED
  BY <1>1, <1>2

\* The unit handles the command in front.
LEMMA HandleOrder ==
  ASSUME TypeOK, inbox # <<>>, inbox' = Tail(inbox)
  PROVE  /\ Coming(Head(inbox).name)
         /\ \A name \in Name : Coming(name)' => Coming(name)
         /\ Ordered => Ordered'
         /\ Ordered /\ Head(inbox).name = "SUF" => ~Coming("SET")'
<1>0. inbox \in Seq(CommandSet)
  BY DEF TypeOK
<1>1. /\ Len(inbox) \in Nat \ {0} /\ Len(inbox') = Len(inbox) - 1
      /\ Head(inbox) = inbox[1]
      /\ \A i \in 1 .. Len(inbox') : inbox'[i] = inbox[i + 1]
  BY <1>0
<1>2. \A i \in 1 .. Len(inbox') : i + 1 \in 2 .. Len(inbox) /\ i + 1 \in 1 .. Len(inbox)
  BY <1>1
<1>3. Coming(Head(inbox).name)
  BY <1>1 DEF Coming
<1>4. \A name \in Name : Coming(name)' => Coming(name)
  BY <1>1, <1>2 DEF Coming
<1>5. Ordered => Ordered'
  BY <1>1, <1>2 DEF Ordered
<1>6. Ordered /\ Head(inbox).name = "SUF" => ~Coming("SET")'
  BY <1>1, <1>2 DEF Ordered, Coming
<1>. QED
  BY <1>3, <1>4, <1>5, <1>6

\* A frame that arrives is in flight, beside those that were.
LEMMA ArriveFlight ==
  ASSUME TypeOK, NEW f \in Frame, rx' = rx \/ rx' = Append(rx, f), UNCHANGED batch
  PROVE  InFlight' \subseteq InFlight \cup {f}
<1>0. rx \in Seq(Frame)
  BY DEF TypeOK
<1>1. {rx'[i] : i \in 1 .. Len(rx')} \subseteq {rx[i] : i \in 1 .. Len(rx)} \cup {f}
  BY <1>0
<1>. QED
  BY <1>1 DEF InFlight

\* Reading and feeding move frames out of flight.
LEMMA TakeFlight ==
  ASSUME TypeOK, NEW t \in Thread, Take(t)
  PROVE  InFlight' \subseteq InFlight
<1>0. batch \in [Thread -> Seq(Frame)]
  BY DEF TypeOK
<1>1. rx' = <<>> /\ batch'[t] = rx /\ \A u \in Thread \ {t} : batch'[u] = batch[u]
  BY <1>0 DEF Take
<1>2. {rx'[i] : i \in 1 .. Len(rx')} = {}
  BY <1>1
<1>. QED
  BY <1>1, <1>2 DEF InFlight

\* A frame that is fed was in flight.
LEMMA FeedFlight ==
  ASSUME TypeOK, NEW t \in Thread, FeedFrame(t), UNCHANGED rx
  PROVE  InFlight' \subseteq InFlight /\ Head(batch[t]) \in InFlight
<1>0. batch[t] \in Seq(Frame) /\ batch[t] # <<>> /\ batch \in [Thread -> Seq(Frame)]
  BY DEF TypeOK, FeedFrame
<1>1. batch'[t] = Tail(batch[t]) /\ \A u \in Thread \ {t} : batch'[u] = batch[u]
  BY <1>0 DEF FeedFrame
<1>2. {batch'[t][i] : i \in 1 .. Len(batch'[t])} \subseteq {batch[t][i] : i \in 1 .. Len(batch[t])}
  BY <1>0, <1>1
<1>3. Head(batch[t]) \in {batch[t][i] : i \in 1 .. Len(batch[t])}
  BY <1>0
<1>4. {batch[t][i] : i \in 1 .. Len(batch[t])} \subseteq InFlight
  BY DEF InFlight
<1>5. ASSUME NEW f \in InFlight' PROVE f \in InFlight
  <2>1. CASE f \in {rx[i] : i \in 1 .. Len(rx)}
    BY <2>1 DEF InFlight
  <2>2. ASSUME NEW u \in Thread, f \in {batch'[u][i] : i \in 1 .. Len(batch'[u])}
        PROVE  f \in InFlight
    <3>1. CASE u = t
      BY <1>2, <1>4, <2>2, <3>1
    <3>2. CASE u # t
      BY <1>1, <2>2, <3>2 DEF InFlight
    <3>. QED
      BY <3>1, <3>2
  <2>. QED
    BY <1>5, <2>1, <2>2 DEF InFlight
<1>. QED
  BY <1>3, <1>4, <1>5
-----------------------------------------------------------------------------
(* The invariant                                                           *)

Current(settings) == \A s \in Verified : settings[s] = unit[s]

\* Where the flag has been cleared, and where CONFIG has been sent.
Cleared == pc \in {"suf", "poll", "read", "feed", "exit", "check", "verify", "spin"}
             \/ publish_enable
Late == Cleared \/ pc = "settings"

\* Publishing and verifying come where they come.
PlaceInv ==
  /\ publish_enable => received /\ pc \in {"spin", "shutdown", "join", "closed"}
  /\ pc = "verify" => received

\* What has arrived, or will, is what the unit has, and nothing will change that.
Fresh ==
  /\ received => Current(info) /\ ~Coming("SET")
  /\ \A f \in Startups : Current(f.settings) /\ ~Coming("SET")
  /\ Ordered

LineInv ==
  /\ Late => ~Coming("RESET")
  /\ pc = "settings" => ~Coming("SUF") /\ Startups = {}
  /\ Cleared => Fresh

CheckInv ==
  /\ pc = "verify" /\ ok => \A s \in Verified \ unread : info[s] = Request[s]
  /\ publish_enable => \A s \in Verified : info[s] = Request[s]

SafeInv == PlaceInv /\ (~restarted => LineInv /\ CheckInv)

\* Nothing has been sent at first, and nothing received.
LEMMA InitSafe == Init => SafeInv
BY DEF Init, SafeInv, PlaceInv, LineInv, CheckInv, Late, Cleared

\* The flag is not cleared once publishing or verifying rests on it.
LEMMA PlaceStep == TypeOK /\ SafeInv /\ [Next]_vars => PlaceInv'
<1>. SUFFICES ASSUME TypeOK, SafeInv, [Next]_vars PROVE PlaceInv'
  OBVIOUS
<1>1. PlaceInv /\ received \in BOOLEAN
  BY DEF SafeInv, TypeOK
<1>2. CASE UNCHANGED vars
  BY <1>1, <1>2 DEF vars, mainVars, frameVars, PlaceInv
<1>3. CASE SerialStep
  <2>1. received' = received \/ received' = TRUE
    BY <1>3 DEF SerialStep, SerialPoll, SerialRead, SerialFeed, SerialExit, FeedFrame, OnFrame, frameVars
  <2>2. UNCHANGED <<pc, publish_enable>>
    BY <1>3 DEF SerialStep, SerialPoll, SerialRead, SerialFeed, SerialExit, mainVars
  <2>. QED
    BY <1>1, <2>1, <2>2 DEF PlaceInv
<1>4. CASE Environment
  <2>1. UNCHANGED <<pc, publish_enable, received>>
    BY <1>4 DEF Environment, UnitHandles, UnitReset, UnitConfig, UnitSet, UnitStartup, UnitExit,
                UnitStreams, UnitRestarts, Unplug, mainVars, frameVars
  <2>. QED
    BY <1>1, <2>1 DEF PlaceInv
<1>5. CASE Open \/ Reset \/ EnterConfig \/ ConfigureSetting \/ ClearReceived \/ RequestStartup
  BY <1>1, <1>5 DEF Open, Reset, EnterConfig, ConfigureSetting, ClearReceived, RequestStartup, PlaceInv
<1>6. CASE MainPoll \/ MainRead \/ MainFeed \/ LeaveConfig
  BY <1>1, <1>6 DEF MainPoll, MainRead, MainFeed, LeaveConfig, PlaceInv
<1>7. CASE Check \/ VerifyField
  BY <1>1, <1>7 DEF Check, VerifyField, frameVars, PlaceInv
<1>8. CASE EnablePublish
  BY <1>1, <1>8 DEF EnablePublish, frameVars, PlaceInv
<1>9. CASE StopSerialThread \/ JoinAndClose \/ EndSpin
  BY <1>1, <1>9 DEF StopSerialThread, JoinAndClose, EndSpin, frameVars, PlaceInv
<1>. QED
  BY <1>2, <1>3, <1>4, <1>5, <1>6, <1>7, <1>8, <1>9 DEF Next, MainStep

\* Freshness goes on as long as the unit's settings do and nothing new comes.
LEMMA FreshKept ==
  ASSUME Fresh, UNCHANGED unit, Ordered', Coming("SET")' => Coming("SET"),
         Startups' \subseteq Startups,
         \/ UNCHANGED <<received, info>>
         \/ received' = FALSE
         \/ \E f \in Startups : info' = [s \in Verified |-> f.settings[s]]
  PROVE  Fresh'
<1>1. \A f \in Startups : Current(f.settings)'
  BY DEF Fresh, Current
<1>2. received' => Current(info)' /\ ~Coming("SET")'
  <2>1. CASE UNCHANGED <<received, info>>
    BY <2>1 DEF Fresh, Current
  <2>2. ASSUME NEW f \in Startups, info' = [s \in Verified |-> f.settings[s]]
        PROVE  Current(info)' /\ ~Coming("SET")'
    BY <2>2 DEF Fresh, Current
  <2>. QED
    BY <2>1, <2>2
<1>. QED
  BY <1>1, <1>2 DEF Fresh

\* CONFIG is sent once, and the flag is cleared once, where they are.
LEMMA Moves ==
  ASSUME SafeInv, [Next]_vars
  PROVE  /\ Cleared' => Cleared \/ ClearReceived
         /\ pc' = "settings" => pc = "settings" \/ EnterConfig
<1>1. PlaceInv
  BY DEF SafeInv
<1>2. CASE SerialStep \/ Environment \/ UNCHANGED vars
  <2>1. UNCHANGED <<pc, publish_enable>>
    BY <1>2 DEF SerialStep, SerialPoll, SerialRead, SerialFeed, SerialExit, Environment,
                UnitHandles, UnitReset, UnitConfig, UnitSet, UnitStartup, UnitExit,
                UnitStreams, UnitRestarts, Unplug, vars, mainVars
  <2>. QED
    BY <2>1 DEF Cleared
<1>3. CASE Open \/ Reset \/ ConfigureSetting \/ RequestStartup \/ LeaveConfig
  BY <1>3 DEF Open, Reset, ConfigureSetting, RequestStartup, LeaveConfig, Cleared
<1>4. CASE EnterConfig \/ ClearReceived
  BY <1>4 DEF EnterConfig, ClearReceived, Cleared
<1>5. CASE MainPoll \/ MainRead \/ MainFeed \/ Check \/ VerifyField \/ EnablePublish
  BY <1>5 DEF MainPoll, MainRead, MainFeed, Check, VerifyField, EnablePublish, Cleared
<1>6. CASE StopSerialThread \/ JoinAndClose \/ EndSpin
  BY <1>6 DEF StopSerialThread, JoinAndClose, EndSpin, Cleared
<1>. QED
  BY <1>2, <1>3, <1>4, <1>5, <1>6 DEF Next, MainStep

\* What a step must not do to the line.
LEMMA LineKept ==
  ASSUME LineInv, Cleared' => Cleared, pc' = "settings" => pc = "settings",
         Late => (Coming("RESET")' => Coming("RESET")),
         pc = "settings" => (Coming("SUF")' => Coming("SUF")) /\ Startups' \subseteq Startups,
         Cleared => Fresh'
  PROVE  LineInv'
BY DEF LineInv, Late

\* The commands and frames that were there, or fewer, with the unit as it was.
LEMMA FewerKept ==
  ASSUME TypeOK, SafeInv, ~restarted, Cleared' => Cleared, pc' = "settings" => pc = "settings",
         inbox' = inbox \/ inbox' = <<>>, Startups' \subseteq Startups, UNCHANGED unit,
         \/ UNCHANGED <<received, info>>
         \/ \E f \in Startups : info' = [s \in Verified |-> f.settings[s]]
  PROVE  LineInv'
<1>1. LineInv
  BY DEF SafeInv
<1>2. /\ \A name \in Name : Coming(name)' => Coming(name)
      /\ Ordered => Ordered'
  <2>1. CASE inbox' = inbox
    BY <2>1 DEF Coming, Ordered
  <2>2. CASE inbox' = <<>>
    <3>1. Len(inbox') = 0
      BY <2>2
    <3>. QED
      BY <3>1 DEF Coming, Ordered
  <2>. QED
    BY <2>1, <2>2
<1>3. Cleared => Fresh'
  <2>1. Cleared => Fresh /\ Ordered
    BY <1>1 DEF LineInv, Fresh
  <2>. QED
    BY <1>2, <2>1, FreshKept DEF Name
<1>. QED
  BY <1>1, <1>2, <1>3, LineKept DEF Name

\* Either thread reads, and feeds what it has read.
LEMMA ReadKept ==
  ASSUME TypeOK, SafeInv, ~restarted, Cleared' => Cleared, pc' = "settings" => pc = "settings",
         UNCHANGED <<inbox, unitVars>>, NEW t \in Thread,
         \/ Take(t) /\ UNCHANGED frameVars
         \/ FeedFrame(t) /\ UNCHANGED rx
         \/ UNCHANGED <<frameVars, batch, rx>>
  PROVE  LineInv'
<1>1. UNCHANGED <<inbox, unit>>
  BY DEF unitVars
<1>2. CASE Take(t) /\ UNCHANGED frameVars
  BY <1>1, <1>2, TakeFlight, FewerKept DEF frameVars, Startups
<1>3. CASE FeedFrame(t) /\ UNCHANGED rx
  <2>1. Startups' \subseteq Startups /\ Head(batch[t]) \in InFlight
    BY <1>3, FeedFlight DEF Startups
  <2>2. CASE UNCHANGED <<received, info>>
    BY <1>1, <2>1, <2>2, FewerKept
  <2>3. CASE OnFrame(Head(batch[t])) /\ Head(batch[t]).type = "STARTUP"
    <3>1. Head(batch[t]) \in Startups
      BY <2>1, <2>3 DEF Startups
    <3>2. info' = [s \in Verified |-> Head(batch[t]).settings[s]]
      BY <2>3 DEF OnFrame
    <3>. QED
      BY <1>1, <2>1, <3>1, <3>2, FewerKept
  <2>. QED
    BY <1>3, <2>2, <2>3 DEF FeedFrame, OnFrame
<1>4. CASE UNCHANGED <<frameVars, batch, rx>>
  <2>1. Startups' \subseteq Startups
    BY <1>4 DEF Startups, InFlight
  <2>. QED
    BY <1>1, <1>4, <2>1, FewerKept DEF frameVars
<1>. QED
  BY <1>2, <1>3, <1>4

\* Sending, where CONFIG has been sent before.
LEMMA SendKept ==
  ASSUME TypeOK, SafeInv, ~restarted,
         ConfigureSetting \/ RequestStartup \/ LeaveConfig,
         Cleared' => Cleared, pc' = "settings" => pc = "settings"
  PROVE  LineInv'
<1>1. LineInv /\ UNCHANGED <<rx, batch, unit, received, info>>
  BY DEF SafeInv, ConfigureSetting, RequestStartup, LeaveConfig, unitVars, frameVars
<1>2. Startups' = Startups
  BY <1>1 DEF Startups, InFlight
<1>3. ASSUME NEW n \in {"SET", "SUF", "EXIT"}, pc = "settings" => n = "SET",
             n = "SET" => ~Cleared,
             inbox' = inbox \/ \E c \in CommandSet : c.name = n /\ inbox' = Append(inbox, c)
      PROVE  LineInv'
  <2>1. /\ \A name \in Name : Coming(name)' => Coming(name) \/ name = n
        /\ Ordered /\ n # "SET" => Ordered'
    BY <1>3, SendOrder DEF Name
  <2>2. Cleared => Fresh'
    <3>1. Cleared => Fresh /\ Ordered
      BY <1>1 DEF LineInv, Fresh
    <3>2. Cleared => Ordered' /\ (Coming("SET")' => Coming("SET"))
      BY <1>3, <2>1, <3>1 DEF Name
    <3>. QED
      BY <1>1, <1>2, <3>1, <3>2, FreshKept
  <2>. QED
    BY <1>1, <1>2, <1>3, <2>1, <2>2, LineKept DEF Name
<1>4. CASE ConfigureSetting
  <2>1. sent + 1 \in 1 .. Len(Sent) /\ Sent[sent + 1] \in SentSettings
    BY <1>4, StartupAssumption DEF ConfigureSetting, TypeOK, SentSettings
  <2>2. Request[Sent[sent + 1]] \in Value
    BY <2>1, SettingTypes, StartupAssumption
  <2>3. \A v \in Value : Write(Sent[sent + 1], v) \in CommandSet /\ Write(Sent[sent + 1], v).name = "SET"
    BY <2>1 DEF Write, CommandSet
  <2>4. inbox' = inbox \/ \E c \in CommandSet : c.name = "SET" /\ inbox' = Append(inbox, c)
    BY <1>4, <2>2, <2>3 DEF ConfigureSetting, SendSetting, Send
  <2>5. pc = "settings" /\ ~Cleared
    BY <1>4 DEF ConfigureSetting, Cleared, SafeInv, PlaceInv
  <2>. QED
    BY <1>3, <2>4, <2>5
<1>5. CASE RequestStartup
  <2>1. Command("SUF") \in CommandSet /\ Command("SUF").name = "SUF"
    BY DEF Command, CommandSet
  <2>. QED
    BY <1>3, <1>5, <2>1 DEF RequestStartup, Send
<1>6. CASE LeaveConfig
  <2>1. Command("EXIT") \in CommandSet /\ Command("EXIT").name = "EXIT"
    BY DEF Command, CommandSet
  <2>. QED
    BY <1>3, <1>6, <2>1 DEF LeaveConfig, Send
<1>. QED
  BY <1>4, <1>5, <1>6

\* CONFIG is sent when nothing of the restart is left.
LEMMA EnterKept ==
  ASSUME TypeOK, Settles, SafeInv, ~restarted, EnterConfig
  PROVE  LineInv'
<1>1. inbox = <<>> /\ Startups = {} /\ pc' = "settings" /\ publish_enable' = publish_enable
  BY DEF EnterConfig, Settled, Startups
<1>2. ~Cleared'
  BY <1>1 DEF EnterConfig, Cleared, SafeInv, PlaceInv
<1>3. Startups' = {}
  BY <1>1 DEF EnterConfig, Startups, InFlight
<1>4. Command("CONFIG") \in CommandSet /\ Command("CONFIG").name = "CONFIG"
  BY DEF Command, CommandSet
<1>5. \A name \in Name : Coming(name)' => Coming(name) \/ name = "CONFIG"
  BY <1>4, SendOrder DEF EnterConfig, Send, Name
<1>6. ~Coming("RESET") /\ ~Coming("SUF")
  <2>1. Len(inbox) = 0
    BY <1>1
  <2>. QED
    BY <2>1 DEF Coming
<1>. QED
  BY <1>2, <1>3, <1>5, <1>6 DEF LineInv, Name

\* From here on startup_info_ counts only if it comes anew.
LEMMA ClearKept ==
  ASSUME TypeOK, SafeInv, ~restarted, ClearReceived
  PROVE  LineInv'
<1>1. /\ LineInv /\ pc = "settings" /\ pc' = "suf" /\ received' = FALSE
      /\ UNCHANGED <<inbox, rx, batch>>
  BY DEF SafeInv, ClearReceived
<1>2. ~Coming("RESET")' /\ ~Coming("SUF")' /\ Startups' = {}
  BY <1>1 DEF LineInv, Late, Coming, Startups, InFlight
<1>3. Ordered'
  BY <1>2 DEF Ordered, Coming
<1>. QED
  BY <1>1, <1>2, <1>3 DEF LineInv, Fresh

\* The unit handles a command: no setting after SUF, and a startup frame that
\* shows what it has then.
LEMMA HandleKept ==
  ASSUME TypeOK, SafeInv, ~restarted, UnitHandles,
         Cleared' => Cleared, pc' = "settings" => pc = "settings"
  PROVE  LineInv'
<1>1. /\ LineInv /\ UNCHANGED <<batch, received, info, pc, publish_enable>>
      /\ inbox # <<>> /\ inbox' = Tail(inbox) /\ inbox \in Seq(CommandSet)
  BY DEF SafeInv, UnitHandles, UnitReset, UnitConfig, UnitSet, UnitStartup, UnitExit, Handled,
         mainVars, frameVars, TypeOK
<1>2. /\ Coming(Head(inbox).name)
      /\ \A name \in Name : Coming(name)' => Coming(name)
      /\ Ordered => Ordered'
      /\ Ordered /\ Head(inbox).name = "SUF" => ~Coming("SET")'
  BY <1>1, HandleOrder
<1>3. Plain \in Frame /\ Startup(unit) \in Frame /\ Plain.type = "PLAIN"
  BY DEF TypeOK, Plain, Startup, Frame
<1>4. CASE UnitReset
  <2>1. ~Late
    BY <1>1, <1>2, <1>4 DEF LineInv, UnitReset
  <2>. QED
    BY <1>1, <2>1 DEF LineInv, Late, Cleared
<1>5. CASE UnitConfig \/ UnitExit
  <2>1. UNCHANGED unit /\ (rx' = rx \/ rx' = Append(rx, Plain))
    BY <1>5 DEF UnitConfig, UnitExit, Arrive
  <2>2. Startups' \subseteq Startups
    BY <1>1, <1>3, <2>1, ArriveFlight DEF Startups
  <2>3. Cleared => Fresh'
    <3>1. Cleared => Fresh /\ Ordered
      BY <1>1 DEF LineInv, Fresh
    <3>. QED
      BY <1>1, <1>2, <2>1, <2>2, <3>1, FreshKept DEF Name
  <2>. QED
    BY <1>1, <1>2, <2>2, <2>3, LineKept DEF Name
<1>6. CASE UnitSet
  <2>1. rx' = rx \/ rx' = Append(rx, Plain)
    BY <1>6 DEF UnitSet, Arrive
  <2>2. Startups' \subseteq Startups
    BY <1>1, <1>3, <2>1, ArriveFlight DEF Startups
  <2>3. Coming("SET")
    BY <1>2, <1>6 DEF UnitSet
  <2>4. Cleared => Fresh'
    <3>1. Cleared => Ordered /\ ~received /\ Startups = {}
      BY <1>1, <2>3 DEF LineInv, Fresh
    <3>. QED
      BY <1>1, <1>2, <2>2, <3>1 DEF Fresh
  <2>. QED
    BY <1>1, <1>2, <2>2, <2>4, LineKept DEF Name
<1>7. CASE UnitStartup
  <2>1. /\ UNCHANGED unit /\ Coming("SUF") /\ Head(inbox).name = "SUF"
        /\ rx' = rx \/ rx' = Append(rx, Plain) \/ rx' = Append(rx, Startup(unit))
    BY <1>2, <1>7 DEF UnitStartup, Arrive, unitVars
  <2>2. pc # "settings"
    BY <1>1, <2>1 DEF LineInv
  <2>3. Startups' \subseteq Startups \cup {Startup(unit)}
    BY <1>1, <1>3, <2>1, ArriveFlight DEF Startups
  <2>4. Cleared => Fresh'
    <3>1. Cleared => Fresh /\ Ordered' /\ ~Coming("SET")'
      BY <1>1, <1>2, <2>1 DEF LineInv, Fresh
    <3>2. Startup(unit).settings = unit
      BY DEF Startup
    <3>. QED
      BY <1>1, <2>1, <2>3, <3>1, <3>2 DEF Fresh, Current
  <2>. QED
    BY <1>1, <1>2, <2>2, <2>4, LineKept DEF Name
<1>. QED
  BY <1>4, <1>5, <1>6, <1>7 DEF UnitHandles

\* A restart is never forgotten.
LEMMA RestartStays ==
  ASSUME [Next]_vars, restarted
  PROVE  restarted'
BY DEF Next, MainStep, SerialStep, Environment, UnitHandles, Open, Reset, EnterConfig,
       ConfigureSetting, ClearReceived, RequestStartup, MainPoll, MainRead, MainFeed,
       LeaveConfig, Check, VerifyField, EnablePublish, StopSerialThread, JoinAndClose,
       EndSpin, SerialPoll, SerialRead, SerialFeed, SerialExit, UnitReset, UnitConfig,
       UnitSet, UnitStartup, UnitExit, UnitStreams, UnitRestarts, Unplug, unitVars, vars

\* Every step keeps the line in order, as long as the unit does not restart.
LEMMA LineStep ==
  ASSUME TypeOK, Settles, SafeInv, [Next]_vars, ~restarted'
  PROVE  LineInv'
<1>1. ~restarted
  BY RestartStays
<1>2. CASE EnterConfig
  BY <1>1, <1>2, EnterKept
<1>3. CASE ClearReceived
  BY <1>1, <1>3, ClearKept
<1>4. ASSUME ~EnterConfig, ~ClearReceived PROVE LineInv'
  <2>0. (Cleared' => Cleared) /\ (pc' = "settings" => pc = "settings")
    BY <1>4, Moves
  <2>1. CASE Open \/ Reset
    <3>1. pc' \in {"reset", "idle", "config"} /\ ~publish_enable'
      BY <2>1 DEF Open, Reset, SafeInv, PlaceInv
    <3>. QED
      BY <3>1 DEF LineInv, Late, Cleared
  <2>2. CASE ConfigureSetting \/ RequestStartup \/ LeaveConfig
    BY <1>1, <2>0, <2>2, SendKept
  <2>3. ASSUME UNCHANGED <<inbox, rx, batch, unit, received, info>> PROVE LineInv'
    <3>1. Startups' \subseteq Startups
      BY <2>3 DEF Startups, InFlight
    <3>. QED
      BY <1>1, <2>0, <2>3, <3>1, FewerKept
  <2>4. CASE MainPoll \/ Check \/ VerifyField \/ EnablePublish \/ EndSpin
    BY <2>3, <2>4 DEF MainPoll, Check, VerifyField, EnablePublish, EndSpin, frameVars, unitVars
  <2>5. CASE StopSerialThread \/ JoinAndClose \/ SerialPoll \/ SerialExit
    BY <2>3, <2>5 DEF StopSerialThread, JoinAndClose, SerialPoll, SerialExit, frameVars, unitVars
  <2>6. CASE MainRead \/ MainFeed
    <3>1. "main" \in Thread
      BY DEF Thread
    <3>. QED
      BY <1>1, <2>0, <2>6, <3>1, ReadKept DEF MainRead, MainFeed
  <2>7. CASE SerialRead \/ SerialFeed
    <3>1. "serial" \in Thread
      BY DEF Thread
    <3>. QED
      BY <1>1, <2>0, <2>7, <3>1, ReadKept DEF SerialRead, SerialFeed
  <2>8. CASE UnitHandles
    BY <1>1, <2>0, <2>8, HandleKept
  <2>9. CASE UnitStreams
    <3>1. /\ UNCHANGED <<inbox, batch, unit, received, info>> /\ rx' = Append(rx, Plain)
          /\ Plain \in Frame /\ Plain.type = "PLAIN"
      BY <2>9 DEF UnitStreams, frameVars, unitVars, Plain, Frame
    <3>2. Startups' \subseteq Startups
      BY <3>1, ArriveFlight DEF Startups
    <3>. QED
      BY <1>1, <2>0, <3>1, <3>2, FewerKept
  <2>10. CASE Unplug
    <3>1. UNCHANGED <<batch, unit, received, info>> /\ rx' = <<>> /\ inbox' = <<>>
      BY <2>10 DEF Unplug, frameVars, unitVars
    <3>2. Len(rx') = 0
      BY <3>1
    <3>3. Startups' \subseteq Startups
      BY <3>1, <3>2 DEF Startups, InFlight
    <3>. QED
      BY <1>1, <2>0, <3>1, <3>3, FewerKept
  <2>11. ~UnitRestarts
    BY DEF UnitRestarts
  <2>12. CASE UNCHANGED vars
    BY <2>3, <2>12 DEF vars, frameVars, unitVars
  <2>. QED
    BY <1>4, <2>1, <2>2, <2>4, <2>5, <2>6, <2>7, <2>8, <2>9, <2>10, <2>11, <2>12
    DEF Next, MainStep, SerialStep, Environment
<1>. QED
  BY <1>2, <1>3, <1>4

\* A startup frame that comes while the first is compared says the same.
LEMMA SameInfo ==
  ASSUME TypeOK, SafeInv, ~restarted, Cleared, received, NEW t \in Thread,
         FeedFrame(t), UNCHANGED rx
  PROVE  \A s \in Verified : info'[s] = info[s]
<1>1. Fresh
  BY DEF SafeInv, LineInv
<1>2. Head(batch[t]) \in InFlight
  BY FeedFlight
<1>3. CASE OnFrame(Head(batch[t])) /\ Head(batch[t]).type = "STARTUP"
  <2>1. Current(Head(batch[t]).settings) /\ Current(info)
    BY <1>1, <1>2, <1>3 DEF Fresh, Startups
  <2>. QED
    BY <1>3, <2>1 DEF OnFrame, Current
<1>. QED
  BY <1>3 DEF FeedFrame, OnFrame

\* The comparison holds of what is there when publishing begins, and after.
LEMMA CheckStep ==
  ASSUME TypeOK, SafeInv, [Next]_vars, ~restarted
  PROVE  CheckInv'
<1>1. PlaceInv /\ CheckInv
  BY DEF SafeInv
<1>2. ASSUME UNCHANGED <<pc, publish_enable, ok, unread>>,
             Cleared /\ received => \A s \in Verified : info'[s] = info[s]
      PROVE  CheckInv'
  BY <1>1, <1>2 DEF CheckInv, PlaceInv, Cleared
<1>3. CASE UNCHANGED vars
  BY <1>2, <1>3 DEF vars, mainVars, frameVars
<1>4. CASE SerialFeed
  <2>1. UNCHANGED <<pc, publish_enable, ok, unread, rx>>
    BY <1>4 DEF SerialFeed, mainVars
  <2>2. CASE FeedFrame("serial")
    BY <1>2, <2>1, <2>2, SameInfo DEF Thread
  <2>3. CASE UNCHANGED info
    BY <1>2, <2>1, <2>3
  <2>. QED
    BY <1>4, <2>2, <2>3 DEF SerialFeed, frameVars
<1>5. CASE SerialPoll \/ SerialRead \/ SerialExit \/ Environment
  <2>1. UNCHANGED <<pc, publish_enable, ok, unread, info>>
    BY <1>5 DEF SerialPoll, SerialRead, SerialExit, Environment, UnitHandles, UnitReset, UnitConfig,
                UnitSet, UnitStartup, UnitExit, UnitStreams, UnitRestarts, Unplug, mainVars, frameVars
  <2>. QED
    BY <1>2, <2>1
<1>6. CASE Open \/ Reset \/ EnterConfig \/ ConfigureSetting \/ ClearReceived \/ RequestStartup
  BY <1>1, <1>6 DEF Open, Reset, EnterConfig, ConfigureSetting, ClearReceived, RequestStartup,
                    PlaceInv, CheckInv
<1>7. CASE MainPoll \/ MainRead \/ MainFeed \/ LeaveConfig
  BY <1>1, <1>7 DEF MainPoll, MainRead, MainFeed, LeaveConfig, PlaceInv, CheckInv
<1>8. CASE Check
  BY <1>1, <1>8 DEF Check, PlaceInv, CheckInv
<1>9. CASE VerifyField
  BY <1>1, <1>9 DEF VerifyField, frameVars, PlaceInv, CheckInv
<1>10. CASE EnablePublish
  BY <1>1, <1>10 DEF EnablePublish, frameVars, PlaceInv, CheckInv
<1>11. CASE StopSerialThread \/ JoinAndClose \/ EndSpin
  BY <1>1, <1>11 DEF StopSerialThread, JoinAndClose, EndSpin, frameVars, PlaceInv, CheckInv
<1>. QED
  BY <1>3, <1>4, <1>5, <1>6, <1>7, <1>8, <1>9, <1>10, <1>11 DEF Next, MainStep, SerialStep

\* Every step keeps all of it.
LEMMA SafeStep == Settles /\ TypeOK /\ SafeInv /\ [Next]_vars => SafeInv'
<1>. SUFFICES ASSUME Settles, TypeOK, SafeInv, [Next]_vars PROVE SafeInv'
  OBVIOUS
<1>1. ~restarted' => ~restarted
  BY RestartStays
<1>. QED
  BY <1>1, PlaceStep, LineStep, CheckStep DEF SafeInv

-----------------------------------------------------------------------------

\* For any settings and any bounds: when the sleeps outlast the restart, the
\* startup frame the constructor compares shows what the unit has.
THEOREM EvidenceCurrent == ASSUME Settles PROVE Spec => []EvidenceIsCurrent
<1>1. SafeInv => EvidenceIsCurrent
  BY DEF SafeInv, LineInv, Cleared, Fresh, Current, EvidenceIsCurrent
<1>2. TypeOK /\ SafeInv /\ [Next]_vars => SafeInv'
  BY SafeStep
<1>. QED
  BY <1>1, <1>2, InitType, TypeStep, InitSafe, PTL DEF Spec

\* For any settings, any bounds and any faults: then a node that publishes is the
\* node of a unit that has every setting that is compared, as asked.
THEOREM VerifiedConfigured == ASSUME Settles PROVE Spec => []VerifiedMeansConfigured
<1>1. SafeInv => VerifiedMeansConfigured
  BY DEF SafeInv, PlaceInv, LineInv, CheckInv, Cleared, Fresh, Current, VerifiedMeansConfigured
<1>2. TypeOK /\ SafeInv /\ [Next]_vars => SafeInv'
  BY SafeStep
<1>. QED
  BY <1>1, <1>2, InitType, TypeStep, InitSafe, PTL DEF Spec
=============================================================================
