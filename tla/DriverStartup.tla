---------------------------- MODULE DriverStartup ----------------------------
(***************************************************************************)
(* The constructor of OSCPIMUNode, its serial thread and the unit.         *)
(*                                                                         *)
(* The main thread opens the port, starts the serial thread, resets the    *)
(* unit, sends it one command per setting, asks for a startup frame (SUF), *)
(* reads the transport once itself, leaves CONFIG and compares the startup *)
(* frame received with the parameters.  It sends without waiting for an    *)
(* answer: between two sends it only sleeps.  The serial thread reads the  *)
(* transport in a loop.  Both threads poll, read everything there is and   *)
(* feed it to the one parser, which calls on_frame in the reading thread.  *)
(*                                                                         *)
(* The unit and the line are external.  Bytes are abstracted to the frames *)
(* the line and the parser make of them (see SerialLink): a frame arrives  *)
(* or is lost.  A command has no checksum, so it may also reach the unit   *)
(* with another value in it.                                               *)
(***************************************************************************)
EXTENDS Integers, Sequences, FiniteSets

CONSTANTS
  Setting,      \* what the parameters configure in the unit
  Value,        \* the values a setting may have
  Request,      \* the parameters: setting -> requested value
  Sent,         \* the settings configure_imu sends, in its order
  Verified,     \* the settings verify_startup_config compares
  SavedBefore,  \* the settings the unit may have saved before
  Default,      \* what a field of startup_info_ holds before any startup frame
  Settles,      \* the sleeps after RESET outlast the unit's restart
  MaxFaults,    \* bound on faults in a behaviour
  MaxInbox,     \* bound on commands on their way: at least the Len(Sent) + 3 sent after
                \* RESET, so that it never holds configure_imu back
  MaxRx         \* frames the kernel's receive buffer holds

SentSettings == {Sent[i] : i \in 1 .. Len(Sent)}

ASSUME StartupAssumption ==
  /\ Request \in [Setting -> Value]
  /\ Sent \in Seq(Setting)
  /\ Verified \subseteq SentSettings
  /\ SavedBefore \subseteq [Setting -> Value]
  /\ Default \in Value
  /\ Settles \in BOOLEAN
  /\ MaxFaults \in Nat /\ MaxInbox \in Nat /\ MaxRx \in Nat

VARIABLES
  pc,             \* where the main thread is
  sent,           \* settings sent so far
  serial,         \* where the serial thread is
  stop,           \* stop_serial_thread_
  batch,          \* thread -> frames it has read and not fed to the parser yet
  received,       \* startup_received_
  info,           \* startup_info_
  garbled,        \* the two threads' bytes met in the parser, which may hold some
  unread,         \* fields of startup_info_ verify_startup_config has to read
  ok,             \* no mismatch among those read
  publish_enable, \* publish_enable_
  vmin,           \* bytes a read waits for: init_rs422 leaves c_cc[VMIN] as it finds it,
                  \* 1 by default, 0 after a program that set it
  rx,             \* frames in the kernel's receive buffer
  inbox,          \* commands on their way to the unit
  mode,           \* the unit's state
  unit,           \* the unit's settings
  saved,          \* the settings it restarts with
  faults, restarted, unplugged

mainVars   == <<pc, sent, unread, ok, publish_enable, stop>>
frameVars  == <<received, info, garbled>>
unitVars   == <<mode, unit, saved, restarted>>
faultVars  == <<faults, unplugged, vmin>>
vars == <<mainVars, serial, batch, frameVars, rx, inbox, unitVars, faultVars>>

Thread == {"main", "serial"}

Plain == [type |-> "PLAIN"]        \* a reply or a data frame
Startup(settings) == [type |-> "STARTUP", settings |-> settings]
Command(name) == [name |-> name]
Write(s, v) == [name |-> "SET", setting |-> s, value |-> v]

InFlight == LET Of(q) == {q[i] : i \in 1 .. Len(q)}
            IN  Of(rx) \cup UNION {Of(batch[t]) : t \in Thread}

Init ==
  /\ pc = "open" /\ serial = "none" /\ stop = FALSE
  /\ sent = 0 /\ unread = {} /\ ok = TRUE /\ publish_enable = FALSE
  /\ batch = [t \in Thread |-> <<>>]
  /\ received = FALSE /\ garbled = FALSE
  /\ info = [s \in Verified |-> Default]
  /\ rx = <<>> /\ inbox = <<>>
  /\ mode \in {"OPERATING", "CONFIG"}
  /\ saved \in SavedBefore /\ unit = saved
  /\ faults = 0 /\ restarted = FALSE /\ unplugged = FALSE
  /\ vmin \in {0, 1}

-----------------------------------------------------------------------------
(* The line                                                                *)

FaultOccurs == faults < MaxFaults /\ faults' = faults + 1

\* send_command: the command is written, or it is lost: the write fails and the
\* result is ignored, or the line loses it.
Send(command) ==
  \/ /\ ~unplugged
     /\ Len(inbox) < MaxInbox
     /\ inbox' = Append(inbox, command)
     /\ UNCHANGED faults
  \/ FaultOccurs /\ UNCHANGED inbox
  \/ unplugged /\ UNCHANGED <<inbox, faults>>

\* The command of a setting may also arrive with another value.
SendSetting(s) ==
  \/ Send(Write(s, Request[s]))
  \/ /\ FaultOccurs
     /\ ~unplugged
     /\ Len(inbox) < MaxInbox
     /\ \E v \in Value \ {Request[s]} : inbox' = Append(inbox, Write(s, v))

\* A frame reaches the receive buffer, finds it full, or is lost.
Arrive(frame) ==
  \/ /\ rx' = IF Len(rx) < MaxRx THEN Append(rx, frame) ELSE rx
     /\ UNCHANGED faults
  \/ FaultOccurs /\ UNCHANGED rx

-----------------------------------------------------------------------------
(* read_transport and on_frame, in either thread                           *)

Readable == rx # <<>> /\ ~unplugged

\* read returns everything there is.
Take(t) == /\ rx # <<>>
           /\ batch' = [batch EXCEPT ![t] = rx]
           /\ rx' = <<>>

\* Mutant of ReadsNothing: every read waits for a byte.
ReadWaits == rx = <<>> /\ unplugged

\* The other thread took it between poll and read: a read that waits for a byte
\* stays in the kernel until one comes, the other kind returns nothing.
ReadsNothing == rx = <<>> /\ (vmin = 0 \/ unplugged)

\* on_frame: a startup frame is stored under the lock; a reply changes nothing,
\* and what a data frame changes is in FramePublisher.
OnFrame(frame) ==
  IF frame.type = "STARTUP"
  THEN /\ info' = [s \in Verified |-> frame.settings[s]]
       /\ received' = TRUE
  ELSE UNCHANGED <<received, info>>

\* Nothing keeps the two threads from feeding the parser at the same time.
Contended == \A u \in Thread : batch[u] # <<>>

\* The next frame read goes through the parser.  When the two threads' bytes mix
\* it is rejected, and what they leave in the parser may spoil one frame more.
FeedFrame(t) ==
  /\ batch[t] # <<>>
  /\ \/ OnFrame(Head(batch[t]))
     \/ (Contended \/ garbled) /\ UNCHANGED <<received, info>>
  /\ garbled' = Contended
  /\ batch' = [batch EXCEPT ![t] = Tail(@)]

-----------------------------------------------------------------------------
(* The serial thread                                                       *)

SerialPoll == /\ serial = "loop" /\ ~stop /\ Readable
              /\ serial' = "read"
              /\ UNCHANGED <<mainVars, batch, frameVars, rx, inbox, unitVars, faultVars>>

SerialRead ==
  /\ serial = "read"
  /\ \/ Take("serial") /\ serial' = "feed"
     \/ ReadsNothing /\ serial' = "loop" /\ UNCHANGED <<batch, rx>>
  /\ UNCHANGED <<mainVars, frameVars, inbox, unitVars, faultVars>>

SerialFeed ==
  /\ serial = "feed"
  /\ IF batch["serial"] = <<>>
     THEN serial' = "loop" /\ UNCHANGED <<batch, frameVars>>
     ELSE FeedFrame("serial") /\ UNCHANGED serial
  /\ UNCHANGED <<mainVars, rx, inbox, unitVars, faultVars>>

SerialExit == /\ serial = "loop" /\ stop
              /\ serial' = "exited"
              /\ UNCHANGED <<mainVars, batch, frameVars, rx, inbox, unitVars, faultVars>>

SerialStep == SerialPoll \/ SerialRead \/ SerialFeed \/ SerialExit

-----------------------------------------------------------------------------
(* The main thread: the constructor and configure_imu                      *)

\* Opens the port and starts the serial thread.  Without a port the constructor
\* returns early and the node spins with neither thread nor watchdog.
Open ==
  /\ pc = "open"
  /\ \/ pc' = "reset" /\ serial' = "loop" /\ UNCHANGED faults
     \/ FaultOccurs /\ pc' = "idle" /\ UNCHANGED serial
  /\ UNCHANGED <<sent, unread, ok, publish_enable, stop, batch, frameVars, rx, inbox,
                 unitVars, unplugged, vmin>>

Reset ==
  /\ pc = "reset"
  /\ Send(Command("RESET"))
  /\ pc' = "config"
  /\ UNCHANGED <<sent, unread, ok, publish_enable, stop, serial, batch, frameVars, rx,
                 unitVars, unplugged, vmin>>

\* After the sleep the unit has restarted, and the serial thread has read the
\* startup frame of that restart.
Settled == /\ inbox = <<>>
           /\ \A f \in InFlight : f.type # "STARTUP"

EnterConfig ==
  /\ pc = "config"
  /\ Settles => Settled
  /\ Send(Command("CONFIG"))
  /\ pc' = "settings"
  /\ UNCHANGED <<sent, unread, ok, publish_enable, stop, serial, batch, frameVars, rx,
                 unitVars, unplugged, vmin>>

ConfigureSetting ==
  /\ pc = "settings" /\ sent < Len(Sent)
  /\ SendSetting(Sent[sent + 1])
  /\ sent' = sent + 1
  /\ UNCHANGED <<pc, unread, ok, publish_enable, stop, serial, batch, frameVars, rx,
                 unitVars, unplugged, vmin>>

\* Mutant of ClearReceived: the flag stays as the boot left it.
KeepReceived ==
  /\ pc = "settings" /\ sent = Len(Sent)
  /\ pc' = "suf"
  /\ UNCHANGED <<sent, unread, ok, publish_enable, stop, serial, batch, frameVars, rx, inbox,
                 unitVars, faultVars>>

\* startup_received_.store(false)
ClearReceived ==
  /\ pc = "settings" /\ sent = Len(Sent)
  /\ received' = FALSE
  /\ pc' = "suf"
  /\ UNCHANGED <<sent, unread, ok, publish_enable, stop, serial, batch, info, garbled, rx, inbox,
                 unitVars, faultVars>>

RequestStartup ==
  /\ pc = "suf"
  /\ Send(Command("SUF"))
  /\ pc' = "poll"
  /\ UNCHANGED <<sent, unread, ok, publish_enable, stop, serial, batch, frameVars, rx,
                 unitVars, unplugged, vmin>>

\* read_transport, called by the constructor's thread.
MainPoll ==
  /\ pc = "poll"
  /\ pc' = IF Readable THEN "read" ELSE "exit"
  /\ UNCHANGED <<sent, unread, ok, publish_enable, stop, serial, batch, frameVars, rx, inbox,
                 unitVars, faultVars>>

MainRead ==
  /\ pc = "read"
  /\ \/ Take("main") /\ pc' = "feed"
     \/ ReadsNothing /\ pc' = "exit" /\ UNCHANGED <<batch, rx>>
  /\ UNCHANGED <<sent, unread, ok, publish_enable, stop, serial, frameVars, inbox,
                 unitVars, faultVars>>

MainFeed ==
  /\ pc = "feed"
  /\ IF batch["main"] = <<>>
     THEN pc' = "exit" /\ UNCHANGED <<batch, frameVars>>
     ELSE FeedFrame("main") /\ UNCHANGED pc
  /\ UNCHANGED <<sent, unread, ok, publish_enable, stop, serial, rx, inbox, unitVars, faultVars>>

\* Mutant of LeaveConfig: EXIT is sent only when the startup frame came in time.
LeaveConfigIfReceived ==
  /\ pc = "exit"
  /\ IF received THEN Send(Command("EXIT")) ELSE UNCHANGED <<inbox, faults>>
  /\ pc' = "check"
  /\ UNCHANGED <<sent, unread, ok, publish_enable, stop, serial, batch, frameVars, rx,
                 unitVars, unplugged, vmin>>

LeaveConfig ==
  /\ pc = "exit"
  /\ Send(Command("EXIT"))
  /\ pc' = "check"
  /\ UNCHANGED <<sent, unread, ok, publish_enable, stop, serial, batch, frameVars, rx,
                 unitVars, unplugged, vmin>>

\* Mutant of Check: whether a startup frame came is not looked at.
CheckNothing ==
  /\ pc = "check"
  /\ pc' = "verify"
  /\ unread' = Verified
  /\ UNCHANGED <<sent, ok, publish_enable, stop, serial, batch, frameVars, rx, inbox,
                 unitVars, faultVars>>

Check ==
  /\ pc = "check"
  /\ pc' = IF received THEN "verify" ELSE "shutdown"
  /\ unread' = IF received THEN Verified ELSE {}
  /\ UNCHANGED <<sent, ok, publish_enable, stop, serial, batch, frameVars, rx, inbox,
                 unitVars, faultVars>>

\* Mutant of VerifyField: a later match hides an earlier mismatch.
VerifyLastField ==
  /\ pc = "verify"
  /\ \E s \in unread : /\ ok' = (info[s] = Request[s])
                       /\ unread' = unread \ {s}
  /\ UNCHANGED <<pc, sent, publish_enable, stop, serial, batch, frameVars, rx, inbox,
                 unitVars, faultVars>>

\* verify_startup_config reads startup_info_ without the lock, field by field.
VerifyField ==
  /\ pc = "verify"
  /\ \E s \in unread : /\ ok' = (ok /\ info[s] = Request[s])
                       /\ unread' = unread \ {s}
  /\ UNCHANGED <<pc, sent, publish_enable, stop, serial, batch, frameVars, rx, inbox,
                 unitVars, faultVars>>

EnablePublish ==
  /\ pc = "verify" /\ unread = {}
  /\ publish_enable' = ok
  /\ pc' = IF ok THEN "spin" ELSE "shutdown"
  /\ UNCHANGED <<sent, unread, ok, stop, serial, batch, frameVars, rx, inbox, unitVars, faultVars>>

-----------------------------------------------------------------------------
(* The main thread: spinning and the destructor                            *)

\* The watchdog or a signal ends rclcpp::spin.
EndSpin ==
  /\ pc \in {"spin", "idle"}
  /\ pc' = "shutdown"
  /\ UNCHANGED <<sent, unread, ok, publish_enable, stop, serial, batch, frameVars, rx, inbox,
                 unitVars, faultVars>>

\* Mutant of StopSerialThread: the destructor joins without setting the flag.
JoinWithoutStop ==
  /\ pc = "shutdown"
  /\ pc' = "join"
  /\ UNCHANGED <<sent, unread, ok, publish_enable, stop, serial, batch, frameVars, rx, inbox,
                 unitVars, faultVars>>

StopSerialThread ==
  /\ pc = "shutdown"
  /\ stop' = TRUE
  /\ pc' = "join"
  /\ UNCHANGED <<sent, unread, ok, publish_enable, serial, batch, frameVars, rx, inbox,
                 unitVars, faultVars>>

\* The destructor joins the serial thread, if there is one, and closes the port.
JoinAndClose ==
  /\ pc = "join" /\ serial \in {"none", "exited"}
  /\ pc' = "closed"
  /\ UNCHANGED <<sent, unread, ok, publish_enable, stop, serial, batch, frameVars, rx, inbox,
                 unitVars, faultVars>>

MainStep ==
  \/ Open \/ Reset \/ EnterConfig \/ ConfigureSetting \/ ClearReceived \/ RequestStartup
  \/ MainPoll \/ MainRead \/ MainFeed \/ LeaveConfig \/ Check \/ VerifyField
  \/ EnablePublish \/ StopSerialThread \/ JoinAndClose

-----------------------------------------------------------------------------
(* The unit (external)                                                     *)

Handled == inbox' = Tail(inbox)

\* RESET, in any state: the unit restarts and announces itself, or stays silent.
UnitReset ==
  /\ inbox # <<>> /\ Head(inbox).name = "RESET"
  /\ Handled
  /\ mode' = "OPERATING" /\ unit' = saved
  /\ \/ Arrive(Startup(saved))
     \/ UNCHANGED <<rx, faults>>
  /\ UNCHANGED <<mainVars, serial, batch, frameVars, saved, restarted, unplugged, vmin>>

\* CONFIG is valid in OPERATING, the other commands in CONFIG.
UnitConfig ==
  /\ inbox # <<>> /\ Head(inbox).name = "CONFIG"
  /\ Handled
  /\ mode' = "CONFIG"
  /\ Arrive(Plain)
  /\ UNCHANGED <<mainVars, serial, batch, frameVars, unit, saved, restarted, unplugged, vmin>>

UnitSet ==
  /\ inbox # <<>> /\ Head(inbox).name = "SET"
  /\ Handled
  /\ unit' = IF mode = "CONFIG"
             THEN [unit EXCEPT ![Head(inbox).setting] = Head(inbox).value]
             ELSE unit
  /\ Arrive(Plain)
  /\ UNCHANGED <<mainVars, serial, batch, frameVars, mode, saved, restarted, unplugged, vmin>>

UnitStartup ==
  /\ inbox # <<>> /\ Head(inbox).name = "SUF"
  /\ Handled
  /\ Arrive(IF mode = "CONFIG" THEN Startup(unit) ELSE Plain)
  /\ UNCHANGED <<mainVars, serial, batch, frameVars, unitVars, unplugged, vmin>>

UnitExit ==
  /\ inbox # <<>> /\ Head(inbox).name = "EXIT"
  /\ Handled
  /\ mode' = "OPERATING"
  /\ UNCHANGED <<mainVars, serial, batch, frameVars, rx, unit, saved, restarted, faultVars>>

UnitHandles == UnitReset \/ UnitConfig \/ UnitSet \/ UnitStartup \/ UnitExit

\* Data frames are sent in OPERATING only.
UnitStreams ==
  /\ mode = "OPERATING" /\ ~unplugged /\ Len(rx) < MaxRx
  /\ rx' = Append(rx, Plain)
  /\ UNCHANGED <<mainVars, serial, batch, frameVars, inbox, unitVars, faultVars>>

\* The supply fails for a moment: the unit restarts with its saved settings.
UnitRestarts ==
  /\ FaultOccurs
  /\ ~unplugged
  /\ mode' = "OPERATING" /\ unit' = saved /\ restarted' = TRUE
  /\ inbox' = <<>>
  /\ rx' = IF Len(rx) < MaxRx THEN Append(rx, Startup(saved)) ELSE rx
  /\ UNCHANGED <<mainVars, serial, batch, frameVars, saved, unplugged, vmin>>

\* The adapter is pulled out: poll and read return at once with an error.
Unplug ==
  /\ FaultOccurs
  /\ ~unplugged /\ unplugged' = TRUE
  /\ inbox' = <<>> /\ rx' = <<>>
  /\ UNCHANGED <<mainVars, serial, batch, frameVars, unitVars, vmin>>

\* What the unit does on its own matters while the port is open.
PortOpen == serial # "none" /\ pc # "closed"

Environment == UnitHandles \/ (PortOpen /\ (UnitStreams \/ UnitRestarts \/ Unplug))

-----------------------------------------------------------------------------

Next == MainStep \/ SerialStep \/ EndSpin \/ Environment \/ (pc = "closed" /\ UNCHANGED vars)

\* Both threads run, and the unit handles the commands it is sent.  Nothing
\* obliges it to stream, to lose a frame, or the process to be ended.
Fairness == /\ WF_vars(MainStep)
            /\ WF_vars(SerialStep)
            /\ WF_vars(UnitHandles)

Spec == Init /\ [][Next]_vars /\ Fairness

-----------------------------------------------------------------------------
(* Properties                                                              *)

Frame == [type : {"PLAIN"}] \cup [type : {"STARTUP"}, settings : [Setting -> Value]]
CommandSet == [name : {"RESET", "CONFIG", "SUF", "EXIT"}]
                \cup [name : {"SET"}, setting : SentSettings, value : Value]

\* The state keeps its shape: the program counters, the frames and commands on
\* their way, the settings on both sides; and nothing is verified, or published,
\* before a startup frame was received.
TypeOK ==
  /\ pc \in {"open", "reset", "config", "settings", "suf", "poll", "read", "feed", "exit",
              "check", "verify", "spin", "idle", "shutdown", "join", "closed"}
  /\ serial \in {"none", "loop", "read", "feed", "exited"}
  /\ sent \in 0 .. Len(Sent)
  /\ unread \subseteq Verified
  /\ pc \in {"verify", "spin"} => received
  /\ {stop, received, garbled, ok, publish_enable, restarted, unplugged} \subseteq BOOLEAN
  /\ batch \in [Thread -> Seq(Frame)]
  /\ info \in [Verified -> Value]
  /\ rx \in Seq(Frame) /\ Len(rx) <= MaxRx
  /\ inbox \in Seq(CommandSet) /\ Len(inbox) <= MaxInbox
  /\ mode \in {"OPERATING", "CONFIG"}
  /\ unit \in [Setting -> Value] /\ saved \in [Setting -> Value]
  /\ faults \in 0 .. MaxFaults /\ vmin \in {0, 1}

\* The node publishes only while the unit is set up as the parameters say, in
\* every setting verify_startup_config compares, whatever commands and frames
\* were lost or altered on the way, whichever thread read them, and although no
\* command waits for its answer: unless the unit restarts by itself.
VerifiedMeansConfigured ==
  publish_enable /\ ~restarted => \A s \in Verified : unit[s] = Request[s]

\* The startup frame the constructor verifies was built after the last setting
\* was handled: what startup_info_ holds then is what the unit has.
EvidenceIsCurrent ==
  pc \in {"check", "verify", "spin"} /\ received /\ ~restarted
    => \A s \in Verified : info[s] = unit[s]

\* The constructor returns, whatever happens on the line, if a read of the port
\* does not wait for a byte.
ConstructorReturns == vmin = 0 => <>(pc \in {"spin", "idle", "shutdown"})

\* Once the node shuts down, the destructor gets the serial thread to stop, if a
\* read of the port does not wait for a byte.
ShutdownCompletes == pc = "shutdown" /\ vmin = 0 ~> pc = "closed"

\* When nothing fails, the unit is back in OPERATING after it was configured,
\* also when its answer came too late for the constructor.
LeavesConfig ==
  pc = "check" /\ faults = 0 ~> mode = "OPERATING" \/ faults > 0

\* oscp_imu.h: "oscp_parser_t is NOT thread-safe. External synchronization is
\* required": the two threads do not feed it at the same time.
ParserNotShared == ~(pc = "feed" /\ serial = "feed")

\* The node gets to serve, or it stops.
ServesOrStops == <>(publish_enable \/ pc = "closed")
=============================================================================
