---------------------------- MODULE Configuration ----------------------------
(***************************************************************************)
(* What becomes of the parameters: from their text to the unit's settings, *)
(* and back through the startup frame and get_config.                      *)
(*                                                                         *)
(* A parameter's text is parsed to an enumerator; configure_imu encodes    *)
(* that as the argument of a command; the unit (external) takes a setting  *)
(* from the argument, and packs its settings into the bytes of a startup   *)
(* frame; on_frame takes the fields out of them; verify_startup_config     *)
(* compares these with what the enumerators are in a startup frame.  Each  *)
(* step has a table of its own, and they have to agree.                    *)
(*                                                                         *)
(* A setting of the unit is written as the text that asks for it.  The     *)
(* order of threads and repeated faults are left to DriverStartup: here a  *)
(* command takes effect at once, is lost, or arrives with another argument.*)
(***************************************************************************)
EXTENDS ParameterTables

CONSTANTS
  Launches,    \* what the node may be launched with and meet: records
               \*   [asked: parameter -> text or "unset", topics, transport,
               \*    baudrate: negative when unset, unit_baud: the unit's rate,
               \*    saved: parameter -> text, streams: frames]
  MaxFaults    \* bound on commands and frames lost or altered

Topic == {"raw", "euler", "quat", "rot", "gnss", "standard"}
Rate  == {9600, 57600, 115200, 230400, 460800, 921600}

\* The unit has a rate it supports, and has saved settings that there are; what
\* is asked may be any text.
ASSUME ConfigurationAssumption ==
  /\ MaxFaults \in Nat
  /\ \A l \in Launches :
       /\ l.topics \subseteq Topic
       /\ l.baudrate \in Int /\ l.unit_baud \in Rate
       /\ \A p \in Param : Parses(p, l.saved[p])
       /\ l.streams \subseteq {"R", "E", "Q", "M", "G"}

VARIABLES
  launch,            \* the launch, which does not change
  pc,                \* where the constructor is
  config,            \* config_: parameter -> enumerator
  sent,              \* commands sent so far
  startup_received, startup_info,
  publish_enable,
  shutdown,          \* rclcpp::shutdown has been called
  state,             \* the unit is in OPERATING or CONFIG
  unit,              \* the unit's settings, as texts
  streams,           \* the frames it sends
  faults

nodeVars == <<config, sent, startup_received, startup_info, publish_enable, shutdown>>
unitVars == <<state, unit, streams>>
vars == <<launch, pc, nodeVars, unitVars, faults>>

Init ==
  /\ launch \in Launches
  /\ pc = "parse" /\ config = <<>> /\ sent = 0
  /\ startup_received = FALSE /\ startup_info = <<>>
  /\ publish_enable = FALSE /\ shutdown = FALSE
  /\ state = "OPERATING" /\ unit = launch.saved /\ streams = launch.streams
  /\ faults = 0

-----------------------------------------------------------------------------
(* The unit (external)                                                     *)

\* What the argument of a command means, as oscp_imu.h describes it.  It lists one
\* set of modes and cutoffs for all filters.
Meaning(kind, arg) ==
  CASE kind = "mode"  -> Switch({<<"I", "IDLE">>, <<"L", "LOW">>, <<"M", "MEDIUM">>})[arg]
    [] kind = "gyro"  -> Switch({<<125, "DPS_125">>, <<250, "DPS_250">>, <<500, "DPS_500">>,
                                 <<1000, "DPS_1000">>, <<2000, "DPS_2000">>, <<4000, "DPS_4000">>})[arg]
    [] kind = "accel" -> Switch({<<2, "G_2">>, <<4, "G_4">>, <<8, "G_8">>, <<16, "G_16">>})[arg]
    [] kind = "incl"  -> Switch({<<5, "G_0_5">>, <<10, "G_1_0">>, <<20, "G_2_0">>, <<30, "G_3_0">>})[arg]
    [] OTHER -> Enumerators[kind][arg + 1]     \* registers

\* The arguments the unit may take in a command like c; it refuses others.
Understood(c) ==
  IF c.name # "WR" THEN Encodable(c.name)
  ELSE UNION {0 .. Len(Enumerators[Kind(p)]) - 1 : p \in {q \in Param : Parameters[q].by = c.reg}}

\* A command writes a value that the parameter's description excepts.  Nothing in
\* the repository says what a unit makes of it.
Excepts(c) ==
  \E p \in Param : Parameters[p].by = c.reg /\ \E text \in Excepted(p) : c.arg = Parse(p, text) - 1

Obey(c) ==
  IF c.name = "CONFIG" THEN state' = "CONFIG" /\ UNCHANGED <<unit, streams>>
  ELSE IF c.name = "EXIT" THEN state' = "OPERATING" /\ UNCHANGED <<unit, streams>>
  ELSE IF state # "CONFIG" THEN UNCHANGED unitVars
  ELSE /\ UNCHANGED state
       /\ streams' = CASE c.name = "EOFT" -> streams \cup {c.arg}
                       [] c.name = "DOFT" -> streams \ {c.arg}
                       [] OTHER -> streams
       /\ unit' = [p \in Param |-> IF Parameters[p].by \in {c.name, c.reg}
                                    THEN Meaning(Kind(p), c.arg) ELSE unit[p]]

\* The bytes of a startup frame: bit fields, lowest first.
StartupFrame(correction) ==
  LET Code(p) == CHOOSE c \in DOMAIN StartupTo[Kind(p)] : StartupTo[Kind(p)][c] = unit[p]
      Pack(mode, lpf, hpf) == Code(mode) + 4 * Code(lpf) + 32 * Code(hpf)
      Index(p) == Parse(p, unit[p]) - 1
  IN  [header_byte |-> 7 + 8 * Code("operating_mode") + 64 * correction,
       ranges      |-> Code("gyro_range") + 16 * Code("accel_range"),
       gyro        |-> Pack("gyro_filter_mode", "gyro_lpf", "gyro_hpf"),
       accel       |-> Pack("accel_filter_mode", "accel_lpf", "accel_hpf"),
       incl        |-> Code("incl_range") + 16 * Index("ahrs_convention")
                                          + 64 * Index("ahrs_heading_source")]

-----------------------------------------------------------------------------
(* The node                                                                *)

\* Mutant of Fields: the mode is taken from all the bits above the type.
FieldsUnmasked(frame) ==
  [operating_mode    |-> frame.header_byte \div 8,
   gyro_range        |-> frame.ranges % 16,
   accel_range       |-> frame.ranges \div 16,
   gyro_filter_mode  |-> frame.gyro % 4,
   gyro_lpf          |-> frame.gyro \div 4 % 8,
   gyro_hpf          |-> frame.gyro \div 32,
   accel_filter_mode |-> frame.accel % 4,
   accel_lpf         |-> frame.accel \div 4 % 8,
   accel_hpf         |-> frame.accel \div 32,
   incl_range        |-> frame.incl % 16]

\* oscp_startup_t: the fields of a startup frame that on_frame keeps.
Fields(frame) ==
  [operating_mode    |-> frame.header_byte \div 8 % 8,
   gyro_range        |-> frame.ranges % 16,
   accel_range       |-> frame.ranges \div 16,
   gyro_filter_mode  |-> frame.gyro % 4,
   gyro_lpf          |-> frame.gyro \div 4 % 8,
   gyro_hpf          |-> frame.gyro \div 32,
   accel_filter_mode |-> frame.accel % 4,
   accel_lpf         |-> frame.accel \div 4 % 8,
   accel_hpf         |-> frame.accel \div 32,
   incl_range        |-> frame.incl % 16]

Go(to) == pc' = to /\ UNCHANGED launch

\* get_parameter: the text that is set, or the one declared.
GetParameter(p) == IF launch.asked[p] = "unset" THEN Declared(p) ELSE launch.asked[p]

\* A required parameter without a value (of the three, the baud rate), or a text
\* that is not an enumerator's, ends the constructor by an exception.
ParseAll ==
  /\ pc = "parse"
  /\ IF launch.baudrate >= 0 /\ \A p \in Param : Parses(p, GetParameter(p))
     THEN Go("open") /\ config' = [p \in Param |-> Parse(p, GetParameter(p))]
     ELSE Go("threw") /\ UNCHANGED config
  /\ UNCHANGED <<sent, startup_received, startup_info, publish_enable, shutdown, unitVars, faults>>

\* The port or the socket cannot be opened: the constructor returns.
OpenFails ==
  /\ pc = "open" /\ Go("returned")
  /\ UNCHANGED <<nodeVars, unitVars, faults>>

\* init_canfd calls shutdown when one of its steps fails; the constructor goes
\* on as if it had not.
Open ==
  /\ pc = "open" /\ Go("reset")
  /\ shutdown' \in (IF launch.transport = "CANFD" THEN BOOLEAN ELSE {FALSE})
  /\ UNCHANGED <<config, sent, startup_received, startup_info, publish_enable, unitVars, faults>>

\* baud_to_termios
BaudToTermios(baud) ==
  IF baud \in Rate THEN baud ELSE 921600

\* What is written reaches the unit: not over a CAN socket, which refuses what has
\* not the size of a frame (external), nor at another baud rate.
Connected == launch.transport = "RS422" /\ BaudToTermios(launch.baudrate) = launch.unit_baud

FaultOccurs == faults < MaxFaults /\ faults' = faults + 1

\* The unit does not as it is told: by a fault, or of its own accord when the value
\* is an excepted one.
Deviates(c) == FaultOccurs \/ (Excepts(c) /\ UNCHANGED faults)

\* send_command, whose result is ignored: the encoder may have refused, the write
\* may fail, the line may lose or alter what is written, and the unit may ignore an
\* excepted value, take it, or take another for it.
Send(c) ==
  \/ /\ c.arg \in Encodable(c.name) /\ Connected
     /\ Obey(c) /\ UNCHANGED faults
  \/ ~(c.arg \in Encodable(c.name) /\ Connected) /\ UNCHANGED <<unitVars, faults>>
  \/ Deviates(c) /\ UNCHANGED unitVars
  \/ /\ Connected /\ Deviates(c)
     /\ \E arg \in Understood(c) \ {c.arg} : Obey([c EXCEPT !.arg = arg])

\* A startup frame reaches on_frame, or is lost.
OnStartup ==
  \/ /\ Connected
     /\ \E correction \in 0 .. 1 : startup_info' = Fields(StartupFrame(correction))
     /\ startup_received' = TRUE /\ UNCHANGED faults
  \/ ~Connected /\ UNCHANGED <<startup_received, startup_info, faults>>
  \/ FaultOccurs /\ UNCHANGED <<startup_received, startup_info>>

\* RESET: the unit restarts with what it has saved, and sends a startup frame.
Reset ==
  /\ pc = "reset" /\ Go("configure")
  /\ OnStartup
  /\ UNCHANGED <<config, sent, publish_enable, shutdown, unitVars>>

ConfigureIMU ==
  /\ pc = "configure"
  /\ LET commands == Commands(config, launch.topics)
     IN  /\ sent < Len(commands)
         /\ Send(commands[sent + 1])
         /\ sent' = sent + 1
         /\ Go(IF sent' = Len(commands) THEN "clear" ELSE "configure")
  /\ UNCHANGED <<config, startup_received, startup_info, publish_enable, shutdown>>

\* startup_received_.store(false)
ClearReceived ==
  /\ pc = "clear" /\ Go("suf")
  /\ startup_received' = FALSE
  /\ UNCHANGED <<config, sent, startup_info, publish_enable, shutdown, unitVars, faults>>

\* SUF is answered in CONFIG.
RequestStartup ==
  /\ pc = "suf" /\ Go("exit")
  /\ IF state = "CONFIG" THEN OnStartup ELSE UNCHANGED <<startup_received, startup_info, faults>>
  /\ UNCHANGED <<config, sent, publish_enable, shutdown, unitVars>>

Exit ==
  /\ pc = "exit" /\ Go("verify")
  /\ Send(Command("EXIT", ""))
  /\ UNCHANGED nodeVars

\* Mutant of Matches: the filters are not compared.
MatchesRanges == \A p \in Verified : Kind(p) \in {"filter", "cutoff"}
                   \/ ToStartup[Kind(p)][config[p]] = startup_info[p]

\* verify_startup_config
Matches == \A p \in Verified : ToStartup[Kind(p)][config[p]] = startup_info[p]

\* The constructor's end: without a startup frame, or with one that does not
\* match, the node is shut down.
VerifyStartupConfig ==
  /\ pc = "verify" /\ Go("returned")
  /\ publish_enable' = (startup_received /\ Matches)
  /\ shutdown' = (shutdown \/ ~publish_enable')
  /\ UNCHANGED <<config, sent, startup_received, startup_info, unitVars, faults>>

\* publish: the frames whose kinds a topic's messages are made of.
Needs(topic) ==
  CASE topic = "raw" -> {"R"} [] topic = "euler" -> {"E"} [] topic = "quat" -> {"Q"}
    [] topic = "rot" -> {"M"} [] topic = "gnss" -> {"G"} [] topic = "standard" -> {"R", "Q"}

\* get_config answers from config_, through the codes of a startup frame.
GetConfig(p) == StartupTo[Kind(p)][ToStartup[Kind(p)][config[p]]]

-----------------------------------------------------------------------------

Next == \/ ParseAll \/ OpenFails \/ Open \/ Reset \/ ConfigureIMU
        \/ ClearReceived \/ RequestStartup \/ Exit \/ VerifyStartupConfig

Spec == Init /\ [][Next]_vars

-----------------------------------------------------------------------------
(* Properties                                                              *)

\* Once parsed every parameter has an enumerator, the unit keeps settings there
\* are, and what on_frame keeps of a startup frame are codes there are.
TypeOK ==
  /\ pc \in {"parse", "threw", "open", "reset", "configure", "clear", "suf", "exit",
             "verify", "returned"}
  /\ pc \notin {"parse", "threw"} =>
       \A p \in Param : config[p] \in DOMAIN Enumerators[Kind(p)]
  /\ \A p \in Param : Parses(p, unit[p])
  /\ startup_info # <<>> =>
       \A p \in Verified : startup_info[p] \in DOMAIN StartupTo[Kind(p)]
  /\ startup_received => startup_info # <<>>
  /\ streams \subseteq {"R", "E", "Q", "M", "G"}
  /\ state \in {"OPERATING", "CONFIG"} /\ faults \in 0 .. MaxFaults

\* What a launch wants of a parameter: what it asks for, or the default.
Wanted(p) == IF launch.asked[p] = "unset" THEN Enumerators[Kind(p)][DefaultConfig[p]]
                                          ELSE launch.asked[p]

\* While the node publishes, each parameter the startup frame shows is in the unit
\* what is wanted, and get_config says so; whatever was lost, altered or
\* saved before.
PublishesAsAsked ==
  publish_enable => \A p \in Verified :
    unit[p] = Wanted(p) /\ GetConfig(p) = Wanted(p)

\* A launch over RS-422 that met no fault, with a unit at the rate asked for, or at
\* 921600 when that rate is not supported.
FaultFree == /\ pc = "returned" /\ sent > 0 /\ faults = 0
             /\ launch.transport = "RS422"
             /\ launch.unit_baud = IF launch.baudrate \in Rate THEN launch.baudrate ELSE 921600

\* Over a line without faults every parameter whose text is described as valid is
\* applied, those that are not verified too; and if all are, the node publishes.
FaultFreeApplies ==
  FaultFree
    => /\ \A p \in Param : Wanted(p) \notin Excepted(p) => unit[p] = Wanted(p)
       /\ (\A p \in Param : Wanted(p) \notin Excepted(p)) => publish_enable

\* After a launch that met no fault, whatever it asked for, the unit sends the
\* frames of every topic, and no frame for nothing of those disabled first.
TopicsAreFed ==
  FaultFree
    => LET needed == UNION {Needs(topic) : topic \in launch.topics}
       IN  needed \subseteq streams /\ streams \ {"G"} \subseteq needed
=============================================================================
