--------------------------- MODULE ParameterTables ---------------------------
(***************************************************************************)
(* The tables a parameter goes through, from its text to the unit and back *)
(* from a startup frame, and the commands made of them.  An enumerator is  *)
(* its position in its enumeration, from 1.                                *)
(***************************************************************************)
EXTENDS Integers, Sequences, SequencesExt

-----------------------------------------------------------------------------
(* Parameters and their enumerations                                       *)

Enumerators ==
  [mode       |-> <<"IDLE", "LOW", "MEDIUM">>,
   gyro       |-> <<"DPS_125", "DPS_250", "DPS_500", "DPS_1000", "DPS_2000", "DPS_4000">>,
   accel      |-> <<"G_2", "G_4", "G_8", "G_16">>,
   incl       |-> <<"G_0_5", "G_1_0", "G_2_0", "G_3_0">>,
   filter     |-> <<"DISABLED", "LP_ONLY", "HP_ONLY", "LP_AND_HP">>,
   cutoff     |-> <<"C0", "C1", "C2", "C3", "C4", "C5", "C6", "C7">>,
   convention |-> <<"NWU", "ENU", "NED">>,
   heading    |-> <<"NONE", "INTERNAL_MAGNETOMETER">>]

\* The enumeration of a parameter, and the command or register it is sent by.
Parameters ==
  [incl_range          |-> [kind |-> "incl",       by |-> "DRI"],
   operating_mode      |-> [kind |-> "mode",       by |-> "OM"],
   gyro_range          |-> [kind |-> "gyro",       by |-> "DRG"],
   accel_range         |-> [kind |-> "accel",      by |-> "DRA"],
   ahrs_convention     |-> [kind |-> "convention", by |-> "FCO"],
   ahrs_heading_source |-> [kind |-> "heading",    by |-> "FHS"],
   gyro_filter_mode    |-> [kind |-> "filter",     by |-> "GFI"],
   gyro_lpf            |-> [kind |-> "cutoff",     by |-> "GLP"],
   gyro_hpf            |-> [kind |-> "cutoff",     by |-> "GHP"],
   accel_filter_mode   |-> [kind |-> "filter",     by |-> "AFI"],
   accel_lpf           |-> [kind |-> "cutoff",     by |-> "ALP"],
   accel_hpf           |-> [kind |-> "cutoff",     by |-> "AHP"]]

Param   == DOMAIN Parameters
Kind(p) == Parameters[p].kind

\* The values of config_ before any parameter is read.
DefaultConfig ==
  [operating_mode |-> 3, gyro_range |-> 3, accel_range |-> 2, incl_range |-> 2,
   gyro_filter_mode |-> 2, gyro_lpf |-> 4, gyro_hpf |-> 1,
   accel_filter_mode |-> 2, accel_lpf |-> 4, accel_hpf |-> 1,
   ahrs_convention |-> 1, ahrs_heading_source |-> 1]

\* toString: the text of an enumerator, in the default of a parameter.
TextOf ==
  [mode       |-> <<"IDLE", "LOW", "MEDIUM">>,
   gyro       |-> <<"DPS_125", "DPS_250", "DPS_500", "DPS_1000", "DPS_2000", "DPS_4000">>,
   accel      |-> <<"G_2", "G_4", "G_8", "G_16">>,
   incl       |-> <<"G_0_5", "G_1_0", "G_2_0", "G_3_0">>,
   filter     |-> <<"DISABLED", "LP_ONLY", "HP_ONLY", "LP_AND_HP">>,
   cutoff     |-> <<"C0", "C1", "C2", "C3", "C4", "C5", "C6", "C7">>,
   convention |-> <<"NWU", "ENU", "NED">>,
   heading    |-> <<"NONE", "INTERNAL_MAGNETOMETER">>]

\* declare_parameter: the text a parameter has when none is set.
Declared(p) == TextOf[Kind(p)][DefaultConfig[p]]

\* parse*: a text that names no enumerator is refused by an exception.
Parses(p, text)    == Contains(Enumerators[Kind(p)], text)
Parse(p, text)     == CHOOSE e \in DOMAIN Enumerators[Kind(p)] : Enumerators[Kind(p)][e] = text

\* The texts that the descriptions of the parameters except from the enumerators:
\* "C4-C7 reserved for gyro HPF" and "no LP_AND_HP for accel".  No parser looks
\* at them.
Excepted(p) ==
  CASE p = "gyro_hpf"          -> {"C4", "C5", "C6", "C7"}
    [] p = "accel_filter_mode" -> {"LP_AND_HP"}
    [] OTHER -> {}

\* to_oscp: the argument that stands for an enumerator in a command.
ToOscp ==
  [mode |-> <<"I", "L", "M">>, gyro |-> <<125, 250, 500, 1000, 2000, 4000>>,
   accel |-> <<2, 4, 8, 16>>, incl |-> <<5, 10, 20, 30>>,
   filter |-> <<0, 1, 2, 3>>, cutoff |-> <<0, 1, 2, 3, 4, 5, 6, 7>>,
   convention |-> <<0, 1, 2>>, heading |-> <<0, 1>>]

\* Mutant of ToStartup: two ranges of the gyroscope are exchanged.
ToStartupSwapped ==
  [mode |-> <<0, 1, 2>>, gyro |-> <<2, 0, 4, 12, 8, 1>>, accel |-> <<0, 2, 3, 1>>,
   incl |-> <<0, 2, 3, 1>>, filter |-> <<0, 1, 2, 3>>, cutoff |-> <<0, 1, 2, 3, 4, 5, 6, 7>>]

\* *ToStartup: the field of a startup frame that stands for an enumerator.
ToStartup ==
  [mode |-> <<0, 1, 2>>, gyro |-> <<2, 0, 4, 8, 12, 1>>, accel |-> <<0, 2, 3, 1>>,
   incl |-> <<0, 2, 3, 1>>, filter |-> <<0, 1, 2, 3>>, cutoff |-> <<0, 1, 2, 3, 4, 5, 6, 7>>]

\* What a switch returns for each of its cases.
Switch(cases) == [c \in {x[1] : x \in cases} |-> (CHOOSE x \in cases : x[1] = c)[2]]

\* startupTo*: the text of each field of a startup frame that stands for one.
StartupTo ==
  [mode   |-> Switch({<<0, "IDLE">>, <<1, "LOW">>, <<2, "MEDIUM">>}),
   gyro   |-> Switch({<<2, "DPS_125">>, <<0, "DPS_250">>, <<4, "DPS_500">>,
                      <<8, "DPS_1000">>, <<12, "DPS_2000">>, <<1, "DPS_4000">>}),
   accel  |-> Switch({<<0, "G_2">>, <<2, "G_4">>, <<3, "G_8">>, <<1, "G_16">>}),
   incl   |-> Switch({<<0, "G_0_5">>, <<2, "G_1_0">>, <<3, "G_2_0">>, <<1, "G_3_0">>}),
   filter |-> Switch({<<0, "DISABLED">>, <<1, "LP_ONLY">>, <<2, "HP_ONLY">>, <<3, "LP_AND_HP">>}),
   cutoff |-> Switch({<<0, "C0">>, <<1, "C1">>, <<2, "C2">>, <<3, "C3">>,
                      <<4, "C4">>, <<5, "C5">>, <<6, "C6">>, <<7, "C7">>})]

\* The parameters that are in a startup frame and compared with it.
Verified == {p \in Param : Kind(p) \in DOMAIN ToStartup}

-----------------------------------------------------------------------------
(* Commands                                                                *)

\* oscp_usr_reg_t and OSCP_USR_REG_STR: the encoder takes the mnemonic of a
\* register at the register's position.
UsrReg ==
  <<"GXB", "GYB", "GZB", "GOB", "AXB", "AYB", "AZB", "IXB", "IYB", "MXB", "MYB", "MZB",
    "MXX", "MYX", "MZX", "MXY", "MYY", "MZY", "MXZ", "MYZ", "MZZ",
    "FCO", "FHS", "FRT", "FGA", "FAR", "FMR", "GFI", "GLP", "GHP", "AFI", "ALP", "AHP">>
UsrRegStr ==
  <<"GXB", "GYB", "GZB", "GOB",
    "AXB", "AYB", "AZB",
    "IXB", "IYB",
    "MXB", "MYB", "MZB",
    "MXX", "MYX", "MZX",
    "MXY", "MYY", "MZY",
    "MXZ", "MYZ", "MZZ",
    "FCO", "FHS", "FRT",
    "FGA", "FAR", "FMR",
    "GFI", "GLP", "GHP",
    "AFI", "ALP", "AHP">>

Command(name, arg)  == [name |-> name, reg |-> "", arg |-> arg]
WriteReg(reg, arg)  == [name |-> "WR", reg |-> UsrRegStr[CHOOSE i \in DOMAIN UsrReg : UsrReg[i] = reg],
                        arg |-> arg]

\* The arguments an encoder accepts; others give OSCP_ERR_INVALID.
Encodable(name) ==
  CASE name = "OM"  -> {"I", "L", "M"}
    [] name = "DRG" -> {125, 250, 500, 1000, 2000, 4000}
    [] name = "DRA" -> {2, 4, 8, 16}
    [] name = "DRI" -> {5, 10, 20, 30}
    [] name \in {"EOFT", "DOFT"} -> {"R", "E", "Q", "M", "G"}
    [] name = "WR"  -> 0 .. 7      \* any: these are the values configure_imu writes
    [] OTHER -> {""}

Setting(p, e) ==
  LET arg == ToOscp[Kind(p)][e]
      by  == Parameters[p].by
  IN  IF Contains(UsrReg, by) THEN WriteReg(by, arg) ELSE Command(by, arg)

\* Mutant of Frames: the standard topics do not need the quaternion.
FramesWithoutQuaternion(topics) ==
  (IF topics \cap {"raw", "standard"} # {}  THEN <<"R">> ELSE <<>>) \o
  (IF "euler" \in topics                    THEN <<"E">> ELSE <<>>) \o
  (IF "quat" \in topics                     THEN <<"Q">> ELSE <<>>) \o
  (IF "rot" \in topics                      THEN <<"M">> ELSE <<>>) \o
  (IF "gnss" \in topics                     THEN <<"G">> ELSE <<>>)

\* The frames that the enabled topics need.
Frames(topics) ==
  (IF topics \cap {"raw", "standard"} # {}  THEN <<"R">> ELSE <<>>) \o
  (IF "euler" \in topics                    THEN <<"E">> ELSE <<>>) \o
  (IF topics \cap {"quat", "standard"} # {} THEN <<"Q">> ELSE <<>>) \o
  (IF "rot" \in topics                      THEN <<"M">> ELSE <<>>) \o
  (IF "gnss" \in topics                     THEN <<"G">> ELSE <<>>)

\* What configure_imu sends from CONFIG to the last frame enabled, in its order.
Commands(config, topics) ==
  LET Set(p) == Setting(p, config[p])
      Of(name, frames) == [i \in DOMAIN frames |-> Command(name, frames[i])]
  IN  <<Command("CONFIG", ""), Set("incl_range")>> \o Of("DOFT", <<"R", "E", "Q", "M">>) \o
      <<Set("operating_mode"), Set("gyro_range"), Set("accel_range"),
        Set("ahrs_convention"), Set("ahrs_heading_source"),
        Set("gyro_filter_mode"), Set("gyro_lpf"), Set("gyro_hpf"),
        Set("accel_filter_mode"), Set("accel_lpf"), Set("accel_hpf")>> \o
      Of("EOFT", Frames(topics))
=============================================================================
