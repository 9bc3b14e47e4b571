------------------------- MODULE ConfigurationProofs -------------------------
(***************************************************************************)
(* Proofs about the parameters, for every set of launches: any texts asked *)
(* of all the parameters at once, any settings saved before, any topics    *)
(* and rates, and any number of commands and frames lost or altered.       *)
(*                                                                         *)
(* The first part is about the tables: each is followed for one kind of    *)
(* parameter at a time, and the rest of the proofs only use what they have *)
(* in common.                                                              *)
(***************************************************************************)
EXTENDS Configuration, SequenceTheorems, TLAPS

-----------------------------------------------------------------------------
(* The tables                                                              *)

Kinds         == {"mode", "gyro", "accel", "incl", "filter", "cutoff", "convention", "heading"}
StartupKinds  == {"mode", "gyro", "accel", "incl", "filter", "cutoff"}

\* The parameters, their kinds and the commands or registers they are sent by.
LEMMA ParamTable ==
  /\ Param = {"incl_range", "operating_mode", "gyro_range", "accel_range", "ahrs_convention",
              "ahrs_heading_source", "gyro_filter_mode", "gyro_lpf", "gyro_hpf",
              "accel_filter_mode", "accel_lpf", "accel_hpf"}
  /\ Kind("incl_range") = "incl" /\ Kind("operating_mode") = "mode"
  /\ Kind("gyro_range") = "gyro" /\ Kind("accel_range") = "accel"
  /\ Kind("ahrs_convention") = "convention" /\ Kind("ahrs_heading_source") = "heading"
  /\ Kind("gyro_filter_mode") = "filter" /\ Kind("gyro_lpf") = "cutoff"
  /\ Kind("gyro_hpf") = "cutoff" /\ Kind("accel_filter_mode") = "filter"
  /\ Kind("accel_lpf") = "cutoff" /\ Kind("accel_hpf") = "cutoff"
BY DEF Param, Kind, Parameters

\* The commands and registers are all different.
LEMMA ByTable ==
  /\ Parameters["incl_range"].by = "DRI" /\ Parameters["operating_mode"].by = "OM"
  /\ Parameters["gyro_range"].by = "DRG" /\ Parameters["accel_range"].by = "DRA"
  /\ Parameters["ahrs_convention"].by = "FCO" /\ Parameters["ahrs_heading_source"].by = "FHS"
  /\ Parameters["gyro_filter_mode"].by = "GFI" /\ Parameters["gyro_lpf"].by = "GLP"
  /\ Parameters["gyro_hpf"].by = "GHP" /\ Parameters["accel_filter_mode"].by = "AFI"
  /\ Parameters["accel_lpf"].by = "ALP" /\ Parameters["accel_hpf"].by = "AHP"
BY DEF Parameters

\* Every kind has its enumerators, one text each.
LEMMA EnumTable ==
  ASSUME NEW k \in Kinds
  PROVE  /\ Len(Enumerators[k]) \in Nat /\ DOMAIN Enumerators[k] = 1 .. Len(Enumerators[k])
         /\ \A d, e \in DOMAIN Enumerators[k] : Enumerators[k][d] = Enumerators[k][e] => d = e
         /\ Len(Enumerators[k]) <= 8
<1>1. CASE k = "mode"
  BY <1>1 DEF Enumerators
<1>2. CASE k = "gyro"
  BY <1>2 DEF Enumerators
<1>3. CASE k = "accel"
  BY <1>3 DEF Enumerators
<1>4. CASE k = "incl"
  BY <1>4 DEF Enumerators
<1>5. CASE k = "filter"
  BY <1>5 DEF Enumerators
<1>6. CASE k = "cutoff"
  BY <1>6 DEF Enumerators
<1>7. CASE k = "convention"
  BY <1>7 DEF Enumerators
<1>8. CASE k = "heading"
  BY <1>8 DEF Enumerators
<1>. QED
  BY <1>1, <1>2, <1>3, <1>4, <1>5, <1>6, <1>7, <1>8 DEF Kinds

\* The table of a switch pairs the codes and the texts of an enumeration.
Pairs(cases, codes, texts) ==
  /\ \A e \in DOMAIN texts : <<codes[e], texts[e]>> \in cases
  /\ \A x \in cases : \E e \in DOMAIN texts : x = <<codes[e], texts[e]>>
  /\ \A d, e \in DOMAIN texts : codes[d] = codes[e] => d = e

\* Such a switch gives the text of each code, and has no other labels.
LEMMA SwitchPairs ==
  ASSUME NEW cases, NEW codes, NEW texts, Pairs(cases, codes, texts)
  PROVE  /\ \A e \in DOMAIN texts : /\ codes[e] \in DOMAIN Switch(cases)
                                    /\ Switch(cases)[codes[e]] = texts[e]
         /\ \A c \in DOMAIN Switch(cases) : \E e \in DOMAIN texts : c = codes[e]
<1>1. ASSUME NEW e \in DOMAIN texts
      PROVE  codes[e] \in DOMAIN Switch(cases) /\ Switch(cases)[codes[e]] = texts[e]
  <2>1. PICK x \in cases : x = <<codes[e], texts[e]>>
    BY DEF Pairs
  <2>2. x[1] = codes[e] /\ x[2] = texts[e]
    BY <2>1
  <2>3. ASSUME NEW y \in cases, y[1] = codes[e] PROVE y[2] = texts[e]
    <3>1. PICK d \in DOMAIN texts : y = <<codes[d], texts[d]>>
      BY DEF Pairs
    <3>2. codes[d] = codes[e] /\ y[2] = texts[d]
      BY <2>3, <3>1
    <3>. QED
      BY <3>2 DEF Pairs
  <2>. QED
    BY <2>1, <2>2, <2>3 DEF Switch
<1>2. ASSUME NEW c \in DOMAIN Switch(cases) PROVE \E e \in DOMAIN texts : c = codes[e]
  <2>1. PICK x \in cases : c = x[1]
    BY DEF Switch
  <2>. QED
    BY <2>1 DEF Pairs
<1>. QED
  BY <1>1, <1>2

\* The largest code of each kind that the bits of a startup frame have room for.
Room == [mode |-> 7, gyro |-> 15, accel |-> 15, incl |-> 15, filter |-> 3, cutoff |-> 7]

\* What is shown of an enumerator in a startup frame is read back as its text.
LEMMA StartupTable ==
  ASSUME NEW k \in StartupKinds
  PROVE  /\ \A e \in DOMAIN Enumerators[k] :
              /\ ToStartup[k][e] \in DOMAIN StartupTo[k]
              /\ StartupTo[k][ToStartup[k][e]] = Enumerators[k][e]
         /\ \A c \in DOMAIN StartupTo[k] :
              c \in 0 .. Room[k] /\ \E e \in DOMAIN Enumerators[k] : c = ToStartup[k][e]
<1>1. CASE k = "mode"
  <2>. DEFINE cases == {<<0, "IDLE">>, <<1, "LOW">>, <<2, "MEDIUM">>}
  <2>1. StartupTo[k] = Switch(cases)
    BY <1>1 DEF StartupTo
  <2>2. Pairs(cases, ToStartup[k], Enumerators[k])
    BY <1>1 DEF Pairs, ToStartup, Enumerators
  <2>3. \A e \in DOMAIN Enumerators[k] : ToStartup[k][e] \in 0 .. Room[k]
    BY <1>1 DEF ToStartup, Enumerators, Room
  <2>. HIDE DEF cases
  <2>. QED
    BY <2>1, <2>2, <2>3, SwitchPairs
<1>2. CASE k = "gyro"
  <2>. DEFINE cases == {<<2, "DPS_125">>, <<0, "DPS_250">>, <<4, "DPS_500">>,
                       <<8, "DPS_1000">>, <<12, "DPS_2000">>, <<1, "DPS_4000">>}
  <2>1. StartupTo[k] = Switch(cases)
    BY <1>2 DEF StartupTo
  <2>2. Pairs(cases, ToStartup[k], Enumerators[k])
    BY <1>2 DEF Pairs, ToStartup, Enumerators
  <2>3. \A e \in DOMAIN Enumerators[k] : ToStartup[k][e] \in 0 .. Room[k]
    BY <1>2 DEF ToStartup, Enumerators, Room
  <2>. HIDE DEF cases
  <2>. QED
    BY <2>1, <2>2, <2>3, SwitchPairs
<1>3. CASE k = "accel"
  <2>. DEFINE cases == {<<0, "G_2">>, <<2, "G_4">>, <<3, "G_8">>, <<1, "G_16">>}
  <2>1. StartupTo[k] = Switch(cases)
    BY <1>3 DEF StartupTo
  <2>2. Pairs(cases, ToStartup[k], Enumerators[k])
    BY <1>3 DEF Pairs, ToStartup, Enumerators
  <2>3. \A e \in DOMAIN Enumerators[k] : ToStartup[k][e] \in 0 .. Room[k]
    BY <1>3 DEF ToStartup, Enumerators, Room
  <2>. HIDE DEF cases
  <2>. QED
    BY <2>1, <2>2, <2>3, SwitchPairs
<1>4. CASE k = "incl"
  <2>. DEFINE cases == {<<0, "G_0_5">>, <<2, "G_1_0">>,
                       <<3, "G_2_0">>, <<1, "G_3_0">>}
  <2>1. StartupTo[k] = Switch(cases)
    BY <1>4 DEF StartupTo
  <2>2. Pairs(cases, ToStartup[k], Enumerators[k])
    BY <1>4 DEF Pairs, ToStartup, Enumerators
  <2>3. \A e \in DOMAIN Enumerators[k] : ToStartup[k][e] \in 0 .. Room[k]
    BY <1>4 DEF ToStartup, Enumerators, Room
  <2>. HIDE DEF cases
  <2>. QED
    BY <2>1, <2>2, <2>3, SwitchPairs
<1>5. CASE k = "filter"
  <2>. DEFINE cases == {<<0, "DISABLED">>, <<1, "LP_ONLY">>,
                       <<2, "HP_ONLY">>, <<3, "LP_AND_HP">>}
  <2>1. StartupTo[k] = Switch(cases)
    BY <1>5 DEF StartupTo
  <2>2. Pairs(cases, ToStartup[k], Enumerators[k])
    BY <1>5 DEF Pairs, ToStartup, Enumerators
  <2>3. \A e \in DOMAIN Enumerators[k] : ToStartup[k][e] \in 0 .. Room[k]
    BY <1>5 DEF ToStartup, Enumerators, Room
  <2>. HIDE DEF cases
  <2>. QED
    BY <2>1, <2>2, <2>3, SwitchPairs
<1>6. CASE k = "cutoff"
  <2>. DEFINE cases == {<<0, "C0">>, <<1, "C1">>, <<2, "C2">>, <<3, "C3">>,
                       <<4, "C4">>, <<5, "C5">>, <<6, "C6">>, <<7, "C7">>}
  <2>1. StartupTo[k] = Switch(cases)
    BY <1>6 DEF StartupTo
  <2>2. Pairs(cases, ToStartup[k], Enumerators[k])
    BY <1>6 DEF Pairs, ToStartup, Enumerators
  <2>3. \A e \in DOMAIN Enumerators[k] : ToStartup[k][e] \in 0 .. Room[k]
    BY <1>6 DEF ToStartup, Enumerators, Room
  <2>. HIDE DEF cases
  <2>. QED
    BY <2>1, <2>2, <2>3, SwitchPairs
<1>. QED
  BY <1>1, <1>2, <1>3, <1>4, <1>5, <1>6 DEF StartupKinds

\* What an argument means is the enumerator it was made from.
LEMMA MeaningTable ==
  ASSUME NEW k \in Kinds
  PROVE  \A e \in DOMAIN Enumerators[k] : Meaning(k, ToOscp[k][e]) = Enumerators[k][e]
<1>1. CASE k = "mode"
  <2>. DEFINE cases == {<<"I", "IDLE">>, <<"L", "LOW">>, <<"M", "MEDIUM">>}
  <2>1. \A arg : Meaning(k, arg) = Switch(cases)[arg]
    BY <1>1 DEF Meaning
  <2>2. Pairs(cases, ToOscp[k], Enumerators[k])
    BY <1>1 DEF Pairs, ToOscp, Enumerators
  <2>. HIDE DEF cases
  <2>. QED
    BY <2>1, <2>2, SwitchPairs
<1>2. CASE k = "gyro"
  <2>. DEFINE cases == {<<125, "DPS_125">>, <<250, "DPS_250">>, <<500, "DPS_500">>,
                        <<1000, "DPS_1000">>, <<2000, "DPS_2000">>, <<4000, "DPS_4000">>}
  <2>1. \A arg : Meaning(k, arg) = Switch(cases)[arg]
    BY <1>2 DEF Meaning
  <2>2. Pairs(cases, ToOscp[k], Enumerators[k])
    BY <1>2 DEF Pairs, ToOscp, Enumerators
  <2>. HIDE DEF cases
  <2>. QED
    BY <2>1, <2>2, SwitchPairs
<1>3. CASE k = "accel"
  <2>. DEFINE cases == {<<2, "G_2">>, <<4, "G_4">>, <<8, "G_8">>, <<16, "G_16">>}
  <2>1. \A arg : Meaning(k, arg) = Switch(cases)[arg]
    BY <1>3 DEF Meaning
  <2>2. Pairs(cases, ToOscp[k], Enumerators[k])
    BY <1>3 DEF Pairs, ToOscp, Enumerators
  <2>. HIDE DEF cases
  <2>. QED
    BY <2>1, <2>2, SwitchPairs
<1>4. CASE k = "incl"
  <2>. DEFINE cases == {<<5, "G_0_5">>, <<10, "G_1_0">>, <<20, "G_2_0">>, <<30, "G_3_0">>}
  <2>1. \A arg : Meaning(k, arg) = Switch(cases)[arg]
    BY <1>4 DEF Meaning
  <2>2. Pairs(cases, ToOscp[k], Enumerators[k])
    BY <1>4 DEF Pairs, ToOscp, Enumerators
  <2>. HIDE DEF cases
  <2>. QED
    BY <2>1, <2>2, SwitchPairs
<1>5. CASE k \notin {"mode", "gyro", "accel", "incl"}
  <2>1. \A arg : Meaning(k, arg) = Enumerators[k][arg + 1]
    BY <1>5 DEF Meaning
  <2>2. ASSUME NEW e \in DOMAIN Enumerators[k] PROVE ToOscp[k][e] + 1 = e
    <3>1. CASE k = "filter"
      BY <3>1 DEF ToOscp, Enumerators
    <3>2. CASE k = "cutoff"
      BY <3>2 DEF ToOscp, Enumerators
    <3>3. CASE k = "convention"
      BY <3>3 DEF ToOscp, Enumerators
    <3>4. CASE k = "heading"
      BY <3>4 DEF ToOscp, Enumerators
    <3>. QED
      BY <1>5, <3>1, <3>2, <3>3, <3>4 DEF Kinds
  <2>. QED
    BY <2>1, <2>2
<1>. QED
  BY <1>1, <1>2, <1>3, <1>4, <1>5

Registers == {"FCO", "FHS", "GFI", "GLP", "GHP", "AFI", "ALP", "AHP"}
Ranges    == {"DRI", "OM", "DRG", "DRA"}

\* The registers the parameters are written to are registers there are, and none
\* of the commands is taken for one.
LEMMA RegisterNames ==
  /\ \A r \in Registers : Contains(UsrReg, r)
  /\ \A r \in Ranges : ~Contains(UsrReg, r)
<1>1. Contains(UsrReg, "FCO") /\ Contains(UsrReg, "FHS")
  BY DEF Contains, UsrReg
<1>2. Contains(UsrReg, "GFI") /\ Contains(UsrReg, "GLP") /\ Contains(UsrReg, "GHP")
  BY DEF Contains, UsrReg
<1>3. Contains(UsrReg, "AFI") /\ Contains(UsrReg, "ALP") /\ Contains(UsrReg, "AHP")
  BY DEF Contains, UsrReg
<1>4. ~Contains(UsrReg, "DRI") /\ ~Contains(UsrReg, "OM")
  BY DEF Contains, UsrReg
<1>5. ~Contains(UsrReg, "DRG") /\ ~Contains(UsrReg, "DRA")
  BY DEF Contains, UsrReg
<1>. QED
  BY <1>1, <1>2, <1>3, <1>4, <1>5 DEF Registers, Ranges

\* The mnemonic found at the position of a register is the register's.
LEMMA RegisterWritten ==
  ASSUME NEW r \in Registers, NEW arg
  PROVE  WriteReg(r, arg) = [name |-> "WR", reg |-> r, arg |-> arg]
<1>1. UsrRegStr = UsrReg
  BY DEF UsrRegStr, UsrReg
<1>2. \E i \in DOMAIN UsrReg : UsrReg[i] = r
  <2>1. Contains(UsrReg, r)
    BY RegisterNames
  <2>2. DOMAIN UsrReg = 1 .. Len(UsrReg)
    BY DEF UsrReg
  <2>. QED
    BY <2>1, <2>2 DEF Contains
<1>3. UsrReg[CHOOSE i \in DOMAIN UsrReg : UsrReg[i] = r] = r
  BY <1>2
<1>. QED
  BY <1>1, <1>3 DEF WriteReg

\* What a command is to the parameter it sets.
IsSetting(c, p, e) ==
  /\ c = [name |-> c.name, reg |-> c.reg, arg |-> c.arg]
  /\ c.name \notin {"CONFIG", "EXIT", "EOFT", "DOFT"}
  /\ \A q \in Param : Parameters[q].by \in {c.name, c.reg} <=> q = p
  /\ c.arg = ToOscp[Kind(p)][e] /\ c.arg \in Encodable(c.name)
  /\ \A arg \in Understood(c) : \E d \in DOMAIN Enumerators[Kind(p)] : arg = ToOscp[Kind(p)][d]

\* The arguments of the command of a range or of the mode.
LEMMA RangeArguments ==
  /\ \A arg : arg \in Encodable("DRI") <=> \E e \in DOMAIN Enumerators["incl"] : arg = ToOscp["incl"][e]
  /\ \A arg : arg \in Encodable("OM") <=> \E e \in DOMAIN Enumerators["mode"] : arg = ToOscp["mode"][e]
  /\ \A arg : arg \in Encodable("DRG") <=> \E e \in DOMAIN Enumerators["gyro"] : arg = ToOscp["gyro"][e]
  /\ \A arg : arg \in Encodable("DRA") <=> \E e \in DOMAIN Enumerators["accel"] : arg = ToOscp["accel"][e]
<1>1. /\ Encodable("DRI") = {5, 10, 20, 30} /\ Encodable("OM") = {"I", "L", "M"}
      /\ Encodable("DRG") = {125, 250, 500, 1000, 2000, 4000} /\ Encodable("DRA") = {2, 4, 8, 16}
  BY DEF Encodable
<1>2. ToOscp["incl"] = <<5, 10, 20, 30>> /\ DOMAIN Enumerators["incl"] = 1 .. 4
  BY DEF ToOscp, Enumerators
<1>3. ToOscp["mode"] = <<"I", "L", "M">> /\ DOMAIN Enumerators["mode"] = 1 .. 3
  BY DEF ToOscp, Enumerators
<1>4. ToOscp["gyro"] = <<125, 250, 500, 1000, 2000, 4000>> /\ DOMAIN Enumerators["gyro"] = 1 .. 6
  BY DEF ToOscp, Enumerators
<1>5. ToOscp["accel"] = <<2, 4, 8, 16>> /\ DOMAIN Enumerators["accel"] = 1 .. 4
  BY DEF ToOscp, Enumerators
<1>6. \A arg : arg \in Encodable("DRI") <=> \E e \in DOMAIN Enumerators["incl"] : arg = ToOscp["incl"][e]
  BY <1>1, <1>2
<1>7. \A arg : arg \in Encodable("OM") <=> \E e \in DOMAIN Enumerators["mode"] : arg = ToOscp["mode"][e]
  BY <1>1, <1>3
<1>8. \A arg : arg \in Encodable("DRG") <=> \E e \in DOMAIN Enumerators["gyro"] : arg = ToOscp["gyro"][e]
  BY <1>1, <1>4
<1>9. \A arg : arg \in Encodable("DRA") <=> \E e \in DOMAIN Enumerators["accel"] : arg = ToOscp["accel"][e]
  BY <1>1, <1>5
<1>. QED
  BY <1>6, <1>7, <1>8, <1>9

\* The values of a register are the positions of the enumerators, from 0.
LEMMA RegisterArguments ==
  ASSUME NEW p \in Param, Parameters[p].by \in Registers
  PROVE  /\ Kind(p) \in {"filter", "cutoff", "convention", "heading"}
         /\ \A e \in DOMAIN Enumerators[Kind(p)] : ToOscp[Kind(p)][e] = e - 1
<1>1. Kind(p) \in {"filter", "cutoff", "convention", "heading"}
  BY ParamTable, ByTable DEF Registers
<1>2. ASSUME NEW k \in {"filter", "cutoff", "convention", "heading"}
      PROVE  \A e \in DOMAIN Enumerators[k] : ToOscp[k][e] = e - 1
  <2>1. CASE k = "filter"
    BY <2>1 DEF ToOscp, Enumerators
  <2>2. CASE k = "cutoff"
    BY <2>2 DEF ToOscp, Enumerators
  <2>3. CASE k = "convention"
    BY <2>3 DEF ToOscp, Enumerators
  <2>4. CASE k = "heading"
    BY <2>4 DEF ToOscp, Enumerators
  <2>. QED
    BY <2>1, <2>2, <2>3, <2>4
<1>. QED
  BY <1>1, <1>2

\* No two parameters are sent by the same command or register.
LEMMA ByUnique ==
  /\ \A p \in Param : Parameters[p].by \in Registers \cup Ranges /\ Kind(p) \in Kinds
  /\ \A p, q \in Param : Parameters[p].by = Parameters[q].by => p = q
<1>1. \A p \in Param : Parameters[p].by \in Registers \cup Ranges
  BY ParamTable, ByTable DEF Registers, Ranges
<1>2. \A p \in Param : Kind(p) \in Kinds
  BY ParamTable DEF Kinds
<1>3. \A p, q \in Param : Parameters[p].by = Parameters[q].by => p = q
  BY ParamTable, ByTable
<1>. QED
  BY <1>1, <1>2, <1>3

\* The command of a parameter sets that parameter and no other.
LEMMA SettingSets ==
  ASSUME NEW p \in Param, NEW e \in DOMAIN Enumerators[Kind(p)]
  PROVE  IsSetting(Setting(p, e), p, e)
<1>. DEFINE c   == Setting(p, e)
            arg == ToOscp[Kind(p)][e]
            by  == Parameters[p].by
<1>1. by \in Registers \cup Ranges /\ \A q \in Param : Parameters[q].by = by => q = p
  BY ByUnique
<1>2. CASE by \in Registers
  <2>1. c = [name |-> "WR", reg |-> by, arg |-> arg]
    <3>1. c = WriteReg(by, arg)
      BY <1>2, RegisterNames DEF Setting
    <3>. QED
      BY <1>2, <3>1, RegisterWritten
  <2>. HIDE DEF c, arg, by
  <2>2. c.name = "WR" /\ c.reg = by /\ c.arg = arg
    BY <2>1
  <2>3. ASSUME NEW q \in Param PROVE Parameters[q].by \in {c.name, c.reg} <=> q = p
    <3>1. Parameters[q].by # "WR"
      BY ByUnique DEF Registers, Ranges
    <3>. QED
      BY <1>1, <2>2, <3>1 DEF by
  <2>4. PICK n \in Nat : n = Len(Enumerators[Kind(p)]) /\ DOMAIN Enumerators[Kind(p)] = 1 .. n /\ n <= 8
    BY EnumTable, ByUnique
  <2>5. \A d \in 1 .. n : ToOscp[Kind(p)][d] = d - 1
    BY <1>2, <2>4, RegisterArguments DEF by
  <2>6. c.arg \in Encodable(c.name)
    <3>1. Encodable("WR") = 0 .. 7
      BY DEF Encodable
    <3>2. e - 1 \in 0 .. 7
      BY <2>4
    <3>. QED
      BY <2>2, <2>4, <2>5, <3>1, <3>2 DEF arg
  <2>7. ASSUME NEW a \in Understood(c)
        PROVE  \E d \in DOMAIN Enumerators[Kind(p)] : a = ToOscp[Kind(p)][d]
    <3>1. PICK q \in Param : /\ Parameters[q].by = c.reg
                             /\ a \in 0 .. Len(Enumerators[Kind(q)]) - 1
      BY <2>2 DEF Understood
    <3>2. q = p
      BY <1>1, <2>2, <3>1
    <3>3. a + 1 \in 1 .. n /\ (a + 1) - 1 = a
      BY <2>4, <3>1, <3>2
    <3>. QED
      BY <2>4, <2>5, <3>3
  <2>8. c = [name |-> c.name, reg |-> c.reg, arg |-> c.arg]
    BY <2>1, <2>2
  <2>. QED
    BY <2>2, <2>3, <2>6, <2>7, <2>8 DEF IsSetting, c, arg
<1>3. CASE by \in Ranges
  <2>1. c = [name |-> by, reg |-> "", arg |-> arg]
    BY <1>3, RegisterNames DEF Setting, Command
  <2>. HIDE DEF c, arg, by
  <2>2. c.name = by /\ c.reg = "" /\ c.arg = arg
    BY <2>1
  <2>3. ASSUME NEW q \in Param PROVE Parameters[q].by \in {c.name, c.reg} <=> q = p
    <3>1. Parameters[q].by # ""
      BY ByUnique DEF Registers, Ranges
    <3>. QED
      BY <1>1, <2>2, <3>1 DEF by
  <2>4. \A a : a \in Encodable(by) <=> \E d \in DOMAIN Enumerators[Kind(p)] : a = ToOscp[Kind(p)][d]
    BY <1>3, RangeArguments, ParamTable, ByTable DEF by, Ranges
  <2>5. Understood(c) = Encodable(by) /\ by \notin {"CONFIG", "EXIT", "EOFT", "DOFT"}
    BY <1>3, <2>2 DEF Understood, Ranges
  <2>6. arg \in Encodable(by)
    BY <2>4 DEF arg
  <2>8. c = [name |-> c.name, reg |-> c.reg, arg |-> c.arg]
    BY <2>1, <2>2
  <2>. QED
    BY <2>2, <2>3, <2>4, <2>5, <2>6, <2>8 DEF IsSetting, c, arg
<1>. QED
  BY <1>1, <1>2, <1>3

-----------------------------------------------------------------------------
(* The sequence of commands                                                *)

FrameKind == {"R", "E", "Q", "M", "G"}
Needed(topics) == UNION {Needs(topic) : topic \in topics}

\* What stands in a sequence.
In(f, s) == \E j \in 1 .. Len(s) : s[j] = f

\* Two sequences one after the other.
LEMMA InConcat ==
  ASSUME NEW s \in Seq(FrameKind), NEW t \in Seq(FrameKind)
  PROVE  /\ s \o t \in Seq(FrameKind)
         /\ \A f : In(f, s \o t) <=> In(f, s) \/ In(f, t)
<1>1. /\ s \o t \in Seq(FrameKind) /\ Len(s \o t) = Len(s) + Len(t)
      /\ \A i \in 1 .. Len(s) + Len(t) :
           (s \o t)[i] = IF i <= Len(s) THEN s[i] ELSE t[i - Len(s)]
  BY ConcatProperties
<1>2. PICK m \in Nat, n \in Nat : m = Len(s) /\ n = Len(t)
  OBVIOUS
<1>3. ASSUME NEW f, In(f, s \o t) PROVE In(f, s) \/ In(f, t)
  <2>1. PICK i \in 1 .. m + n : (s \o t)[i] = f
    BY <1>1, <1>2, <1>3 DEF In
  <2>2. CASE i <= m
    BY <1>1, <1>2, <2>1, <2>2 DEF In
  <2>3. CASE ~(i <= m)
    <3>1. i - m \in 1 .. n /\ t[i - m] = f
      BY <1>1, <1>2, <2>1, <2>3
    <3>. QED
      BY <1>2, <3>1 DEF In
  <2>. QED
    BY <2>2, <2>3
<1>4. ASSUME NEW f, In(f, s) PROVE In(f, s \o t)
  <2>1. PICK i \in 1 .. m : s[i] = f
    BY <1>2, <1>4 DEF In
  <2>2. i \in 1 .. m + n /\ (s \o t)[i] = f
    BY <1>1, <1>2, <2>1
  <2>. QED
    BY <1>1, <1>2, <2>2 DEF In
<1>5. ASSUME NEW f, In(f, t) PROVE In(f, s \o t)
  <2>1. PICK i \in 1 .. n : t[i] = f
    BY <1>2, <1>5 DEF In
  <2>2. i + m \in 1 .. m + n /\ ~(i + m <= m) /\ (i + m) - m = i
    BY <1>2
  <2>3. (s \o t)[i + m] = f
    BY <1>1, <1>2, <2>1, <2>2
  <2>. QED
    BY <1>1, <1>2, <2>2, <2>3 DEF In
<1>. QED
  BY <1>1, <1>3, <1>4, <1>5

\* A frame that is there on a condition.
LEMMA InOptional ==
  ASSUME NEW f \in FrameKind, NEW b \in BOOLEAN
  PROVE  /\ (IF b THEN <<f>> ELSE <<>>) \in Seq(FrameKind)
         /\ \A g : In(g, IF b THEN <<f>> ELSE <<>>) <=> b /\ g = f
<1>1. CASE b
  <2>1. <<f>> \in Seq(FrameKind) /\ Len(<<f>>) = 1 /\ <<f>>[1] = f
    OBVIOUS
  <2>. QED
    BY <1>1, <2>1 DEF In
<1>2. CASE ~b
  <2>1. <<>> \in Seq(FrameKind) /\ Len(<<>>) = 0
    OBVIOUS
  <2>. QED
    BY <1>2, <2>1 DEF In
<1>. QED
  BY <1>1, <1>2

\* The frames enabled are those the topics' messages are made of.
LEMMA FramesNeeded ==
  ASSUME NEW topics \in SUBSET Topic
  PROVE  /\ Frames(topics) \in Seq(FrameKind)
         /\ \A f \in FrameKind : In(f, Frames(topics)) <=> f \in Needed(topics)
<1>. DEFINE raw   == topics \cap {"raw", "standard"} # {}
            euler == "euler" \in topics
            quat  == topics \cap {"quat", "standard"} # {}
            rot   == "rot" \in topics
            gnss  == "gnss" \in topics
            Opt(f, b) == IF b THEN <<f>> ELSE <<>>
<1>1. /\ Frames(topics) = (((Opt("R", raw) \o Opt("E", euler)) \o Opt("Q", quat))
                            \o Opt("M", rot)) \o Opt("G", gnss)
      /\ raw \in BOOLEAN /\ euler \in BOOLEAN /\ quat \in BOOLEAN /\ rot \in BOOLEAN
      /\ gnss \in BOOLEAN
  BY DEF Frames
<1>2. /\ raw <=> "R" \in Needed(topics)
      /\ euler <=> "E" \in Needed(topics)
      /\ quat <=> "Q" \in Needed(topics)
      /\ rot <=> "M" \in Needed(topics)
      /\ gnss <=> "G" \in Needed(topics)
  <2>1. /\ Needs("raw") = {"R"} /\ Needs("euler") = {"E"} /\ Needs("quat") = {"Q"}
        /\ Needs("rot") = {"M"} /\ Needs("gnss") = {"G"} /\ Needs("standard") = {"R", "Q"}
    BY DEF Needs
  <2>2. \A f : f \in Needed(topics) <=> \E t \in topics : f \in Needs(t)
    BY DEF Needed
  <2>3. \A t \in topics : t \in {"raw", "euler", "quat", "rot", "gnss", "standard"}
    BY DEF Topic
  <2>4. raw <=> "R" \in Needed(topics)
    BY <2>1, <2>2, <2>3
  <2>5. euler <=> "E" \in Needed(topics)
    BY <2>1, <2>2, <2>3
  <2>6. quat <=> "Q" \in Needed(topics)
    BY <2>1, <2>2, <2>3
  <2>7. rot <=> "M" \in Needed(topics)
    BY <2>1, <2>2, <2>3
  <2>8. gnss <=> "G" \in Needed(topics)
    BY <2>1, <2>2, <2>3
  <2>. QED
    BY <2>4, <2>5, <2>6, <2>7, <2>8
<1>3. /\ Opt("R", raw) \in Seq(FrameKind) /\ \A g : In(g, Opt("R", raw)) <=> raw /\ g = "R"
      /\ Opt("E", euler) \in Seq(FrameKind) /\ \A g : In(g, Opt("E", euler)) <=> euler /\ g = "E"
      /\ Opt("Q", quat) \in Seq(FrameKind) /\ \A g : In(g, Opt("Q", quat)) <=> quat /\ g = "Q"
      /\ Opt("M", rot) \in Seq(FrameKind) /\ \A g : In(g, Opt("M", rot)) <=> rot /\ g = "M"
      /\ Opt("G", gnss) \in Seq(FrameKind) /\ \A g : In(g, Opt("G", gnss)) <=> gnss /\ g = "G"
  <2>1. \A f \in FrameKind, b \in BOOLEAN :
          Opt(f, b) \in Seq(FrameKind) /\ \A g : In(g, Opt(f, b)) <=> b /\ g = f
    BY InOptional
  <2>2. "R" \in FrameKind /\ "E" \in FrameKind /\ "Q" \in FrameKind /\ "M" \in FrameKind
        /\ "G" \in FrameKind
    BY DEF FrameKind
  <2>. HIDE DEF Opt, raw, euler, quat, rot, gnss
  <2>. QED
    BY <1>1, <2>1, <2>2
<1>. HIDE DEF Opt, raw, euler, quat, rot, gnss
<1>4. PICK s1 \in Seq(FrameKind) :
        /\ s1 = Opt("R", raw) \o Opt("E", euler)
        /\ \A f : In(f, s1) <=> (raw /\ f = "R") \/ (euler /\ f = "E")
  <2>1. /\ Opt("R", raw) \o Opt("E", euler) \in Seq(FrameKind)
        /\ \A f : In(f, Opt("R", raw) \o Opt("E", euler)) <=> In(f, Opt("R", raw)) \/ In(f, Opt("E", euler))
    BY <1>3, InConcat
  <2>. QED
    BY <1>3, <2>1, Zenon
<1>5. PICK s2 \in Seq(FrameKind) :
        /\ s2 = s1 \o Opt("Q", quat)
        /\ \A f : In(f, s2) <=> In(f, s1) \/ (quat /\ f = "Q")
  <2>1. /\ s1 \o Opt("Q", quat) \in Seq(FrameKind)
        /\ \A f : In(f, s1 \o Opt("Q", quat)) <=> In(f, s1) \/ In(f, Opt("Q", quat))
    BY <1>3, InConcat
  <2>. QED
    BY <1>3, <2>1, Zenon
<1>6. PICK s3 \in Seq(FrameKind) :
        /\ s3 = s2 \o Opt("M", rot)
        /\ \A f : In(f, s3) <=> In(f, s2) \/ (rot /\ f = "M")
  <2>1. /\ s2 \o Opt("M", rot) \in Seq(FrameKind)
        /\ \A f : In(f, s2 \o Opt("M", rot)) <=> In(f, s2) \/ In(f, Opt("M", rot))
    BY <1>3, InConcat
  <2>. QED
    BY <1>3, <2>1, Zenon
<1>7. PICK s4 \in Seq(FrameKind) :
        /\ s4 = s3 \o Opt("G", gnss)
        /\ \A f : In(f, s4) <=> In(f, s3) \/ (gnss /\ f = "G")
  <2>1. /\ s3 \o Opt("G", gnss) \in Seq(FrameKind)
        /\ \A f : In(f, s3 \o Opt("G", gnss)) <=> In(f, s3) \/ In(f, Opt("G", gnss))
    BY <1>3, InConcat
  <2>. QED
    BY <1>3, <2>1, Zenon
<1>8. Frames(topics) = s4
  BY <1>1, <1>4, <1>5, <1>6, <1>7, Zenon
<1>9. ASSUME NEW f \in FrameKind PROVE In(f, s4) <=> f \in Needed(topics)
  <2>1. In(f, s4) <=> \/ (raw /\ f = "R") \/ (euler /\ f = "E") \/ (quat /\ f = "Q")
                      \/ (rot /\ f = "M") \/ (gnss /\ f = "G")
    BY <1>4, <1>5, <1>6, <1>7, Zenon
  <2>. QED
    BY <1>2, <2>1 DEF FrameKind
<1>. QED
  BY <1>8, <1>9

\* The place of each parameter, and the frames disabled, in the sequence.
Slot ==
  [incl_range |-> 2, operating_mode |-> 7, gyro_range |-> 8, accel_range |-> 9,
   ahrs_convention |-> 10, ahrs_heading_source |-> 11,
   gyro_filter_mode |-> 12, gyro_lpf |-> 13, gyro_hpf |-> 14,
   accel_filter_mode |-> 15, accel_lpf |-> 16, accel_hpf |-> 17]
Disabled == <<"R", "E", "Q", "M">>

Ordered(commands, cfg, frames) ==
  /\ Len(commands) = 17 + Len(frames)
  /\ commands[1] = Command("CONFIG", "")
  /\ \A p \in Param : commands[Slot[p]] = Setting(p, cfg[p])
  /\ \A i \in 1 .. 4 : commands[2 + i] = Command("DOFT", Disabled[i])
  /\ \A j \in 1 .. Len(frames) : commands[17 + j] = Command("EOFT", frames[j])

\* Each parameter has a place, and each place a parameter or a frame.
LEMMA SlotTable ==
  /\ \A p \in Param : Slot[p] \in {2} \cup 7 .. 17
  /\ \A i \in {2} \cup 7 .. 17 : \E p \in Param : Slot[p] = i
  /\ \A p, q \in Param : Slot[p] = Slot[q] => p = q
<1>1. \A p \in Param : Slot[p] \in {2} \cup 7 .. 17
  BY ParamTable DEF Slot
<1>2. \A i \in {2} \cup 7 .. 17 : \E p \in Param : Slot[p] = i
  BY ParamTable DEF Slot
<1>3. \A p, q \in Param : Slot[p] = Slot[q] => p = q
  BY ParamTable DEF Slot
<1>. QED
  BY <1>1, <1>2, <1>3

\* Two sequences one after the other, by position.
LEMMA Joined ==
  ASSUME NEW S, NEW s \in Seq(S), NEW t \in Seq(S)
  PROVE  /\ s \o t \in Seq(S) /\ Len(s \o t) = Len(s) + Len(t)
         /\ \A i \in 1 .. Len(s) : (s \o t)[i] = s[i]
         /\ \A i \in 1 .. Len(t) : (s \o t)[Len(s) + i] = t[i]
<1>1. /\ s \o t \in Seq(S) /\ Len(s \o t) = Len(s) + Len(t)
      /\ \A i \in 1 .. Len(s) + Len(t) :
           (s \o t)[i] = IF i <= Len(s) THEN s[i] ELSE t[i - Len(s)]
  BY ConcatProperties
<1>2. PICK m \in Nat, n \in Nat : m = Len(s) /\ n = Len(t)
  OBVIOUS
<1>3. PICK st : st = s \o t
  OBVIOUS
<1>4. \A i \in 1 .. m + n : st[i] = IF i <= m THEN s[i] ELSE t[i - m]
  BY <1>1, <1>2, <1>3
<1>5. \A i \in 1 .. m : st[i] = s[i]
  BY <1>4
<1>6. ASSUME NEW i \in 1 .. n PROVE st[m + i] = t[i]
  <2>1. m + i \in 1 .. m + n /\ ~(m + i <= m) /\ (m + i) - m = i
    OBVIOUS
  <2>. QED
    BY <1>4, <2>1
<1>. QED
  BY <1>1, <1>2, <1>3, <1>5, <1>6

\* Four of them.
IsJoin(all, a, b, c, d) == all = ((a \o b) \o c) \o d

LEMMA FourJoined ==
  ASSUME NEW S, NEW a \in Seq(S), NEW b \in Seq(S), NEW c \in Seq(S), NEW d \in Seq(S),
         NEW all, IsJoin(all, a, b, c, d)
  PROVE  /\ Len(all) = Len(a) + Len(b) + Len(c) + Len(d)
         /\ \A i \in 1 .. Len(a) : all[i] = a[i]
         /\ \A i \in 1 .. Len(b) : all[Len(a) + i] = b[i]
         /\ \A i \in 1 .. Len(c) : all[Len(a) + Len(b) + i] = c[i]
         /\ \A i \in 1 .. Len(d) : all[Len(a) + Len(b) + Len(c) + i] = d[i]
<1>1. PICK na \in Nat, nb \in Nat, nc \in Nat, nd \in Nat :
        na = Len(a) /\ nb = Len(b) /\ nc = Len(c) /\ nd = Len(d)
  OBVIOUS
<1>2. PICK ab \in Seq(S) : ab = a \o b
  BY Joined
<1>3. PICK abc \in Seq(S) : abc = ab \o c
  BY Joined
<1>4. all = abc \o d
  BY <1>2, <1>3, Zenon DEF IsJoin
<1>5. /\ Len(ab) = na + nb /\ \A i \in 1 .. na : ab[i] = a[i]
      /\ \A i \in 1 .. nb : ab[na + i] = b[i]
  <2>1. /\ Len(a \o b) = Len(a) + Len(b) /\ \A i \in 1 .. Len(a) : (a \o b)[i] = a[i]
        /\ \A i \in 1 .. Len(b) : (a \o b)[Len(a) + i] = b[i]
    BY Joined
  <2>. QED
    BY <1>1, <1>2, <2>1, Zenon
<1>6. /\ Len(abc) = (na + nb) + nc /\ \A i \in 1 .. na + nb : abc[i] = ab[i]
      /\ \A i \in 1 .. nc : abc[(na + nb) + i] = c[i]
  <2>1. /\ Len(ab \o c) = Len(ab) + Len(c) /\ \A i \in 1 .. Len(ab) : (ab \o c)[i] = ab[i]
        /\ \A i \in 1 .. Len(c) : (ab \o c)[Len(ab) + i] = c[i]
    BY Joined
  <2>. QED
    BY <1>1, <1>3, <1>5, <2>1, Zenon
<1>7. /\ Len(all) = ((na + nb) + nc) + nd /\ \A i \in 1 .. (na + nb) + nc : all[i] = abc[i]
      /\ \A i \in 1 .. nd : all[((na + nb) + nc) + i] = d[i]
  <2>1. /\ Len(abc \o d) = Len(abc) + Len(d) /\ \A i \in 1 .. Len(abc) : (abc \o d)[i] = abc[i]
        /\ \A i \in 1 .. Len(d) : (abc \o d)[Len(abc) + i] = d[i]
    BY Joined
  <2>. QED
    BY <1>1, <1>4, <1>6, <2>1, Zenon
<1>8. \A i \in 1 .. na : all[i] = a[i]
  <2>. SUFFICES ASSUME NEW i \in 1 .. na PROVE all[i] = a[i]
    OBVIOUS
  <2>1. i \in 1 .. na + nb /\ i \in 1 .. (na + nb) + nc
    OBVIOUS
  <2>. QED
    BY <1>5, <1>6, <1>7, <2>1, Zenon
<1>9. \A i \in 1 .. nb : all[na + i] = b[i]
  <2>. SUFFICES ASSUME NEW i \in 1 .. nb PROVE all[na + i] = b[i]
    OBVIOUS
  <2>1. na + i \in 1 .. na + nb /\ na + i \in 1 .. (na + nb) + nc
    OBVIOUS
  <2>. QED
    BY <1>5, <1>6, <1>7, <2>1, Zenon
<1>10. \A i \in 1 .. nc : all[(na + nb) + i] = c[i]
  <2>. SUFFICES ASSUME NEW i \in 1 .. nc PROVE all[(na + nb) + i] = c[i]
    OBVIOUS
  <2>1. (na + nb) + i \in 1 .. (na + nb) + nc
    OBVIOUS
  <2>. QED
    BY <1>6, <1>7, <2>1, Zenon
<1>. QED
  BY <1>1, <1>7, <1>8, <1>9, <1>10, Zenon

\* What configure_imu sends, command by command.
LEMMA CommandsOrdered ==
  ASSUME NEW cfg, NEW topics \in SUBSET Topic
  PROVE  Ordered(Commands(cfg, topics), cfg, Frames(topics))
<1>. DEFINE Set(p) == Setting(p, cfg[p])
            Of(name, frames) == [i \in DOMAIN frames |-> Command(name, frames[i])]
            a == <<Command("CONFIG", ""), Set("incl_range")>>
            b == Of("DOFT", Disabled)
            c == <<Set("operating_mode"), Set("gyro_range"), Set("accel_range"),
                   Set("ahrs_convention"), Set("ahrs_heading_source"),
                   Set("gyro_filter_mode"), Set("gyro_lpf"), Set("gyro_hpf"),
                   Set("accel_filter_mode"), Set("accel_lpf"), Set("accel_hpf")>>
            d == Of("EOFT", Frames(topics))
            S == {Command("CONFIG", "")} \cup {Set(p) : p \in Param}
                   \cup {Command("DOFT", f) : f \in FrameKind}
                   \cup {Command("EOFT", f) : f \in FrameKind}
<1>1. PICK all : all = Commands(cfg, topics)
  OBVIOUS
<1>2. IsJoin(all, a, b, c, d)
  BY <1>1 DEF Commands, Disabled, IsJoin
<1>3. PICK fs \in Seq(FrameKind) : fs = Frames(topics)
  BY FramesNeeded
<1>4. PICK n \in Nat : n = Len(fs) /\ DOMAIN fs = 1 .. n
  OBVIOUS
<1>. HIDE DEF Set
<1>5. \A p \in Param : Set(p) \in S
  OBVIOUS
<1>6. Command("CONFIG", "") \in S
  OBVIOUS
<1>7. \A f \in FrameKind : Command("DOFT", f) \in S /\ Command("EOFT", f) \in S
  OBVIOUS
<1>. HIDE DEF S
<1>8. a \in Seq(S) /\ Len(a) = 2 /\ a[1] = Command("CONFIG", "") /\ a[2] = Set("incl_range")
  <2>1. Set("incl_range") \in S
    BY <1>5, ParamTable
  <2>2. \A u, v \in S : /\ <<u, v>> \in Seq(S) /\ Len(<<u, v>>) = 2
                        /\ <<u, v>>[1] = u /\ <<u, v>>[2] = v
    OBVIOUS
  <2>. QED
    BY <1>6, <2>1, <2>2
<1>9. /\ b \in Seq(S) /\ Len(b) = 4
      /\ \A i \in 1 .. 4 : b[i] = Command("DOFT", Disabled[i])
  <2>1. DOMAIN Disabled = 1 .. 4 /\ \A i \in 1 .. 4 : Disabled[i] \in FrameKind
    BY DEF Disabled, FrameKind
  <2>2. \A i \in 1 .. 4 : Command("DOFT", Disabled[i]) \in S
    BY <1>7, <2>1
  <2>3. b = [i \in 1 .. 4 |-> Command("DOFT", Disabled[i])]
    BY <2>1
  <2>. HIDE DEF b
  <2>. QED
    BY <2>2, <2>3
<1>10. /\ c \in Seq(S) /\ Len(c) = 11
      /\ c[1] = Set("operating_mode") /\ c[2] = Set("gyro_range") /\ c[3] = Set("accel_range")
      /\ c[4] = Set("ahrs_convention") /\ c[5] = Set("ahrs_heading_source")
      /\ c[6] = Set("gyro_filter_mode") /\ c[7] = Set("gyro_lpf") /\ c[8] = Set("gyro_hpf")
      /\ c[9] = Set("accel_filter_mode") /\ c[10] = Set("accel_lpf") /\ c[11] = Set("accel_hpf")
  <2>1. /\ Set("operating_mode") \in S /\ Set("gyro_range") \in S /\ Set("accel_range") \in S
        /\ Set("ahrs_convention") \in S /\ Set("ahrs_heading_source") \in S
        /\ Set("gyro_filter_mode") \in S /\ Set("gyro_lpf") \in S /\ Set("gyro_hpf") \in S
        /\ Set("accel_filter_mode") \in S /\ Set("accel_lpf") \in S /\ Set("accel_hpf") \in S
    BY <1>5, ParamTable
  <2>. QED
    BY <2>1
<1>11. /\ d \in Seq(S) /\ Len(d) = n
       /\ \A j \in 1 .. n : d[j] = Command("EOFT", fs[j])
  <2>1. \A j \in 1 .. n : fs[j] \in FrameKind
    BY <1>4, ElementOfSeq
  <2>2. \A j \in 1 .. n : Command("EOFT", fs[j]) \in S
    BY <1>7, <2>1
  <2>3. d = [j \in 1 .. n |-> Command("EOFT", fs[j])]
    BY <1>3, <1>4
  <2>. HIDE DEF d
  <2>. QED
    BY <2>2, <2>3
<1>. HIDE DEF a, b, c, d, Of
<1>12. /\ Len(all) = ((2 + 4) + 11) + n
       /\ \A i \in 1 .. 2 : all[i] = a[i]
       /\ \A i \in 1 .. 4 : all[2 + i] = b[i]
       /\ \A i \in 1 .. 11 : all[(2 + 4) + i] = c[i]
       /\ \A i \in 1 .. n : all[((2 + 4) + 11) + i] = d[i]
  <2>1. /\ a \in Seq(S) /\ b \in Seq(S) /\ c \in Seq(S) /\ d \in Seq(S)
    BY <1>8, <1>9, <1>10, <1>11
  <2>2. /\ Len(all) = Len(a) + Len(b) + Len(c) + Len(d)
        /\ \A i \in 1 .. Len(a) : all[i] = a[i]
        /\ \A i \in 1 .. Len(b) : all[Len(a) + i] = b[i]
        /\ \A i \in 1 .. Len(c) : all[Len(a) + Len(b) + i] = c[i]
        /\ \A i \in 1 .. Len(d) : all[Len(a) + Len(b) + Len(c) + i] = d[i]
    BY <1>2, <2>1, FourJoined
  <2>3. Len(a) = 2 /\ Len(b) = 4 /\ Len(c) = 11 /\ Len(d) = n
    BY <1>8, <1>9, <1>10, <1>11
  <2>. QED
    BY <2>2, <2>3, Zenon
<1>13. all[1] = Command("CONFIG", "") /\ all[2] = Set("incl_range")
  <2>1. 1 \in 1 .. 2 /\ 2 \in 1 .. 2
    OBVIOUS
  <2>. QED
    BY <1>8, <1>12, <2>1, Zenon
<1>14. \A i \in 1 .. 4 : all[2 + i] = Command("DOFT", Disabled[i])
  BY <1>9, <1>12, Zenon
<1>15. \A i \in 1 .. 11 : all[6 + i] = c[i]
  BY <1>12
<1>16. \A j \in 1 .. n : all[17 + j] = Command("EOFT", fs[j])
  <2>1. \A j \in 1 .. n : all[17 + j] = d[j]
    BY <1>12
  <2>. QED
    BY <1>11, <2>1
<1>17. /\ all[7] = c[1] /\ all[8] = c[2] /\ all[9] = c[3] /\ all[10] = c[4] /\ all[11] = c[5]
       /\ all[12] = c[6] /\ all[13] = c[7] /\ all[14] = c[8] /\ all[15] = c[9]
       /\ all[16] = c[10] /\ all[17] = c[11]
  BY <1>15
<1>18. \A p \in Param : all[Slot[p]] = Set(p)
  <2>1. /\ all[7] = Set("operating_mode") /\ all[8] = Set("gyro_range")
        /\ all[9] = Set("accel_range") /\ all[10] = Set("ahrs_convention")
        /\ all[11] = Set("ahrs_heading_source") /\ all[12] = Set("gyro_filter_mode")
        /\ all[13] = Set("gyro_lpf") /\ all[14] = Set("gyro_hpf")
        /\ all[15] = Set("accel_filter_mode") /\ all[16] = Set("accel_lpf")
        /\ all[17] = Set("accel_hpf") /\ all[2] = Set("incl_range")
    BY <1>10, <1>13, <1>17, Zenon
  <2>2. /\ Slot["incl_range"] = 2 /\ Slot["operating_mode"] = 7 /\ Slot["gyro_range"] = 8
        /\ Slot["accel_range"] = 9 /\ Slot["ahrs_convention"] = 10
        /\ Slot["ahrs_heading_source"] = 11 /\ Slot["gyro_filter_mode"] = 12
        /\ Slot["gyro_lpf"] = 13 /\ Slot["gyro_hpf"] = 14 /\ Slot["accel_filter_mode"] = 15
        /\ Slot["accel_lpf"] = 16 /\ Slot["accel_hpf"] = 17
    BY DEF Slot
  <2>. QED
    BY <2>1, <2>2, ParamTable, ZenonT(30)
<1>19. Len(all) = 17 + Len(fs)
  BY <1>4, <1>12
<1>20. \A p \in Param : all[Slot[p]] = Setting(p, cfg[p])
  BY <1>18 DEF Set
<1>21. \A j \in 1 .. Len(fs) : all[17 + j] = Command("EOFT", fs[j])
  BY <1>4, <1>16
<1>. QED
  BY <1>1, <1>3, <1>13, <1>14, <1>19, <1>20, <1>21, Zenon DEF Ordered

-----------------------------------------------------------------------------
(* The inductive invariant                                                 *)

\* The code of a startup frame that shows a text.
CodeFor(p, text) == CHOOSE c \in DOMAIN StartupTo[Kind(p)] : StartupTo[Kind(p)][c] = text

\* The command that is sent last.
Total == 17 + Len(Frames(launch.topics))

\* The enumerator of each parameter is the one wanted.
ConfigWanted ==
  pc \notin {"parse", "threw"} =>
    \A p \in Param : Enumerators[Kind(p)][config[p]] = Wanted(p)

\* How far configure_imu is.
SentInOrder ==
  /\ sent \in 0 .. Total
  /\ pc \in {"parse", "threw", "open", "reset"} => sent = 0
  /\ pc \in {"clear", "suf", "exit", "verify"} => sent = Total
  /\ pc = "returned" => sent \in {0, Total}

\* The second startup frame shows the settings of the unit: it is asked for when
\* the first is forgotten and no setting is changed any more.
Shown ==
  /\ pc \in {"parse", "threw", "open", "reset", "suf"} => ~startup_received
  /\ pc \in {"exit", "verify", "returned"} /\ startup_received =>
       \A p \in Verified : startup_info[p] = CodeFor(p, unit[p])

Published == publish_enable => pc = "returned" /\ startup_received /\ Matches

\* An enumerator that its parameter's description does not except.
Described(p, e) == Enumerators[Kind(p)][e] \notin Excepted(p)

\* What the first n commands have done: the settings asked for are the unit's, but
\* for those a description excepts; of the frames disabled only those enabled since
\* are sent, and those enabled are.
Done(n, settings, cfg, sends, frames) ==
  /\ \A p \in Param : Slot[p] <= n /\ Described(p, cfg[p]) =>
       settings[p] = Enumerators[Kind(p)][cfg[p]]
  /\ \A i \in 1 .. 4 : n >= 2 + i /\ Disabled[i] \in sends =>
       \E j \in 1 .. Len(frames) : 17 + j <= n /\ frames[j] = Disabled[i]
  /\ \A j \in 1 .. Len(frames) : 17 + j <= n => frames[j] \in sends

\* The commands have done that, when none was lost or altered.
Undisturbed == Connected /\ faults = 0

Progress ==
  Undisturbed =>
    /\ Done(sent, unit, config, streams, Frames(launch.topics))
    /\ sent > 0 /\ pc \notin {"verify", "returned"} => state = "CONFIG"
    /\ pc \in {"exit", "verify"} => startup_received
    /\ pc = "returned" /\ sent > 0 /\ (\A p \in Param : Described(p, config[p])) =>
         publish_enable

IInv == /\ TypeOK /\ launch \in Launches
        /\ ConfigWanted /\ SentInOrder /\ Shown /\ Published /\ Progress

\* The texts of the enumerators are those of the defaults: Wanted is what
\* get_parameter returns.
LEMMA WantedText ==
  ASSUME NEW p \in Param
  PROVE  GetParameter(p) = Wanted(p)
<1>1. TextOf = Enumerators
  BY DEF TextOf, Enumerators
<1>. QED
  BY <1>1 DEF GetParameter, Wanted, Declared

\* A text that parses is the text of the enumerator it parses to, and of no other.
LEMMA ParsedText ==
  ASSUME NEW p \in Param, NEW text
  PROVE  /\ Parses(p, text) <=> \E e \in DOMAIN Enumerators[Kind(p)] : Enumerators[Kind(p)][e] = text
         /\ Parses(p, text) => /\ Parse(p, text) \in DOMAIN Enumerators[Kind(p)]
                               /\ Enumerators[Kind(p)][Parse(p, text)] = text
<1>1. DOMAIN Enumerators[Kind(p)] = 1 .. Len(Enumerators[Kind(p)])
  BY ByUnique, EnumTable
<1>2. Parses(p, text) <=> \E e \in DOMAIN Enumerators[Kind(p)] : Enumerators[Kind(p)][e] = text
  BY <1>1 DEF Parses, Contains
<1>. QED
  BY <1>2 DEF Parse

\* The parameters that a startup frame shows.
LEMMA VerifiedTable ==
  /\ Verified \subseteq Param
  /\ Verified = {"incl_range", "operating_mode", "gyro_range", "accel_range",
                 "gyro_filter_mode", "gyro_lpf", "gyro_hpf",
                 "accel_filter_mode", "accel_lpf", "accel_hpf"}
  /\ \A p \in Verified : Kind(p) \in StartupKinds /\ Kind(p) \in Kinds
<1>1. DOMAIN ToStartup = StartupKinds
  BY DEF ToStartup, StartupKinds
<1>2. Verified \subseteq Param /\ \A p \in Verified : Kind(p) \in StartupKinds
  BY <1>1 DEF Verified
<1>3. StartupKinds = {"mode", "gyro", "accel", "incl", "filter", "cutoff"}
  BY DEF StartupKinds
<1>4. ASSUME NEW p PROVE p \in Verified <=>
        p \in {"incl_range", "operating_mode", "gyro_range", "accel_range",
                 "gyro_filter_mode", "gyro_lpf", "gyro_hpf",
                 "accel_filter_mode", "accel_lpf", "accel_hpf"}
  BY <1>1, <1>3, ParamTable DEF Verified
<1>. QED
  BY <1>2, <1>4, ByUnique

\* The code that shows a text is the code of its enumerator, and of no other.
LEMMA CodeShows ==
  ASSUME NEW p \in Verified, NEW text, Parses(p, text)
  PROVE  /\ CodeFor(p, text) \in DOMAIN StartupTo[Kind(p)]
         /\ CodeFor(p, text) \in 0 .. Room[Kind(p)]
         /\ \A e \in DOMAIN Enumerators[Kind(p)] :
              ToStartup[Kind(p)][e] = CodeFor(p, text) <=> Enumerators[Kind(p)][e] = text
<1>. DEFINE k == Kind(p)
            c == CodeFor(p, text)
<1>1. p \in Param /\ k \in StartupKinds /\ k \in Kinds
  BY VerifiedTable
<1>2. PICK e \in DOMAIN Enumerators[k] : Enumerators[k][e] = text
  BY <1>1, ParsedText
<1>. HIDE DEF k
<1>3. ToStartup[k][e] \in DOMAIN StartupTo[k] /\ StartupTo[k][ToStartup[k][e]] = text
  BY <1>1, <1>2, StartupTable
<1>4. c \in DOMAIN StartupTo[k] /\ StartupTo[k][c] = text
  BY <1>3 DEF CodeFor, k
<1>. HIDE DEF c
<1>5. c \in 0 .. Room[k]
  BY <1>1, <1>4, StartupTable
<1>6. PICK d \in DOMAIN Enumerators[k] : c = ToStartup[k][d]
  BY <1>1, <1>4, StartupTable
<1>7. Enumerators[k][d] = text
  BY <1>1, <1>4, <1>6, StartupTable
<1>8. ASSUME NEW f \in DOMAIN Enumerators[k]
      PROVE  ToStartup[k][f] = c <=> Enumerators[k][f] = text
  <2>1. CASE ToStartup[k][f] = c
    <3>1. StartupTo[k][ToStartup[k][f]] = Enumerators[k][f]
      BY <1>1, StartupTable
    <3>. QED
      BY <1>4, <2>1, <3>1
  <2>2. CASE Enumerators[k][f] = text
    <3>1. f = d
      BY <1>1, <1>7, <2>2, EnumTable
    <3>. QED
      BY <1>6, <2>2, <3>1
  <2>. QED
    BY <2>1, <2>2
<1>. QED
  BY <1>4, <1>5, <1>8 DEF k, c

\* The fields of the bytes of a startup frame.
LEMMA TwoFields ==
  ASSUME NEW lo \in 0 .. 15, NEW hi \in Nat
  PROVE  (lo + 16 * hi) % 16 = lo /\ (lo + 16 * hi) \div 16 = hi
OBVIOUS

LEMMA ThreeFields ==
  ASSUME NEW mode \in 0 .. 3, NEW lpf \in 0 .. 7, NEW hpf \in 0 .. 7
  PROVE  LET byte == mode + 4 * lpf + 32 * hpf
         IN  byte % 4 = mode /\ byte \div 4 % 8 = lpf /\ byte \div 32 = hpf
OBVIOUS

LEMMA HeaderField ==
  ASSUME NEW mode \in 0 .. 7, NEW correction \in 0 .. 1
  PROVE  (7 + 8 * mode + 64 * correction) \div 8 % 8 = mode
OBVIOUS


\* What on_frame keeps of a startup frame is the code of each setting.
LEMMA FieldsShow ==
  ASSUME NEW correction \in 0 .. 1, \A p \in Param : Parses(p, unit[p])
  PROVE  /\ Fields(StartupFrame(correction)) # <<>>
         /\ \A p \in Verified : Fields(StartupFrame(correction))[p] = CodeFor(p, unit[p])
<1>. DEFINE Code(p) == CodeFor(p, unit[p])
            Index(p) == Parse(p, unit[p]) - 1
            frame == StartupFrame(correction)
<1>1. /\ frame.header_byte = 7 + 8 * Code("operating_mode") + 64 * correction
      /\ frame.ranges = Code("gyro_range") + 16 * Code("accel_range")
      /\ frame.gyro = Code("gyro_filter_mode") + 4 * Code("gyro_lpf") + 32 * Code("gyro_hpf")
      /\ frame.accel = Code("accel_filter_mode") + 4 * Code("accel_lpf") + 32 * Code("accel_hpf")
      /\ frame.incl = Code("incl_range") + 16 * Index("ahrs_convention")
                                          + 64 * Index("ahrs_heading_source")
  BY DEF StartupFrame, CodeFor
<1>2. \A p \in Verified : Code(p) \in 0 .. Room[Kind(p)]
  BY VerifiedTable, CodeShows
<1>3. \A p \in Param : Index(p) \in Nat
  <2>. SUFFICES ASSUME NEW p \in Param PROVE Index(p) \in Nat
    OBVIOUS
  <2>1. Parse(p, unit[p]) \in DOMAIN Enumerators[Kind(p)]
    BY ParsedText
  <2>2. DOMAIN Enumerators[Kind(p)] = 1 .. Len(Enumerators[Kind(p)])
        /\ Len(Enumerators[Kind(p)]) \in Nat
    BY ByUnique, EnumTable
  <2>. HIDE DEF Code
  <2>. QED
    BY <2>1, <2>2
<1>. HIDE DEF Code, Index
<1>4. /\ Room["mode"] = 7 /\ Room["gyro"] = 15 /\ Room["accel"] = 15 /\ Room["incl"] = 15
      /\ Room["filter"] = 3 /\ Room["cutoff"] = 7
  BY DEF Room
<1>5. PICK mode \in 0 .. 7, gr \in 0 .. 15, ar \in 0 .. 15, ir \in 0 .. 15 :
        /\ mode = Code("operating_mode") /\ gr = Code("gyro_range")
        /\ ar = Code("accel_range") /\ ir = Code("incl_range")
  BY <1>2, <1>4, ParamTable, VerifiedTable
<1>6. PICK gf \in 0 .. 3, gl \in 0 .. 7, gh \in 0 .. 7 :
        gf = Code("gyro_filter_mode") /\ gl = Code("gyro_lpf") /\ gh = Code("gyro_hpf")
  BY <1>2, <1>4, ParamTable, VerifiedTable
<1>7. PICK af \in 0 .. 3, al \in 0 .. 7, ah \in 0 .. 7 :
        af = Code("accel_filter_mode") /\ al = Code("accel_lpf") /\ ah = Code("accel_hpf")
  BY <1>2, <1>4, ParamTable, VerifiedTable
<1>8. PICK ic \in Nat, ih \in Nat : ic = Index("ahrs_convention") /\ ih = Index("ahrs_heading_source")
  BY <1>3, ParamTable
<1>. HIDE DEF frame
<1>9. PICK header, ranges, gyro, accel, incl :
        /\ header = frame.header_byte /\ ranges = frame.ranges /\ gyro = frame.gyro
        /\ accel = frame.accel /\ incl = frame.incl
  OBVIOUS
<1>10. header \div 8 % 8 = mode
  <2>1. header = 7 + 8 * mode + 64 * correction
    BY <1>1, <1>5, <1>9
  <2>. QED
    BY <2>1, HeaderField
<1>11. ranges % 16 = gr /\ ranges \div 16 = ar
  <2>1. ranges = gr + 16 * ar
    BY <1>1, <1>5, <1>9
  <2>2. ar \in Nat
    OBVIOUS
  <2>. QED
    BY <2>1, <2>2, TwoFields
<1>12. gyro % 4 = gf /\ gyro \div 4 % 8 = gl /\ gyro \div 32 = gh
  <2>1. gyro = gf + 4 * gl + 32 * gh
    BY <1>1, <1>6, <1>9
  <2>. QED
    BY <2>1, ThreeFields
<1>13. accel % 4 = af /\ accel \div 4 % 8 = al /\ accel \div 32 = ah
  <2>1. accel = af + 4 * al + 32 * ah
    BY <1>1, <1>7, <1>9
  <2>. QED
    BY <2>1, ThreeFields
<1>14. incl % 16 = ir
  <2>1. incl = ir + 16 * ic + 64 * ih
    BY <1>1, <1>5, <1>8, <1>9
  <2>2. PICK hi \in Nat : hi = ic + 4 * ih
    OBVIOUS
  <2>3. incl = ir + 16 * hi
    BY <2>1, <2>2
  <2>. QED
    BY <2>3, TwoFields
<1>15. Fields(frame) =
         [operating_mode |-> mode, gyro_range |-> gr, accel_range |-> ar,
          gyro_filter_mode |-> gf, gyro_lpf |-> gl, gyro_hpf |-> gh,
          accel_filter_mode |-> af, accel_lpf |-> al, accel_hpf |-> ah, incl_range |-> ir]
  BY <1>9, <1>10, <1>11, <1>12, <1>13, <1>14 DEF Fields
<1>16. \A p \in Verified : Fields(frame)[p] = Code(p)
  BY <1>5, <1>6, <1>7, <1>15, VerifiedTable
<1>17. Fields(frame) # <<>>
  <2>1. "incl_range" \in DOMAIN Fields(frame)
    BY <1>15
  <2>2. DOMAIN <<>> = {}
    OBVIOUS
  <2>. QED
    BY <2>1, <2>2
<1>. QED
  BY <1>16, <1>17 DEF Code, frame

\* A fault is counted.
LEMMA FaultCounted ==
  ASSUME faults \in 0 .. MaxFaults, FaultOccurs
  PROVE  faults' \in 0 .. MaxFaults /\ faults' # 0
BY ConfigurationAssumption DEF FaultOccurs

\* The argument that stands for a text stands for no other.
LEMMA SettingExcepted ==
  ASSUME NEW p \in Param, NEW e \in DOMAIN Enumerators[Kind(p)], NEW c, NEW text \in Excepted(p),
         IsSetting(c, p, e), Parameters[p].by \in Registers, Parses(p, text),
         c.arg = Parse(p, text) - 1
  PROVE  ~Described(p, e)
<1>1. PICK n \in Nat : n = Len(Enumerators[Kind(p)]) /\ DOMAIN Enumerators[Kind(p)] = 1 .. n
  BY ByUnique, EnumTable
<1>2. PICK d \in 1 .. n : d = Parse(p, text) /\ Enumerators[Kind(p)][d] = text
  BY <1>1, ParsedText
<1>3. c.arg = e - 1 /\ c.arg = d - 1 /\ e \in 1 .. n
  BY <1>1, <1>2, RegisterArguments DEF IsSetting
<1>4. d = e
  BY <1>3
<1>. QED
  BY <1>2, <1>4 DEF Described

\* No command is excepted but the one that writes an excepted value, and without a
\* fault the unit does as it is told by every other.
LEMMA ExceptedSetting ==
  ASSUME NEW p \in Param, NEW e \in DOMAIN Enumerators[Kind(p)], NEW c,
         IsSetting(c, p, e), Excepts(c)
  PROVE  ~Described(p, e)
<1>0. PICK q \in Param : Parameters[q].by = c.reg
                         /\ \E text \in Excepted(q) : c.arg = Parse(q, text) - 1
  BY DEF Excepts
<1>1. PICK text \in Excepted(q) : Parameters[q].by = c.reg /\ c.arg = Parse(q, text) - 1
  BY <1>0
<1>2. q = p
  BY <1>1 DEF IsSetting
<1>3. CASE p = "gyro_hpf"
  <2>1. PICK t \in {"C4", "C5", "C6", "C7"} : t = text
    BY <1>1, <1>2, <1>3 DEF Excepted
  <2>2. Kind(p) = "cutoff" /\ Parameters[p].by \in Registers
    BY <1>3, ParamTable, ByTable DEF Registers
  <2>3. Parses(p, t)
    <3>1. \E d \in DOMAIN Enumerators["cutoff"] : Enumerators["cutoff"][d] = t
      BY DEF Enumerators
    <3>. QED
      BY <2>2, <3>1, ParsedText
  <2>. QED
    BY <1>1, <1>2, <2>1, <2>2, <2>3, SettingExcepted
<1>4. CASE p = "accel_filter_mode"
  <2>1. text = "LP_AND_HP"
    BY <1>1, <1>2, <1>4 DEF Excepted
  <2>2. Kind(p) = "filter" /\ Parameters[p].by \in Registers
    BY <1>4, ParamTable, ByTable DEF Registers
  <2>3. Parses(p, text)
    <3>1. \E d \in DOMAIN Enumerators["filter"] : Enumerators["filter"][d] = "LP_AND_HP"
      BY DEF Enumerators
    <3>. QED
      BY <2>1, <2>2, <3>1, ParsedText
  <2>. QED
    BY <1>1, <1>2, <2>2, <2>3, SettingExcepted
<1>5. CASE p \notin {"gyro_hpf", "accel_filter_mode"}
  BY <1>1, <1>2, <1>5 DEF Excepted
<1>. QED
  BY <1>3, <1>4, <1>5

LEMMA OtherExcepted ==
  ASSUME NEW c, c.reg = ""
  PROVE  ~Excepts(c)
<1>1. \A p \in Param : Parameters[p].by # ""
  BY ByUnique DEF Registers, Ranges
<1>. QED
  BY <1>1 DEF Excepts

LEMMA Deviation ==
  ASSUME faults \in 0 .. MaxFaults, NEW c, Deviates(c)
  PROVE  /\ faults' \in 0 .. MaxFaults /\ (faults' = 0 => faults = 0)
         /\ faults' = 0 => Excepts(c)
<1>1. CASE FaultOccurs
  BY <1>1, FaultCounted
<1>2. CASE Excepts(c) /\ UNCHANGED faults
  BY <1>2
<1>. QED
  BY <1>1, <1>2 DEF Deviates

\* A startup frame that arrives shows the unit's settings; without a fault it
\* does arrive where there is a connection.
LEMMA StartupArrives ==
  ASSUME OnStartup, faults \in 0 .. MaxFaults, \A p \in Param : Parses(p, unit[p])
  PROVE  /\ faults' \in 0 .. MaxFaults /\ (faults' = 0 => faults = 0)
         /\ \/ startup_received' = startup_received /\ startup_info' = startup_info
            \/ /\ startup_received' = TRUE /\ startup_info' # <<>>
               /\ \A p \in Verified : startup_info'[p] = CodeFor(p, unit[p])
         /\ Connected /\ faults' = 0 => startup_received'
<1>1. CASE /\ Connected
           /\ \E correction \in 0 .. 1 : startup_info' = Fields(StartupFrame(correction))
           /\ startup_received' = TRUE /\ UNCHANGED faults
  <2>1. PICK correction \in 0 .. 1 : startup_info' = Fields(StartupFrame(correction))
    BY <1>1
  <2>2. startup_info' # <<>> /\ \A p \in Verified : startup_info'[p] = CodeFor(p, unit[p])
    BY <2>1, FieldsShow
  <2>. QED
    BY <1>1, <2>2
<1>2. CASE ~Connected /\ UNCHANGED <<startup_received, startup_info, faults>>
  BY <1>2
<1>3. CASE FaultOccurs /\ UNCHANGED <<startup_received, startup_info>>
  BY <1>3, FaultCounted, ConfigurationAssumption DEF FaultOccurs
<1>. QED
  BY <1>1, <1>2, <1>3 DEF OnStartup

-----------------------------------------------------------------------------
(* What a command that is sent does                                        *)

\* The command of a parameter, in any state of the line: the parameter's setting
\* becomes the one asked for, another there is, or stays.
LEMMA SendSetting ==
  ASSUME NEW p \in Param, NEW e \in DOMAIN Enumerators[Kind(p)], NEW c,
         IsSetting(c, p, e), Send(c), TypeOK
  PROVE  /\ state' = state /\ streams' = streams
         /\ faults' \in 0 .. MaxFaults /\ (faults' = 0 => faults = 0)
         /\ \A q \in Param : q # p => unit'[q] = unit[q]
         /\ Parses(p, unit'[p])
         /\ Connected /\ faults' = 0 /\ state = "CONFIG" /\ Described(p, e) =>
              unit'[p] = Enumerators[Kind(p)][e]
<1>0. /\ faults \in 0 .. MaxFaults /\ Parses(p, unit[p]) /\ Kind(p) \in Kinds
      /\ state \in {"OPERATING", "CONFIG"}
  BY ByUnique DEF TypeOK
<1>. DEFINE Sets(d) ==
       /\ state' = state /\ streams' = streams
       /\ \A q \in Param : q # p => unit'[q] = unit[q]
       /\ unit'[p] = IF state = "CONFIG" THEN Enumerators[Kind(p)][d] ELSE unit[p]
<1>1. ASSUME NEW b, NEW d \in DOMAIN Enumerators[Kind(p)],
             b = [name |-> c.name, reg |-> c.reg, arg |-> ToOscp[Kind(p)][d]], Obey(b)
      PROVE  Sets(d)
  <2>1. b.name = c.name /\ b.reg = c.reg /\ b.arg = ToOscp[Kind(p)][d]
    BY <1>1
  <2>2. b.name \notin {"CONFIG", "EXIT", "EOFT", "DOFT"}
    BY <2>1 DEF IsSetting
  <2>3. \A q \in Param : Parameters[q].by \in {b.name, b.reg} <=> q = p
    BY <2>1 DEF IsSetting
  <2>4. CASE state # "CONFIG"
    BY <1>1, <2>2, <2>4 DEF Obey, unitVars
  <2>5. CASE state = "CONFIG"
    <3>1. /\ UNCHANGED state
          /\ streams' = CASE b.name = "EOFT" -> streams \cup {b.arg}
                          [] b.name = "DOFT" -> streams \ {b.arg}
                          [] OTHER -> streams
          /\ unit' = [q \in Param |-> IF Parameters[q].by \in {b.name, b.reg}
                                       THEN Meaning(Kind(q), b.arg) ELSE unit[q]]
      BY <1>1, <2>2, <2>5 DEF Obey
    <3>2. streams' = streams
      BY <2>2, <3>1
    <3>3. \A q \in Param : q # p => unit'[q] = unit[q]
      BY <2>3, <3>1
    <3>4. unit'[p] = Meaning(Kind(p), b.arg)
      BY <2>3, <3>1
    <3>5. unit'[p] = Enumerators[Kind(p)][d]
      BY <1>0, <2>1, <3>4, MeaningTable
    <3>. QED
      BY <2>5, <3>1, <3>2, <3>3, <3>5
  <2>. QED
    BY <2>4, <2>5
<1>2. ASSUME NEW d \in DOMAIN Enumerators[Kind(p)], Sets(d)
      PROVE  /\ state' = state /\ streams' = streams
             /\ \A q \in Param : q # p => unit'[q] = unit[q]
             /\ Parses(p, unit'[p])
             /\ state = "CONFIG" => unit'[p] = Enumerators[Kind(p)][d]
  BY <1>0, <1>2, ParsedText
<1>. HIDE DEF Sets
<1>3. CASE /\ c.arg \in Encodable(c.name) /\ Connected
           /\ Obey(c) /\ UNCHANGED faults
  <2>1. c = [name |-> c.name, reg |-> c.reg, arg |-> ToOscp[Kind(p)][e]]
    BY DEF IsSetting
  <2>2. Sets(e)
    BY <1>1, <1>3, <2>1
  <2>. QED
    BY <1>0, <1>2, <1>3, <2>2
<1>4. CASE ~(c.arg \in Encodable(c.name) /\ Connected) /\ UNCHANGED <<unitVars, faults>>
  BY <1>0, <1>4 DEF unitVars, IsSetting
<1>5. CASE Deviates(c) /\ UNCHANGED unitVars
  BY <1>0, <1>5, Deviation, ExceptedSetting DEF unitVars
<1>6. CASE /\ Connected /\ Deviates(c)
           /\ \E arg \in Understood(c) \ {c.arg} : Obey([c EXCEPT !.arg = arg])
  <2>1. PICK arg \in Understood(c) : Obey([c EXCEPT !.arg = arg])
    BY <1>6
  <2>2. PICK d \in DOMAIN Enumerators[Kind(p)] : arg = ToOscp[Kind(p)][d]
    BY DEF IsSetting
  <2>3. PICK b : b = [c EXCEPT !.arg = arg]
    OBVIOUS
  <2>4. b = [name |-> c.name, reg |-> c.reg, arg |-> ToOscp[Kind(p)][d]]
    <3>1. c = [name |-> c.name, reg |-> c.reg, arg |-> c.arg]
      BY DEF IsSetting
    <3>. QED
      BY <2>2, <2>3, <3>1
  <2>5. Sets(d)
    BY <1>1, <2>1, <2>3, <2>4
  <2>. QED
    BY <1>0, <1>2, <1>6, <2>5, Deviation, ExceptedSetting
<1>. QED
  BY <1>3, <1>4, <1>5, <1>6 DEF Send


IsCommand(c, verb, arg) == c = Command(verb, arg)

LEMMA CommandFields ==
  ASSUME NEW c, NEW verb, NEW arg, IsCommand(c, verb, arg)
  PROVE  /\ c.name = verb /\ c.reg = "" /\ c.arg = arg
         /\ c = [name |-> c.name, reg |-> c.reg, arg |-> c.arg]
BY DEF IsCommand, Command

\* The arguments of the commands that set no parameter.
LEMMA OtherArguments ==
  /\ Encodable("EOFT") = FrameKind /\ Encodable("DOFT") = FrameKind
  /\ Encodable("CONFIG") = {""} /\ Encodable("EXIT") = {""}
BY DEF Encodable, FrameKind

\* The command that enables or disables a frame changes what is sent, and nothing
\* else of the unit.
LEMMA SendFrame ==
  ASSUME NEW verb \in {"EOFT", "DOFT"}, NEW f \in FrameKind, NEW c,
         IsCommand(c, verb, f), Send(c), TypeOK
  PROVE  /\ state' = state /\ streams' \in SUBSET FrameKind
         /\ faults' \in 0 .. MaxFaults /\ (faults' = 0 => faults = 0)
         /\ \A q \in Param : unit'[q] = unit[q]
         /\ Connected /\ faults' = 0 /\ state = "CONFIG" =>
              streams' = IF verb = "EOFT" THEN streams \cup {f} ELSE streams \ {f}
<1>1. /\ faults \in 0 .. MaxFaults /\ state \in {"OPERATING", "CONFIG"}
      /\ streams \in SUBSET FrameKind
  BY DEF TypeOK, FrameKind
<1>2. ASSUME NEW g \in FrameKind, NEW b, IsCommand(b, verb, g), Obey(b)
      PROVE  /\ state' = state /\ (\A q \in Param : unit'[q] = unit[q])
             /\ streams' \in SUBSET FrameKind
             /\ state = "CONFIG" =>
                  streams' = IF verb = "EOFT" THEN streams \cup {g} ELSE streams \ {g}
  <2>1. b.name = verb /\ b.reg = "" /\ b.arg = g
    BY <1>2, CommandFields
  <2>2. \A q \in Param : Parameters[q].by \notin {b.name, b.reg}
    BY <2>1, ByUnique DEF Registers, Ranges
  <2>3. CASE state # "CONFIG"
    BY <1>1, <1>2, <2>1, <2>3 DEF Obey, unitVars
  <2>4. CASE state = "CONFIG"
    <3>1. /\ UNCHANGED state
          /\ streams' = CASE b.name = "EOFT" -> streams \cup {b.arg}
                          [] b.name = "DOFT" -> streams \ {b.arg}
                          [] OTHER -> streams
          /\ unit' = [q \in Param |-> IF Parameters[q].by \in {b.name, b.reg}
                                       THEN Meaning(Kind(q), b.arg) ELSE unit[q]]
      BY <1>2, <2>1, <2>4 DEF Obey
    <3>2. \A q \in Param : unit'[q] = unit[q]
      BY <2>2, <3>1
    <3>3. streams' = IF verb = "EOFT" THEN streams \cup {g} ELSE streams \ {g}
      BY <2>1, <3>1
    <3>. QED
      BY <1>1, <3>1, <3>2, <3>3
  <2>. QED
    BY <2>3, <2>4
<1>4. c.name = verb /\ c.arg = f
  BY CommandFields
<1>5. Encodable(c.name) = FrameKind /\ Understood(c) = FrameKind
  BY <1>4, OtherArguments DEF Understood
<1>6. CASE c.arg \in Encodable(c.name) /\ Connected /\ Obey(c) /\ UNCHANGED faults
  BY <1>1, <1>2, <1>6
<1>7. CASE ~(c.arg \in Encodable(c.name) /\ Connected) /\ UNCHANGED <<unitVars, faults>>
  <2>1. c.arg \in Encodable(c.name)
    BY <1>4, <1>5
  <2>. QED
    BY <1>1, <1>7, <2>1 DEF unitVars
<1>10. ~Excepts(c)
  BY CommandFields, OtherExcepted
<1>8. CASE Deviates(c) /\ UNCHANGED unitVars
  BY <1>1, <1>8, <1>10, Deviation DEF unitVars
<1>9. CASE /\ Connected /\ Deviates(c)
           /\ \E arg \in Understood(c) \ {c.arg} : Obey([c EXCEPT !.arg = arg])
  <2>1. \E g \in FrameKind : Obey([c EXCEPT !.arg = g])
    BY <1>5, <1>9, Zenon
  <2>2. PICK g \in FrameKind : Obey([c EXCEPT !.arg = g])
    BY <2>1
  <2>3. IsCommand([c EXCEPT !.arg = g], verb, g)
    <3>1. c = [name |-> c.name, reg |-> c.reg, arg |-> c.arg] /\ c.name = verb /\ c.reg = ""
      BY CommandFields
    <3>2. PICK b : b = [c EXCEPT !.arg = g]
      OBVIOUS
    <3>3. b = [name |-> verb, reg |-> "", arg |-> g]
      BY <3>1, <3>2
    <3>. QED
      BY <3>2, <3>3, Zenon DEF IsCommand, Command
  <2>4. PICK b : Obey(b) /\ IsCommand(b, verb, g)
    BY <2>2, <2>3, Zenon
  <2>6. /\ state' = state /\ \A q \in Param : unit'[q] = unit[q]
        /\ streams' \in SUBSET FrameKind
    BY <1>2, <2>4
  <2>. QED
    BY <1>1, <1>9, <1>10, <2>6, Deviation
<1>. QED
  BY <1>4, <1>6, <1>7, <1>8, <1>9 DEF Send

\* CONFIG and EXIT change the state of the unit, and nothing else of it.
LEMMA SendState ==
  ASSUME NEW verb \in {"CONFIG", "EXIT"}, NEW c, IsCommand(c, verb, ""),
         Send(c), TypeOK
  PROVE  /\ state' \in {"OPERATING", "CONFIG"} /\ streams' = streams
         /\ faults' \in 0 .. MaxFaults /\ (faults' = 0 => faults = 0)
         /\ \A q \in Param : unit'[q] = unit[q]
         /\ Connected /\ faults' = 0 =>
              state' = IF verb = "CONFIG" THEN "CONFIG" ELSE "OPERATING"
<1>1. faults \in 0 .. MaxFaults /\ state \in {"OPERATING", "CONFIG"}
  BY DEF TypeOK
<1>3. c.name = verb /\ c.arg = ""
  BY CommandFields
<1>4. Encodable(c.name) = {""} /\ Understood(c) = {""}
  BY <1>3, OtherArguments DEF Understood
<1>5. CASE c.arg \in Encodable(c.name) /\ Connected /\ Obey(c) /\ UNCHANGED faults
  <2>1. /\ unit' = unit /\ streams' = streams
        /\ state' = IF verb = "CONFIG" THEN "CONFIG" ELSE "OPERATING"
    BY <1>3, <1>5 DEF Obey
  <2>. QED
    BY <1>1, <1>5, <2>1
<1>6. CASE ~(c.arg \in Encodable(c.name) /\ Connected) /\ UNCHANGED <<unitVars, faults>>
  <2>1. c.arg \in Encodable(c.name)
    BY <1>3, <1>4
  <2>. QED
    BY <1>1, <1>6, <2>1 DEF unitVars
<1>7. CASE Deviates(c) /\ UNCHANGED unitVars
  <2>1. faults' \in 0 .. MaxFaults /\ faults' # 0
    BY <1>1, <1>7, Deviation, CommandFields, OtherExcepted
  <2>3. state' = state /\ unit' = unit /\ streams' = streams
    BY <1>7 DEF unitVars
  <2>. QED
    BY <1>1, <2>1, <2>3
<1>8. CASE \E arg \in Understood(c) \ {c.arg} : Obey([c EXCEPT !.arg = arg])
  BY <1>3, <1>4, <1>8
<1>. QED
  BY <1>3, <1>5, <1>6, <1>7, <1>8 DEF Send


-----------------------------------------------------------------------------
(* What has been done, one command further                                 *)

\* Nothing has been done by no command.
LEMMA DoneNothing ==
  ASSUME NEW u, NEW cfg, NEW str, NEW fs \in Seq(FrameKind)
  PROVE  Done(0, u, cfg, str, fs)
<1>1. ASSUME NEW p \in Param PROVE ~(Slot[p] <= 0)
  <2>1. PICK i \in {2} \cup 7 .. 17 : i = Slot[p]
    BY SlotTable, Zenon
  <2>. QED
    BY <2>1
<1>2. \A i \in 1 .. 4 : ~(0 >= 2 + i)
  OBVIOUS
<1>3. Len(fs) \in Nat
  OBVIOUS
<1>4. \A j \in 1 .. Len(fs) : ~(17 + j <= 0)
  BY <1>3
<1>. QED
  BY <1>1, <1>2, <1>4, Zenon DEF Done

\* CONFIG does nothing to the settings.
LEMMA DoneConfig ==
  ASSUME NEW u, NEW cfg, NEW str, NEW fs \in Seq(FrameKind)
  PROVE  Done(1, u, cfg, str, fs)
<1>1. ASSUME NEW p \in Param PROVE ~(Slot[p] <= 1)
  <2>1. PICK i \in {2} \cup 7 .. 17 : i = Slot[p]
    BY SlotTable, Zenon
  <2>. QED
    BY <2>1
<1>2. \A i \in 1 .. 4 : ~(1 >= 2 + i)
  OBVIOUS
<1>3. Len(fs) \in Nat
  OBVIOUS
<1>4. \A j \in 1 .. Len(fs) : ~(17 + j <= 1)
  BY <1>3
<1>. QED
  BY <1>1, <1>2, <1>4, Zenon DEF Done

\* The command of a parameter.
LEMMA DoneSetting ==
  ASSUME NEW u, NEW v, NEW cfg, NEW str, NEW fs \in Seq(FrameKind), NEW n \in Nat,
         NEW p \in Param, n + 1 = Slot[p], Done(n, u, cfg, str, fs),
         \A q \in Param : q # p => v[q] = u[q],
         Described(p, cfg[p]) => v[p] = Enumerators[Kind(p)][cfg[p]]
  PROVE  Done(n + 1, v, cfg, str, fs)
<1>1. n + 1 \in {2} \cup 7 .. 17
  BY SlotTable
<1>2. Len(fs) \in Nat
  OBVIOUS
<1>3. ASSUME NEW q \in Param, Slot[q] <= n + 1, Described(q, cfg[q])
      PROVE  v[q] = Enumerators[Kind(q)][cfg[q]]
  <2>1. CASE q = p
    BY <1>3, <2>1
  <2>2. CASE q # p
    <3>1. Slot[q] # n + 1 /\ Slot[q] \in Nat
      <4>1. Slot[q] \in {2} \cup 7 .. 17
        BY SlotTable
      <4>2. Slot[q] # Slot[p]
        BY <2>2, SlotTable, Zenon
      <4>. QED
        BY <4>1, <4>2
    <3>2. Slot[q] <= n
      BY <1>3, <3>1
    <3>3. u[q] = Enumerators[Kind(q)][cfg[q]]
      BY <1>3, <3>2, Zenon DEF Done
    <3>. QED
      BY <2>2, <3>3
  <2>. QED
    BY <2>1, <2>2
<1>4. ASSUME NEW i \in 1 .. 4, n + 1 >= 2 + i, Disabled[i] \in str
      PROVE  \E j \in 1 .. Len(fs) : 17 + j <= n + 1 /\ fs[j] = Disabled[i]
  <2>1. n >= 2 + i
    BY <1>1, <1>4
  <2>2. PICK j \in 1 .. Len(fs) : 17 + j <= n /\ fs[j] = Disabled[i]
    BY <1>4, <2>1, Zenon DEF Done
  <2>3. 17 + j <= n + 1
    BY <1>2, <2>2
  <2>. QED
    BY <2>2, <2>3, Zenon
<1>5. \A j \in 1 .. Len(fs) : ~(17 + j <= n + 1)
  BY <1>1, <1>2
<1>. QED
  BY <1>3, <1>4, <1>5, Zenon DEF Done

\* A frame disabled.
LEMMA DoneDisable ==
  ASSUME NEW u, NEW v, NEW cfg, NEW str, NEW fs \in Seq(FrameKind), NEW n \in Nat,
         NEW i \in 1 .. 4, n + 1 = 2 + i, Done(n, u, cfg, str, fs),
         \A q \in Param : v[q] = u[q]
  PROVE  Done(n + 1, v, cfg, str \ {Disabled[i]}, fs)
<1>1. Len(fs) \in Nat
  OBVIOUS
<1>2. ASSUME NEW q \in Param, Slot[q] <= n + 1, Described(q, cfg[q])
      PROVE  v[q] = Enumerators[Kind(q)][cfg[q]]
  <2>1. Slot[q] <= n
    <3>1. PICK k \in {2} \cup 7 .. 17 : k = Slot[q]
      BY SlotTable, Zenon
    <3>2. k <= n + 1 /\ i \in 1 .. 4 /\ n + 1 = 2 + i
      BY <1>2, <3>1, Zenon
    <3>3. k <= n
      BY <3>2
    <3>. QED
      BY <3>1, <3>3, Zenon
  <2>. QED
    BY <1>2, <2>1, Zenon DEF Done
<1>3. ASSUME NEW k \in 1 .. 4, n + 1 >= 2 + k, Disabled[k] \in str \ {Disabled[i]}
      PROVE  \E j \in 1 .. Len(fs) : 17 + j <= n + 1 /\ fs[j] = Disabled[k]
  <2>1. k # i
    BY <1>3
  <2>2. n >= 2 + k
    BY <1>3, <2>1
  <2>3. PICK j \in 1 .. Len(fs) : 17 + j <= n /\ fs[j] = Disabled[k]
    BY <1>3, <2>2, Zenon DEF Done
  <2>4. 17 + j <= n + 1
    BY <1>1, <2>3
  <2>. QED
    BY <2>3, <2>4, Zenon
<1>4. \A j \in 1 .. Len(fs) : ~(17 + j <= n + 1)
  BY <1>1
<1>. QED
  BY <1>2, <1>3, <1>4, Zenon DEF Done

\* A frame enabled.
LEMMA DoneEnable ==
  ASSUME NEW u, NEW v, NEW cfg, NEW str, NEW fs \in Seq(FrameKind), NEW n \in Nat,
         NEW j \in 1 .. Len(fs), n + 1 = 17 + j, Done(n, u, cfg, str, fs),
         \A q \in Param : v[q] = u[q]
  PROVE  Done(n + 1, v, cfg, str \cup {fs[j]}, fs)
<1>1. PICK m \in Nat : m = Len(fs)
  OBVIOUS
<1>2. ASSUME NEW q \in Param, Slot[q] <= n + 1, Described(q, cfg[q])
      PROVE  v[q] = Enumerators[Kind(q)][cfg[q]]
  <2>1. Slot[q] \in {2} \cup 7 .. 17
    BY SlotTable
  <2>2. Slot[q] <= n
    BY <1>1, <2>1
  <2>. QED
    BY <1>2, <2>2, Zenon DEF Done
<1>3. ASSUME NEW k \in 1 .. 4, n + 1 >= 2 + k, Disabled[k] \in str \cup {fs[j]}
      PROVE  \E i \in 1 .. Len(fs) : 17 + i <= n + 1 /\ fs[i] = Disabled[k]
  <2>1. CASE Disabled[k] = fs[j]
    <3>1. 17 + j <= n + 1
      BY <1>1
    <3>. QED
      BY <2>1, <3>1, Zenon
  <2>2. CASE Disabled[k] \in str
    <3>1. n >= 2 + k
      BY <1>1
    <3>2. PICK i \in 1 .. Len(fs) : 17 + i <= n /\ fs[i] = Disabled[k]
      BY <2>2, <3>1, Zenon DEF Done
    <3>3. 17 + i <= n + 1
      BY <1>1, <3>2
    <3>. QED
      BY <3>2, <3>3, Zenon
  <2>. QED
    BY <1>3, <2>1, <2>2
<1>4. ASSUME NEW i \in 1 .. Len(fs), 17 + i <= n + 1 PROVE fs[i] \in str \cup {fs[j]}
  <2>1. CASE i = j
    BY <2>1
  <2>2. CASE i # j
    <3>1. 17 + i <= n
      BY <1>1, <1>4, <2>2
    <3>2. fs[i] \in str
      BY <3>1, Zenon DEF Done
    <3>. QED
      BY <3>2
  <2>. QED
    BY <2>1, <2>2
<1>. QED
  BY <1>2, <1>3, <1>4, Zenon DEF Done

\* The same settings.
LEMMA DoneSame ==
  ASSUME NEW u, NEW v, NEW cfg, NEW str, NEW fs, NEW n, Done(n, u, cfg, str, fs),
         \A q \in Param : v[q] = u[q]
  PROVE  Done(n, v, cfg, str, fs)
BY Zenon DEF Done


\* A launch that may be.
LEMMA LaunchFacts ==
  ASSUME launch \in Launches
  PROVE  /\ launch.topics \in SUBSET Topic /\ launch.baudrate \in Int /\ launch.unit_baud \in Rate
         /\ \A p \in Param : Parses(p, launch.saved[p])
         /\ launch.streams \subseteq FrameKind
         /\ Frames(launch.topics) \in Seq(FrameKind)
         /\ Total \in Nat /\ Total > 0
<1>1. /\ launch.topics \in SUBSET Topic /\ launch.baudrate \in Int /\ launch.unit_baud \in Rate
      /\ \A p \in Param : Parses(p, launch.saved[p])
      /\ launch.streams \subseteq FrameKind
  BY ConfigurationAssumption DEF FrameKind
<1>2. Frames(launch.topics) \in Seq(FrameKind)
  BY <1>1, FramesNeeded
<1>3. PICK n \in Nat : n = Len(Frames(launch.topics))
  BY <1>2
<1>4. Total = 17 + n
  BY <1>3 DEF Total
<1>. QED
  BY <1>1, <1>2, <1>4

\* The commands are as many as that, each in its place.
LEMMA CommandPlaces ==
  ASSUME launch \in Launches, NEW n \in 0 .. Total - 1
  PROVE  LET c == Commands(config, launch.topics)[n + 1]
             fs == Frames(launch.topics)
         IN  /\ Len(Commands(config, launch.topics)) = Total
             /\ \/ n = 0 /\ c = Command("CONFIG", "")
                \/ \E p \in Param : n + 1 = Slot[p] /\ c = Setting(p, config[p])
                \/ \E i \in 1 .. 4 : n + 1 = 2 + i /\ c = Command("DOFT", Disabled[i])
                \/ \E j \in 1 .. Len(fs) : n + 1 = 17 + j /\ c = Command("EOFT", fs[j])
<1>1. PICK commands : commands = Commands(config, launch.topics)
  OBVIOUS
<1>2. PICK fs \in Seq(FrameKind) : fs = Frames(launch.topics)
  BY LaunchFacts
<1>3. Ordered(Commands(config, launch.topics), config, Frames(launch.topics))
  BY LaunchFacts, CommandsOrdered
<1>4. Ordered(commands, config, fs)
  BY <1>1, <1>2, <1>3, Zenon
<1>5. PICK m \in Nat : m = Len(fs)
  OBVIOUS
<1>6. Total = 17 + m
  BY <1>2, <1>5 DEF Total
<1>7. /\ Len(commands) = 17 + m /\ commands[1] = Command("CONFIG", "")
      /\ \A p \in Param : commands[Slot[p]] = Setting(p, config[p])
      /\ \A i \in 1 .. 4 : commands[2 + i] = Command("DOFT", Disabled[i])
      /\ \A j \in 1 .. m : commands[17 + j] = Command("EOFT", fs[j])
  BY <1>4, <1>5, Zenon DEF Ordered
<1>8. \/ n = 0 \/ n + 1 \in {2} \cup 7 .. 17 \/ n + 1 \in 3 .. 6 \/ n + 1 \in 18 .. 17 + m
  BY <1>6
<1>9. ASSUME n = 0 PROVE n = 0 /\ commands[n + 1] = Command("CONFIG", "")
  <2>1. n + 1 = 1
    BY <1>9
  <2>. QED
    BY <1>7, <1>9, <2>1, Zenon
<1>10. ASSUME n + 1 \in {2} \cup 7 .. 17
       PROVE  \E p \in Param : n + 1 = Slot[p] /\ commands[n + 1] = Setting(p, config[p])
  <2>1. PICK p \in Param : Slot[p] = n + 1
    BY <1>10, SlotTable, Zenon
  <2>2. commands[n + 1] = Setting(p, config[p])
    BY <1>7, <2>1, Zenon
  <2>. QED
    BY <2>1, <2>2, Zenon
<1>11. ASSUME n + 1 \in 3 .. 6
       PROVE  \E i \in 1 .. 4 : n + 1 = 2 + i /\ commands[n + 1] = Command("DOFT", Disabled[i])
  <2>1. PICK i \in 1 .. 4 : n + 1 = 2 + i
    <3>1. n - 1 \in 1 .. 4 /\ n + 1 = 2 + (n - 1)
      BY <1>11
    <3>. QED
      BY <3>1
  <2>. QED
    BY <1>7, <2>1, Zenon
<1>12. ASSUME n + 1 \in 18 .. 17 + m
       PROVE  \E j \in 1 .. m : n + 1 = 17 + j /\ commands[n + 1] = Command("EOFT", fs[j])
  <2>1. PICK j \in 1 .. m : n + 1 = 17 + j
    <3>1. n - 16 \in 1 .. m /\ n + 1 = 17 + (n - 16)
      BY <1>12
    <3>. QED
      BY <3>1
  <2>. QED
    BY <1>7, <2>1, Zenon
<1>13. \/ n = 0 /\ commands[n + 1] = Command("CONFIG", "")
       \/ \E p \in Param : n + 1 = Slot[p] /\ commands[n + 1] = Setting(p, config[p])
       \/ \E i \in 1 .. 4 : n + 1 = 2 + i /\ commands[n + 1] = Command("DOFT", Disabled[i])
       \/ \E j \in 1 .. m : n + 1 = 17 + j /\ commands[n + 1] = Command("EOFT", fs[j])
  BY <1>8, <1>9, <1>10, <1>11, <1>12, Zenon
<1>14. Len(commands) = Total
  BY <1>6, <1>7
<1>. QED
  BY <1>1, <1>2, <1>5, <1>13, <1>14, Zenon

\* What the unit is after the next command: its settings and frames are some there
\* are, and without a fault the command is done.
Obeyed(n) ==
  /\ \A p \in Param : Parses(p, unit'[p])
  /\ streams' \in SUBSET FrameKind /\ state' \in {"OPERATING", "CONFIG"}
  /\ faults' \in 0 .. MaxFaults /\ (faults' = 0 => faults = 0)
  /\ Connected /\ faults' = 0 =>
       state' = "CONFIG" /\ Done(n + 1, unit', config, streams', Frames(launch.topics))

LEMMA CommandSent ==
  ASSUME IInv, pc = "configure", NEW n \in Nat, n = sent, n < Total,
         NEW c, c = Commands(config, launch.topics)[n + 1], Send(c)
  PROVE  Obeyed(n)
<1>. DEFINE Goal == Obeyed(n)
<1>1. /\ TypeOK /\ launch \in Launches /\ Total \in Nat /\ n \in 0 .. Total - 1
      /\ faults \in 0 .. MaxFaults /\ \A p \in Param : Parses(p, unit[p])
      /\ state \in {"OPERATING", "CONFIG"} /\ streams \in SUBSET FrameKind
  BY LaunchFacts DEF IInv, TypeOK, FrameKind
<1>2. PICK fs \in Seq(FrameKind) : fs = Frames(launch.topics)
  BY <1>1, LaunchFacts
<1>3. ASSUME faults = 0, Connected
      PROVE  Done(n, unit, config, streams, fs) /\ (n > 0 => state = "CONFIG")
  BY <1>2, <1>3, Zenon DEF IInv, Progress, Undisturbed
<1>4. \A p \in Param : config[p] \in DOMAIN Enumerators[Kind(p)]
  BY <1>1 DEF TypeOK
<1>. HIDE DEF Obeyed
<1>5. ASSUME n = 0, c = Command("CONFIG", "") PROVE Goal
  <2>1. /\ state' \in {"OPERATING", "CONFIG"} /\ streams' = streams
        /\ faults' \in 0 .. MaxFaults /\ (faults' = 0 => faults = 0)
        /\ \A q \in Param : unit'[q] = unit[q]
        /\ Connected /\ faults' = 0 => state' = "CONFIG"
    BY <1>1, <1>5, SendState DEF IsCommand
  <2>2. Done(1, unit', config, streams', fs)
    BY DoneConfig
  <2>3. n + 1 = 1
    <3>1. n = 0
      BY <1>5
    <3>. QED
      BY <3>1
  <2>. QED
    BY <1>1, <1>2, <2>1, <2>2, <2>3, Zenon DEF Obeyed
<1>6. ASSUME NEW p \in Param, n + 1 = Slot[p], c = Setting(p, config[p]) PROVE Goal
  <2>1. IsSetting(c, p, config[p])
    <3>1. IsSetting(Setting(p, config[p]), p, config[p])
      BY <1>4, SettingSets
    <3>. QED
      BY <1>6, <3>1, Zenon
  <2>2. /\ state' = state /\ streams' = streams
        /\ faults' \in 0 .. MaxFaults /\ (faults' = 0 => faults = 0)
        /\ \A q \in Param : q # p => unit'[q] = unit[q]
        /\ Parses(p, unit'[p])
        /\ Connected /\ faults' = 0 /\ state = "CONFIG" /\ Described(p, config[p]) =>
             unit'[p] = Enumerators[Kind(p)][config[p]]
    BY <1>1, <1>4, <2>1, SendSetting
  <2>3. ASSUME Connected, faults' = 0
        PROVE  state' = "CONFIG" /\ Done(n + 1, unit', config, streams', fs)
    <3>1. n > 0
      <4>1. Slot[p] \in {2} \cup 7 .. 17
        BY SlotTable, Zenon
      <4>2. n + 1 \in {2} \cup 7 .. 17
        BY <1>6, <4>1, Zenon
      <4>. QED
        BY <4>2
    <3>2. state = "CONFIG" /\ Done(n, unit, config, streams, fs)
      BY <1>3, <2>2, <2>3, <3>1
    <3>3. Done(n + 1, unit', config, streams, fs)
      BY <1>6, <2>2, <2>3, <3>2, DoneSetting
    <3>. QED
      BY <2>2, <3>2, <3>3, Zenon
  <2>4. \A q \in Param : Parses(q, unit'[q])
    <3>. SUFFICES ASSUME NEW q \in Param PROVE Parses(q, unit'[q])
      OBVIOUS
    <3>1. CASE q = p
      BY <2>2, <3>1, Zenon
    <3>2. CASE q # p
      BY <1>1, <2>2, <3>2, Zenon
    <3>. QED
      BY <3>1, <3>2
  <2>. QED
    BY <1>1, <1>2, <2>2, <2>3, <2>4, Zenon DEF Obeyed
<1>7. ASSUME NEW i \in 1 .. 4, n + 1 = 2 + i, c = Command("DOFT", Disabled[i]) PROVE Goal
  <2>1. Disabled[i] \in FrameKind
    BY DEF Disabled, FrameKind
  <2>2. /\ state' = state /\ streams' \in SUBSET FrameKind
        /\ faults' \in 0 .. MaxFaults /\ (faults' = 0 => faults = 0)
        /\ \A q \in Param : unit'[q] = unit[q]
        /\ Connected /\ faults' = 0 /\ state = "CONFIG" =>
             streams' = streams \ {Disabled[i]}
    <3>1. IsCommand(c, "DOFT", Disabled[i])
      BY <1>7 DEF IsCommand
    <3>. QED
      BY <1>1, <2>1, <3>1, SendFrame
  <2>3. ASSUME Connected, faults' = 0
        PROVE  state' = "CONFIG" /\ Done(n + 1, unit', config, streams', fs)
    <3>1. n > 0
      BY <1>7
    <3>2. state = "CONFIG" /\ Done(n, unit, config, streams, fs)
      BY <1>3, <2>2, <2>3, <3>1
    <3>3. Done(n + 1, unit', config, streams \ {Disabled[i]}, fs)
      BY <1>7, <2>2, <3>2, DoneDisable
    <3>. QED
      BY <2>2, <2>3, <3>2, <3>3, Zenon
  <2>. QED
    BY <1>1, <1>2, <2>2, <2>3, Zenon DEF Obeyed
<1>8. ASSUME NEW j \in 1 .. Len(fs), n + 1 = 17 + j, c = Command("EOFT", fs[j]) PROVE Goal
  <2>1. fs[j] \in FrameKind
    BY ElementOfSeq
  <2>2. /\ state' = state /\ streams' \in SUBSET FrameKind
        /\ faults' \in 0 .. MaxFaults /\ (faults' = 0 => faults = 0)
        /\ \A q \in Param : unit'[q] = unit[q]
        /\ Connected /\ faults' = 0 /\ state = "CONFIG" =>
             streams' = streams \cup {fs[j]}
    <3>1. IsCommand(c, "EOFT", fs[j])
      BY <1>8 DEF IsCommand
    <3>. QED
      BY <1>1, <2>1, <3>1, SendFrame
  <2>3. ASSUME Connected, faults' = 0
        PROVE  state' = "CONFIG" /\ Done(n + 1, unit', config, streams', fs)
    <3>1. n > 0
      BY <1>8
    <3>2. state = "CONFIG" /\ Done(n, unit, config, streams, fs)
      BY <1>3, <2>2, <2>3, <3>1
    <3>3. Done(n + 1, unit', config, streams \cup {fs[j]}, fs)
      BY <1>8, <2>2, <3>2, DoneEnable
    <3>. QED
      BY <2>2, <2>3, <3>2, <3>3, Zenon
  <2>. QED
    BY <1>1, <1>2, <2>2, <2>3, Zenon DEF Obeyed
<1>. HIDE DEF Goal
<1>9. \/ n = 0 /\ c = Command("CONFIG", "")
      \/ \E p \in Param : n + 1 = Slot[p] /\ c = Setting(p, config[p])
      \/ \E i \in 1 .. 4 : n + 1 = 2 + i /\ c = Command("DOFT", Disabled[i])
      \/ \E j \in 1 .. Len(fs) : n + 1 = 17 + j /\ c = Command("EOFT", fs[j])
  <2>1. \/ n = 0 /\ Commands(config, launch.topics)[n + 1] = Command("CONFIG", "")
        \/ \E p \in Param : n + 1 = Slot[p] /\ Commands(config, launch.topics)[n + 1] = Setting(p, config[p])
        \/ \E i \in 1 .. 4 : n + 1 = 2 + i
                 /\ Commands(config, launch.topics)[n + 1] = Command("DOFT", Disabled[i])
        \/ \E j \in 1 .. Len(Frames(launch.topics)) : n + 1 = 17 + j
                 /\ Commands(config, launch.topics)[n + 1] = Command("EOFT", Frames(launch.topics)[j])
    BY <1>1, CommandPlaces
  <2>. QED
    BY <1>2, <2>1, Zenon
<1>10. Goal
  BY <1>5, <1>6, <1>7, <1>8, <1>9, Zenon
<1>. QED
  BY <1>10 DEF Goal


-----------------------------------------------------------------------------
(* The invariant is inductive                                              *)

LEMMA InitIInv == Init => IInv
<1>. SUFFICES ASSUME Init PROVE IInv
  OBVIOUS
<1>1. launch \in Launches
  BY DEF Init
<1>2. /\ \A p \in Param : Parses(p, unit[p])
      /\ streams \subseteq FrameKind
  BY <1>1, LaunchFacts DEF Init
<1>3. TypeOK
  <2>1. 0 \in 0 .. MaxFaults
    BY ConfigurationAssumption
  <2>2. /\ pc = "parse" /\ startup_info = <<>> /\ startup_received = FALSE
        /\ state = "OPERATING" /\ faults = 0
    BY DEF Init
  <2>. QED
    BY <1>2, <2>1, <2>2 DEF TypeOK, FrameKind
<1>4. ConfigWanted /\ Shown /\ Published
  BY DEF Init, ConfigWanted, Shown, Published
<1>5. SentInOrder
  <2>1. Total \in Nat
    BY <1>1, LaunchFacts
  <2>2. sent = 0 /\ pc = "parse"
    BY DEF Init
  <2>. QED
    BY <2>1, <2>2 DEF SentInOrder
<1>6. Progress
  <2>1. Frames(launch.topics) \in Seq(FrameKind)
    BY <1>1, LaunchFacts
  <2>2. Done(0, unit, config, streams, Frames(launch.topics))
    BY <2>1, DoneNothing
  <2>3. sent = 0 /\ ~(sent > 0) /\ pc = "parse"
    BY DEF Init
  <2>. QED
    BY <2>2, <2>3, Zenon DEF Progress
<1>. QED
  BY <1>1, <1>3, <1>4, <1>5, <1>6 DEF IInv

\* A step after the parameters are parsed that sets nothing in the unit.
Quiet ==
  /\ launch' = launch /\ config' = config /\ sent' = sent
  /\ pc \notin {"parse", "threw"}
  /\ pc' \in {"open", "reset", "configure", "clear", "suf", "exit", "verify", "returned"}
  /\ \A p \in Param : unit'[p] = unit[p]
  /\ streams' = streams /\ state' \in {"OPERATING", "CONFIG"}
  /\ faults' \in 0 .. MaxFaults /\ (faults' = 0 => faults = 0)

\* Such a step keeps what the invariant says of the settings.
LEMMA QuietKeeps ==
  ASSUME IInv, Quiet,
         startup_info' # <<>> =>
           \A p \in Verified : startup_info'[p] \in DOMAIN StartupTo[Kind(p)],
         startup_received' => startup_info' # <<>>
  PROVE  /\ TypeOK' /\ launch' \in Launches /\ ConfigWanted' /\ Total' = Total
         /\ Undisturbed' =>
              /\ Undisturbed
              /\ Done(sent', unit', config', streams', Frames(launch'.topics))
<1>1. TypeOK'
  <2>1. \A p \in Param : config'[p] \in DOMAIN Enumerators[Kind(p)]
    BY DEF IInv, TypeOK, Quiet
  <2>2. \A p \in Param : Parses(p, unit'[p])
    <3>1. \A p \in Param : Parses(p, unit[p]) /\ unit'[p] = unit[p]
      BY DEF IInv, TypeOK, Quiet
    <3>. QED
      BY <3>1, Zenon
  <2>3. streams' \subseteq {"R", "E", "Q", "M", "G"}
    BY DEF IInv, TypeOK, Quiet
  <2>. QED
    BY <2>1, <2>2, <2>3 DEF TypeOK, Quiet
<1>2. ConfigWanted'
  BY DEF IInv, ConfigWanted, Wanted, Quiet
<1>3. launch' \in Launches
  BY DEF IInv, Quiet
<1>4. Undisturbed' => Undisturbed
  BY DEF Undisturbed, Connected, Quiet
<1>5. Total' = Total
  BY DEF Total, Quiet
<1>6. ASSUME Undisturbed PROVE Done(sent', unit', config', streams', Frames(launch'.topics))
  <2>1. Done(sent, unit, config, streams, Frames(launch.topics))
    BY <1>6 DEF IInv, Progress
  <2>2. \A p \in Param : unit'[p] = unit[p]
    BY DEF Quiet
  <2>3. Done(sent, unit', config, streams, Frames(launch.topics))
    BY <2>1, <2>2, DoneSame
  <2>4. launch' = launch /\ config' = config /\ sent' = sent /\ streams' = streams
    BY DEF Quiet
  <2>. QED
    BY <2>3, <2>4, Zenon
<1>. QED
  BY <1>1, <1>2, <1>3, <1>4, <1>5, <1>6

\* The parameters are parsed, or the constructor ends.
LEMMA ParseStep == IInv /\ ParseAll => IInv'
<1>. SUFFICES ASSUME IInv, ParseAll PROVE IInv'
  OBVIOUS
<1>1. /\ launch' = launch /\ sent' = sent /\ startup_received' = startup_received
      /\ startup_info' = startup_info /\ publish_enable' = publish_enable
      /\ unit' = unit /\ streams' = streams /\ state' = state /\ faults' = faults
      /\ pc = "parse" /\ pc' \in {"open", "threw"}
  BY DEF ParseAll, Go, unitVars
<1>2. pc' = "open" => /\ \A p \in Param : Parses(p, GetParameter(p))
                      /\ \A p \in Param : config'[p] = Parse(p, GetParameter(p))
  BY DEF ParseAll, Go
<1>3. pc' = "open" => \A p \in Param : /\ config'[p] \in DOMAIN Enumerators[Kind(p)]
                                       /\ Enumerators[Kind(p)][config'[p]] = Wanted(p)
  <2>. SUFFICES ASSUME pc' = "open", NEW p \in Param
                PROVE  /\ config'[p] \in DOMAIN Enumerators[Kind(p)]
                       /\ Enumerators[Kind(p)][config'[p]] = Wanted(p)
    OBVIOUS
  <2>1. Parses(p, GetParameter(p)) /\ config'[p] = Parse(p, GetParameter(p))
    BY <1>2
  <2>2. /\ Parse(p, GetParameter(p)) \in DOMAIN Enumerators[Kind(p)]
        /\ Enumerators[Kind(p)][Parse(p, GetParameter(p))] = GetParameter(p)
    BY <2>1, ParsedText
  <2>. QED
    BY <2>1, <2>2, WantedText
<1>4. TypeOK'
  BY <1>1, <1>3 DEF IInv, TypeOK
<1>5. ConfigWanted'
  BY <1>1, <1>3 DEF ConfigWanted, Wanted
<1>6. sent = 0 /\ ~startup_received /\ ~publish_enable
  BY <1>1 DEF IInv, SentInOrder, Shown, Published
<1>7. launch' \in Launches
  BY <1>1 DEF IInv
<1>8. SentInOrder'
  <2>1. Total' = Total /\ Total \in Nat
    BY <1>1, LaunchFacts DEF Total, IInv
  <2>. QED
    BY <1>1, <1>6, <2>1 DEF SentInOrder
<1>9. Shown' /\ Published'
  BY <1>1, <1>6 DEF Shown, Published
<1>10. Progress'
  <2>1. Frames(launch.topics) \in Seq(FrameKind)
    BY LaunchFacts DEF IInv
  <2>2. Done(0, unit', config', streams', Frames(launch.topics))
    BY <2>1, DoneNothing
  <2>3. Done(sent', unit', config', streams', Frames(launch'.topics))
    BY <1>1, <1>6, <2>2, Zenon
  <2>4. ~(sent' > 0) /\ pc' \notin {"exit", "verify"}
    BY <1>1, <1>6
  <2>. QED
    BY <2>3, <2>4, Zenon DEF Progress
<1>. QED
  BY <1>4, <1>5, <1>7, <1>8, <1>9, <1>10 DEF IInv

\* The transport is opened, or not.
LEMMA OpenStep == IInv /\ (OpenFails \/ Open) => IInv'
<1>. SUFFICES ASSUME IInv, OpenFails \/ Open PROVE IInv'
  OBVIOUS
<1>1. /\ launch' = launch /\ config' = config /\ sent' = sent
      /\ startup_received' = startup_received
      /\ startup_info' = startup_info /\ publish_enable' = publish_enable
      /\ unit' = unit /\ streams' = streams /\ state' = state /\ faults' = faults
      /\ pc = "open" /\ pc' \in {"reset", "returned"}
  BY DEF OpenFails, Open, Go, unitVars, nodeVars
<1>2. /\ sent = 0 /\ ~startup_received /\ ~publish_enable /\ state \in {"OPERATING", "CONFIG"}
      /\ faults \in 0 .. MaxFaults
  BY <1>1 DEF IInv, SentInOrder, Shown, Published, TypeOK
<1>3. Quiet
  BY <1>1, <1>2 DEF Quiet
<1>4. /\ startup_info' # <<>> =>
           \A p \in Verified : startup_info'[p] \in DOMAIN StartupTo[Kind(p)]
      /\ startup_received' => startup_info' # <<>>
  BY <1>1 DEF IInv, TypeOK
<1>5. /\ TypeOK' /\ launch' \in Launches /\ ConfigWanted' /\ Total' = Total
      /\ Undisturbed' => Done(sent', unit', config', streams', Frames(launch'.topics))
  BY <1>3, <1>4, QuietKeeps
<1>6. SentInOrder'
  BY <1>1, <1>2, <1>5 DEF IInv, SentInOrder
<1>7. Shown' /\ Published'
  BY <1>1, <1>2 DEF Shown, Published
<1>8. Progress'
  <2>1. ~(sent' > 0) /\ pc' \notin {"exit", "verify"}
    BY <1>1, <1>2
  <2>. QED
    BY <1>5, <2>1, Zenon DEF Progress
<1>. QED
  BY <1>5, <1>6, <1>7, <1>8 DEF IInv

\* The unit is reset.
LEMMA ResetStep == IInv /\ Reset => IInv'
<1>. SUFFICES ASSUME IInv, Reset PROVE IInv'
  OBVIOUS
<1>1. /\ launch' = launch /\ config' = config /\ sent' = sent
      /\ publish_enable' = publish_enable
      /\ unit' = unit /\ streams' = streams /\ state' = state
      /\ pc = "reset" /\ pc' = "configure" /\ OnStartup
  BY DEF Reset, Go, unitVars
<1>2. /\ sent = 0 /\ ~publish_enable /\ state \in {"OPERATING", "CONFIG"}
      /\ faults \in 0 .. MaxFaults /\ \A p \in Param : Parses(p, unit[p])
  BY <1>1 DEF IInv, SentInOrder, Published, TypeOK
<1>3. /\ faults' \in 0 .. MaxFaults /\ (faults' = 0 => faults = 0)
      /\ \/ startup_received' = startup_received /\ startup_info' = startup_info
         \/ /\ startup_received' = TRUE /\ startup_info' # <<>>
            /\ \A p \in Verified : startup_info'[p] = CodeFor(p, unit[p])
  BY <1>1, <1>2, StartupArrives
<1>4. /\ startup_info' # <<>> =>
           \A p \in Verified : startup_info'[p] \in DOMAIN StartupTo[Kind(p)]
      /\ startup_received' => startup_info' # <<>>
  <2>1. \A p \in Verified : CodeFor(p, unit[p]) \in DOMAIN StartupTo[Kind(p)]
    BY <1>2, CodeShows, VerifiedTable
  <2>. QED
    BY <1>3, <2>1 DEF IInv, TypeOK
<1>5. Quiet
  BY <1>1, <1>2, <1>3 DEF Quiet
<1>6. /\ TypeOK' /\ launch' \in Launches /\ ConfigWanted' /\ Total' = Total
      /\ Undisturbed' => Done(sent', unit', config', streams', Frames(launch'.topics))
  BY <1>4, <1>5, QuietKeeps
<1>7. SentInOrder'
  BY <1>1, <1>2, <1>6 DEF IInv, SentInOrder
<1>8. Shown' /\ Published'
  BY <1>1, <1>2 DEF Shown, Published
<1>9. Progress'
  <2>1. ~(sent' > 0) /\ pc' \notin {"exit", "verify"}
    BY <1>1, <1>2
  <2>. QED
    BY <1>6, <2>1, Zenon DEF Progress
<1>. QED
  BY <1>6, <1>7, <1>8, <1>9 DEF IInv

\* A command is sent.
LEMMA ConfigureStep == IInv /\ ConfigureIMU => IInv'
<1>. SUFFICES ASSUME IInv, ConfigureIMU PROVE IInv'
  OBVIOUS
<1>1. /\ launch' = launch /\ config' = config /\ startup_received' = startup_received
      /\ startup_info' = startup_info /\ publish_enable' = publish_enable
      /\ pc = "configure" /\ sent < Len(Commands(config, launch.topics))
      /\ Send(Commands(config, launch.topics)[sent + 1]) /\ sent' = sent + 1
      /\ pc' = IF sent' = Len(Commands(config, launch.topics)) THEN "clear" ELSE "configure"
  BY DEF ConfigureIMU, Go
<1>2. /\ launch \in Launches /\ Total \in Nat /\ Total > 0 /\ sent \in 0 .. Total
      /\ ~publish_enable
  BY <1>1, LaunchFacts DEF IInv, SentInOrder, Published
<1>3. Len(Commands(config, launch.topics)) = Total
  <2>1. 0 \in 0 .. Total - 1
    BY <1>2
  <2>. QED
    BY <1>2, <2>1, CommandPlaces
<1>4. PICK n \in Nat : n = sent
  BY <1>2
<1>5. n < Total /\ sent' = n + 1 /\ pc' = IF n + 1 = Total THEN "clear" ELSE "configure"
  BY <1>1, <1>3, <1>4
<1>6. PICK c : c = Commands(config, launch.topics)[n + 1] /\ Send(c)
  BY <1>1, <1>4, Zenon
<1>7. Obeyed(n)
  BY <1>1, <1>4, <1>5, <1>6, CommandSent
<1>8. TypeOK'
  <2>1. /\ \A p \in Param : Parses(p, unit'[p])
        /\ streams' \subseteq {"R", "E", "Q", "M", "G"} /\ state' \in {"OPERATING", "CONFIG"}
        /\ faults' \in 0 .. MaxFaults
    BY <1>7 DEF Obeyed, FrameKind
  <2>2. /\ \A p \in Param : config'[p] \in DOMAIN Enumerators[Kind(p)]
        /\ startup_info' # <<>> =>
             \A p \in Verified : startup_info'[p] \in DOMAIN StartupTo[Kind(p)]
        /\ startup_received' => startup_info' # <<>>
    BY <1>1 DEF IInv, TypeOK
  <2>3. pc' \in {"clear", "configure"}
    BY <1>5
  <2>. QED
    BY <2>1, <2>2, <2>3 DEF TypeOK
<1>9. ConfigWanted'
  BY <1>1, <1>5 DEF IInv, ConfigWanted, Wanted
<1>10. launch' \in Launches
  BY <1>1, <1>2
<1>11. SentInOrder'
  <2>1. Total' = Total
    BY <1>1 DEF Total
  <2>. QED
    BY <1>2, <1>5, <2>1 DEF SentInOrder
<1>12. Shown' /\ Published'
  BY <1>1, <1>2, <1>5 DEF Shown, Published
<1>13. Progress'
  <2>. SUFFICES ASSUME Undisturbed'
                PROVE  /\ Done(sent', unit', config', streams', Frames(launch'.topics))
                       /\ state' = "CONFIG" /\ pc' \notin {"exit", "verify", "returned"}
    BY Zenon DEF Progress
  <2>1. Connected /\ faults' = 0
    BY <1>1 DEF Undisturbed, Connected
  <2>2. state' = "CONFIG" /\ Done(n + 1, unit', config, streams', Frames(launch.topics))
    BY <1>7, <2>1 DEF Obeyed
  <2>3. Done(sent', unit', config', streams', Frames(launch'.topics))
    BY <1>1, <1>5, <2>2, Zenon
  <2>. QED
    BY <1>5, <2>2, <2>3
<1>. QED
  BY <1>8, <1>9, <1>10, <1>11, <1>12, <1>13 DEF IInv


\* The first startup frame is forgotten.
LEMMA ClearStep == IInv /\ ClearReceived => IInv'
<1>. SUFFICES ASSUME IInv, ClearReceived PROVE IInv'
  OBVIOUS
<1>1. /\ launch' = launch /\ config' = config /\ sent' = sent
      /\ startup_received' = FALSE
      /\ startup_info' = startup_info /\ publish_enable' = publish_enable
      /\ unit' = unit /\ streams' = streams /\ state' = state /\ faults' = faults
      /\ pc = "clear" /\ pc' = "suf"
  BY DEF ClearReceived, Go, unitVars
<1>2. /\ sent = Total /\ ~publish_enable /\ state \in {"OPERATING", "CONFIG"}
      /\ faults \in 0 .. MaxFaults
  BY <1>1 DEF IInv, SentInOrder, Published, TypeOK
<1>3. Quiet
  BY <1>1, <1>2 DEF Quiet
<1>4. /\ startup_info' # <<>> =>
           \A p \in Verified : startup_info'[p] \in DOMAIN StartupTo[Kind(p)]
      /\ startup_received' => startup_info' # <<>>
  BY <1>1 DEF IInv, TypeOK
<1>5. /\ TypeOK' /\ launch' \in Launches /\ ConfigWanted' /\ Total' = Total
      /\ Undisturbed' =>
           Undisturbed /\ Done(sent', unit', config', streams', Frames(launch'.topics))
  BY <1>3, <1>4, QuietKeeps
<1>6. SentInOrder'
  BY <1>1, <1>2, <1>5 DEF IInv, SentInOrder
<1>7. Shown' /\ Published'
  BY <1>1, <1>2 DEF Shown, Published
<1>8. Progress'
  <2>1. Undisturbed => (sent > 0 => state = "CONFIG")
    BY <1>1 DEF IInv, Progress
  <2>. QED
    BY <1>1, <1>5, <2>1 DEF Progress
<1>. QED
  BY <1>5, <1>6, <1>7, <1>8 DEF IInv

\* A startup frame is asked for.
LEMMA RequestStep == IInv /\ RequestStartup => IInv'
<1>. SUFFICES ASSUME IInv, RequestStartup PROVE IInv'
  OBVIOUS
<1>1. /\ launch' = launch /\ config' = config /\ sent' = sent
      /\ publish_enable' = publish_enable
      /\ unit' = unit /\ streams' = streams /\ state' = state
      /\ pc = "suf" /\ pc' = "exit"
      /\ IF state = "CONFIG" THEN OnStartup
                             ELSE UNCHANGED <<startup_received, startup_info, faults>>
  BY DEF RequestStartup, Go, unitVars
<1>2. /\ sent = Total /\ ~startup_received /\ ~publish_enable /\ launch \in Launches
      /\ state \in {"OPERATING", "CONFIG"}
      /\ faults \in 0 .. MaxFaults /\ \A p \in Param : Parses(p, unit[p])
  BY <1>1 DEF IInv, SentInOrder, Shown, Published, TypeOK
<1>3. /\ faults' \in 0 .. MaxFaults /\ (faults' = 0 => faults = 0)
      /\ \/ startup_received' = startup_received /\ startup_info' = startup_info
         \/ /\ startup_received' = TRUE /\ startup_info' # <<>>
            /\ \A p \in Verified : startup_info'[p] = CodeFor(p, unit[p])
      /\ Connected /\ faults' = 0 /\ state = "CONFIG" => startup_received'
  <2>1. CASE state = "CONFIG"
    BY <1>1, <1>2, <2>1, StartupArrives
  <2>2. CASE state # "CONFIG"
    <3>1. UNCHANGED <<startup_received, startup_info, faults>>
      BY <1>1, <2>2
    <3>. QED
      BY <1>2, <2>2, <3>1
  <2>. QED
    BY <2>1, <2>2
<1>4. /\ startup_info' # <<>> =>
           \A p \in Verified : startup_info'[p] \in DOMAIN StartupTo[Kind(p)]
      /\ startup_received' => startup_info' # <<>>
  <2>1. \A p \in Verified : CodeFor(p, unit[p]) \in DOMAIN StartupTo[Kind(p)]
    BY <1>2, CodeShows, VerifiedTable
  <2>. QED
    BY <1>3, <2>1 DEF IInv, TypeOK
<1>5. Quiet
  BY <1>1, <1>2, <1>3 DEF Quiet
<1>6. /\ TypeOK' /\ launch' \in Launches /\ ConfigWanted' /\ Total' = Total
      /\ Undisturbed' =>
           Undisturbed /\ Done(sent', unit', config', streams', Frames(launch'.topics))
  BY <1>4, <1>5, QuietKeeps
<1>7. SentInOrder'
  BY <1>1, <1>2, <1>6 DEF IInv, SentInOrder
<1>8. Shown'
  <2>1. startup_received' => \A p \in Verified : startup_info'[p] = CodeFor(p, unit'[p])
    BY <1>1, <1>2, <1>3
  <2>. QED
    BY <1>1, <2>1 DEF Shown
<1>9. Published'
  BY <1>1, <1>2 DEF Published
<1>10. Progress'
  <2>. SUFFICES ASSUME Undisturbed'
                PROVE  /\ Done(sent', unit', config', streams', Frames(launch'.topics))
                       /\ state' = "CONFIG" /\ startup_received' /\ pc' = "exit"
    BY Zenon DEF Progress
  <2>1. sent > 0
    BY <1>2, LaunchFacts
  <2>2. state = "CONFIG"
    BY <1>1, <1>6, <2>1 DEF IInv, Progress
  <2>3. Connected /\ faults' = 0
    BY <1>1 DEF Undisturbed, Connected
  <2>. QED
    BY <1>1, <1>3, <1>6, <2>2, <2>3
<1>. QED
  BY <1>6, <1>7, <1>8, <1>9, <1>10 DEF IInv

\* The unit is told to leave CONFIG.
LEMMA ExitStep == IInv /\ Exit => IInv'
<1>. SUFFICES ASSUME IInv, Exit PROVE IInv'
  OBVIOUS
<1>1. /\ launch' = launch /\ config' = config /\ sent' = sent
      /\ startup_received' = startup_received
      /\ startup_info' = startup_info /\ publish_enable' = publish_enable
      /\ pc = "exit" /\ pc' = "verify" /\ Send(Command("EXIT", ""))
  BY DEF Exit, Go, nodeVars
<1>2. sent = Total /\ ~publish_enable /\ TypeOK /\ (\A p \in Param : Parses(p, unit[p]))
  BY <1>1 DEF IInv, SentInOrder, Published, TypeOK
<1>3. PICK c : c = Command("EXIT", "") /\ Send(c)
  BY <1>1
<1>4. /\ state' \in {"OPERATING", "CONFIG"} /\ streams' = streams
      /\ faults' \in 0 .. MaxFaults /\ (faults' = 0 => faults = 0)
      /\ \A q \in Param : unit'[q] = unit[q]
  <2>1. IsCommand(c, "EXIT", "")
    BY <1>3 DEF IsCommand
  <2>. QED
    BY <1>2, <1>3, <2>1, SendState
<1>5. Quiet
  BY <1>1, <1>4 DEF Quiet
<1>6. /\ startup_info' # <<>> =>
           \A p \in Verified : startup_info'[p] \in DOMAIN StartupTo[Kind(p)]
      /\ startup_received' => startup_info' # <<>>
  BY <1>1 DEF IInv, TypeOK
<1>7. /\ TypeOK' /\ launch' \in Launches /\ ConfigWanted' /\ Total' = Total
      /\ Undisturbed' =>
           Undisturbed /\ Done(sent', unit', config', streams', Frames(launch'.topics))
  BY <1>5, <1>6, QuietKeeps
<1>8. SentInOrder'
  BY <1>1, <1>2, <1>7 DEF IInv, SentInOrder
<1>9. Shown'
  <2>1. startup_received => \A p \in Verified : startup_info[p] = CodeFor(p, unit[p])
    BY <1>1 DEF IInv, Shown
  <2>2. \A p \in Verified : unit'[p] = unit[p]
    BY <1>4, VerifiedTable
  <2>3. startup_received' => \A p \in Verified : startup_info'[p] = CodeFor(p, unit'[p])
    BY <1>1, <2>1, <2>2, Zenon
  <2>. QED
    BY <1>1, <2>3 DEF Shown
<1>10. Published'
  BY <1>1, <1>2 DEF Published
<1>11. Progress'
  <2>1. Undisturbed => startup_received
    BY <1>1 DEF IInv, Progress
  <2>. QED
    BY <1>1, <1>7, <2>1 DEF Progress
<1>. QED
  BY <1>7, <1>8, <1>9, <1>10, <1>11 DEF IInv

\* Without a fault every setting that is described is the one wanted.
LEMMA AllApplied ==
  ASSUME IInv, Undisturbed, sent = Total
  PROVE  \A p \in Param : Described(p, config[p]) => unit[p] = Enumerators[Kind(p)][config[p]]
<1>. SUFFICES ASSUME NEW p \in Param, Described(p, config[p])
              PROVE  unit[p] = Enumerators[Kind(p)][config[p]]
  OBVIOUS
<1>1. Done(sent, unit, config, streams, Frames(launch.topics))
  BY DEF IInv, Progress
<1>2. PICK m \in Nat : m = Len(Frames(launch.topics))
  BY LaunchFacts DEF IInv
<1>3. sent = 17 + m
  BY <1>2 DEF Total
<1>4. Slot[p] \in {2} \cup 7 .. 17
  BY SlotTable
<1>5. Slot[p] <= sent
  BY <1>3, <1>4
<1>. QED
  BY <1>1, <1>5, Zenon DEF Done

\* What the startup frame shows is compared with what is wanted.
LEMMA VerifyStep == IInv /\ VerifyStartupConfig => IInv'
<1>. SUFFICES ASSUME IInv, VerifyStartupConfig PROVE IInv'
  OBVIOUS
<1>1. /\ launch' = launch /\ config' = config /\ sent' = sent
      /\ startup_received' = startup_received /\ startup_info' = startup_info
      /\ publish_enable' = (startup_received /\ Matches)
      /\ unit' = unit /\ streams' = streams /\ state' = state /\ faults' = faults
      /\ pc = "verify" /\ pc' = "returned"
  BY DEF VerifyStartupConfig, Go, unitVars
<1>2. /\ sent = Total /\ state \in {"OPERATING", "CONFIG"} /\ faults \in 0 .. MaxFaults
      /\ \A p \in Param : Parses(p, unit[p]) /\ config[p] \in DOMAIN Enumerators[Kind(p)]
  BY <1>1 DEF IInv, SentInOrder, TypeOK
<1>3. Quiet
  BY <1>1, <1>2 DEF Quiet
<1>4. /\ startup_info' # <<>> =>
           \A p \in Verified : startup_info'[p] \in DOMAIN StartupTo[Kind(p)]
      /\ startup_received' => startup_info' # <<>>
  BY <1>1 DEF IInv, TypeOK
<1>5. /\ TypeOK' /\ launch' \in Launches /\ ConfigWanted' /\ Total' = Total
      /\ Undisturbed' =>
           Undisturbed /\ Done(sent', unit', config', streams', Frames(launch'.topics))
  BY <1>3, <1>4, QuietKeeps
<1>6. SentInOrder'
  BY <1>1, <1>2, <1>5 DEF IInv, SentInOrder
<1>7. Shown'
  BY <1>1 DEF IInv, Shown
<1>8. Published'
  <2>1. Matches' <=> Matches
    BY <1>1 DEF Matches
  <2>. QED
    BY <1>1, <2>1 DEF Published
<1>9. Progress'
  <2>. SUFFICES ASSUME Undisturbed'
                PROVE  /\ Done(sent', unit', config', streams', Frames(launch'.topics))
                       /\ (\A p \in Param : Described(p, config'[p])) => publish_enable'
                       /\ pc' = "returned"
    BY Zenon DEF Progress
  <2>1. Undisturbed /\ startup_received
    BY <1>1, <1>5 DEF IInv, Progress
  <2>2. \A p \in Verified : startup_info[p] = CodeFor(p, unit[p])
    BY <1>1, <2>1 DEF IInv, Shown
  <2>3. ASSUME \A p \in Param : Described(p, config[p]) PROVE Matches
    <3>. SUFFICES ASSUME NEW p \in Verified PROVE ToStartup[Kind(p)][config[p]] = startup_info[p]
      BY DEF Matches
    <3>1. p \in Param
      BY VerifiedTable
    <3>2. unit[p] = Enumerators[Kind(p)][config[p]]
      BY <1>2, <2>1, <2>3, <3>1, AllApplied
    <3>3. ToStartup[Kind(p)][config[p]] = CodeFor(p, unit[p])
      BY <1>2, <3>1, <3>2, CodeShows
    <3>. QED
      BY <2>2, <3>3
  <2>. QED
    BY <1>1, <1>5, <2>1, <2>3
<1>. QED
  BY <1>5, <1>6, <1>7, <1>8, <1>9 DEF IInv

\* The invariant holds in every state.
THEOREM Inductive == Spec => []IInv
<1>1. Init => IInv
  BY InitIInv
<1>2. IInv /\ [Next]_vars => IInv'
  <2>. SUFFICES ASSUME IInv, [Next]_vars PROVE IInv'
    OBVIOUS
  <2>1. CASE UNCHANGED vars
    BY <2>1 DEF vars, nodeVars, unitVars, IInv, TypeOK, ConfigWanted, Wanted, SentInOrder, Total,
                Shown, Published, Matches, Progress, Undisturbed, Connected
  <2>. QED
    BY <2>1, ParseStep, OpenStep, ResetStep, ConfigureStep, ClearStep, RequestStep, ExitStep,
       VerifyStep, Zenon DEF Next
<1>. QED
  BY <1>1, <1>2, PTL DEF Spec

-----------------------------------------------------------------------------
(* What it shows                                                           *)

\* Whatever is asked, saved, lost or altered, config_ holds enumerators, the unit's
\* settings are some there are, and what on_frame keeps of a startup frame are codes
\* that startupTo* knows.
THEOREM TypeCorrect == Spec => []TypeOK
<1>1. IInv => TypeOK
  BY DEF IInv
<1>. QED
  BY <1>1, Inductive, PTL

\* While the node publishes, the unit has the settings wanted that the startup frame
\* shows, and get_config reports them.
THEOREM SettingsAsAsked == Spec => []PublishesAsAsked
<1>1. IInv => PublishesAsAsked
  <2>. SUFFICES ASSUME IInv, publish_enable, NEW p \in Verified
                PROVE  unit[p] = Wanted(p) /\ GetConfig(p) = Wanted(p)
    BY DEF PublishesAsAsked
  <2>1. pc = "returned" /\ startup_received /\ Matches
    BY DEF IInv, Published
  <2>2. p \in Param /\ Kind(p) \in StartupKinds
    BY VerifiedTable
  <2>3. Parses(p, unit[p]) /\ config[p] \in DOMAIN Enumerators[Kind(p)]
    BY <2>1, <2>2 DEF IInv, TypeOK
  <2>4. startup_info[p] = CodeFor(p, unit[p])
    BY <2>1 DEF IInv, Shown
  <2>5. ToStartup[Kind(p)][config[p]] = startup_info[p]
    BY <2>1 DEF Matches
  <2>6. Enumerators[Kind(p)][config[p]] = unit[p]
    BY <2>3, <2>4, <2>5, CodeShows
  <2>7. Enumerators[Kind(p)][config[p]] = Wanted(p)
    BY <2>1, <2>2 DEF IInv, ConfigWanted
  <2>8. GetConfig(p) = Enumerators[Kind(p)][config[p]]
    BY <2>2, <2>3, StartupTable DEF GetConfig
  <2>. QED
    BY <2>6, <2>7, <2>8
<1>. QED
  BY <1>1, Inductive, PTL

\* A launch over RS-422 at the unit's rate is connected.
LEMMA FaultFreeFacts ==
  ASSUME IInv, FaultFree
  PROVE  /\ Undisturbed /\ sent = Total /\ pc = "returned"
         /\ (\A p \in Param : Described(p, config[p])) => publish_enable
<1>1. /\ pc = "returned" /\ sent > 0 /\ faults = 0 /\ launch.transport = "RS422"
      /\ launch.unit_baud = IF launch.baudrate \in Rate THEN launch.baudrate ELSE 921600
  BY DEF FaultFree
<1>2. Undisturbed
  BY <1>1 DEF Undisturbed, Connected, BaudToTermios
<1>3. sent = Total
  BY <1>1 DEF IInv, SentInOrder
<1>. QED
  BY <1>1, <1>2, <1>3 DEF IInv, Progress

\* A launch over a line without faults applies every parameter with a text that its
\* description allows, and ends in publishing if all are such.
THEOREM CleanLaunchApplies == Spec => []FaultFreeApplies
<1>1. IInv => FaultFreeApplies
  <2>. SUFFICES ASSUME IInv, FaultFree
                PROVE  /\ \A p \in Param : Wanted(p) \notin Excepted(p) => unit[p] = Wanted(p)
                       /\ (\A p \in Param : Wanted(p) \notin Excepted(p)) => publish_enable
    BY DEF FaultFreeApplies
  <2>1. /\ Undisturbed /\ sent = Total /\ pc = "returned"
        /\ (\A p \in Param : Described(p, config[p])) => publish_enable
    BY FaultFreeFacts
  <2>2. \A p \in Param : Described(p, config[p]) => unit[p] = Enumerators[Kind(p)][config[p]]
    BY <2>1, AllApplied
  <2>3. \A p \in Param : Enumerators[Kind(p)][config[p]] = Wanted(p)
    BY <2>1 DEF IInv, ConfigWanted
  <2>. QED
    BY <2>1, <2>2, <2>3 DEF Described
<1>. QED
  BY <1>1, Inductive, PTL

\* Such a launch ends with the unit sending the frames of all the topics, and of
\* those disabled first no others.
THEOREM CleanLaunchFeeds == Spec => []TopicsAreFed
<1>1. IInv => TopicsAreFed
  <2>. SUFFICES ASSUME IInv, FaultFree
                PROVE  /\ Needed(launch.topics) \subseteq streams
                       /\ streams \ {"G"} \subseteq Needed(launch.topics)
    BY DEF TopicsAreFed, Needed
  <2>1. Undisturbed /\ sent = Total
    BY FaultFreeFacts
  <2>2. PICK fs \in Seq(FrameKind) : fs = Frames(launch.topics)
    BY LaunchFacts DEF IInv
  <2>3. PICK m \in Nat : m = Len(fs)
    OBVIOUS
  <2>4. sent = 17 + m
    BY <2>1, <2>2, <2>3 DEF Total
  <2>5. Done(sent, unit, config, streams, fs)
    BY <2>1, <2>2, Zenon DEF IInv, Progress
  <2>6. launch.topics \in SUBSET Topic
    BY LaunchFacts DEF IInv
  <2>7. \A f \in FrameKind : In(f, fs) <=> f \in Needed(launch.topics)
    BY <2>2, <2>6, FramesNeeded
  <2>8. ASSUME NEW f \in Needed(launch.topics) PROVE f \in streams
    <3>1. f \in FrameKind
      <4>1. PICK t \in launch.topics : f \in Needs(t)
        BY DEF Needed
      <4>2. t \in {"raw", "euler", "quat", "rot", "gnss", "standard"}
        BY <2>6 DEF Topic
      <4>. QED
        BY <4>1, <4>2 DEF Needs, FrameKind
    <3>2. PICK j \in 1 .. m : fs[j] = f
      BY <2>3, <2>7, <3>1 DEF In
    <3>3. 17 + j <= sent
      BY <2>4
    <3>4. fs[j] \in streams
      BY <2>3, <2>5, <3>3, Zenon DEF Done
    <3>. QED
      BY <3>2, <3>4
  <2>9. ASSUME NEW f \in streams \ {"G"} PROVE f \in Needed(launch.topics)
    <3>1. f \in {"R", "E", "Q", "M"}
      BY <2>9 DEF IInv, TypeOK
    <3>2. PICK i \in 1 .. 4 : Disabled[i] = f
      BY <3>1 DEF Disabled
    <3>3. sent >= 2 + i
      BY <2>4
    <3>4. PICK j \in 1 .. Len(fs) : fs[j] = Disabled[i]
      BY <2>5, <2>9, <3>2, <3>3, Zenon DEF Done
    <3>5. f \in FrameKind /\ In(f, fs)
      BY <3>1, <3>2, <3>4 DEF In, FrameKind
    <3>. QED
      BY <2>7, <3>5
  <2>. QED
    BY <2>8, <2>9
<1>. QED
  BY <1>1, Inductive, PTL

=============================================================================
