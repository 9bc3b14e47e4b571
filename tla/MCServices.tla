------------------------------ MODULE MCServices ------------------------------
(* Two forms, two registers of each calibration: a zeroing, a clearing, a set  *)
(* of writes may each be interrupted between two of its parts.                 *)
EXTENDS Services

MCOrientation  == <<"quaternion", "euler">>
MCBiasRegister == <<"GXB", "GYB">>
MCMagRegister  == <<"MXB", "MYB">>
=============================================================================
