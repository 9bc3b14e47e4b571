--------------------------- MODULE MCDriverStartup ---------------------------
(* A few parameters stand for the others: the gyroscope range is sent and    *)
(* verified as nine others are, the heading source is sent and not verified, *)
(* and the misalignment correction is neither.                               *)
EXTENDS DriverStartup

MCSent     == SelectSeq(<<"incl_range", "gyro_range", "ahrs_heading">>, LAMBDA s : s \in Setting)
MCVerified == Setting \cap {"incl_range", "gyro_range"}
MCRequest  == [s \in Setting |-> 1]

\* The gyroscope range differs from the request, the others may.
MCSavedBefore == {f \in [Setting -> Value] : f["gyro_range"] = 0}
=============================================================================
