--------------------------- MODULE MCFramePublisher ---------------------------
(* Raw and Euler topics beside the standard messages: a topic that shares its *)
(* frame with the Imu message, one that does not, and a frame without a topic *)
(* of its own; and the monitor on the raw topic.                              *)
EXTENDS CounterMonitor
=============================================================================
