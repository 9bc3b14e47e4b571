--------------------------- MODULE MCConfiguration ---------------------------
(* Launches that differ from the defaults in one thing: the text of one       *)
(* parameter and what the unit had saved for it, the topics and the frames    *)
(* the unit had saved, the transport or the baud rates.                       *)
EXTENDS Configuration

Default == [asked |-> [p \in Param |-> "unset"], topics |-> {"standard"}, transport |-> "RS422",
            baudrate |-> 921600, unit_baud |-> 921600,
            saved |-> [p \in Param |-> Declared(p)], streams |-> {"E", "G"}]

Values(p) == Range(Enumerators[Kind(p)])

MCLaunches ==
  UNION {{[Default EXCEPT !.asked[p] = asked, !.saved[p] = saved] :
            asked \in Values(p) \cup {"other", "unset"}, saved \in Values(p)} : p \in Param}
  \cup {[Default EXCEPT !.topics = topics, !.streams = sending] :
          topics \in SUBSET Topic, sending \in {{}, {"R", "E", "Q", "M", "G"}}}
  \cup {[Default EXCEPT !.transport = transport, !.baudrate = baudrate, !.unit_baud = rate] :
          transport \in {"RS422", "CANFD"}, baudrate \in Rate \cup {19200, -1}, rate \in Rate}
=============================================================================
