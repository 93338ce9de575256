--------------------------- MODULE MCT5Board ---------------------------
(* The expander writes: a port's output and direction registers, the key   *)
(* always an input.                                                        *)
EXTENDS T5Board

Port0 == {"rail"}
Port1 == {"sequence", "function", "railGood", "interrupt"}
MCWrites ==
  [for : {"radio"}, register : {"config"}, port : {Port0}, high : SUBSET Port0]
  \cup [for : {"receiver"}, register : {"output", "config"}, port : {Port0}, high : SUBSET Port0]
  \cup [for : {"supply"}, register : {"output", "config"}, port : {Port1},
        high : {Port1, Port1 \ {"sequence"}}]
  \cup [for : {"supply"}, register : {"polarity"}, port : {Port1}, high : {{}, {"railGood"}}]
MCSetFixtures == {"fixed", "silent", "stale"}
MCActivities == {{"input", "supply"}, {"receiver"}, {"radio"}}
MCSent == {"nop", "tx", "rx", "rx_until", "standby", "sleep", "clear", "unknown"}
MCRadioFaults == {"none", "missing", "stuck", "deaf", "bad"}
MCDelays == {1, 3}

=============================================================================
