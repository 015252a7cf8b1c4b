---------------------------- MODULE MC_GvretLink ----------------------------
(* Payloads full of sync bytes, ids at both ends of their masks, and the   *)
(* halves of messages a host may be thrown into.                           *)
EXTENDS GvretLink

MCAsks ==
  {[op |-> OP_TIMEBASE],
   [op |-> OP_FRAME, bus |-> 1, id |-> <<241, 7, 0, 0>>, extended |-> FALSE,
    data |-> <<CMD, OP_NUM_BUSES, 231>>]}

MCPushes ==
  {[ts |-> <<1, 2, 3, 4>>, id |-> <<255, 255, 255, 31>>, extended |-> TRUE, bus |-> 2,
    data |-> <<7, 7, 7>>, fd |-> FALSE],
   [ts |-> <<0, 0, 0, CMD>>, id |-> <<35, 1, 0, 0>>, extended |-> FALSE, bus |-> 0,
    data |-> <<CMD, OP_FRAME, CMD, OP_NUM_BUSES, 1, 1, 1, 1, CMD>>, fd |-> TRUE]}

MCNoises == {<<7, 7>>, <<CMD, 231>>}

Zeros(n) == [i \in 1 .. n |-> 0]
MCRubbish ==
  {<<>>, <<0, 5, CMD>>, <<CMD, OP_NUM_BUSES>>, <<CMD, OP_FRAME>> \o Zeros(8) \o <<9>>}
=============================================================================
