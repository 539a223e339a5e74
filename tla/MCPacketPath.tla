---------------------------- MODULE MCPacketPath ----------------------------
(* Small instances of PacketPath for TLC.                                  *)
EXTENDS PacketPath

Default == [dirs |-> {}, fams |-> {}, nohopest |-> FALSE, pct |-> 0, ttl |-> 3,
            repeat |-> 2, white |-> {}, black |-> {}, payloads |-> <<>>]

MCLength == [random |-> 1000, short |-> 0, longest |-> 1199, tooLong |-> 1200,
             huge |-> 1560]

(* As many hops as the TTL, and one more.                                  *)
MCHostTtls == {61, 251}

(* 13 and 5 share the bit of their byte.                                   *)
MCPorts == {5, 13}

MCCommandLines == {
  [Default EXCEPT !.dirs = {"out"}, !.repeat = 1, !.white = {[lo |-> 4, hi |-> 6]},
     !.payloads = <<"short", "longest", "random">>],
  [Default EXCEPT !.fams = {"ip6"}, !.pct = 99, 
     !.black = {[lo |-> 13, hi |-> 13]}, !.payloads = <<"longest", "short">>],
  [Default EXCEPT !.nohopest = TRUE, !.ttl = 255, !.repeat = 1],
  [Default EXCEPT !.payloads = <<"short", "tooLong">>],
  [Default EXCEPT !.dirs = {"out"}, !.payloads = <<"huge">>],
  [Default EXCEPT !.pct = 100],
  [Default EXCEPT !.nohopest = TRUE, !.pct = 50]}

MCNames == {"wan", "ppp"}
=============================================================================
