---------------------------- MODULE MCPacketHops ----------------------------
(* PacketPath with one peer, and an observer that remembers how far away   *)
(* the peer was by its last packet.                                        *)
EXTENDS PacketPath

VARIABLE heard  \* hops of the last packet that came in; 0 if none

MCLength == [random |-> 1000]

MCCommandLines == {
  [dirs |-> dirs, fams |-> {"ip"}, nohopest |-> FALSE, pct |-> pct, ttl |-> 3,
   repeat |-> 2, white |-> {}, black |-> {}, payloads |-> <<>>] :
  dirs \in {{}, {"out"}}, pct \in {0, 60}}

MCInit == Init /\ heard = 0

MCNext ==
  /\ Next
  /\ heard' = IF held' # NoPacket /\ ~held'.out THEN Hops(held'.ttl)
              ELSE heard

MCSpec == MCInit /\ [][MCNext]_<<vars, heard>>

(* With -y the TTL of a decoy is raised to that percentage of the hops     *)
(* estimated for its peer, and no further (README.md:50 of fakesip).       *)
RaisedToEstimate ==
  \A d \in wire : line.pct # 0 /\ heard # 0 =>
    d.ttl = IF (heard * line.pct) \div 100 > line.ttl
            THEN (heard * line.pct) \div 100 ELSE line.ttl
=============================================================================
