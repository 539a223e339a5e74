----------------------------- MODULE PacketPath -----------------------------
(***************************************************************************)
(* What one FakeSIP process does with the packets its queue holds: from    *)
(* the command line and the payloads it loads to the decoys it sends for a *)
(* packet and the verdict that lets the packet go.                         *)
(*                                                                         *)
(* A decoy for a packet that came in leaves through a packet socket and    *)
(* names its device.  A decoy for a packet going out leaves through a raw  *)
(* socket, one per family, that is bound to a device: the process          *)
(* remembers the device it bound each socket to.  Devices come and go; a   *)
(* device that comes back has its old name and a new index.                *)
(***************************************************************************)
EXTENDS Naturals, Sequences

CONSTANTS
  CommandLines,  \* command lines the process is started with
  Length,        \* length of what each payload option makes
  HostTtls,      \* TTLs of packets that come in
  Ports,         \* ports of packets
  Names,         \* names of devices
  MaxIndex,      \* bound: devices that ever exist
  Faults         \* may a call to the kernel fail for no modelled reason

Families == {"ip", "ip6"}
MaxPort == 65535
Port == 1 .. MaxPort
MaxTtl == 255
Ttl == 0 .. MaxTtl
Range == [lo : Nat, hi : Nat]

Payloads == DOMAIN Length

(* -0 -1, -4 -6, -g, -y, -t, -r, -p, -P, -u -b; pct is 0 without -y.       *)
CommandLine ==
  [dirs : SUBSET {"out", "in"}, fams : SUBSET Families, nohopest : BOOLEAN,
   pct : Nat, ttl : Nat, repeat : Nat, white : SUBSET Range,
   black : SUBSET Range, payloads : Seq(Payloads)]

Random == "random"  \* the SIP invitation made when no payload is given
MaxPayload == 1200
PacketBuffer == 1600

ASSUME PathAssumption ==
  /\ CommandLines \subseteq CommandLine
  /\ Length \in [Payloads -> Nat]
  /\ Random \in Payloads
  /\ HostTtls \subseteq Ttl
  /\ Ports \subseteq Port
  /\ MaxIndex \in Nat
  /\ Faults \in BOOLEAN

VARIABLES
  pc,
  line,      \* the command line
  loaded,    \* payload nodes there are; node i holds the i-th payload
  next,      \* their ring
  current,   \* the node whose payload is sent next
  nameOf,    \* name of each device there has been, by index
  live,      \* indexes of the devices there are
  old,       \* the kernel does not know SO_BINDTOIFINDEX
  byIndex,   \* use_bindtoifindex
  bound,     \* device the raw socket of each family is bound to
  cached,    \* sock4if and sock6if; 0 if none
  held,      \* the packet held
  device,    \* name under which a socket is about to be bound
  left,      \* decoys left to send for the packet
  aim,       \* TTL and payload of its decoys
  wire,      \* decoys sent for it
  fate       \* what has become of the packet of the last message

settings == <<line, loaded, next>>
devices == <<nameOf, live, old>>
sockets == <<byIndex, bound, cached>>
burst == <<left, aim, wire, fate>>
vars == <<pc, settings, current, devices, sockets, held, device, burst>>

(* A packet of the kind "odd" has no usable device, is too short, is not   *)
(* UDP, or has an extension header.                                        *)
Kinds == Families \union {"odd"}

(* The TTL is the last one known of the peer, the ports are those of both  *)
(* ends.                                                                   *)
Packet ==
  [kind : Kinds, out : BOOLEAN, ttl : Ttl,
   dev : 1 .. MaxIndex, ports : SUBSET Port]

NoPacket == [kind |-> "none"]
NoDevice == "none"
EmptyRing == [i \in 1 .. 0 |-> i]
NoAim == [ttl |-> 0, node |-> 0]
Unbound == [f \in Families |-> 0]

(* Not answered yet; released; left with the kernel, which refused its     *)
(* verdict; left there because its message could not be read.              *)
Fates == {"open", "released", "refused", "unread"}

---------------------------------------------------------------------------
(* The command line.                                                       *)

ValidRange(r) == r.lo \in Port /\ r.hi \in Port /\ r.lo <= r.hi

Accepted(cl) ==
  /\ \A r \in cl.white \union cl.black : ValidRange(r)
  /\ cl.ttl \in 1 .. MaxTtl /\ cl.repeat \in 1 .. 10 /\ cl.pct < 100
  /\ ~(cl.pct # 0 /\ cl.nohopest)

(* What is not chosen is chosen whole.                                     *)
Directions(cl) == IF cl.dirs = {} THEN {"out", "in"} ELSE cl.dirs
FamiliesOf(cl) == IF cl.fams = {} THEN Families ELSE cl.fams
PayloadsOf(cl) == IF cl.payloads = <<>> THEN <<Random>> ELSE cl.payloads

(* Fault: the bit is looked for in the first byte.                         *)
BitOfByte(p) == <<0, p % 8>>

(* A port map is 8192 bytes of 8 bits.                                     *)
Bit(p) == <<p \div 8, p % 8>>

Bitmap(ranges) == UNION {{Bit(p) : p \in r.lo .. r.hi} : r \in ranges}
Marked(map, p) == Bit(p) \in map

Start ==
  /\ pc = "off"
  /\ \E cl \in CommandLines : Accepted(cl) /\ line' = cl
  /\ pc' = "payload"
  /\ UNCHANGED <<loaded, next, current, devices, sockets, held, device, burst>>

Init ==
  /\ pc = "off" /\ line \in CommandLines
  /\ loaded = 0 /\ next = EmptyRing /\ current = 0
  /\ nameOf = <<>> /\ live = {} /\ old \in BOOLEAN
  /\ byIndex = TRUE /\ bound = Unbound /\ cached = Unbound
  /\ held = NoPacket /\ device = NoDevice
  /\ left = 0 /\ aim = NoAim /\ wire = {}
  /\ fate = "open"

(* The process ends; the next one starts with fresh globals.               *)
End ==
  /\ pc' = "off"
  /\ loaded' = 0 /\ next' = EmptyRing /\ current' = 0
  /\ byIndex' = TRUE /\ bound' = Unbound /\ cached' = Unbound

---------------------------------------------------------------------------
(* Payloads.                                                               *)

(* Fault: as much is read as a packet can hold.                            *)
LoadsPacketful(p) == Length[p] < PacketBuffer

(* A payload must leave one byte of its buffer free.                       *)
Loads(p) == Length[p] < MaxPayload

(* Fault: the new node is linked to itself.                                *)
InsertedAlone == [i \in 1 .. loaded + 1 |->
  CASE i = 1 -> loaded + 1
    [] i # 1 /\ i = loaded + 1 -> loaded + 1
    [] OTHER -> next[i]]

(* A new node comes right after the first one.                             *)
Inserted == [i \in 1 .. loaded + 1 |->
  CASE i = 1 -> loaded + 1
    [] i # 1 /\ i = loaded + 1 -> next[1]
    [] OTHER -> next[i]]

LoadPayload ==
  /\ pc = "payload" /\ loaded < Len(PayloadsOf(line))
  /\ Loads(PayloadsOf(line)[loaded + 1])
  /\ loaded' = loaded + 1 /\ next' = Inserted /\ current' = 1
  /\ UNCHANGED <<pc, line, devices, sockets, held, device, burst>>

PayloadsLoaded ==
  /\ pc = "payload" /\ loaded = Len(PayloadsOf(line))
  /\ pc' = "open" /\ current' = next[1]
  /\ UNCHANGED <<settings, devices, sockets, held, device, burst>>

PayloadFails ==
  /\ pc = "payload" /\ loaded < Len(PayloadsOf(line))
  /\ ~Loads(PayloadsOf(line)[loaded + 1]) \/ Faults
  /\ End
  /\ UNCHANGED <<line, devices, held, device, burst>>

(* The three sockets, and the queue and its rules.                         *)
Open ==
  /\ pc = "open" /\ pc' = "recv"
  /\ UNCHANGED <<settings, current, devices, sockets, held, device, burst>>

OpenFails ==
  /\ pc = "open" /\ Faults
  /\ End
  /\ UNCHANGED <<line, devices, held, device, burst>>

Stop ==
  /\ pc = "recv"
  /\ End
  /\ UNCHANGED <<line, devices, held, device, burst>>

---------------------------------------------------------------------------
(* The decision.                                                           *)

Hops(ttl) ==
  IF ttl <= 64 THEN 64 - ttl ELSE IF ttl <= 128 THEN 128 - ttl ELSE 255 - ttl

(* The TTLs of packets that came in are never stored (nothing calls        *)
(* fs_srcinfo_put): for a packet going out the lookup of its peer fails.   *)
PeerTtls(out) == IF out THEN {0} ELSE HostTtls

SendTtl(hops) ==
  LET raised == (hops * line.pct) \div 100
  IN IF raised > line.ttl THEN raised ELSE line.ttl

PortsAllow(k) ==
  LET in(ranges) == \E p \in k.ports : Marked(Bitmap(ranges), p)
  IN (line.white = {} \/ in(line.white)) /\ ~in(line.black)

(* Fault: a peer just as far away is not spared.                           *)
LocalStrict(k) == ~line.nohopest /\ Hops(k.ttl) < line.ttl

(* The peer is closer than a decoy would reach.                            *)
Local(k) == ~line.nohopest /\ Hops(k.ttl) <= line.ttl

Faked(k) ==
  /\ k.kind \in FamiliesOf(line)
  /\ PortsAllow(k)
  /\ (IF k.out THEN "out" ELSE "in") \in Directions(line)
  /\ ~Local(k)

(* nfq_handle_packet.                                                      *)
Receive ==
  /\ pc = "recv"
  /\ \E kind \in Kinds, out \in BOOLEAN, dev \in live,
        p \in Ports, q \in Ports : \E ttl \in PeerTtls(out) :
       LET k == [kind |-> kind, out |-> out, ttl |-> ttl, dev |-> dev,
                 ports |-> {p, q}]
       IN /\ held' = k /\ fate' = "open"
          /\ IF Faked(k)
             THEN /\ pc' = "send" /\ left' = line.repeat
                  /\ aim' = [ttl |-> IF line.nohopest THEN line.ttl
                                     ELSE SendTtl(Hops(k.ttl)),
                             node |-> current]
                  /\ current' = next[current]
             ELSE pc' = "release" /\ UNCHANGED <<left, aim, current>>
  /\ UNCHANGED <<settings, devices, sockets, device, wire>>

(* A message without a packet header: there is no identifier to give a     *)
(* verdict for.                                                            *)
ReceiveUnread ==
  /\ pc = "recv" /\ Faults
  /\ fate' = "unread"
  /\ UNCHANGED <<pc, settings, current, devices, sockets, held, device, left,
                 aim, wire>>

(* The process is done with the packet, whatever became of its decoys.     *)
Done(outcome) ==
  /\ pc = "release"
  /\ pc' = "recv" /\ held' = NoPacket
  /\ left' = 0 /\ aim' = NoAim /\ wire' = {} /\ fate' = outcome
  /\ UNCHANGED <<settings, current, devices, sockets, device>>

(* The packet goes as it came.                                             *)
Release == Done("released")

(* nfq_set_verdict fails: its packet stays with the kernel, and the loop   *)
(* counts an error.                                                        *)
ReleaseFails == Faults /\ Done("refused")

---------------------------------------------------------------------------
(* The decoys.                                                             *)

(* Headers of IP and UDP, and the payload.                                 *)
PacketLength(f, p) == (IF f = "ip" THEN 20 ELSE 40) + 8 + Length[p]

Decoy(dev) == [dev |-> dev, ttl |-> aim.ttl, node |-> aim.node]

(* The socket of the family of the packet held.                            *)
Family == held.kind

(* The raw socket is bound to the device of the packet, so far as the      *)
(* process remembers.                                                      *)
IsBound == cached[Family] = held.dev

(* The device the next decoy leaves by.                                    *)
Exit == IF held.out THEN bound[Family] ELSE held.dev

(* Fault: one decoy too many.                                              *)
AfterDecoyLate == IF left = 0 THEN "release" ELSE "send"

AfterDecoy == IF left = 1 THEN "release" ELSE "send"

(* A raw socket also counts a decoy as sent that a firewall rule refused.  *)
Send ==
  /\ pc = "send" /\ (held.out => IsBound)
  /\ Exit \in live
  /\ wire' = wire \union {Decoy(Exit)}
  /\ left' = left - 1 /\ pc' = AfterDecoy
  /\ UNCHANGED <<settings, current, devices, sockets, held, device, aim, fate>>

(* Fault: the decoy is tried again.                                        *)
SendFailsRetry ==
  /\ pc = "send" /\ (held.out => IsBound)
  /\ Faults \/ Exit \notin live
  /\ UNCHANGED vars

(* No further decoy is tried after one that failed.                        *)
SendFails ==
  /\ pc = "send" /\ (held.out => IsBound)
  /\ Faults \/ Exit \notin live
  /\ pc' = "release"
  /\ UNCHANGED <<settings, current, devices, sockets, held, device, burst>>

MustBind == pc = "send" /\ held.out /\ ~IsBound

Bind(dev) ==
  /\ bound' = [bound EXCEPT ![Family] = dev]
  /\ cached' = [cached EXCEPT ![Family] = held.dev]

(* The kernel does not ask whether there is such a device.                 *)
BindToIndex ==
  /\ MustBind /\ byIndex /\ ~old
  /\ Bind(held.dev)
  /\ UNCHANGED <<pc, settings, current, devices, byIndex, held, device, burst>>

(* ENOPROTOOPT, once and for all.                                          *)
GiveUpIndexes ==
  /\ MustBind /\ byIndex /\ old
  /\ byIndex' = FALSE
  /\ UNCHANGED <<pc, settings, current, devices, bound, cached, held, device,
                 burst>>

(* Fault: the device is remembered before its socket is bound.             *)
NameDeviceRemember ==
  /\ MustBind /\ ~byIndex /\ held.dev \in live
  /\ device' = nameOf[held.dev] /\ pc' = "bind"
  /\ cached' = [cached EXCEPT ![Family] = held.dev]
  /\ UNCHANGED <<settings, current, devices, byIndex, bound, held, burst>>

(* if_indextoname.                                                         *)
NameDevice ==
  /\ MustBind /\ ~byIndex /\ held.dev \in live
  /\ device' = nameOf[held.dev] /\ pc' = "bind"
  /\ UNCHANGED <<settings, current, devices, sockets, held, burst>>

(* SO_BINDTODEVICE takes whichever device has the name by then.            *)
BindToName ==
  /\ pc = "bind"
  /\ \E dev \in live : nameOf[dev] = device /\ Bind(dev)
  /\ pc' = "send" /\ device' = NoDevice
  /\ UNCHANGED <<settings, current, devices, byIndex, held, burst>>

BindFails ==
  /\ \/ MustBind /\ byIndex /\ ~old /\ Faults
     \/ MustBind /\ ~byIndex /\ held.dev \notin live
     \/ /\ pc = "bind"
        /\ Faults \/ \A dev \in live : nameOf[dev] # device
  /\ pc' = "release" /\ device' = NoDevice
  /\ UNCHANGED <<settings, current, devices, sockets, held, burst>>

---------------------------------------------------------------------------
(* Devices.                                                                *)

Plug ==
  /\ Len(nameOf) < MaxIndex
  /\ \E n \in Names :
       /\ \A dev \in live : nameOf[dev] # n
       /\ nameOf' = Append(nameOf, n)
  /\ live' = live \union {Len(nameOf) + 1}
  /\ UNCHANGED <<pc, settings, current, old, sockets, held, device, burst>>

Unplug ==
  /\ \E dev \in live : live' = live \ {dev}
  /\ UNCHANGED <<pc, settings, current, nameOf, old, sockets, held, device,
                 burst>>

Process ==
  \/ LoadPayload \/ PayloadsLoaded \/ PayloadFails \/ Open \/ OpenFails
  \/ Release \/ ReleaseFails \/ Send \/ SendFails
  \/ BindToIndex \/ GiveUpIndexes \/ NameDevice \/ BindToName \/ BindFails

Next ==
  Process \/ Start \/ Stop \/ Receive \/ ReceiveUnread \/ Plug \/ Unplug

Spec == Init /\ [][Next]_vars /\ WF_vars(Process)

---------------------------------------------------------------------------
(* Every variable has its type, and the sockets are those of a process.    *)
TypeOK ==
  /\ pc \in {"off", "payload", "open", "recv", "send", "bind", "release"}
  /\ line \in CommandLines
  /\ loaded \in Nat /\ next \in [1 .. loaded -> 1 .. loaded]
  /\ current \in 0 .. loaded
  /\ nameOf \in Seq(Names) /\ live \subseteq 1 .. Len(nameOf)
  /\ Len(nameOf) <= MaxIndex
  /\ old \in BOOLEAN /\ byIndex \in BOOLEAN
  /\ bound \in [Families -> 0 .. MaxIndex]
  /\ cached \in [Families -> 0 .. MaxIndex]
  /\ held \in Packet \union {NoPacket}
  /\ device \in Names \union {NoDevice}
  /\ left \in 0 .. 10
  /\ aim \in [ttl : Ttl, node : 0 .. loaded]
  /\ wire \subseteq [dev : 1 .. MaxIndex, ttl : Ttl, node : 1 .. loaded]
  /\ fate \in Fates

(* The payload nodes form one ring (fs_payload_setup): no part of it is    *)
(* closed, so that every payload is sent in its turn.                      *)
RingWhole ==
  \A part \in (SUBSET (1 .. loaded)) \ {{}} :
    (\A i \in part : next[i] \in part) => part = 1 .. loaded

(* A decoy leaves by the device of its packet (sendto_snat): by the same   *)
(* one, or, where sockets are bound by name, by the one that took its      *)
(* place under its name meanwhile.                                         *)
DecoysByOwnDevice ==
  \A d \in wire :
    \/ d.dev = held.dev
    \/ ~byIndex /\ nameOf[d.dev] = nameOf[held.dev] /\ held.dev < d.dev

(* A decoy does not reach a peer whose distance was estimated, whatever    *)
(* the TTL and the percentage asked for (hop_estimate, calc_snd_ttl).      *)
DecoysDie ==
  \A d \in wire : ~line.nohopest => d.ttl < Hops(held.ttl)

(* The packet of a decoy fits its buffer in both families, so that         *)
(* fs_pkt4_make and fs_pkt6_make never refuse one.                         *)
DecoysFit ==
  pc = "send" =>
    PacketLength(Family, PayloadsOf(line)[aim.node]) + 1 <= PacketBuffer

(* Decoys are sent only for packets the command line asks for: its         *)
(* defaults and the bits of the port maps add and lose nothing.            *)
DecoysAsAsked ==
  wire # {} =>
    LET dir == IF held.out THEN "out" ELSE "in"
        in(r, p) == r.lo <= p /\ p <= r.hi
    IN /\ line.fams = {} \/ held.kind \in line.fams
       /\ line.dirs = {} \/ dir \in line.dirs
       /\ line.white = {} \/ \E r \in line.white, p \in held.ports : in(r, p)
       /\ \A r \in line.black, p \in held.ports : ~in(r, p)

(* Whatever the sockets of the decoys and the devices do, the process      *)
(* comes to ask for the verdict of every packet it has taken up            *)
(* (callback).  No more is claimed: the kernel may refuse a verdict, and a *)
(* message that cannot be read is given none.                              *)
EveryPacketAnswered == (held # NoPacket) ~> (fate \in {"released", "refused"})
=============================================================================
