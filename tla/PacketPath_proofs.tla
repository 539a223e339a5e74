------------------------- MODULE PacketPath_proofs -------------------------
(***************************************************************************)
(* Proofs about PacketPath: for any command lines, payloads, ports and     *)
(* devices, with and without failing calls.                                *)
(***************************************************************************)
EXTENDS PacketPath, TLAPS

Ready == {"open", "recv", "send", "bind", "release"}
Busy == {"send", "bind", "release"}

(* What a process is at each control point: the command line was accepted, *)
(* the nodes are those of its payloads, and decoys are for a packet that   *)
(* is to be faked.                                                         *)
Control ==
  /\ pc # "off" => Accepted(line) /\ loaded <= Len(PayloadsOf(line))
  /\ pc = "off" => loaded = 0
  /\ pc \in Ready => loaded = Len(PayloadsOf(line)) /\ current \in 1 .. loaded
  /\ pc \in Busy <=> held \in Packet
  /\ pc \notin Busy => aim = NoAim
  /\ pc \in {"send", "bind"} =>
       /\ Faked(held) /\ left \in 1 .. 10 /\ aim.node \in 1 .. loaded
       /\ ~line.nohopest => aim.ttl = SendTtl(Hops(held.ttl))
  /\ pc = "bind" => held.out
  /\ wire # {} => pc \in Busy /\ Faked(held)
  /\ \A i \in 1 .. loaded :
       i \in DOMAIN PayloadsOf(line) /\ Loads(PayloadsOf(line)[i])

(* The device of a name is the last one that had it, and a socket is bound *)
(* to the device it is remembered with, or to one that took its name.      *)
Sockets ==
  /\ \A dev \in live, i \in DOMAIN nameOf : nameOf[i] = nameOf[dev] => i <= dev
  /\ pc \in Busy => held.dev \in DOMAIN nameOf
  /\ pc = "bind" => ~byIndex /\ device = nameOf[held.dev]
  /\ \A f \in Families :
       /\ cached[f] # 0 => bound[f] \in DOMAIN nameOf /\ cached[f] \in DOMAIN nameOf
       /\ byIndex => bound[f] = cached[f]
       /\ cached[f] # 0 =>
            nameOf[cached[f]] = nameOf[bound[f]] /\ cached[f] <= bound[f]

Aimed ==
  \A d \in wire :
    ~line.nohopest => d.ttl = SendTtl(Hops(held.ttl))

Base == TypeOK /\ Control

---------------------------------------------------------------------------
(* Facts about TTLs, ports and payloads.                                   *)

LEMMA HopsBounds ==
  ASSUME NEW ttl \in Ttl
  PROVE  Hops(ttl) \in 0 .. 126
BY DEF Hops, Ttl, MaxTtl

LEMMA ShareIsLess ==
  ASSUME NEW h \in Nat \ {0}, NEW pct \in 0 .. 99
  PROVE  (h * pct) \div 100 < h /\ (h * pct) \div 100 \in Nat
<1>1. h * pct <= h * 99
  BY Z3
<1>2. h * pct \in Nat
  BY Z3
<1>3. h * 99 < h * 100
  OBVIOUS
<1>. DEFINE m == h * pct
<1>4. m \in Nat /\ m < h * 100
  BY <1>1, <1>2, <1>3
<1>. HIDE DEF m
<1>5. m \div 100 < h /\ m \div 100 \in Nat
  BY <1>4
<1>. QED  BY <1>5 DEF m

LEMMA LineTyped ==
  ASSUME NEW cl \in CommandLines, Accepted(cl)
  PROVE  /\ cl.ttl \in Ttl /\ cl.ttl >= 1 /\ cl.pct \in 0 .. 99 /\ cl.repeat \in 1 .. 10
         /\ cl.nohopest \in BOOLEAN /\ cl.fams \in SUBSET Families
         /\ cl.white \in SUBSET Range /\ cl.black \in SUBSET Range
<1>1. cl \in CommandLine
  BY PathAssumption
<1>2. /\ cl.pct \in Nat /\ cl.nohopest \in BOOLEAN
      /\ cl.fams \in SUBSET Families
      /\ cl.white \in SUBSET Range /\ cl.black \in SUBSET Range
  BY <1>1 DEF CommandLine
<1>. QED  BY <1>2 DEF Accepted, Ttl, MaxTtl

(* A TTL raised to a share of the hops stays below them.                   *)
LEMMA SendTtlBounds ==
  ASSUME Accepted(line), line \in CommandLines, NEW h \in 0 .. 126
  PROVE  SendTtl(h) \in Ttl /\ (h > line.ttl => SendTtl(h) < h)
<1>1. line.ttl \in Ttl /\ line.pct \in 0 .. 99
  BY LineTyped
<1>. DEFINE m == (h * line.pct) \div 100
<1>2. SendTtl(h) = IF m > line.ttl THEN m ELSE line.ttl
  BY DEF SendTtl
<1>3. m \in Nat /\ (h # 0 => m < h) /\ (h = 0 => m = 0)
  <2>1. CASE h = 0
    BY <1>1, <2>1
  <2>2. CASE h # 0
    BY <1>1, <2>2, ShareIsLess
  <2>. QED  BY <2>1, <2>2
<1>. HIDE DEF m
<1>. QED  BY <1>1, <1>2, <1>3 DEF Ttl, MaxTtl

LEMMA BitInjective ==
  ASSUME NEW p \in Port, NEW q \in Port, Bit(p) = Bit(q)
  PROVE  p = q
BY DEF Bit, Port

LEMMA PortsBetween ==
  ASSUME NEW lo \in Port, NEW hi \in Port
  PROVE  /\ \A q \in lo .. hi : q \in Port /\ lo <= q /\ q <= hi
         /\ \A q \in Port : lo <= q /\ q <= hi => q \in lo .. hi
<1>1. MaxPort \in Nat
  BY DEF MaxPort
<1>. QED  BY <1>1 DEF Port

(* A port is marked exactly if it is in one of the ranges.                 *)
LEMMA MarkedIsInRange ==
  ASSUME NEW ranges \in SUBSET Range, \A r \in ranges : ValidRange(r),
         NEW p \in Port
  PROVE  Marked(Bitmap(ranges), p) <=> \E r \in ranges : r.lo <= p /\ p <= r.hi
<1>1. ASSUME NEW r \in ranges
      PROVE  r.lo \in Port /\ r.hi \in Port /\ r.lo <= r.hi
  BY DEF ValidRange
<1>2. ASSUME Marked(Bitmap(ranges), p)
      PROVE  \E r \in ranges : r.lo <= p /\ p <= r.hi
  <2>1. PICK r \in ranges : \E q \in r.lo .. r.hi : Bit(p) = Bit(q)
    BY <1>2 DEF Marked, Bitmap
  <2>2. PICK q \in r.lo .. r.hi : Bit(p) = Bit(q)
    BY <2>1
  <2>3. r.lo \in Port /\ r.hi \in Port
    BY <1>1
  <2>4. q \in Port /\ r.lo <= q /\ q <= r.hi
    BY <2>2, <2>3, PortsBetween
  <2>5. p = q
    BY <2>2, <2>4, BitInjective
  <2>. QED  BY <2>4, <2>5
<1>3. ASSUME NEW r \in ranges, r.lo <= p /\ p <= r.hi
      PROVE  Marked(Bitmap(ranges), p)
  <2>1. r.lo \in Port /\ r.hi \in Port
    BY <1>1
  <2>2. p \in r.lo .. r.hi
    BY <1>3, <2>1, PortsBetween
  <2>. QED  BY <2>2 DEF Marked, Bitmap
<1>. QED  BY <1>2, <1>3

LEMMA PayloadsTyped ==
  ASSUME NEW cl \in CommandLines
  PROVE  PayloadsOf(cl) \in Seq(Payloads) /\ Len(PayloadsOf(cl)) >= 1
<1>1. cl.payloads \in Seq(Payloads)
  BY PathAssumption DEF CommandLine
<1>. QED  BY <1>1, PathAssumption DEF PayloadsOf

LEMMA NoPacketIsNone == NoPacket \notin Packet
BY DEF NoPacket, Packet, Kinds, Families

---------------------------------------------------------------------------
(* Types and control.                                                      *)

LEMMA BaseInit == Init => Base
<1>. SUFFICES ASSUME Init PROVE Base
  OBVIOUS
<1>1. TypeOK
  BY PathAssumption DEF Init, TypeOK, EmptyRing, Unbound, Families, Ttl, MaxTtl,
     NoAim, Fates
<1>2. Control
  BY NoPacketIsNone DEF Init, Control, Ready, Busy
<1>. QED  BY <1>1, <1>2 DEF Base

(* Only a packet that is to be faked has a family.                         *)
LEMMA FakedFamily ==
  ASSUME line \in CommandLines, Accepted(line), NEW k, Faked(k)
  PROVE  k.kind \in Families
BY LineTyped DEF Faked, FamiliesOf

LEMMA EndBase ==
  ASSUME Base, End, UNCHANGED <<line, devices, held, device, burst>>,
         pc \in {"payload", "open", "recv"}
  PROVE  Base'
<1>1. aim = NoAim /\ wire = {}
  BY DEF Base, Control, Busy
<1>2. TypeOK'
  BY <1>1, PathAssumption
  DEF Base, TypeOK, End, EmptyRing, Unbound, Families, NoAim, devices, burst
<1>3. Control'
  BY <1>1 DEF Base, Control, End, Ready, Busy, burst
<1>. QED  BY <1>2, <1>3 DEF Base

LEMMA StartBase == Base /\ Start => Base'
<1>. SUFFICES ASSUME Base, Start PROVE Base'
  OBVIOUS
<1>1. PICK cl \in CommandLines : Accepted(cl) /\ line' = cl
  BY DEF Start
<1>2. Len(PayloadsOf(cl)) >= 1 /\ Len(PayloadsOf(cl)) \in Nat
  BY PayloadsTyped
<1>3. TypeOK'
  BY <1>1 DEF Base, Start, TypeOK, devices, sockets, burst
<1>4. Control'
  BY <1>1, <1>2 DEF Base, Start, Control, Ready, Busy, burst
<1>. QED  BY <1>3, <1>4 DEF Base

LEMMA LoadPayloadBase == Base /\ LoadPayload => Base'
<1>. SUFFICES ASSUME Base, LoadPayload PROVE Base'
  OBVIOUS
<1>1. PayloadsOf(line) \in Seq(Payloads)
  BY PayloadsTyped DEF Base, TypeOK
<1>2. loaded' = loaded + 1 /\ loaded \in Nat /\ current' = 1
  BY DEF LoadPayload, Base, TypeOK
<1>3. next' \in [1 .. loaded' -> 1 .. loaded']
  <2>1. next \in [1 .. loaded -> 1 .. loaded] /\ next' = Inserted
    BY DEF LoadPayload, Base, TypeOK
  <2>2. ASSUME NEW i \in 1 .. loaded + 1
        PROVE  Inserted[i] \in 1 .. loaded + 1
    BY <1>2, <2>1 DEF Inserted
  <2>3. Inserted \in [1 .. loaded + 1 -> 1 .. loaded + 1]
    BY <2>2 DEF Inserted
  <2>. QED  BY <1>2, <2>1, <2>3
<1>4. TypeOK'
  <2>1. aim' \in [ttl : Ttl, node : 0 .. loaded']
    BY <1>2 DEF LoadPayload, Base, TypeOK, burst
  <2>2. wire' = {}
    BY DEF LoadPayload, Base, Control, Busy, burst
  <2>. QED  BY <1>2, <1>3, <2>1, <2>2
         DEF LoadPayload, Base, TypeOK, devices, sockets, burst
<1>5. Control'
  BY <1>1, <1>2 DEF LoadPayload, Base, Control, Ready, Busy, burst
<1>. QED  BY <1>4, <1>5 DEF Base

LEMMA PayloadsLoadedBase == Base /\ PayloadsLoaded => Base'
<1>. SUFFICES ASSUME Base, PayloadsLoaded PROVE Base'
  OBVIOUS
<1>1. loaded \in Nat /\ loaded >= 1
  BY PayloadsTyped DEF PayloadsLoaded, Base, TypeOK
<1>2. current' \in 1 .. loaded
  <2>1. next \in [1 .. loaded -> 1 .. loaded]
    BY DEF Base, TypeOK
  <2>2. current' = next[1]
    BY DEF PayloadsLoaded
  <2>. QED  BY <1>1, <2>1, <2>2
<1>3. TypeOK'
  <2>1. /\ pc' = "open"
        /\ UNCHANGED <<line, loaded, next, nameOf, live, old, byIndex, bound,
                       cached, held, device, left, aim, wire, fate>>
    BY DEF PayloadsLoaded, settings, devices, sockets, burst
  <2>2. current' \in 0 .. loaded
    BY <1>1, <1>2
  <2>. QED  BY <2>1, <2>2 DEF Base, TypeOK
<1>4. Control'
  BY <1>2 DEF PayloadsLoaded, Base, Control, Ready, Busy, settings, burst
<1>. QED  BY <1>3, <1>4 DEF Base

LEMMA OpenBase == Base /\ Open => Base'
<1>. SUFFICES ASSUME Base, Open PROVE Base'
  OBVIOUS
<1>1. TypeOK'
  BY DEF Open, Base, TypeOK, settings, devices, sockets, burst
<1>2. Control'
  BY DEF Open, Base, Control, Ready, Busy, settings, burst
<1>. QED  BY <1>1, <1>2 DEF Base

LEMMA ReceiveBase == Base /\ Receive => Base'
<1>. SUFFICES ASSUME Base, Receive PROVE Base'
  OBVIOUS
<1>. DEFINE Takes(k) ==
       /\ held' = k /\ fate' = "open"
       /\ IF Faked(k)
          THEN /\ pc' = "send" /\ left' = line.repeat
               /\ aim' = [ttl |-> IF line.nohopest THEN line.ttl
                                  ELSE SendTtl(Hops(k.ttl)),
                          node |-> current]
               /\ current' = next[current]
          ELSE pc' = "release" /\ UNCHANGED <<left, aim, current>>
<1>. DEFINE Of(kind, out, dev, p, q, ttl) ==
       [kind |-> kind, out |-> out, ttl |-> ttl, dev |-> dev, ports |-> {p, q}]
<1>0. PICK kind \in Kinds, out \in BOOLEAN, dev \in live,
           p \in Ports, q \in Ports :
        \E ttl \in PeerTtls(out) : Takes(Of(kind, out, dev, p, q, ttl))
  BY DEF Receive
<1>1. PICK ttl \in PeerTtls(out) : Takes(Of(kind, out, dev, p, q, ttl))
  BY <1>0
<1>2. held' \in Packet
  <2>1. ttl \in Ttl
    BY <1>1, PathAssumption DEF PeerTtls, Ttl, MaxTtl
  <2>2. dev \in 1 .. MaxIndex
    BY <1>0, PathAssumption DEF Base, TypeOK
  <2>3. {p, q} \in SUBSET Port
    BY <1>0, PathAssumption
  <2>. QED  BY <1>0, <1>1, <2>1, <2>2, <2>3 DEF Packet, Kinds
<1>3. /\ pc = "recv" /\ line' = line /\ loaded' = loaded /\ next' = next
      /\ wire' = wire /\ wire = {} /\ Accepted(line)
  BY DEF Receive, settings, Base, Control, Busy
<1>4. /\ current \in 1 .. loaded /\ next[current] \in 1 .. loaded
      /\ loaded \in Nat /\ line \in CommandLines
  BY <1>3 DEF Base, Control, TypeOK, Ready
<1>5. Faked(held)' <=> Faked(held')
  BY <1>3 DEF Faked, FamiliesOf, PortsAllow, Directions, Local
<1>6. ttl \in Ttl /\ fate' \in Fates
  BY <1>1, PathAssumption DEF PeerTtls, Ttl, MaxTtl, Fates
<1>7. CASE ~Faked(held')
  <2>1. pc' = "release" /\ UNCHANGED <<left, aim, current>>
    BY <1>1, <1>7
  <2>2. TypeOK'
    BY <1>2, <1>3, <1>6, <2>1 DEF Receive, Base, TypeOK, devices, sockets
  <2>3. Control'
    BY <1>2, <1>3, <2>1 DEF Base, Control, Ready, Busy
  <2>. QED  BY <2>2, <2>3 DEF Base
<1>8. CASE Faked(held')
  <2>1. /\ pc' = "send" /\ left' = line.repeat /\ current' = next[current]
        /\ aim' = [ttl |-> IF line.nohopest THEN line.ttl
                           ELSE SendTtl(Hops(held'.ttl)),
                   node |-> current]
    BY <1>1, <1>8
  <2>2. line.repeat \in 1 .. 10 /\ line.ttl \in Ttl
    BY <1>3, <1>4, LineTyped
  <2>3. SendTtl(Hops(held'.ttl)) \in Ttl
    BY <1>1, <1>3, <1>4, <1>6, HopsBounds, SendTtlBounds
  <2>4. aim' \in [ttl : Ttl, node : 0 .. loaded']
    BY <1>3, <1>4, <2>1, <2>2, <2>3
  <2>5. left' \in 0 .. 10 /\ current' \in 0 .. loaded'
    BY <1>3, <1>4, <2>1, <2>2
  <2>6. TypeOK'
    BY <1>2, <1>3, <1>6, <2>1, <2>4, <2>5
    DEF Receive, Base, TypeOK, devices, sockets
  <2>7. SendTtl(Hops(held'.ttl)) = SendTtl(Hops(held.ttl))'
    BY <1>3 DEF SendTtl, Hops
  <2>8. Control'
    BY <1>2, <1>3, <1>4, <1>5, <1>8, <2>1, <2>2, <2>7
    DEF Base, Control, Ready, Busy
  <2>. QED  BY <2>6, <2>8 DEF Base
<1>. QED  BY <1>7, <1>8

(* The decision about a packet stands as long as it is held.               *)
LEMMA SameDecision ==
  ASSUME UNCHANGED <<line, held>>
  PROVE  /\ Faked(held)' <=> Faked(held)
         /\ SendTtl(Hops(held.ttl))' = SendTtl(Hops(held.ttl))
BY DEF Faked, FamiliesOf, PortsAllow, Directions, Local, SendTtl, Hops

LEMMA DoneBase ==
  ASSUME Base, NEW outcome \in Fates, Done(outcome)
  PROVE  Base'
<1>1. TypeOK'
  BY DEF Done, Base, TypeOK, settings, devices, sockets, NoAim, Ttl, MaxTtl
<1>2. Control'
  BY NoPacketIsNone DEF Done, Base, Control, Ready, Busy, settings
<1>. QED  BY <1>1, <1>2 DEF Base

LEMMA ReceiveUnreadBase == Base /\ ReceiveUnread => Base'
<1>. SUFFICES ASSUME Base, ReceiveUnread PROVE Base'
  OBVIOUS
<1>1. TypeOK'
  BY DEF ReceiveUnread, Base, TypeOK, settings, devices, sockets, Fates
<1>2. Control'
  BY SameDecision DEF ReceiveUnread, Base, Control, settings
<1>. QED  BY <1>1, <1>2 DEF Base

(* The packet is still held, and no decoy was added.                       *)
LEMMA HeldBase ==
  ASSUME Base, pc \in {"send", "bind"},
         pc' \in Busy, pc' = "bind" => held.out,
         UNCHANGED <<settings, current, nameOf, live, old, held, burst>>,
         byIndex' \in BOOLEAN, device' \in Names \union {NoDevice},
         bound' \in [Families -> 0 .. MaxIndex],
         cached' \in [Families -> 0 .. MaxIndex]
  PROVE  Base'
<1>1. TypeOK'
  BY DEF Base, TypeOK, Busy, settings, burst
<1>2. Control'
  BY SameDecision DEF Base, Control, Ready, Busy, settings, burst
<1>. QED  BY <1>1, <1>2 DEF Base

LEMMA HeldPacket ==
  ASSUME Base, pc \in {"send", "bind"}
  PROVE  /\ Family \in Families /\ held.dev \in 1 .. MaxIndex
         /\ held.ttl \in Ttl /\ held.ports \in SUBSET Port
         /\ aim.ttl \in Ttl /\ aim.node \in 1 .. loaded /\ held.out \in BOOLEAN
<1>1. held \in Packet /\ Faked(held)
  BY DEF Base, Control, Busy
<1>2. Family \in Families
  BY <1>1, FakedFamily DEF Base, Control, TypeOK, Family
<1>. QED  BY <1>1, <1>2 DEF Base, Control, TypeOK, Packet, Kinds

LEMMA BindTyped ==
  ASSUME Base, pc \in {"send", "bind"}, NEW dev \in 1 .. MaxIndex, Bind(dev)
  PROVE  /\ bound' \in [Families -> 0 .. MaxIndex]
         /\ cached' \in [Families -> 0 .. MaxIndex]
<1>1. dev \in 0 .. MaxIndex /\ held.dev \in 0 .. MaxIndex /\ Family \in Families
  BY HeldPacket, PathAssumption
<1>2. /\ bound \in [Families -> 0 .. MaxIndex]
      /\ cached \in [Families -> 0 .. MaxIndex]
  BY DEF Base, TypeOK
<1>. QED  BY <1>1, <1>2 DEF Bind

LEMMA SendBase == Base /\ Send => Base'
<1>. SUFFICES ASSUME Base, Send PROVE Base'
  OBVIOUS
<1>1. pc = "send" /\ left \in 1 .. 10 /\ Faked(held) /\ held \in Packet
  BY DEF Send, Base, Control, Busy
<1>2. Exit \in 1 .. MaxIndex
  BY PathAssumption DEF Send, Base, TypeOK
<1>3. Decoy(Exit) \in [dev : 1 .. MaxIndex, ttl : Ttl, node : 1 .. loaded]
  BY <1>1, <1>2, HeldPacket DEF Decoy
<1>4. pc' = (IF left = 1 THEN "release" ELSE "send") /\ left' = left - 1
  BY DEF Send, AfterDecoy
<1>5. TypeOK'
  <2>1. wire' \subseteq [dev : 1 .. MaxIndex, ttl : Ttl, node : 1 .. loaded]
    BY <1>3 DEF Send, Base, TypeOK
  <2>2. left' \in 0 .. 10
    BY <1>1, <1>4
  <2>3. pc' \in {"release", "send"}
    BY <1>4
  <2>. QED
    BY <2>1, <2>2, <2>3 DEF Send, Base, TypeOK, settings, devices, sockets
<1>6. Control'
  BY <1>1, <1>4, SameDecision DEF Send, Base, Control, Ready, Busy, settings
<1>. QED  BY <1>5, <1>6 DEF Base

LEMMA SendFailsBase == Base /\ SendFails => Base'
<1>. SUFFICES ASSUME Base, SendFails PROVE Base'
  OBVIOUS
<1>. QED
  BY HeldBase DEF SendFails, Base, TypeOK, Busy, devices, sockets

LEMMA BindToIndexBase == Base /\ BindToIndex => Base'
<1>. SUFFICES ASSUME Base, BindToIndex PROVE Base'
  OBVIOUS
<1>1. pc = "send" /\ Bind(held.dev) /\ held.dev \in 1 .. MaxIndex
  BY HeldPacket DEF BindToIndex, MustBind
<1>2. /\ bound' \in [Families -> 0 .. MaxIndex]
      /\ cached' \in [Families -> 0 .. MaxIndex]
  BY <1>1, BindTyped
<1>. QED
  BY <1>1, <1>2, HeldBase DEF BindToIndex, Base, TypeOK, Busy, devices

LEMMA GiveUpIndexesBase == Base /\ GiveUpIndexes => Base'
<1>. SUFFICES ASSUME Base, GiveUpIndexes PROVE Base'
  OBVIOUS
<1>. QED
  BY HeldBase DEF GiveUpIndexes, MustBind, Base, TypeOK, Busy, devices

LEMMA NameDeviceBase == Base /\ NameDevice => Base'
<1>. SUFFICES ASSUME Base, NameDevice PROVE Base'
  OBVIOUS
<1>1. nameOf[held.dev] \in Names
  <2>1. nameOf \in Seq(Names) /\ held.dev \in 1 .. Len(nameOf)
    BY DEF NameDevice, Base, TypeOK
  <2>. QED  BY <2>1
<1>. QED
  BY <1>1, HeldBase
  DEF NameDevice, MustBind, Base, TypeOK, Busy, devices, sockets

LEMMA BindToNameBase == Base /\ BindToName => Base'
<1>. SUFFICES ASSUME Base, BindToName PROVE Base'
  OBVIOUS
<1>1. PICK dev \in live : nameOf[dev] = device /\ Bind(dev)
  BY DEF BindToName
<1>2. pc = "bind" /\ dev \in 1 .. MaxIndex
  BY <1>1, PathAssumption DEF BindToName, Base, TypeOK
<1>3. /\ bound' \in [Families -> 0 .. MaxIndex]
      /\ cached' \in [Families -> 0 .. MaxIndex]
  BY <1>1, <1>2, BindTyped
<1>. QED
  BY <1>2, <1>3, HeldBase DEF BindToName, Base, TypeOK, Busy, devices

LEMMA BindFailsBase == Base /\ BindFails => Base'
<1>. SUFFICES ASSUME Base, BindFails PROVE Base'
  OBVIOUS
<1>1. pc \in {"send", "bind"}
  BY DEF BindFails, MustBind
<1>. QED
  BY <1>1, HeldBase DEF BindFails, Base, TypeOK, Busy, devices, sockets

LEMMA PlugBase == Base /\ Plug => Base'
<1>. SUFFICES ASSUME Base, Plug PROVE Base'
  OBVIOUS
<1>1. PICK n \in Names : nameOf' = Append(nameOf, n)
  BY DEF Plug
<1>2. /\ nameOf' \in Seq(Names) /\ Len(nameOf') = Len(nameOf) + 1
      /\ Len(nameOf) \in Nat
  BY <1>1 DEF Base, TypeOK
<1>3. live' \subseteq 1 .. Len(nameOf') /\ Len(nameOf') <= MaxIndex
  <2>1. /\ live' = live \union {Len(nameOf) + 1} /\ Len(nameOf) < MaxIndex
        /\ live \subseteq 1 .. Len(nameOf)
    BY DEF Plug, Base, TypeOK
  <2>2. MaxIndex \in Nat
    BY PathAssumption
  <2>. DEFINE here == Len(nameOf)
              there == Len(nameOf')
  <2>3. here \in Nat /\ there = here + 1 /\ here < MaxIndex
    BY <1>2, <2>1
  <2>4. live' = live \union {here + 1} /\ live \subseteq 1 .. here
    BY <2>1
  <2>. HIDE DEF here, there
  <2>5. ASSUME NEW d \in live' PROVE d \in 1 .. there
    <3>1. CASE d = here + 1
      BY <2>3, <3>1
    <3>2. CASE d \in 1 .. here
      BY <2>3, <3>2
    <3>. QED  BY <2>4, <3>1, <3>2
  <2>6. there <= MaxIndex
    BY <2>2, <2>3
  <2>. QED  BY <2>5, <2>6 DEF there
<1>4. TypeOK'
  BY <1>2, <1>3 DEF Plug, Base, TypeOK, settings, sockets, burst
<1>5. Control'
  BY SameDecision DEF Plug, Base, Control, settings, burst
<1>. QED  BY <1>4, <1>5 DEF Base

LEMMA UnplugBase == Base /\ Unplug => Base'
<1>. SUFFICES ASSUME Base, Unplug PROVE Base'
  OBVIOUS
<1>1. TypeOK'
  BY DEF Unplug, Base, TypeOK, settings, sockets, burst
<1>2. Control'
  BY SameDecision DEF Unplug, Base, Control, settings, burst
<1>. QED  BY <1>1, <1>2 DEF Base

LEMMA BaseStep == Base /\ [Next]_vars => Base'
<1>. SUFFICES ASSUME Base, [Next]_vars PROVE Base'
  OBVIOUS
<1>1. CASE PayloadFails \/ OpenFails \/ Stop
  BY <1>1, EndBase DEF PayloadFails, OpenFails, Stop
<1>2. CASE UNCHANGED vars
  <2>1. TypeOK'
    BY <1>2 DEF vars, Base, TypeOK, settings, devices, sockets, burst
  <2>2. Control'
    BY <1>2, SameDecision DEF vars, Base, Control, settings, burst
  <2>. QED  BY <2>1, <2>2 DEF Base
<1>3. CASE Release \/ ReleaseFails
  BY <1>3, DoneBase DEF Release, ReleaseFails, Fates
<1>. QED
  BY <1>1, <1>2, <1>3, StartBase, LoadPayloadBase, PayloadsLoadedBase, OpenBase,
     ReceiveBase, ReceiveUnreadBase, SendBase, SendFailsBase, BindToIndexBase,
     GiveUpIndexesBase, NameDeviceBase, BindToNameBase, BindFailsBase, PlugBase,
     UnplugBase
  DEF Next, Process

LEMMA BaseAlways == Spec => []Base
BY BaseInit, BaseStep, PTL DEF Spec

(* Types: whatever the command lines, the payloads and the devices.        *)
THEOREM PathTypeCorrect == Spec => []TypeOK
<1>1. Base => TypeOK
  BY DEF Base
<1>. QED  BY <1>1, BaseAlways, PTL

---------------------------------------------------------------------------
(* The ring of payloads.                                                   *)

LEMMA InsertKeepsRing ==
  ASSUME Base, RingWhole, LoadPayload
  PROVE  RingWhole'
<1>. DEFINE new == loaded + 1
<1>1. /\ loaded \in Nat /\ loaded' = new /\ next' = Inserted
      /\ next \in [1 .. loaded -> 1 .. loaded]
  BY DEF Base, TypeOK, LoadPayload
<1>2. /\ \A i \in 2 .. loaded : next'[i] = next[i]
      /\ next'[1] = new
      /\ loaded # 0 => next'[new] = next[1]
  BY <1>1 DEF Inserted
<1>. SUFFICES ASSUME NEW part \in SUBSET (1 .. new), part # {},
                     \A i \in part : next'[i] \in part
              PROVE  part = 1 .. new
  BY <1>1 DEF RingWhole
<1>3. CASE loaded = 0
  <2>1. 1 .. new = {1}
    BY <1>3
  <2>. HIDE DEF new
  <2>2. part \subseteq {1}
    BY <2>1
  <2>. QED  BY <2>1, <2>2
<1>4. CASE loaded # 0
  <2>. DEFINE olds == part \ {new}
  <2>1. olds # {}
    <3>1. CASE part = {new}
      BY <1>1, <1>2, <1>4, <3>1
    <3>. QED  BY <3>1
  <2>2. ASSUME NEW i \in olds PROVE next[i] \in olds
    <3>1. i \in 1 .. loaded /\ next[i] \in 1 .. loaded
      BY <1>1
    <3>2. CASE i = 1
      BY <1>1, <1>2, <1>4, <3>1, <3>2
    <3>3. CASE i # 1
      <4>1. next'[i] = next[i]
        BY <1>1, <1>2, <3>1, <3>3
      <4>. QED  BY <1>1, <3>1, <4>1
    <3>. QED  BY <3>2, <3>3
  <2>3. olds = 1 .. loaded
    <3>1. \A i \in 1 .. new : i # new => i \in 1 .. loaded
      BY <1>1
    <3>2. olds \in (SUBSET (1 .. loaded)) \ {{}}
      BY <2>1, <3>1
    <3>. QED  BY <2>2, <3>2 DEF RingWhole
  <2>4. new \in part
    <3>1. 1 \in part
      BY <1>1, <1>4, <2>3
    <3>. QED  BY <1>2, <3>1
  <2>5. \A i \in 1 .. new : i \in 1 .. loaded \/ i = new
    BY <1>1
  <2>. QED  BY <2>3, <2>4, <2>5
<1>. QED  BY <1>3, <1>4

(* However many payloads are loaded, they form one ring.                   *)
THEOREM RingIsWhole == Spec => []RingWhole
<1>1. Init => RingWhole
  BY DEF Init, RingWhole
<1>2. Base /\ RingWhole /\ [Next]_vars => RingWhole'
  <2>. SUFFICES ASSUME Base, RingWhole, [Next]_vars PROVE RingWhole'
    OBVIOUS
  <2>1. CASE LoadPayload
    BY <2>1, InsertKeepsRing
  <2>2. CASE End
    BY <2>2 DEF End, RingWhole
  <2>3. CASE UNCHANGED <<loaded, next>>
    BY <2>3 DEF RingWhole
  <2>. QED
    BY <2>1, <2>2, <2>3
    DEF Next, Process, vars, settings, Start, PayloadsLoaded, PayloadFails,
        Open, OpenFails, Stop, Receive, ReceiveUnread, Release, ReleaseFails,
        Done, Send, SendFails, BindToIndex, GiveUpIndexes, NameDevice, BindToName, BindFails, Plug, Unplug
<1>. QED  BY <1>1, <1>2, BaseAlways, PTL DEF Spec

---------------------------------------------------------------------------
(* Decoys: their TTL, their size, and what they are sent for.              *)

LEMMA AimedStep == Base /\ Aimed /\ [Next]_vars => Aimed'
<1>. SUFFICES ASSUME Base, Aimed, [Next]_vars PROVE Aimed'
  OBVIOUS
<1>1. CASE Send
  BY <1>1, SameDecision DEF Send, Base, Control, Aimed, Decoy, settings
<1>2. CASE wire' = {}
  BY <1>2 DEF Aimed
<1>3. CASE UNCHANGED <<line, held, wire>>
  BY <1>3, SameDecision DEF Aimed
<1>4. wire # {} => pc \in Busy
  BY DEF Base, Control
<1>. QED
  BY <1>1, <1>2, <1>3, <1>4
  DEF Next, Process, vars, settings, burst, Start, LoadPayload, PayloadsLoaded,
      PayloadFails, Open, OpenFails, Stop, Receive, ReceiveUnread, Release,
      ReleaseFails, Done, SendFails, Busy,
      BindToIndex, GiveUpIndexes, NameDevice, BindToName, BindFails, Plug, Unplug

LEMMA AimedAlways == Spec => []Aimed
<1>1. Init => Aimed
  BY DEF Init, Aimed
<1>. QED  BY <1>1, AimedStep, BaseAlways, PTL DEF Spec

(* For every TTL a packet can have, every percentage and every TTL asked   *)
(* for, a decoy is spent before it reaches the peer.                       *)
THEOREM DecoysDieEarly == Spec => []DecoysDie
<1>1. Base /\ Aimed => DecoysDie
  <2>. SUFFICES ASSUME Base, Aimed, NEW d \in wire, ~line.nohopest
                PROVE  d.ttl < Hops(held.ttl)
    BY DEF DecoysDie
  <2>1. d.ttl = SendTtl(Hops(held.ttl)) /\ Faked(held) /\ pc \in Busy
    BY DEF Aimed, Base, Control
  <2>2. held.ttl \in Ttl
    BY <2>1 DEF Base, Control, Packet
  <2>3. Hops(held.ttl) \in 0 .. 126
    BY <2>2, HopsBounds
  <2>4. Accepted(line) /\ line \in CommandLines
    BY <2>1 DEF Base, Control, TypeOK, Busy
  <2>5. Hops(held.ttl) > line.ttl
    <3>1. ~(Hops(held.ttl) <= line.ttl)
      BY <2>1 DEF Faked, Local
    <3>2. line.ttl \in Nat
      BY <2>4, LineTyped DEF Ttl, MaxTtl
    <3>. QED  BY <2>3, <3>1, <3>2
  <2>. QED  BY <2>1, <2>3, <2>4, <2>5, SendTtlBounds
<1>. QED  BY <1>1, BaseAlways, AimedAlways, PTL

(* For payloads of any length, a decoy that is sent fits its buffer.       *)
THEOREM DecoysAlwaysFit == Spec => []DecoysFit
<1>1. Base => DecoysFit
  <2>. SUFFICES ASSUME Base, pc = "send" PROVE DecoysFit
    BY DEF DecoysFit
  <2>. DEFINE length == Length[PayloadsOf(line)[aim.node]]
  <2>1. aim.node \in 1 .. loaded
    BY DEF Base, Control
  <2>2. /\ aim.node \in DOMAIN PayloadsOf(line)
        /\ Loads(PayloadsOf(line)[aim.node])
    BY <2>1 DEF Base, Control
  <2>3. PayloadsOf(line)[aim.node] \in Payloads
    BY <2>2, PayloadsTyped DEF Base, TypeOK
  <2>4. length \in Nat /\ length < 1200
    BY <2>2, <2>3, PathAssumption DEF Loads, MaxPayload
  <2>. HIDE DEF length
  <2>5. 40 + 8 + length + 1 <= 1600 /\ 20 + 8 + length + 1 <= 1600
    BY <2>4
  <2>. QED  BY <2>5 DEF DecoysFit, PacketLength, PacketBuffer, length
<1>. QED  BY <1>1, BaseAlways, PTL

(* Whatever ports, directions and families are asked for, no packet        *)
(* outside them gets a decoy.                                              *)
THEOREM DecoysAreAsked == Spec => []DecoysAsAsked
<1>1. Base => DecoysAsAsked
  <2>. SUFFICES ASSUME Base, wire # {} PROVE DecoysAsAsked
    BY DEF DecoysAsAsked
  <2>1. Faked(held) /\ held \in Packet /\ Accepted(line) /\ line \in CommandLines
    BY DEF Base, Control, TypeOK, Busy
  <2>2. line.white \in SUBSET Range /\ line.black \in SUBSET Range
    BY <2>1, LineTyped
  <2>3. \A r \in line.white \union line.black : ValidRange(r)
    BY <2>1 DEF Accepted
  <2>4. held.ports \in SUBSET Port
    BY <2>1 DEF Packet
  <2>5. \A p \in held.ports :
          /\ Marked(Bitmap(line.white), p) <=>
               \E r \in line.white : r.lo <= p /\ p <= r.hi
          /\ Marked(Bitmap(line.black), p) <=>
               \E r \in line.black : r.lo <= p /\ p <= r.hi
    BY <2>2, <2>3, <2>4, MarkedIsInRange
  <2>6. /\ line.white = {} \/ \E p \in held.ports : Marked(Bitmap(line.white), p)
        /\ ~\E p \in held.ports : Marked(Bitmap(line.black), p)
    BY <2>1 DEF Faked, PortsAllow
  <2>7. /\ line.fams = {} \/ held.kind \in line.fams
        /\ line.dirs = {} \/ (IF held.out THEN "out" ELSE "in") \in line.dirs
    BY <2>1 DEF Faked, FamiliesOf, Directions
  <2>. QED  BY <2>5, <2>6, <2>7 DEF DecoysAsAsked
<1>. QED  BY <1>1, BaseAlways, PTL

---------------------------------------------------------------------------
(* Devices.                                                                *)

(* A device a socket is bound to now is the packet's, or has its name.     *)
LEMMA BindSockets ==
  ASSUME Base, Sockets, pc \in {"send", "bind"}, pc' # "bind",
         NEW dev \in DOMAIN nameOf, Bind(dev), nameOf[dev] = nameOf[held.dev],
         held.dev <= dev, byIndex => dev = held.dev,
         UNCHANGED <<nameOf, live, held, byIndex>>
  PROVE  Sockets'
<1>1. Family \in Families /\ held.dev \in 1 .. MaxIndex
  BY HeldPacket
<1>2. /\ bound' = [bound EXCEPT ![Family] = dev]
      /\ cached' = [cached EXCEPT ![Family] = held.dev]
  BY DEF Bind
<1>3. /\ bound \in [Families -> 0 .. MaxIndex]
      /\ cached \in [Families -> 0 .. MaxIndex]
      /\ DOMAIN nameOf = 1 .. Len(nameOf) /\ dev \in DOMAIN nameOf
  BY DEF Base, TypeOK
<1>4. held.dev \in DOMAIN nameOf /\ held.dev <= dev
  BY DEF Sockets, Busy
<1>5. ASSUME NEW f \in Families
      PROVE  /\ cached'[f] # 0 =>
                  bound'[f] \in DOMAIN nameOf /\ cached'[f] \in DOMAIN nameOf
             /\ byIndex => bound'[f] = cached'[f]
             /\ cached'[f] # 0 =>
                  /\ nameOf[cached'[f]] = nameOf[bound'[f]]
                  /\ cached'[f] <= bound'[f]
  <2>1. CASE f = Family
    BY <1>1, <1>2, <1>3, <1>4, <2>1
  <2>2. CASE f # Family
    <3>1. bound'[f] = bound[f] /\ cached'[f] = cached[f]
      BY <1>2, <1>3, <2>2
    <3>. QED  BY <3>1 DEF Sockets
  <2>. QED  BY <2>1, <2>2
<1>. QED  BY <1>4, <1>5 DEF Sockets

LEMMA PlugSockets ==
  ASSUME Base, Sockets, Plug
  PROVE  Sockets'
<1>1. PICK n \in Names : /\ \A dev \in live : nameOf[dev] # n
                         /\ nameOf' = Append(nameOf, n)
  BY DEF Plug
<1>. DEFINE top == Len(nameOf)
<1>2. /\ nameOf \in Seq(Names) /\ top \in Nat /\ live \subseteq 1 .. top
      /\ DOMAIN nameOf = 1 .. top
  BY DEF Base, TypeOK
<1>3. /\ DOMAIN nameOf' = 1 .. top + 1 /\ nameOf'[top + 1] = n
      /\ \A i \in 1 .. top : nameOf'[i] = nameOf[i]
  BY <1>1, <1>2
<1>4. live' = live \union {top + 1}
  BY DEF Plug
<1>. HIDE DEF top
<1>5. ASSUME NEW dev \in live', NEW i \in DOMAIN nameOf', nameOf'[i] = nameOf'[dev]
      PROVE  i <= dev
  <2>1. CASE dev = top + 1
    BY <1>2, <1>3, <2>1
  <2>2. CASE dev # top + 1
    <3>1. dev \in live /\ nameOf'[dev] = nameOf[dev]
      BY <1>2, <1>3, <1>4, <2>2
    <3>2. CASE i = top + 1
      BY <1>1, <1>3, <1>5, <3>1, <3>2
    <3>3. CASE i # top + 1
      <4>1. i \in 1 .. top
        BY <1>2, <1>3, <3>3
      <4>. QED  BY <1>2, <1>3, <1>5, <3>1, <4>1 DEF Sockets
    <3>. QED  BY <3>2, <3>3
  <2>. QED  BY <2>1, <2>2
<1>6. DOMAIN nameOf \subseteq DOMAIN nameOf'
  BY <1>2, <1>3
<1>7. UNCHANGED <<pc, held, device, byIndex, bound, cached>>
  BY DEF Plug, sockets
<1>8. \A f \in Families :
        /\ cached[f] # 0 => bound[f] \in DOMAIN nameOf' /\ cached[f] \in DOMAIN nameOf'
        /\ byIndex => bound[f] = cached[f]
        /\ cached[f] # 0 => /\ nameOf'[cached[f]] = nameOf'[bound[f]]
                            /\ cached[f] <= bound[f]
  BY <1>2, <1>3, <1>6 DEF Sockets
<1>9. pc = "bind" => device = nameOf'[held.dev]
  BY <1>2, <1>3 DEF Sockets, Busy
<1>. QED  BY <1>5, <1>6, <1>7, <1>8, <1>9 DEF Sockets

(* Nothing but control has moved.                                          *)
LEMMA FrameSockets ==
  ASSUME Sockets, UNCHANGED <<nameOf, byIndex, bound, cached>>,
         live' \subseteq live,
         pc' \in Busy => held'.dev \in DOMAIN nameOf,
         pc' = "bind" => ~byIndex /\ device' = nameOf[held'.dev]
  PROVE  Sockets'
BY DEF Sockets

LEMMA SocketsStep == Base /\ Sockets /\ [Next]_vars => Sockets'
<1>. SUFFICES ASSUME Base, Sockets, [Next]_vars PROVE Sockets'
  OBVIOUS
<1>1. CASE End /\ UNCHANGED devices
  BY <1>1 DEF End, Sockets, Unbound, Busy, devices, Families
<1>2. CASE Plug
  BY <1>2, PlugSockets
<1>3. CASE BindToIndex
  <2>1. held.dev \in 1 .. MaxIndex /\ held.dev \in DOMAIN nameOf
    BY <1>3, HeldPacket DEF BindToIndex, MustBind, Sockets, Busy
  <2>. QED
    BY <1>3, <2>1, BindSockets DEF BindToIndex, MustBind, devices
<1>4. CASE BindToName
  <2>1. PICK dev \in live : nameOf[dev] = device /\ Bind(dev)
    BY <1>4 DEF BindToName
  <2>2. pc = "bind" /\ ~byIndex /\ device = nameOf[held.dev]
    BY <1>4 DEF BindToName, Sockets
  <2>3. held.dev \in DOMAIN nameOf
    BY <2>2 DEF Sockets, Busy
  <2>4. dev \in DOMAIN nameOf /\ held.dev <= dev
    BY <2>1, <2>2, <2>3 DEF Base, TypeOK, Sockets
  <2>. QED
    BY <1>4, <2>1, <2>2, <2>4, BindSockets DEF BindToName, devices
<1>5. CASE GiveUpIndexes
  BY <1>5 DEF GiveUpIndexes, MustBind, Sockets, Busy, devices
<1>6. CASE Receive
  <2>1. PICK dev \in live : held'.dev = dev
    BY <1>6 DEF Receive
  <2>2. held'.dev \in DOMAIN nameOf
    BY <2>1 DEF Base, TypeOK
  <2>3. pc' # "bind"
    BY <1>6 DEF Receive
  <2>. QED
    BY <1>6, <2>2, <2>3, FrameSockets DEF Receive, devices, sockets
<1>7. CASE NameDevice
  BY <1>7, FrameSockets DEF NameDevice, MustBind, Sockets, Busy, devices, sockets
<1>8. CASE Start \/ LoadPayload \/ PayloadsLoaded \/ Open
  BY <1>8, FrameSockets
  DEF Start, LoadPayload, PayloadsLoaded, Open, Busy, devices, sockets
<1>9. CASE Release \/ ReleaseFails \/ Send \/ SendFails \/ BindFails
  <2>1. /\ UNCHANGED <<devices, sockets>> /\ pc' # "bind"
        /\ pc' \in Busy => pc \in Busy /\ held' = held
    BY <1>9 DEF Release, ReleaseFails, Done, Send, SendFails, BindFails, MustBind, AfterDecoy, Busy
  <2>. QED  BY <2>1, FrameSockets DEF Sockets, devices, sockets
<1>10. CASE Unplug \/ ReceiveUnread \/ UNCHANGED vars
  <2>1. /\ UNCHANGED <<nameOf, sockets, pc, held, device>> /\ live' \subseteq live
    BY <1>10 DEF Unplug, ReceiveUnread, vars, devices
  <2>. QED  BY <2>1, FrameSockets DEF Sockets, sockets
<1>11. CASE PayloadFails \/ OpenFails \/ Stop
  BY <1>1, <1>11 DEF PayloadFails, OpenFails, Stop
<1>. QED
  BY <1>2, <1>3, <1>4, <1>5, <1>6, <1>7, <1>8, <1>9, <1>10, <1>11
  DEF Next, Process

LEMMA SocketsAlways == Spec => []Sockets
<1>1. Init => Sockets
  BY DEF Init, Sockets, Unbound, Busy
<1>. QED  BY <1>1, SocketsStep, BaseAlways, PTL DEF Spec

Own ==
  \A d \in wire :
    /\ d.dev \in DOMAIN nameOf
    /\ \/ d.dev = held.dev
       \/ ~byIndex /\ nameOf[d.dev] = nameOf[held.dev] /\ held.dev < d.dev

LEMMA SendOwn ==
  ASSUME Base, Sockets, Own, Send
  PROVE  Own'
<1>1. /\ UNCHANGED <<nameOf, byIndex, held>>
      /\ wire' = wire \union {Decoy(Exit)} /\ Exit \in live
  BY DEF Send, devices, sockets
<1>2. Exit \in DOMAIN nameOf
  BY <1>1 DEF Base, TypeOK
<1>3. \/ Exit = held.dev
      \/ ~byIndex /\ nameOf[Exit] = nameOf[held.dev] /\ held.dev < Exit
  <2>1. CASE ~held.out
    BY <2>1 DEF Exit
  <2>2. CASE held.out
    <3>1. /\ Family \in Families /\ held.dev \in 1 .. MaxIndex
          /\ cached[Family] = held.dev /\ Exit = bound[Family]
      BY <2>2, HeldPacket DEF Send, IsBound, Exit
    <3>2. held.dev # 0
      BY <3>1
    <3>3. /\ nameOf[held.dev] = nameOf[Exit] /\ held.dev <= Exit
          /\ byIndex => Exit = held.dev
      BY <3>1, <3>2 DEF Sockets
    <3>4. Exit \in 0 .. MaxIndex
      BY <3>1 DEF Base, TypeOK
    <3>. QED  BY <3>1, <3>3, <3>4 DEF Base, TypeOK
  <2>. QED  BY <2>1, <2>2
<1>4. Decoy(Exit).dev = Exit
  BY DEF Decoy
<1>. QED  BY <1>1, <1>2, <1>3, <1>4 DEF Own

LEMMA PlugOwn ==
  ASSUME Base, Sockets, Own, Plug
  PROVE  Own'
<1>1. UNCHANGED <<wire, held, byIndex>>
  BY DEF Plug, burst, sockets
<1>2. PICK n \in Names : nameOf' = Append(nameOf, n)
  BY DEF Plug
<1>3. nameOf \in Seq(Names)
  BY DEF Base, TypeOK
<1>4. /\ \A i \in DOMAIN nameOf : nameOf'[i] = nameOf[i]
      /\ DOMAIN nameOf \subseteq DOMAIN nameOf'
  BY <1>2, <1>3
<1>5. wire # {} => held.dev \in DOMAIN nameOf
  BY DEF Base, Control, Sockets
<1>. QED  BY <1>1, <1>4, <1>5 DEF Own

LEMMA OwnStep == Base /\ Sockets /\ Own /\ [Next]_vars => Own'
<1>. SUFFICES ASSUME Base, Sockets, Own, [Next]_vars PROVE Own'
  OBVIOUS
<1>1. CASE Send
  BY <1>1, SendOwn
<1>2. CASE Plug
  BY <1>2, PlugOwn
<1>3. CASE wire' = {}
  BY <1>3 DEF Own
<1>4. CASE UNCHANGED <<wire, held, nameOf>> /\ (~byIndex => ~byIndex')
  BY <1>4 DEF Own
<1>5. CASE Start \/ LoadPayload \/ PayloadsLoaded \/ PayloadFails \/ Open
             \/ OpenFails \/ Stop \/ Receive \/ ReceiveUnread \/ Release
             \/ ReleaseFails
  <2>1. wire' = {}
    BY <1>5 DEF Start, LoadPayload, PayloadsLoaded, PayloadFails, Open, OpenFails,
       Stop, Receive, ReceiveUnread, Release, ReleaseFails, Done, burst, Base,
       Control, Busy
  <2>. QED  BY <1>3, <2>1
<1>6. CASE SendFails \/ BindToIndex \/ GiveUpIndexes \/ NameDevice
             \/ BindToName \/ BindFails \/ Unplug \/ UNCHANGED vars
  <2>1. UNCHANGED <<wire, held, nameOf>> /\ (~byIndex => ~byIndex')
    BY <1>6 DEF SendFails, BindToIndex, GiveUpIndexes, NameDevice, BindToName,
       BindFails, Unplug, vars, devices, sockets, burst
  <2>. QED  BY <1>4, <2>1
<1>. QED
  BY <1>1, <1>2, <1>5, <1>6 DEF Next, Process

(* However devices come and go, a decoy leaves by the device of its packet *)
(* or, bound by name, by the device that took its name.                    *)
THEOREM DecoysUseOwnDevice == Spec => []DecoysByOwnDevice
<1>1. Init => Own
  BY DEF Init, Own
<1>2. Own => DecoysByOwnDevice
  BY DEF Own, DecoysByOwnDevice
<1>. QED  BY <1>1, <1>2, OwnStep, SocketsAlways, BaseAlways, PTL DEF Spec

---------------------------------------------------------------------------
(* Progress: what is left to do for the packet held.                       *)

(* Steps until the raw socket is bound: with an index, first found out not *)
(* to be supported; by name, first looked up.                              *)
ToBind ==
  IF pc = "bind" THEN 1
  ELSE IF ~MustBind THEN 0 ELSE IF byIndex THEN 3 ELSE 2

(* Steps of the process, at most, until the verdict may be asked for.      *)
Distance == IF pc = "release" THEN 0 ELSE 1 + left + ToBind

(* A step asks for the verdict of the packet held or brings that nearer;   *)
(* that devices come and go does not take it farther away, and nothing     *)
(* else ends the hold or swaps the packet for another.                     *)
Advance ==
  held # NoPacket =>
    \/ held' = NoPacket /\ Distance = 0 /\ fate' \in {"released", "refused"}
    \/ held' = held /\ Distance' < Distance
    \/ (Plug \/ Unplug) /\ UNCHANGED <<held, Distance>>

LEMMA HeldIsBusy == Base => (held # NoPacket <=> pc \in Busy)
BY NoPacketIsNone DEF Base, TypeOK, Control

LEMMA DistanceBound == Base /\ held # NoPacket => Distance \in 0 .. 14
<1>. SUFFICES ASSUME Base, held # NoPacket PROVE Distance \in 0 .. 14
  OBVIOUS
<1>1. pc \in Busy
  BY HeldIsBusy
<1>2. ToBind \in 0 .. 3
  BY DEF ToBind, Base, TypeOK
<1>3. pc # "release" => left \in 1 .. 10
  BY <1>1 DEF Base, Control, Busy
<1>. QED  BY <1>2, <1>3 DEF Distance

(* Bound to its device, the socket needs no more steps.                    *)
LEMMA BindSettles ==
  ASSUME Base, pc \in {"send", "bind"}, NEW dev \in 1 .. MaxIndex, Bind(dev),
         UNCHANGED <<held, left>>, pc' = "send"
  PROVE  Distance' = 1 + left
<1>1. Family \in Families /\ held.dev \in 1 .. MaxIndex
  BY HeldPacket
<1>2. cached' = [cached EXCEPT ![Family] = held.dev]
  BY DEF Bind
<1>3. cached'[Family] = held.dev
  BY <1>1, <1>2 DEF Base, TypeOK
<1>4. IsBound' /\ ~MustBind'
  BY <1>3 DEF IsBound, MustBind, Family
<1>5. ToBind' = 0
  BY <1>4 DEF ToBind
<1>6. left \in Nat
  BY DEF Base, TypeOK
<1>. QED  BY <1>5, <1>6 DEF Distance

LEMMA AdvanceStep == Base /\ [Next]_vars => [Advance]_vars
<1>. SUFFICES ASSUME Base, Next, held # NoPacket PROVE Advance
  BY DEF Advance
<1>0. left \in Nat
  BY DEF Base, TypeOK
<1>1. pc \in Busy /\ (pc # "release" => left \in 1 .. 10) /\ left \in Nat
  BY <1>0, HeldIsBusy DEF Base, Control, Busy
<1>2. CASE Send
  <2>1. pc = "send" /\ ~MustBind /\ held' = held /\ cached' = cached
    BY <1>2 DEF Send, MustBind, sockets
  <2>2. pc' = (IF left = 1 THEN "release" ELSE "send") /\ left' = left - 1
    BY <1>2 DEF Send, AfterDecoy
  <2>3. ~MustBind'
    BY <2>1 DEF MustBind, IsBound, Family
  <2>4. ToBind = 0 /\ ToBind' = 0
    BY <2>1, <2>2, <2>3 DEF ToBind
  <2>. QED  BY <1>1, <2>1, <2>2, <2>4 DEF Advance, Distance
<1>3. CASE SendFails \/ BindFails
  <2>1. pc \in {"send", "bind"} /\ pc' = "release" /\ held' = held
    BY <1>3 DEF SendFails, BindFails, MustBind
  <2>2. ToBind \in 0 .. 3
    BY DEF ToBind, Base, TypeOK
  <2>. QED  BY <1>1, <2>1, <2>2 DEF Advance, Distance
<1>4. CASE BindToIndex
  <2>1. pc = "send" /\ Bind(held.dev) /\ held' = held
    BY <1>4 DEF BindToIndex, MustBind
  <2>2. left' = left /\ pc' = "send"
    BY <1>4, <2>1 DEF BindToIndex, burst
  <2>3. Distance' = 1 + left
    BY <2>1, <2>2, HeldPacket, BindSettles
  <2>4. ToBind = 3
    BY <1>4 DEF BindToIndex, MustBind, ToBind
  <2>. QED  BY <1>1, <2>1, <2>3, <2>4 DEF Advance, Distance
<1>5. CASE GiveUpIndexes
  <2>1. /\ MustBind /\ byIndex /\ pc = "send" /\ ~byIndex' /\ pc' = "send"
        /\ UNCHANGED <<held, cached, left>>
    BY <1>5 DEF GiveUpIndexes, MustBind, burst
  <2>2. MustBind'
    BY <2>1 DEF MustBind, IsBound, Family
  <2>3. ToBind = 3 /\ ToBind' = 2
    BY <2>1, <2>2 DEF ToBind
  <2>. QED  BY <1>1, <2>1, <2>3 DEF Advance, Distance
<1>6. CASE NameDevice
  <2>1. /\ MustBind /\ ~byIndex /\ pc = "send" /\ pc' = "bind"
        /\ UNCHANGED <<held, left>>
    BY <1>6 DEF NameDevice, MustBind, burst
  <2>2. ToBind = 2 /\ ToBind' = 1
    BY <2>1 DEF ToBind
  <2>. QED  BY <1>1, <2>1, <2>2 DEF Advance, Distance
<1>7. CASE BindToName
  <2>1. PICK dev \in live : Bind(dev)
    BY <1>7 DEF BindToName
  <2>2. dev \in 1 .. MaxIndex
    BY <2>1, PathAssumption DEF Base, TypeOK
  <2>3. pc = "bind" /\ pc' = "send" /\ UNCHANGED <<held, left>>
    BY <1>7 DEF BindToName, burst
  <2>4. Distance' = 1 + left
    BY <2>1, <2>2, <2>3, BindSettles
  <2>5. ToBind = 1
    BY <2>3 DEF ToBind
  <2>. QED  BY <1>1, <2>3, <2>4, <2>5 DEF Advance, Distance
<1>8. CASE Release \/ ReleaseFails
  BY <1>8 DEF Release, ReleaseFails, Done, Advance, Distance
<1>9. CASE Plug \/ Unplug
  <2>1. UNCHANGED <<pc, held, left, cached, byIndex>>
    BY <1>9 DEF Plug, Unplug, sockets, burst
  <2>2. UNCHANGED Distance
    BY <2>1 DEF Distance, ToBind, MustBind, IsBound, Family
  <2>. QED  BY <1>9, <2>1, <2>2 DEF Advance
<1>10. CASE Start \/ Stop \/ Receive \/ ReceiveUnread \/ LoadPayload
              \/ PayloadsLoaded \/ PayloadFails \/ Open \/ OpenFails
  <2>1. pc \notin Busy
    BY <1>10 DEF Start, Stop, Receive, ReceiveUnread, LoadPayload, PayloadsLoaded,
       PayloadFails, Open, OpenFails, Busy
  <2>. QED  BY <1>1, <2>1
<1>. QED
  BY <1>2, <1>3, <1>4, <1>5, <1>6, <1>7, <1>8, <1>9, <1>10 DEF Next, Process

(* Whatever the sockets of the decoys and the devices do, a packet is held *)
(* for at most 14 more steps of its own process; each of them brings its   *)
(* verdict nearer, and only asking the kernel for the verdict, which may   *)
(* refuse it, ends the hold.  With fairness of those steps (the run) every *)
(* packet taken up comes to that.                                          *)
THEOREM PacketsAdvance ==
  Spec => /\ [][Advance]_vars
          /\ [](held # NoPacket => Distance \in 0 .. 14)
<1>. QED  BY AdvanceStep, DistanceBound, BaseAlways, PTL DEF Spec
=============================================================================
