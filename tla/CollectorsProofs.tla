-------------------------- MODULE CollectorsProofs --------------------------
(***************************************************************************)
(* Theorems about the collectors and about the passive collector's         *)
(* decoder: for every frame, every host and every capacity.                *)
(***************************************************************************)
EXTENDS Collectors, FiniteSetTheorems, SequenceTheorems, TLAPS

-----------------------------------------------------------------------------
(* An observation on its way through the layers.                           *)
Transports  == {"", "TCP", "UDP", "ICMP", "IP", "ARP", "ETH"}
Confidences == {"unknown", "known", "inferred", "unsupported"}
Hints       == {"unknown", "modbus", "dnp3", "ethernet_ip", "s7"}
Unknown     == "MODBUS_UNSUPPORTED_FUNCTION"
Flags       == {Truncated, Malformed, Unsupported, ModbusTruncated, InvalidMBAP, Unknown}

Observation ==
    [transport : Transports, conf : Confidences, hint : Hints, flags : SUBSET Flags,
     ports : SUBSET Nat, payload : Nat, read : Nat]

(* What the layers below have left: nothing decided, and nothing read that *)
(* was not captured.                                                       *)
Undecided(f, obs) ==
    /\ obs \in Observation /\ obs.read <= f.len
    /\ obs.payload = 0 /\ obs.hint = "unknown" /\ obs.transport = ""

(* What a layer leaves: an observation that is known, or one that is       *)
(* rejected with a flag and without a payload.                             *)
Known(f, obs) ==
    /\ obs \in Observation /\ obs.read <= f.len /\ obs.payload <= f.len
    /\ obs.hint = "unknown" /\ obs.conf = "known"

Rejected(f, obs) ==
    /\ obs \in Observation /\ obs.read <= f.len
    /\ obs.hint = "unknown" /\ obs.conf = "unsupported"
    /\ obs.flags # {} /\ obs.payload = 0

LEMMA FlagNames ==
    /\ Truncated \in Flags /\ Malformed \in Flags /\ Unsupported \in Flags
    /\ ModbusTruncated \in Flags /\ InvalidMBAP \in Flags /\ Unknown \in Flags
BY DEF Flags

(* Reading further moves the ghost and nothing else.                       *)
LEMMA UpToFields ==
    ASSUME NEW obs \in Observation, NEW end \in Nat
    PROVE  /\ UpTo(obs, end) \in Observation
           /\ UpTo(obs, end).read = IF end > obs.read THEN end ELSE obs.read
           /\ UpTo(obs, end).transport = obs.transport /\ UpTo(obs, end).conf = obs.conf
           /\ UpTo(obs, end).hint = obs.hint /\ UpTo(obs, end).flags = obs.flags
           /\ UpTo(obs, end).ports = obs.ports /\ UpTo(obs, end).payload = obs.payload
BY DEF UpTo, Observation

(* A flag changes the flags.                                               *)
LEMMA FlagFields ==
    ASSUME NEW obs \in Observation, NEW flag \in Flags
    PROVE  /\ Flag(obs, flag) \in Observation /\ Flag(obs, flag).flags = obs.flags \cup {flag}
           /\ Flag(obs, flag).read = obs.read
           /\ Flag(obs, flag).transport = obs.transport /\ Flag(obs, flag).conf = obs.conf
           /\ Flag(obs, flag).hint = obs.hint
           /\ Flag(obs, flag).ports = obs.ports /\ Flag(obs, flag).payload = obs.payload
BY DEF Flag, Observation

(* Rejecting an observation.                                               *)
LEMMA RejectFields ==
    ASSUME NEW obs \in Observation, NEW flag \in Flags
    PROVE  /\ Reject(obs, flag) \in Observation /\ Reject(obs, flag).flags # {}
           /\ Reject(obs, flag).read = obs.read /\ Reject(obs, flag).conf = "unsupported"
           /\ Reject(obs, flag).hint = obs.hint /\ Reject(obs, flag).payload = obs.payload
           /\ Reject(obs, flag).transport = obs.transport
<1> DEFINE flagged == Flag(obs, flag)
<1>1. /\ flagged \in Observation /\ flagged.flags # {} /\ flagged.read = obs.read
      /\ flagged.hint = obs.hint /\ flagged.payload = obs.payload
      /\ flagged.transport = obs.transport
  BY FlagFields
<1>2. Reject(obs, flag) = [flagged EXCEPT !.conf = "unsupported"]
  BY DEF Reject
<1> HIDE DEF flagged
<1> QED
  BY <1>1, <1>2 DEF Observation, Confidences

(* A rejected observation is decided, against the frame.                   *)
LEMMA RejectDecided ==
    ASSUME NEW f \in Frame, NEW obs \in Observation, obs.read <= f.len, obs.payload = 0,
           obs.hint = "unknown", NEW flag \in Flags
    PROVE  Rejected(f, Reject(obs, flag))
<1>1. f.len \in Nat
  BY DEF Frame
<1> QED
  BY <1>1, RejectFields DEF Rejected

(* The fields of a frame that the proofs look at.                          *)
LEMMA FrameFields ==
    ASSUME NEW f \in Frame
    PROVE  /\ f.len \in Nat /\ f.ihl \in Nat /\ f.doff \in Nat /\ f.ver \in Nat
           /\ f.proto \in Nat /\ f.src \in Nat /\ f.dst \in Nat /\ f.fc \in Nat
           /\ f.mbProto \in Nat /\ f.mbLen \in Nat
<1>1. /\ f.len \in Nat /\ f.ihl \in Nibble /\ f.doff \in Nibble /\ f.ver \in Nibble
      /\ f.proto \in Byte /\ f.fc \in Byte /\ f.src \in Word /\ f.dst \in Word
      /\ f.mbProto \in Word /\ f.mbLen \in Word
  BY DEF Frame
<1>2. \A n : (n \in Nibble => n \in Nat)
  BY DEF Nibble
<1>3. \A n : (n \in Byte => n \in Nat)
  BY DEF Byte
<1>4. \A n : (n \in Word => n \in Nat)
  BY DEF Word
<1> QED
  BY <1>1, <1>2, <1>3, <1>4

(* The ports lie in the first four bytes of the transport header.          *)
LEMMA PortsFields ==
    ASSUME NEW f \in Frame, NEW l4 \in Nat, NEW obs \in Observation
    PROVE  /\ Ports(obs, f, l4) \in Observation
           /\ Ports(obs, f, l4).read = IF l4 + 4 > obs.read THEN l4 + 4 ELSE obs.read
           /\ Ports(obs, f, l4).hint = obs.hint /\ Ports(obs, f, l4).payload = obs.payload
<1> DEFINE o == UpTo(obs, l4 + 4)
<1>1. /\ o \in Observation /\ o.hint = obs.hint /\ o.payload = obs.payload
      /\ o.read = IF l4 + 4 > obs.read THEN l4 + 4 ELSE obs.read
  BY UpToFields
<1>2. Ports(obs, f, l4) = [o EXCEPT !.ports = {f.src, f.dst}]
  BY DEF Ports
<1>3. {f.src, f.dst} \in SUBSET Nat
  BY FrameFields
<1> HIDE DEF o
<1> QED
  BY <1>1, <1>2, <1>3 DEF Observation

(* What Undecided says, field by field.                                    *)
LEMMA UndecidedFields ==
    ASSUME NEW f \in Frame, NEW obs, Undecided(f, obs)
    PROVE  /\ obs \in Observation /\ obs.read \in Nat /\ obs.read <= f.len
           /\ obs.payload = 0 /\ obs.hint = "unknown" /\ obs.transport = ""
BY DEF Undecided, Observation

(* Reading within the frame.                                               *)
LEMMA UpToStays ==
    ASSUME NEW f \in Frame, NEW obs \in Observation, obs.read <= f.len,
           NEW end \in Nat, end <= f.len
    PROVE  /\ UpTo(obs, end) \in Observation /\ UpTo(obs, end).read <= f.len
           /\ UpTo(obs, end).hint = obs.hint /\ UpTo(obs, end).payload = obs.payload
           /\ UpTo(obs, end).transport = obs.transport
<1>1. f.len \in Nat /\ obs.read \in Nat
  BY FrameFields DEF Observation
<1> QED
  BY <1>1, UpToFields

(* Reading the ports within the frame.                                     *)
LEMMA PortsStay ==
    ASSUME NEW f \in Frame, NEW obs \in Observation, obs.read <= f.len,
           NEW l4 \in Nat, l4 + 4 <= f.len
    PROVE  /\ Ports(obs, f, l4) \in Observation /\ Ports(obs, f, l4).read <= f.len
           /\ Ports(obs, f, l4).hint = obs.hint /\ Ports(obs, f, l4).payload = obs.payload
<1>1. f.len \in Nat /\ obs.read \in Nat
  BY FrameFields DEF Observation
<1> QED
  BY <1>1, PortsFields

(* How the transport decoders end.                                         *)
Carrying(obs, tr, n) == [obs EXCEPT !.transport = tr, !.conf = "known", !.payload = n]

LEMMA KnownDecided ==
    ASSUME NEW f \in Frame, NEW obs \in Observation, obs.read <= f.len, obs.hint = "unknown",
           NEW tr \in Transports, NEW n \in Nat, n <= f.len
    PROVE  /\ Known(f, Carrying(obs, tr, n))
           /\ Carrying(obs, tr, n).payload = n /\ Carrying(obs, tr, n).transport = tr
<1> DEFINE known == Carrying(obs, tr, n)
<1>1. known \in Observation
  BY DEF Observation, Confidences, Carrying
<1>2. /\ known.read = obs.read /\ known.payload = n /\ known.hint = obs.hint
      /\ known.conf = "known" /\ known.transport = tr
  BY DEF Observation, Carrying
<1>3. obs.read \in Nat
  BY DEF Observation
<1> HIDE DEF known
<1> QED
  BY <1>1, <1>2, <1>3 DEF Known, known

-----------------------------------------------------------------------------
(* decodeTCP reads no more than was captured and knows the segment exactly *)
(* when its header is legal and captured.                                  *)
LEMMA TcpLayer ==
    ASSUME NEW f \in Frame, NEW l4 \in Nat, NEW obs, Undecided(f, obs)
    PROVE  LET intact == f.doff >= 5 /\ f.len >= l4 + 4 * f.doff
               tcp    == decodeTCP(f, l4, obs)
           IN  /\ intact => Known(f, tcp) /\ tcp.payload = f.len - (l4 + 4 * f.doff)
               /\ ~intact => Rejected(f, tcp)
<1>1. f.len \in Nat /\ f.doff \in Nat
  BY FrameFields
<1>2. /\ obs \in Observation /\ obs.read <= f.len
      /\ obs.payload = 0 /\ obs.hint = "unknown"
  BY UndecidedFields
<1> DEFINE end == l4 + 4 * f.doff
<1>3. end \in Nat
  BY <1>1
<1>4. CASE f.len < l4 + 20
  <2>1. decodeTCP(f, l4, obs) = Reject(obs, Truncated)
    BY <1>4 DEF decodeTCP
  <2>2. ~(f.doff >= 5 /\ f.len >= end)
    BY <1>1, <1>4
  <2>3. Rejected(f, Reject(obs, Truncated))
    BY <1>2, RejectDecided, FlagNames
  <2> QED
    BY <2>1, <2>2, <2>3
<1>5. CASE ~(f.len < l4 + 20)
  <2> DEFINE p   == Ports(obs, f, l4)
             t   == [p EXCEPT !.transport = "TCP"]
             tcp == UpTo(t, l4 + 13)
  <2>1. p \in Observation /\ p.read <= f.len /\ p.hint = "unknown" /\ p.payload = 0
    <3>1. l4 + 4 <= f.len
      BY <1>1, <1>5
    <3> QED
      BY <1>2, <3>1, PortsStay
  <2> HIDE DEF p
  <2>2. t \in Observation /\ t.read <= f.len /\ t.hint = "unknown" /\ t.payload = 0
    BY <2>1 DEF Observation, Transports
  <2>3. t.transport = "TCP"
    BY <2>1 DEF Observation
  <2> HIDE DEF t
  <2>4. /\ tcp \in Observation /\ tcp.read <= f.len /\ tcp.hint = "unknown" /\ tcp.payload = 0
        /\ tcp.transport = "TCP"
    <3>1. l4 + 13 \in Nat /\ l4 + 13 <= f.len
      BY <1>1, <1>5
    <3> QED
      BY <2>2, <2>3, <3>1, UpToStays
  <2>5. decodeTCP(f, l4, obs) =
          IF f.doff < 5 \/ f.len < end THEN Reject(tcp, Malformed)
          ELSE [UpTo(tcp, end) EXCEPT !.conf = "known", !.payload = f.len - end]
    BY <1>5 DEF decodeTCP, t, p
  <2> HIDE DEF tcp
  <2>6. CASE f.doff < 5 \/ f.len < end
    <3>1. Rejected(f, Reject(tcp, Malformed))
      BY <2>4, RejectDecided, FlagNames
    <3>2. ~(f.doff >= 5 /\ f.len >= end)
      BY <1>1, <1>3, <2>6
    <3> QED
      BY <2>5, <2>6, <3>1, <3>2
  <2>7. CASE ~(f.doff < 5 \/ f.len < end)
    <3> DEFINE k == UpTo(tcp, end)
    <3>1. end <= f.len /\ f.doff >= 5 /\ f.len >= end
      BY <1>1, <1>3, <2>7
    <3>2. f.len - end \in Nat /\ f.len - end <= f.len
      BY <1>1, <1>3, <3>1
    <3> HIDE DEF end
    <3>3. k \in Observation /\ k.read <= f.len /\ k.hint = "unknown" /\ k.transport = "TCP"
      BY <1>3, <2>4, <3>1, UpToStays
    <3> HIDE DEF k
    <3>4. [k EXCEPT !.conf = "known", !.payload = f.len - end]
            = [k EXCEPT !.transport = "TCP", !.conf = "known", !.payload = f.len - end]
      BY <3>3 DEF Observation
    <3>5. /\ Known(f, decodeTCP(f, l4, obs))
          /\ decodeTCP(f, l4, obs).payload = f.len - end
      <4>1. "TCP" \in Transports
        BY DEF Transports
      <4>2. decodeTCP(f, l4, obs) = Carrying(k, "TCP", f.len - end)
        BY <2>5, <2>7, <3>4 DEF k, Carrying
      <4> QED
        BY <3>2, <3>3, <4>1, <4>2, KnownDecided
    <3> QED
      BY <3>1, <3>5 DEF end
  <2> QED
    BY <2>6, <2>7
<1> QED
  BY <1>4, <1>5

(* decodeUDP, likewise.                                                    *)
LEMMA UdpLayer ==
    ASSUME NEW f \in Frame, NEW l4 \in Nat, NEW obs, Undecided(f, obs)
    PROVE  LET udp == decodeUDP(f, l4, obs)
           IN  /\ f.len >= l4 + 8 => Known(f, udp)
               /\ ~(f.len >= l4 + 8) => Rejected(f, udp)
               /\ udp.transport # "TCP"
<1>1. f.len \in Nat
  BY FrameFields
<1>2. /\ obs \in Observation /\ obs.read <= f.len
      /\ obs.payload = 0 /\ obs.hint = "unknown" /\ obs.transport = ""
  BY UndecidedFields
<1>3. CASE f.len < l4 + 8
  <2>1. decodeUDP(f, l4, obs) = Reject(obs, Truncated)
    BY <1>3 DEF decodeUDP
  <2>2. Rejected(f, Reject(obs, Truncated)) /\ Reject(obs, Truncated).transport = ""
    BY <1>2, RejectDecided, RejectFields, FlagNames
  <2>3. ~(f.len >= l4 + 8)
    BY <1>1, <1>3
  <2> QED
    BY <2>1, <2>2, <2>3
<1>4. CASE ~(f.len < l4 + 8)
  <2> DEFINE p == Ports(obs, f, l4)
             u == UpTo(p, l4 + 8)
  <2>1. /\ l4 + 4 <= f.len /\ l4 + 8 \in Nat /\ l4 + 8 <= f.len /\ f.len >= l4 + 8
        /\ f.len - (l4 + 8) \in Nat /\ f.len - (l4 + 8) <= f.len
    BY <1>1, <1>4
  <2>2. p \in Observation /\ p.read <= f.len /\ p.hint = "unknown"
    BY <1>2, <2>1, PortsStay
  <2> HIDE DEF p
  <2>3. u \in Observation /\ u.read <= f.len /\ u.hint = "unknown"
    BY <2>1, <2>2, UpToStays
  <2>4. decodeUDP(f, l4, obs) = Carrying(u, "UDP", f.len - (l4 + 8))
    BY <1>4 DEF decodeUDP, Carrying, p
  <2> HIDE DEF u
  <2>5. Known(f, decodeUDP(f, l4, obs)) /\ decodeUDP(f, l4, obs).transport = "UDP"
    <3>1. "UDP" \in Transports
      BY DEF Transports
    <3> QED
      BY <2>1, <2>3, <2>4, <3>1, KnownDecided
  <2> QED
    BY <2>1, <2>5
<1> QED
  BY <1>3, <1>4

(* decodeICMP, likewise.                                                   *)
LEMMA IcmpLayer ==
    ASSUME NEW f \in Frame, NEW l4 \in Nat, NEW obs, Undecided(f, obs)
    PROVE  LET icmp == decodeICMP(f, l4, obs)
           IN  /\ f.len >= l4 + 4 => Known(f, icmp)
               /\ ~(f.len >= l4 + 4) => Rejected(f, icmp)
               /\ icmp.transport # "TCP"
<1>1. f.len \in Nat
  BY FrameFields
<1>2. /\ obs \in Observation /\ obs.read <= f.len
      /\ obs.payload = 0 /\ obs.hint = "unknown" /\ obs.transport = ""
  BY UndecidedFields
<1>3. CASE f.len < l4 + 4
  <2>1. decodeICMP(f, l4, obs) = Reject(obs, Truncated)
    BY <1>3 DEF decodeICMP
  <2>2. Rejected(f, Reject(obs, Truncated)) /\ Reject(obs, Truncated).transport = ""
    BY <1>2, RejectDecided, RejectFields, FlagNames
  <2>3. ~(f.len >= l4 + 4)
    BY <1>1, <1>3
  <2> QED
    BY <2>1, <2>2, <2>3
<1>4. CASE ~(f.len < l4 + 4)
  <2> DEFINE u == UpTo(obs, l4 + 2)
  <2>1. /\ l4 + 2 \in Nat /\ l4 + 2 <= f.len /\ f.len >= l4 + 4
        /\ f.len - l4 \in Nat /\ f.len - l4 <= f.len
    BY <1>1, <1>4
  <2>2. u \in Observation /\ u.read <= f.len /\ u.hint = "unknown"
    BY <1>2, <2>1, UpToStays
  <2>3. decodeICMP(f, l4, obs) = Carrying(u, "ICMP", f.len - l4)
    BY <1>4 DEF decodeICMP, Carrying
  <2> HIDE DEF u
  <2>4. Known(f, decodeICMP(f, l4, obs)) /\ decodeICMP(f, l4, obs).transport = "ICMP"
    <3>1. "ICMP" \in Transports
      BY DEF Transports
    <3> QED
      BY <2>1, <2>2, <2>3, <3>1, KnownDecided
  <2> QED
    BY <2>1, <2>4
<1> QED
  BY <1>3, <1>4

-----------------------------------------------------------------------------
(* The headers below IPv4 that Intact asks for.                            *)
SegmentIntact(f) ==
    /\ f.ver = 4 /\ f.ihl >= 5 /\ f.proto \in {1, 6, 17}
    /\ f.proto = 6 => f.doff >= 5
    /\ f.len >= TransportEnd(f)

LEMMA Lengths ==
    ASSUME NEW f \in Frame
    PROVE  /\ LinkLength(f) \in Nat /\ L4(f) \in Nat /\ L4(f) = LinkLength(f) + 4 * f.ihl
           /\ f.proto = 6 => TransportEnd(f) = L4(f) + 4 * f.doff
           /\ f.proto = 17 => TransportEnd(f) = L4(f) + 8
           /\ f.proto = 1 => TransportEnd(f) = L4(f) + 4
<1>1. LinkLength(f) \in Nat
  BY DEF LinkLength
<1>2. f.ihl \in Nat /\ f.proto \in Nat
  BY FrameFields
<1>3. L4(f) = LinkLength(f) + 4 * f.ihl
  BY DEF L4
<1>4. L4(f) \in Nat
  BY <1>1, <1>2, <1>3
<1>5. /\ f.proto = 6 => TransportEnd(f) = L4(f) + 4 * f.doff
      /\ f.proto = 17 => TransportEnd(f) = L4(f) + 8
      /\ f.proto = 1 => TransportEnd(f) = L4(f) + 4
  BY <1>2 DEF TransportEnd
<1> QED
  BY <1>1, <1>3, <1>4, <1>5

(* Reading further leaves an observation undecided.                        *)
LEMMA StillUndecided ==
    ASSUME NEW f \in Frame, NEW obs, Undecided(f, obs), NEW end \in Nat, end <= f.len
    PROVE  Undecided(f, UpTo(obs, end))
<1>1. /\ obs \in Observation /\ obs.read <= f.len /\ obs.payload = 0
      /\ obs.hint = "unknown" /\ obs.transport = ""
  BY UndecidedFields
<1>2. /\ UpTo(obs, end) \in Observation /\ UpTo(obs, end).read <= f.len
      /\ UpTo(obs, end).payload = 0 /\ UpTo(obs, end).hint = "unknown"
      /\ UpTo(obs, end).transport = ""
  BY <1>1, UpToStays
<1> QED
  BY <1>2 DEF Undecided

(* An undecided observation can be rejected, under any transport.          *)
LEMMA RejectUndecided ==
    ASSUME NEW f \in Frame, NEW obs, Undecided(f, obs), NEW flag \in Flags
    PROVE  Rejected(f, Reject(obs, flag)) /\ Reject(obs, flag).transport = ""
<1>1. /\ obs \in Observation /\ obs.read <= f.len /\ obs.payload = 0
      /\ obs.hint = "unknown" /\ obs.transport = ""
  BY UndecidedFields
<1> QED
  BY <1>1, RejectDecided, RejectFields

Under(obs, tr) == [obs EXCEPT !.transport = tr]

LEMMA UnderFields ==
    ASSUME NEW f \in Frame, NEW obs, Undecided(f, obs), NEW tr \in Transports
    PROVE  /\ Under(obs, tr) \in Observation /\ Under(obs, tr).read <= f.len
           /\ Under(obs, tr).payload = 0 /\ Under(obs, tr).hint = "unknown"
           /\ Under(obs, tr).transport = tr
<1>1. /\ obs \in Observation /\ obs.read <= f.len /\ obs.payload = 0
      /\ obs.hint = "unknown" /\ obs.transport = ""
  BY UndecidedFields
<1> QED
  BY <1>1 DEF Under, Observation

LEMMA RejectUnder ==
    ASSUME NEW f \in Frame, NEW obs, Undecided(f, obs), NEW tr \in Transports,
           NEW flag \in Flags
    PROVE  Rejected(f, Reject(Under(obs, tr), flag)) /\ Reject(Under(obs, tr), flag).transport = tr
BY UnderFields, RejectDecided, RejectFields

(* decodeIPv4 decides for the packet exactly when its headers are intact,  *)
(* and what it then calls TCP is TCP, with what follows it as the payload. *)
LEMMA IPv4Layer ==
    ASSUME NEW f \in Frame, NEW obs, Undecided(f, obs)
    PROVE  LET ip == decodeIPv4(f, LinkLength(f), obs)
           IN  /\ SegmentIntact(f) => Known(f, ip)
               /\ ~SegmentIntact(f) => Rejected(f, ip)
               /\ SegmentIntact(f) /\ ip.transport = "TCP" =>
                    f.proto = 6 /\ ip.payload = f.len - TransportEnd(f)
<1> DEFINE l3 == LinkLength(f)
           l4 == L4(f)
           res == decodeIPv4(f, l3, obs)
<1>1. /\ f.len \in Nat /\ f.ihl \in Nat /\ f.doff \in Nat /\ f.ver \in Nat /\ f.proto \in Nat
  BY FrameFields
<1>2. l3 \in Nat /\ l4 \in Nat /\ l4 = l3 + 4 * f.ihl
  BY Lengths
<1>3. /\ f.proto = 6 => TransportEnd(f) = l4 + 4 * f.doff
      /\ f.proto = 17 => TransportEnd(f) = l4 + 8
      /\ f.proto = 1 => TransportEnd(f) = l4 + 4
  BY Lengths
<1>4. SegmentIntact(f) => /\ f.ver = 4 /\ f.ihl >= 5 /\ f.len >= TransportEnd(f)
                          /\ f.proto \in {1, 6, 17} /\ (f.proto = 6 => f.doff >= 5)
  BY DEF SegmentIntact
<1>5. (/\ f.ver = 4 /\ f.ihl >= 5 /\ f.len >= TransportEnd(f)
       /\ f.proto \in {1, 6, 17} /\ (f.proto = 6 => f.doff >= 5)) => SegmentIntact(f)
  BY DEF SegmentIntact
<1> DEFINE ip == UpTo(obs, l3 + 1)
           named == UpTo(ip, l3 + 20)
           addressed == UpTo(named, l4)
<1>6. res = IF f.len < l3 + 20 THEN Reject(obs, Truncated)
            ELSE IF f.ver # 4 \/ f.ihl < 5 \/ f.len < l4 THEN Reject(ip, Malformed)
            ELSE CASE f.proto = 6  -> decodeTCP(f, l4, addressed)
                   [] f.proto = 17 -> decodeUDP(f, l4, addressed)
                   [] f.proto = 1  -> decodeICMP(f, l4, addressed)
                   [] OTHER -> Reject(Under(addressed, "IP"), Unsupported)
  BY <1>2 DEF decodeIPv4, Under
<1> HIDE DEF l3, l4, res, ip, named, addressed
<1>7. SUFFICES /\ SegmentIntact(f) => Known(f, res)
               /\ ~SegmentIntact(f) => Rejected(f, res)
               /\ SegmentIntact(f) /\ res.transport = "TCP" =>
                    f.proto = 6 /\ res.payload = f.len - TransportEnd(f)
  BY DEF res, l3
<1>8. SegmentIntact(f) => f.len >= l3 + 20 /\ f.len >= l4
  BY <1>1, <1>2, <1>3, <1>4
<1>9. CASE f.len < l3 + 20
  <2>1. Rejected(f, Reject(obs, Truncated))
    BY RejectUndecided, FlagNames
  <2>2. ~SegmentIntact(f)
    BY <1>1, <1>2, <1>8, <1>9
  <2> QED
    BY <1>6, <1>9, <2>1, <2>2
<1>10. CASE ~(f.len < l3 + 20)
  <2>1. Undecided(f, ip)
    <3>1. l3 + 1 \in Nat /\ l3 + 1 <= f.len
      BY <1>1, <1>2, <1>10
    <3> QED
      BY <3>1, StillUndecided DEF ip
  <2>2. f.len >= l4 => Undecided(f, addressed)
    <3>1. l3 + 20 \in Nat /\ l3 + 20 <= f.len
      BY <1>1, <1>2, <1>10
    <3>2. Undecided(f, named)
      BY <2>1, <3>1, StillUndecided DEF named
    <3>3. f.len >= l4 => l4 <= f.len
      BY <1>1, <1>2
    <3> QED
      BY <1>2, <3>2, <3>3, StillUndecided DEF addressed
  <2>3. CASE f.ver # 4 \/ f.ihl < 5 \/ f.len < l4
    <3>1. Rejected(f, Reject(ip, Malformed))
      BY <2>1, RejectUndecided, FlagNames
    <3>2. ~SegmentIntact(f)
      BY <1>1, <1>2, <1>4, <1>8, <2>3
    <3>3. res = Reject(ip, Malformed)
      BY <1>6, <1>10, <2>3
    <3> QED
      BY <3>1, <3>2, <3>3
  <2>4. CASE ~(f.ver # 4 \/ f.ihl < 5 \/ f.len < l4)
    <3>1. res = CASE f.proto = 6  -> decodeTCP(f, l4, addressed)
                  [] f.proto = 17 -> decodeUDP(f, l4, addressed)
                  [] f.proto = 1  -> decodeICMP(f, l4, addressed)
                  [] OTHER -> Reject(Under(addressed, "IP"), Unsupported)
      BY <1>6, <1>10, <2>4
    <3>2. f.ver = 4 /\ f.ihl >= 5 /\ f.len >= l4
      BY <1>1, <1>2, <2>4
    <3>2a. Undecided(f, addressed)
      BY <2>2, <3>2
    <3>3. CASE f.proto = 6
      <4>1. res = decodeTCP(f, l4, addressed)
        BY <3>1, <3>3
      <4>2. SegmentIntact(f) <=> f.doff >= 5 /\ f.len >= l4 + 4 * f.doff
        BY <1>3, <1>4, <1>5, <3>2, <3>3
      <4>3. /\ f.doff >= 5 /\ f.len >= l4 + 4 * f.doff =>
                 Known(f, res) /\ res.payload = f.len - (l4 + 4 * f.doff)
            /\ ~(f.doff >= 5 /\ f.len >= l4 + 4 * f.doff) => Rejected(f, res)
        BY <1>2, <3>2a, <4>1, TcpLayer
      <4> QED
        BY <1>3, <3>3, <4>2, <4>3
    <3>4. CASE f.proto = 17
      <4>1. res = decodeUDP(f, l4, addressed)
        BY <3>1, <3>4
      <4>2. SegmentIntact(f) <=> f.len >= l4 + 8
        BY <1>3, <1>4, <1>5, <3>2, <3>4
      <4>3. /\ f.len >= l4 + 8 => Known(f, res)
            /\ ~(f.len >= l4 + 8) => Rejected(f, res)
            /\ res.transport # "TCP"
        BY <1>2, <3>2a, <4>1, UdpLayer
      <4> QED
        BY <4>2, <4>3
    <3>5. CASE f.proto = 1
      <4>1. res = decodeICMP(f, l4, addressed)
        BY <3>1, <3>5
      <4>2. SegmentIntact(f) <=> f.len >= l4 + 4
        BY <1>3, <1>4, <1>5, <3>2, <3>5
      <4>3. /\ f.len >= l4 + 4 => Known(f, res)
            /\ ~(f.len >= l4 + 4) => Rejected(f, res)
            /\ res.transport # "TCP"
        BY <1>2, <3>2a, <4>1, IcmpLayer
      <4> QED
        BY <4>2, <4>3
    <3>6. CASE f.proto \notin {1, 6, 17}
      <4>1. res = Reject(Under(addressed, "IP"), Unsupported)
        BY <3>1, <3>6
      <4>2. ~SegmentIntact(f)
        BY <1>4, <3>6
      <4>3. "IP" \in Transports
        BY DEF Transports
      <4>4. Rejected(f, res)
        BY <3>2a, <4>1, <4>3, RejectUnder, FlagNames
      <4> QED
        BY <4>2, <4>4
    <3> QED
      BY <3>3, <3>4, <3>5, <3>6
  <2> QED
    BY <2>3, <2>4
<1> QED
  BY <1>9, <1>10

(* decodeARP, likewise.                                                    *)
LEMMA ArpLayer ==
    ASSUME NEW f \in Frame, NEW obs, Undecided(f, obs)
    PROVE  LET arp    == decodeARP(f, LinkLength(f), obs)
               intact == f.arp /\ f.len >= LinkLength(f) + 28
           IN  /\ intact => Known(f, arp)
               /\ ~intact => Rejected(f, arp)
               /\ arp.transport # "TCP"
<1> DEFINE l3  == LinkLength(f)
           u   == UpTo(obs, l3 + 8)
           arp == Under(u, "ARP")
           all == UpTo(arp, l3 + 28)
           res == decodeARP(f, l3, obs)
<1>1. f.len \in Nat /\ l3 \in Nat
  BY FrameFields, Lengths
<1>2. res = IF f.len < l3 + 28 THEN Reject(obs, Truncated)
            ELSE IF ~f.arp THEN Reject(arp, Unsupported)
            ELSE [all EXCEPT !.conf = "known"]
  BY DEF decodeARP, Under
<1> HIDE DEF l3, u, arp, all, res
<1>3. SUFFICES /\ f.arp /\ f.len >= l3 + 28 => Known(f, res)
               /\ ~(f.arp /\ f.len >= l3 + 28) => Rejected(f, res)
               /\ res.transport # "TCP"
  BY DEF res, l3
<1>4. CASE f.len < l3 + 28
  <2>1. Rejected(f, Reject(obs, Truncated)) /\ Reject(obs, Truncated).transport = ""
    BY RejectUndecided, FlagNames
  <2>2. ~(f.len >= l3 + 28)
    BY <1>1, <1>4
  <2>3. res = Reject(obs, Truncated)
    BY <1>2, <1>4
  <2> QED
    BY <2>1, <2>2, <2>3
<1>5. CASE ~(f.len < l3 + 28)
  <2>1. /\ l3 + 8 \in Nat /\ l3 + 8 <= f.len
        /\ l3 + 28 \in Nat /\ l3 + 28 <= f.len /\ f.len >= l3 + 28
    BY <1>1, <1>5
  <2>2. "ARP" \in Transports
    BY DEF Transports
  <2>3. Undecided(f, u)
    BY <2>1, StillUndecided DEF u
  <2>4. CASE ~f.arp
    <3>1. res = Reject(arp, Unsupported)
      BY <1>2, <1>5, <2>4
    <3>2. Rejected(f, res) /\ res.transport = "ARP"
      BY <2>2, <2>3, <3>1, RejectUnder, FlagNames DEF arp
    <3> QED
      BY <2>4, <3>2
  <2>5. CASE f.arp
    <3>1. res = [all EXCEPT !.conf = "known"]
      BY <1>2, <1>5, <2>5
    <3>2. /\ arp \in Observation /\ arp.read <= f.len /\ arp.payload = 0
          /\ arp.hint = "unknown" /\ arp.transport = "ARP"
      BY <2>2, <2>3, UnderFields DEF arp
    <3>3. /\ all \in Observation /\ all.read <= f.len /\ all.payload = 0
          /\ all.hint = "unknown" /\ all.transport = "ARP"
      BY <2>1, <3>2, UpToStays DEF all
    <3>4. res = Carrying(all, "ARP", 0)
      BY <3>1, <3>3 DEF Carrying, Observation
    <3>5. Known(f, res) /\ res.transport = "ARP"
      <4>1. 0 \in Nat /\ 0 <= f.len
        BY <1>1
      <4> QED
        BY <2>2, <3>3, <3>4, <4>1, KnownDecided
    <3> QED
      BY <2>1, <2>5, <3>5
  <2> QED
    BY <2>4, <2>5
<1> QED
  BY <1>4, <1>5

(* What NormalizeRawObservation returns: an observation that is known when *)
(* the frame is intact, rejected when it is not.                           *)
Normal(f, obs) ==
    /\ Intact(f) => Known(f, obs)
    /\ ~Intact(f) => Rejected(f, obs)
    /\ Intact(f) /\ obs.transport = "TCP" =>
          Carries(f) = "IPv4" /\ f.proto = 6 /\ obs.payload = f.len - TransportEnd(f)

LEMMA RouteLayer ==
    ASSUME NEW f \in Frame, NEW obs, Undecided(f, obs), f.len > 0
    PROVE  Normal(f, Route(f, Carries(f), LinkLength(f), obs))
<1> DEFINE type == Carries(f)
           res  == Route(f, type, LinkLength(f), obs)
           arp  == f.arp /\ f.len >= LinkLength(f) + 28
<1>1. res = CASE type = "ARP"  -> decodeARP(f, LinkLength(f), obs)
              [] type = "IPv4" -> decodeIPv4(f, LinkLength(f), obs)
              [] OTHER -> Reject(Under(obs, "ETH"), Unsupported)
  BY DEF Route, Under
<1>2. Intact(f) <=> \/ type = "ARP" /\ arp
                    \/ type = "IPv4" /\ SegmentIntact(f)
  BY DEF Intact, SegmentIntact
<1> HIDE DEF type, res, arp
<1>3. CASE type = "ARP"
  <2>1. /\ arp => Known(f, res)
        /\ ~arp => Rejected(f, res)
        /\ res.transport # "TCP"
    BY <1>1, <1>3, ArpLayer DEF arp
  <2> QED
    BY <1>2, <1>3, <2>1 DEF Normal, res, type
<1>4. CASE type = "IPv4"
  <2>1. /\ SegmentIntact(f) => Known(f, res)
        /\ ~SegmentIntact(f) => Rejected(f, res)
        /\ SegmentIntact(f) /\ res.transport = "TCP" =>
             f.proto = 6 /\ res.payload = f.len - TransportEnd(f)
    BY <1>1, <1>4, IPv4Layer
  <2> QED
    BY <1>2, <1>4, <2>1 DEF Normal, res, type
<1>5. CASE type # "ARP" /\ type # "IPv4"
  <2>1. "ETH" \in Transports
    BY DEF Transports
  <2>2. Rejected(f, res)
    BY <1>1, <1>5, <2>1, RejectUnder, FlagNames
  <2> QED
    BY <1>2, <1>5, <2>2 DEF Normal, res, type
<1> QED
  BY <1>3, <1>4, <1>5

LEMMA NormalizeLayer ==
    ASSUME NEW f \in Frame
    PROVE  Normal(f, NormalizeRawObservation(f))
<1> DEFINE ethernet == UpTo(NewObservation, 14)
           vlan     == UpTo(NewObservation, 18)
           res      == NormalizeRawObservation(f)
<1>1. f.len \in Nat
  BY FrameFields
<1>2. Undecided(f, NewObservation)
  <2>1. NewObservation \in Observation
    BY DEF NewObservation, Observation, Transports, Confidences, Hints
  <2>2. /\ NewObservation.read = 0 /\ NewObservation.payload = 0
        /\ NewObservation.hint = "unknown" /\ NewObservation.transport = ""
    BY DEF NewObservation
  <2>3. 0 <= f.len
    BY <1>1
  <2>4. NewObservation.read <= f.len
    BY <2>2, <2>3
  <2> QED
    BY <2>1, <2>2, <2>4 DEF Undecided
<1>3. res = IF f.len = 0              THEN Reject(NewObservation, Truncated)
            ELSE IF f.link = "raw_ip" THEN Route(f, "IPv4", 0, NewObservation)
            ELSE IF f.len < 14        THEN Reject(NewObservation, Truncated)
            ELSE IF f.eth # "VLAN"    THEN Route(f, f.eth, 14, ethernet)
            ELSE IF f.len < 18        THEN Reject(ethernet, Truncated)
            ELSE Route(f, f.tagged, 18, vlan)
  BY DEF NormalizeRawObservation
<1> HIDE DEF ethernet, vlan, res
<1>4. Intact(f) => f.len > 0 /\ f.len >= LinkLength(f)
  <2>1. Intact(f) => /\ f.len > 0
                     /\ \/ f.len >= LinkLength(f) + 28
                        \/ f.proto \in {1, 6, 17} /\ f.len >= TransportEnd(f)
    BY DEF Intact
  <2>2. f.ihl \in Nat /\ f.doff \in Nat
    BY FrameFields
  <2> QED
    BY <1>1, <2>1, <2>2, Lengths
<1>5. ASSUME NEW obs, Undecided(f, obs), ~Intact(f), res = Reject(obs, Truncated)
      PROVE  Normal(f, res)
  BY <1>5, RejectUndecided, FlagNames DEF Normal
<1>6. CASE f.len = 0
  <2>1. ~Intact(f)
    BY <1>1, <1>4, <1>6
  <2> QED
    BY <1>2, <1>3, <1>5, <1>6, <2>1 DEF res
<1>7. CASE f.len # 0 /\ f.link = "raw_ip"
  <2>1. Carries(f) = "IPv4" /\ LinkLength(f) = 0
    BY <1>7 DEF Carries, LinkLength
  <2>2. res = Route(f, Carries(f), LinkLength(f), NewObservation)
    BY <1>3, <1>7, <2>1
  <2>3. f.len > 0
    BY <1>1, <1>7
  <2> QED
    BY <1>2, <2>2, <2>3, RouteLayer DEF res
<1>8. CASE f.len # 0 /\ f.link # "raw_ip" /\ f.eth # "VLAN"
  <2>1. Carries(f) = f.eth /\ LinkLength(f) = 14
    BY <1>8 DEF Carries, LinkLength
  <2>2. CASE f.len < 14
    <3>1. ~Intact(f)
      BY <1>1, <1>4, <2>1, <2>2
    <3> QED
      BY <1>2, <1>3, <1>5, <1>8, <2>2, <3>1 DEF res
  <2>3. CASE ~(f.len < 14)
    <3>1. f.len > 0 /\ 14 <= f.len /\ 14 \in Nat
      BY <1>1, <2>3
    <3>2. Undecided(f, ethernet)
      BY <1>2, <3>1, StillUndecided DEF ethernet
    <3>3. res = Route(f, Carries(f), LinkLength(f), ethernet)
      BY <1>3, <1>8, <2>1, <2>3
    <3> QED
      BY <3>1, <3>2, <3>3, RouteLayer DEF res
  <2> QED
    BY <2>2, <2>3
<1>9. CASE f.len # 0 /\ f.link # "raw_ip" /\ f.eth = "VLAN"
  <2>1. Carries(f) = f.tagged /\ LinkLength(f) = 18
    BY <1>9 DEF Carries, LinkLength
  <2>2. CASE f.len < 14
    <3>1. ~Intact(f)
      BY <1>1, <1>4, <2>1, <2>2
    <3> QED
      BY <1>2, <1>3, <1>5, <1>9, <2>2, <3>1 DEF res
  <2>3. CASE ~(f.len < 14) /\ f.len < 18
    <3>1. 14 <= f.len /\ 14 \in Nat
      BY <1>1, <2>3
    <3>2. Undecided(f, ethernet)
      BY <1>2, <3>1, StillUndecided DEF ethernet
    <3>3. ~Intact(f)
      BY <1>1, <1>4, <2>1, <2>3
    <3>4. res = Reject(ethernet, Truncated)
      BY <1>3, <1>9, <2>3
    <3> QED
      BY <1>5, <3>2, <3>3, <3>4 DEF res
  <2>4. CASE ~(f.len < 14) /\ ~(f.len < 18)
    <3>1. f.len > 0 /\ 18 <= f.len /\ 18 \in Nat
      BY <1>1, <2>4
    <3>2. Undecided(f, vlan)
      BY <1>2, <3>1, StillUndecided DEF vlan
    <3>3. res = Route(f, Carries(f), LinkLength(f), vlan)
      BY <1>3, <1>9, <2>1, <2>4
    <3> QED
      BY <3>1, <3>2, <3>3, RouteLayer DEF res
  <2> QED
    BY <2>2, <2>3, <2>4
<1> QED
  BY <1>6, <1>7, <1>8, <1>9

-----------------------------------------------------------------------------
(* What an observation may claim of a frame.                               *)
Sound(f, obs) ==
    /\ obs.read \in Nat /\ obs.read <= f.len
    /\ ~Intact(f) => obs.conf # "known" /\ obs.flags # {}
    /\ Intact(f) => obs.conf # "unsupported"
    /\ obs.hint = "modbus" /\ obs.conf = "known" => HoldsModbus(f)

LEMMA GuessFields ==
    ASSUME NEW obs \in Observation, NEW hint \in Hints
    PROVE  /\ Guess(obs, hint).read = obs.read /\ Guess(obs, hint).flags = obs.flags
           /\ Guess(obs, hint).hint = hint /\ Guess(obs, hint).conf = "inferred"
BY DEF Guess, Observation

(* A guess is sound as soon as what is wrong with the frame is flagged.    *)
LEMMA GuessSound ==
    ASSUME NEW f \in Frame, NEW obs \in Observation, obs.read <= f.len,
           ~Intact(f) => obs.flags # {}, NEW hint \in Hints
    PROVE  Sound(f, Guess(obs, hint))
<1>1. obs.read \in Nat
  BY DEF Observation
<1> QED
  BY <1>1, GuessFields DEF Sound

Certain(obs) == [obs EXCEPT !.hint = "modbus", !.conf = "known"]

LEMMA CertainFields ==
    ASSUME NEW obs \in Observation
    PROVE  Certain(obs) \in Observation /\ Certain(obs).read = obs.read
BY DEF Certain, Observation, Hints, Confidences

(* DecodeModbusTCP reads within the payload and is certain only of a       *)
(* complete header.                                                        *)
LEMMA ModbusLayer ==
    ASSUME NEW f \in Frame, NEW obs, Normal(f, obs), obs.transport = "TCP"
    PROVE  Sound(f, DecodeModbusTCP(f, f.len - obs.payload, obs))
<1> DEFINE base  == f.len - obs.payload
           mbap  == UpTo(obs, base + 7)
           known == Certain(UpTo(obs, base + 8))
           res   == DecodeModbusTCP(f, base, obs)
<1>1. f.len \in Nat /\ f.mbProto \in Nat /\ f.mbLen \in Nat /\ f.fc \in Nat
  BY FrameFields
<1>2. /\ obs \in Observation /\ obs.read <= f.len /\ obs.payload <= f.len
      /\ ~Intact(f) => obs.payload = 0 /\ obs.flags # {}
      /\ Intact(f) => Carries(f) = "IPv4" /\ f.proto = 6 /\ obs.payload = f.len - TransportEnd(f)
  BY <1>1 DEF Normal, Known, Rejected
<1>3. obs.payload \in Nat
  BY <1>2 DEF Observation
<1>4. Fields(f) \in {0, 1, 4}
  BY DEF Fields
<1>5. res = IF obs.payload < 7                   THEN Guess(Flag(obs, ModbusTruncated), "modbus")
            ELSE IF f.mbProto # 0 \/ f.mbLen < 2 THEN Guess(Flag(mbap, InvalidMBAP), "modbus")
            ELSE IF obs.payload < 8              THEN Guess(Flag(mbap, ModbusTruncated), "modbus")
            ELSE IF f.fc < 128 /\ f.fc \notin Supported THEN Flag(known, Unknown)
            ELSE IF obs.payload < 8 + Fields(f)  THEN Flag(known, ModbusTruncated)
            ELSE UpTo(known, base + 8 + Fields(f))
  BY DEF DecodeModbusTCP, Certain, Unknown
<1>6. "modbus" \in Hints
  BY DEF Hints
<1> HIDE DEF mbap, known, res
<1>7. SUFFICES Sound(f, res)
  BY DEF res
<1>8. CASE obs.payload < 7
  <2> DEFINE g == Flag(obs, ModbusTruncated)
  <2>1. g \in Observation /\ g.read <= f.len /\ g.flags # {}
    BY <1>2, FlagFields, FlagNames
  <2>2. res = Guess(g, "modbus")
    BY <1>5, <1>8
  <2> HIDE DEF g
  <2> QED
    BY <1>6, <2>1, <2>2, GuessSound
<1>9. CASE ~(obs.payload < 7)
  <2>1. base + 7 \in Nat /\ base + 7 <= f.len /\ Intact(f)
    BY <1>1, <1>2, <1>3, <1>9
  <2>2. mbap \in Observation /\ mbap.read <= f.len
    BY <1>2, <2>1, UpToStays DEF mbap
  <2>3. ASSUME NEW flag \in Flags
        PROVE  Sound(f, Guess(Flag(mbap, flag), "modbus"))
    <3> DEFINE g == Flag(mbap, flag)
    <3>1. g \in Observation /\ g.read <= f.len /\ g.flags # {}
      BY <2>2, FlagFields
    <3> HIDE DEF g
    <3>2. Sound(f, Guess(g, "modbus"))
      BY <1>6, <3>1, GuessSound
    <3> QED
      BY <3>2 DEF g
  <2>4. CASE f.mbProto # 0 \/ f.mbLen < 2
    BY <1>5, <1>9, <2>3, <2>4, FlagNames
  <2>5. CASE ~(f.mbProto # 0 \/ f.mbLen < 2) /\ obs.payload < 8
    BY <1>5, <1>9, <2>3, <2>5, FlagNames
  <2>6. CASE ~(f.mbProto # 0 \/ f.mbLen < 2) /\ ~(obs.payload < 8)
    <3>1. base + 8 \in Nat /\ base + 8 <= f.len
      BY <1>1, <1>2, <1>3, <2>6
    <3>2. UpTo(obs, base + 8) \in Observation /\ UpTo(obs, base + 8).read <= f.len
      BY <1>2, <3>1, UpToStays
    <3>3. known \in Observation /\ known.read <= f.len
      BY <3>2, CertainFields DEF known
    <3>4. known.conf = "known"
      BY <3>2 DEF known, Certain, Observation
    <3>5. HoldsModbus(f)
      <4>1. TransportEnd(f) \in Nat
        BY <1>2, <2>1, FrameFields, Lengths
      <4>2. f.len >= TransportEnd(f) + 8 /\ f.mbProto = 0 /\ f.mbLen >= 2
        BY <1>1, <1>2, <1>3, <2>1, <2>6, <4>1
      <4> QED
        BY <1>2, <2>1, <4>2 DEF HoldsModbus
    <3>6. ASSUME NEW o \in Observation, o.read <= f.len, o.conf = "known"
          PROVE  Sound(f, o)
      <4>1. o.read \in Nat
        BY DEF Observation
      <4> QED
        BY <2>1, <3>5, <3>6, <4>1 DEF Sound
    <3>7. ASSUME NEW flag \in Flags
          PROVE  Sound(f, Flag(known, flag))
      <4>1. /\ Flag(known, flag) \in Observation
            /\ Flag(known, flag).read <= f.len /\ Flag(known, flag).conf = "known"
        BY <3>3, <3>4, FlagFields
      <4> QED
        BY <3>6, <4>1
    <3>8. CASE f.fc < 128 /\ f.fc \notin Supported
      BY <1>5, <1>9, <2>6, <3>7, <3>8, FlagNames
    <3>9. CASE ~(f.fc < 128 /\ f.fc \notin Supported) /\ obs.payload < 8 + Fields(f)
      BY <1>5, <1>9, <2>6, <3>7, <3>9, FlagNames
    <3>10. CASE ~(f.fc < 128 /\ f.fc \notin Supported) /\ ~(obs.payload < 8 + Fields(f))
      <4> DEFINE end == base + 8 + Fields(f)
      <4>1. end \in Nat /\ end <= f.len
        BY <1>1, <1>2, <1>3, <1>4, <3>10
      <4>2. res = UpTo(known, end)
        BY <1>5, <1>9, <2>6, <3>10
      <4> HIDE DEF end
      <4>3. UpTo(known, end) \in Observation /\ UpTo(known, end).read <= f.len
        BY <3>3, <4>1, UpToStays
      <4>4. UpTo(known, end).conf = "known"
        BY <3>3, <3>4, <4>1, UpToFields
      <4> QED
        BY <3>6, <4>2, <4>3, <4>4
    <3> QED
      BY <3>8, <3>9, <3>10
  <2> QED
    BY <2>4, <2>5, <2>6
<1> QED
  BY <1>8, <1>9

(* The decoder, on any frame whatsoever: it reads only what was captured,  *)
(* and what it claims is in the frame.                                     *)
THEOREM DecoderIsSound ==
    ASSUME NEW f \in Frame
    PROVE  Sound(f, Decode(f))
<1> DEFINE obs == NormalizeRawObservation(f)
           tcp(port) == obs.transport = "TCP" /\ port \in obs.ports
           udp(port) == obs.transport = "UDP" /\ port \in obs.ports
           res == Decode(f)
<1>1. Normal(f, obs)
  BY NormalizeLayer
<1>2. res = IF tcp(502)          THEN DecodeModbusTCP(f, f.len - obs.payload, obs)
            ELSE IF tcp(20000) \/ udp(20000) THEN Guess(obs, "dnp3")
            ELSE IF tcp(44818) \/ udp(2222)  THEN Guess(obs, "ethernet_ip")
            ELSE IF tcp(102)     THEN Guess(obs, "s7")
            ELSE obs
  BY DEF Decode, Identify
<1> HIDE DEF obs, res
<1>3. /\ obs \in Observation /\ obs.read <= f.len /\ obs.hint = "unknown"
      /\ ~Intact(f) => obs.flags # {} /\ obs.conf = "unsupported"
      /\ Intact(f) => obs.conf = "known"
  BY <1>1 DEF Normal, Known, Rejected
<1>4. /\ "dnp3" \in Hints /\ "ethernet_ip" \in Hints /\ "s7" \in Hints
  BY DEF Hints
<1>5. /\ Sound(f, Guess(obs, "dnp3")) /\ Sound(f, Guess(obs, "ethernet_ip"))
      /\ Sound(f, Guess(obs, "s7"))
  BY <1>3, <1>4, GuessSound
<1>6. Sound(f, obs)
  <2>1. obs.read \in Nat
    BY <1>3 DEF Observation
  <2> QED
    BY <1>3, <2>1 DEF Sound
<1>7. tcp(502) => Sound(f, DecodeModbusTCP(f, f.len - obs.payload, obs))
  BY <1>1, ModbusLayer
<1>8. \/ tcp(502) /\ res = DecodeModbusTCP(f, f.len - obs.payload, obs)
      \/ res \in {Guess(obs, "dnp3"), Guess(obs, "ethernet_ip"), Guess(obs, "s7"), obs}
  BY <1>2
<1> QED
  BY <1>5, <1>6, <1>7, <1>8 DEF res

-----------------------------------------------------------------------------
(* The goroutines.  Only the USB collector on Windows has a message loop,  *)
(* nothing runs before Start, and the collectors that poll are told        *)
(* nothing.                                                                *)
Placed ==
    /\ pump # "none" => kind = "usb" /\ os = "windows"
    /\ kind \in Periodic => inner = <<>>
    /\ source = "open" => pump = "none"
    /\ main = "off" => worker = "none" /\ source = "none" /\ pump = "none"

ShutInv == Placed /\ NoSendOnClosed

LEMMA ShutInit == Init => ShutInv
BY DEF Init, ShutInv, Placed, NoSendOnClosed

LEMMA ShutNext ==
    ASSUME ShutInv, [Next]_vars
    PROVE  ShutInv'
<1> USE DEF ShutInv, Placed, NoSendOnClosed, caller, feed, output, Periodic
<1>1. CASE Traffic \/ Signal \/ UNCHANGED vars
  BY <1>1 DEF Traffic, Signal, vars
<1>2. CASE StartPolling \/ StartUsb \/ StartFiles \/ StartPassive
  BY <1>2 DEF StartPolling, StartUsb, StartFiles, StartPassive, Started, StartFails
<1>3. CASE Stop \/ StopFiles
  BY <1>3 DEF Stop, StopFiles
<1>4. CASE AdapterStopped \/ CloseChannel
  BY <1>4 DEF AdapterStopped, CloseChannel
<1>5. CASE Emit \/ Stalls
  BY <1>5 DEF Emit, Stalls
<1>6. CASE TakeSnapshot \/ Tick
  BY <1>6 DEF TakeSnapshot, Tick, NetworkSnapshot, InventorySnapshot
<1>7. CASE Quit \/ Joined \/ FeedEnded
  BY <1>7 DEF Quit, Joined, FeedEnded
<1>8. CASE Take
  BY <1>8 DEF Take
<1>9. CASE WatchFiles \/ Replay
  BY <1>9 DEF WatchFiles, Replay, SourceEnds
<1>10. CASE Linux
  BY <1>10 DEF Linux, OpenNetlink, Receive, Received, SendReport, SourceEnds
<1>11. CASE OpenWindow \/ Startup \/ PostClose \/ LoopDone
  BY <1>11 DEF OpenWindow, Startup, PostClose, LoopDone
<1>12. CASE Clear
  BY <1>12 DEF Clear, SourceEnds
<1>13. CASE Pump \/ LoopEndsEarly \/ Migrate
  BY <1>13 DEF Pump, Register, GetMessage, WndProcSends, Migrate, LoopEndsEarly
<1> QED
  BY <1>1, <1>2, <1>3, <1>4, <1>5, <1>6, <1>7, <1>8, <1>9, <1>10, <1>11, <1>12, <1>13
     DEF Next, Main, Worker, Windows

-----------------------------------------------------------------------------
(* An event is made in one of two steps, and kept until it is handed over. *)
LEMMA EventsAreKept ==
    ASSUME [Next]_vars
    PROVE  \/ kind' = kind /\ (Emitting' => Emitting /\ event' = event)
           \/ TakeSnapshot
           \/ Take
<1> USE DEF Emitting, caller, feed, output
<1>1. CASE Traffic \/ Signal \/ UNCHANGED vars
  BY <1>1 DEF Traffic, Signal, vars
<1>2. CASE StartPolling \/ StartUsb \/ StartFiles \/ StartPassive
  BY <1>2 DEF StartPolling, StartUsb, StartFiles, StartPassive, Started, StartFails, Periodic
<1>3. CASE Stop \/ StopFiles \/ AdapterStopped \/ CloseChannel
  BY <1>3 DEF Stop, StopFiles, AdapterStopped, CloseChannel
<1>4. CASE Emit \/ Stalls \/ Tick \/ Quit \/ Joined \/ FeedEnded
  BY <1>4 DEF Emit, Stalls, Tick, Quit, Joined, FeedEnded
<1>5. CASE WatchFiles \/ Replay \/ Linux
  BY <1>5 DEF WatchFiles, Replay, Linux, OpenNetlink, Receive, Received, SendReport
<1>6. CASE Windows \/ Pump \/ LoopEndsEarly \/ Migrate
  BY <1>6 DEF Windows, OpenWindow, Startup, PostClose, LoopDone, Clear, Pump, Register,
              GetMessage, WndProcSends, Migrate, LoopEndsEarly
<1> QED
  BY <1>1, <1>2, <1>3, <1>4, <1>5, <1>6 DEF Next, Main, Worker

(* An event of the passive collector is what the decoder made of a frame.  *)
FromFrames ==
    Emitting /\ kind = "passive" =>
        \E f \in Frames : event.report = Observed(f).report /\ event.truth = Observed(f).truth

LEMMA FromFramesNext ==
    ASSUME FromFrames, [Next]_vars
    PROVE  FromFrames'
<1>1. CASE kind' = kind /\ (Emitting' => Emitting /\ event' = event)
  BY <1>1 DEF FromFrames, Observed
<1>2. CASE TakeSnapshot
  BY <1>2 DEF TakeSnapshot, NetworkSnapshot, InventorySnapshot, FromFrames, Periodic
<1>3. CASE Take
  <2> SUFFICES ASSUME Emitting', kind' = "passive"
               PROVE  \E f \in Frames : /\ event'.report = Observed(f).report
                                        /\ event'.truth = Observed(f).truth
    BY DEF FromFrames, Observed
  <2>1. kind = "passive" /\ worker = "loop"
    BY <1>3 DEF Take
  <2>2. event' \in Convert(Head(inner))
    BY <1>3, <2>1 DEF Take, Emitting
  <2>3. PICK f \in Frames : event' = [no |-> Head(inner), report |-> Observed(f).report,
                                      truth |-> Observed(f).truth]
    BY <2>1, <2>2 DEF Convert, Observations
  <2> QED
    BY <2>3
<1> QED
  BY <1>1, <1>2, <1>3, EventsAreKept

(* DecoderStaysInFrame and EvidenceIsSound follow from the decoder.        *)
LEMMA FramesAreSound ==
    ASSUME FromFrames
    PROVE  DecoderStaysInFrame /\ EvidenceIsSound
<1> SUFFICES ASSUME Emitting, kind = "passive"
             PROVE  DecoderStaysInFrame /\ EvidenceIsSound
  BY DEF DecoderStaysInFrame, EvidenceIsSound
<1>1. PICK f \in Frames : event.report = Observed(f).report /\ event.truth = Observed(f).truth
  BY DEF FromFrames
<1>2. f \in Frame
  BY CollectorAssumption
<1>3. Sound(f, Decode(f)) /\ f.len \in Nat
  BY <1>2, DecoderIsSound, FrameFields
<1>4. ~(Decode(f).read > f.len)
  BY <1>3 DEF Sound
<1>5. /\ event.truth.overrun = (Decode(f).read > f.len)
      /\ event.truth.intact = Intact(f) /\ event.truth.modbus = HoldsModbus(f)
      /\ event.report.conf = Decode(f).conf /\ event.report.hint = Decode(f).hint
      /\ event.report.flags = Decode(f).flags
  BY <1>1 DEF Observed
<1>6. DecoderStaysInFrame
  BY <1>4, <1>5 DEF DecoderStaysInFrame
<1>7. EvidenceIsSound
  BY <1>3, <1>5 DEF EvidenceIsSound, Sound
<1> QED
  BY <1>6, <1>7

-----------------------------------------------------------------------------
(* A buffer that is at least as large as the table holds all of its rows.  *)
LEMMA AllRowsFit ==
    ASSUME NEW t \in Tables, NEW n \in Nat, NEW size \in Nat, n <= size
    PROVE  ParseTable(t, 4 + size * RowSize[t], n) = n
<1>1. RowSize[t] \in {12, 24, 28, 56}
  BY DEF Tables, RowSize
<1>2. ASSUME NEW i \in 1..n
      PROVE  4 + i * RowSize[t] <= 4 + size * RowSize[t]
  <2> DEFINE r == RowSize[t]
  <2>1. i \in Nat /\ i <= size
    OBVIOUS
  <2> HIDE DEF r
  <2>2. r \in {12, 24, 28, 56}
    BY <1>1 DEF r
  <2>3. 4 + i * r <= 4 + size * r
    BY <2>1, <2>2
  <2> QED
    BY <2>3 DEF r
<1>3. {i \in 1..n : 4 + i * RowSize[t] <= 4 + size * RowSize[t]} = 1..n
  BY <1>2
<1>4. Cardinality(1..n) = n
  BY FS_Interval
<1> QED
  BY <1>3, <1>4 DEF ParseTable

(* A reading finds what is there, or finds out that it cannot.             *)
LEMMA ReadingsAgree ==
    ASSUME NEW t \in Tables, NEW r \in Readings(t)
    PROVE  \/ r.found = Failed /\ r.truth = Failed
           \/ \E n \in Nat : r.found = Read(n) /\ r.truth = Read(n)
<1>1. MaxRows \in Nat
  BY CollectorAssumption
<1>2. CASE r = [found |-> Failed, truth |-> Failed]
  BY <1>2
<1>3. ASSUME NEW n \in 0..MaxRows, r = [found |-> Read(n), truth |-> Read(n)]
      PROVE  \E m \in Nat : r.found = Read(m) /\ r.truth = Read(m)
  BY <1>1, <1>3
<1>4. ASSUME NEW n \in 0..MaxRows, NEW size \in n..MaxRows,
             r = [found |-> Read(ParseTable(t, 4 + size * RowSize[t], n)), truth |-> Read(n)]
      PROVE  \E m \in Nat : r.found = Read(m) /\ r.truth = Read(m)
  <2>1. n \in Nat /\ size \in Nat /\ n <= size
    BY <1>1
  <2>2. ParseTable(t, 4 + size * RowSize[t], n) = n
    BY <2>1, AllRowsFit
  <2>3. r = [found |-> Read(n), truth |-> Read(n)]
    BY <1>4, <2>2
  <2> QED
    BY <2>1, <2>3
<1>5. \/ r = [found |-> Failed, truth |-> Failed]
      \/ \E n \in 0..MaxRows : r = [found |-> Read(n), truth |-> Read(n)]
      \/ \E n \in 0..MaxRows : \E size \in n..MaxRows :
            r = [found |-> Read(ParseTable(t, 4 + size * RowSize[t], n)), truth |-> Read(n)]
  BY DEF Readings
<1> QED
  BY <1>2, <1>3, <1>4, <1>5

(* What both snapshots have to show for SnapshotsAreHonest.                *)
Honest(rec) ==
    /\ \A s \in DOMAIN rec.truth.sources :
          /\ rec.truth.sources[s].ok <=> s \notin rec.report.flags
          /\ rec.truth.sources[s].rows = rec.report.rows[s]
    /\ \E s \in DOMAIN rec.truth.sources : rec.truth.sources[s].ok
    /\ DOMAIN rec.report.ips = DOMAIN rec.truth.ips
    /\ \A i \in DOMAIN rec.truth.ips :
          \/ rec.report.ips[i] = rec.truth.ips[i].rows
          \/ rec.report.ips[i] = 0 /\ ~rec.truth.ips[i].ok

LEMMA NetworkIsHonest ==
    ASSUME NetworkSnapshot, worker' = "emit"
    PROVE  Honest(event')
<1>1. PICK reading \in [Tables -> UNION {Readings(t) : t \in Tables}] :
        /\ \A t \in Tables : reading[t] \in Readings(t)
        /\ LET found == Connections([t \in Tables |-> reading[t].found])
               truth == [sources |-> [t \in Tables |-> reading[t].truth], ips |-> <<>>]
           IN  IF found.flags = Tables
               THEN worker' = "loop" /\ UNCHANGED event
               ELSE worker' = "emit" /\ event' = [no |-> 0, report |-> found, truth |-> truth]
  BY DEF NetworkSnapshot
<1> DEFINE table == [t \in Tables |-> reading[t].found]
           found == Connections(table)
           truth == [t \in Tables |-> reading[t].truth]
<1>2. /\ found.flags # Tables
      /\ event' = [no |-> 0, report |-> found, truth |-> [sources |-> truth, ips |-> <<>>]]
  BY <1>1
<1>3. /\ event'.report = found /\ event'.truth.sources = truth /\ DOMAIN truth = Tables
      /\ event'.truth.ips = <<>>
  BY <1>2
<1>4. /\ found.flags = {t \in Tables : ~table[t].ok}
      /\ found.rows = [t \in Tables |-> table[t].rows]
      /\ found.ips = <<>>
  BY DEF Connections
<1>5. ASSUME NEW t \in Tables
      PROVE  /\ truth[t].ok <=> t \notin found.flags
             /\ truth[t].rows = found.rows[t]
  <2>1. \/ table[t] = Failed /\ truth[t] = Failed
        \/ \E n \in Nat : table[t] = Read(n) /\ truth[t] = Read(n)
    BY <1>1, ReadingsAgree
  <2>2. table[t] = truth[t]
    BY <2>1
  <2>3. found.rows[t] = table[t].rows /\ (t \in found.flags <=> ~table[t].ok)
    BY <1>4
  <2> QED
    BY <2>2, <2>3
<1> HIDE DEF truth, found
<1>6. \E t \in Tables : t \notin found.flags
  BY <1>2, <1>4
<1>7. \E t \in Tables : truth[t].ok
  BY <1>5, <1>6
<1>8. DOMAIN event'.truth.ips = {} /\ DOMAIN event'.report.ips = {}
  BY <1>3, <1>4
<1> QED
  BY <1>3, <1>5, <1>7, <1>8 DEF Honest

LEMMA InventoryIsHonest ==
    ASSUME InventorySnapshot, worker' = "emit"
    PROVE  Honest(event')
<1>1. PICK hostname \in {"named", "unknown", "failed"},
           interfaces \in {Failed} \cup {Read(n) : n \in 0..MaxRows} :
        \E addresses \in [1..interfaces.rows -> Addresses] :
           LET found == Inventory(hostname, interfaces, addresses)
               truth == [sources |-> [hostname   |-> IF hostname = "failed" THEN Failed ELSE Read(0),
                                      interfaces |-> interfaces],
                         ips     |-> addresses]
           IN  IF ~interfaces.ok /\ hostname # "named"
               THEN worker' = "loop" /\ UNCHANGED event
               ELSE worker' = "emit" /\ event' = [no |-> 0, report |-> found, truth |-> truth]
  BY DEF InventorySnapshot
<1> DEFINE named == IF hostname = "failed" THEN Failed ELSE Read(0)
           truth == [hostname |-> named, interfaces |-> interfaces]
<1>2. PICK addresses \in [1..interfaces.rows -> Addresses] :
        /\ ~(~interfaces.ok /\ hostname # "named")
        /\ event' = [no |-> 0, report |-> Inventory(hostname, interfaces, addresses),
                     truth |-> [sources |-> truth, ips |-> addresses]]
  BY <1>1
<1> DEFINE found == Inventory(hostname, interfaces, addresses)
<1>4. DOMAIN truth = {"hostname", "interfaces"}
  OBVIOUS
<1>5. /\ "hostname" \in found.flags <=> hostname = "failed"
      /\ "interfaces" \in found.flags <=> ~interfaces.ok
      /\ found.rows = [hostname |-> 0, interfaces |-> interfaces.rows]
      /\ found.ips = [i \in 1..interfaces.rows |-> IF addresses[i].ok THEN addresses[i].rows ELSE 0]
  BY DEF Inventory
<1>6. /\ named.ok <=> hostname # "failed"
      /\ named.rows = 0
  BY DEF Failed, Read
<1> HIDE DEF found, named
<1>7. /\ truth["hostname"] = named /\ truth["interfaces"] = interfaces
      /\ found.rows["hostname"] = 0 /\ found.rows["interfaces"] = interfaces.rows
  BY <1>5
<1> HIDE DEF truth
<1>8. \A s \in DOMAIN truth : /\ truth[s].ok <=> s \notin found.flags
                              /\ truth[s].rows = found.rows[s]
  BY <1>4, <1>5, <1>6, <1>7
<1>9. \E s \in DOMAIN truth : truth[s].ok
  BY <1>2, <1>4, <1>6, <1>7
<1>10. DOMAIN found.ips = DOMAIN addresses
  BY <1>5
<1>11. ASSUME NEW i \in DOMAIN addresses
       PROVE  \/ found.ips[i] = addresses[i].rows
              \/ found.ips[i] = 0 /\ ~addresses[i].ok
  <2>1. found.ips[i] = IF addresses[i].ok THEN addresses[i].rows ELSE 0
    BY <1>5
  <2>2. CASE addresses[i].ok
    BY <2>1, <2>2
  <2>3. CASE ~addresses[i].ok
    BY <2>1, <2>3
  <2> QED
    BY <2>2, <2>3
<1>12. Honest([no |-> 0, report |-> found, truth |-> [sources |-> truth, ips |-> addresses]])
  BY <1>8, <1>9, <1>10, <1>11 DEF Honest
<1> QED
  BY <1>2, <1>12 DEF found

LEMMA HonestNext ==
    ASSUME Placed, SnapshotsAreHonest, [Next]_vars
    PROVE  SnapshotsAreHonest'
<1> SUFFICES ASSUME Emitting', kind' \in Periodic
             PROVE  Honest(event')
  BY DEF SnapshotsAreHonest, Honest, Periodic
<1>1. CASE kind' = kind /\ (Emitting' => Emitting /\ event' = event)
  BY <1>1 DEF SnapshotsAreHonest, Honest
<1>2. CASE TakeSnapshot
  <2>1. worker' = "emit" \/ worker' = "loop"
    BY <1>2 DEF TakeSnapshot, NetworkSnapshot, InventorySnapshot
  <2>2. worker' = "emit"
    BY <2>1 DEF Emitting
  <2>3. NetworkSnapshot \/ InventorySnapshot
    BY <1>2 DEF TakeSnapshot
  <2> QED
    BY <2>2, <2>3, NetworkIsHonest, InventoryIsHonest
<1>3. CASE Take
  BY <1>3 DEF Take, Placed
<1> QED
  BY <1>1, <1>2, <1>3, EventsAreKept

-----------------------------------------------------------------------------
(* The types.                                                              *)
LEMMA Bounds ==
    /\ ChanCap \in Nat \ {0} /\ InnerCap \in Nat \ {0}
    /\ MaxRows \in Nat \ {0} /\ MaxReports \in Nat \ {0}
BY CollectorAssumption

LEMMA TypeInit == Init => TypeOK
<1> SUFFICES ASSUME Init PROVE TypeOK
  OBVIOUS
<1>1. inner \in Seq(0..MaxReports) /\ Len(inner) <= InnerCap
  BY Bounds DEF Init
<1>2. fill \in 0..ChanCap /\ {reported, held} \subseteq 0..MaxReports
  BY Bounds DEF Init
<1> QED
  BY <1>1, <1>2 DEF Init, TypeOK

(* A report waits in the inner channel.                                    *)
LEMMA InnerGrows ==
    ASSUME inner \in Seq(0..MaxReports), Len(inner) < InnerCap, NEW n \in 0..MaxReports
    PROVE  Append(inner, n) \in Seq(0..MaxReports) /\ Len(Append(inner, n)) <= InnerCap
<1>1. Append(inner, n) \in Seq(0..MaxReports) /\ Len(Append(inner, n)) = Len(inner) + 1
  OBVIOUS
<1>2. Len(inner) \in Nat /\ InnerCap \in Nat
  BY Bounds
<1> QED
  BY <1>1, <1>2

LEMMA TypeNext ==
    ASSUME TypeOK, [Next]_vars
    PROVE  TypeOK'
<1> USE DEF TypeOK, caller, feed, output
<1>1. /\ ChanCap \in Nat /\ InnerCap \in Nat /\ MaxReports \in Nat
  BY Bounds
<1>2. CASE Traffic \/ Signal \/ UNCHANGED vars
  BY <1>1, <1>2 DEF Traffic, Signal, vars
<1>3. CASE StartPolling \/ StartUsb \/ StartFiles \/ StartPassive
  BY <1>3 DEF StartPolling, StartUsb, StartFiles, StartPassive, Started, StartFails
<1>4. CASE Stop \/ StopFiles \/ AdapterStopped \/ CloseChannel
  BY <1>4 DEF Stop, StopFiles, AdapterStopped, CloseChannel
<1>5. CASE Emit \/ Stalls
  BY <1>1, <1>5 DEF Emit, Stalls, Taken, GivenUp
<1>6. CASE TakeSnapshot \/ Tick \/ Quit \/ Joined \/ FeedEnded
  BY <1>6 DEF TakeSnapshot, Tick, NetworkSnapshot, InventorySnapshot, Quit, Joined, FeedEnded
<1>7. CASE Take
  <2>1. Tail(inner) \in Seq(0..MaxReports) /\ Len(Tail(inner)) <= InnerCap
    BY <1>1, <1>7 DEF Take
  <2> QED
    BY <1>7, <2>1 DEF Take
<1>8. CASE WatchFiles
  <2>1. CASE source = "ready" /\ Len(inner) < InnerCap
    <3>1. /\ 0 \in 0..MaxReports
          /\ reported < MaxReports => reported + 1 \in 0..MaxReports
      BY <1>1
    <3> QED
      BY <1>8, <2>1, <3>1, InnerGrows DEF WatchFiles
  <2>2. CASE source = "quitting"
    <3>1. <<>> \in Seq(0..MaxReports) /\ Len(<<>>) <= InnerCap
      BY <1>1
    <3> QED
      BY <1>8, <2>2, <3>1 DEF WatchFiles, SourceEnds
  <2> QED
    BY <1>8, <2>1, <2>2 DEF WatchFiles
<1>9. CASE Replay
  <2>1. reported < MaxReports => reported + 1 \in 0..MaxReports
    BY <1>1
  <2> QED
    BY <1>9, <2>1, InnerGrows DEF Replay, SourceEnds
<1>10. CASE OpenNetlink \/ Receive \/ Received
  <2>1. CASE OpenNetlink \/ Receive
    BY <2>1 DEF OpenNetlink, Receive, SourceEnds
  <2>2. CASE Received
    <3>1. reported < MaxReports => reported + 1 \in 0..MaxReports
      BY <1>1
    <3>2. {reported', held'} \subseteq 0..MaxReports
      BY <2>2, <3>1 DEF Received, Report
    <3>3. source' \in {"ready", "ended", "send"} /\ innerClosed' \in BOOLEAN
      BY <2>2 DEF Received, SourceEnds
    <3> QED
      BY <2>2, <3>2, <3>3 DEF Received
  <2> QED
    BY <1>10, <2>1, <2>2
<1>11. CASE SendReport \/ WndProcSends
  <2>1. /\ inner' \in Seq(0..MaxReports) /\ Len(inner') <= InnerCap
        /\ held' \in 0..MaxReports
    <3>1. 0 \in 0..MaxReports /\ held \in 0..MaxReports
      BY <1>1
    <3>2. HandOver \/ (UNCHANGED inner /\ held' = 0)
      BY <1>11 DEF SendReport, WndProcSends
    <3>3. CASE HandOver
      BY <3>1, <3>3, InnerGrows DEF HandOver
    <3> QED
      BY <3>1, <3>2, <3>3
  <2>2. CASE SendReport
    <3>1. source' \in {"ready", "ended"} /\ innerClosed' \in BOOLEAN
      BY <2>2 DEF SendReport, SourceEnds
    <3> QED
      BY <2>1, <2>2, <3>1 DEF SendReport
  <2>3. CASE WndProcSends
    BY <2>1, <2>3 DEF WndProcSends
  <2> QED
    BY <1>11, <2>2, <2>3
<1>12. CASE Windows
  BY <1>12 DEF Windows, OpenWindow, Startup, PostClose, LoopDone, Clear, SourceEnds
<1>13. CASE Register \/ GetMessage \/ LoopEndsEarly \/ Migrate
  BY <1>1, <1>13 DEF Register, GetMessage, Migrate, LoopEndsEarly, Report
<1> QED
  BY <1>2, <1>3, <1>4, <1>5, <1>6, <1>7, <1>8, <1>9, <1>10, <1>11, <1>12, <1>13
     DEF Next, Main, Worker, Linux, Pump

-----------------------------------------------------------------------------
(* The way of the reports, in its four parts: d were delivered, e is being *)
(* handed over, q waits in the inner channel, h is held by the source, and *)
(* r have been taken from the system.  0 stands for no report.             *)
Ordered(d, e, q, h, r) ==
    /\ \A i, j \in 1..Len(d) : i < j /\ d[j] # 0 => d[i] < d[j]
    /\ \A i, j \in 1..Len(q) : i < j /\ q[j] # 0 => q[i] < q[j]
    /\ \A i \in 1..Len(d), j \in 1..Len(q) : q[j] # 0 => d[i] < q[j]
    /\ \A i \in 1..Len(d) : (e # 0 => d[i] < e) /\ (h # 0 => d[i] < h) /\ d[i] <= r
    /\ \A j \in 1..Len(q) : (q[j] # 0 => e < q[j]) /\ (h # 0 => q[j] < h) /\ q[j] <= r
    /\ (h # 0 => e < h) /\ e <= r /\ h <= r

Complete(d, e, q, h, r) ==
    \A n \in 1..r : \/ n = e \/ n = h
                    \/ \E i \in 1..Len(d) : d[i] = n
                    \/ \E j \in 1..Len(q) : q[j] = n

Parts(d, e, q, h, r) ==
    d \in Seq(Nat) /\ q \in Seq(Nat) /\ e \in Nat /\ h \in Nat /\ r \in Nat

(* An event is delivered.                                                  *)
LEMMA Deliver ==
    ASSUME NEW d, NEW e, NEW q, NEW h, NEW r, Parts(d, e, q, h, r), Ordered(d, e, q, h, r)
    PROVE  /\ Parts(Append(d, e), 0, q, h, r) /\ Ordered(Append(d, e), 0, q, h, r)
           /\ Complete(d, e, q, h, r) => Complete(Append(d, e), 0, q, h, r)
<1> DEFINE dd == Append(d, e)
<1>1. /\ dd \in Seq(Nat) /\ Len(dd) = Len(d) + 1 /\ dd[Len(d) + 1] = e
      /\ \A i \in 1..Len(d) : dd[i] = d[i]
  BY DEF Parts
<1>2. Len(d) \in Nat /\ \A i \in 1..Len(dd) : i \in 1..Len(d) \/ i = Len(d) + 1
  BY <1>1 DEF Parts
<1> HIDE DEF dd
<1>3. \A i, j \in 1..Len(dd) : i < j /\ dd[j] # 0 => dd[i] < dd[j]
  <2> SUFFICES ASSUME NEW i \in 1..Len(dd), NEW j \in 1..Len(dd), i < j, dd[j] # 0
               PROVE  dd[i] < dd[j]
    OBVIOUS
  <2>1. i \in 1..Len(d) /\ dd[i] = d[i]
    BY <1>1, <1>2
  <2>2. CASE j \in 1..Len(d)
    <3>1. dd[j] = d[j]
      BY <1>1, <2>2
    <3> QED
      BY <2>1, <2>2, <3>1 DEF Ordered
  <2>3. CASE j = Len(d) + 1
    <3>1. dd[j] = e
      BY <1>1, <2>3
    <3> QED
      BY <2>1, <3>1 DEF Ordered
  <2> QED
    BY <1>2, <2>2, <2>3
<1>4. \A i \in 1..Len(dd), j \in 1..Len(q) : q[j] # 0 => dd[i] < q[j]
  BY <1>1, <1>2 DEF Parts, Ordered
<1>5. \A i \in 1..Len(dd) : (h # 0 => dd[i] < h) /\ dd[i] <= r
  BY <1>1, <1>2 DEF Parts, Ordered
<1>6. Ordered(dd, 0, q, h, r)
  <2>1. \A j \in 1..Len(q) : (q[j] # 0 => 0 < q[j]) /\ (h # 0 => q[j] < h) /\ q[j] <= r
    BY DEF Parts, Ordered
  <2>2. (h # 0 => 0 < h) /\ 0 <= r /\ h <= r
    BY DEF Parts, Ordered
  <2> QED
    BY <1>3, <1>4, <1>5, <2>1, <2>2 DEF Ordered
<1>7. ASSUME Complete(d, e, q, h, r)
      PROVE  Complete(dd, 0, q, h, r)
  <2> SUFFICES ASSUME NEW n \in 1..r
               PROVE  \/ n = 0 \/ n = h
                      \/ \E i \in 1..Len(dd) : dd[i] = n
                      \/ \E j \in 1..Len(q) : q[j] = n
    BY DEF Complete
  <2>1. Len(d) + 1 \in 1..Len(dd) /\ \A i \in 1..Len(d) : i \in 1..Len(dd)
    BY <1>1, <1>2
  <2>2. \/ n = e \/ n = h
        \/ \E i \in 1..Len(d) : d[i] = n
        \/ \E j \in 1..Len(q) : q[j] = n
    BY <1>7 DEF Complete
  <2> QED
    BY <1>1, <2>1, <2>2
<1> QED
  BY <1>1, <1>6, <1>7 DEF Parts, dd

(* The run goroutine takes the next report.                                *)
LEMMA TakeNext ==
    ASSUME NEW d, NEW q, NEW h, NEW r, Parts(d, 0, q, h, r), Ordered(d, 0, q, h, r), q # <<>>
    PROVE  /\ Parts(d, Head(q), Tail(q), h, r) /\ Ordered(d, Head(q), Tail(q), h, r)
           /\ Complete(d, 0, q, h, r) => Complete(d, Head(q), Tail(q), h, r)
<1> DEFINE e == Head(q)
           t == Tail(q)
<1>1. /\ q \in Seq(Nat) /\ t \in Seq(Nat) /\ Len(q) \in Nat /\ Len(q) > 0
      /\ Len(t) = Len(q) - 1 /\ e = q[1] /\ e \in Nat
      /\ \A i \in 1..Len(t) : t[i] = q[i + 1]
  BY DEF Parts
<1>2. \A i \in 1..Len(t) : i + 1 \in 1..Len(q) /\ 1 < i + 1
  BY <1>1
<1>3. 1 \in 1..Len(q)
  BY <1>1
<1> HIDE DEF e, t
<1>4. \A i, j \in 1..Len(t) : i < j /\ t[j] # 0 => t[i] < t[j]
  <2> SUFFICES ASSUME NEW i \in 1..Len(t), NEW j \in 1..Len(t), i < j, t[j] # 0
               PROVE  t[i] < t[j]
    OBVIOUS
  <2>1. i + 1 \in 1..Len(q) /\ j + 1 \in 1..Len(q) /\ i + 1 < j + 1
    BY <1>2
  <2>2. t[i] = q[i + 1] /\ t[j] = q[j + 1]
    BY <1>1
  <2> QED
    BY <2>1, <2>2 DEF Ordered
<1>5. \A i \in 1..Len(d), j \in 1..Len(t) : t[j] # 0 => d[i] < t[j]
  BY <1>1, <1>2 DEF Ordered
<1>6. \A i \in 1..Len(d) : (e # 0 => d[i] < e) /\ (h # 0 => d[i] < h) /\ d[i] <= r
  BY <1>1, <1>3 DEF Ordered
<1>7. \A j \in 1..Len(t) : (t[j] # 0 => e < t[j]) /\ (h # 0 => t[j] < h) /\ t[j] <= r
  BY <1>1, <1>2, <1>3 DEF Ordered
<1>8. (h # 0 => e < h) /\ e <= r /\ h <= r
  BY <1>1, <1>3 DEF Ordered
<1>9. Ordered(d, e, t, h, r)
  BY <1>4, <1>5, <1>6, <1>7, <1>8 DEF Ordered
<1>10. ASSUME Complete(d, 0, q, h, r)
       PROVE  Complete(d, e, t, h, r)
  <2> SUFFICES ASSUME NEW n \in 1..r
               PROVE  \/ n = e \/ n = h
                      \/ \E i \in 1..Len(d) : d[i] = n
                      \/ \E j \in 1..Len(t) : t[j] = n
    BY DEF Complete
  <2>1. \/ n = h
        \/ \E i \in 1..Len(d) : d[i] = n
        \/ \E j \in 1..Len(q) : q[j] = n
    BY <1>10 DEF Complete
  <2>2. ASSUME NEW j \in 1..Len(q), q[j] = n
        PROVE  n = e \/ \E k \in 1..Len(t) : t[k] = n
    <3>1. CASE j = 1
      BY <1>1, <2>2, <3>1
    <3>2. CASE j # 1
      <4>1. j - 1 \in 1..Len(t) /\ (j - 1) + 1 = j
        BY <1>1, <3>2
      <4>2. t[j - 1] = n
        BY <1>1, <2>2, <4>1
      <4> QED
        BY <4>1, <4>2
    <3> QED
      BY <3>1, <3>2
  <2> QED
    BY <2>1, <2>2
<1>11. Parts(d, e, t, h, r)
  BY <1>1 DEF Parts
<1> QED
  BY <1>9, <1>10, <1>11 DEF e, t

(* The source hands its report over.                                       *)
LEMMA HandedOver ==
    ASSUME NEW d, NEW e, NEW q, NEW h, NEW r, Parts(d, e, q, h, r), Ordered(d, e, q, h, r)
    PROVE  /\ Parts(d, e, Append(q, h), 0, r) /\ Ordered(d, e, Append(q, h), 0, r)
           /\ Complete(d, e, q, h, r) => Complete(d, e, Append(q, h), 0, r)
<1> DEFINE qq == Append(q, h)
<1>1. /\ qq \in Seq(Nat) /\ Len(qq) = Len(q) + 1 /\ qq[Len(q) + 1] = h
      /\ \A i \in 1..Len(q) : qq[i] = q[i]
  BY DEF Parts
<1>2. Len(q) \in Nat /\ \A i \in 1..Len(qq) : i \in 1..Len(q) \/ i = Len(q) + 1
  BY <1>1 DEF Parts
<1> HIDE DEF qq
<1>3. \A i, j \in 1..Len(qq) : i < j /\ qq[j] # 0 => qq[i] < qq[j]
  <2> SUFFICES ASSUME NEW i \in 1..Len(qq), NEW j \in 1..Len(qq), i < j, qq[j] # 0
               PROVE  qq[i] < qq[j]
    OBVIOUS
  <2>1. i \in 1..Len(q) /\ qq[i] = q[i]
    BY <1>1, <1>2
  <2>2. CASE j \in 1..Len(q)
    <3>1. qq[j] = q[j]
      BY <1>1, <2>2
    <3> QED
      BY <2>1, <2>2, <3>1 DEF Ordered
  <2>3. CASE j = Len(q) + 1
    <3>1. qq[j] = h
      BY <1>1, <2>3
    <3> QED
      BY <2>1, <3>1 DEF Ordered
  <2> QED
    BY <1>2, <2>2, <2>3
<1>4. \A i \in 1..Len(d), j \in 1..Len(qq) : qq[j] # 0 => d[i] < qq[j]
  BY <1>1, <1>2 DEF Parts, Ordered
<1>5. \A j \in 1..Len(qq) : (qq[j] # 0 => e < qq[j]) /\ qq[j] <= r
  BY <1>1, <1>2 DEF Parts, Ordered
<1>6. Ordered(d, e, qq, 0, r)
  <2>1. /\ \A i \in 1..Len(d) : (e # 0 => d[i] < e) /\ d[i] <= r
        /\ \A i, j \in 1..Len(d) : i < j /\ d[j] # 0 => d[i] < d[j]
    BY DEF Parts, Ordered
  <2>2. e <= r /\ 0 <= r
    BY DEF Parts, Ordered
  <2> QED
    BY <1>3, <1>4, <1>5, <2>1, <2>2 DEF Ordered
<1>7. ASSUME Complete(d, e, q, h, r)
      PROVE  Complete(d, e, qq, 0, r)
  <2> SUFFICES ASSUME NEW n \in 1..r
               PROVE  \/ n = e \/ n = 0
                      \/ \E i \in 1..Len(d) : d[i] = n
                      \/ \E j \in 1..Len(qq) : qq[j] = n
    BY DEF Complete
  <2>1. Len(q) + 1 \in 1..Len(qq) /\ \A i \in 1..Len(q) : i \in 1..Len(qq)
    BY <1>1, <1>2
  <2>2. \/ n = e \/ n = h
        \/ \E i \in 1..Len(d) : d[i] = n
        \/ \E j \in 1..Len(q) : q[j] = n
    BY <1>7 DEF Complete
  <2> QED
    BY <1>1, <2>1, <2>2
<1> QED
  BY <1>1, <1>6, <1>7 DEF Parts, qq

(* The source takes the next report.                                       *)
LEMMA TakenFromSystem ==
    ASSUME NEW d, NEW e, NEW q, NEW r, Parts(d, e, q, 0, r), Ordered(d, e, q, 0, r)
    PROVE  /\ Parts(d, e, q, r + 1, r + 1) /\ Ordered(d, e, q, r + 1, r + 1)
           /\ Complete(d, e, q, 0, r) => Complete(d, e, q, r + 1, r + 1)
<1>1. /\ d \in Seq(Nat) /\ q \in Seq(Nat) /\ e \in Nat /\ r \in Nat
      /\ \A i \in 1..Len(d) : d[i] \in Nat
      /\ \A j \in 1..Len(q) : q[j] \in Nat
  BY DEF Parts
<1>2. Ordered(d, e, q, r + 1, r + 1)
  BY <1>1 DEF Ordered
<1>3. ASSUME Complete(d, e, q, 0, r)
      PROVE  Complete(d, e, q, r + 1, r + 1)
  <2> SUFFICES ASSUME NEW n \in 1..(r + 1)
               PROVE  \/ n = e \/ n = r + 1
                      \/ \E i \in 1..Len(d) : d[i] = n
                      \/ \E j \in 1..Len(q) : q[j] = n
    BY DEF Complete
  <2>1. n = r + 1 \/ (n \in 1..r /\ n # 0)
    BY <1>1
  <2> QED
    BY <1>3, <2>1 DEF Complete
<1> QED
  BY <1>1, <1>2, <1>3 DEF Parts

(* What is lost on the way disturbs nothing but completeness.              *)
LEMMA Lost ==
    ASSUME NEW d, NEW e, NEW q, NEW h, NEW r, Parts(d, e, q, h, r), Ordered(d, e, q, h, r)
    PROVE  /\ Parts(d, 0, q, h, r) /\ Ordered(d, 0, q, h, r)
           /\ Parts(d, e, q, 0, r) /\ Ordered(d, e, q, 0, r)
           /\ Parts(d, e, <<>>, h, r) /\ Ordered(d, e, <<>>, h, r)
<1>1. /\ d \in Seq(Nat) /\ q \in Seq(Nat) /\ e \in Nat /\ r \in Nat /\ h \in Nat
      /\ \A i \in 1..Len(d) : d[i] \in Nat
      /\ \A j \in 1..Len(q) : q[j] \in Nat
  BY DEF Parts
<1>2. Ordered(d, 0, q, h, r)
  BY <1>1 DEF Ordered
<1>3. Ordered(d, e, q, 0, r)
  BY <1>1 DEF Ordered
<1>4. Ordered(d, e, <<>>, h, r)
  BY <1>1 DEF Ordered
<1> QED
  BY <1>1, <1>2, <1>3, <1>4 DEF Parts

(* The parts together are the way of NothingSkipped.                       *)
LEMMA WayOf ==
    ASSUME NEW d, NEW e, NEW q, NEW h, NEW r, Parts(d, e, q, h, r), Ordered(d, e, q, h, r)
    PROVE  LET way == d \o <<e>> \o q \o <<h>>
           IN  /\ \A i, j \in 1..Len(way) : i < j /\ way[i] # 0 /\ way[j] # 0 => way[i] < way[j]
               /\ Complete(d, e, q, h, r) => ToSet(way) \ {0} = 1..r
<1> DEFINE a   == d \o <<e>>
           b   == a \o q
           way == b \o <<h>>
           m   == Len(d)
           n   == Len(q)
<1>1. d \in Seq(Nat) /\ q \in Seq(Nat) /\ e \in Nat /\ h \in Nat /\ r \in Nat
  BY DEF Parts
<1>2. m \in Nat /\ n \in Nat
  BY <1>1
<1>3. /\ a \in Seq(Nat) /\ Len(a) = m + 1 /\ a[m + 1] = e
      /\ \A i \in 1..m : a[i] = d[i]
  BY <1>1
<1> HIDE DEF a
<1>4. /\ b \in Seq(Nat) /\ Len(b) = m + 1 + n
      /\ \A i \in 1..(m + 1) : b[i] = a[i]
      /\ \A i \in 1..n : b[m + 1 + i] = q[i]
  <2>1. /\ b \in Seq(Nat) /\ Len(b) = Len(a) + n
        /\ \A i \in 1..(Len(a) + n) : b[i] = IF i <= Len(a) THEN a[i] ELSE q[i - Len(a)]
    BY <1>1, <1>3, ConcatProperties
  <2> HIDE DEF b, m, n
  <2>2. ASSUME NEW i \in 1..n
        PROVE  b[m + 1 + i] = q[i]
    <3>1. m + 1 + i \in 1..(Len(a) + n) /\ ~(m + 1 + i <= Len(a)) /\ (m + 1 + i) - Len(a) = i
      BY <1>2, <1>3
    <3> QED
      BY <2>1, <3>1
  <2>3. ASSUME NEW i \in 1..(m + 1)
        PROVE  b[i] = a[i]
    <3>1. i \in 1..(Len(a) + n) /\ i <= Len(a)
      BY <1>2, <1>3
    <3> QED
      BY <2>1, <3>1
  <2> QED
    BY <1>2, <1>3, <2>1, <2>2, <2>3
<1> HIDE DEF b
<1>5. /\ way \in Seq(Nat) /\ Len(way) = m + n + 2 /\ way[m + n + 2] = h
      /\ \A i \in 1..(m + 1 + n) : way[i] = b[i]
  <2> DEFINE last == <<h>>
  <2>1. last \in Seq(Nat) /\ Len(last) = 1 /\ last[1] = h
    BY <1>1
  <2>2. way = b \o last
    OBVIOUS
  <2> HIDE DEF last, way
  <2>3. /\ way \in Seq(Nat) /\ Len(way) = Len(b) + 1
        /\ \A i \in 1..(Len(b) + 1) : way[i] = IF i <= Len(b) THEN b[i] ELSE last[i - Len(b)]
    <3>1. b \in Seq(Nat) /\ last \in Seq(Nat)
      BY <1>4, <2>1
    <3>2. /\ b \o last \in Seq(Nat) /\ Len(b \o last) = Len(b) + Len(last)
          /\ \A i \in 1..(Len(b) + Len(last)) :
                (b \o last)[i] = IF i <= Len(b) THEN b[i] ELSE last[i - Len(b)]
      BY <3>1, ConcatProperties
    <3> QED
      BY <2>1, <2>2, <3>2, Zenon
  <2> HIDE DEF m, n
  <2>4. /\ m + n + 2 \in 1..(Len(b) + 1) /\ ~(m + n + 2 <= Len(b)) /\ (m + n + 2) - Len(b) = 1
        /\ Len(b) + 1 = m + n + 2
    BY <1>2, <1>4
  <2>5. \A i \in 1..(m + 1 + n) : i \in 1..(Len(b) + 1) /\ i <= Len(b)
    BY <1>2, <1>4
  <2> QED
    BY <2>1, <2>3, <2>4, <2>5
<1> HIDE DEF way, m, n
<1>6. /\ \A i \in 1..m : way[i] = d[i]
      /\ way[m + 1] = e
      /\ \A i \in 1..n : way[m + 1 + i] = q[i]
      /\ way[m + n + 2] = h
  BY <1>2, <1>3, <1>4, <1>5
<1>7. \A i \in 1..Len(way) : \/ i \in 1..m \/ i = m + 1
                             \/ \E k \in 1..n : i = m + 1 + k
                             \/ i = m + n + 2
  <2> SUFFICES ASSUME NEW i \in 1..Len(way), ~(i \in 1..m), i # m + 1, i # m + n + 2
               PROVE  \E k \in 1..n : i = m + 1 + k
    OBVIOUS
  <2>1. i - (m + 1) \in 1..n /\ i = m + 1 + (i - (m + 1))
    BY <1>2, <1>5
  <2> QED
    BY <2>1
<1>8. \A i, j \in 1..Len(way) : i < j /\ way[i] # 0 /\ way[j] # 0 => way[i] < way[j]
  <2> SUFFICES ASSUME NEW i \in 1..Len(way), NEW j \in 1..Len(way), i < j, way[j] # 0
               PROVE  way[i] < way[j]
    OBVIOUS
  <2>1. CASE i \in 1..m
    <3>1. CASE j \in 1..m
      BY <1>6, <2>1, <3>1 DEF Ordered, m
    <3>2. CASE j = m + 1
      BY <1>6, <2>1, <3>2 DEF Ordered, m
    <3>3. ASSUME NEW k \in 1..n, j = m + 1 + k
          PROVE  way[i] < way[j]
      BY <1>6, <2>1, <3>3 DEF Ordered, m, n
    <3>4. CASE j = m + n + 2
      BY <1>6, <2>1, <3>4 DEF Ordered, m
    <3> QED
      BY <1>7, <3>1, <3>2, <3>3, <3>4
  <2>2. CASE i = m + 1
    <3>1. ~(j \in 1..m) /\ j # m + 1
      BY <1>2, <2>2
    <3>2. ASSUME NEW k \in 1..n, j = m + 1 + k
          PROVE  way[i] < way[j]
      BY <1>6, <2>2, <3>2 DEF Ordered, n
    <3>3. CASE j = m + n + 2
      BY <1>6, <2>2, <3>3 DEF Ordered
    <3> QED
      BY <1>7, <3>1, <3>2, <3>3
  <2>3. ASSUME NEW k \in 1..n, i = m + 1 + k
        PROVE  way[i] < way[j]
    <3>1. ~(j \in 1..m) /\ j # m + 1
      BY <1>2, <2>3
    <3>2. way[i] = q[k]
      BY <1>6, <2>3
    <3>3. ASSUME NEW l \in 1..n, j = m + 1 + l
          PROVE  way[i] < way[j]
      <4>1. k < l /\ way[j] = q[l]
        BY <1>2, <1>6, <2>3, <3>3
      <4> QED
        BY <3>2, <4>1 DEF Ordered, n
    <3>4. CASE j = m + n + 2
      BY <1>6, <3>2, <3>4 DEF Ordered, n
    <3> QED
      BY <1>7, <3>1, <3>3, <3>4
  <2>4. i # m + n + 2
    BY <1>2, <1>5
  <2> QED
    BY <1>7, <2>1, <2>2, <2>3, <2>4
<1>9. ASSUME Complete(d, e, q, h, r)
      PROVE  ToSet(way) \ {0} = 1..r
  <2>1. DOMAIN way = 1..Len(way)
    BY <1>5
  <2>2. ASSUME NEW i \in 1..Len(way), way[i] # 0
        PROVE  way[i] \in 1..r
    <3>1. way[i] \in Nat
      BY <1>5
    <3>2. way[i] <= r
      <4>1. CASE i \in 1..m
        BY <1>6, <4>1 DEF Ordered, m
      <4>2. ASSUME NEW k \in 1..n, i = m + 1 + k
            PROVE  way[i] <= r
        BY <1>6, <4>2 DEF Ordered, n
      <4>3. CASE i = m + 1 \/ i = m + n + 2
        BY <1>6, <4>3 DEF Ordered
      <4> QED
        BY <1>7, <4>1, <4>2, <4>3
    <3> QED
      BY <1>1, <2>2, <3>1, <3>2
  <2>3. ASSUME NEW x \in 1..r
        PROVE  x # 0 /\ \E i \in 1..Len(way) : way[i] = x
    <3>1. /\ m + 1 \in 1..Len(way) /\ m + n + 2 \in 1..Len(way)
          /\ \A i \in 1..m : i \in 1..Len(way)
          /\ \A k \in 1..n : m + 1 + k \in 1..Len(way)
      <4>1. Len(way) = m + n + 2
        BY <1>5
      <4> QED
        BY <1>2, <4>1
    <3>2. \/ x = e \/ x = h
          \/ \E i \in 1..m : d[i] = x
          \/ \E j \in 1..n : q[j] = x
      BY <1>9 DEF Complete, m, n
    <3>3. \E i \in 1..Len(way) : way[i] = x
      BY <1>6, <3>1, <3>2
    <3> QED
      BY <3>3
  <2> QED
    BY <2>1, <2>2, <2>3 DEF ToSet
<1> QED
  BY <1>8, <1>9 DEF way, b, a

(* Where reports are on their way.                                         *)
Quiet ==
    /\ ~Emitting => event.no = 0
    /\ kind \in Periodic => event.no = 0
    /\ held # 0 => source = "send" \/ pump = "send"
    /\ source \in {"read", "send"} => kind = "usb" /\ os = "linux"
    /\ source = "quitting" => cancelled

LEMMA QuietNext ==
    ASSUME Placed, Quiet, [Next]_vars
    PROVE  Quiet'
<1> USE DEF Placed, Quiet, Emitting, Periodic, caller, feed, output
<1>1. CASE Traffic \/ Signal \/ UNCHANGED vars
  BY <1>1 DEF Traffic, Signal, vars
<1>2. CASE StartPolling \/ StartUsb \/ StartFiles \/ StartPassive
  BY <1>2 DEF StartPolling, StartUsb, StartFiles, StartPassive, Started, StartFails
<1>3. CASE Stop \/ StopFiles
  BY <1>3 DEF Stop, StopFiles
<1>4. CASE AdapterStopped \/ CloseChannel
  BY <1>4 DEF AdapterStopped, CloseChannel
<1>5. CASE Emit \/ Stalls
  BY <1>5 DEF Emit, Stalls, Nothing
<1>6. CASE TakeSnapshot
  <2>1. event'.no = 0
    <3>1. \/ event' = event
          \/ \E found, truth : event' = [no |-> 0, report |-> found, truth |-> truth]
      BY <1>6 DEF TakeSnapshot, NetworkSnapshot, InventorySnapshot
    <3> QED
      BY <1>6, <3>1 DEF TakeSnapshot
  <2> QED
    BY <1>6, <2>1 DEF TakeSnapshot
<1>7. CASE Tick \/ Quit \/ Joined \/ FeedEnded
  BY <1>7 DEF Tick, Quit, Joined, FeedEnded
<1>8. CASE Take
  <2>1. kind \notin Periodic
    BY <1>8 DEF Take
  <2> QED
    BY <1>8, <2>1 DEF Take
<1>9. CASE WatchFiles \/ Replay
  BY <1>9 DEF WatchFiles, Replay, SourceEnds
<1>10. CASE Linux
  BY <1>10 DEF Linux, OpenNetlink, Receive, Received, SendReport, SourceEnds, Report, HandOver
<1>11. CASE Windows
  BY <1>11 DEF Windows, OpenWindow, Startup, PostClose, LoopDone, Clear, SourceEnds
<1>12. CASE Pump \/ LoopEndsEarly \/ Migrate
  BY <1>12 DEF Pump, Register, GetMessage, WndProcSends, Migrate, LoopEndsEarly, Report, HandOver
<1> QED
  BY <1>1, <1>2, <1>3, <1>4, <1>5, <1>6, <1>7, <1>8, <1>9, <1>10, <1>11, <1>12
     DEF Next, Main, Worker

(* The steps on the way.                                                   *)
Along(d, e, q, h, r) == <<d, e, q, h, r>>
Way == Along(delivered, event.no, inner, held, reported)

LEMMA WaySteps ==
    ASSUME Placed, Quiet, [Next]_vars
    PROVE  /\ cancelled => cancelled'
           /\ \/ Way' = Way
              \/ Way' = Along(Append(delivered, event.no), 0, inner, held, reported)
              \/ inner # <<>> /\ event.no = 0
                   /\ Way' = Along(delivered, Head(inner), Tail(inner), held, reported)
              \/ Way' = Along(delivered, event.no, Append(inner, held), 0, reported)
              \/ held = 0 /\ Way' = Along(delivered, event.no, inner, reported + 1, reported + 1)
              \/ held = 0
                   /\ Way' = Along(delivered, event.no, Append(inner, reported + 1), 0, reported + 1)
              \/ cancelled /\ Way' = Along(delivered, 0, inner, held, reported)
              \/ cancelled /\ Way' = Along(delivered, event.no, <<>>, held, reported)
              \/ cancelled /\ Way' = Along(delivered, event.no, inner, 0, reported)
<1> USE DEF Way, Along, caller, feed, output
<1>1. CASE Traffic \/ Signal \/ UNCHANGED vars
  BY <1>1 DEF Traffic, Signal, vars
<1>2. CASE Main
  BY <1>2 DEF Main, StartPolling, StartUsb, StartFiles, StartPassive, Started, StartFails,
              Stop, StopFiles, AdapterStopped, CloseChannel
<1>3. CASE Emit
  <2>1. event'.no = 0
    BY <1>3 DEF Emit, Nothing
  <2>2. CASE Taken
    <3>1. CASE kind \in Periodic
      <4>1. event.no = 0
        BY <3>1 DEF Quiet
      <4> QED
        BY <1>3, <2>1, <2>2, <3>1, <4>1 DEF Emit, Taken
    <3>2. CASE kind \notin Periodic
      BY <1>3, <2>1, <2>2, <3>2 DEF Emit, Taken
    <3> QED
      BY <3>1, <3>2
  <2>3. CASE GivenUp
    BY <1>3, <2>1, <2>3 DEF Emit, GivenUp
  <2> QED
    BY <1>3, <2>2, <2>3 DEF Emit
<1>4. CASE TakeSnapshot
  <2>1. event.no = 0
    BY <1>4 DEF TakeSnapshot, Quiet, Emitting
  <2>2. \/ event' = event
        \/ \E found, truth : event' = [no |-> 0, report |-> found, truth |-> truth]
    BY <1>4 DEF TakeSnapshot, NetworkSnapshot, InventorySnapshot
  <2>3. event'.no = event.no
    BY <2>1, <2>2
  <2> QED
    BY <1>4, <2>3 DEF TakeSnapshot
<1>5. CASE Stalls \/ Tick \/ Quit \/ Joined \/ FeedEnded
  BY <1>5 DEF Stalls, Tick, Quit, Joined, FeedEnded
<1>6. CASE Take
  <2>1. event.no = 0
    BY <1>6 DEF Take, Quiet, Emitting
  <2>2. event'.no = Head(inner)
    <3>1. ASSUME NEW rec \in Convert(Head(inner))
          PROVE  rec.no = Head(inner)
      BY DEF Convert, Nothing
    <3>2. CASE Head(inner) = 0
      BY <1>6, <2>1, <3>2 DEF Take
    <3>3. CASE Head(inner) # 0
      BY <1>6, <3>1, <3>3 DEF Take
    <3> QED
      BY <3>2, <3>3
  <2> QED
    BY <1>6, <2>1, <2>2 DEF Take
<1>7. CASE WatchFiles
  <2>1. held = 0
    BY <1>7 DEF WatchFiles, Placed, Quiet
  <2>2. CASE source = "ready"
    BY <1>7, <2>1, <2>2 DEF WatchFiles
  <2>3. CASE source = "quitting"
    BY <1>7, <2>3 DEF WatchFiles, Quiet
  <2> QED
    BY <1>7, <2>2, <2>3 DEF WatchFiles
<1>8. CASE Replay
  <2>1. held = 0
    BY <1>8 DEF Replay, Placed, Quiet
  <2> QED
    BY <1>8, <2>1 DEF Replay
<1>9. CASE OpenNetlink \/ Receive
  BY <1>9 DEF OpenNetlink, Receive
<1>10. CASE Received
  <2>1. held = 0
    BY <1>10 DEF Received, Placed, Quiet
  <2> QED
    BY <1>10, <2>1 DEF Received, Report
<1>11. CASE SendReport
  BY <1>11 DEF SendReport, HandOver
<1>12. CASE Windows
  BY <1>12 DEF Windows, OpenWindow, Startup, PostClose, LoopDone, Clear
<1>13. CASE GetMessage
  <2>1. held = 0
    BY <1>13 DEF GetMessage, Placed, Quiet
  <2> QED
    BY <1>13, <2>1 DEF GetMessage, Report
<1>14. CASE Register \/ WndProcSends \/ LoopEndsEarly \/ Migrate
  BY <1>14 DEF Register, WndProcSends, Migrate, LoopEndsEarly, HandOver
<1> QED
  BY <1>1, <1>2, <1>3, <1>4, <1>5, <1>6, <1>7, <1>8, <1>9, <1>10, <1>11, <1>12, <1>13, <1>14
     DEF Next, Worker, Linux, Pump

Sorted    == /\ Parts(delivered, event.no, inner, held, reported)
             /\ Ordered(delivered, event.no, inner, held, reported)
Accounted == ~cancelled => Complete(delivered, event.no, inner, held, reported)

LEMMA FlowNext ==
    ASSUME Placed, Quiet, Sorted, Accounted, [Next]_vars
    PROVE  Sorted' /\ Accounted'
<1>1. cancelled => cancelled'
  BY WaySteps
<1>2. SUFFICES
        ASSUME NEW d, NEW e, NEW q, NEW h, NEW r,
               Way' = Along(d, e, q, h, r)
        PROVE  /\ Parts(d, e, q, h, r) /\ Ordered(d, e, q, h, r)
               /\ ~cancelled => Complete(d, e, q, h, r)
  <2>1. Way' = Along(delivered', event'.no, inner', held', reported')
    BY DEF Way
  <2>2. /\ Parts(delivered', event'.no, inner', held', reported')
        /\ Ordered(delivered', event'.no, inner', held', reported')
        /\ ~cancelled => Complete(delivered', event'.no, inner', held', reported')
    BY <1>2, <2>1
  <2> QED
    BY <1>1, <2>2 DEF Sorted, Accounted
<1> DEFINE dd == delivered
           ee == event.no
           qq == inner
           hh == held
           rr == reported
<1>3. Parts(dd, ee, qq, hh, rr) /\ Ordered(dd, ee, qq, hh, rr)
  BY DEF Sorted
<1>4. ~cancelled => Complete(dd, ee, qq, hh, rr)
  BY DEF Accounted
<1>5. ASSUME NEW d2, NEW e2, NEW q2, NEW h2, NEW r2, Way' = Along(d2, e2, q2, h2, r2)
      PROVE  d = d2 /\ e = e2 /\ q = q2 /\ h = h2 /\ r = r2
  BY <1>2, <1>5 DEF Along
<1>6. CASE Way' = Way
  BY <1>3, <1>4, <1>5, <1>6 DEF Way
<1>7. CASE Way' = Along(Append(dd, ee), 0, qq, hh, rr)
  BY <1>3, <1>4, <1>5, <1>7, Deliver
<1>8. CASE inner # <<>> /\ event.no = 0 /\ Way' = Along(dd, Head(qq), Tail(qq), hh, rr)
  BY <1>3, <1>4, <1>5, <1>8, TakeNext
<1>9. CASE Way' = Along(dd, ee, Append(qq, hh), 0, rr)
  BY <1>3, <1>4, <1>5, <1>9, HandedOver
<1>10. CASE held = 0 /\ Way' = Along(dd, ee, qq, rr + 1, rr + 1)
  BY <1>3, <1>4, <1>5, <1>10, TakenFromSystem
<1>11. CASE held = 0 /\ Way' = Along(dd, ee, Append(qq, rr + 1), 0, rr + 1)
  <2>1. /\ Parts(dd, ee, qq, rr + 1, rr + 1) /\ Ordered(dd, ee, qq, rr + 1, rr + 1)
        /\ ~cancelled => Complete(dd, ee, qq, rr + 1, rr + 1)
    BY <1>3, <1>4, <1>11, TakenFromSystem
  <2>2. /\ Parts(dd, ee, Append(qq, rr + 1), 0, rr + 1)
        /\ Ordered(dd, ee, Append(qq, rr + 1), 0, rr + 1)
        /\ ~cancelled => Complete(dd, ee, Append(qq, rr + 1), 0, rr + 1)
    BY <2>1, HandedOver
  <2> QED
    BY <1>5, <1>11, <2>2
<1>12. CASE cancelled /\ \/ Way' = Along(dd, 0, qq, hh, rr)
                         \/ Way' = Along(dd, ee, <<>>, hh, rr)
                         \/ Way' = Along(dd, ee, qq, 0, rr)
  BY <1>3, <1>5, <1>12, Lost
<1> QED
  BY <1>6, <1>7, <1>8, <1>9, <1>10, <1>11, <1>12, WaySteps

-----------------------------------------------------------------------------
(* The inductive invariant: besides the properties themselves it says      *)
(* where each goroutine can be and where a report can be.                  *)
CollectorInv ==
    /\ TypeOK /\ ShutInv /\ SnapshotsAreHonest /\ FromFrames
    /\ Quiet /\ Sorted /\ Accounted

LEMMA CollectorInit == Init => CollectorInv
<1> SUFFICES ASSUME Init PROVE CollectorInv
  OBVIOUS
<1>1. TypeOK /\ ShutInv
  BY TypeInit, ShutInit
<1>2. SnapshotsAreHonest /\ FromFrames
  BY DEF Init, SnapshotsAreHonest, FromFrames, Emitting
<1>3. event.no = 0
  BY DEF Init, Nothing
<1>4. Quiet
  BY <1>3 DEF Init, Quiet
<1>5. Sorted
  BY <1>3 DEF Init, Sorted, Parts, Ordered
<1>6. Accounted
  BY DEF Init, Accounted, Complete
<1> QED
  BY <1>1, <1>2, <1>4, <1>5, <1>6 DEF CollectorInv

LEMMA CollectorNext ==
    ASSUME CollectorInv, [Next]_vars
    PROVE  CollectorInv'
<1>1. TypeOK' /\ ShutInv'
  BY TypeNext, ShutNext DEF CollectorInv
<1>2. SnapshotsAreHonest' /\ FromFrames'
  BY HonestNext, FromFramesNext DEF CollectorInv, ShutInv
<1>3. Quiet' /\ Sorted' /\ Accounted'
  BY QuietNext, FlowNext DEF CollectorInv, ShutInv
<1> QED
  BY <1>1, <1>2, <1>3 DEF CollectorInv

LEMMA CollectorInvariant == Spec => []CollectorInv
BY CollectorInit, CollectorNext, PTL DEF Spec

LEMMA WaysAreOrdered ==
    ASSUME Sorted, Accounted
    PROVE  NothingSkipped
BY WayOf DEF Sorted, Accounted, NothingSkipped

(* The variables of the collectors keep their types; the channels never    *)
(* hold more than their capacity.                                          *)
THEOREM CollectorsTyped == Spec => []TypeOK
<1>1. CollectorInv => TypeOK
  BY DEF CollectorInv
<1> QED
  BY <1>1, CollectorInvariant, PTL

(* No goroutine is in a position to send on a channel that was closed.     *)
THEOREM NeverSendsOnClosed == Spec => []NoSendOnClosed
<1>1. CollectorInv => NoSendOnClosed
  BY DEF CollectorInv, ShutInv
<1> QED
  BY <1>1, CollectorInvariant, PTL

(* Backpressure loses and reorders nothing, whatever the capacities.       *)
THEOREM NothingIsSkipped == Spec => []NothingSkipped
<1>1. CollectorInv => NothingSkipped
  BY WaysAreOrdered DEF CollectorInv
<1> QED
  BY <1>1, CollectorInvariant, PTL

(* A table, a list of interfaces or a hostname that could not be read is   *)
(* named in the snapshot, whatever the number of rows and the size of the  *)
(* buffer; only the addresses of an interface may be missing unnamed.      *)
THEOREM SnapshotsHonest == Spec => []SnapshotsAreHonest
<1>1. CollectorInv => SnapshotsAreHonest
  BY DEF CollectorInv
<1> QED
  BY <1>1, CollectorInvariant, PTL

(* The decoder reads only captured bytes, of every frame there can be.     *)
THEOREM DecoderInFrame == Spec => []DecoderStaysInFrame
<1>1. CollectorInv => DecoderStaysInFrame
  BY FramesAreSound DEF CollectorInv
<1> QED
  BY <1>1, CollectorInvariant, PTL

(* What an event claims is in the frame, for every frame there can be.     *)
THEOREM EvidenceSound == Spec => []EvidenceIsSound
<1>1. CollectorInv => EvidenceIsSound
  BY FramesAreSound DEF CollectorInv
<1> QED
  BY <1>1, CollectorInvariant, PTL
=============================================================================
