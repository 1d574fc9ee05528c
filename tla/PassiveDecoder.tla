--------------------------- MODULE PassiveDecoder ---------------------------
(***************************************************************************)
(* The decoder of the passive network collector                            *)
(* (agent/internal/collectors/passivenetwork): from one captured frame to  *)
(* the normalized observation that its event reports.                      *)
(*                                                                         *)
(* A frame is the number of captured bytes and the header fields that the  *)
(* decoder looks at.  A field may lie beyond the captured bytes: the       *)
(* decoder must find that out from the lengths, so every observation       *)
(* carries, as a ghost, how far into the frame the decoder has read.       *)
(* Lengths are in bytes; ihl and doff are in words, as on the wire.        *)
(***************************************************************************)
EXTENDS Naturals

(* len is what was captured; the rest is what the header fields hold, or   *)
(* would hold if they had been captured.                                   *)
Nibble    == 0..15
Byte      == 0..255
Word      == 0..65535
EtherType == {"IPv4", "ARP", "VLAN", "other"}

Frame ==
    [len : Nat, link : {"ethernet", "raw_ip"}, eth : EtherType, tagged : EtherType,
     arp : BOOLEAN, ver : Nibble, ihl : Nibble, proto : Byte, doff : Nibble,
     src : Word, dst : Word, mbProto : Word, mbLen : Word, fc : Byte]

(* Quality flags.                                                          *)
Truncated   == "TRUNCATED_PACKET"
Malformed   == "MALFORMED_FRAME"
Unsupported == "UNSUPPORTED_PROTOCOL"

(* A new NormalizedObservation; read is the ghost.                         *)
NewObservation ==
    [transport |-> "", conf |-> "unknown", hint |-> "unknown", flags |-> {},
     ports |-> {}, payload |-> 0, read |-> 0]

Flag(obs, flag)  == [obs EXCEPT !.flags = @ \cup {flag}]
Reject(obs, flag) == [Flag(obs, flag) EXCEPT !.conf = "unsupported"]
UpTo(obs, end)   == [obs EXCEPT !.read = IF end > @ THEN end ELSE @]

-----------------------------------------------------------------------------
(* Transport layer.  l4 is where its header starts in the frame.           *)
Ports(obs, f, l4) == [UpTo(obs, l4 + 4) EXCEPT !.ports = {f.src, f.dst}]

decodeTCP(f, l4, obs) ==
    IF f.len < l4 + 20 THEN Reject(obs, Truncated)
    ELSE LET tcp == UpTo([Ports(obs, f, l4) EXCEPT !.transport = "TCP"], l4 + 13)
             end == l4 + 4 * f.doff
         IN  IF f.doff < 5 \/ f.len < end THEN Reject(tcp, Malformed)
             ELSE [UpTo(tcp, end) EXCEPT !.conf = "known", !.payload = f.len - end]

decodeUDP(f, l4, obs) ==
    IF f.len < l4 + 8 THEN Reject(obs, Truncated)
    ELSE [UpTo(Ports(obs, f, l4), l4 + 8) EXCEPT
            !.transport = "UDP", !.conf = "known", !.payload = f.len - (l4 + 8)]

decodeICMP(f, l4, obs) ==
    IF f.len < l4 + 4 THEN Reject(obs, Truncated)
    ELSE [UpTo(obs, l4 + 2) EXCEPT
            !.transport = "ICMP", !.conf = "known", !.payload = f.len - l4]

(* M: the length of the header is believed.                                *)
M_decodeIPv4(f, l3, obs) ==
    IF f.len < l3 + 20 THEN Reject(obs, Truncated)
    ELSE LET ip == UpTo(obs, l3 + 1)
             l4 == l3 + 4 * f.ihl
         IN  IF f.ver # 4 \/ f.ihl < 5 THEN Reject(ip, Malformed)
             ELSE LET addressed == UpTo(UpTo(ip, l3 + 20), l4)
                  IN  CASE f.proto = 6  -> decodeTCP(f, l4, addressed)
                        [] f.proto = 17 -> decodeUDP(f, l4, addressed)
                        [] f.proto = 1  -> decodeICMP(f, l4, addressed)
                        [] OTHER -> Reject([addressed EXCEPT !.transport = "IP"], Unsupported)

(* Network layer.  The total length of the packet and its fragmentation    *)
(* are not looked at: what was captured after the header is the payload.   *)
(* The slice from l4 on counts as a read up to l4, which is where it fails.*)
decodeIPv4(f, l3, obs) ==
    IF f.len < l3 + 20 THEN Reject(obs, Truncated)
    ELSE LET ip == UpTo(obs, l3 + 1)
             l4 == l3 + 4 * f.ihl
         IN  IF f.ver # 4 \/ f.ihl < 5 \/ f.len < l4 THEN Reject(ip, Malformed)
             ELSE LET addressed == UpTo(UpTo(ip, l3 + 20), l4)
                  IN  CASE f.proto = 6  -> decodeTCP(f, l4, addressed)
                        [] f.proto = 17 -> decodeUDP(f, l4, addressed)
                        [] f.proto = 1  -> decodeICMP(f, l4, addressed)
                        [] OTHER -> Reject([addressed EXCEPT !.transport = "IP"], Unsupported)

decodeARP(f, l3, obs) ==
    IF f.len < l3 + 28 THEN Reject(obs, Truncated)
    ELSE LET arp == [UpTo(obs, l3 + 8) EXCEPT !.transport = "ARP"]
         IN  IF ~f.arp THEN Reject(arp, Unsupported)
             ELSE [UpTo(arp, l3 + 28) EXCEPT !.conf = "known"]

(* Link layer, with at most one VLAN tag.                                  *)
Route(f, etherType, l3, obs) ==
    CASE etherType = "ARP"  -> decodeARP(f, l3, obs)
      [] etherType = "IPv4" -> decodeIPv4(f, l3, obs)
      [] OTHER -> Reject([obs EXCEPT !.transport = "ETH"], Unsupported)

NormalizeRawObservation(f) ==
    LET ethernet == UpTo(NewObservation, 14)
        vlan     == UpTo(NewObservation, 18)
    IN  IF f.len = 0              THEN Reject(NewObservation, Truncated)
        ELSE IF f.link = "raw_ip" THEN Route(f, "IPv4", 0, NewObservation)
        ELSE IF f.len < 14        THEN Reject(NewObservation, Truncated)
        ELSE IF f.eth # "VLAN"    THEN Route(f, f.eth, 14, ethernet)
        ELSE IF f.len < 18        THEN Reject(ethernet, Truncated)
        ELSE Route(f, f.tagged, 18, vlan)

-----------------------------------------------------------------------------
(* Modbus/TCP.  base is where the payload starts; a payload that the       *)
(* normalizer did not return has length 0.                                 *)
Reads    == {1, 2, 3, 4}
Writes   == {5, 6}
Multiple == {15, 16}

Direction(f) ==
    CASE f.dst = 502 /\ f.src # 502 -> "request"
      [] f.src = 502 /\ f.dst # 502 -> "response"
      [] OTHER -> "unknown"

(* The bytes after the function code that the decoder takes fields from.   *)
Fields(f) ==
    CASE f.fc >= 128 -> 1
      [] f.fc \in Reads \cup Multiple /\ Direction(f) = "request" -> 4
      [] f.fc \in Writes -> 4
      [] OTHER -> 0

ModbusTruncated == "MODBUS_TRUNCATED_PAYLOAD"
InvalidMBAP     == "MODBUS_INVALID_MBAP"
Supported       == Reads \cup Writes \cup Multiple

Guess(obs, hint) == [obs EXCEPT !.hint = hint, !.conf = "inferred"]

M_DecodeModbusTCP(f, base, obs) ==
    LET mbap  == UpTo(obs, base + 7)
        known == [UpTo(obs, base + 8) EXCEPT !.hint = "modbus", !.conf = "known"]
    IN  IF obs.payload < 7       THEN Guess(Flag(obs, ModbusTruncated), "modbus")
        ELSE IF f.mbProto # 0    THEN Guess(Flag(mbap, InvalidMBAP), "modbus")
        ELSE IF f.fc < 128 /\ f.fc \notin Supported THEN Flag(known, "MODBUS_UNSUPPORTED_FUNCTION")
        ELSE IF obs.payload < 8 + Fields(f) THEN Flag(known, ModbusTruncated)
        ELSE UpTo(known, base + 8 + Fields(f))

DecodeModbusTCP(f, base, obs) ==
    LET mbap  == UpTo(obs, base + 7)
        known == [UpTo(obs, base + 8) EXCEPT !.hint = "modbus", !.conf = "known"]
    IN  IF obs.payload < 7                     THEN Guess(Flag(obs, ModbusTruncated), "modbus")
        ELSE IF f.mbProto # 0 \/ f.mbLen < 2   THEN Guess(Flag(mbap, InvalidMBAP), "modbus")
        ELSE IF obs.payload < 8                THEN Guess(Flag(mbap, ModbusTruncated), "modbus")
        ELSE IF f.fc < 128 /\ f.fc \notin Supported THEN Flag(known, "MODBUS_UNSUPPORTED_FUNCTION")
        ELSE IF obs.payload < 8 + Fields(f)    THEN Flag(known, ModbusTruncated)
        ELSE UpTo(known, base + 8 + Fields(f))

(* Identify and the first half of processRaw: a hint from the ports alone  *)
(* replaces the confidence of the transport, also that of a frame that was *)
(* rejected after its ports were read.                                     *)
Identify(f, obs) ==
    LET tcp(port) == obs.transport = "TCP" /\ port \in obs.ports
        udp(port) == obs.transport = "UDP" /\ port \in obs.ports
    IN  IF tcp(502)          THEN DecodeModbusTCP(f, f.len - obs.payload, obs)
        ELSE IF tcp(20000) \/ udp(20000) THEN Guess(obs, "dnp3")
        ELSE IF tcp(44818) \/ udp(2222)  THEN Guess(obs, "ethernet_ip")
        ELSE IF tcp(102)     THEN Guess(obs, "s7")
        ELSE obs

Decode(f) == Identify(f, NormalizeRawObservation(f))

-----------------------------------------------------------------------------
(* Reference definitions: what a frame really holds.                       *)
LinkLength(f)  == IF f.link = "raw_ip" THEN 0 ELSE IF f.eth = "VLAN" THEN 18 ELSE 14
Carries(f)     == IF f.link = "raw_ip" THEN "IPv4" ELSE IF f.eth = "VLAN" THEN f.tagged ELSE f.eth
L4(f)          == LinkLength(f) + 4 * f.ihl
TransportEnd(f) == L4(f) + (CASE f.proto = 6 -> 4 * f.doff [] f.proto = 17 -> 8 [] OTHER -> 4)

(* Every header that the frame announces was captured and is legal.        *)
Intact(f) ==
    /\ f.len > 0
    /\ \/ Carries(f) = "ARP" /\ f.arp /\ f.len >= LinkLength(f) + 28
       \/ /\ Carries(f) = "IPv4" /\ f.ver = 4 /\ f.ihl >= 5 /\ f.proto \in {1, 6, 17}
          /\ f.proto = 6 => f.doff >= 5
          /\ f.len >= TransportEnd(f)

(* Its payload starts with a Modbus header and a function code.            *)
HoldsModbus(f) ==
    /\ Intact(f) /\ Carries(f) = "IPv4" /\ f.proto = 6
    /\ f.len >= TransportEnd(f) + 8
    /\ f.mbProto = 0 /\ f.mbLen >= 2
=============================================================================
