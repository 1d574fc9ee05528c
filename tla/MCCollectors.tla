---------------------------- MODULE MCCollectors ----------------------------
(* Frames whose captured length is around every length that the decoder     *)
(* tests, with legal and illegal header fields.                             *)
EXTENDS Collectors
Base == [len |-> 0, link |-> "raw_ip", eth |-> "other", tagged |-> "other", arp |-> TRUE,
         ver |-> 4, ihl |-> 5, proto |-> 6, doff |-> 5, src |-> 1024, dst |-> 502,
         mbProto |-> 0, mbLen |-> 2, fc |-> 3]
Around(S) == UNION {{n - 1, n} : n \in S}
Links ==
    {[Base EXCEPT !.link = "ethernet", !.eth = e, !.tagged = t, !.arp = a, !.len = n] :
        e \in {"ARP", "VLAN", "other"}, t \in {"ARP", "VLAN", "other"}, a \in BOOLEAN,
        n \in Around({1, 14, 18, 42, 46})}
Headers ==
    {[Base EXCEPT !.link = l[1], !.eth = l[2], !.tagged = "IPv4", !.ver = v, !.ihl = i, !.proto = p,
                  !.doff = d, !.len = l[3] + n] :
        l \in {<<"raw_ip", "other", 0>>, <<"ethernet", "IPv4", 14>>, <<"ethernet", "VLAN", 18>>},
        v \in {4, 6}, i \in {4, 5, 6}, p \in {1, 6, 17, 89}, d \in {4, 5, 6},
        n \in Around({20, 24, 28, 32, 40, 44, 48})}
Payloads ==
    {[Base EXCEPT !.src = q[1], !.dst = q[2], !.mbProto = m, !.mbLen = k, !.fc = c, !.len = n] :
        q \in {<<1024, 502>>, <<502, 1024>>, <<502, 502>>, <<20000, 502>>},
        m \in {0, 1}, k \in {1, 2}, c \in {3, 5, 7, 16, 131}, n \in Around({40, 47, 48, 49, 52})}
Hints ==
    {[Base EXCEPT !.proto = p, !.doff = d, !.src = s, !.dst = 1024, !.len = 60] :
        p \in {6, 17}, d \in {4, 5}, s \in {20000, 44818, 102, 2222, 1024}}
MCFrames == Links \cup Headers \cup Payloads \cup Hints
=============================================================================
