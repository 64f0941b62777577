----------------------------- MODULE MCPacketTab ----------------------------
(* Three frames on the wire, capture files of two and one, of different    *)
(* link types; a ring of three records, a list of two rows, batches of two.*)
EXTENDS PacketTab

Web == [link |-> "EN10MB", len |-> 74, tagged |-> FALSE, eth |-> "IPv4", ver |-> 4, hl |-> 5,
        nxt |-> TCP, exts |-> << >>, off |-> 5, ulen |-> 0, src |-> 1, dst |-> 2,
        sport |-> 4000, dport |-> 80, flags |-> {"SYN"}]
Name == [Web EXCEPT !.nxt = UDP, !.ulen = 40, !.dport = 53, !.flags = {}]
Tagged  == [Web EXCEPT !.tagged = TRUE, !.hl = 6, !.dport = 443]
Arp     == [Web EXCEPT !.eth = "ARP", !.len = 42]
Cooked  == [Name EXCEPT !.link = "LINUX_SLL"]
Hop     == [Web EXCEPT !.eth = "IPv6", !.ver = 6, !.nxt = 0, !.exts = <<[size |-> 8, next |-> TCP]>>]

MCWire == <<Web, Name, Hop>>
MCDisk == [a |-> <<Tagged, Arp>>, b |-> <<Cooked>>]

MCPackets == {<<"a", 1>>, <<"a", 2>>, <<"b", 1>>,
              <<"live", 1>>, <<"live", 2>>, <<"live", 3>>,
              <<"misread", 1>>, <<"misread", 2>>}
MCNoPacket == <<"none", 0>>

MCLines == {<<[lhs |-> "ip.src", op |-> "EQ", rhs |-> 1], [lhs |-> "tcp.dstport", op |-> "GT", rhs |-> 53]>>,
            <<[lhs |-> "syn", op |-> "word", rhs |-> 0]>>}
=============================================================================
