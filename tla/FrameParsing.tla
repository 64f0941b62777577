---------------------------- MODULE FrameParsing ----------------------------
(***************************************************************************)
(* What the program makes of a frame: PacketCapture::parsePacket for       *)
(* frames from libpcap, PcapReader::parseHeaders for frames of a capture   *)
(* file that a packet tab opens.  A frame is given by its lengths and its  *)
(* header fields; reading a header at another offset than its own yields   *)
(* Garbage.                                                                *)
(***************************************************************************)
EXTENDS Integers, SequencesExt

ICMP == 1
IGMP == 2
TCP  == 6
UDP  == 17
ICMPv6 == 58
Fragment == 44
ExtensionHeaders == {0, 43, 60, Fragment}

Garbage == -1

(* link     link type           len       captured bytes                   *)
(* tagged   802.1Q tag          eth       the ethertype, after the tag     *)
(* ver, hl  ip_v, ip_hl         nxt       ip_p, or the IPv6 next header    *)
(* exts     IPv6 extension headers, each with its size and what follows it *)
(* off      th_off              ulen      uh_ulen                          *)
Frame == [link : {"EN10MB", "LINUX_SLL", "RAW"}, len : Nat, tagged : BOOLEAN,
          eth : {"IPv4", "IPv6", "ARP", "VLAN"}, ver : 0 .. 15, hl : 0 .. 15,
          nxt : 0 .. 255, exts : Seq([size : Nat, next : 0 .. 255]),
          off : 0 .. 15, ulen : Nat, src : Nat, dst : Nat,
          sport : Nat, dport : Nat, flags : SUBSET {"SYN", "ACK", "RST", "FIN"}]

(* A PacketInfo or PacketRecord whose frame was not parsed beyond eth_type.*)
NoHeaders(eth) == [eth |-> eth, protocol |-> 0, src |-> 0, dst |-> 0,
                   sport |-> 0, dport |-> 0, flags |-> {}, payload_len |-> 0]

(* Headers read from bytes that are something else.                        *)
Misread == [NoHeaders("IPv4") EXCEPT !.protocol = Garbage, !.src = Garbage, !.dst = Garbage,
                                     !.sport = Garbage, !.dport = Garbage]

WithIPv4(fr) == [NoHeaders("IPv4") EXCEPT !.src = fr.src, !.dst = fr.dst, !.protocol = fr.nxt]

WithPorts(h, fr, payload_len) ==
  [h EXCEPT !.sport = fr.sport, !.dport = fr.dport, !.payload_len = payload_len,
            !.flags = IF h.protocol = TCP THEN fr.flags ELSE {}]

LinkLength(fr) == CASE fr.link = "RAW"       -> 0
                    [] fr.link = "LINUX_SLL" -> 16
                    [] OTHER                 -> IF fr.tagged THEN 18 ELSE 14

-----------------------------------------------------------------------------
(*                         PacketCapture::parsePacket                      *)

parseTransport(h, fr, remaining) ==
  CASE h.protocol = TCP /\ remaining >= 20 /\ 4 * fr.off \in 20 .. remaining
         -> WithPorts(h, fr, remaining - 4 * fr.off)
    [] h.protocol = UDP /\ remaining >= 8 -> WithPorts(h, fr, remaining - 8)
    [] h.protocol \in {ICMP, ICMPv6}      -> [h EXCEPT !.payload_len = remaining]
    [] OTHER                              -> h

(* The loop over extension headers: n of them skipped, what follows, and   *)
(* the bytes left.  It stops at a header that does not fit.                *)
SkipExtensions(fr, room) ==
  LET skip[s \in [n : 0 .. Len(fr.exts), next : 0 .. 255, left : 0 .. room]] ==
        IF s.next \in ExtensionHeaders /\ s.n < Len(fr.exts) /\ s.left >= 2
           /\ fr.exts[s.n + 1].size <= s.left
        THEN skip[[n |-> s.n + 1, next |-> fr.exts[s.n + 1].next,
                   left |-> s.left - fr.exts[s.n + 1].size]]
        ELSE s
  IN  skip[[n |-> 0, next |-> fr.nxt, left |-> room]]

(* The interface's link type is not looked at: only for Ethernet frames.   *)
parsePacket(fr) ==
  LET remaining == fr.len - LinkLength(fr)
      IPv6 == SkipExtensions(fr, remaining - 40)
  IN  IF fr.len < 14 THEN NoHeaders("none")
      ELSE IF fr.tagged /\ remaining < 0 THEN NoHeaders("VLAN")
      ELSE CASE fr.eth = "IPv4" /\ remaining >= 20 /\ fr.ver = 4 /\ 4 * fr.hl \in 20 .. remaining
                  -> parseTransport(WithIPv4(fr), fr, remaining - 4 * fr.hl)
             [] fr.eth = "IPv6" /\ remaining >= 40
                  -> parseTransport([NoHeaders("IPv6") EXCEPT !.protocol = IPv6.next], fr, IPv6.left)
             [] OTHER -> NoHeaders(fr.eth)

-----------------------------------------------------------------------------
(*                         PcapReader::parseHeaders                        *)

(* Fault: IP options are forgotten, ports are read 20 bytes into IPv4.     *)
readTransportWithoutOptions(fr) ==
  IF fr.nxt \in {TCP, UDP}
  THEN WithPorts(WithIPv4(fr), IF fr.hl = 5 THEN fr ELSE [fr EXCEPT !.sport = Garbage], 0)
  ELSE WithIPv4(fr)

(* The transport header, where ip_hl says it is.  The data offset of TCP   *)
(* is not checked, the payload of UDP is what its header claims.           *)
readTransport(fr) ==
  LET at   == LinkLength(fr) + 4 * fr.hl
      h    == WithIPv4(fr)
      size == fr.len - at - 4 * fr.off
      seen == IF fr.hl >= 5 THEN fr
              ELSE [fr EXCEPT !.sport = Garbage, !.dport = Garbage]
  IN  CASE h.protocol = TCP /\ at + 20 <= fr.len -> WithPorts(h, seen, IF size > 0 THEN size ELSE 0)
        [] h.protocol = UDP /\ at + 8 <= fr.len ->
             WithPorts(h, seen, IF fr.ulen > 8 THEN fr.ulen - 8 ELSE 0)
        [] OTHER -> h

(* A RAW frame is read as IPv4, and the version is not looked at.          *)
parseHeaders(fr) ==
  LET untagged == CASE fr.link = "RAW" -> 0 [] fr.link = "LINUX_SLL" -> 16 [] OTHER -> 14
      eth      == IF fr.link = "RAW" THEN "IPv4" ELSE fr.eth
  IN  IF fr.len < untagged THEN NoHeaders("none")
      ELSE IF fr.len < LinkLength(fr) THEN NoHeaders("VLAN")
      ELSE CASE eth # "IPv4" -> NoHeaders(eth)
             [] eth = "IPv4" /\ fr.len < LinkLength(fr) + 20 -> NoHeaders("IPv4")
             [] OTHER -> IF fr.eth = "IPv4" THEN readTransport(fr) ELSE Misread

-----------------------------------------------------------------------------
(*              PacketListModel::computeProto and the columns              *)

TcpServices == << <<{80, 8080}, "HTTP">>, <<{443}, "HTTPS">>, <<{22}, "SSH">>,
                  <<{21}, "FTP">>, <<{25}, "SMTP">>, <<{3306}, "MySQL">> >>
UdpServices == << <<{53}, "DNS">>, <<{67, 68}, "DHCP">>, <<{123}, "NTP">>, <<{161}, "SNMP">> >>

(* The first service one of whose ports is the source's or destination's.  *)
ServiceOf(h, services, default) ==
  LET found == SelectSeq(services, LAMBDA s : {h.sport, h.dport} \cap s[1] # {})
  IN  IF found = << >> THEN default ELSE Head(found)[2]

computeProto(h) ==
  CASE h.protocol = 0 /\ h.eth # "IPv4" -> IF h.eth = "none" THEN "UNKNOWN" ELSE h.eth
    [] h.eth = "IPv6" /\ h.protocol = ICMPv6 -> "ICMPv6"
    [] h.protocol = TCP  -> ServiceOf(h, TcpServices, "TCP")
    [] h.protocol = UDP  -> ServiceOf(h, UdpServices, "UDP")
    [] h.protocol = ICMP -> "ICMP"
    [] h.protocol = IGMP -> "IGMP"
    [] OTHER             -> "IP"

(* What a row of the packet list shows of the headers: protocol, addresses *)
(* with ports, and computeInfo's flags and length.                         *)
Columns(h) == [proto |-> computeProto(h), src |-> <<h.src, h.sport>>,
               dst |-> <<h.dst, h.dport>>, flags |-> h.flags,
               length |-> IF h.protocol \in {TCP, UDP} THEN h.payload_len ELSE 0]

(* Frames that both parsers are made for: Ethernet, and if IPv4 then with  *)
(* a version and lengths that agree with the frame.                        *)
Sound(fr) ==
  LET remaining == fr.len - LinkLength(fr) - 4 * fr.hl
  IN  /\ fr.link = "EN10MB" /\ fr.eth # "IPv6"
      /\ fr.eth = "IPv4" =>
           /\ fr.ver = 4 /\ fr.hl >= 5 /\ remaining >= 0
           /\ fr.nxt = TCP /\ remaining >= 20 => 4 * fr.off \in 20 .. remaining
           /\ fr.nxt = UDP => fr.ulen = remaining
=============================================================================
