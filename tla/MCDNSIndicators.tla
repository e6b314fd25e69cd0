-------------------------- MODULE MCDNSIndicators ---------------------------
(* The events: every DNS exchange over a few records, as Suricata logs it  *)
(* (detailed answer list, grouped records, one event per answer) and as    *)
(* Zeek logs it, and anomaly events with and without their endpoints.      *)
EXTENDS DNSIndicators

MCAddrs == {"10.0.0.1", "2001:db8::1", "10.0.0.2", "10.0.0.53"}

Rec(type, rrname, rdata) == [type |-> type, rrname |-> rrname, rdata |-> rdata]
Records ==
  { Rec("A", "example.com", "10.0.0.1"),
    Rec("AAAA", "example.com", "2001:db8::1"),
    Rec("CNAME", "www.example.com", "example.com"),
    Rec("MX", "example.com", "mail.example.com"),
    Rec("PTR", "1.0.0.10.in-addr.arpa", "host.example.com"),
    Rec("TXT", "example.com", "v=spf1 -all") }
QTypes == {"A", "AAAA", "CNAME", "MX", "PTR", "TXT"}
QCode == [t \in QTypes |->
            CASE t = "A" -> 1 [] t = "AAAA" -> 28 [] t = "CNAME" -> 5
              [] t = "MX" -> 15 [] t = "PTR" -> 12 [] t = "TXT" -> 16]
Exchanges ==
  [qname : {"example.com", "1.0.0.10.in-addr.arpa"}, qtype : QTypes,
   answers : SUBSET Records]

OfType(x, t) == {r.rdata : r \in {r \in x.answers : r.type = t}}
AsAnswer(r) == [rrname |-> r.rrname, rrtype |-> r.type, rdata |-> r.rdata]

\* Suricata EVE "dns" events: the detailed and the grouped answer formats.
Detailed(x) ==
  [format |-> "suricata", x |-> x, ends |-> {"10.0.0.2", "10.0.0.53"},
   src_ip |-> "10.0.0.2", dest_ip |-> "10.0.0.53",
   dns |-> [rrname |-> x.qname, rrtype |-> x.qtype, rdata |-> Nil,
            answers |-> {AsAnswer(r) : r \in x.answers}, grouped |-> Nil]]
Grouped(x) ==
  [format |-> "suricata", x |-> x, ends |-> {"10.0.0.2", "10.0.0.53"},
   src_ip |-> "10.0.0.2", dest_ip |-> "10.0.0.53",
   dns |-> [rrname |-> x.qname, rrtype |-> x.qtype, rdata |-> Nil, answers |-> {},
            grouped |-> [A |-> OfType(x, "A"), AAAA |-> OfType(x, "AAAA"),
                         CNAME |-> OfType(x, "CNAME"), MX |-> OfType(x, "MX"),
                         PTR |-> OfType(x, "PTR"), TXT |-> OfType(x, "TXT")]]]
\* The one-answer-per-event format: the record at the top of DNS.
PerAnswer(r) ==
  [format |-> "suricata",
   x |-> [qname |-> r.rrname, qtype |-> r.type, answers |-> {r}],
   ends |-> {"10.0.0.53", "10.0.0.2"}, src_ip |-> "10.0.0.53", dest_ip |-> "10.0.0.2",
   dns |-> [rrname |-> r.rrname, rrtype |-> r.type, rdata |-> r.rdata,
            answers |-> {}, grouped |-> Nil]]
\* Zeek dns.log: the query, its type code and the answers' data.
ZeekLog(x) ==
  [format |-> "zeek", x |-> x, ends |-> {"10.0.0.2", "10.0.0.53"}, orig_h |-> "10.0.0.2", resp_h |-> "10.0.0.53",
   query |-> x.qname, qtype |-> QCode[x.qtype],
   answers |-> {r.rdata : r \in x.answers}]

\* Suricata EVE "anomaly" events: a decode-layer anomaly has no flow, a
\* stream or application-layer one has either or both endpoints.
NoExchange == [qname |-> Nil, qtype |-> Nil, answers |-> {}]
Endpoint == {Nil, "10.0.0.2", "10.0.0.53"}
AnomalyLog(src, dst) ==
  [format |-> "anomaly", x |-> NoExchange, ends |-> {src, dst} \ {Nil},
   src_ip |-> src, dest_ip |-> dst]

MCEvents ==
  {Detailed(x) : x \in Exchanges} \cup {Grouped(x) : x \in Exchanges}
    \cup {PerAnswer(r) : r \in Records} \cup {ZeekLog(x) : x \in Exchanges}
    \cup {AnomalyLog(src, dst) : src, dst \in Endpoint}

=============================================================================
