--------------------------- MODULE DNSIndicators ----------------------------
(***************************************************************************)
(* The indicators the Suricata and Zeek log types derive from one decoded  *)
(* event:                                                                  *)
(*   SuricataPantherEvent  suricatalogs/dns.go DNS.PantherEvent (66-110)   *)
(*   AnomalyPantherEvent   suricatalogs/anomaly.go Anomaly.PantherEvent    *)
(*   ZeekPantherEvent      zeeklogs/dns.go ZeekDNS.PantherEvent (78-90)    *)
(* An event is the decoded struct: a record whose pointer fields are Nil   *)
(* or a string.  Each event also carries, as the field x, the DNS exchange *)
(* it reports (query name and type, answer records) and, as ends, the      *)
(* flow's two endpoints, which the properties compare the indicators with; *)
(* the code never reads x or ends.  An anomaly event reports no exchange.  *)
(* The Event's value set (NewEvent, Extend, Insert, Add: set semantics,    *)
(* nil and empty values dropped) and the Hostname classification are      *)
(* outside this source tree and modelled from spec 4.1 and 4.4.            *)
(***************************************************************************)

CONSTANTS
  Events,  \* the decoded events the parsers may be handed
  Addrs,   \* the strings that parse as IP addresses
  Nil      \* a nil *string

\* The strings of an event that DNS defines as domain names: the owner
\* names, and the targets of CNAME, MX and PTR records.
NameFields(e) ==
  IF e.format = "suricata" /\ e.dns # Nil
    THEN {e.dns.rrname} \cup {a.rrname : a \in e.dns.answers}
           \cup {a.rdata : a \in {b \in e.dns.answers : b.rrtype \in {"CNAME", "MX", "PTR"}}}
           \cup (IF e.dns.grouped = Nil THEN {}
                 ELSE e.dns.grouped.CNAME \cup e.dns.grouped.MX \cup e.dns.grouped.PTR)
    ELSE {}

\* A domain name is never an IP address literal.
ASSUME NamesAssumption == \A e \in Events : NameFields(e) \cap Addrs = {}

\* The flow endpoints of an event, in the fields its log type names them.
EndpointFields(e) ==
  IF e.format = "zeek" THEN {e.orig_h, e.resp_h} ELSE {e.src_ip, e.dest_ip}

\* An address answer r of the exchange is in the event: in Suricata's
\* answer list, its grouped A/AAAA records or its top-level rdata, or in
\* Zeek's answers.
Logged(e, r) ==
  IF e.format = "zeek" THEN r.rdata \in e.answers
  ELSE /\ e.format = "suricata" /\ e.dns # Nil
       /\ \/ \E a \in e.dns.answers : a.rrtype = r.type /\ a.rdata = r.rdata
          \/ e.dns.grouped # Nil /\ r.rdata \in e.dns.grouped.A \cup e.dns.grouped.AAAA
          \/ e.dns.rdata = r.rdata

\* What an event reports is in it: an address is a non-empty string, the
\* endpoints are the event's endpoint fields, and an A or AAAA answer holds
\* an address and is logged in one of the tools' forms.
ASSUME ReportsAssumption ==
  /\ Nil \notin Addrs /\ "" \notin Addrs
  /\ \A e \in Events :
       /\ e.ends \subseteq EndpointFields(e)
       /\ \A r \in e.x.answers :
            r.type \in {"A", "AAAA"} => r.rdata \in Addrs /\ Logged(e, r)

VARIABLES
  ev,    \* the event whose PantherEvent is called
  out,   \* the indicator values of the Event it returns
  done   \* PantherEvent has returned
vars == <<ev, out, done>>

Ind(kind, data) == [kind |-> kind, data |-> data]

\* parsers.IPAddressP / DomainNameP and the Event's value set: a nil or
\* empty value is dropped, any other is kept as the given kind (spec 4.1).
Value(kind, p) == IF p = Nil \/ p = "" THEN {} ELSE {Ind(kind, p)}

\* logs.HostnameP: an IP address if the string parses as one, a domain name
\* otherwise (spec 4.4).
HostnameP(p) == Value(IF p \in Addrs THEN "ip" ELSE "domain", p)

-----------------------------------------------------------------------------
(* Suricata                                                                *)

\* Mutant: the answer switch without the "AAAA" case.
SuricataAnswerNoAAAA(a) ==
  CASE a.rrtype = "A" -> Value("ip", a.rdata) \cup Value("domain", a.rrname)
    [] a.rrtype \in {"CNAME", "MX"} ->
         Value("domain", a.rrname) \cup Value("domain", a.rdata)
    [] a.rrtype = "PTR" -> Value("domain", a.rdata)
    [] a.rrtype = "TXT" -> Value("domain", a.rrname)
    [] OTHER -> {}

\* One element of DNS.Answers (lines 76-93), by aws.StringValue(Rrtype):
\* a nil type is "" and matches no case.
SuricataAnswer(a) ==
  CASE a.rrtype \in {"A", "AAAA"} ->
         Value("ip", a.rdata) \cup Value("domain", a.rrname)
    [] a.rrtype \in {"CNAME", "MX"} ->
         Value("domain", a.rrname) \cup Value("domain", a.rdata)
    [] a.rrtype = "PTR" -> Value("domain", a.rdata)
    [] a.rrtype = "TXT" -> Value("domain", a.rrname)
    [] OTHER -> {}

\* DNS.Grouped (lines 94-107): A and AAAA records are addresses, CNAME and
\* MX records domain names; PTR and TXT are not read.
SuricataGrouped(g) ==
  IF g = Nil THEN {}
  ELSE (UNION {Value("ip", r) : r \in g.A \cup g.AAAA})
         \cup (UNION {Value("domain", r) : r \in g.CNAME \cup g.MX})

\* DNS.PantherEvent (lines 66-110): source and destination addresses, then,
\* when DNS is present, its rrname as a domain and its rdata as an address,
\* the answers and the grouped records.
SuricataPantherEvent(e) ==
  Value("ip", e.src_ip) \cup Value("ip", e.dest_ip)
    \cup IF e.dns = Nil THEN {}
         ELSE Value("domain", e.dns.rrname) \cup Value("ip", e.dns.rdata)
                \cup (UNION {SuricataAnswer(a) : a \in e.dns.answers})
                \cup SuricataGrouped(e.dns.grouped)

-----------------------------------------------------------------------------
(* Suricata anomaly                                                        *)

\* Mutant: the destination address left out.
AnomalyPantherEventNoDest(e) == Value("ip", e.src_ip)

\* Anomaly.PantherEvent (anomaly.go lines 107-112): the two endpoint
\* addresses, each optional (omitempty) in an anomaly event.
AnomalyPantherEvent(e) == Value("ip", e.src_ip) \cup Value("ip", e.dest_ip)

-----------------------------------------------------------------------------
(* Zeek                                                                    *)

\* DNS::query_types codes of A and AAAA (lines 45-46).
aQueryType == 1
aaaaQueryType == 28

\* Mutant: every answer taken as a domain name, without Hostname's test.
ZeekPantherEventNoHostname(e) ==
  HostnameP(e.orig_h) \cup HostnameP(e.resp_h)
    \cup (IF e.qtype \in {aQueryType, aaaaQueryType}
            THEN HostnameP(e.query) ELSE {})
    \cup UNION {Value("domain", a) : a \in e.answers}

\* ZeekDNS.PantherEvent (lines 78-90): both ends as host names, the query
\* only for an A or AAAA query (a nil QType is neither), every answer as a
\* host name.
ZeekPantherEvent(e) ==
  HostnameP(e.orig_h) \cup HostnameP(e.resp_h)
    \cup (IF e.qtype \in {aQueryType, aaaaQueryType}
            THEN HostnameP(e.query) ELSE {})
    \cup UNION {HostnameP(a) : a \in e.answers}

-----------------------------------------------------------------------------
(* One PantherEvent call on a decoded event.                               *)

Init ==
  /\ ev \in Events
  /\ out = {}
  /\ done = FALSE

\* PantherEvent of a Suricata.DNS event.
SuricataEvent ==
  /\ ~done /\ ev.format = "suricata"
  /\ out' = SuricataPantherEvent(ev)
  /\ done' = TRUE
  /\ UNCHANGED ev

\* PantherEvent of a Suricata.Anomaly event.
AnomalyEvent ==
  /\ ~done /\ ev.format = "anomaly"
  /\ out' = AnomalyPantherEvent(ev)
  /\ done' = TRUE
  /\ UNCHANGED ev

\* PantherEvent of a Zeek.DNS event.
ZeekEvent ==
  /\ ~done /\ ev.format = "zeek"
  /\ out' = ZeekPantherEvent(ev)
  /\ done' = TRUE
  /\ UNCHANGED ev

Next == SuricataEvent \/ AnomalyEvent \/ ZeekEvent

Spec == Init /\ [][Next]_vars

-----------------------------------------------------------------------------
(* Properties, on the exchange x and the endpoints the event reports.      *)

\* Spec 4.4: every address an event reports is an IP indicator: the flow's
\* source and destination, in every event type, and the data of each A or
\* AAAA answer, in every form the two tools log it (Suricata answer list,
\* grouped records or per-answer event; Zeek answers).
ResolvedAddressesFound ==
  done =>
    /\ \A h \in ev.ends \cap Addrs : Ind("ip", h) \in out
    /\ \A r \in ev.x.answers :
         r.type \in {"A", "AAAA"} => Ind("ip", r.rdata) \in out

\* No address is ever recorded as a domain name: the answer switch takes
\* rdata as the address of an A record and rrname as its name, and Zeek
\* classifies every host string.
DomainsAreNames ==
  done => \A i \in out : i.kind = "domain" => i.data \notin Addrs

\* Spec 4.4, the explicit extraction of DNS events: answer records
\* contribute by type, so only A and AAAA data (and the two ends) become IP
\* addresses, a PTR record contributes its target domain name and a TXT
\* record its owner name (never its text); and the queried domain name of
\* a DNS event is an indicator.
FollowsAnswerRules ==
  done =>
    /\ \A i \in out : i.kind = "ip" => i.data \in Addrs
    /\ \A r \in ev.x.answers : r.type = "PTR" => Ind("domain", r.rdata) \in out
    /\ \A r \in ev.x.answers : r.type = "TXT" => Ind("domain", r.rdata) \notin out
    /\ ev.format # "anomaly" => Ind("domain", ev.x.qname) \in out

=============================================================================
