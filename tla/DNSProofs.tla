----------------------------- MODULE DNSProofs ------------------------------
(***************************************************************************)
(* Proof that the Suricata and Zeek PantherEvent methods never record an   *)
(* IP address as a domain name, for every set of events whose DNS name     *)
(* fields are names (NamesAssumption).                                     *)
(***************************************************************************)
EXTENDS DNSIndicators, TLAPS

\* The event stays one of Events, and once PantherEvent has returned, out
\* is what the method of the event's log type computes.
Inv ==
  /\ ev \in Events
  /\ done => \/ ev.format = "suricata" /\ out = SuricataPantherEvent(ev)
             \/ ev.format = "anomaly" /\ out = AnomalyPantherEvent(ev)
             \/ ev.format = "zeek" /\ out = ZeekPantherEvent(ev)

\* A value appended to the Event keeps the kind and the string it was
\* appended with.
LEMMA ValueIsKind ==
  ASSUME NEW k, NEW p, NEW i \in Value(k, p)
  PROVE  i.kind = k /\ i.data = p
  <1>1. ~(p = Nil \/ p = "")
    BY DEF Value
  <1>2. i = Ind(k, p)
    BY <1>1 DEF Value
  <1>3. QED
    BY <1>2 DEF Ind

\* A domain from one answer is its owner name, or the target of a CNAME,
\* MX or PTR record.
LEMMA AnswerDomains ==
  ASSUME NEW a, NEW i \in SuricataAnswer(a), i.kind = "domain"
  PROVE  \/ i.data = a.rrname
         \/ a.rrtype \in {"CNAME", "MX", "PTR"} /\ i.data = a.rdata
  <1>1. CASE a.rrtype \in {"A", "AAAA"}
    <2>1. i \in Value("ip", a.rdata) \cup Value("domain", a.rrname)
      BY <1>1 DEF SuricataAnswer
    <2>2. QED
      BY <2>1, ValueIsKind
  <1>2. CASE a.rrtype \in {"CNAME", "MX"}
    <2>1. i \in Value("domain", a.rrname) \cup Value("domain", a.rdata)
      BY <1>2 DEF SuricataAnswer
    <2>2. QED
      BY <1>2, <2>1, ValueIsKind
  <1>3. CASE a.rrtype = "PTR"
    <2>1. i \in Value("domain", a.rdata)
      BY <1>3 DEF SuricataAnswer
    <2>2. QED
      BY <1>3, <2>1, ValueIsKind
  <1>4. CASE a.rrtype = "TXT"
    <2>1. i \in Value("domain", a.rrname)
      BY <1>4 DEF SuricataAnswer
    <2>2. QED
      BY <2>1, ValueIsKind
  <1>5. CASE a.rrtype \notin {"A", "AAAA", "CNAME", "MX", "PTR", "TXT"}
    <2>1. SuricataAnswer(a) = {}
      BY <1>5 DEF SuricataAnswer
    <2>2. QED
      BY <2>1
  <1>6. QED
    BY <1>1, <1>2, <1>3, <1>4, <1>5

\* A domain from the grouped records is a CNAME or MX target.
LEMMA GroupedDomains ==
  ASSUME NEW g, NEW i \in SuricataGrouped(g), i.kind = "domain"
  PROVE  g # Nil /\ i.data \in g.CNAME \cup g.MX
  <1>1. g # Nil
    BY DEF SuricataGrouped
  <1>2. \/ \E r \in g.A \cup g.AAAA : i \in Value("ip", r)
        \/ \E r \in g.CNAME \cup g.MX : i \in Value("domain", r)
    BY <1>1 DEF SuricataGrouped
  <1>3. ~\E r \in g.A \cup g.AAAA : i \in Value("ip", r)
    BY ValueIsKind
  <1>4. PICK r \in g.CNAME \cup g.MX : i \in Value("domain", r)
    BY <1>2, <1>3
  <1>5. QED
    BY <1>1, <1>4, ValueIsKind

\* Every domain a Suricata event gives is one of its name fields.
LEMMA SuricataDomains ==
  ASSUME NEW e, e.format = "suricata", NEW i \in SuricataPantherEvent(e),
         i.kind = "domain"
  PROVE  i.data \in NameFields(e)
  <1>1. i \notin Value("ip", e.src_ip) \cup Value("ip", e.dest_ip)
    BY ValueIsKind
  <1>2. e.dns # Nil
    BY <1>1 DEF SuricataPantherEvent
  <1>3. \/ i \in Value("domain", e.dns.rrname)
        \/ i \in Value("ip", e.dns.rdata)
        \/ \E a \in e.dns.answers : i \in SuricataAnswer(a)
        \/ i \in SuricataGrouped(e.dns.grouped)
    <2>1. i \in Value("ip", e.src_ip) \cup Value("ip", e.dest_ip)
               \cup Value("domain", e.dns.rrname) \cup Value("ip", e.dns.rdata)
               \cup (UNION {SuricataAnswer(a) : a \in e.dns.answers})
               \cup SuricataGrouped(e.dns.grouped)
      BY <1>2 DEF SuricataPantherEvent
    <2>2. QED
      BY <1>1, <2>1
  <1>4. CASE i \in Value("domain", e.dns.rrname)
    BY <1>2, <1>4, ValueIsKind DEF NameFields
  <1>5. CASE i \in Value("ip", e.dns.rdata)
    BY <1>5, ValueIsKind
  <1>6. CASE \E a \in e.dns.answers : i \in SuricataAnswer(a)
    <2>1. PICK a \in e.dns.answers : i \in SuricataAnswer(a)
      BY <1>6
    <2>2. \/ i.data = a.rrname
          \/ a.rrtype \in {"CNAME", "MX", "PTR"} /\ i.data = a.rdata
      BY <2>1, AnswerDomains
    <2>3. QED
      BY <1>2, <2>2 DEF NameFields
  <1>7. CASE i \in SuricataGrouped(e.dns.grouped)
    <2>1. e.dns.grouped # Nil /\ i.data \in e.dns.grouped.CNAME \cup e.dns.grouped.MX
      BY <1>7, GroupedDomains
    <2>2. QED
      BY <1>2, <2>1 DEF NameFields
  <1>8. QED
    BY <1>3, <1>4, <1>5, <1>6, <1>7

\* An anomaly event gives addresses only.
LEMMA AnomalyDomains ==
  ASSUME NEW e, NEW i \in AnomalyPantherEvent(e)
  PROVE  i.kind = "ip"
  BY ValueIsKind DEF AnomalyPantherEvent

\* Zeek classifies every host string, so its domains are not addresses.
LEMMA ZeekDomains ==
  ASSUME NEW e, NEW i \in ZeekPantherEvent(e), i.kind = "domain"
  PROVE  i.data \notin Addrs
  <1>1. ASSUME NEW p, i \in HostnameP(p) PROVE i.data \notin Addrs
    BY <1>1, ValueIsKind DEF HostnameP
  <1>2. \E p : i \in HostnameP(p)
    BY DEF ZeekPantherEvent
  <1>3. QED
    BY <1>1, <1>2

\* Before PantherEvent is called the invariant holds.
LEMMA InitInv == Init => Inv
  BY DEF Init, Inv

\* A PantherEvent call, of either log type, preserves the invariant.
LEMMA NextInv == Inv /\ [Next]_vars => Inv'
  <1> SUFFICES ASSUME Inv, [Next]_vars PROVE Inv'
    OBVIOUS
  <1>1. CASE SuricataEvent
    BY <1>1 DEF SuricataEvent, Inv
  <1>2. CASE AnomalyEvent
    BY <1>2 DEF AnomalyEvent, Inv
  <1>3. CASE ZeekEvent
    BY <1>3 DEF ZeekEvent, Inv
  <1>4. CASE UNCHANGED vars
    BY <1>4 DEF vars, Inv
  <1>5. QED
    BY <1>1, <1>2, <1>3, <1>4 DEF Next

\* The invariant and the names assumption give DomainsAreNames.
LEMMA InvDomains == Inv => DomainsAreNames
  <1> SUFFICES ASSUME Inv, done, NEW i \in out, i.kind = "domain"
               PROVE  i.data \notin Addrs
    BY DEF DomainsAreNames
  <1>1. CASE ev.format = "suricata" /\ out = SuricataPantherEvent(ev)
    <2>1. i.data \in NameFields(ev)
      BY <1>1, SuricataDomains
    <2>2. QED
      BY <2>1, NamesAssumption DEF Inv
  <1>2. CASE ev.format = "anomaly" /\ out = AnomalyPantherEvent(ev)
    BY <1>2, AnomalyDomains
  <1>3. CASE ev.format = "zeek" /\ out = ZeekPantherEvent(ev)
    BY <1>3, ZeekDomains
  <1>4. QED
    BY <1>1, <1>2, <1>3 DEF Inv

-----------------------------------------------------------------------------
(* Every reported address is found.                                        *)

\* The indicators o contain every address event e reports.
Found(e, o) ==
  /\ \A h \in e.ends \cap Addrs : Ind("ip", h) \in o
  /\ \A r \in e.x.answers : r.type \in {"A", "AAAA"} => Ind("ip", r.rdata) \in o

\* An address is kept when appended, as any kind.
LEMMA AddressKept ==
  ASSUME NEW k, NEW p \in Addrs
  PROVE  Ind(k, p) \in Value(k, p)
  BY ReportsAssumption DEF Value

\* A host string that is an address is an IP for HostnameP.
LEMMA HostnameAddress ==
  ASSUME NEW p \in Addrs
  PROVE  Ind("ip", p) \in HostnameP(p)
  BY AddressKept DEF HostnameP

\* Suricata's DNS.PantherEvent finds the endpoints and every logged form of
\* an address answer.
LEMMA SuricataFound ==
  ASSUME NEW e \in Events, e.format = "suricata"
  PROVE  Found(e, SuricataPantherEvent(e))
  <1>1. ASSUME NEW h \in e.ends \cap Addrs
        PROVE  Ind("ip", h) \in SuricataPantherEvent(e)
    <2>1. h \in {e.src_ip, e.dest_ip}
      BY ReportsAssumption DEF EndpointFields
    <2>2. Ind("ip", h) \in Value("ip", e.src_ip) \cup Value("ip", e.dest_ip)
      BY <2>1, AddressKept
    <2>3. QED
      BY <2>2 DEF SuricataPantherEvent
  <1>2. ASSUME NEW r \in e.x.answers, r.type \in {"A", "AAAA"}
        PROVE  Ind("ip", r.rdata) \in SuricataPantherEvent(e)
    <2>1. r.rdata \in Addrs /\ Logged(e, r)
      BY <1>2, ReportsAssumption
    <2>2. e.dns # Nil
      BY <2>1 DEF Logged
    <2>3. Value("ip", e.dns.rdata) \cup (UNION {SuricataAnswer(a) : a \in e.dns.answers})
            \cup SuricataGrouped(e.dns.grouped) \subseteq SuricataPantherEvent(e)
      BY <2>2 DEF SuricataPantherEvent
    <2>4. CASE \E a \in e.dns.answers : a.rrtype = r.type /\ a.rdata = r.rdata
      <3>1. PICK a \in e.dns.answers : a.rrtype = r.type /\ a.rdata = r.rdata
        BY <2>4
      <3>2. Value("ip", a.rdata) \subseteq SuricataAnswer(a)
        BY <1>2, <3>1 DEF SuricataAnswer
      <3>3. QED
        BY <2>1, <2>3, <3>1, <3>2, AddressKept
    <2>5. CASE e.dns.grouped # Nil /\ r.rdata \in e.dns.grouped.A \cup e.dns.grouped.AAAA
      <3>1. Value("ip", r.rdata) \subseteq SuricataGrouped(e.dns.grouped)
        BY <2>5 DEF SuricataGrouped
      <3>2. QED
        BY <2>1, <2>3, <3>1, AddressKept
    <2>6. CASE e.dns.rdata = r.rdata
      BY <2>1, <2>3, <2>6, AddressKept
    <2>7. QED
      BY <2>1, <2>4, <2>5, <2>6 DEF Logged
  <1>3. QED
    BY <1>1, <1>2 DEF Found

\* Anomaly.PantherEvent finds the endpoints, and an anomaly event logs no
\* answer.
LEMMA AnomalyFound ==
  ASSUME NEW e \in Events, e.format = "anomaly"
  PROVE  Found(e, AnomalyPantherEvent(e))
  <1>1. ASSUME NEW h \in e.ends \cap Addrs
        PROVE  Ind("ip", h) \in AnomalyPantherEvent(e)
    <2>1. h \in {e.src_ip, e.dest_ip}
      BY ReportsAssumption DEF EndpointFields
    <2>2. QED
      BY <2>1, AddressKept DEF AnomalyPantherEvent
  <1>2. \A r \in e.x.answers : r.type \notin {"A", "AAAA"}
    BY ReportsAssumption DEF Logged
  <1>3. QED
    BY <1>1, <1>2 DEF Found

\* ZeekDNS.PantherEvent finds both ends and every address answer.
LEMMA ZeekFound ==
  ASSUME NEW e \in Events, e.format = "zeek"
  PROVE  Found(e, ZeekPantherEvent(e))
  <1>1. ASSUME NEW h \in e.ends \cap Addrs
        PROVE  Ind("ip", h) \in ZeekPantherEvent(e)
    <2>1. h \in {e.orig_h, e.resp_h}
      BY ReportsAssumption DEF EndpointFields
    <2>2. QED
      BY <2>1, HostnameAddress DEF ZeekPantherEvent
  <1>2. ASSUME NEW r \in e.x.answers, r.type \in {"A", "AAAA"}
        PROVE  Ind("ip", r.rdata) \in ZeekPantherEvent(e)
    <2>1. r.rdata \in Addrs /\ r.rdata \in e.answers
      BY <1>2, ReportsAssumption DEF Logged
    <2>2. QED
      BY <2>1, HostnameAddress DEF ZeekPantherEvent
  <1>3. QED
    BY <1>1, <1>2 DEF Found

\* The invariant and the reports assumption give ResolvedAddressesFound.
LEMMA InvResolved == Inv => ResolvedAddressesFound
  <1> SUFFICES ASSUME Inv, done PROVE Found(ev, out)
    BY DEF ResolvedAddressesFound, Found
  <1>1. CASE ev.format = "suricata" /\ out = SuricataPantherEvent(ev)
    BY <1>1, SuricataFound DEF Inv
  <1>2. CASE ev.format = "anomaly" /\ out = AnomalyPantherEvent(ev)
    BY <1>2, AnomalyFound DEF Inv
  <1>3. CASE ev.format = "zeek" /\ out = ZeekPantherEvent(ev)
    BY <1>3, ZeekFound DEF Inv
  <1>4. QED
    BY <1>1, <1>2, <1>3 DEF Inv

-----------------------------------------------------------------------------
\* Whatever events the parsers are handed, provided their DNS name fields
\* are names, none of DNS.PantherEvent and Anomaly.PantherEvent (Suricata)
\* and ZeekDNS.PantherEvent records an IP address as a domain name.
THEOREM NoAddressAsDomain == Spec => []DomainsAreNames
  BY InitInv, NextInv, InvDomains, PTL DEF Spec

\* Whatever events the parsers are handed, provided each logs what it
\* reports, every address it reports (the endpoints, the A and AAAA
\* answers in any of the tools' forms) is an IP indicator of the Event.
THEOREM AddressesFound == Spec => []ResolvedAddressesFound
  BY InitInv, NextInv, InvResolved, PTL DEF Spec

=============================================================================
