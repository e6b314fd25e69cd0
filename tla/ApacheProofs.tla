---------------------------- MODULE ApacheProofs ----------------------------
(***************************************************************************)
(* Proofs that AccessCombinedParser.Parse, whenever it accepts the line    *)
(* Apache wrote for a request, reads back the request's Referer and        *)
(* User-Agent and derives the one remote-host indicator, for every set of  *)
(* requests that satisfies RequestsAssumption.                             *)
(***************************************************************************)
EXTENDS ApacheAccess, TLAPS

\* The request stays one of Requests, and once Parse has returned, result
\* and vals are what ParseString and updatePantherFields compute.
Inv ==
  /\ req \in Requests
  /\ done => /\ result = ParseString(LogLine(req))
             /\ vals = IF result.ok THEN updatePantherFields(result) ELSE {}

\* A line ParseString accepts matched the pattern field by field, and the
\* record is what SetRow assigns from the line itself.
LEMMA AcceptedLine ==
  ASSUME NEW r, ParseString(LogLine(r)).ok
  PROVE  /\ \A i \in 1..9 : Accepts(rxAccessCombined[i], LogLine(r)[i])
         /\ ParseString(LogLine(r)) = SetRow(LogLine(r))
  <1> DEFINE line == LogLine(r)
  <1>1. Len(line) = 9 /\ line # <<>>
    BY DEF LogLine
  <1>2. FindStringSubmatch(line) # <<>>
    BY DEF ParseString, Err
  <1>3. /\ Len(line) = Len(rxAccessCombined)
        /\ \A i \in 1..Len(line) : Accepts(rxAccessCombined[i], line[i])
    BY <1>2 DEF FindStringSubmatch
  <1>4. FindStringSubmatch(line) = line
    BY <1>3 DEF FindStringSubmatch
  <1>5. QED
    BY <1>1, <1>3, <1>4 DEF ParseString

\* SetRow on a written line: the host from the first field, Referer and
\* User-Agent from the eighth and ninth.
LEMMA SetRowOfLine ==
  ASSUME NEW r
  PROVE  SetRow(LogLine(r)) =
           [ok |-> TRUE, host |-> NonEmptyLogField(Token(r.host)),
            referer |-> NonEmptyLogField(Quoted(HeaderText(r.referer))),
            agent |-> NonEmptyLogField(Quoted(HeaderText(r.agent)))]
  <1> DEFINE line == LogLine(r)
  <1>1. Len(line) = numFieldsAccessCombined
    BY DEF LogLine, numFieldsAccessCombined
  <1>2. SubSeq(line, 1, numFieldsAccessCommon)[1] = Token(r.host)
    BY DEF LogLine, numFieldsAccessCommon
  <1>3. CommonSetRow(SubSeq(line, 1, numFieldsAccessCommon))
          = [ok |-> TRUE, host |-> NonEmptyLogField(Token(r.host))]
    BY <1>2 DEF CommonSetRow
  <1>4. line[8] = Quoted(HeaderText(r.referer)) /\ line[9] = Quoted(HeaderText(r.agent))
    BY DEF LogLine
  <1>5. SetRow(line) =
          [ok |-> TRUE,
           host |-> CommonSetRow(SubSeq(line, 1, numFieldsAccessCommon)).host,
           referer |-> NonEmptyLogField(line[8]),
           agent |-> NonEmptyLogField(line[9])]
    BY <1>1, <1>3 DEF SetRow
  <1>6. CommonSetRow(SubSeq(line, 1, numFieldsAccessCommon)).host
          = NonEmptyLogField(Token(r.host))
    BY <1>3
  <1>7. QED
    BY <1>4, <1>5, <1>6

\* A header that passed rxQuoted comes back as the request sent it.
LEMMA HeaderRoundTrip ==
  ASSUME NEW h, h # "-", Accepts("quoted", Quoted(HeaderText(h)))
  PROVE  NonEmptyLogField(Quoted(HeaderText(h))) = Sent(h)
  <1>1. HeaderText(h) # ""
    BY DEF Accepts, Quoted
  <1>2. CASE h = Absent
    BY <1>2 DEF HeaderText, NonEmptyLogField, Quoted, Sent
  <1>3. CASE h # Absent
    BY <1>1, <1>3 DEF HeaderText, NonEmptyLogField, Quoted, Sent
  <1>4. QED
    BY <1>2, <1>3

\* The parsed record of an accepted line: the host as written, and the
\* headers as sent.
LEMMA ParsedRecord ==
  ASSUME NEW r \in Requests, ParseString(LogLine(r)).ok
  PROVE  /\ ParseString(LogLine(r)).host = r.host
         /\ ParseString(LogLine(r)).referer = Sent(r.referer)
         /\ ParseString(LogLine(r)).agent = Sent(r.agent)
  <1>1. r.host \notin {"-", Nil} /\ "-" \notin {r.referer, r.agent}
    BY RequestsAssumption
  <1>2. /\ Accepts(rxAccessCombined[1], LogLine(r)[1])
        /\ Accepts(rxAccessCombined[8], LogLine(r)[8])
        /\ Accepts(rxAccessCombined[9], LogLine(r)[9])
    BY AcceptedLine
  <1>3. /\ Accepts("unquoted", Token(r.host))
        /\ Accepts("quoted", Quoted(HeaderText(r.referer)))
        /\ Accepts("quoted", Quoted(HeaderText(r.agent)))
    BY <1>2 DEF rxAccessCombined, LogLine
  <1>4. r.host # ""
    BY <1>3 DEF Accepts, Token
  <1>5. NonEmptyLogField(Token(r.host)) = r.host
    BY <1>1, <1>4 DEF NonEmptyLogField, Token
  <1>6. /\ NonEmptyLogField(Quoted(HeaderText(r.referer))) = Sent(r.referer)
        /\ NonEmptyLogField(Quoted(HeaderText(r.agent))) = Sent(r.agent)
    BY <1>1, <1>3, HeaderRoundTrip
  <1>7. QED
    BY <1>5, <1>6, AcceptedLine, SetRowOfLine

\* updatePantherFields on a set host: an IP if it is an address, else a
\* domain.
LEMMA HostIndicator ==
  ASSUME NEW rec, rec.host # Nil
  PROVE  updatePantherFields(rec) =
           {[kind |-> IF rec.host \in Addrs THEN "ip" ELSE "domain",
             data |-> rec.host]}
  <1>1. CASE rec.host \in Addrs
    BY <1>1 DEF updatePantherFields, AppendAnyIPAddressPtr
  <1>2. CASE rec.host \notin Addrs
    BY <1>2 DEF updatePantherFields, AppendAnyIPAddressPtr
  <1>3. QED
    BY <1>1, <1>2

\* Before Parse is called the invariant holds.
LEMMA InitInv == Init => Inv
  BY DEF Init, Inv

\* Parse preserves the invariant.
LEMMA NextInv == Inv /\ [Next]_vars => Inv'
  <1> SUFFICES ASSUME Inv, [Next]_vars PROVE Inv'
    OBVIOUS
  <1>1. CASE Parse
    BY <1>1 DEF Parse, Inv
  <1>2. CASE UNCHANGED vars
    BY <1>2 DEF vars, Inv
  <1>3. QED
    BY <1>1, <1>2 DEF Next

\* The invariant gives both properties.
LEMMA InvProperties == Inv => FieldsRoundTrip /\ RemoteHostIndicator
  <1> SUFFICES ASSUME Inv, done, result.ok
               PROVE  FieldsRoundTrip /\ RemoteHostIndicator
    BY DEF FieldsRoundTrip, RemoteHostIndicator
  <1>1. result = ParseString(LogLine(req)) /\ req \in Requests
    BY DEF Inv
  <1>2. /\ result.host = req.host
        /\ result.referer = Sent(req.referer)
        /\ result.agent = Sent(req.agent)
    BY <1>1, ParsedRecord
  <1>3. req.host # Nil
    BY <1>1, RequestsAssumption
  <1>4. vals = updatePantherFields(result)
    BY DEF Inv
  <1>5. RemoteHostIndicator
    BY <1>2, <1>3, <1>4, HostIndicator DEF RemoteHostIndicator
  <1>6. QED
    BY <1>2, <1>5 DEF FieldsRoundTrip

-----------------------------------------------------------------------------
\* Every line Parse accepts gives back the Referer and User-Agent the
\* request sent, each from its own field (AccessCombinedLog.SetRow).
THEOREM FieldsRoundTripHolds == Spec => []FieldsRoundTrip
  BY InitInv, NextInv, InvProperties, PTL DEF Spec

\* Every line Parse accepts gives exactly one remote-host indicator, an IP
\* when the host is an address and a domain otherwise (updatePantherFields).
THEOREM RemoteHostIndicatorHolds == Spec => []RemoteHostIndicator
  BY InitInv, NextInv, InvProperties, PTL DEF Spec

=============================================================================
