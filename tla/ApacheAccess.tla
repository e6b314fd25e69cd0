---------------------------- MODULE ApacheAccess ----------------------------
(***************************************************************************)
(* apachelogs/access_combined.go: AccessCombinedParser.Parse of one line   *)
(* Apache writes with the combined LogFormat (line 36).                    *)
(* A written line is the sequence of its nine fields, each a record: how   *)
(* it is delimited (a bare token, [bracketed], "quoted") and its text.     *)
(* The fields are delimited, so the anchored pattern buildRx builds        *)
(* matches the line exactly when every field matches its own sub-pattern,  *)
(* and the groups are the fields: the regular expression is modelled by    *)
(* that per-field test.  Texts are a few strings; the character classes    *)
(* are given by what they say of them.  AccessCommonLog.SetRow, stripQuotes *)
(* nonEmptyLogField and the PantherLog appenders are outside this source    *)
(* tree and modelled from spec 4.4.                                        *)
(***************************************************************************)
EXTENDS Naturals, Sequences

CONSTANTS
  Requests,  \* what Apache logs: host, user, request line, status, size,
             \* Referer and User-Agent (Absent when the header is missing)
  Addrs,     \* the host texts that parse as IP addresses
  Absent,    \* a header the request did not send
  Nil        \* a nil *string

\* %h is an address or a resolved name, never "-" and never nil; and no
\* client sends a header whose value is "-", which Apache writes exactly
\* as it writes a missing header.
ASSUME RequestsAssumption ==
  \A r \in Requests : r.host \notin {"-", Nil} /\ "-" \notin {r.referer, r.agent}

VARIABLES
  req,     \* the request whose log line is parsed
  result,  \* Parse's outcome: ok, and the fields it set
  vals,    \* the indicator values updatePantherFields appended
  done     \* Parse has returned
vars == <<req, result, vals, done>>

\* Texts containing white space, and digit strings.
Spaced == {"GET / HTTP/1.1", "10/Oct/2000:13:55:36 -0700", "Mozilla/5.0 (X11)"}
Digits3 == {"200", "408"}
Digits == Digits3 \cup {"512"}

Token(s) == [kind |-> "token", s |-> s]
Bracketed(s) == [kind |-> "bracketed", s |-> s]
Quoted(s) == [kind |-> "quoted", s |-> s]

\* LogFormat "%h %l %u %t \"%r\" %>s %b \"%{Referer}i\" \"%{User-agent}i\""
\* (line 36): Apache writes "-" for a missing value and the header's text,
\* possibly empty, for a sent one.
HeaderText(h) == IF h = Absent THEN "-" ELSE h
LogLine(r) ==
  << Token(r.host), Token("-"), Token(r.user),
     Bracketed("10/Oct/2000:13:55:36 -0700"), Quoted(r.request),
     Token(r.status), Token(r.size),
     Quoted(HeaderText(r.referer)), Quoted(HeaderText(r.agent)) >>

-----------------------------------------------------------------------------
(* The pattern                                                             *)

\* rxAccessCombined's fields (lines 97-107).
rxAccessCombined ==
  << "unquoted", "unquoted", "unquoted", "brackets", "quoted",
     "statusCode", "size", "quoted", "quoted" >>

\* The sub-patterns (lines 109-115) on one field's written form:
\*   [^\s]+  \[[^\]]+\]  "[^"]+"  \d{3}  -|\d+
Accepts(rx, f) ==
  CASE rx = "unquoted"   -> f.s \notin Spaced /\ (f.kind = "token" => f.s # "")
    [] rx = "brackets"   -> f.kind = "bracketed" /\ f.s # ""
    [] rx = "quoted"     -> f.kind = "quoted" /\ f.s # ""
    [] rx = "statusCode" -> f.kind = "token" /\ f.s \in Digits3
    [] rx = "size"       -> f.kind = "token" /\ (f.s = "-" \/ f.s \in Digits)

\* FindStringSubmatch of buildRx's anchored pattern (lines 117-123): the
\* submatches (match[1:]) when every field matches, else no match.
FindStringSubmatch(line) ==
  IF Len(line) = Len(rxAccessCombined)
       /\ \A i \in 1..Len(line) : Accepts(rxAccessCombined[i], line[i])
    THEN line ELSE <<>>

-----------------------------------------------------------------------------
(* Setting the fields                                                      *)

numFieldsAccessCombined == 9
numFieldsAccessCommon == 7

Err == [ok |-> FALSE]

\* stripQuotes and nonEmptyLogField (spec 4.4): quotes removed, an empty
\* or "-" field absent.
NonEmptyLogField(f) == IF f.s \in {"", "-"} THEN Nil ELSE f.s

\* AccessCommonLog.SetRow on the first seven fields (spec 4.4): assigned by
\* position; the only field an indicator is drawn from is the remote host.
CommonSetRow(common) ==
  [ok |-> TRUE, host |-> NonEmptyLogField(common[1])]

\* Mutant: referer and user agent read from each other's index.
SetRowSwapped(row) ==
  IF Len(row) = numFieldsAccessCombined
    THEN LET c == CommonSetRow(SubSeq(row, 1, numFieldsAccessCommon)) IN
         IF ~c.ok THEN Err
         ELSE [ok |-> TRUE, host |-> c.host,
               referer |-> NonEmptyLogField(row[9]),
               agent |-> NonEmptyLogField(row[8])]
    ELSE Err

\* AccessCombinedLog.SetRow (lines 58-71): nine fields, the common seven
\* first, then Referer (index 7) and User-Agent (index 8).
SetRow(row) ==
  IF Len(row) = numFieldsAccessCombined
    THEN LET c == CommonSetRow(SubSeq(row, 1, numFieldsAccessCommon)) IN
         IF ~c.ok THEN Err
         ELSE [ok |-> TRUE, host |-> c.host,
               referer |-> NonEmptyLogField(row[8]),
               agent |-> NonEmptyLogField(row[9])]
    ELSE Err

\* AccessCombinedLog.ParseString (lines 51-57).
ParseString(line) ==
  LET match == FindStringSubmatch(line) IN
  IF match # <<>> THEN SetRow(match) ELSE Err

\* PantherLog.AppendAnyIPAddressPtr: appends and reports TRUE when the
\* value is set and parses as an IP address (spec 4.4).
AppendAnyIPAddressPtr(h) == IF h # Nil /\ h \in Addrs THEN {[kind |-> "ip", data |-> h]} ELSE {}

\* Mutant: no fallback to a domain name.
updatePantherFieldsNoFallback(rec) == AppendAnyIPAddressPtr(rec.host)

\* updatePantherFields (lines 125-131): the remote host as an IP address,
\* or, when it is not one, as a domain name (resolved host names).
updatePantherFields(rec) ==
  IF AppendAnyIPAddressPtr(rec.host) # {} THEN AppendAnyIPAddressPtr(rec.host)
  ELSE IF rec.host # Nil THEN {[kind |-> "domain", data |-> rec.host]} ELSE {}

-----------------------------------------------------------------------------

Init ==
  /\ req \in Requests
  /\ result = [ok |-> TRUE]
  /\ vals = {}
  /\ done = FALSE

\* AccessCombinedParser.Parse (lines 86-93): ParseString, and on success
\* updatePantherFields.
Parse ==
  /\ ~done
  /\ result' = ParseString(LogLine(req))
  /\ vals' = IF result'.ok THEN updatePantherFields(result') ELSE {}
  /\ done' = TRUE
  /\ UNCHANGED req

Next == Parse

Spec == Init /\ [][Next]_vars

-----------------------------------------------------------------------------
(* Properties                                                              *)

\* What a header's value should become: absent when not sent.
Sent(h) == IF h = Absent THEN Nil ELSE h

\* A parsed line records the Referer and User-Agent the request sent, each
\* from its own field, quotes removed and "-" read as absent (spec 4.4).
FieldsRoundTrip ==
  done /\ result.ok =>
    /\ result.referer = Sent(req.referer)
    /\ result.agent = Sent(req.agent)

\* The remote host gives one indicator: an IP address when it parses as
\* one, otherwise a domain name (spec 4.4, resolved access logs).
RemoteHostIndicator ==
  done /\ result.ok =>
    vals = {[kind |-> IF req.host \in Addrs THEN "ip" ELSE "domain",
             data |-> req.host]}

\* Spec 4.4: every line Apache writes in the combined format parses, with
\* empty or "-" placeholder fields read as absent.
WrittenLinesParse == done => result.ok

=============================================================================
