---------------------------- MODULE AWSIndicators ---------------------------
(***************************************************************************)
(* The indicator extraction of awslogs/extractor.go, on small JSON         *)
(* documents:                                                              *)
(*   Visit    scanJSON's recursive walk (lines 137-195), as ReadObjectCB   *)
(*            drives it from ScanValues: the outcome and the Values found; *)
(*   Extract  AWSExtractor.Extract (lines 39-117) on one key and value;    *)
(*   Rules    the reference: the heuristic of spec 4.2, rules 1-5.         *)
(* Each step of the state machine scans one document, as one ScanValues    *)
(* call does.  Strings are abstracted to the few the rules tell apart; the *)
(* prefix and suffix tests and arn.Parse are given by what they return on  *)
(* them.                                                                   *)
(***************************************************************************)
EXTENDS Sequences, FiniteSets, AWSExtract

CONSTANT Docs   \* the JSON objects the scans are given

VARIABLES
  doc,        \* the document given to ScanValues
  scanned,    \* ScanValues has returned
  result,     \* its outcome: ok, and the Values Visit found
  extracted   \* what Extract finds on the document's members
vars == <<doc, scanned, result, extracted>>


\* Result of a walk: whether the iterator is still error-free, and the
\* Values appended.
Ok(vals) == [ok |-> TRUE, vals |-> vals]
Fail == [ok |-> FALSE, vals |-> {}]
Then(r, f) == IF r.ok /\ f.ok THEN Ok(r.vals \cup f.vals) ELSE Fail

-----------------------------------------------------------------------------
(* scanJSON.Visit                                                          *)

\* A string value under key (lines 147-165): key rules first, the ARN
\* prefix last.
VisitString(key, val) ==
  CASE key = "instanceId"  -> {Ind("instance", val)}
    [] key = "accountId"   -> {Ind("account", val)}
    [] key \in IPKeys      -> {Ind("ip", val)}
    [] key \in DomainKeys  -> {Ind("domain", val)}
    [] OTHER ->
         IF EndsInstanceId(key) THEN {Ind("instance", val)}
         ELSE IF EndsAccountId(key) THEN {Ind("account", val)}
         ELSE IF val \in ArnPrefixed THEN ArnValues(val) ELSE {}

\* iter.ReadVal(&tag) for one element of a "tags" array (lines 170-177):
\* an object decodes into {Key, Value}: a string field is read, a null or
\* missing one stays "", any other value of "key" or "value" is a decode
\* error (ReadString expects a string or null); null leaves both "";
\* anything else is a decode error.
FieldDecodes(kv, f) ==
  \A i \in DOMAIN kv : kv[i].k = f => kv[i].v.t \in {"str", "null"}
FieldOf(kv, f) ==
  IF \E i \in DOMAIN kv : kv[i].k = f /\ kv[i].v.t = "str"
    THEN kv[CHOOSE i \in DOMAIN kv : kv[i].k = f].v.s ELSE ""
ReadTag(node) ==
  CASE node.t = "obj" ->
         IF FieldDecodes(node.kv, "key") /\ FieldDecodes(node.kv, "value")
           THEN LET k == FieldOf(node.kv, "key")
                    v == FieldOf(node.kv, "value") IN
                Ok(IF k # "" /\ v # "" THEN {Ind("tag", <<k, v>>)} ELSE {})
           ELSE Fail
    [] node.t = "null" -> Ok({})
    [] OTHER -> Fail

\* iter.ReadString for one element of "ipv6Addresses" (lines 180-183).
ReadAddr(node) ==
  CASE node.t = "str" -> Ok({Ind("ip", node.s)})
    [] node.t = "null" -> Ok({Ind("ip", "")})
    [] OTHER -> Fail

\* The "tags" loop (lines 169-178): ReadTag per element while no error.
RECURSIVE ReadTags(_)
ReadTags(el) ==
  IF el = <<>> THEN Ok({})
  ELSE LET r == ReadTag(Head(el)) IN
       IF r.ok THEN Then(r, ReadTags(Tail(el))) ELSE Fail

\* The "ipv6Addresses" loop (lines 180-183).
RECURSIVE ReadAddrs(_)
ReadAddrs(el) ==
  IF el = <<>> THEN Ok({})
  ELSE LET r == ReadAddr(Head(el)) IN
       IF r.ok THEN Then(r, ReadAddrs(Tail(el))) ELSE Fail

RECURSIVE Visit(_, _), ReadObjectCB(_), VisitPairs(_), ReadObjects(_)

\* iter.ReadObjectCB(js.Visit): an object's pairs in order, stopping at the
\* first false; null reads as an empty object; anything else is an error.
ReadObjectCB(node) ==
  CASE node.t = "obj"  -> VisitPairs(node.kv)
    [] node.t = "null" -> Ok({})
    [] OTHER           -> Fail

VisitPairs(kv) ==
  IF kv = <<>> THEN Ok({})
  ELSE LET r == Visit(Head(kv).v, Head(kv).k) IN
       IF r.ok THEN Then(r, VisitPairs(Tail(kv))) ELSE Fail

\* Any other array (lines 185-189): ReadObjectCB(js.Visit) per element,
\* returning false at the first failure.
ReadObjects(el) ==
  IF el = <<>> THEN Ok({})
  ELSE LET r == ReadObjectCB(Head(el)) IN
       IF r.ok THEN Then(r, ReadObjects(Tail(el))) ELSE Fail

\* Mutant: other arrays are skipped instead of walked.
VisitSkipArrays(node, key) ==
  CASE node.t = "obj" -> ReadObjectCB(node)
    [] node.t = "str" -> Ok(VisitString(key, node.s))
    [] node.t = "arr" /\ key = "tags" -> ReadTags(node.el)
    [] node.t = "arr" /\ key = "ipv6Addresses" -> ReadAddrs(node.el)
    [] OTHER -> Ok({})

\* Visit (lines 137-195): the value under key.
Visit(node, key) ==
  CASE node.t = "obj" -> ReadObjectCB(node)
    [] node.t = "str" -> Ok(VisitString(key, node.s))
    [] node.t = "arr" /\ key = "tags" -> ReadTags(node.el)
    [] node.t = "arr" /\ key = "ipv6Addresses" -> ReadAddrs(node.el)
    [] node.t = "arr" -> ReadObjects(node.el)
    [] OTHER -> Ok({})


\* The keys a key rule claims, whose string values rule 5 does not inspect
\* in the walk of scanJSON.
ClaimedKeys(key) ==
  key \in {"instanceId", "accountId"} \cup IPKeys \cup DomainKeys
    \/ EndsInstanceId(key) \/ EndsAccountId(key)

\* Rules 3-5: the ARNs a walk must reach: string values under unclaimed
\* keys, inside objects at any depth and inside the object elements of
\* arrays other than tags and ipv6Addresses.
RECURSIVE ReachableARNs(_, _)
ReachableARNs(node, key) ==
  CASE node.t = "str" ->
         IF node.s \in ARNs /\ ~ClaimedKeys(key) THEN {node.s} ELSE {}
    [] node.t = "obj" ->
         UNION {ReachableARNs(node.kv[i].v, node.kv[i].k) : i \in DOMAIN node.kv}
    [] node.t = "arr" /\ key \notin {"tags", "ipv6Addresses"} ->
         UNION {ReachableARNs(e, key) : e \in {x \in ElemSet(node) : x.t = "obj"}}
    [] OTHER -> {}

-----------------------------------------------------------------------------
(* One ScanValues call on a document of Docs, and Extract applied to its  *)
(* members.  Calls on different documents do not interact (the scanner's   *)
(* state between calls is the subject of Scanner), so a behaviour is one   *)
(* call, which ends the behaviour.                                         *)

Init ==
  /\ doc \in Docs
  /\ scanned = FALSE
  /\ result = Ok({})
  /\ extracted = {}

\* ScanValues' walk: iter.ReadObjectCB(js.Visit) (line 212); and Extract
\* applied to each member, as the AWS parsers call it.
Scan ==
  /\ ~scanned
  /\ scanned' = TRUE
  /\ result' = ReadObjectCB(doc)
  /\ extracted' = UNION {Extract(doc.kv[i].k, doc.kv[i].v) : i \in DOMAIN doc.kv}
  /\ UNCHANGED doc

Next == Scan

Spec == Init /\ [][Next]_vars

-----------------------------------------------------------------------------
(* Properties.                                                             *)

\* Members of the document, as key and value.
Members == {doc.kv[i] : i \in DOMAIN doc.kv}

\* Extract follows rules 1 and 2 on every string member: an ARN yields the
\* ARN, its account and its instance id and nothing else, whatever the key;
\* instance ids need the "i-" prefix.
ExtractFollowsRules ==
  scanned => \A m \in Members : ExtractAgrees(m.k, m.v)

\* Rule 5: when the walk succeeds it has found every ARN it must reach, at
\* any depth of objects and arrays of objects.
NestedARNsFound ==
  scanned /\ result.ok =>
    \A s \in ReachableARNs(doc, "") : ArnValues(s) \subseteq result.vals

\* Spec 4.2 rule 3: an array of scalars under any other key is walked and
\* its non-object elements skipped: a well-formed document scans.
WellFormedDocsScan == scanned => result.ok

\* Spec 4.2 rules 1-3 and section 8 (ARN precedence), on every value the
\* walk or Extract emits: an ARN is classified by the ARN rule only, never
\* emitted whole as an account id, address or domain; an instance id
\* begins with "i-"; a tag has a non-empty key and value.
RuleAllows(x) ==
  /\ x.kind \in {"account", "ip", "domain"} => x.data \notin ARNs
  /\ x.kind = "instance" => HasIPrefix(x.data)
  /\ x.kind = "tag" => x.data[1] # "" /\ x.data[2] # ""
EmitsFollowRules ==
  scanned => \A x \in result.vals \cup extracted : RuleAllows(x)

=============================================================================
