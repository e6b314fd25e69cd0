----------------------------- MODULE AWSExtract -----------------------------
(***************************************************************************)
(* AWSExtractor.Extract (awslogs/extractor.go lines 39-117) on one key and *)
(* value, and the rules of spec 4.2 it is checked against, with the        *)
(* strings and keys the rules tell apart.  No recursion: the walk of       *)
(* scanJSON, which recurses, is in AWSIndicators.                           *)
(***************************************************************************)
\* ----- Strings ----------------------------------------------------------
ArnInstance == "arn:aws:ec2:us-east-1:123456789012:instance/i-0abc"
ArnRole     == "arn:aws:iam::210987654321:role/admin"
ArnNoId     == "arn:aws:ec2:us-east-1:123456789012:instance/"
ArnBad      == "arn:aws:ec2"
\* String values: a bare instance id, a host name, three ARNs and one
\* "arn:" string that is not an ARN.
Strs == {"i-0def", "web", ArnInstance, ArnRole, ArnNoId, ArnBad}
\* strings.HasPrefix(s, "arn:").
ArnPrefixed == {ArnInstance, ArnRole, ArnNoId, ArnBad}
\* arn.Parse succeeds: all but ArnBad, which has too few sections.
ARNs == {ArnInstance, ArnRole, ArnNoId}
ARNParts ==
  [s \in ARNs |->
     CASE s = ArnInstance -> [account |-> "123456789012", resource |-> "instance/i-0abc"]
       [] s = ArnRole     -> [account |-> "210987654321", resource |-> "role/admin"]
       [] s = ArnNoId     -> [account |-> "123456789012", resource |-> "instance/"]]
\* strings.HasPrefix(s, "i-").
HasIPrefix(s) == s \in {"i-0def", "i-0abc"}
\* strings.HasPrefix(resource, "instance/"); the text after its last "/",
\* and whether that "/" is before len(resource)-2 (extractor.go 57-60).
IsInstanceResource(r) == r \in {"instance/i-0abc", "instance/"}
AfterLastSlash(r) == IF r = "instance/i-0abc" THEN "i-0abc" ELSE ""
SlashNotAtEnd(r) == r = "instance/i-0abc"

\* ----- Keys -------------------------------------------------------------
IPKeys == {"publicIp", "privateIpAddress", "ipAddressV4"}
DomainKeys == {"publicDnsName", "privateDnsName", "domain"}
\* strings.HasSuffix(key, "InstanceId") / "AccountId" ("instanceId" and
\* "accountId" do not end so: the test is case-sensitive).
EndsInstanceId(k) == k = "ec2InstanceId"
EndsAccountId(k) == k = "ownerAccountId"
Keys == {"instanceId", "accountId", "ec2InstanceId", "ownerAccountId",
         "publicIp", "domain", "role", "tags", "ipv6Addresses", "items"}

\* ----- JSON values and indicators ----------------------------------------
Str(s) == [t |-> "str", s |-> s]
Num == [t |-> "num"]
Null == [t |-> "null"]
Obj(kv) == [t |-> "obj", kv |-> kv]
Arr(el) == [t |-> "arr", el |-> el]
Pair(k, v) == [k |-> k, v |-> v]

Ind(kind, data) == [kind |-> kind, data |-> data]

\* The ARN branch of Extract (lines 44-67), as scanARN.ScanValues does it
\* for Visit (spec 4.2 rule 1): nothing when arn.Parse fails; else the
\* ARN, its account and, for an instance/<id> resource with <id>
\* beginning "i-", the id.
ArnValues(s) ==
  IF s \notin ARNs THEN {}
  ELSE LET p == ARNParts[s] IN
       {Ind("arn", s), Ind("account", p.account)}
         \cup IF IsInstanceResource(p.resource) /\ SlashNotAtEnd(p.resource)
                   /\ HasIPrefix(AfterLastSlash(p.resource))
                THEN {Ind("instance", AfterLastSlash(p.resource))} ELSE {}
-----------------------------------------------------------------------------
(* AWSExtractor.Extract on one key and value (gjson).                      *)

\* gjson's value.Str: the string, or "" for any other JSON value.
GStr(node) == IF node.t = "str" THEN node.s ELSE ""
\* value.Get("key").Exists() for a tag list element.
GHas(node, f) ==
  node.t = "obj" /\ \E i \in DOMAIN node.kv : node.kv[i].k = f
FieldNode(node, f) ==
  node.kv[CHOOSE i \in DOMAIN node.kv : node.kv[i].k = f].v

ElemSet(node) == {node.el[i] : i \in DOMAIN node.el}

\* Mutant: Extract with the key rules before the ARN rule, as Visit has them.
ExtractKeyFirst(key, node) ==
  LET v == GStr(node) IN
  IF key = "instanceId" \/ EndsInstanceId(key) THEN
     IF HasIPrefix(v) THEN {Ind("instance", v)} ELSE {}
  ELSE IF key = "accountId" \/ EndsAccountId(key) THEN {Ind("account", v)}
  ELSE IF v \in ArnPrefixed THEN ArnValues(v)
  ELSE CASE key \in IPKeys -> {Ind("ip", v)}
         [] key \in DomainKeys -> {Ind("domain", v)}
         [] OTHER -> {}

\* Extract (lines 39-117): the ARN rule first, with its early return; then
\* the id keys, then the exact keys of the switch.
Extract(key, node) ==
  LET v == GStr(node) IN
  IF v \in ArnPrefixed THEN ArnValues(v)
  ELSE IF key = "instanceId" \/ EndsInstanceId(key) THEN
     IF HasIPrefix(v) THEN {Ind("instance", v)} ELSE {}
  ELSE IF key = "accountId" \/ EndsAccountId(key) THEN {Ind("account", v)}
  ELSE CASE key = "tags" /\ node.t = "arr" ->
              {Ind("tag", <<GStr(FieldNode(e, "key")), GStr(FieldNode(e, "value"))>>) :
                 e \in {x \in ElemSet(node) : GHas(x, "key") /\ GHas(x, "value")}}
         [] key = "ipv6Addresses" /\ node.t = "arr" ->
              {Ind("ip", GStr(e)) : e \in ElemSet(node)}
         [] key \in IPKeys -> {Ind("ip", v)}
         [] key \in DomainKeys -> {Ind("domain", v)}
         [] OTHER -> {}

-----------------------------------------------------------------------------
(* The reference: spec 4.2, rules 1-5.                                     *)

\* Rule 2: which key rules match key and a string val; each one that
\* matches contributes its indicator.
KeyRules(key, val) ==
  [instance |-> (key = "instanceId" \/ EndsInstanceId(key)) /\ HasIPrefix(val),
   account  |-> key = "accountId" \/ EndsAccountId(key),
   ip       |-> key \in IPKeys,
   domain   |-> key \in DomainKeys]

\* Rules 1 and 2 for a string value: a value beginning "arn:" matches rule
\* 1, which alone classifies it (nothing when it does not parse);
\* otherwise every key rule that matches emits its indicator.
RuleString(key, val) ==
  IF val \in ArnPrefixed THEN ArnValues(val)
  ELSE {Ind(k, val) : k \in {k \in DOMAIN KeyRules(key, val) : KeyRules(key, val)[k]}}

\* Extract agrees with rules 1 and 2 on a string value under key.
ExtractAgrees(key, node) ==
  node.t = "str" => Extract(key, node) = RuleString(key, node.s)

=============================================================================
