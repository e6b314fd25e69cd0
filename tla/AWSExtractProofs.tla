-------------------------- MODULE AWSExtractProofs --------------------------
(***************************************************************************)
(* Proof that AWSExtractor.Extract, on a string value, emits what rules 1  *)
(* and 2 of spec 4.2 say, for every key and every string value: its early  *)
(* returns (the ARN rule first, then the id keys) lose no indicator that   *)
(* a matching key rule would contribute.                                   *)
(***************************************************************************)
EXTENDS AWSExtract, TLAPS

\* The id, account, ip and domain keys are distinct strings, so at most one
\* key rule matches a key.
LEMMA KeyRulesDisjoint ==
  ASSUME NEW key
  PROVE  /\ (key = "instanceId" \/ EndsInstanceId(key)) =>
              ~(key = "accountId" \/ EndsAccountId(key)) /\ key \notin IPKeys \cup DomainKeys
         /\ (key = "accountId" \/ EndsAccountId(key)) => key \notin IPKeys \cup DomainKeys
         /\ key \in IPKeys => key \notin DomainKeys
  BY DEF EndsInstanceId, EndsAccountId, IPKeys, DomainKeys

\* The key rules that match, as a set of indicator kinds.
Matched(key, val) == {k \in DOMAIN KeyRules(key, val) : KeyRules(key, val)[k]}

LEMMA MatchedKinds ==
  ASSUME NEW key, NEW val
  PROVE  Matched(key, val) =
           {k \in {"instance", "account", "ip", "domain"} :
              \/ k = "instance" /\ (key = "instanceId" \/ EndsInstanceId(key)) /\ HasIPrefix(val)
              \/ k = "account" /\ (key = "accountId" \/ EndsAccountId(key))
              \/ k = "ip" /\ key \in IPKeys
              \/ k = "domain" /\ key \in DomainKeys}
  <1>1. DOMAIN KeyRules(key, val) = {"instance", "account", "ip", "domain"}
    BY DEF KeyRules
  <1>2. /\ KeyRules(key, val)["instance"] =
             ((key = "instanceId" \/ EndsInstanceId(key)) /\ HasIPrefix(val))
        /\ KeyRules(key, val)["account"] = (key = "accountId" \/ EndsAccountId(key))
        /\ KeyRules(key, val)["ip"] = (key \in IPKeys)
        /\ KeyRules(key, val)["domain"] = (key \in DomainKeys)
    BY DEF KeyRules
  <1>3. QED
    BY <1>1, <1>2, Zenon DEF Matched

\* Extract on a string value without the "arn:" prefix: the key rule that
\* matches, or nothing.
LEMMA KeyBranch ==
  ASSUME NEW key, NEW s, s \notin ArnPrefixed
  PROVE  Extract(key, Str(s)) = {Ind(k, s) : k \in Matched(key, s)}
  <1> DEFINE id == key = "instanceId" \/ EndsInstanceId(key)
             acct == key = "accountId" \/ EndsAccountId(key)
  <1>1. Extract(key, Str(s)) =
          IF id THEN IF HasIPrefix(s) THEN {Ind("instance", s)} ELSE {}
          ELSE IF acct THEN {Ind("account", s)}
          ELSE IF key \in IPKeys THEN {Ind("ip", s)}
          ELSE IF key \in DomainKeys THEN {Ind("domain", s)}
          ELSE {}
    <2>1. GStr(Str(s)) = s /\ Str(s).t # "arr"
      BY DEF GStr, Str
    <2>2. CASE id \/ acct
      BY <2>1, <2>2 DEF Extract
    <2>3. CASE ~id /\ ~acct /\ key \in IPKeys
      <3>1. key # "tags" /\ key # "ipv6Addresses" /\ key \notin DomainKeys
        BY <2>3 DEF IPKeys, DomainKeys
      <3>2. QED
        BY <2>1, <2>3, <3>1, Zenon DEF Extract
    <2>4. CASE ~id /\ ~acct /\ key \notin IPKeys /\ key \in DomainKeys
      <3>1. key # "tags" /\ key # "ipv6Addresses"
        BY <2>4 DEF DomainKeys
      <3>2. QED
        BY <2>1, <2>4, <3>1, Zenon DEF Extract
    <2>5. CASE ~id /\ ~acct /\ key \notin IPKeys /\ key \notin DomainKeys
      BY <2>1, <2>5 DEF Extract
    <2>6. QED
      BY <2>2, <2>3, <2>4, <2>5
  <1>2. CASE id
    <2>1. Matched(key, s) = IF HasIPrefix(s) THEN {"instance"} ELSE {}
      BY <1>2, KeyRulesDisjoint, MatchedKinds
    <2>2. QED
      BY <1>1, <1>2, <2>1
  <1>3. CASE ~id /\ acct
    <2>1. Matched(key, s) = {"account"}
      BY <1>3, KeyRulesDisjoint, MatchedKinds
    <2>2. QED
      BY <1>1, <1>3, <2>1
  <1>4. CASE ~id /\ ~acct /\ key \in IPKeys
    <2>1. Matched(key, s) = {"ip"}
      BY <1>4, KeyRulesDisjoint, MatchedKinds
    <2>2. QED
      BY <1>1, <1>4, <2>1
  <1>5. CASE ~id /\ ~acct /\ key \notin IPKeys /\ key \in DomainKeys
    <2>1. Matched(key, s) = {"domain"}
      BY <1>5, MatchedKinds
    <2>2. QED
      BY <1>1, <1>5, <2>1
  <1>6. CASE ~id /\ ~acct /\ key \notin IPKeys /\ key \notin DomainKeys
    <2>1. Matched(key, s) = {}
      BY <1>6, MatchedKinds
    <2>2. QED
      BY <1>1, <1>6, <2>1
  <1>7. QED
    BY <1>2, <1>3, <1>4, <1>5, <1>6

-----------------------------------------------------------------------------
\* For every key and every string value, Extract emits exactly what rules
\* 1 and 2 of spec 4.2 give (AWSExtractor.Extract, extractor.go 39-117):
\* the ARN rule alone for an ARN, else the indicator of each matching key
\* rule; the property the aws_indicator_rules run checks on its documents.
THEOREM ExtractMatchesRules == \A key, node : ExtractAgrees(key, node)
  <1> SUFFICES ASSUME NEW key, NEW node, node.t = "str"
               PROVE  Extract(key, node) = RuleString(key, node.s)
    BY DEF ExtractAgrees
  <1> DEFINE s == node.s
  <1>1. Extract(key, node) = Extract(key, Str(s))
    BY DEF Extract, GStr, Str
  <1>2. CASE s \in ArnPrefixed
    BY <1>1, <1>2 DEF Extract, GStr, Str, RuleString
  <1>3. CASE s \notin ArnPrefixed
    BY <1>1, <1>3, KeyBranch DEF RuleString, Matched
  <1>4. QED
    BY <1>2, <1>3

=============================================================================
