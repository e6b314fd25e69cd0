--------------------------- MODULE MCAWSIndicators --------------------------
(* The documents scanned: every object with one member whose value is a    *)
(* string, a number, null, a one-member object or a one-element array of   *)
(* those (arrays under "tags" hold tag objects, some with a number or null *)
(* value, under "ipv6Addresses" strings), and every object with two scalar *)
(* members, so that an error in the first member hides the second.        *)
EXTENDS AWSIndicators

Leaves == {Str(s) : s \in Strs} \cup {Num, Null}
Inner ==
  Leaves \cup {Obj(<<Pair(k, l)>>) : k \in Keys \ {"tags", "ipv6Addresses"},
                                      l \in Leaves}
TagElems ==
  {Obj(<<Pair("key", Str(a)), Pair("value", Str(b))>>) : a, b \in {"env", ""}}
    \cup {Obj(<<Pair("key", Str("env")), Pair("value", v)>>) : v \in {Num, Null}}
    \cup {Null}
ArraysFor(k) ==
  CASE k = "tags" -> {<<e>> : e \in TagElems}
    [] k = "ipv6Addresses" -> {<<Str("web")>>}
    [] OTHER -> {<<e>> : e \in Inner}
MCDocs ==
  UNION {{Obj(<<Pair(k, v)>>) : v \in Inner \cup {Arr(a) : a \in ArraysFor(k)}}
           : k \in Keys}
    \cup {Obj(<<Pair(k1, v1), Pair(k2, v2)>>) :
            k1, k2 \in Keys, v1 \in Leaves \cup {Arr(<<Str("web")>>)},
            v2 \in Leaves}

=============================================================================
