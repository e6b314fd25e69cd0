# Formal models of the Panther log processor

TLA+ models of parts of `src/` in this repository. Each model is checked
with TLC on small instances. The central properties are also proved with
TLAPS for every value of the constants.

## The system and its parts

| Part | Source | State and operations | Interacts with |
|---|---|---|---|
| Log-type registry | `parsers/registry.go` (and the copy in `parsers/parsers.go`) | a `map[string]*LogType` under a `sync.RWMutex`; `Register`, `MustRegister`, `Get`, `MustGet`, `NewParser`, `AvailableLogTypes` | every parser package registers its LogTypes at start-up (`MustRegister` in `init`); the log processor and `registry/registry.go` look them up concurrently |
| AWS value extraction | `parsers/awslogs/extractor.go` | `AWSExtractor.Extract` (gjson, one key/value at a time); `scanJSON`: a pooled `jsoniter.Iterator`, the accumulated `Values`, `ScanValues`, `Visit` (recursive), `Close` | called by the AWS parsers for every event |
| Suricata / Zeek events | `suricatalogs/dns.go`, `suricatalogs/anomaly.go`, `zeeklogs/dns.go` | `PantherEvent`: the endpoints, and for DNS the indicators from the answers by record type | the log processor |
| Apache access log | `apachelogs/access_combined.go` | `ParseString`, `SetRow` (field count), `updatePantherFields` (IP, else domain) | the log processor |
| Others | `gitlablogs`, `osquerylogs`, `analysis_api/handlers/modify_global.go`, `athena/driver/api/api.go`, `api/lambda/database/models/api.go` | type declarations, registrations, one AWS call each | — |

The registry is the only component with shared mutable state and concurrent
callers. The extractors and parsers are pure functions of one event, except
`scanJSON`, which keeps an iterator and a slice between calls.

The hard behaviours are as follows.

- **Registry.** Goroutines call it concurrently. The duplicate test and the
  insert must happen in one critical section, and the map must never be read
  while it is written. A batch `Register` may fail half way. `MustGet` panics
  on a miss. The RWMutex must not starve a writer.
- **scanJSON.** The iterator is reused across calls. An error can be left on
  it after a failed scan. `Values` is not cleared on the error path. `Close`
  returns the iterator to a pool.
- **Visit.** The recursive walk must apply the same rules as `Extract`, in the
  same order.

## Modules

| Module | Models | Status |
|---|---|---|
| `Registry` | the RWMutex registry and the package-level functions of `registry.go` | done |
| `RegistryAbs` | what the registry promises: atomic `Register` (Check, then insert if the name is free), atomic snapshot of `AvailableLogTypes` | done |
| `RegistryRefinement` | `Registry` implements `RegistryAbs` (`INSTANCE ... WITH regs <- entries`) | done |
| `RegistryProofs` | TLAPS proofs of the registry's invariants and of the refinement | done |
| `MCRegistry` | the small instances TLC checks | done |
| `Scanner` | the `scanJSON` life cycle: `JSONScanner`, `ScanValues`, `Close`, sharing jsoniter's pool of iterators | done |
| `ScannerAbs` | the scanner as its owner sees it: a private decoder whose error persists until `Close` | done |
| `ScannerRefinement` | `Scanner` implements `ScannerAbs` (`INSTANCE ... WITH failed <- HeldError`) | done |
| `ScannerProofs` | TLAPS proofs that the pool is exclusive, that errors stay with their scanner, and of the refinement | done |
| `MCScanner` | the instance TLC checks: 2 scanners, 3 iterators | done |
| `AWSExtract` | `AWSExtractor.Extract` on one key and value, the strings and keys the rules tell apart, and rules 1-2 of spec 4.2 (`RuleString`) | done (TLC, TLAPS) |
| `AWSExtractProofs` | TLAPS proof that `Extract` follows rules 1-2 for every key and string | done |
| `AWSIndicators` | the recursive `Visit` walk over small JSON documents, and `Extract` applied to their members | done (TLC only: recursive) |
| `MCAWSIndicators` | the documents TLC scans | done |
| `DNSIndicators` | Suricata and Zeek `PantherEvent` indicator selection | done (TLC, TLAPS) |
| `DNSProofs` | TLAPS proofs that no address becomes a domain name and that every reported address becomes an IP | done |
| `MCDNSIndicators` | DNS exchanges as the two tools log them | done |
| `ApacheAccess` | `ParseString`, `SetRow`, `updatePantherFields` of the combined access log | done (TLC, TLAPS) |
| `ApacheProofs` | TLAPS proofs of the two invariants of the passing Apache run | done |
| `MCApacheAccess` | the requests whose log lines are parsed | done |

### Registry: state and actions

Each goroutine (a member of `Threads`) is idle or inside one call. Its
progress is `pc`. The table maps each step of a call to an action.

| Code | Action |
|---|---|
| `Register(entries...)` / `MustRegister` enter (lines 127-137) | `CallRegister(t, b, m)` |
| `entry.Check()` before the lock (102-104) | `RegCheck`: on failure, returns through `RegReturn` |
| `r.mu.Lock()` (105), first half: take the writer mutex, blocking new readers | `RegLock` |
| `r.mu.Lock()`, second half: wait for the readers that are in | `RegDrain` |
| duplicate test, lazy `make`, insert, deferred `Unlock`; the loop's next entry or its return; `MustRegister`'s panic (106-115, 129-139) | `RegCommit` and `RegReturn` |
| `Get` / `MustGet` / `NewParser` enter | `CallGet(t, n, how)` |
| `r.mu.RLock()` (87) | `GetRLock` |
| `r.entries[name]`, `RUnlock`, the panic of `MustGet` (80-89) | `GetRead` |
| `AvailableLogTypes` / `LogTypes`: `RLock`, one step per range iteration, `RUnlock` (92-99) | `CallLogTypes`, `LTRLock`, `LTNext`, `LTDone` |
| a panic ends the process | `Halted` |

The model abstracts the data as follows.

- A LogType is a record with its name and whether `Check()` accepts it. The
  description, the schema's JSON round trip and the Glue metadata are folded
  into `check`. The empty name is the constant `NoName`.
- Go's map iteration order is unspecified, so `LTNext` picks any entry not yet
  visited.
- `MustGet` is only called with a name the goroutine has read back
  (`known`), as the registry's callers do. Calling it with a name never
  registered panics by design.

The model also keeps some history variables that the properties need:

- `okRegs` holds the LogTypes whose `Register` returned nil;
- `listed` holds each goroutine's last `AvailableLogTypes` result;
- `known` holds the names each goroutine has read back.

## Runs

| Run | Checks | Instance |
|---|---|---|
| `registry_safety` (`MCRegistry.cfg`) | `TypeOK`, `NoDataRace`, `FirstRegistrationWins`, `ListedNamesResolve`, `AbsSpec` | 2 goroutines, names A and B, LogTypes a1 and a2 (both "A"), b1 ("B") and one "B" that fails Check; batches `<<a1>>`, `<<a2, b1>>`, `<<bad, b1>>` |
| `registry_liveness` (`MCRegistryLive.cfg`) | `CallsReturn` | 3 goroutines, one name, one LogType |

The safety run has 60,920 distinct states and takes a few seconds. Its
bounds are large enough for every hazard to occur:

- two goroutines registering the same name race on the duplicate test;
- a batch fails half way, either on a duplicate (`<<a2, b1>>` after `<<a1>>`)
  or on Check (`<<bad, b1>>`);
- a reader overlaps a writer that is waiting for the lock.

`MustRegister` panics in some runs, which stops the model (`Halted`).

The liveness run needs three goroutines. Then two readers can overlap, so
the read lock is never free, while a third goroutine waits to write.

What each property says:

- `NoDataRace`: whoever is inside `RegCommit` (the map write) is alone with
  the map. This is Go's rule on concurrent map access.
- `FirstRegistrationWins`: for each name, the map holds exactly the LogType
  whose `Register` returned nil.
- `ListedNamesResolve`: `MustGet` of a name read back never panics.
- `AbsSpec`: the registry refines `RegistryAbs`. Every `RegCommit` that
  inserts is an `Accept`, and every `LTDone` is a `List` of the whole map at
  that instant. So the slice `AvailableLogTypes` returns is the map's content
  at one instant, although the loop takes many steps.
- `CallsReturn`: every call returns, or the process has panicked.

Each property has a mutant (in `Registry.tla`, just before the action it
replaces) that TLC finds violating it:

| Mutant | Breaks |
|---|---|
| Get without `RLock` | `NoDataRace` |
| no duplicate test | `FirstRegistrationWins` |
| `make` on every insert | `ListedNamesResolve` |
| `Check` skipped | `AbsSpec` |
| a nil entry copied by the range loop | `TypeOK` |
| an `RLock` that lets readers past a waiting writer | `CallsReturn` (writer starvation) |

### Fairness

`Fairness` is weak fairness on each goroutine's non-blocking steps, because
Go's scheduler eventually runs every runnable goroutine. It is strong
fairness on the lock acquisitions, for two reasons:

- `sync.Mutex` switches to starvation mode and hands the lock to a waiter
  that has waited longer than 1 ms;
- `RWMutex.Unlock` admits the readers that were blocked before any later
  writer.

So a goroutine whose acquisition is enabled infinitely often gets the lock.
Starting a call is not fair: callers call when they like.

## What is proved (`RegistryProofs`, TLAPS)

The proofs hold for every set of goroutines, names and LogTypes. They
assume only the named `ASSUME`s of `Registry`:

- the sentinels `NoThread`, `NoName` and `NoEntry` are not real goroutines,
  names or entries;
- every LogType's name is a name or the empty name;
- batches are sequences of LogTypes.

| Theorem | Statement |
|---|---|
| `TypeCorrect` | `Spec => []TypeOK` |
| `MutualExclusion` | `Spec => []NoDataRace` |
| `FirstRegistrationWinsHolds` | `Spec => []FirstRegistrationWins` |
| `MustGetNeverPanics` | `Spec => []ListedNamesResolve` |
| `Refinement` | `Spec => AbsSpec`: the RWMutex registry implements the atomic registry |

None of these invariants is inductive on its own. The strengthening is
`IInv /\ KnownInv`, whose parts are:

- `BatchInv`: a goroutine inside `Register` holds an entry, and past
  `RegCheck` an entry that `Check` accepts. This is what makes the inserted
  entry a checked one, which the refinement needs.
- `LockInv`:
  - `writer` is exactly the goroutine between `Lock` and `Unlock`;
  - `readers` is exactly the set of goroutines reading the map;
  - the goroutine in its critical section has seen the readers drain.

  `NoDataRace` follows directly from it.
- `MapInv`: the map is keyed by name, and the entries a `LogTypes` loop has
  copied are still the map's. So when the loop ends, its result is the
  map's content (lemma `SnapshotIsMap`).
- `KnownInv`: every name a goroutine has read back is registered, and so is
  the name of a pending `MustGet`. It rests on `AppendStep`: a registered
  entry never changes.

TLC checked `IInv /\ KnownInv` as an invariant of the safety run before it
was proved. Each step lemma has one step per action. `RegCheck` and
`RegCommit` are split on their branches: check fails or passes, then
duplicate, insert-and-return, or insert-and-continue.

What stays with TLC:

- `CallsReturn` (liveness under fairness is out of TLAPS's reach here);
- the behaviour of the concrete instances.

## The AWS value scanner (`Scanner`, `ScannerProofs`)

A `scanJSON` (a member of `Scanners`) is owned by one worker. All scanners
borrow iterators from the one pool of `jsoniter.ConfigFastest`. The walk is
abstracted to its outcome: a malformed input leaves an error on the iterator.

| Code | Action |
|---|---|
| `JSONScanner` (122-127): `BorrowIterator` | `JSONScanner(s, i)`; `i` is pooled or new (`Borrowable`) |
| `ScanValues` (205-218): set `Values`; borrow if `iter` is nil, else `ResetBytes`; walk; return | `ScanValues(s, in)` |
| `Close` (197-203): swap `iter` with nil, `ReturnIterator`, drop `Values` | `Close(s)` |

The jsoniter facts the model rests on:

- `ResetBytes` does not clear `Iterator.Error`;
- `ReportError` keeps the first error;
- `ReturnIterator` clears the error.

| Run | Checks | Result |
|---|---|---|
| `scanner_pool` (`MCScanner.cfg`) | `TypeOK`, `IterExclusive`, `ScannerAbsSpec` | pass (802 states) |
| `scanner_sticky_error` (`MCScannerStickyError.cfg`) | `WellFormedScansSucceed` | violated: after one malformed input, every later scan on that scanner fails until `Close` (finding, line 210) |
| `scanner_retained_values` (`MCScannerRetained.cfg`) | `AccumulatorNotRetained` | violated: on error `js.Values` keeps the caller's slice (finding, line 214) |

What the properties say:

- `IterExclusive`: an iterator is never held by two scanners, nor by a scanner
  and the pool at once.
- `ScannerAbsSpec` (below): every scanner behaves as if it owned its
  decoder, so the sticky error stays with the scanner that met it and never
  travels through the pool.

Proved in `ScannerProofs` for any number of scanners and iterators, assuming
only `ScannersAssumption` and `ItersAssumption`: `ScannerTypeCorrect`,
`PoolExclusive` (`IterExclusive`) and `ScannerRefines` (below). The
inductive invariant adds the following:

- `HeldInv`: a held iterator is allocated and not pooled, and a scanner not
  yet made holds none;
- `ErrInv`: only a held iterator carries an error.

The refinement needs `ErrInv` to know that a pooled iterator has no
error, so that a scanner borrowing it starts clean.

### The pool is invisible (`ScannerAbs`, `ScannerRefinement`)

`ScannerAbs` describes a scanner with no pool, as if each had its own
decoder. Its state per scanner is:

- `failed`: the decoder keeps an error;
- `Values`: the slice `js.Values` holds;
- `last`: the last scan's input and outcome.

`ScanValues` fails when the input is malformed or when `failed` is set,
and it then keeps the error and the caller's slice. `Close` drops both.
This is what the code does, including the sticky error of the
`scanner_sticky_error` finding; it is not what spec 4.2 promises.

`ScannerRefinement` maps the detailed state to it:

- `failed[s]` is `HeldError[s]`, the `Error` of the iterator `s` holds
  (FALSE when it holds none);
- `last` is `last`: the record of a scan's input and outcome;
- the pool, `allocated` and the iterators nobody holds are hidden.

`ScannerAbsSpec` (`Abs!Spec`) is a property of the `scanner_pool` run.
The mutant `CloseKeepsValues`, a `Close` that forgets `js.Values = nil`,
breaks it.

`THEOREM ScannerRefines == Spec => ScannerAbsSpec` is proved for any
number of scanners and iterators. Each detailed action maps to the
abstract action of the same name; a stutter maps to a stutter. The steps
use the inductive invariant `Inv` above:

- a borrowed iterator carries no error (`BorrowFree`, from `ErrInv`), so
  `HeldError` of a new or re-borrowing scanner is FALSE, as in the
  abstract state;
- no other scanner holds the iterator a step touches (`IterExclusive`),
  so the step changes `HeldError` of that one scanner only.

So a scan's outcome depends only on its input and on the same scanner's
history since its last `Close`, never on another worker's.

## Indicator extraction (`AWSIndicators`)

The model covers two pieces of code:

- `Visit`: the walk that `ScanValues` drives through
  `ReadObjectCB(js.Visit)`;
- `Extract`: the gjson extractor, applied to each member of the document.

Both are functions over JSON values. Values are records: `Str`, `Num`,
`Null`, `Obj(<<pairs>>)` and `Arr(<<elements>>)`. A walk's result says
whether the iterator is still error-free, and which values it found.

The walk is written as the code reads:

- `ReadObjectCB` visits pairs in order and stops at the first failure; it
  reads null as an empty object and errors on anything else;
- `tags` elements are decoded as `{key, value}` structs;
- `ipv6Addresses` elements are read with `ReadString`;
- the elements of any other array go through `ReadObjectCB`.

Strings are abstracted to the six the rules tell apart:

- a bare instance id;
- a host name;
- three ARNs that `arn.Parse` accepts: an instance ARN, a role ARN and one
  with an empty instance id;
- `ArnBad`, a string with the `arn:` prefix that `arn.Parse` rejects.

The prefix and suffix tests are given by their results on these strings
(`ArnPrefixed` is the `arn:` prefix test, `ARNs` the strings that parse).
`ArnValues` is the ARN branch of `Extract` (extractor.go lines 44-67): no
values when the string does not parse, else the ARN, its account and, for an
`instance/` resource, the instance id. The walk's `scanARN` does the same.

A `tags` element is decoded as `iter.ReadVal(&tag)` does: a string field is
read, a null or missing one stays empty, and a `key` or `value` of any
other kind is a decode error that fails the scan (`FieldDecodes`).

`RuleString` and `ReachableARNs` state spec 4.2 rules 1-5 directly.

Each behaviour is one `ScanValues` call on one document of `MCDocs`. The
documents are of two kinds:

- every object with one member, under 10 keys, whose value is one of:
  - a string, a number or null;
  - an object with one such member;
  - a one-element array of those (tag objects under `tags`, a string under
    `ipv6Addresses`);
- every object with two scalar members, so that an error in the first member
  hides the second.

That is 8,504 documents, with 17,008 states. The run ends after the call, so
deadlock is not checked.

| Run | Checks | Result |
|---|---|---|
| `aws_indicator_rules` | `ExtractFollowsRules`, `NestedARNsFound` | pass |
| `aws_scalar_arrays` | `WellFormedDocsScan` | violated: TLC's trace is `{"domain": [5]}`, an array holding a number |
| `aws_rules_violated` | `EmitsFollowRules`: no ARN emitted whole as an account, IP or domain; instance ids begin `i-`; tags have two non-empty sides | violated. TLC's trace is `{"domain": "arn:aws:ec2:...:instance/i-0abc"}`, which gives DomainName(arn). Two more ways were read off the code, not from a trace: an ARN under an instance-id key gives InstanceID(arn) (line 159), and `Extract` emits a tag with empty sides (line 90) |

So `Extract` follows the rules on string members. The walk does not:

- it tests key names before the ARN prefix;
- it drops the `i-` test;
- it fails the whole record on an array of scalars.

`Extract` has its own defect: it emits tags with empty fields. Each of these
is a finding in `PROJECT.json`.

The mutants are:

- `ExtractKeyFirst` (Extract with Visit's order) breaks `ExtractFollowsRules`;
- `VisitSkipArrays` breaks `NestedARNsFound`.

### What is proved (`AWSExtractProofs`)

`Extract` and its reference have no recursion. They live in `AWSExtract`,
which `AWSIndicators` extends, so TLAPS can reason about them.
`RuleString` states rules 1 and 2 as the spec words them:

- an ARN gets only the ARN rule;
- otherwise every key rule that matches contributes its indicator
  (`KeyRules`).

`Extract` instead chains early returns: first the ARN test, then the
instance-id keys, then the account-id keys, then the `switch`. Go's early
returns are `IF`s in the model, because a TLA+ `CASE` whose guards overlap
may take any arm that is true. `VisitString` is written the same way.

`THEOREM ExtractMatchesRules` states `ExtractAgrees(key, node)` for every
key and every JSON value. On a string value, `Extract` emits exactly
`RuleString`. The run checks the same agreement only on its documents'
members. The proof rests on two lemmas:

- `KeyRulesDisjoint`: the id, account, IP and domain keys are distinct,
  so at most one key rule matches and the early returns lose nothing;
- `KeyBranch`: on a non-ARN string, `Extract` yields the indicators of
  the matching key rules, one case per branch of the code.

The theorem covers every key name. As in the TLC run, key suffixes and
string prefixes are abstracted to their results on the model's strings.

What is not proved here:

- The walk (`AWSIndicators`) declares `RECURSIVE` operators. tlapm cannot
  use SMT in such a module, and induction over JSON values is out of reach.
  So `NestedARNsFound`, and `ExtractFollowsRules` over the members of a
  whole document, are checked by TLC only.
- `CallsReturn` (`Registry`) is a liveness property under fairness, which
  stays with TLC: the prover does not reach liveness or ENABLED.

## DNS indicators (`DNSIndicators`)

`SuricataPantherEvent` and `ZeekPantherEvent` model the two `PantherEvent`
methods, as functions of the decoded event.

- **Suricata.** Both endpoints are IPs; `DNS.Rrname` is a domain and
  `DNS.RData` an IP. The answers are switched on `rrtype`: A/AAAA give an IP
  and a domain, CNAME/MX two domains, PTR the rdata, TXT the rrname. The
  grouped records give IPs for A/AAAA and domains for CNAME/MX.
- **Suricata anomaly** (`AnomalyEvent`). `Anomaly.PantherEvent` adds the
  source and destination as IPs. Both are optional in anomaly events, since a
  decode-layer anomaly has no flow.
- **Zeek.** Both ends and every answer go through `HostnameP`; the query is
  added only for qtype 1 or 28.

The Event's value set (nil and empty dropped, set semantics) and
`HostnameP` (an IP if the text parses as one, else a domain) are outside
`src/`. They are modelled from spec 4.1 and 4.4.

`MCDNSIndicators` builds its events from DNS exchanges:

- a query name and type;
- any subset of six records (A, AAAA, CNAME, MX, PTR, TXT).

Each exchange is logged in four forms: Suricata's detailed answer list,
Suricata's grouped records, one Suricata event per answer, and Zeek's
`dns.log`. Nine anomaly events are added, with each endpoint present or
absent. Every event carries its exchange (`x`, empty for an anomaly) and
its flow endpoints (`ends`) for the properties. That gives 2,319 events.
Each behaviour is one call.

| Run | Checks | Result |
|---|---|---|
| `dns_indicators` | `ResolvedAddressesFound` (every reported address is an IP indicator: the endpoints present, the A/AAAA answers), `DomainsAreNames` | pass |
| `dns_rules_violated` | `FollowsAnswerRules`: only addresses become IPs, PTR targets are domains, TXT text is not a domain, the query name is recorded | violated. TLC's trace is a Suricata grouped event whose PTR target `host.example.com` is missing from the output (line 94). Three more ways were read off the code, not from a trace (the query name is required of DNS events only): a per-answer MX/CNAME/PTR/TXT event gives its rdata as an IP (line 74); Zeek drops the query name of non-A/AAAA queries (line 83); Zeek records a TXT answer's text as a domain name (line 87) |

The mutants are:

- an answer switch without `AAAA` breaks `ResolvedAddressesFound`;
- an anomaly `PantherEvent` that drops the destination also breaks it;
- Zeek answers taken as domains without `HostnameP` break `DomainsAreNames`.

### What is proved (`DNSProofs`)

`THEOREM NoAddressAsDomain == Spec => []DomainsAreNames` holds for every
value of `Events`, `Addrs` and `Nil`. It rests on one assumption,
`NamesAssumption`: no DNS name field of a Suricata event is an address
literal. These fields are the query's `rrname`, the answers' owner names,
and the CNAME, MX and PTR targets, whether listed or grouped.

The assumption is what DNS itself guarantees: those fields hold domain
names. Suricata's code trusts the record type rather than testing each
string. So the property is only as good as the record types in the log,
and the proof says exactly that. TLC evaluates the assumption on the
2,319 model events on every run of `MCDNSIndicators`.

The inductive invariant `Inv` says two things:

- the event stays in `Events`;
- once the call has returned, `out` is the result of the method of the
  event's format.

The lemmas follow the code's branches:

- `ValueIsKind`: a value keeps the kind it was appended as;
- `AnswerDomains`: a domain from one answer is its owner name or a
  CNAME/MX/PTR target (one step per case of the switch);
- `GroupedDomains`: a grouped domain is a CNAME or MX target;
- `SuricataDomains`: every Suricata domain is one of the name fields;
- `AnomalyDomains`: an anomaly event gives addresses only;
- `ZeekDomains`: `HostnameP` classifies each Zeek string, so a Zeek domain
  is never in `Addrs`, with no assumption at all.

`THEOREM AddressesFound == Spec => []ResolvedAddressesFound` holds for every
value of the constants that satisfies `ReportsAssumption`. That assumption
says what "an event reports an address" means, and that A/AAAA records hold
addresses:

- the endpoints the event carries (`ends`) are among its endpoint fields:
  `orig_h`/`resp_h` for Zeek, `src_ip`/`dest_ip` for Suricata;
- every A or AAAA answer of the exchange is an address (in `Addrs`) and is
  logged in the event: in the Zeek `answers`, or in the Suricata answer
  list (same type and rdata), grouped A/AAAA records or top-level `rdata`;
- `Nil` and `""` are not addresses.

TLC evaluates the assumption on the 2,319 model events. The proof reuses
`Inv`. Its lemmas follow the code's branches:

- `SuricataFound`: one step each for the answer list, the grouped records
  and the top-level rdata;
- `AnomalyFound` and `ZeekFound`;
- `AddressKept`: an address is never dropped as nil or empty;
- `HostnameAddress`: `HostnameP` keeps an address as an IP.

While writing the proof, the prover showed that `UNION A \cup UNION B`
parses as `UNION (A \cup UNION B)`. The model's unions are parenthesised
accordingly.

## Apache combined log (`ApacheAccess`)

A line is what Apache's combined `LogFormat` writes for a request: nine
fields, each delimited as a token, `[bracketed]` or `"quoted"`, with `-` for
a missing value.

The pattern is anchored, and its sub-patterns cannot run across a field's
delimiters. So it matches exactly when every field matches its own
sub-pattern (`Accepts`), and the submatches are the fields. That is how
`FindStringSubmatch` is modelled.

`SetRow`'s length test is kept as written, although a match always has nine
groups. `AccessCommonLog.SetRow`, `stripQuotes` and `nonEmptyLogField` are
outside `src/` and modelled from spec 4.4.

| Run | Checks | Result |
|---|---|---|
| `apache_parse` | `FieldsRoundTrip`, `RemoteHostIndicator` | pass (768 states) |
| `apache_empty_header` | `WrittenLinesParse` | violated: an empty User-Agent or Referer is written `""`, which `rxQuoted` rejects, and the whole line is lost (line 112) |

The mutants are:

- Referer and User-Agent read from each other's index break
  `FieldsRoundTrip`;
- `updatePantherFields` without the domain fallback breaks
  `RemoteHostIndicator`.

### What is proved (`ApacheProofs`)

`FieldsRoundTripHolds` and `RemoteHostIndicatorHolds` prove the two
invariants of `apache_parse` (`Spec => []FieldsRoundTrip`,
`Spec => []RemoteHostIndicator`) for every value of the constants. They
rest on `RequestsAssumption`:

- `%h` is never `-` and never nil: Apache logs an address or a resolved name;
- no request sends a header whose value is `-`.

Apache writes such a header exactly as it writes a missing one, so no
parser could give it back. The assumption puts that case aside rather than
hide it. TLC evaluates the assumption on every run of `MCApacheAccess`.

The inductive invariant `Inv` says that the request stays one of
`Requests` and that, after `Parse`, `result` and `vals` are what
`ParseString` and `updatePantherFields` compute. The argument follows the
code:

- `AcceptedLine`: an accepted line matched every field's sub-pattern, and
  the record is `SetRow` of the line;
- `SetRowOfLine`: `SetRow` takes the host from field 1 (through
  `CommonSetRow`), Referer from field 8 and User-Agent from field 9;
- `HeaderRoundTrip`: a field that passed `rxQuoted` is not empty, so
  `nonEmptyLogField` turns only Apache's `-` back into absent;
- `HostIndicator`: `updatePantherFields` on a set host gives one IP or one
  domain.

## Not modelled

- The parser registry facade (`registry/registry.go`) and the
  parser-package registrations are only lookups and start-up `MustRegister`
  calls, which `Registry` covers.
- `modify_global.go`, the Athena session and the database API models are
  AWS I/O and type declarations.
- `gitlablogs`, `osquerylogs`: declarations and registrations. GitLab's
  `PantherEvent` carries only a timestamp, and osquery registers through
  `pantherlog`, which is outside `src/`.
