------------------------------ MODULE Registry ------------------------------
(***************************************************************************)
(* The log-type registry of parsers/registry.go: a map from log-type name  *)
(* to *LogType guarded by a sync.RWMutex, used concurrently by goroutines. *)
(*                                                                         *)
(* Each goroutine (a member of Threads) is idle or inside one call:        *)
(*   Register(entries...) / MustRegister(entries...)  registry.go 101-140  *)
(*   Get / MustGet / NewParser                        registry.go 78-90,146*)
(*   LogTypes (AvailableLogTypes)                     registry.go 92-99    *)
(* The RWMutex is modelled with Go's semantics: Lock first takes the       *)
(* writer mutex (writer), which makes new RLock calls block, and then      *)
(* waits until the readers that hold the lock have left (readers = {}).    *)
(* A LogType is an abstract entry: its name and whether Check() accepts it.*)
(***************************************************************************)
EXTENDS Naturals, Sequences, FiniteSets

CONSTANTS
  Threads,   \* goroutines calling into the registry
  Names,     \* log-type names
  LogTypes,  \* the LogType values callers pass to Register
  Batches,   \* the argument lists of Register(entries...)
  NoName,    \* the empty name ""
  NoEntry,   \* a nil *LogType (lookup miss)
  NoThread   \* nobody holds the writer mutex

ASSUME ThreadsAssumption == Threads # {} /\ NoThread \notin Threads
ASSUME NamesAssumption == Names # {} /\ NoName \notin Names
ASSUME LogTypesAssumption ==
  \A e \in LogTypes : e.name \in Names \cup {NoName} /\ e.check \in BOOLEAN
ASSUME NoEntryAssumption == NoEntry \notin LogTypes
ASSUME BatchesAssumption == Batches \subseteq Seq(LogTypes)

VARIABLES
  entries,  \* r.entries: name -> registered LogType or NoEntry
  writer,   \* goroutine holding the RWMutex's writer mutex, or NoThread
  readers,  \* goroutines holding the read lock
  pc,       \* where each goroutine is
  batch,    \* Register: the entries not yet registered
  must,     \* Register was called through MustRegister
  arg,      \* Get / MustGet / NewParser: the name looked up, and how
  seen,     \* LogTypes: the copies appended to the result so far
  listed,   \* the slice the goroutine's last LogTypes call returned
  known,    \* names a goroutine has read back from the registry
  okRegs,   \* history: the LogTypes whose Register returned nil
  aborted   \* the process panicked: "no", "mustregister" or "mustget"

vars == <<entries, writer, readers, pc, batch, must, arg, seen, listed,
          known, okRegs, aborted>>

Lookups == {"get", "mustget", "newparser"}
\* arg of a goroutine that is not looking a name up.
NoArg == [name |-> CHOOSE n \in Names : TRUE, how |-> "get"]
PCs == {"idle", "reg_check", "reg_lock", "reg_drain", "reg_cs",
        "get_rlock", "get_read", "lt_rlock", "lt_iter"}

\* Names already registered.
Registered == {n \in Names : entries[n] # NoEntry}

\* LogType.Check (registry.go 45-61): non-empty name and description, a
\* schema that marshals and unmarshals; the last three are e.check.
Check(e) == e.name # NoName /\ e.check

TypeOK ==
  /\ entries \in [Names -> LogTypes \cup {NoEntry}]
  /\ writer \in Threads \cup {NoThread}
  /\ readers \subseteq Threads
  /\ pc \in [Threads -> PCs]
  /\ batch \in [Threads -> Seq(LogTypes)]
  /\ must \in [Threads -> BOOLEAN]
  /\ arg \in [Threads -> [name : Names, how : Lookups]]
  /\ seen \in [Threads -> SUBSET LogTypes]
  /\ listed \in [Threads -> SUBSET LogTypes]
  /\ known \in [Threads -> SUBSET Names]
  /\ okRegs \subseteq LogTypes
  /\ aborted \in {"no", "mustregister", "mustget"}

Init ==
  /\ entries = [n \in Names |-> NoEntry]
  /\ writer = NoThread
  /\ readers = {}
  /\ pc = [t \in Threads |-> "idle"]
  /\ batch = [t \in Threads |-> <<>>]
  /\ must = [t \in Threads |-> FALSE]
  /\ arg = [t \in Threads |-> NoArg]
  /\ seen = [t \in Threads |-> {}]
  /\ listed = [t \in Threads |-> {}]
  /\ known = [t \in Threads |-> {}]
  /\ okRegs = {}
  /\ aborted = "no"

-----------------------------------------------------------------------------
(* Register(entries...) and MustRegister(entries...), registry.go 127-140:  *)
(* the entries are registered one by one; the first error is returned and  *)
(* the rest are not attempted; MustRegister panics on it.                  *)

\* Return from Register with an error (e = TRUE) or nil; MustRegister
\* panics on the error.
RegReturn(t, e) ==
  /\ pc' = [pc EXCEPT ![t] = "idle"]
  /\ batch' = [batch EXCEPT ![t] = <<>>]
  /\ must' = [must EXCEPT ![t] = FALSE]
  /\ aborted' = IF e /\ must[t] THEN "mustregister" ELSE aborted

CallRegister(t, b, m) ==
  /\ pc[t] = "idle"
  /\ batch' = [batch EXCEPT ![t] = b]
  /\ must' = [must EXCEPT ![t] = m]
  /\ pc' = [pc EXCEPT ![t] = IF b = <<>> THEN "idle" ELSE "reg_check"]
  /\ UNCHANGED <<entries, writer, readers, arg, seen, listed, known, okRegs,
                 aborted>>

\* Mutant: Register without entry.Check().
RegCheckSkipped(t) ==
  /\ pc[t] = "reg_check"
  /\ pc' = [pc EXCEPT ![t] = "reg_lock"]
  /\ UNCHANGED <<entries, writer, readers, batch, must, arg, seen, listed,
                 known, okRegs, aborted>>

\* Registry.Register, line 102: entry.Check() runs before the lock is taken.
RegCheck(t) ==
  /\ pc[t] = "reg_check"
  /\ IF Check(Head(batch[t]))
       THEN /\ pc' = [pc EXCEPT ![t] = "reg_lock"]
            /\ UNCHANGED <<batch, must, aborted>>
       ELSE RegReturn(t, TRUE)
  /\ UNCHANGED <<entries, writer, readers, arg, seen, listed, known,
                 okRegs>>

\* r.mu.Lock(), line 105, first half: take the writer mutex.
RegLock(t) ==
  /\ pc[t] = "reg_lock"
  /\ writer = NoThread
  /\ writer' = t
  /\ pc' = [pc EXCEPT ![t] = "reg_drain"]
  /\ UNCHANGED <<entries, readers, batch, must, arg, seen, listed, known,
                 okRegs, aborted>>

\* r.mu.Lock(), second half: wait for the readers to leave.
RegDrain(t) ==
  /\ pc[t] = "reg_drain"
  /\ readers = {}
  /\ pc' = [pc EXCEPT ![t] = "reg_cs"]
  /\ UNCHANGED <<entries, writer, readers, batch, must, arg, seen, listed, known,
                 okRegs, aborted>>

\* Mutant: the duplicate check dropped; a later entry replaces the first.
RegCommitNoDupCheck(t) ==
  LET e == Head(batch[t]) IN
  /\ pc[t] = "reg_cs"
  /\ writer' = NoThread
  /\ entries' = [entries EXCEPT ![e.name] = e]
  /\ okRegs' = okRegs \cup {e}
  /\ IF Tail(batch[t]) = <<>>
       THEN RegReturn(t, FALSE)
       ELSE /\ batch' = [batch EXCEPT ![t] = Tail(batch[t])]
            /\ pc' = [pc EXCEPT ![t] = "reg_check"]
            /\ UNCHANGED <<must, aborted>>
  /\ UNCHANGED <<readers, arg, seen, listed, known>>

\* Mutant: the map is allocated on every insert (the nil check dropped).
RegCommitAlwaysMake(t) ==
  LET e == Head(batch[t]) IN
  /\ pc[t] = "reg_cs"
  /\ writer' = NoThread
  /\ IF entries[e.name] # NoEntry
       THEN /\ RegReturn(t, TRUE)
            /\ UNCHANGED <<entries, okRegs>>
       ELSE /\ entries' = [[n \in Names |-> NoEntry] EXCEPT ![e.name] = e]
            /\ okRegs' = okRegs \cup {e}
            /\ IF Tail(batch[t]) = <<>>
                 THEN RegReturn(t, FALSE)
                 ELSE /\ batch' = [batch EXCEPT ![t] = Tail(batch[t])]
                      /\ pc' = [pc EXCEPT ![t] = "reg_check"]
                      /\ UNCHANGED <<must, aborted>>
  /\ UNCHANGED <<readers, arg, seen, listed, known>>

\* Lines 107-114 and the deferred Unlock: reject a duplicate name, else
\* insert (allocating the map on first use) and go on with the next entry.
RegCommit(t) ==
  LET e == Head(batch[t]) IN
  /\ pc[t] = "reg_cs"
  /\ writer' = NoThread
  /\ IF entries[e.name] # NoEntry
       THEN /\ RegReturn(t, TRUE)
            /\ UNCHANGED <<entries, okRegs>>
       ELSE /\ entries' = [entries EXCEPT ![e.name] = e]
            /\ okRegs' = okRegs \cup {e}
            /\ IF Tail(batch[t]) = <<>>
                 THEN RegReturn(t, FALSE)
                 ELSE /\ batch' = [batch EXCEPT ![t] = Tail(batch[t])]
                      /\ pc' = [pc EXCEPT ![t] = "reg_check"]
                      /\ UNCHANGED <<must, aborted>>
  /\ UNCHANGED <<readers, arg, seen, listed, known>>

-----------------------------------------------------------------------------
(* Get (lines 86-90), MustGet (78-84) and NewParser (146-152): one lookup  *)
(* under the read lock.  MustGet is only called with a name the goroutine  *)
(* has already read back from the registry (spec 4.5).                     *)

CallGet(t, n, how) ==
  /\ pc[t] = "idle"
  /\ how = "mustget" => n \in known[t]
  /\ arg' = [arg EXCEPT ![t] = [name |-> n, how |-> how]]
  /\ pc' = [pc EXCEPT ![t] = "get_rlock"]
  /\ UNCHANGED <<entries, writer, readers, batch, must, seen, listed, known,
                 okRegs, aborted>>

\* Mutant: Get without r.mu.RLock().
GetRLockUnlocked(t) ==
  /\ pc[t] = "get_rlock"
  /\ pc' = [pc EXCEPT ![t] = "get_read"]
  /\ UNCHANGED <<entries, writer, readers, batch, must, arg, seen, listed, known,
                 okRegs, aborted>>

\* Mutant: RLock that only waits for a writer inside its critical section,
\* not for one that is waiting for the readers to leave.
GetRLockIgnoresPending(t) ==
  /\ pc[t] = "get_rlock"
  /\ writer \in Threads => pc[writer] = "reg_drain"
  /\ readers' = readers \cup {t}
  /\ pc' = [pc EXCEPT ![t] = "get_read"]
  /\ UNCHANGED <<entries, writer, batch, must, arg, seen, listed, known, okRegs,
                 aborted>>

\* r.mu.RLock(), line 87: blocks while a writer holds or waits for the lock.
GetRLock(t) ==
  /\ pc[t] = "get_rlock"
  /\ writer = NoThread
  /\ readers' = readers \cup {t}
  /\ pc' = [pc EXCEPT ![t] = "get_read"]
  /\ UNCHANGED <<entries, writer, batch, must, arg, seen, listed, known, okRegs,
                 aborted>>

\* return r.entries[name] and RUnlock; MustGet panics on a miss, NewParser
\* returns an error on a miss and else calls the factory of the entry found
\* (a fresh parser: no registry state).
GetRead(t) ==
  LET e == entries[arg[t].name] IN
  /\ pc[t] = "get_read"
  /\ readers' = readers \ {t}
  /\ pc' = [pc EXCEPT ![t] = "idle"]
  /\ arg' = [arg EXCEPT ![t] = NoArg]
  /\ known' = IF e = NoEntry THEN known
              ELSE [known EXCEPT ![t] = @ \cup {arg[t].name}]
  /\ aborted' = IF e = NoEntry /\ arg[t].how = "mustget"
                  THEN "mustget" ELSE aborted
  /\ UNCHANGED <<entries, writer, batch, must, seen, listed, okRegs>>

-----------------------------------------------------------------------------
(* LogTypes (lines 92-99): under the read lock, range over the map and     *)
(* append a copy of each entry, in Go's unspecified map order.             *)

CallLogTypes(t) ==
  /\ pc[t] = "idle"
  /\ seen' = [seen EXCEPT ![t] = {}]
  /\ pc' = [pc EXCEPT ![t] = "lt_rlock"]
  /\ UNCHANGED <<entries, writer, readers, batch, must, arg, listed, known,
                 okRegs, aborted>>

\* r.mu.RLock(), line 93.
LTRLock(t) ==
  /\ pc[t] = "lt_rlock"
  /\ writer = NoThread
  /\ readers' = readers \cup {t}
  /\ pc' = [pc EXCEPT ![t] = "lt_iter"]
  /\ UNCHANGED <<entries, writer, batch, must, arg, seen, listed, known, okRegs,
                 aborted>>

\* Names whose entry the range loop has already visited.
Visited(t) == {e.name : e \in seen[t]}

\* Mutant: the loop copies *logType for a name with no entry (a nil entry).
LTNextNilEntry(t) ==
  /\ pc[t] = "lt_iter"
  /\ \E n \in Names \ Visited(t) :
       seen' = [seen EXCEPT ![t] = @ \cup {entries[n]}]
  /\ UNCHANGED <<entries, writer, readers, pc, batch, must, arg, listed, known,
                 okRegs, aborted>>

\* One iteration of the range loop: copy an entry not yet visited.
LTNext(t) ==
  /\ pc[t] = "lt_iter"
  /\ \E n \in Registered \ Visited(t) :
       seen' = [seen EXCEPT ![t] = @ \cup {entries[n]}]
  /\ UNCHANGED <<entries, writer, readers, pc, batch, must, arg, listed, known,
                 okRegs, aborted>>

LTDone(t) ==
  /\ pc[t] = "lt_iter"
  /\ Registered \subseteq Visited(t)
  /\ readers' = readers \ {t}
  /\ pc' = [pc EXCEPT ![t] = "idle"]
  /\ listed' = [listed EXCEPT ![t] = seen[t]]
  /\ known' = [known EXCEPT ![t] = @ \cup Visited(t)]
  /\ seen' = [seen EXCEPT ![t] = {}]
  /\ UNCHANGED <<entries, writer, batch, must, arg, okRegs, aborted>>

-----------------------------------------------------------------------------
\* A panic ends the process: nothing happens any more.
Halted ==
  /\ aborted # "no"
  /\ UNCHANGED vars

Step(t) ==
  \/ \E b \in Batches, m \in BOOLEAN : CallRegister(t, b, m)
  \/ RegCheck(t) \/ RegLock(t) \/ RegDrain(t) \/ RegCommit(t)
  \/ \E n \in Names, how \in Lookups : CallGet(t, n, how)
  \/ GetRLock(t) \/ GetRead(t)
  \/ CallLogTypes(t) \/ LTRLock(t) \/ LTNext(t) \/ LTDone(t)

Next ==
  \/ aborted = "no" /\ \E t \in Threads : Step(t)
  \/ Halted

\* A goroutine's steps that do not block, and its lock acquisitions (at most
\* one of each is enabled at a time: the pc tells which).
Proceed(t) ==
  RegCheck(t) \/ RegCommit(t) \/ GetRead(t) \/ LTNext(t) \/ LTDone(t)
Acquire(t) == RegLock(t) \/ RegDrain(t) \/ GetRLock(t) \/ LTRLock(t)

\* Go's scheduler runs every runnable goroutine (weak fairness); a goroutine
\* blocked on the RWMutex gets it if it is free often enough, because
\* sync.Mutex hands itself to a waiter that has starved and Unlock admits
\* the blocked readers before any later writer (strong fairness).  Calls
\* are made by the callers when they like: no fairness.
Fairness ==
  \A t \in Threads : WF_vars(Proceed(t)) /\ SF_vars(Acquire(t))

Spec == Init /\ [][Next]_vars /\ Fairness

-----------------------------------------------------------------------------
(* Properties.                                                             *)

\* Registry.Register holds the write lock for its map access and Get and
\* LogTypes hold the read lock for theirs, so no goroutine reads the map
\* while another writes it (a Go map read concurrent with a write is a fatal
\* runtime error): whoever is inside RegCommit is alone with the map.
NoDataRace ==
  \A t \in Threads : pc[t] = "reg_cs" =>
    \A u \in Threads \ {t} : pc[u] \notin {"reg_cs", "get_read", "lt_iter"}

\* Registry uniqueness (spec 8): for each name, the entry the map holds is
\* the one LogType whose Register call returned nil; every other Register of
\* that name, however the calls interleave, returned an error.
FirstRegistrationWins ==
  /\ \A e \in okRegs : entries[e.name] = e
  /\ \A n \in Registered : entries[n] \in okRegs

\* MustGet is only called with a name the caller already read back from the
\* registry (Get or AvailableLogTypes); it never panics, because a name,
\* once registered, stays registered whatever other goroutines do.
ListedNamesResolve == aborted # "mustget"

\* Every Register, Get, MustGet, NewParser and LogTypes call returns
\* (or the process has panicked): no deadlock on the RWMutex and no
\* goroutine starved by the others.
CallsReturn ==
  \A t \in Threads : pc[t] # "idle" ~> (pc[t] = "idle" \/ aborted # "no")

=============================================================================
