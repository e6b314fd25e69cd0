--------------------------- MODULE RegistryProofs ---------------------------
(***************************************************************************)
(* Proofs about the registry model, for every set of goroutines, names and *)
(* LogTypes: its type invariant, mutual exclusion of map writes with map   *)
(* reads, first-registration-wins, MustGet on read-back names, and the     *)
(* refinement of the atomic registry.                                      *)
(***************************************************************************)
EXTENDS RegistryRefinement, TLAPS

\* The goroutines inside Register past the Check, and those between Lock
\* and Unlock.
Registering == {"reg_check", "reg_lock", "reg_drain", "reg_cs"}
Checked == {"reg_lock", "reg_drain", "reg_cs"}
Locked == {"reg_drain", "reg_cs"}
Reading == {"get_read", "lt_iter"}

\* A goroutine inside Register has an entry in hand, and past RegCheck it
\* is one that Check accepts.
BatchInv ==
  \A t \in Threads :
    /\ pc[t] \in Registering => batch[t] # <<>>
    /\ pc[t] \in Checked => Check(Head(batch[t]))

\* The RWMutex: writer is the goroutine between Lock and Unlock, readers are
\* exactly the goroutines reading the map, and the one in its critical
\* section has waited for every reader to leave.
LockInv ==
  /\ \A t \in Threads : pc[t] \in Locked <=> writer = t
  /\ readers = {t \in Threads : pc[t] \in Reading}
  /\ \A t \in Threads : pc[t] = "reg_cs" => readers = {}

\* The map is keyed by name, and a LogTypes range loop has copied only
\* entries that are still there.
MapInv ==
  /\ \A n \in Registered : entries[n].name = n
  /\ \A t \in Threads : pc[t] = "lt_iter" =>
       \A e \in seen[t] : e.name \in Names /\ entries[e.name] = e
  /\ \A t \in Threads : pc[t] # "lt_iter" => seen[t] = {}

IInv == TypeOK /\ BatchInv /\ LockInv /\ MapInv /\ FirstRegistrationWins

\* The assumptions on the constants, as one fact.
LEMMA Assumptions ==
  /\ Threads # {} /\ NoThread \notin Threads
  /\ Names # {} /\ NoName \notin Names
  /\ \A e \in LogTypes : e.name \in Names \cup {NoName} /\ e.check \in BOOLEAN
  /\ NoEntry \notin LogTypes
  /\ Batches \subseteq Seq(LogTypes)
  BY ThreadsAssumption, NamesAssumption, LogTypesAssumption,
     NoEntryAssumption, BatchesAssumption

-----------------------------------------------------------------------------
\* MustGet is called with names read back from the registry, and every
\* such name is still registered: the strengthening of ListedNamesResolve.
KnownInv ==
  /\ \A t \in Threads : known[t] \subseteq Registered
  /\ \A t \in Threads :
       pc[t] \in {"get_rlock", "get_read"} /\ arg[t].how = "mustget"
         => arg[t].name \in Registered
  /\ ListedNamesResolve

LEMMA InitIInv == Init => IInv
  BY Assumptions DEF Init, IInv, TypeOK, BatchInv, LockInv, MapInv,
     FirstRegistrationWins, Registered, NoArg, Lookups, PCs, Registering,
     Checked, Locked, Reading

\* TypeOK, with BatchInv so that Head(batch[t]) is a LogType and MapInv so
\* that the names LogTypes reads back are names, is inductive.
LEMMA TypeStep ==
  TypeOK /\ BatchInv /\ MapInv /\ [Next]_vars => TypeOK' /\ BatchInv'
  <1> SUFFICES ASSUME TypeOK, BatchInv, MapInv, [Next]_vars
               PROVE  TypeOK' /\ BatchInv'
    OBVIOUS
  <1>1. CASE UNCHANGED vars
    BY <1>1 DEF vars, TypeOK, BatchInv, PCs, Lookups, NoArg, Registering, Checked, Locked, Reading, Registered
  <1>2. CASE Halted
    BY <1>2 DEF Halted, vars, TypeOK, BatchInv, PCs, Lookups, NoArg, Registering, Checked, Locked, Reading, Registered
  <1>3. ASSUME NEW t \in Threads, NEW b \in Batches, NEW m \in BOOLEAN,
               CallRegister(t, b, m)
        PROVE TypeOK' /\ BatchInv'
    BY <1>3, Assumptions DEF CallRegister, TypeOK, BatchInv, PCs, Lookups, NoArg, Registering, Checked, Locked, Reading, Registered
  <1>4. ASSUME NEW t \in Threads,
               RegCheck(t)
        PROVE TypeOK' /\ BatchInv'
    <2>1. CASE Check(Head(batch[t]))
      <3>1. /\ pc[t] = "reg_check"
            /\ pc' = [pc EXCEPT ![t] = "reg_lock"]
            /\ UNCHANGED <<batch, must, aborted, entries, writer, readers, arg, seen, listed, known, okRegs>>
        BY <1>4, <2>1 DEF RegCheck
      <3>2. TypeOK'
        BY <3>1 DEF TypeOK, PCs
      <3>3. BatchInv'
        <4> SUFFICES ASSUME NEW u \in Threads
                     PROVE  /\ pc'[u] \in Registering => batch'[u] # <<>>
                            /\ pc'[u] \in Checked => Check(Head(batch'[u]))
          BY DEF BatchInv
        <4>1. CASE u = t
          BY <2>1, <3>1, <4>1 DEF TypeOK, BatchInv, Registering, Checked
        <4>2. CASE u # t
          BY <3>1, <4>2 DEF TypeOK, BatchInv
        <4>3. QED
          BY <4>1, <4>2
      <3>4. QED
        BY <3>2, <3>3
    <2>2. CASE ~Check(Head(batch[t]))
      <3>1. /\ pc[t] = "reg_check"
            /\ pc' = [pc EXCEPT ![t] = "idle"]
            /\ batch' = [batch EXCEPT ![t] = <<>>]
            /\ must' = [must EXCEPT ![t] = FALSE]
            /\ aborted' \in {aborted, "mustregister"}
            /\ UNCHANGED <<entries, writer, readers, arg, seen, listed, known, okRegs>>
        BY <1>4, <2>2 DEF RegCheck, RegReturn
      <3>2. QED
        BY <3>1, Assumptions DEF TypeOK, BatchInv, PCs, Lookups, NoArg, Registering, Checked, Locked, Reading, Registered
    <2>3. QED
      BY <2>1, <2>2
  <1>5. ASSUME NEW t \in Threads,
               RegLock(t)
        PROVE TypeOK' /\ BatchInv'
    BY <1>5, Assumptions DEF RegLock, TypeOK, BatchInv, PCs, Lookups, NoArg, Registering, Checked, Locked, Reading, Registered
  <1>6. ASSUME NEW t \in Threads,
               RegDrain(t)
        PROVE TypeOK' /\ BatchInv'
    BY <1>6, Assumptions DEF RegDrain, TypeOK, BatchInv, PCs, Lookups, NoArg, Registering, Checked, Locked, Reading, Registered
  <1>7. ASSUME NEW t \in Threads,
               RegCommit(t)
        PROVE TypeOK' /\ BatchInv'
    <2> DEFINE e == Head(batch[t])
    <2>1. pc[t] = "reg_cs" /\ e \in LogTypes /\ e.name \in Names /\ writer' = NoThread
          /\ UNCHANGED <<readers, arg, seen, listed, known>>
      BY <1>7, Assumptions DEF RegCommit, Check, TypeOK, BatchInv, PCs, Lookups, NoArg, Registering, Checked, Locked, Reading, Registered
    <2>2. CASE entries[e.name] # NoEntry
      <3>1. /\ pc' = [pc EXCEPT ![t] = "idle"]
            /\ batch' = [batch EXCEPT ![t] = <<>>]
            /\ must' = [must EXCEPT ![t] = FALSE]
            /\ aborted' \in {aborted, "mustregister"}
            /\ UNCHANGED <<entries, okRegs>>
        BY <1>7, <2>2 DEF RegCommit, RegReturn
      <3>2. QED
        BY <2>1, <2>2, <3>1, Assumptions DEF TypeOK, BatchInv, PCs, Lookups, NoArg, Registering, Checked, Locked, Reading, Registered
    <2>3. CASE entries[e.name] = NoEntry /\ Tail(batch[t]) = <<>>
      <3>1. /\ pc' = [pc EXCEPT ![t] = "idle"]
            /\ batch' = [batch EXCEPT ![t] = <<>>]
            /\ must' = [must EXCEPT ![t] = FALSE]
            /\ aborted' \in {aborted, "mustregister"}
            /\ entries' = [entries EXCEPT ![e.name] = e]
            /\ okRegs' = okRegs \cup {e}
        BY <1>7, <2>3 DEF RegCommit, RegReturn
      <3>2. QED
        BY <2>1, <2>3, <3>1, Assumptions DEF TypeOK, BatchInv, PCs, Lookups, NoArg, Registering, Checked, Locked, Reading, Registered
    <2>4. CASE entries[e.name] = NoEntry /\ Tail(batch[t]) # <<>>
      <3>1. /\ pc' = [pc EXCEPT ![t] = "reg_check"]
            /\ batch' = [batch EXCEPT ![t] = Tail(batch[t])]
            /\ UNCHANGED <<must, aborted>>
            /\ entries' = [entries EXCEPT ![e.name] = e]
            /\ okRegs' = okRegs \cup {e}
        BY <1>7, <2>4 DEF RegCommit
      <3>2. Tail(batch[t]) \in Seq(LogTypes)
        BY <2>1, Assumptions DEF TypeOK, BatchInv, PCs, Lookups, NoArg, Registering, Checked, Locked, Reading, Registered
      <3>3. QED
        BY <2>1, <2>4, <3>1, <3>2, Assumptions DEF TypeOK, BatchInv, PCs, Lookups, NoArg, Registering, Checked, Locked, Reading, Registered
    <2>5. QED
      BY <2>2, <2>3, <2>4
  <1>8. ASSUME NEW t \in Threads, NEW n \in Names, NEW how \in Lookups,
               CallGet(t, n, how)
        PROVE TypeOK' /\ BatchInv'
    BY <1>8, Assumptions DEF CallGet, TypeOK, BatchInv, PCs, Lookups, NoArg, Registering, Checked, Locked, Reading, Registered
  <1>9. ASSUME NEW t \in Threads,
               GetRLock(t)
        PROVE TypeOK' /\ BatchInv'
    BY <1>9, Assumptions DEF GetRLock, TypeOK, BatchInv, PCs, Lookups, NoArg, Registering, Checked, Locked, Reading, Registered
  <1>10. ASSUME NEW t \in Threads,
               GetRead(t)
        PROVE TypeOK' /\ BatchInv'
    BY <1>10, Assumptions DEF GetRead, TypeOK, BatchInv, PCs, Lookups, NoArg, Registering, Checked, Locked, Reading, Registered
  <1>11. ASSUME NEW t \in Threads,
               CallLogTypes(t)
        PROVE TypeOK' /\ BatchInv'
    BY <1>11, Assumptions DEF CallLogTypes, TypeOK, BatchInv, PCs, Lookups, NoArg, Registering, Checked, Locked, Reading, Registered
  <1>12. ASSUME NEW t \in Threads,
               LTRLock(t)
        PROVE TypeOK' /\ BatchInv'
    BY <1>12, Assumptions DEF LTRLock, TypeOK, BatchInv, PCs, Lookups, NoArg, Registering, Checked, Locked, Reading, Registered
  <1>13. ASSUME NEW t \in Threads,
               LTNext(t)
        PROVE TypeOK' /\ BatchInv'
    BY <1>13, Assumptions DEF LTNext, Visited, TypeOK, BatchInv, PCs, Lookups, NoArg, Registering, Checked, Locked, Reading, Registered
  <1>14. ASSUME NEW t \in Threads,
               LTDone(t)
        PROVE TypeOK' /\ BatchInv'
    BY <1>14, Assumptions DEF LTDone, Visited, TypeOK, BatchInv, MapInv, PCs, Lookups, NoArg, Registering, Checked, Locked, Reading, Registered
  <1>15. QED
    BY <1>1, <1>2, <1>3, <1>4, <1>5, <1>6, <1>7, <1>8, <1>9, <1>10, <1>11, <1>12, <1>13, <1>14 DEF Next, Step

\* The lock invariant is inductive.
LEMMA LockStep == TypeOK /\ BatchInv /\ LockInv /\ [Next]_vars => LockInv'
  <1> SUFFICES ASSUME TypeOK, BatchInv, LockInv, [Next]_vars PROVE LockInv'
    OBVIOUS
  <1>1. CASE UNCHANGED vars
    BY <1>1 DEF vars, TypeOK, BatchInv, LockInv, PCs, Lookups, NoArg, Registering, Checked, Locked, Reading, Registered
  <1>2. CASE Halted
    BY <1>2 DEF Halted, vars, TypeOK, BatchInv, LockInv, PCs, Lookups, NoArg, Registering, Checked, Locked, Reading, Registered
  <1>3. ASSUME NEW t \in Threads, NEW b \in Batches, NEW m \in BOOLEAN,
               CallRegister(t, b, m)
        PROVE LockInv'
    BY <1>3, Assumptions DEF CallRegister, TypeOK, BatchInv, LockInv, PCs, Lookups, NoArg, Registering, Checked, Locked, Reading, Registered
  <1>4. ASSUME NEW t \in Threads,
               RegCheck(t)
        PROVE LockInv'
    <2>1. CASE Check(Head(batch[t]))
      <3>1. /\ pc[t] = "reg_check"
            /\ pc' = [pc EXCEPT ![t] = "reg_lock"]
            /\ UNCHANGED <<batch, must, aborted, entries, writer, readers, arg, seen, listed, known, okRegs>>
        BY <1>4, <2>1 DEF RegCheck
      <3>2. QED
        BY <2>1, <3>1, Assumptions DEF TypeOK, BatchInv, LockInv, PCs, Lookups, NoArg, Registering, Checked, Locked, Reading, Registered
    <2>2. CASE ~Check(Head(batch[t]))
      <3>1. /\ pc[t] = "reg_check"
            /\ pc' = [pc EXCEPT ![t] = "idle"]
            /\ batch' = [batch EXCEPT ![t] = <<>>]
            /\ must' = [must EXCEPT ![t] = FALSE]
            /\ aborted' \in {aborted, "mustregister"}
            /\ UNCHANGED <<entries, writer, readers, arg, seen, listed, known, okRegs>>
        BY <1>4, <2>2 DEF RegCheck, RegReturn
      <3>2. QED
        BY <3>1, Assumptions DEF TypeOK, BatchInv, LockInv, PCs, Lookups, NoArg, Registering, Checked, Locked, Reading, Registered
    <2>3. QED
      BY <2>1, <2>2
  <1>5. ASSUME NEW t \in Threads,
               RegLock(t)
        PROVE LockInv'
    BY <1>5, Assumptions DEF RegLock, TypeOK, BatchInv, LockInv, PCs, Lookups, NoArg, Registering, Checked, Locked, Reading, Registered
  <1>6. ASSUME NEW t \in Threads,
               RegDrain(t)
        PROVE LockInv'
    BY <1>6, Assumptions DEF RegDrain, TypeOK, BatchInv, LockInv, PCs, Lookups, NoArg, Registering, Checked, Locked, Reading, Registered
  <1>7. ASSUME NEW t \in Threads,
               RegCommit(t)
        PROVE LockInv'
    <2> DEFINE e == Head(batch[t])
    <2>1. pc[t] = "reg_cs" /\ e \in LogTypes /\ e.name \in Names /\ writer' = NoThread
          /\ UNCHANGED <<readers, arg, seen, listed, known>>
      BY <1>7, Assumptions DEF RegCommit, Check, TypeOK, BatchInv, LockInv, PCs, Lookups, NoArg, Registering, Checked, Locked, Reading, Registered
    <2>2. CASE entries[e.name] # NoEntry
      <3>1. /\ pc' = [pc EXCEPT ![t] = "idle"]
            /\ batch' = [batch EXCEPT ![t] = <<>>]
            /\ must' = [must EXCEPT ![t] = FALSE]
            /\ aborted' \in {aborted, "mustregister"}
            /\ UNCHANGED <<entries, okRegs>>
        BY <1>7, <2>2 DEF RegCommit, RegReturn
      <3>2. QED
        BY <2>1, <2>2, <3>1, Assumptions DEF TypeOK, BatchInv, LockInv, PCs, Lookups, NoArg, Registering, Checked, Locked, Reading, Registered
    <2>3. CASE entries[e.name] = NoEntry /\ Tail(batch[t]) = <<>>
      <3>1. /\ pc' = [pc EXCEPT ![t] = "idle"]
            /\ batch' = [batch EXCEPT ![t] = <<>>]
            /\ must' = [must EXCEPT ![t] = FALSE]
            /\ aborted' \in {aborted, "mustregister"}
            /\ entries' = [entries EXCEPT ![e.name] = e]
            /\ okRegs' = okRegs \cup {e}
        BY <1>7, <2>3 DEF RegCommit, RegReturn
      <3>2. QED
        BY <2>1, <2>3, <3>1, Assumptions DEF TypeOK, BatchInv, LockInv, PCs, Lookups, NoArg, Registering, Checked, Locked, Reading, Registered
    <2>4. CASE entries[e.name] = NoEntry /\ Tail(batch[t]) # <<>>
      <3>1. /\ pc' = [pc EXCEPT ![t] = "reg_check"]
            /\ batch' = [batch EXCEPT ![t] = Tail(batch[t])]
            /\ UNCHANGED <<must, aborted>>
            /\ entries' = [entries EXCEPT ![e.name] = e]
            /\ okRegs' = okRegs \cup {e}
        BY <1>7, <2>4 DEF RegCommit
      <3>2. Tail(batch[t]) \in Seq(LogTypes)
        BY <2>1, Assumptions DEF TypeOK, BatchInv, LockInv, PCs, Lookups, NoArg, Registering, Checked, Locked, Reading, Registered
      <3>3. QED
        BY <2>1, <2>4, <3>1, <3>2, Assumptions DEF TypeOK, BatchInv, LockInv, PCs, Lookups, NoArg, Registering, Checked, Locked, Reading, Registered
    <2>5. QED
      BY <2>2, <2>3, <2>4
  <1>8. ASSUME NEW t \in Threads, NEW n \in Names, NEW how \in Lookups,
               CallGet(t, n, how)
        PROVE LockInv'
    BY <1>8, Assumptions DEF CallGet, TypeOK, BatchInv, LockInv, PCs, Lookups, NoArg, Registering, Checked, Locked, Reading, Registered
  <1>9. ASSUME NEW t \in Threads,
               GetRLock(t)
        PROVE LockInv'
    BY <1>9, Assumptions DEF GetRLock, TypeOK, BatchInv, LockInv, PCs, Lookups, NoArg, Registering, Checked, Locked, Reading, Registered
  <1>10. ASSUME NEW t \in Threads,
               GetRead(t)
        PROVE LockInv'
    BY <1>10, Assumptions DEF GetRead, TypeOK, BatchInv, LockInv, PCs, Lookups, NoArg, Registering, Checked, Locked, Reading, Registered
  <1>11. ASSUME NEW t \in Threads,
               CallLogTypes(t)
        PROVE LockInv'
    BY <1>11, Assumptions DEF CallLogTypes, TypeOK, BatchInv, LockInv, PCs, Lookups, NoArg, Registering, Checked, Locked, Reading, Registered
  <1>12. ASSUME NEW t \in Threads,
               LTRLock(t)
        PROVE LockInv'
    BY <1>12, Assumptions DEF LTRLock, TypeOK, BatchInv, LockInv, PCs, Lookups, NoArg, Registering, Checked, Locked, Reading, Registered
  <1>13. ASSUME NEW t \in Threads,
               LTNext(t)
        PROVE LockInv'
    BY <1>13, Assumptions DEF LTNext, Visited, TypeOK, BatchInv, LockInv, PCs, Lookups, NoArg, Registering, Checked, Locked, Reading, Registered
  <1>14. ASSUME NEW t \in Threads,
               LTDone(t)
        PROVE LockInv'
    BY <1>14, Assumptions DEF LTDone, Visited, TypeOK, BatchInv, LockInv, PCs, Lookups, NoArg, Registering, Checked, Locked, Reading, Registered
  <1>15. QED
    BY <1>1, <1>2, <1>3, <1>4, <1>5, <1>6, <1>7, <1>8, <1>9, <1>10, <1>11, <1>12, <1>13, <1>14 DEF Next, Step

\* The map invariant and first-registration-wins are inductive.
LEMMA MapStep == TypeOK /\ BatchInv /\ LockInv /\ MapInv /\ FirstRegistrationWins /\ [Next]_vars => MapInv' /\ FirstRegistrationWins'
  <1> SUFFICES ASSUME TypeOK, BatchInv, LockInv, MapInv, FirstRegistrationWins, [Next]_vars PROVE MapInv' /\ FirstRegistrationWins'
    OBVIOUS
  <1>1. CASE UNCHANGED vars
    BY <1>1 DEF vars, TypeOK, BatchInv, LockInv, MapInv, FirstRegistrationWins, PCs, Lookups, NoArg, Registering, Checked, Locked, Reading, Registered
  <1>2. CASE Halted
    BY <1>2 DEF Halted, vars, TypeOK, BatchInv, LockInv, MapInv, FirstRegistrationWins, PCs, Lookups, NoArg, Registering, Checked, Locked, Reading, Registered
  <1>3. ASSUME NEW t \in Threads, NEW b \in Batches, NEW m \in BOOLEAN,
               CallRegister(t, b, m)
        PROVE MapInv' /\ FirstRegistrationWins'
    BY <1>3, Assumptions DEF CallRegister, TypeOK, BatchInv, LockInv, MapInv, FirstRegistrationWins, PCs, Lookups, NoArg, Registering, Checked, Locked, Reading, Registered
  <1>4. ASSUME NEW t \in Threads,
               RegCheck(t)
        PROVE MapInv' /\ FirstRegistrationWins'
    <2>1. CASE Check(Head(batch[t]))
      <3>1. /\ pc[t] = "reg_check"
            /\ pc' = [pc EXCEPT ![t] = "reg_lock"]
            /\ UNCHANGED <<batch, must, aborted, entries, writer, readers, arg, seen, listed, known, okRegs>>
        BY <1>4, <2>1 DEF RegCheck
      <3>2. QED
        BY <2>1, <3>1, Assumptions DEF TypeOK, BatchInv, LockInv, MapInv, FirstRegistrationWins, PCs, Lookups, NoArg, Registering, Checked, Locked, Reading, Registered
    <2>2. CASE ~Check(Head(batch[t]))
      <3>1. /\ pc[t] = "reg_check"
            /\ pc' = [pc EXCEPT ![t] = "idle"]
            /\ batch' = [batch EXCEPT ![t] = <<>>]
            /\ must' = [must EXCEPT ![t] = FALSE]
            /\ aborted' \in {aborted, "mustregister"}
            /\ UNCHANGED <<entries, writer, readers, arg, seen, listed, known, okRegs>>
        BY <1>4, <2>2 DEF RegCheck, RegReturn
      <3>2. QED
        BY <3>1, Assumptions DEF TypeOK, BatchInv, LockInv, MapInv, FirstRegistrationWins, PCs, Lookups, NoArg, Registering, Checked, Locked, Reading, Registered
    <2>3. QED
      BY <2>1, <2>2
  <1>5. ASSUME NEW t \in Threads,
               RegLock(t)
        PROVE MapInv' /\ FirstRegistrationWins'
    BY <1>5, Assumptions DEF RegLock, TypeOK, BatchInv, LockInv, MapInv, FirstRegistrationWins, PCs, Lookups, NoArg, Registering, Checked, Locked, Reading, Registered
  <1>6. ASSUME NEW t \in Threads,
               RegDrain(t)
        PROVE MapInv' /\ FirstRegistrationWins'
    BY <1>6, Assumptions DEF RegDrain, TypeOK, BatchInv, LockInv, MapInv, FirstRegistrationWins, PCs, Lookups, NoArg, Registering, Checked, Locked, Reading, Registered
  <1>7. ASSUME NEW t \in Threads,
               RegCommit(t)
        PROVE MapInv' /\ FirstRegistrationWins'
    <2> DEFINE e == Head(batch[t])
    <2>1. pc[t] = "reg_cs" /\ e \in LogTypes /\ e.name \in Names /\ writer' = NoThread
          /\ UNCHANGED <<readers, arg, seen, listed, known>>
      BY <1>7, Assumptions DEF RegCommit, Check, TypeOK, BatchInv, LockInv, MapInv, FirstRegistrationWins, PCs, Lookups, NoArg, Registering, Checked, Locked, Reading, Registered
    <2>2. CASE entries[e.name] # NoEntry
      <3>1. /\ pc' = [pc EXCEPT ![t] = "idle"]
            /\ batch' = [batch EXCEPT ![t] = <<>>]
            /\ must' = [must EXCEPT ![t] = FALSE]
            /\ aborted' \in {aborted, "mustregister"}
            /\ UNCHANGED <<entries, okRegs>>
        BY <1>7, <2>2 DEF RegCommit, RegReturn
      <3>2. QED
        BY <2>1, <2>2, <3>1, Assumptions DEF TypeOK, BatchInv, LockInv, MapInv, FirstRegistrationWins, PCs, Lookups, NoArg, Registering, Checked, Locked, Reading, Registered
    <2>3. CASE entries[e.name] = NoEntry /\ Tail(batch[t]) = <<>>
      <3>1. /\ pc' = [pc EXCEPT ![t] = "idle"]
            /\ batch' = [batch EXCEPT ![t] = <<>>]
            /\ must' = [must EXCEPT ![t] = FALSE]
            /\ aborted' \in {aborted, "mustregister"}
            /\ entries' = [entries EXCEPT ![e.name] = e]
            /\ okRegs' = okRegs \cup {e}
        BY <1>7, <2>3 DEF RegCommit, RegReturn
      <3>2. QED
        BY <2>1, <2>3, <3>1, Assumptions DEF TypeOK, BatchInv, LockInv, MapInv, FirstRegistrationWins, PCs, Lookups, NoArg, Registering, Checked, Locked, Reading, Registered
    <2>4. CASE entries[e.name] = NoEntry /\ Tail(batch[t]) # <<>>
      <3>1. /\ pc' = [pc EXCEPT ![t] = "reg_check"]
            /\ batch' = [batch EXCEPT ![t] = Tail(batch[t])]
            /\ UNCHANGED <<must, aborted>>
            /\ entries' = [entries EXCEPT ![e.name] = e]
            /\ okRegs' = okRegs \cup {e}
        BY <1>7, <2>4 DEF RegCommit
      <3>2. Tail(batch[t]) \in Seq(LogTypes)
        BY <2>1, Assumptions DEF TypeOK, BatchInv, LockInv, MapInv, FirstRegistrationWins, PCs, Lookups, NoArg, Registering, Checked, Locked, Reading, Registered
      <3>3. QED
        BY <2>1, <2>4, <3>1, <3>2, Assumptions DEF TypeOK, BatchInv, LockInv, MapInv, FirstRegistrationWins, PCs, Lookups, NoArg, Registering, Checked, Locked, Reading, Registered
    <2>5. QED
      BY <2>2, <2>3, <2>4
  <1>8. ASSUME NEW t \in Threads, NEW n \in Names, NEW how \in Lookups,
               CallGet(t, n, how)
        PROVE MapInv' /\ FirstRegistrationWins'
    BY <1>8, Assumptions DEF CallGet, TypeOK, BatchInv, LockInv, MapInv, FirstRegistrationWins, PCs, Lookups, NoArg, Registering, Checked, Locked, Reading, Registered
  <1>9. ASSUME NEW t \in Threads,
               GetRLock(t)
        PROVE MapInv' /\ FirstRegistrationWins'
    BY <1>9, Assumptions DEF GetRLock, TypeOK, BatchInv, LockInv, MapInv, FirstRegistrationWins, PCs, Lookups, NoArg, Registering, Checked, Locked, Reading, Registered
  <1>10. ASSUME NEW t \in Threads,
               GetRead(t)
        PROVE MapInv' /\ FirstRegistrationWins'
    BY <1>10, Assumptions DEF GetRead, TypeOK, BatchInv, LockInv, MapInv, FirstRegistrationWins, PCs, Lookups, NoArg, Registering, Checked, Locked, Reading, Registered
  <1>11. ASSUME NEW t \in Threads,
               CallLogTypes(t)
        PROVE MapInv' /\ FirstRegistrationWins'
    BY <1>11, Assumptions DEF CallLogTypes, TypeOK, BatchInv, LockInv, MapInv, FirstRegistrationWins, PCs, Lookups, NoArg, Registering, Checked, Locked, Reading, Registered
  <1>12. ASSUME NEW t \in Threads,
               LTRLock(t)
        PROVE MapInv' /\ FirstRegistrationWins'
    BY <1>12, Assumptions DEF LTRLock, TypeOK, BatchInv, LockInv, MapInv, FirstRegistrationWins, PCs, Lookups, NoArg, Registering, Checked, Locked, Reading, Registered
  <1>13. ASSUME NEW t \in Threads,
               LTNext(t)
        PROVE MapInv' /\ FirstRegistrationWins'
    BY <1>13, Assumptions DEF LTNext, Visited, TypeOK, BatchInv, LockInv, MapInv, FirstRegistrationWins, PCs, Lookups, NoArg, Registering, Checked, Locked, Reading, Registered
  <1>14. ASSUME NEW t \in Threads,
               LTDone(t)
        PROVE MapInv' /\ FirstRegistrationWins'
    BY <1>14, Assumptions DEF LTDone, Visited, TypeOK, BatchInv, LockInv, MapInv, FirstRegistrationWins, PCs, Lookups, NoArg, Registering, Checked, Locked, Reading, Registered
  <1>15. QED
    BY <1>1, <1>2, <1>3, <1>4, <1>5, <1>6, <1>7, <1>8, <1>9, <1>10, <1>11, <1>12, <1>13, <1>14 DEF Next, Step

LEMMA NextIInv == IInv /\ [Next]_vars => IInv'
  BY TypeStep, LockStep, MapStep DEF IInv

-----------------------------------------------------------------------------
(* Which steps touch the map and the LogTypes results.                     *)

\* Only RegCommit changes the map and only LTDone a LogTypes result.
LEMMA FrameStep ==
  ASSUME [Next]_vars
  PROVE  \/ UNCHANGED <<entries, listed>>
         \/ \E t \in Threads : RegCommit(t)
         \/ \E t \in Threads : LTDone(t)
  <1>1. ASSUME NEW t \in Threads, Step(t)
        PROVE  \/ UNCHANGED <<entries, listed>>
               \/ RegCommit(t)
               \/ LTDone(t)
    BY <1>1 DEF Step, CallRegister, RegCheck, RegLock, RegDrain, CallGet,
               GetRLock, GetRead, CallLogTypes, LTRLock, LTNext
  <1>2. QED
    BY <1>1 DEF Next, Halted, vars

\* The effect of a RegCommit that inserts, and of one that does not.
LEMMA CommitEffect ==
  ASSUME TypeOK, BatchInv, NEW t \in Threads, RegCommit(t)
  PROVE  LET e == Head(batch[t]) IN
         /\ pc[t] = "reg_cs" /\ e \in LogTypes /\ e.name \in Names /\ Check(e)
         /\ UNCHANGED listed
         /\ \/ UNCHANGED <<entries, okRegs>>
            \/ /\ entries[e.name] = NoEntry
               /\ entries' = [entries EXCEPT ![e.name] = e]
               /\ okRegs' = okRegs \cup {e}
  <1> DEFINE e == Head(batch[t])
  <1>1. pc[t] = "reg_cs" /\ batch[t] # <<>> /\ Check(e)
    BY DEF RegCommit, BatchInv, Checked, Registering
  <1>2. e \in LogTypes /\ e.name \in Names
    BY <1>1, Assumptions DEF TypeOK, Check
  <1>3. QED
    BY <1>1, <1>2 DEF RegCommit, RegReturn

\* The entries that a LogTypes loop has copied are the map's, so once it
\* has visited every registered name it holds exactly the map's content.
LEMMA SnapshotIsMap ==
  ASSUME TypeOK, MapInv, NEW t \in Threads, pc[t] = "lt_iter",
         Registered \subseteq Visited(t)
  PROVE  seen[t] = {entries[n] : n \in Registered}
  <1>1. ASSUME NEW e \in seen[t] PROVE e.name \in Registered /\ entries[e.name] = e
    BY Assumptions DEF TypeOK, MapInv, Registered
  <1>2. ASSUME NEW n \in Registered PROVE entries[n] \in seen[t]
    <2>1. PICK e \in seen[t] : e.name = n
      BY DEF Visited
    <2>2. QED
      BY <2>1 DEF MapInv
  <1>3. QED
    BY <1>1, <1>2

\* A registered name stays registered, with the same entry.
LEMMA AppendStep ==
  ASSUME TypeOK, BatchInv, [Next]_vars
  PROVE  \A n \in Registered : entries'[n] = entries[n]
  <1> SUFFICES ASSUME NEW n \in Registered PROVE entries'[n] = entries[n]
    OBVIOUS
  <1>1. CASE UNCHANGED <<entries, listed>>
    BY <1>1
  <1>2. ASSUME NEW t \in Threads, RegCommit(t) PROVE entries'[n] = entries[n]
    <2> DEFINE e == Head(batch[t])
    <2>1. \/ UNCHANGED <<entries, okRegs>>
          \/ entries[e.name] = NoEntry /\ entries' = [entries EXCEPT ![e.name] = e]
      BY <1>2, CommitEffect
    <2>2. QED
      BY <2>1 DEF Registered, TypeOK
  <1>3. ASSUME NEW t \in Threads, LTDone(t) PROVE entries'[n] = entries[n]
    BY <1>3 DEF LTDone
  <1>4. QED
    BY <1>1, <1>2, <1>3, FrameStep

\* Hence the set of registered names only grows.
LEMMA RegisteredGrows ==
  ASSUME TypeOK, BatchInv, [Next]_vars
  PROVE  Registered \subseteq Registered'
  BY AppendStep DEF Registered

-----------------------------------------------------------------------------
(* MustGet never misses.                                                   *)

\* KnownInv is inductive, given IInv.
LEMMA KnownStep == IInv /\ KnownInv /\ [Next]_vars => KnownInv'
  <1> SUFFICES ASSUME IInv, KnownInv, [Next]_vars PROVE KnownInv'
    OBVIOUS
  <1>0. Registered \subseteq Registered' /\ TypeOK /\ MapInv
    BY RegisteredGrows DEF IInv
  <1>1. CASE UNCHANGED vars
    BY <1>1 DEF vars, KnownInv, ListedNamesResolve, Registered
  <1>2. CASE Halted
    BY <1>2 DEF Halted, vars, KnownInv, ListedNamesResolve, Registered
  <1>3. ASSUME NEW t \in Threads, NEW b \in Batches, NEW m \in BOOLEAN,
               CallRegister(t, b, m)
        PROVE KnownInv'
    BY <1>0, <1>3 DEF CallRegister, KnownInv, ListedNamesResolve, TypeOK
  <1>4. ASSUME NEW t \in Threads,
               RegCheck(t)
        PROVE KnownInv'
    BY <1>0, <1>4 DEF RegCheck, RegReturn, KnownInv, ListedNamesResolve, TypeOK
  <1>5. ASSUME NEW t \in Threads,
               RegLock(t)
        PROVE KnownInv'
    BY <1>0, <1>5 DEF RegLock, KnownInv, ListedNamesResolve, TypeOK
  <1>6. ASSUME NEW t \in Threads,
               RegDrain(t)
        PROVE KnownInv'
    BY <1>0, <1>6 DEF RegDrain, KnownInv, ListedNamesResolve, TypeOK
  <1>7. ASSUME NEW t \in Threads,
               RegCommit(t)
        PROVE KnownInv'
    BY <1>0, <1>7 DEF RegCommit, RegReturn, KnownInv, ListedNamesResolve, TypeOK
  <1>8. ASSUME NEW t \in Threads, NEW n \in Names, NEW how \in Lookups,
               CallGet(t, n, how)
        PROVE KnownInv'
    BY <1>0, <1>8 DEF CallGet, KnownInv, ListedNamesResolve, TypeOK
  <1>9. ASSUME NEW t \in Threads,
               GetRLock(t)
        PROVE KnownInv'
    BY <1>0, <1>9 DEF GetRLock, KnownInv, ListedNamesResolve, TypeOK
  <1>10. ASSUME NEW t \in Threads,
               GetRead(t)
        PROVE KnownInv'
    <2> DEFINE nm == arg[t].name
    <2>1. /\ nm \in Names /\ pc[t] = "get_read" /\ pc'[t] = "idle"
          /\ UNCHANGED <<entries, arg>> \/ arg' = [arg EXCEPT ![t] = NoArg]
      BY <1>0, <1>10 DEF GetRead, TypeOK
    <2>2. \A u \in Threads : known'[u] \subseteq Registered'
      BY <1>0, <1>10, <2>1 DEF GetRead, KnownInv, TypeOK, Registered
    <2>3. \A u \in Threads :
            pc'[u] \in {"get_rlock", "get_read"} /\ arg'[u].how = "mustget"
              => arg'[u].name \in Registered'
      BY <1>0, <1>10, <2>1 DEF GetRead, KnownInv, TypeOK
    <2>4. ListedNamesResolve'
      BY <1>0, <1>10, <2>1 DEF GetRead, KnownInv, ListedNamesResolve, TypeOK,
         Registered
    <2>5. QED
      BY <2>2, <2>3, <2>4 DEF KnownInv
  <1>11. ASSUME NEW t \in Threads,
               CallLogTypes(t)
        PROVE KnownInv'
    BY <1>0, <1>11 DEF CallLogTypes, KnownInv, ListedNamesResolve, TypeOK
  <1>12. ASSUME NEW t \in Threads,
               LTRLock(t)
        PROVE KnownInv'
    BY <1>0, <1>12 DEF LTRLock, KnownInv, ListedNamesResolve, TypeOK
  <1>13. ASSUME NEW t \in Threads,
               LTNext(t)
        PROVE KnownInv'
    BY <1>0, <1>13 DEF LTNext, KnownInv, ListedNamesResolve, TypeOK
  <1>14. ASSUME NEW t \in Threads,
               LTDone(t)
        PROVE KnownInv'
    <2>1. Visited(t) \subseteq Registered
      BY <1>0, <1>14, Assumptions DEF LTDone, Visited, MapInv, Registered,
         TypeOK
    <2>2. QED
      BY <1>0, <1>14, <2>1 DEF LTDone, KnownInv, ListedNamesResolve, TypeOK
  <1>15. QED
    BY <1>1, <1>2, <1>3, <1>4, <1>5, <1>6, <1>7, <1>8, <1>9, <1>10, <1>11, <1>12, <1>13, <1>14 DEF Next, Step

LEMMA InitKnown == Init => KnownInv
  BY DEF Init, KnownInv, ListedNamesResolve, Registered, NoArg

-----------------------------------------------------------------------------
(* Refinement of the atomic registry.                                      *)

\* Every step is a step of RegistryAbs on the map and the LogTypes results,
\* or leaves both alone.
LEMMA RefineStep == IInv /\ [Next]_vars => [Abs!Next]_<<entries, listed>>
  <1> SUFFICES ASSUME IInv, [Next]_vars PROVE [Abs!Next]_<<entries, listed>>
    OBVIOUS
  <1>0. TypeOK /\ BatchInv /\ MapInv
    BY DEF IInv
  <1>1. CASE UNCHANGED <<entries, listed>>
    BY <1>1
  <1>2. ASSUME NEW t \in Threads, RegCommit(t)
        PROVE  [Abs!Next]_<<entries, listed>>
    <2> DEFINE e == Head(batch[t])
    <2>1. /\ e \in LogTypes /\ Check(e) /\ UNCHANGED listed
          /\ \/ UNCHANGED entries
             \/ entries[e.name] = NoEntry /\ entries' = [entries EXCEPT ![e.name] = e]
      BY <1>0, <1>2, CommitEffect
    <2>2. QED
      BY <2>1 DEF Abs!Next, Abs!Accept, Abs!Check, Check
  <1>3. ASSUME NEW t \in Threads, LTDone(t)
        PROVE  [Abs!Next]_<<entries, listed>>
    <2>1. pc[t] = "lt_iter" /\ Registered \subseteq Visited(t)
          /\ listed' = [listed EXCEPT ![t] = seen[t]] /\ UNCHANGED entries
      BY <1>3 DEF LTDone
    <2>2. seen[t] = {entries[n] : n \in Registered}
      BY <1>0, <2>1, SnapshotIsMap
    <2>3. Abs!List(t)
      BY <2>1, <2>2 DEF Abs!List, Registered
    <2>4. QED
      BY <2>3 DEF Abs!Next
  <1>4. QED
    BY <1>1, <1>2, <1>3, FrameStep

-----------------------------------------------------------------------------
(* The theorems.                                                           *)

\* The strengthened invariant holds in every reachable state.
LEMMA Invariance == Spec => [](IInv /\ KnownInv)
  <1>1. Init => IInv /\ KnownInv
    BY InitIInv, InitKnown
  <1>2. IInv /\ KnownInv /\ [Next]_vars => IInv' /\ KnownInv'
    BY NextIInv, KnownStep
  <1>3. QED
    BY <1>1, <1>2, PTL DEF Spec

\* Every variable of the registry model keeps its type in every run.
THEOREM TypeCorrect == Spec => []TypeOK
  BY Invariance, PTL DEF IInv

\* Register's map write never overlaps a Get or LogTypes map read or another
\* Register's write: the RWMutex excludes Go's fatal concurrent map access.
THEOREM MutualExclusion == Spec => []NoDataRace
  <1>1. IInv => NoDataRace
    BY DEF IInv, LockInv, NoDataRace, TypeOK, Locked, Reading
  <1>2. QED
    BY <1>1, Invariance, PTL

\* For every name the map holds the one LogType whose Register returned nil,
\* however concurrent Register calls of the same name interleave.
THEOREM FirstRegistrationWinsHolds == Spec => []FirstRegistrationWins
  BY Invariance, PTL DEF IInv

\* MustGet of a name read back from Get or LogTypes never panics.
THEOREM MustGetNeverPanics == Spec => []ListedNamesResolve
  BY Invariance, PTL DEF KnownInv

\* The RWMutex registry implements the atomic registry of RegistryAbs.
THEOREM Refinement == Spec => AbsSpec
  <1>1. Init => Abs!Init
    BY DEF Init, Abs!Init
  <1>2. QED
    BY <1>1, RefineStep, Invariance, PTL DEF Spec, AbsSpec, Abs!Spec, Abs!vars

=============================================================================
