--------------------------- MODULE ScannerProofs ----------------------------
(***************************************************************************)
(* Proofs about the scanner life cycle, for any number of scanners and     *)
(* iterators: the pool never hands an iterator to two scanners, and each  *)
(* scanner behaves as if it owned its decoder (ScannerAbs).                *)
(***************************************************************************)
EXTENDS ScannerRefinement, TLAPS

\* A scanner JSONScanner has not returned yet holds no iterator; a held
\* iterator is allocated and out of the pool.
HeldInv ==
  \A s \in Scanners :
    /\ s \notin made => iter[s] = NoIter
    /\ iter[s] # NoIter => iter[s] \in allocated \ pool

\* Only a held iterator can carry an error: a pooled or never allocated
\* one is clean.
ErrInv == \A i \in Iters : iterErr[i] => \E s \in Scanners : iter[s] = i

Inv == TypeOK /\ HeldInv /\ IterExclusive /\ ErrInv

LEMMA InitInv == Init => Inv
  BY DEF Init, Inv, TypeOK, HeldInv, IterExclusive, ErrInv, NoScan, Inputs,
     ValuesStates

\* A borrowed iterator is held by nobody and carries no error.
LEMMA BorrowFree ==
  ASSUME TypeOK, HeldInv, ErrInv, NEW i \in Borrowable
  PROVE  /\ i \in Iters /\ ~iterErr[i]
         /\ \A s \in Scanners : iter[s] # i
  BY ItersAssumption DEF Borrowable, TypeOK, HeldInv, ErrInv

LEMMA JSONScannerStep ==
  ASSUME Inv, NEW s \in Scanners, NEW i \in Iters, JSONScanner(s, i)
  PROVE  Inv'
  <1>1. ~iterErr[i] /\ \A r \in Scanners : iter[r] # i
    BY BorrowFree DEF JSONScanner, Inv
  <1>2. iter[s] = NoIter
    BY DEF JSONScanner, Inv, HeldInv
  <1>3. QED
    BY <1>1, <1>2, ItersAssumption
       DEF JSONScanner, Inv, TypeOK, HeldInv, IterExclusive, ErrInv,
           Borrowable

LEMMA ScanValuesStep ==
  ASSUME Inv, NEW s \in Scanners, NEW in \in Inputs, ScanValues(s, in)
  PROVE  Inv'
  <1>1. PICK i \in IF iter[s] = NoIter THEN Borrowable ELSE {iter[s]} :
          LET err == iterErr[i] \/ in = "malformed" IN
          /\ iter' = [iter EXCEPT ![s] = i]
          /\ pool' = pool \ {i}
          /\ allocated' = allocated \cup {i}
          /\ iterErr' = [iterErr EXCEPT ![i] = err]
          /\ Values' = [Values EXCEPT ![s] = IF err THEN "caller" ELSE "nil"]
          /\ last' = [last EXCEPT ![s] = [input |-> in, err |-> err]]
    BY DEF ScanValues
  <1>2. /\ i \in Iters
        /\ iter[s] # NoIter => i = iter[s] /\ i \notin pool
        /\ \A r \in Scanners \ {s} : iter[r] # i
    <2>1. CASE iter[s] = NoIter
      <3>1. i \in Borrowable
        BY <1>1, <2>1
      <3>2. QED
        BY <3>1, <2>1, BorrowFree DEF Inv
    <2>2. CASE iter[s] # NoIter
      <3>1. i = iter[s]
        BY <1>1, <2>2
      <3>2. QED
        BY <3>1, <2>2 DEF Inv, TypeOK, HeldInv, IterExclusive, ErrInv
    <2>3. QED
      BY <2>1, <2>2
  <1>3. s \in made /\ UNCHANGED made
    BY DEF ScanValues
  <1> DEFINE err == iterErr[i] \/ in = "malformed"
  <1>4. TypeOK'
    BY <1>1, <1>2, <1>3 DEF Inv, TypeOK, Inputs, ValuesStates
  <1>5. HeldInv'
    BY <1>1, <1>2, <1>3 DEF Inv, TypeOK, HeldInv
  <1>6. IterExclusive'
    BY <1>1, <1>2, <1>3 DEF Inv, TypeOK, IterExclusive
  <1>7. ErrInv'
    <2>1. ASSUME NEW j \in Iters, iterErr'[j]
          PROVE  \E r \in Scanners : iter'[r] = j
      <3>1. CASE j = i
        BY <1>1, <3>1 DEF Inv, TypeOK
      <3>2. CASE j # i
        <4>1. PICK r \in Scanners : iter[r] = j
          BY <1>1, <2>1, <3>2 DEF Inv, TypeOK, ErrInv
        <4>2. r # s
          BY <1>2, <3>2, <4>1, ItersAssumption
        <4>3. QED
          BY <1>1, <4>1, <4>2 DEF Inv, TypeOK
      <3>3. QED
        BY <3>1, <3>2
    <2>2. QED
      BY <2>1 DEF ErrInv
  <1>8. QED
    BY <1>4, <1>5, <1>6, <1>7 DEF Inv

LEMMA CloseStep ==
  ASSUME Inv, NEW s \in Scanners, Close(s)
  PROVE  Inv'
  <1>1. CASE iter[s] = NoIter
    <2>1. /\ iter' = iter /\ pool' = pool /\ iterErr' = iterErr
          /\ Values' = [Values EXCEPT ![s] = "nil"]
          /\ UNCHANGED <<made, allocated, last>>
      BY <1>1 DEF Close, Inv, TypeOK
    <2>2. QED
      BY <1>1, <2>1 DEF Inv, TypeOK, HeldInv, IterExclusive, ErrInv,
         ValuesStates
  <1>2. CASE iter[s] # NoIter
    <2>1. /\ iter[s] \in allocated \ pool
          /\ \A r \in Scanners \ {s} : iter[r] # iter[s]
      BY <1>2 DEF Inv, HeldInv, IterExclusive
    <2>2. /\ iter' = [iter EXCEPT ![s] = NoIter]
          /\ pool' = pool \cup {iter[s]}
          /\ iterErr' = [iterErr EXCEPT ![iter[s]] = FALSE]
          /\ Values' = [Values EXCEPT ![s] = "nil"]
          /\ UNCHANGED <<made, allocated, last>>
      BY <1>2 DEF Close
    <2>3. QED
      BY <1>2, <2>1, <2>2, ItersAssumption
         DEF Inv, TypeOK, HeldInv, IterExclusive, ErrInv, ValuesStates
  <1>3. QED
    BY <1>1, <1>2

LEMMA NextInv == Inv /\ [Next]_vars => Inv'
  <1> SUFFICES ASSUME Inv, [Next]_vars PROVE Inv'
    OBVIOUS
  <1>1. CASE UNCHANGED vars
    BY <1>1 DEF vars, Inv, TypeOK, HeldInv, IterExclusive, ErrInv
  <1>2. QED
    BY <1>1, JSONScannerStep, ScanValuesStep, CloseStep DEF Next

-----------------------------------------------------------------------------
\* Every scanner variable keeps its type.
THEOREM ScannerTypeCorrect == Spec => []TypeOK
  <1>1. Inv => TypeOK
    BY DEF Inv
  <1>2. QED
    BY <1>1, InitInv, NextInv, PTL DEF Spec

\* Close, ScanValues and JSONScanner of any number of workers never leave
\* one iterator with two scanners, or with a scanner and the pool.
THEOREM PoolExclusive == Spec => []IterExclusive
  <1>1. Inv => IterExclusive
    BY DEF Inv
  <1>2. QED
    BY <1>1, InitInv, NextInv, PTL DEF Spec

-----------------------------------------------------------------------------
(* Refinement: each step of Scanner is a step of ScannerAbs under the     *)
(* mapping of ScannerRefinement, or leaves the mapped state unchanged.    *)

LEMMA InitRefines == Init => Abs!Init
  <1> SUFFICES ASSUME Init PROVE Abs!Init
    OBVIOUS
  <1>1. \A s \in Scanners : iter[s] = NoIter
    BY DEF Init
  <1>2. HeldError = [s \in Scanners |-> FALSE]
    BY <1>1 DEF HeldError
  <1>3. last = [s \in Scanners |-> [input |-> "none", err |-> FALSE]]
    BY DEF Init, NoScan
  <1>4. QED
    BY <1>2, <1>3 DEF Init, Abs!Init

LEMMA JSONScannerRefines ==
  ASSUME Inv, NEW s \in Scanners, NEW i \in Iters, JSONScanner(s, i)
  PROVE  Abs!JSONScanner(s)
  <1>1. ~iterErr[i] /\ iter[s] = NoIter
    BY BorrowFree DEF JSONScanner, Inv, HeldInv
  <1>2. HeldError' = HeldError
    BY <1>1 DEF JSONScanner, HeldError, Inv, TypeOK
  <1>3. QED
    BY <1>2 DEF JSONScanner, Abs!JSONScanner

LEMMA ScanValuesRefines ==
  ASSUME Inv, NEW s \in Scanners, NEW in \in Inputs, ScanValues(s, in)
  PROVE  Abs!ScanValues(s, in)
  <1>1. PICK i \in IF iter[s] = NoIter THEN Borrowable ELSE {iter[s]} :
          LET err == iterErr[i] \/ in = "malformed" IN
          /\ iter' = [iter EXCEPT ![s] = i]
          /\ iterErr' = [iterErr EXCEPT ![i] = err]
          /\ Values' = [Values EXCEPT ![s] = IF err THEN "caller" ELSE "nil"]
          /\ last' = [last EXCEPT ![s] = [input |-> in, err |-> err]]
    BY DEF ScanValues
  <1> DEFINE err == iterErr[i] \/ in = "malformed"
  <1>2. /\ i \in Iters
        /\ iterErr[i] = HeldError[s]
        /\ \A r \in Scanners \ {s} : iter[r] # i
    <2>1. CASE iter[s] = NoIter
      <3>1. i \in Borrowable
        BY <1>1, <2>1
      <3>2. i \in Iters /\ ~iterErr[i] /\ \A r \in Scanners : iter[r] # i
        BY <3>1, BorrowFree DEF Inv
      <3>3. ~HeldError[s]
        BY <2>1 DEF HeldError
      <3>4. iterErr[i] \in BOOLEAN /\ HeldError[s] \in BOOLEAN
        BY <3>2 DEF Inv, TypeOK, HeldError
      <3>5. QED
        BY <3>2, <3>3, <3>4
    <2>2. CASE iter[s] # NoIter
      <3>1. i = iter[s] /\ i \in Iters
        BY <1>1, <2>2 DEF Inv, TypeOK
      <3>2. HeldError[s] = iterErr[i]
        BY <3>1, <2>2 DEF HeldError, Inv, TypeOK
      <3>3. \A r \in Scanners \ {s} : iter[r] # i
        BY <3>1, <2>2 DEF Inv, IterExclusive
      <3>4. QED
        BY <3>1, <3>2, <3>3
    <2>3. QED
      BY <2>1, <2>2
  <1>3. HeldError' = [HeldError EXCEPT ![s] = err]
    BY <1>1, <1>2, ItersAssumption DEF Inv, TypeOK, HeldError
  <1>4. QED
    BY <1>1, <1>2, <1>3 DEF ScanValues, Abs!ScanValues

LEMMA CloseRefines ==
  ASSUME Inv, NEW s \in Scanners, Close(s)
  PROVE  Abs!Close(s)
  <1>1. HeldError' = [HeldError EXCEPT ![s] = FALSE]
    <2>1. CASE iter[s] = NoIter
      BY <2>1 DEF Close, Inv, TypeOK, HeldError
    <2>2. CASE iter[s] # NoIter
      <3>1. \A r \in Scanners \ {s} : iter[r] # iter[s]
        BY <2>2 DEF Inv, IterExclusive
      <3>2. QED
        BY <2>2, <3>1 DEF Close, Inv, TypeOK, HeldError
    <2>3. QED
      BY <2>1, <2>2
  <1>2. QED
    BY <1>1 DEF Close, Abs!Close

LEMMA NextRefines == Inv /\ [Next]_vars => [Abs!Next]_Abs!vars
  <1> SUFFICES ASSUME Inv, [Next]_vars PROVE [Abs!Next]_Abs!vars
    OBVIOUS
  <1>1. CASE \E s \in Scanners, i \in Iters : JSONScanner(s, i)
    BY <1>1, JSONScannerRefines DEF Abs!Next
  <1>2. CASE \E s \in Scanners, in \in Inputs : ScanValues(s, in)
    BY <1>2, ScanValuesRefines DEF Abs!Next, Abs!Inputs, Inputs
  <1>3. CASE \E s \in Scanners : Close(s)
    BY <1>3, CloseRefines DEF Abs!Next
  <1>4. CASE UNCHANGED vars
    BY <1>4 DEF vars, Abs!vars, HeldError
  <1>5. QED
    BY <1>1, <1>2, <1>3, <1>4 DEF Next

\* Under every interleaving of the workers' JSONScanner, ScanValues and
\* Close calls through the shared pool, each scanner behaves as if it had
\* a decoder of its own (ScannerAbs): its scans fail exactly on malformed
\* input or after its own failure since its last Close.
THEOREM ScannerRefines == Spec => ScannerAbsSpec
  BY InitInv, NextInv, InitRefines, NextRefines, PTL
     DEF Spec, ScannerAbsSpec, Abs!Spec

=============================================================================
