------------------------------ MODULE Scanner -------------------------------
(***************************************************************************)
(* The life cycle of the AWS value scanner of awslogs/extractor.go: each   *)
(* scanJSON holds a jsoniter.Iterator borrowed from the process-wide       *)
(* iterator pool of jsoniter.ConfigFastest, and the Values slice of the    *)
(* scan in progress.  A scanner is used by one goroutine at a time, but    *)
(* all scanners share the pool, so their JSONScanner, ScanValues and Close *)
(* calls interleave through it.                                            *)
(*                                                                         *)
(* The walk itself (Visit) is abstracted to its outcome: a malformed input *)
(* makes ReadObjectCB report an error on the iterator.  jsoniter semantics *)
(* used here: BorrowIterator takes a pooled iterator or allocates one and  *)
(* calls ResetBytes; ResetBytes replaces the buffer but leaves             *)
(* Iterator.Error as it was; ReportError keeps the first error;            *)
(* ReturnIterator clears Error and puts the iterator back in the pool.     *)
(***************************************************************************)
EXTENDS FiniteSets

CONSTANTS
  Scanners,  \* scanJSON values, each owned by one worker
  Iters,     \* the jsoniter.Iterator objects the pool can ever hand out
  NoIter     \* a nil *jsoniter.Iterator

ASSUME ScannersAssumption == Scanners # {}
ASSUME ItersAssumption == NoIter \notin Iters

\* What a caller passes to ScanValues: a JSON object, or bytes that fail to
\* decode.
Inputs == {"wellformed", "malformed"}
\* js.Values: nil, or the accumulator slice the caller passed in.
ValuesStates == {"nil", "caller"}

VARIABLES
  made,      \* scanners JSONScanner has returned
  iter,      \* js.iter
  Values,    \* js.Values
  iterErr,   \* Iterator.Error # nil, for each iterator
  pool,      \* iterators in the pool
  allocated, \* iterators the pool has ever allocated
  last       \* each scanner's last ScanValues: its input and its error

vars == <<made, iter, Values, iterErr, pool, allocated, last>>

NoScan == [input |-> "none", err |-> FALSE]

TypeOK ==
  /\ made \subseteq Scanners
  /\ iter \in [Scanners -> Iters \cup {NoIter}]
  /\ Values \in [Scanners -> ValuesStates]
  /\ iterErr \in [Iters -> BOOLEAN]
  /\ pool \subseteq allocated
  /\ allocated \subseteq Iters
  /\ last \in [Scanners -> [input : Inputs \cup {"none"}, err : BOOLEAN]]

Init ==
  /\ made = {}
  /\ iter = [s \in Scanners |-> NoIter]
  /\ Values = [s \in Scanners |-> "nil"]
  /\ iterErr = [i \in Iters |-> FALSE]
  /\ pool = {}
  /\ allocated = {}
  /\ last = [s \in Scanners |-> NoScan]

\* ConfigFastest.BorrowIterator: a pooled iterator, or a new one (sync.Pool
\* may also allocate when it holds some: its per-P caches are not shared).
Borrowable == pool \cup (Iters \ allocated)

-----------------------------------------------------------------------------
\* JSONScanner (lines 122-127): a scanner with a freshly borrowed iterator.
JSONScanner(s, i) ==
  /\ s \notin made
  /\ i \in Borrowable
  /\ made' = made \cup {s}
  /\ iter' = [iter EXCEPT ![s] = i]
  /\ pool' = pool \ {i}
  /\ allocated' = allocated \cup {i}
  /\ UNCHANGED <<Values, iterErr, last>>

\* ScanValues (lines 205-218): js.Values = values; borrow an iterator if
\* js.iter is nil, else ResetBytes (which keeps Iterator.Error); walk the
\* input; on an error return it and leave js.Values set, else hand the
\* values back and clear js.Values.
ScanValues(s, in) ==
  /\ s \in made
  /\ \E i \in IF iter[s] = NoIter THEN Borrowable ELSE {iter[s]} :
       LET err == iterErr[i] \/ in = "malformed" IN
       /\ iter' = [iter EXCEPT ![s] = i]
       /\ pool' = pool \ {i}
       /\ allocated' = allocated \cup {i}
       /\ iterErr' = [iterErr EXCEPT ![i] = err]
       /\ Values' = [Values EXCEPT ![s] = IF err THEN "caller" ELSE "nil"]
       /\ last' = [last EXCEPT ![s] = [input |-> in, err |-> err]]
  /\ UNCHANGED made

\* Mutant: Close returns the iterator to the pool but keeps js.iter.
CloseKeepsIter(s) ==
  /\ s \in made
  /\ iter[s] # NoIter
  /\ pool' = pool \cup {iter[s]}
  /\ iterErr' = [iterErr EXCEPT ![iter[s]] = FALSE]
  /\ Values' = [Values EXCEPT ![s] = "nil"]
  /\ UNCHANGED <<made, iter, allocated, last>>

\* Mutant: Close without the nil test hands a nil iterator to the pool.
CloseNoNilCheck(s) ==
  /\ s \in made
  /\ pool' = pool \cup {iter[s]}
  /\ iterErr' = IF iter[s] = NoIter THEN iterErr
                ELSE [iterErr EXCEPT ![iter[s]] = FALSE]
  /\ iter' = [iter EXCEPT ![s] = NoIter]
  /\ Values' = [Values EXCEPT ![s] = "nil"]
  /\ UNCHANGED <<made, allocated, last>>

\* Mutant: Close that forgets js.Values = nil.
CloseKeepsValues(s) ==
  /\ s \in made
  /\ iter' = [iter EXCEPT ![s] = NoIter]
  /\ pool' = IF iter[s] = NoIter THEN pool ELSE pool \cup {iter[s]}
  /\ iterErr' = IF iter[s] = NoIter THEN iterErr
                ELSE [iterErr EXCEPT ![iter[s]] = FALSE]
  /\ UNCHANGED <<made, allocated, last, Values>>

\* Close (lines 197-203): swap js.iter with nil, return a non-nil iterator
\* to the pool (ReturnIterator clears its Error), and drop js.Values.
Close(s) ==
  /\ s \in made
  /\ iter' = [iter EXCEPT ![s] = NoIter]
  /\ pool' = IF iter[s] = NoIter THEN pool ELSE pool \cup {iter[s]}
  /\ iterErr' = IF iter[s] = NoIter THEN iterErr
                ELSE [iterErr EXCEPT ![iter[s]] = FALSE]
  /\ Values' = [Values EXCEPT ![s] = "nil"]
  /\ UNCHANGED <<made, allocated, last>>

Next ==
  \/ \E s \in Scanners, i \in Iters : JSONScanner(s, i)
  \/ \E s \in Scanners, in \in Inputs : ScanValues(s, in)
  \/ \E s \in Scanners : Close(s)

Spec == Init /\ [][Next]_vars

-----------------------------------------------------------------------------
(* Properties.                                                             *)

\* The pool never hands one iterator to two scanners: an iterator a scanner
\* holds is held by no other and is not in the pool, however JSONScanner,
\* ScanValues and Close of different scanners interleave (an iterator
\* shared by two workers would mix their decode buffers).
IterExclusive ==
  \A s \in Scanners :
    /\ iter[s] # NoIter => iter[s] \notin pool
    /\ \A r \in Scanners \ {s} : iter[s] # NoIter => iter[r] # iter[s]

\* Spec 4.2 and 7: a scanner decode error aborts only the current record,
\* and pooled scanner state is reset before reuse: ScanValues of a
\* well-formed input returns no error.
WellFormedScansSucceed ==
  \A s \in Scanners : last[s].input = "wellformed" => ~last[s].err

\* Spec 4.2: the scanner must not retain a reference to the caller's
\* accumulator after ScanValues returns.
AccumulatorNotRetained ==
  \A s \in Scanners : Values[s] = "nil"

=============================================================================
