-------------------------- MODULE ScannerRefinement --------------------------
(***************************************************************************)
(* The pooled scanners of Scanner implement the private-decoder scanners   *)
(* of ScannerAbs.  A scanner's kept error is the Error of the iterator it  *)
(* holds (none when it holds none); its last scan is the input and the     *)
(* outcome.  The iterator pool, the allocation set and every iterator no   *)
(* scanner holds are hidden.                                               *)
(***************************************************************************)
EXTENDS Scanner

\* The error a scanner's own decoder keeps: that of the iterator it holds.
HeldError == [s \in Scanners |-> iter[s] # NoIter /\ iterErr[iter[s]]]

Abs == INSTANCE ScannerAbs WITH failed <- HeldError

\* However the JSONScanner, ScanValues and Close calls of different workers
\* interleave through the shared jsoniter pool, each scanner behaves as if
\* it owned its decoder: a scan fails exactly when its input is malformed
\* or this scanner failed since its last Close, and a failed scan is the
\* only thing that leaves the caller's slice in js.Values.
ScannerAbsSpec == Abs!Spec

=============================================================================
