----------------------------- MODULE MCScanner ------------------------------
(* Two workers' scanners sharing the iterator pool; three iterators, so    *)
(* that the pool can hand out a fresh iterator while it holds a returned   *)
(* one.                                                                    *)
EXTENDS ScannerRefinement

=============================================================================
