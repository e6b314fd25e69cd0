------------------------------ MODULE ScannerAbs -----------------------------
(***************************************************************************)
(* What a scanJSON does as seen by the worker that owns it, with no pool:  *)
(* each scanner behaves as if it had a decoder of its own.  A ScanValues   *)
(* fails when its input is malformed, or when this scanner failed a scan   *)
(* since its last Close (jsoniter keeps an iterator's first error until    *)
(* the iterator is returned); a failed scan leaves the caller's slice in   *)
(* js.Values, and Close drops it and the error.                            *)
(***************************************************************************)
CONSTANTS Scanners

VARIABLES
  made,    \* scanners JSONScanner has returned
  failed,  \* the scanner's decoder holds an error
  Values,  \* js.Values: "nil" or "caller"
  last     \* each scanner's last ScanValues: its input and whether it failed

vars == <<made, failed, Values, last>>

Inputs == {"wellformed", "malformed"}

Init ==
  /\ made = {}
  /\ failed = [s \in Scanners |-> FALSE]
  /\ Values = [s \in Scanners |-> "nil"]
  /\ last = [s \in Scanners |-> [input |-> "none", err |-> FALSE]]

\* JSONScanner: a new scanner with a clean decoder.
JSONScanner(s) ==
  /\ s \notin made
  /\ made' = made \cup {s}
  /\ UNCHANGED <<failed, Values, last>>

\* ScanValues: fails on a malformed input or a kept error, and keeps it.
ScanValues(s, in) ==
  /\ s \in made
  /\ LET err == failed[s] \/ in = "malformed" IN
     /\ failed' = [failed EXCEPT ![s] = err]
     /\ Values' = [Values EXCEPT ![s] = IF err THEN "caller" ELSE "nil"]
     /\ last' = [last EXCEPT ![s] = [input |-> in, err |-> err]]
  /\ UNCHANGED made

\* Close: drop the error and the retained slice.
Close(s) ==
  /\ s \in made
  /\ failed' = [failed EXCEPT ![s] = FALSE]
  /\ Values' = [Values EXCEPT ![s] = "nil"]
  /\ UNCHANGED <<made, last>>

Next ==
  \/ \E s \in Scanners : JSONScanner(s)
  \/ \E s \in Scanners, in \in Inputs : ScanValues(s, in)
  \/ \E s \in Scanners : Close(s)

Spec == Init /\ [][Next]_vars

=============================================================================
