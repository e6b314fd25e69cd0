----------------------------- MODULE RegistryAbs ----------------------------
(***************************************************************************)
(* What the log-type registry promises (spec 3 and 4.5), with every call   *)
(* taking effect at one instant: a LogType is accepted only if Check()     *)
(* passes and its name is free, an accepted entry is never removed or      *)
(* replaced, and AvailableLogTypes returns a copy of all the entries the   *)
(* registry holds at one instant.                                          *)
(***************************************************************************)
CONSTANTS Threads, Names, LogTypes, NoName, NoEntry

VARIABLES
  regs,    \* name -> accepted LogType or NoEntry
  listed   \* goroutine -> the entries its last AvailableLogTypes returned

vars == <<regs, listed>>

Check(e) == e.name # NoName /\ e.check

Init ==
  /\ regs = [n \in Names |-> NoEntry]
  /\ listed = [t \in Threads |-> {}]

\* Register(e) accepts e.
Accept(e) ==
  /\ Check(e)
  /\ regs[e.name] = NoEntry
  /\ regs' = [regs EXCEPT ![e.name] = e]
  /\ UNCHANGED listed

\* AvailableLogTypes() by goroutine t.
List(t) ==
  /\ listed' = [listed EXCEPT ![t] = {regs[n] : n \in {m \in Names : regs[m] # NoEntry}}]
  /\ UNCHANGED regs

Next == (\E e \in LogTypes : Accept(e)) \/ (\E t \in Threads : List(t))

Spec == Init /\ [][Next]_vars

=============================================================================
