------------------------- MODULE RegistryRefinement -------------------------
(***************************************************************************)
(* The RWMutex-based registry of Registry implements the atomic registry   *)
(* of RegistryAbs: the map is the abstract map, and LogTypes' result is    *)
(* the abstract snapshot.  Each RegCommit that inserts is an Accept, each  *)
(* LTDone a List; every other step leaves both unchanged.                  *)
(***************************************************************************)
EXTENDS Registry

Abs == INSTANCE RegistryAbs WITH regs <- entries, listed <- listed

\* The registry, under every interleaving of Register, Get, MustGet,
\* NewParser and LogTypes calls, behaves as the atomic registry: only
\* checked LogTypes with a free name enter it, nothing leaves it, and the
\* slice LogTypes returns equals its whole content at one instant.
AbsSpec == Abs!Spec

=============================================================================
