------------------------------ MODULE Service ------------------------------
(***************************************************************************)
(* What the service modules share.  A request is served by a thread, which *)
(* goes from one repository call to the next; each call is a transaction   *)
(* of its own, so that other threads run between two of them, and a call   *)
(* may be lost: the database refuses it or the process dies, and what the  *)
(* thread held in memory is gone.                                          *)
(***************************************************************************)
EXTENDS Naturals, Sequences, FiniteSets

CONSTANTS
  Thread,   \* threads that serve requests
  Lossy     \* whether calls may be lost

ASSUME ServiceAssumption == Lossy \in BOOLEAN
=============================================================================
