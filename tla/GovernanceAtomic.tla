-------------------------- MODULE GovernanceAtomic --------------------------
(***************************************************************************)
(* What the Governance_Layer promises: each decision happens in one step   *)
(* that changes the status of the fix, the live site and the captured      *)
(* BEFORE value together.  A write that was given up may still land later. *)
(* Governance implements it when one request is served at a time and no    *)
(* fault separates a confirmed write from its status.                      *)
(***************************************************************************)
EXTENDS Naturals

CONSTANTS Fix, AutoFix, Media, Value, TargetOf, Proposed, None

VARIABLES
  status,     \* [Fix -> status of the fix]
  live,       \* [Media -> Value], what the decisions made the site show
  captured    \* [Fix -> Value \cup {None}], what an applied fix replaced

avars == <<status, live, captured>>

AInit ==
  /\ status = [f \in Fix |-> "absent"]
  /\ live \in [Media -> Value]
  /\ captured = [f \in Fix |-> None]

Move(f, from, to) ==
  /\ status[f] = from
  /\ status' = [status EXCEPT ![f] = to]

Persist(batch) ==
  /\ \A f \in batch : status[f] = "absent"
  /\ status' = [f \in Fix |-> IF f \in batch THEN "pending" ELSE status[f]]
  /\ UNCHANGED <<live, captured>>

(* A report-only approval, or an automatic one that failed closed.         *)
Hold(f) == Move(f, "pending", "approved") /\ UNCHANGED <<live, captured>>

Reject(f) == Move(f, "pending", "rejected") /\ UNCHANGED <<live, captured>>

Apply(f) ==
  /\ f \in AutoFix /\ Move(f, "pending", "applied")
  /\ captured' = [captured EXCEPT ![f] = live[TargetOf[f]]]
  /\ live' = [live EXCEPT ![TargetOf[f]] = Proposed[f]]

Rollback(f) ==
  /\ f \in AutoFix /\ Move(f, "applied", "rolled_back")
  /\ live' = [live EXCEPT ![TargetOf[f]] = captured[f]]
  /\ UNCHANGED captured

(* WordPress performs a write whose reply came too late: the publication   *)
(* of a fix held meanwhile, or the restoration of one still applied.       *)
LandsLate(f) ==
  /\ f \in AutoFix /\ status[f] \notin {"absent", "pending", "rejected"}
  /\ live' = [live EXCEPT ![TargetOf[f]] = IF status[f] = "approved"
                                             THEN Proposed[f] ELSE captured[f]]
  /\ UNCHANGED <<status, captured>>

ANext ==
  \/ \E batch \in SUBSET Fix : Persist(batch)
  \/ \E f \in Fix : Hold(f) \/ Reject(f) \/ Apply(f) \/ Rollback(f)
                     \/ LandsLate(f)

ASpec == AInit /\ [][ANext]_avars
=============================================================================
