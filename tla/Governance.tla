----------------------------- MODULE Governance -----------------------------
(***************************************************************************)
(* The Governance_Layer: the decisions approve / reject / rollback on      *)
(* suggested fixes, as they run inside concurrent API requests.            *)
(*                                                                         *)
(* The API routes are synchronous functions, so each request runs on its   *)
(* own worker thread, and GovernanceService takes no lock.  A request is a *)
(* straight line of calls to three stores: the SuggestedFix rows, the      *)
(* Audit_Trail (each repository call is one database transaction) and the  *)
(* live WordPress site.  One action below is one such call together with   *)
(* the local computation up to the next; pc[r] names the call request r    *)
(* makes next.                                                             *)
(*                                                                         *)
(* Abstractions: values of the live field are an opaque set; the actor of  *)
(* an audit entry is the request that wrote it; the only live field is a   *)
(* media alt text, because no code under src/ generates an automatic fix   *)
(* of another type; the identifier check of the route and the one of       *)
(* _load_fix read the same, never deleted, row and are one read.           *)
(***************************************************************************)
EXTENDS Naturals, Sequences, FiniteSets

CONSTANTS
  Fix,          \* fix ids that may ever be persisted
  AutoFix,      \* those with auto_applicable = 1
  Media,        \* live media items of the WordPress site
  Value,        \* values of an alt text
  TargetOf,     \* [AutoFix -> Media], target_ref of a fix
  Proposed,     \* [AutoFix -> Value], proposed_value of a fix
  Request,      \* API requests
  None,         \* Python's None
  MaxActive,    \* how many requests may be in progress together
  MaxEdits,     \* how many edits are made in WordPress behind our back
  Faults        \* which faults the environment shows in a run

Operation == {"approve", "reject", "rollback"}
FaultKind == {"refused", "timeout", "bad_reply", "crash"}

ASSUME GovernanceAssumption ==
  /\ AutoFix \subseteq Fix
  /\ TargetOf \in [AutoFix -> Media]
  /\ Proposed \in [AutoFix -> Value]
  /\ None \notin Fix \cup Value \cup Operation
  /\ Faults \subseteq FaultKind
  /\ MaxActive \in Nat /\ MaxEdits \in Nat

VARIABLES
  status,      \* [Fix -> Status], the SuggestedFix rows ("absent": no row)
  audit,       \* the Audit_Trail, oldest entry first
  site,        \* [Media -> Value], the live alt texts
  pc,          \* [Request -> the next call of the request]
  op,          \* [Request -> Operation], what it was asked to do
  fix,         \* [Request -> Fix], and on which fix (None: not sent yet)
  before,      \* [Request -> Value \cup {None}], before_value
  inflight,    \* requests whose write timed out: WordPress may still do it
  edits        \* edits made in WordPress so far (bounded by MaxEdits)

vars == <<status, audit, site, pc, op, fix, before, inflight, edits>>

Decided == {"approved", "applied", "rejected", "rolled_back"}
Status  == Decided \cup {"absent", "pending"}
Transition == {"pending->approved", "pending->applied", "pending->rejected",
               "applied->rolled_back"}

(* How a request can end: 200; a typed decision error before any effect;   *)
(* a publishing error after failing closed; an unexpected error or the     *)
(* death of the process.                                                   *)
Ended == {"ok", "refused", "failed", "crashed"}
Running == {"load",
            "set_approved", "audit_approved",
            "read", "audit_applied", "write", "park", "set_applied",
            "set_rejected", "audit_rejected",
            "find", "restore", "set_rolled_back", "audit_rolled_back"}

AuditEntry == [fix : Fix, transition : Transition,
               before : Value \cup {None}, actor : Request]

Active == {r \in Request : pc[r] \in Running}
Goto(r, step) == pc' = [pc EXCEPT ![r] = step]
May(fault) == fault \in Faults

-----------------------------------------------------------------------------
(* The Audit_Trail and WordPress, as the service uses them.                *)

EntriesOf(f, transition) ==
  {i \in 1 .. Len(audit) :
     audit[i].fix = f /\ audit[i].transition = transition}

(* _find_applied_before_value: the trail is listed most recent first, so   *)
(* the first match is the latest capture.                                  *)
AppliedBefore(f) ==
  LET captures == EntriesOf(f, "pending->applied")
  IN  IF captures = {}
        THEN None
        ELSE audit[CHOOSE i \in captures :
                     \A j \in captures : j <= i].before

(* One write request to WordPress by r, which goes to next when the reply  *)
(* confirms it and to onError on a PublishingError.  A refusal and a       *)
(* missing credential have no effect; after a timeout WordPress may still  *)
(* perform the write, see LateWrite; a reply that cannot be parsed raises  *)
(* an error that is no PublishingError and leaves the request there.       *)
Publish(r, value, next, onError) ==
  LET target == TargetOf[fix[r]]
      Land   == site' = [site EXCEPT ![target] = value]
  IN  \/ Land /\ Goto(r, next) /\ UNCHANGED inflight
      \/ May("refused") /\ Goto(r, onError) /\ UNCHANGED <<site, inflight>>
      \/ /\ May("timeout") /\ Goto(r, onError)
         /\ inflight' = inflight \cup {r} /\ UNCHANGED site
      \/ May("bad_reply") /\ Land /\ Goto(r, "crashed") /\ UNCHANGED inflight

-----------------------------------------------------------------------------
Init ==
  /\ status = [f \in Fix |-> "absent"]
  /\ audit = <<>>
  /\ site \in [Media -> Value]
  /\ pc = [r \in Request |-> "idle"]
  /\ op = [r \in Request |-> None]
  /\ fix = [r \in Request |-> None]
  /\ before = [r \in Request |-> None]
  /\ inflight = {}
  /\ edits = 0

(* persist_fixes, called by a crawl: the batch is inserted as pending.     *)
PersistFixes(batch) ==
  /\ batch # {} /\ \A f \in batch : status[f] = "absent"
  /\ status' = [f \in Fix |-> IF f \in batch THEN "pending" ELSE status[f]]
  /\ UNCHANGED <<audit, site, pc, op, fix, before, inflight, edits>>

(* A request arrives: _validate_inputs rejects a blank actor or rationale  *)
(* before any load.                                                        *)
Submit(r, o, f, valid) ==
  /\ pc[r] = "idle"
  /\ Cardinality(Active) < MaxActive
  /\ op' = [op EXCEPT ![r] = o]
  /\ fix' = [fix EXCEPT ![r] = f]
  /\ Goto(r, IF valid THEN "load" ELSE "refused")
  /\ UNCHANGED <<status, audit, site, before, inflight, edits>>

(* _load_fix with the guards on the loaded record: _ensure_pending for a   *)
(* decision, "status is not APPLIED" for a rollback.  The record is not    *)
(* read again.                                                             *)
AdmittedIfPersisted(r) == status[fix[r]] # "absent"  \* mutant: no guard
Admitted(r) ==
  status[fix[r]] = IF op[r] = "rollback" THEN "applied" ELSE "pending"

FirstCall(r) ==
  CASE op[r] = "reject"   -> "set_rejected"
    [] op[r] = "rollback" -> "find"
    [] OTHER -> IF fix[r] \in AutoFix THEN "read" ELSE "set_approved"

Load(r) ==
  /\ pc[r] = "load"
  /\ Goto(r, IF Admitted(r) THEN FirstCall(r) ELSE "refused")
  /\ UNCHANGED <<status, audit, site, op, fix, before, inflight, edits>>

(* One transaction on the SuggestedFix row, one on the Audit_Trail, and    *)
(* one read of the live value.                                             *)
StatusStep(r, at, s, next) ==
  /\ pc[r] = at
  /\ status' = [status EXCEPT ![fix[r]] = s]
  /\ Goto(r, next)
  /\ UNCHANGED <<audit, site, op, fix, before, inflight, edits>>

AuditStep(r, at, transition, value, next) ==
  /\ pc[r] = at
  /\ audit' = Append(audit, [fix |-> fix[r], transition |-> transition,
                             before |-> value, actor |-> r])
  /\ Goto(r, next)
  /\ UNCHANGED <<status, site, op, fix, before, inflight, edits>>

ReadStep(r, at, next, onError) ==
  /\ pc[r] = at
  /\ \/ /\ before' = [before EXCEPT ![r] = site[TargetOf[fix[r]]]]
        /\ Goto(r, next)
     \/ /\ May("refused") \/ May("timeout")
        /\ Goto(r, onError) /\ UNCHANGED before
     \/ May("bad_reply") /\ Goto(r, "crashed") /\ UNCHANGED before
  /\ UNCHANGED <<status, audit, site, op, fix, inflight, edits>>

(* _approve_report_only *)
SetApproved(r) == StatusStep(r, "set_approved", "approved", "audit_approved")
AuditApproved(r) ==
  AuditStep(r, "audit_approved", "pending->approved", None, "ok")

(* _approve_auto_applicable: 1. read the live value; 2. capture it in the  *)
(* trail; 3. write; 4. set the status.  _fail_closed_to_approved parks the *)
(* fix before the error is raised again.                                   *)
ReadBeforeUncaptured(r) == ReadStep(r, "read", "write", "park")  \* mutant
ReadBeforeUnparked(r) == ReadStep(r, "read", "audit_applied", "failed")  \* too
ReadBefore(r) == ReadStep(r, "read", "audit_applied", "park")
AuditAppliedBlank(r) ==  \* mutant: before_value left out
  AuditStep(r, "audit_applied", "pending->applied", None, "write")
AuditApplied(r) ==
  AuditStep(r, "audit_applied", "pending->applied", before[r], "write")
WriteProposed(r) ==
  /\ pc[r] = "write"
  /\ Publish(r, Proposed[fix[r]], "set_applied", "park")
  /\ UNCHANGED <<status, audit, op, fix, before, edits>>
SetApplied(r) == StatusStep(r, "set_applied", "applied", "ok")
Park(r) == StatusStep(r, "park", "approved", "failed")

(* reject_fix *)
SetRejectedSilently(r) ==  \* mutant: no entry
  StatusStep(r, "set_rejected", "rejected", "ok")
SetRejected(r) == StatusStep(r, "set_rejected", "rejected", "audit_rejected")
AuditRejected(r) ==
  AuditStep(r, "audit_rejected", "pending->rejected", None, "ok")

(* rollback_fix: list_audit_entries and precondition 2; write the value    *)
(* back, the status being held on a PublishingError; set the status; audit.*)
FindBefore(r) ==
  LET captured == AppliedBefore(fix[r]) IN
  /\ pc[r] = "find"
  /\ before' = [before EXCEPT ![r] = captured]
  /\ Goto(r, IF captured = None THEN "refused" ELSE "restore")
  /\ UNCHANGED <<status, audit, site, op, fix, inflight, edits>>
RestoreUnchecked(r) ==  \* mutant: the write error is swallowed
  /\ pc[r] = "restore"
  /\ Publish(r, before[r], "set_rolled_back", "set_rolled_back")
  /\ UNCHANGED <<status, audit, op, fix, before, edits>>
Restore(r) ==
  /\ pc[r] = "restore"
  /\ Publish(r, before[r], "set_rolled_back", "failed")
  /\ UNCHANGED <<status, audit, op, fix, before, edits>>
SetRolledBack(r) ==
  StatusStep(r, "set_rolled_back", "rolled_back", "audit_rolled_back")
AuditRolledBack(r) ==
  AuditStep(r, "audit_rolled_back", "applied->rolled_back", before[r], "ok")

(* A repository call fails (its transaction is rolled back and the error   *)
(* leaves the request) or the process dies: nothing resumes the request.   *)
Crash(r) ==
  /\ May("crash") /\ pc[r] \in Running
  /\ Goto(r, "crashed")
  /\ UNCHANGED <<status, audit, site, op, fix, before, inflight, edits>>

(* WordPress performs a write whose reply timed out. *)
LateWrite(r) ==
  /\ r \in inflight
  /\ site' = [site EXCEPT ![TargetOf[fix[r]]] =
                IF op[r] = "rollback" THEN before[r] ELSE Proposed[fix[r]]]
  /\ inflight' = inflight \ {r}
  /\ UNCHANGED <<status, audit, pc, op, fix, before, edits>>

(* An editor changes the alt text in WordPress itself. *)
EditSite(m, value) ==
  /\ edits < MaxEdits
  /\ site' = [site EXCEPT ![m] = value]
  /\ edits' = edits + 1
  /\ UNCHANGED <<status, audit, pc, op, fix, before, inflight>>

ApproveStep(r) ==
  \/ SetApproved(r) \/ AuditApproved(r) \/ ReadBefore(r) \/ AuditApplied(r)
  \/ WriteProposed(r) \/ Park(r) \/ SetApplied(r)
RejectStep(r) == SetRejected(r) \/ AuditRejected(r)
RollbackStep(r) ==
  FindBefore(r) \/ Restore(r) \/ SetRolledBack(r) \/ AuditRolledBack(r)

(* What the thread of request r does by itself. *)
Step(r) == Load(r) \/ ApproveStep(r) \/ RejectStep(r) \/ RollbackStep(r)

Next ==
  \/ \E batch \in SUBSET Fix : PersistFixes(batch)
  \/ \E r \in Request, o \in Operation, f \in Fix, valid \in BOOLEAN :
       Submit(r, o, f, valid)
  \/ \E r \in Request : Step(r) \/ Crash(r) \/ LateWrite(r)
  \/ \E m \in Media, v \in Value : EditSite(m, v)

Spec == Init /\ [][Next]_vars

(* A worker thread that started a request keeps running it. *)
FairSpec == Spec /\ \A r \in Request : WF_vars(Step(r))

-----------------------------------------------------------------------------
(* Properties.                                                             *)

(* Every variable has its type, and a request that started knows what it   *)
(* decides: only an automatic fix reaches the calls to WordPress.          *)
WordPressStep == {"read", "audit_applied", "write", "park", "set_applied",
                  "find", "restore", "set_rolled_back", "audit_rolled_back"}
TypeOK ==
  /\ status \in [Fix -> Status]
  /\ audit \in Seq(AuditEntry)
  /\ site \in [Media -> Value]
  /\ pc \in [Request -> {"idle"} \cup Running \cup Ended]
  /\ op \in [Request -> Operation \cup {None}]
  /\ fix \in [Request -> Fix \cup {None}]
  /\ before \in [Request -> Value \cup {None}]
  /\ inflight \subseteq Request
  /\ edits \in 0 .. MaxEdits

Quiet == Active = {} /\ inflight = {}

Captures(f) == EntriesOf(f, "pending->applied")

(* An applied fix can always be rolled back: its latest capture in the     *)
(* trail holds a value (service.py, "status is set to applied only after   *)
(* ...", Req 8.4, 9.7).  Holds for any interleaving and any fault.         *)
AppliedIsReversible ==
  \A f \in Fix : status[f] \in {"applied", "rolled_back"} =>
                   f \in AutoFix /\ AppliedBefore(f) # None

(* Nothing reaches the live site without a decision: whatever the service  *)
(* changes there is the proposed value of a fix whose BEFORE value is      *)
(* already in the trail, or a value captured there (write-ahead, Req 8.4). *)
PublishesOnlyAuditedFixes ==
  [][\A m \in Media : site'[m] # site[m] /\ edits' = edits =>
       \E f \in AutoFix :
         /\ TargetOf[f] = m
         /\ Captures(f) # {}
         /\ site'[m] \in {Proposed[f]} \cup
                         {audit[i].before : i \in Captures(f)}]_vars

AuditedOnce(r) ==
  \E i \in DOMAIN audit : \A j \in DOMAIN audit : audit[j].actor = r <=> j = i
NotAudited(r) == \A i \in DOMAIN audit : audit[i].actor # r

(* The trail accounts for the requests: one that answers 200 left exactly  *)
(* one entry, a refused one none, and a rollback whose write failed none   *)
(* (Req 9.5, 9.6).                                                         *)
AuditAccountsForRequests ==
  \A r \in Request :
    /\ pc[r] = "ok" => AuditedOnce(r)
    /\ pc[r] = "refused" => NotAudited(r)
    /\ pc[r] = "failed" /\ op[r] = "rollback" => NotAudited(r)

(* The trail of a fix at rest tells the story of its status, transition by *)
(* transition, each once; a parked automatic fix may show the capture of   *)
(* the write that failed.                                                  *)
Story(f) ==
  CASE status[f] \in {"absent", "pending"} -> {{}}
    [] status[f] = "rejected"    -> {{"pending->rejected"}}
    [] status[f] = "applied"     -> {{"pending->applied"}}
    [] status[f] = "rolled_back" -> {{"pending->applied",
                                      "applied->rolled_back"}}
    [] OTHER -> IF f \in AutoFix THEN {{}, {"pending->applied"}}
                                 ELSE {{"pending->approved"}}
OneEntryPerTransition ==
  Active = {} =>
    \A f \in Fix :
      /\ {t \in Transition : EntriesOf(f, t) # {}} \in Story(f)
      /\ \A t \in Transition : \A i, j \in EntriesOf(f, t) : i = j

OriginalBefore(f) == audit[CHOOSE i \in Captures(f) :
                             \A j \in Captures(f) : i <= j].before

(* A rolled back fix left the live site as it was before the fix was first *)
(* published (nobody else writes to that media item).                      *)
RolledBackIsRestored ==
  Quiet => \A f \in AutoFix : status[f] = "rolled_back" =>
             site[TargetOf[f]] = OriginalBefore(f)

(* What a reader of the trail relies on: it tells each transition once,    *)
(* and the value it names as replaced is the one a rollback put back.      *)
HistoryIsTrue == OneEntryPerTransition /\ RolledBackIsRestored

(* The refinement mapping: a decision takes effect at the write that       *)
(* WordPress confirms or that fails, so the status runs ahead of the row   *)
(* until it is set.                                                        *)
Landed(f, step) == \E r \in Request : pc[r] = step /\ fix[r] = f
StatusBar ==
  [f \in Fix |-> IF Landed(f, "set_applied") THEN "applied"
                 ELSE IF Landed(f, "set_rolled_back") THEN "rolled_back"
                 ELSE IF Landed(f, "park") THEN "approved"
                 ELSE status[f]]
CapturedBar ==
  [f \in Fix |-> IF StatusBar[f] \in {"applied", "rolled_back"}
                   THEN AppliedBefore(f) ELSE None]

Atomic == INSTANCE GovernanceAtomic
            WITH status <- StatusBar, live <- site, captured <- CapturedBar

(* Served one at a time, with refused calls and writes that land late, the *)
(* service decides atomically.                                             *)
ImplementsAtomic == Atomic!ASpec

(* An approval or a rejection that a worker thread starts on a pending fix *)
(* ends with the fix decided, whatever WordPress answers in time or not    *)
(* (the failing paths park it, Req 8.6, 8.10).                             *)
DecisionsDecide ==
  \A r \in Request, f \in Fix :
    pc[r] = "load" /\ op[r] # "rollback" /\ fix[r] = f /\ status[f] = "pending"
      ~> status[f] \in Decided
=============================================================================
