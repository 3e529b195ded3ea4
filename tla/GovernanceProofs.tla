-------------------------- MODULE GovernanceProofs --------------------------
(***************************************************************************)
(* What holds of Governance for every number of fixes, media items and     *)
(* concurrent requests, and under every fault: type correctness, that an   *)
(* applied fix can be rolled back, that only audited fixes are published,  *)
(* and that the trail accounts for the requests.  And what holds besides   *)
(* of requests served in turn: that the trail is a true history, and that  *)
(* the service implements GovernanceAtomic.                                *)
(***************************************************************************)
EXTENDS Governance, FiniteSetTheorems, TLAPS

(* The inductive invariant.  Which steps belong to which operation:        *)
ApproveSteps == {"set_approved", "audit_approved", "read", "audit_applied",
                 "write", "park", "set_applied"}
RejectSteps == {"set_rejected", "audit_rejected"}
RollbackSteps == {"find", "restore", "set_rolled_back", "audit_rolled_back"}

KnowsItsTask ==
  \A r \in Request :
    /\ pc[r] # "idle" => op[r] \in Operation /\ fix[r] \in Fix
    /\ pc[r] \in ApproveSteps => op[r] = "approve"
    /\ pc[r] \in RejectSteps => op[r] = "reject"
    /\ pc[r] \in RollbackSteps => op[r] = "rollback"
    /\ pc[r] \in WordPressStep => fix[r] \in AutoFix

(* The trail holds a latest capture of f.                                  *)
Captured(f) == \E i \in Captures(f) : \A j \in Captures(f) : j <= i

(* before[r] is a value the trail captured for the fix of r.               *)
Restorable(r) == \E i \in Captures(fix[r]) : audit[i].before = before[r]

CapturesHoldValues ==
  \A i \in DOMAIN audit :
    audit[i].transition = "pending->applied" => audit[i].before \in Value

(* The write-ahead rule, request by request: the capture precedes the      *)
(* write, in the trail and in what the thread remembers.                   *)
WriteAhead ==
  /\ \A f \in Fix : status[f] \in {"applied", "rolled_back"} =>
                      f \in AutoFix /\ Captured(f)
  /\ \A r \in Request :
       /\ pc[r] = "audit_applied" => before[r] \in Value
       /\ pc[r] \in {"write", "set_applied"} => Captured(fix[r])
       /\ pc[r] \in RollbackSteps => Captured(fix[r])
       /\ pc[r] \in RollbackSteps \ {"find"} =>
            before[r] \in Value /\ Restorable(r)
  /\ \A r \in inflight :
       /\ pc[r] \in {"park"} \cup Ended
       /\ fix[r] \in AutoFix
       /\ Captured(fix[r])
       /\ op[r] = "rollback" => before[r] \in Value /\ Restorable(r)

Unaudited == {"idle", "load", "set_approved", "audit_approved", "read",
              "audit_applied", "set_rejected", "audit_rejected", "find",
              "restore", "set_rolled_back", "audit_rolled_back", "refused"}
Accounts ==
  \A r \in Request :
    /\ pc[r] \in Unaudited => NotAudited(r)
    /\ pc[r] \in {"write", "set_applied", "ok"} => AuditedOnce(r)
    /\ pc[r] = "failed" /\ op[r] = "rollback" => NotAudited(r)

IInv == TypeOK /\ KnowsItsTask /\ CapturesHoldValues /\ WriteAhead /\ Accounts

-----------------------------------------------------------------------------
USE GovernanceAssumption

(* Appending an entry keeps the earlier ones where they are.               *)
LEMMA AppendEntry ==
  ASSUME TypeOK, NEW e \in AuditEntry, audit' = Append(audit, e)
  PROVE  /\ audit' \in Seq(AuditEntry)
         /\ Len(audit') = Len(audit) + 1
         /\ DOMAIN audit = 1 .. Len(audit)
         /\ DOMAIN audit' = 1 .. (Len(audit) + 1)
         /\ \A i \in 1 .. Len(audit) : audit'[i] = audit[i]
         /\ audit'[Len(audit) + 1] = e
  BY DEF TypeOK

(* The calls of a thread, by the store they touch.                         *)
StatusCall(r) == \/ SetApproved(r) \/ SetApplied(r) \/ Park(r)
                 \/ SetRejected(r) \/ SetRolledBack(r)
AuditCall(r) == \/ AuditApproved(r) \/ AuditApplied(r)
                \/ AuditRejected(r) \/ AuditRolledBack(r)
PublishCall(r) == WriteProposed(r) \/ Restore(r)

LEMMA StepCases ==
  ASSUME NEW r \in Request, Step(r)
  PROVE  \/ Load(r) \/ ReadBefore(r) \/ FindBefore(r)
         \/ StatusCall(r) \/ AuditCall(r) \/ PublishCall(r)
  BY DEF Step, ApproveStep, RejectStep, RollbackStep, StatusCall, AuditCall,
         PublishCall

AuditedStep == {"audit_approved", "audit_applied", "audit_rejected",
                "audit_rolled_back"}

(* What an audit call does, whichever of the four it is.                   *)
LEMMA AuditCallAppends ==
  ASSUME IInv, NEW r \in Request, AuditCall(r)
  PROVE  /\ pc[r] \in AuditedStep
         /\ pc' = [pc EXCEPT ![r] =
                     IF pc[r] = "audit_applied" THEN "write" ELSE "ok"]
         /\ UNCHANGED <<status, site, op, fix, before, inflight, edits>>
         /\ \E e \in AuditEntry :
              /\ audit' = Append(audit, e)
              /\ e.fix = fix[r] /\ e.actor = r
              /\ e.transition = "pending->applied" <=> pc[r] = "audit_applied"
              /\ pc[r] = "audit_applied" =>
                   e.before = before[r] /\ before[r] \in Value
<1>1. PICK t \in Transition, v \in Value \cup {None},
           at \in AuditedStep, next \in {"write", "ok"} :
        /\ AuditStep(r, at, t, v, next)
        /\ t = "pending->applied" <=> at = "audit_applied"
        /\ next = IF at = "audit_applied" THEN "write" ELSE "ok"
        /\ at = "audit_applied" => v = before[r]
  <2>1. before[r] \in Value \cup {None}
    BY DEF IInv, TypeOK
  <2>2. CASE AuditApproved(r)
    BY <2>2 DEF AuditApproved, AuditedStep, Transition
  <2>3. CASE AuditApplied(r)
    BY <2>1, <2>3 DEF AuditApplied, AuditedStep, Transition
  <2>4. CASE AuditRejected(r)
    BY <2>4 DEF AuditRejected, AuditedStep, Transition
  <2>5. CASE AuditRolledBack(r)
    BY <2>1, <2>5 DEF AuditRolledBack, AuditedStep, Transition
  <2> QED
    BY <2>2, <2>3, <2>4, <2>5 DEF AuditCall
<1> DEFINE e == [fix |-> fix[r], transition |-> t, before |-> v, actor |-> r]
<1>2. pc[r] = at /\ audit' = Append(audit, e) /\ pc' = [pc EXCEPT ![r] = next]
      /\ UNCHANGED <<status, site, op, fix, before, inflight, edits>>
  BY <1>1 DEF AuditStep, Goto
<1>3. fix[r] \in Fix
  BY <1>2 DEF IInv, KnowsItsTask, AuditedStep
<1>4. e \in AuditEntry
  BY <1>3 DEF AuditEntry
<1>5. at = "audit_applied" => before[r] \in Value
  BY <1>2 DEF IInv, WriteAhead
<1> QED
  BY <1>1, <1>2, <1>4, <1>5

(* The latest capture is what AppliedBefore returns.                       *)
LEMMA LatestCapture ==
  ASSUME TypeOK, CapturesHoldValues, NEW f, Captured(f)
  PROVE  /\ AppliedBefore(f) \in Value
         /\ \E i \in Captures(f) : audit[i].before = AppliedBefore(f)
<1> DEFINE latest(i) == i \in Captures(f) /\ \A j \in Captures(f) : j <= i
           L == CHOOSE i \in Captures(f) : \A j \in Captures(f) : j <= i
<1>1. L \in Captures(f)
  BY DEF Captured
<1>2. AppliedBefore(f) = audit[L].before
  BY <1>1 DEF AppliedBefore, Captures
<1>3. L \in DOMAIN audit /\ audit[L].transition = "pending->applied"
  BY <1>1 DEF Captures, EntriesOf, TypeOK
<1> QED
  BY <1>1, <1>2, <1>3 DEF CapturesHoldValues

(* Type correctness.                                                       *)
LEMMA TypeStep == IInv /\ [Next]_vars => TypeOK'
<1> SUFFICES ASSUME IInv, [Next]_vars PROVE TypeOK'
  OBVIOUS
<1> USE DEF IInv, TypeOK
<1>1. CASE UNCHANGED vars
  BY <1>1 DEF vars
<1>2. ASSUME NEW batch \in SUBSET Fix, PersistFixes(batch) PROVE TypeOK'
  BY <1>2 DEF PersistFixes, Status, Decided
<1>3. ASSUME NEW r \in Request, NEW o \in Operation, NEW f \in Fix,
             NEW valid \in BOOLEAN, Submit(r, o, f, valid)
      PROVE  TypeOK'
  BY <1>3 DEF Submit, Goto, Running, Ended
<1>4. ASSUME NEW r \in Request, Crash(r) PROVE TypeOK'
  BY <1>4 DEF Crash, Goto, Ended
<1>5. ASSUME NEW r \in Request, LateWrite(r) PROVE TypeOK'
  BY <1>5 DEF LateWrite, WriteAhead
<1>6. ASSUME NEW m \in Media, NEW v \in Value, EditSite(m, v) PROVE TypeOK'
  BY <1>6 DEF EditSite
<1>7. ASSUME NEW r \in Request, Step(r) PROVE TypeOK'
  <2>1. CASE Load(r)
    BY <2>1 DEF Load, FirstCall, Goto, Running, Ended
  <2>2. CASE ReadBefore(r)
    BY <2>2 DEF ReadBefore, ReadStep, Goto, Running, Ended, KnowsItsTask,
                WordPressStep
  <2>3. CASE FindBefore(r)
    <3>1. AppliedBefore(fix[r]) \in Value
      BY <2>3, LatestCapture DEF FindBefore, WriteAhead, RollbackSteps
    <3> QED
      BY <2>3, <3>1, SMTT(30) DEF FindBefore, Goto, Running, Ended
  <2>4. CASE StatusCall(r)
    BY <2>4, SMTT(30) DEF StatusCall, SetApproved, SetApplied, Park,
                          SetRejected, SetRolledBack, StatusStep, Goto,
                          Running, Ended, Status, Decided
  <2>5. CASE AuditCall(r)
    BY <2>5, AuditCallAppends, AppendEntry DEF Running, Ended
  <2>6. CASE PublishCall(r)
    BY <2>6 DEF PublishCall, WriteProposed, Restore, Publish, Goto, Running,
                Ended, KnowsItsTask, WordPressStep, WriteAhead, RollbackSteps
  <2> QED
    BY <1>7, StepCases, <2>1, <2>2, <2>3, <2>4, <2>5, <2>6
<1> QED
  BY <1>1, <1>2, <1>3, <1>4, <1>5, <1>6, <1>7 DEF Next

(* A thread knows its task.                                                *)
LEMMA TaskStep == IInv /\ [Next]_vars => KnowsItsTask'
<1> SUFFICES ASSUME IInv, [Next]_vars PROVE KnowsItsTask'
  OBVIOUS
<1> USE DEF IInv, TypeOK, KnowsItsTask, WordPressStep, ApproveSteps,
            RejectSteps, RollbackSteps
<1>1. CASE UNCHANGED vars
  BY <1>1 DEF vars
<1>2. ASSUME NEW batch \in SUBSET Fix, PersistFixes(batch)
      PROVE  KnowsItsTask'
  BY <1>2 DEF PersistFixes
<1>3. ASSUME NEW r \in Request, NEW o \in Operation, NEW f \in Fix,
             NEW valid \in BOOLEAN, Submit(r, o, f, valid)
      PROVE  KnowsItsTask'
  BY <1>3 DEF Submit, Goto
<1>4. ASSUME NEW r \in Request, Crash(r) PROVE KnowsItsTask'
  BY <1>4 DEF Crash, Goto, Running
<1>5. ASSUME NEW r \in Request, LateWrite(r) PROVE KnowsItsTask'
  BY <1>5 DEF LateWrite
<1>6. ASSUME NEW m \in Media, NEW v \in Value, EditSite(m, v)
      PROVE  KnowsItsTask'
  BY <1>6 DEF EditSite
<1>7. ASSUME NEW r \in Request, Step(r) PROVE KnowsItsTask'
  <2>1. CASE Load(r)
    <3>1. op[r] \in Operation /\ fix[r] \in Fix
      BY <2>1 DEF Load
    <3>2. pc[r] = "load" /\ UNCHANGED <<op, fix>>
          /\ \/ pc' = [pc EXCEPT ![r] = "refused"]
             \/ Admitted(r) /\ pc' = [pc EXCEPT ![r] = FirstCall(r)]
      BY <2>1 DEF Load, Goto
    <3>3. CASE pc' = [pc EXCEPT ![r] = "refused"]
      BY <3>1, <3>2, <3>3
    <3>4. CASE Admitted(r) /\ pc' = [pc EXCEPT ![r] = FirstCall(r)]
      <4>1. op[r] = "rollback" => fix[r] \in AutoFix
        BY <3>1, <3>4 DEF Admitted, WriteAhead
      <4>2. CASE op[r] = "reject"
        BY <3>1, <3>2, <3>4, <4>2 DEF FirstCall
      <4>3. CASE op[r] = "rollback"
        BY <3>1, <3>2, <3>4, <4>1, <4>3 DEF FirstCall
      <4>4. CASE op[r] = "approve"
        BY <3>1, <3>2, <3>4, <4>4 DEF FirstCall
      <4> QED
        BY <3>1, <4>2, <4>3, <4>4 DEF Operation
    <3> QED
      BY <3>2, <3>3, <3>4
  <2>2. CASE ReadBefore(r)
    BY <2>2 DEF ReadBefore, ReadStep, Goto
  <2>3. CASE FindBefore(r)
    BY <2>3 DEF FindBefore, Goto
  <2>4. CASE StatusCall(r)
    BY <2>4 DEF StatusCall, SetApproved, SetApplied, Park, SetRejected,
                SetRolledBack, StatusStep, Goto
  <2>5. CASE AuditCall(r)
    BY <2>5, AuditCallAppends DEF AuditedStep
  <2>6. CASE PublishCall(r)
    BY <2>6 DEF PublishCall, WriteProposed, Restore, Publish, Goto
  <2> QED
    BY <1>7, StepCases, <2>1, <2>2, <2>3, <2>4, <2>5, <2>6
<1> QED
  BY <1>1, <1>2, <1>3, <1>4, <1>5, <1>6, <1>7 DEF Next

(* The trail is written by audit calls only.                               *)
LEMMA TrailCases ==
  ASSUME IInv, [Next]_vars
  PROVE  audit' = audit \/ \E r \in Request : AuditCall(r)
<1>1. ASSUME NEW r \in Request, Step(r), ~AuditCall(r) PROVE audit' = audit
  BY <1>1, StepCases DEF Load, ReadBefore, ReadStep, FindBefore, StatusCall,
     SetApproved, SetApplied, Park, SetRejected, SetRolledBack, StatusStep,
     PublishCall, WriteProposed, Restore
<1> QED
  BY <1>1 DEF Next, vars, PersistFixes, Submit, Crash, LateWrite, EditSite

(* The trail only grows: a captured fix stays captured, and a value that   *)
(* was in a capture is found there again.                                  *)
LEMMA TrailGrows ==
  ASSUME IInv, [Next]_vars
  PROVE  /\ \A i \in DOMAIN audit :
              i \in DOMAIN audit' /\ audit'[i] = audit[i]
         /\ \A f : Captures(f) \subseteq Captures(f)'
         /\ \A f : Captured(f) => Captured(f)'
<1>1. CASE audit' = audit
  BY <1>1 DEF Captures, EntriesOf, Captured
<1>2. ASSUME NEW r \in Request, AuditCall(r)
      PROVE  /\ \A i \in DOMAIN audit :
                  i \in DOMAIN audit' /\ audit'[i] = audit[i]
             /\ \A f : Captures(f) \subseteq Captures(f)'
             /\ \A f : Captured(f) => Captured(f)'
  <2>1. PICK e \in AuditEntry : audit' = Append(audit, e)
    BY <1>2, AuditCallAppends
  <2> DEFINE n == Len(audit)
  <2>2. /\ DOMAIN audit = 1 .. n /\ DOMAIN audit' = 1 .. (n + 1)
        /\ Len(audit') = n + 1 /\ n \in Nat
        /\ \A i \in 1 .. n : audit'[i] = audit[i]
    BY <2>1, AppendEntry DEF IInv, TypeOK
  <2>3. ASSUME NEW f PROVE Captures(f) \subseteq Captures(f)'
    BY <2>2 DEF Captures, EntriesOf
  <2>4. ASSUME NEW f, Captured(f) PROVE Captured(f)'
    <3>1. Captures(f)' \subseteq Captures(f) \cup {n + 1}
      BY <2>2 DEF Captures, EntriesOf
    <3>2. \A j \in Captures(f) : j \in 1 .. n
      BY DEF Captures, EntriesOf
    <3>3. CASE n + 1 \in Captures(f)'
      <4>1. \A j \in Captures(f)' : j <= n + 1
        BY <2>2, <3>1, <3>2
      <4> QED
        BY <3>3, <4>1 DEF Captured
    <3>4. CASE n + 1 \notin Captures(f)'
      <4>1. Captures(f)' = Captures(f)
        BY <2>3, <3>1, <3>4
      <4> QED
        BY <2>4, <4>1 DEF Captured
    <3> QED
      BY <3>3, <3>4
  <2> QED
    BY <2>2, <2>3, <2>4
<1> QED
  BY <1>1, <1>2, TrailCases

(* Every capture holds a value.                                            *)
LEMMA CapturesStep == IInv /\ [Next]_vars => CapturesHoldValues'
<1> SUFFICES ASSUME IInv, [Next]_vars PROVE CapturesHoldValues'
  OBVIOUS
<1>1. CASE audit' = audit
  BY <1>1 DEF IInv, CapturesHoldValues
<1>2. ASSUME NEW r \in Request, AuditCall(r) PROVE CapturesHoldValues'
  <2>1. PICK e \in AuditEntry :
           /\ audit' = Append(audit, e)
           /\ e.transition = "pending->applied" => e.before \in Value
    BY <1>2, AuditCallAppends
  <2> QED
    BY <2>1, AppendEntry DEF IInv, CapturesHoldValues
<1> QED
  BY <1>1, <1>2, TrailCases

(* The write-ahead rule.                                                   *)
LEMMA WriteAheadStep == IInv /\ [Next]_vars => WriteAhead'
<1> SUFFICES ASSUME IInv, [Next]_vars PROVE WriteAhead'
  OBVIOUS
<1>a. /\ \A f : Captured(f) => Captured(f)'
      /\ \A r \in Request : UNCHANGED <<fix[r], before[r]>> =>
                              (Restorable(r) => Restorable(r)')
  <2>1. ASSUME NEW r \in Request, UNCHANGED <<fix[r], before[r]>>,
               Restorable(r)
        PROVE  Restorable(r)'
    <3>1. PICK i \in Captures(fix[r]) : audit[i].before = before[r]
      BY <2>1 DEF Restorable
    <3>2. i \in DOMAIN audit
      BY <3>1 DEF Captures, EntriesOf, IInv, TypeOK
    <3>3. i \in Captures(fix[r])' /\ audit'[i] = audit[i]
      BY <2>1, <3>1, <3>2, TrailGrows
    <3> QED
      BY <2>1, <3>1, <3>3 DEF Restorable
  <2> QED
    BY <2>1, TrailGrows
<1> USE <1>a DEF IInv, TypeOK, WriteAhead, RollbackSteps
<1>1. CASE UNCHANGED vars
  BY <1>1 DEF vars
<1>2. ASSUME NEW batch \in SUBSET Fix, PersistFixes(batch) PROVE WriteAhead'
  BY <1>2 DEF PersistFixes
<1>3. ASSUME NEW r \in Request, NEW o \in Operation, NEW f \in Fix,
             NEW valid \in BOOLEAN, Submit(r, o, f, valid)
      PROVE  WriteAhead'
  BY <1>3 DEF Submit, Goto, Ended
<1>4. ASSUME NEW r \in Request, Crash(r) PROVE WriteAhead'
  BY <1>4 DEF Crash, Goto, Running, Ended
<1>5. ASSUME NEW r \in Request, LateWrite(r) PROVE WriteAhead'
  BY <1>5 DEF LateWrite
<1>6. ASSUME NEW m \in Media, NEW v \in Value, EditSite(m, v)
      PROVE  WriteAhead'
  BY <1>6 DEF EditSite
<1>7. ASSUME NEW r \in Request, Step(r) PROVE WriteAhead'
  <2>0. r \in inflight => pc[r] \in {"park"} \cup Ended
    OBVIOUS
  <2>1. CASE Load(r)
    BY <2>0, <2>1 DEF Load, Goto, FirstCall, Admitted, KnowsItsTask, Ended
  <2>2. CASE ReadBefore(r)
    BY <2>0, <2>2 DEF ReadBefore, ReadStep, Goto, KnowsItsTask, WordPressStep,
                      Ended
  <2>3. CASE FindBefore(r)
    <3>1. AppliedBefore(fix[r]) \in Value /\
          \E i \in Captures(fix[r]) : audit[i].before = AppliedBefore(fix[r])
      BY <2>3, LatestCapture DEF FindBefore
    <3>2. /\ before' = [before EXCEPT ![r] = AppliedBefore(fix[r])]
          /\ pc[r] = "find" /\ pc' = [pc EXCEPT ![r] = "restore"]
          /\ UNCHANGED <<status, audit, site, op, fix, inflight, edits>>
      BY <2>3, <3>1 DEF FindBefore, Goto
    <3>3. before'[r] \in Value /\ Restorable(r)' /\ r \notin inflight
      BY <2>0, <3>1, <3>2 DEF Restorable, Captures, EntriesOf, Ended
    <3> QED
      BY <3>2, <3>3 DEF Ended
  <2>4. CASE StatusCall(r)
    BY <2>0, <2>4 DEF StatusCall, SetApproved, SetApplied, Park, SetRejected,
       SetRolledBack, StatusStep, Goto, KnowsItsTask, WordPressStep, Ended
  <2>5. CASE AuditCall(r)
    <3>1. pc[r] = "audit_applied" => Captured(fix[r])'
      <4> SUFFICES ASSUME pc[r] = "audit_applied" PROVE Captured(fix[r])'
        OBVIOUS
      <4>1. PICK e \in AuditEntry : /\ audit' = Append(audit, e)
                                    /\ e.fix = fix[r]
                                    /\ e.transition = "pending->applied"
        BY <2>5, AuditCallAppends
      <4>2. Len(audit) + 1 \in Captures(fix[r])'
        BY <2>5, <4>1, AppendEntry, AuditCallAppends DEF Captures, EntriesOf
      <4>3. \A j \in Captures(fix[r])' : j <= Len(audit) + 1
        BY <2>5, <4>1, AppendEntry, AuditCallAppends DEF Captures, EntriesOf
      <4> QED
        BY <4>2, <4>3 DEF Captured
    <3>2. /\ pc[r] \in AuditedStep
          /\ pc' = [pc EXCEPT ![r] =
                      IF pc[r] = "audit_applied" THEN "write" ELSE "ok"]
          /\ UNCHANGED <<status, op, fix, before, inflight>>
      BY <2>5, AuditCallAppends
    <3>3. \A q \in Request : /\ Captured(fix[q]) => Captured(fix[q])'
                             /\ Restorable(q) => Restorable(q)'
      BY <3>2
    <3>4. r \notin inflight
      BY <2>0, <3>2 DEF AuditedStep, Ended
    <3>5. \A f \in Fix : status'[f] \in {"applied", "rolled_back"} =>
                           f \in AutoFix /\ Captured(f)'
      BY <3>2
    <3>6. ASSUME NEW q \in Request
          PROVE  /\ pc'[q] = "audit_applied" => before'[q] \in Value
                 /\ pc'[q] \in {"write", "set_applied"} => Captured(fix[q])'
                 /\ pc'[q] \in RollbackSteps => Captured(fix[q])'
                 /\ pc'[q] \in RollbackSteps \ {"find"} =>
                      before'[q] \in Value /\ Restorable(q)'
      <4>1. CASE q = r
        BY <3>1, <3>2, <3>3, <4>1 DEF AuditedStep
      <4>2. CASE q # r
        BY <3>2, <3>3, <4>2
      <4> QED
        BY <4>1, <4>2
    <3>7. ASSUME NEW q \in inflight'
          PROVE  /\ pc'[q] \in {"park"} \cup Ended
                 /\ fix'[q] \in AutoFix
                 /\ Captured(fix[q])'
                 /\ op'[q] = "rollback" => before'[q] \in Value /\
                                           Restorable(q)'
      BY <3>2, <3>3, <3>4
    <3> QED
      BY <3>5, <3>6, <3>7
  <2>6. CASE PublishCall(r)
    BY <2>0, <2>6 DEF PublishCall, WriteProposed, Restore, Publish, Goto,
       KnowsItsTask, WordPressStep, ApproveSteps, Ended
  <2> QED
    BY <1>7, StepCases, <2>1, <2>2, <2>3, <2>4, <2>5, <2>6
<1> QED
  BY <1>1, <1>2, <1>3, <1>4, <1>5, <1>6, <1>7 DEF Next

(* The trail accounts for the requests.                                    *)
LEMMA AccountsStep == IInv /\ [Next]_vars => Accounts'
<1> SUFFICES ASSUME IInv, [Next]_vars PROVE Accounts'
  OBVIOUS
<1> USE DEF Unaudited
<1>1. CASE audit' = audit
  <2>1. \A r \in Request : /\ NotAudited(r)' <=> NotAudited(r)
                           /\ AuditedOnce(r)' <=> AuditedOnce(r)
    BY <1>1 DEF NotAudited, AuditedOnce
  <2>2. ASSUME NEW r \in Request, ~AuditCall(r), Step(r) PROVE Accounts'
    <3> USE <2>1 DEF IInv, TypeOK, Accounts, KnowsItsTask, RollbackSteps,
                     ApproveSteps, Goto
    <3>1. CASE Load(r)
      BY <3>1 DEF Load, FirstCall
    <3>2. CASE ReadBefore(r)
      BY <3>2 DEF ReadBefore, ReadStep
    <3>3. CASE FindBefore(r)
      BY <3>3 DEF FindBefore
    <3>4. CASE StatusCall(r)
      BY <3>4 DEF StatusCall, SetApproved, SetApplied, Park, SetRejected,
                  SetRolledBack, StatusStep
    <3>5. CASE PublishCall(r)
      BY <3>5 DEF PublishCall, WriteProposed, Restore, Publish
    <3> QED
      BY <2>2, StepCases, <3>1, <3>2, <3>3, <3>4, <3>5
  <2>3. ASSUME NEW r \in Request, AuditCall(r) PROVE FALSE
    BY <1>1, <2>3, AuditCallAppends, AppendEntry DEF IInv, TypeOK
  <2>4. ASSUME ~(\E r \in Request : Step(r)) PROVE Accounts'
    <3> USE <2>1, <2>4 DEF IInv, TypeOK, Accounts, Goto
    <3>1. CASE UNCHANGED <<pc, op>>
      BY <3>1
    <3>2. ASSUME NEW r \in Request, NEW o \in Operation, NEW f \in Fix,
                 NEW valid \in BOOLEAN, Submit(r, o, f, valid)
          PROVE  Accounts'
      BY <3>2 DEF Submit
    <3>3. ASSUME NEW r \in Request, Crash(r) PROVE Accounts'
      BY <3>3 DEF Crash
    <3> QED
      BY <3>1, <3>2, <3>3
         DEF Next, vars, PersistFixes, LateWrite, EditSite
  <2> QED
    BY <2>2, <2>3, <2>4
<1>2. ASSUME NEW r \in Request, AuditCall(r) PROVE Accounts'
  <2>1. PICK e \in AuditEntry : audit' = Append(audit, e) /\ e.actor = r
    BY <1>2, AuditCallAppends
  <2>2. /\ DOMAIN audit = 1 .. Len(audit) /\ Len(audit) \in Nat
        /\ DOMAIN audit' = 1 .. (Len(audit) + 1)
        /\ \A i \in 1 .. Len(audit) : audit'[i] = audit[i]
        /\ audit'[Len(audit) + 1] = e
    BY <2>1, AppendEntry DEF IInv, TypeOK
  <2>3. /\ pc[r] \in AuditedStep /\ UNCHANGED op
        /\ pc' = [pc EXCEPT ![r] =
                    IF pc[r] = "audit_applied" THEN "write" ELSE "ok"]
    BY <1>2, AuditCallAppends
  <2>4. AuditedOnce(r)'
    <3>1. NotAudited(r)
      BY <2>3 DEF IInv, Accounts, AuditedStep
    <3>2. \A j \in DOMAIN audit' :
            audit'[j].actor = r <=> j = Len(audit) + 1
      BY <2>1, <2>2, <3>1 DEF NotAudited
    <3> QED
      BY <2>2, <3>2 DEF AuditedOnce
  <2>5. ASSUME NEW q \in Request, q # r
        PROVE  /\ NotAudited(q) => NotAudited(q)'
               /\ AuditedOnce(q) => AuditedOnce(q)'
    BY <2>1, <2>2, <2>5 DEF NotAudited, AuditedOnce
  <2> QED
    BY <2>3, <2>4, <2>5 DEF IInv, TypeOK, Accounts
<1> QED
  BY <1>1, <1>2, TrailCases

-----------------------------------------------------------------------------
THEOREM Invariance == Spec => []IInv
<1>1. Init => IInv
  BY DEF Init, IInv, TypeOK, KnowsItsTask, CapturesHoldValues, WriteAhead,
         Accounts, NotAudited, Status, Decided, ApproveSteps, RejectSteps,
         RollbackSteps, WordPressStep
<1>2. IInv /\ [Next]_vars => IInv'
  BY TypeStep, TaskStep, CapturesStep, WriteAheadStep, AccountsStep DEF IInv
<1> QED
  BY <1>1, <1>2, PTL DEF Spec

(* Every variable keeps its type: the calls read and write well-formed     *)
(* records, and only automatic fixes reach WordPress.                      *)
THEOREM Typing == Spec => []TypeOK
  BY Invariance, PTL DEF IInv

(* An applied fix can always be rolled back: the before_value read by      *)
(* rollback_fix exists, however many requests race and whatever fails.     *)
THEOREM Reversibility == Spec => []AppliedIsReversible
<1>1. IInv => AppliedIsReversible
  <2> SUFFICES ASSUME IInv, NEW f \in Fix,
                      status[f] \in {"applied", "rolled_back"}
               PROVE  f \in AutoFix /\ AppliedBefore(f) # None
    BY DEF AppliedIsReversible
  <2>1. f \in AutoFix /\ Captured(f)
    BY DEF IInv, WriteAhead
  <2>2. AppliedBefore(f) \in Value
    BY <2>1, LatestCapture DEF IInv
  <2> QED
    BY <2>1, <2>2
<1> QED
  BY <1>1, Invariance, PTL

(* A request that answers 200 left exactly one entry in the trail, one     *)
(* that was refused none (Req 9.5, 9.6).                                   *)
THEOREM Accountability == Spec => []AuditAccountsForRequests
<1>1. IInv => AuditAccountsForRequests
  BY DEF IInv, Accounts, Unaudited, AuditAccountsForRequests
<1> QED
  BY <1>1, Invariance, PTL

(* Whatever the service changes on the live site, it captured before: the  *)
(* write-ahead rule of approve_fix and rollback_fix (Req 8.4, 9.2).        *)
THEOREM WriteAheadRule == Spec => PublishesOnlyAuditedFixes
<1> DEFINE Audited(m) ==
      \E f \in AutoFix :
        /\ TargetOf[f] = m
        /\ Captures(f) # {}
        /\ site'[m] \in {Proposed[f]} \cup
                        {audit[i].before : i \in Captures(f)}
<1>1. ASSUME IInv, [Next]_vars, NEW m \in Media,
             site'[m] # site[m], edits' = edits
      PROVE  Audited(m)
  <2>1. ASSUME NEW r \in Request, LateWrite(r) PROVE Audited(m)
    <3>1. fix[r] \in AutoFix /\ Captured(fix[r]) /\
          (op[r] = "rollback" => Restorable(r))
      BY <1>1, <2>1 DEF LateWrite, IInv, WriteAhead
    <3>2. TargetOf[fix[r]] = m /\
          site'[m] \in {Proposed[fix[r]], before[r]} /\
          (op[r] # "rollback" => site'[m] = Proposed[fix[r]])
      BY <1>1, <2>1, <3>1 DEF LateWrite, IInv, TypeOK
    <3>3. Captures(fix[r]) # {}
      BY <3>1 DEF Captured
    <3>4. CASE op[r] = "rollback"
      <4>1. PICK i \in Captures(fix[r]) : audit[i].before = before[r]
        BY <3>1, <3>4 DEF Restorable
      <4> QED
        BY <3>1, <3>2, <3>3, <4>1
    <3>5. CASE op[r] # "rollback"
      BY <3>1, <3>2, <3>3, <3>5
    <3> QED
      BY <3>4, <3>5
  <2>2. ASSUME NEW r \in Request, WriteProposed(r) PROVE Audited(m)
    BY <1>1, <2>2 DEF WriteProposed, Publish, IInv, TypeOK, WriteAhead,
                      Captured, KnowsItsTask, WordPressStep
  <2>3. ASSUME NEW r \in Request, Restore(r) PROVE Audited(m)
    <3>1. fix[r] \in AutoFix /\ Restorable(r)
      BY <1>1, <2>3 DEF Restore, IInv, WriteAhead, KnowsItsTask, WordPressStep,
                  RollbackSteps
    <3>2. TargetOf[fix[r]] = m /\ site'[m] = before[r]
      BY <1>1, <2>3, <3>1 DEF Restore, Publish, IInv, TypeOK
    <3>3. PICK i \in Captures(fix[r]) : audit[i].before = before[r]
      BY <3>1 DEF Restorable
    <3> QED
      BY <3>1, <3>2, <3>3
  <2>4. ASSUME NEW r \in Request, Step(r), ~PublishCall(r)
        PROVE  site' = site
    BY <2>4, StepCases, AuditCallAppends, <1>1 DEF Load, ReadBefore, ReadStep,
       FindBefore, StatusCall, SetApproved, SetApplied, Park, SetRejected,
       SetRolledBack, StatusStep
  <2>5. ASSUME NEW n \in Media, NEW v \in Value, EditSite(n, v) PROVE FALSE
    BY <1>1, <2>5 DEF EditSite, IInv, TypeOK
  <2> QED
    BY <1>1, <2>1, <2>2, <2>3, <2>4, <2>5
       DEF Next, vars, PublishCall, PersistFixes, Submit, Crash
<1>2. IInv /\ [Next]_vars =>
        [\A m \in Media : site'[m] # site[m] /\ edits' = edits =>
                            Audited(m)]_vars
  BY <1>1
<1> QED
  BY <1>2, Invariance, PTL DEF Spec, PublishesOnlyAuditedFixes

-----------------------------------------------------------------------------
(* Requests in turn: one at a time, no fault that ends one half-way, and   *)
(* nobody else who writes to the media item of a fix.                      *)
InTurn ==
  /\ MaxActive = 1 /\ MaxEdits = 0
  /\ Faults \subseteq {"refused", "timeout"}
  /\ \A f, g \in AutoFix : TargetOf[f] = TargetOf[g] => f = g

OneAtATime ==
  \A q, r \in Request : pc[q] \in Running /\ pc[r] \in Running => q = r

Working(f, steps) == \E r \in Request : pc[r] \in steps /\ fix[r] = f

(* The row of the fix a request decides is as the request loaded or left   *)
(* it.                                                                     *)
RowMatches ==
  \A r \in Request :
    /\ pc[r] \in {"set_approved", "read", "audit_applied", "write", "park",
                  "set_applied", "set_rejected"} => status[fix[r]] = "pending"
    /\ pc[r] \in {"find", "restore", "set_rolled_back"} =>
         status[fix[r]] = "applied"
    /\ pc[r] = "audit_approved" => status[fix[r]] = "approved"
    /\ pc[r] = "audit_rejected" => status[fix[r]] = "rejected"
    /\ pc[r] = "audit_rolled_back" => status[fix[r]] = "rolled_back"
    /\ pc[r] \in {"set_approved", "audit_approved"} => fix[r] \notin AutoFix

(* The trail has one entry for each transition the row has made, but for   *)
(* the one the request is about to write; a capture may be of a write that *)
(* is under way, or was given up.                                          *)
Told(f, t) == EntriesOf(f, t) # {}
TrailMatches ==
  \A f \in Fix :
    /\ \A t \in Transition : \A i, j \in EntriesOf(f, t) : i = j
    /\ Told(f, "pending->approved") <=>
         /\ status[f] = "approved" /\ f \notin AutoFix
         /\ ~Working(f, {"audit_approved"})
    /\ Told(f, "pending->rejected") <=>
         status[f] = "rejected" /\ ~Working(f, {"audit_rejected"})
    /\ Told(f, "applied->rolled_back") <=>
         status[f] = "rolled_back" /\ ~Working(f, {"audit_rolled_back"})
    /\ Told(f, "pending->applied") =>
         \/ status[f] \in {"applied", "rolled_back"}
         \/ status[f] = "approved" /\ f \in AutoFix
         \/ Working(f, {"write", "park", "set_applied"})

(* The live site shows what the capture holds, from the read on until the  *)
(* write and from the restoration on; a write that may still land brings   *)
(* nothing else.                                                           *)
SiteMatches ==
  /\ \A r \in Request :
       /\ pc[r] = "audit_applied" => before[r] = site[TargetOf[fix[r]]]
       /\ pc[r] = "write" => site[TargetOf[fix[r]]] = AppliedBefore(fix[r])
       /\ pc[r] = "restore" => before[r] = AppliedBefore(fix[r])
  /\ \A f \in AutoFix :
       status[f] = "rolled_back" \/ Working(f, {"set_rolled_back"}) =>
         site[TargetOf[f]] = AppliedBefore(f)
  /\ \A r \in inflight :
       IF op[r] = "rollback"
         THEN /\ status[fix[r]] \in {"applied", "rolled_back"}
              /\ before[r] = AppliedBefore(fix[r])
         ELSE status[fix[r]] = "approved" \/ pc[r] = "park"

TurnInv == OneAtATime /\ RowMatches /\ TrailMatches /\ SiteMatches

-----------------------------------------------------------------------------
(* The entries of a fix in a trail that grew by one.                       *)
LEMMA EntriesAppend ==
  ASSUME TypeOK, NEW e \in AuditEntry, audit' = Append(audit, e), NEW f, NEW t
  PROVE  /\ EntriesOf(f, t)' =
              EntriesOf(f, t) \cup
                (IF e.fix = f /\ e.transition = t THEN {Len(audit) + 1} ELSE {})
         /\ Len(audit) + 1 \notin EntriesOf(f, t)
         /\ \A i \in EntriesOf(f, t) : audit'[i] = audit[i]
         /\ audit'[Len(audit) + 1] = e
<1>1. Len(audit) \in Nat
  BY DEF TypeOK
<1> QED BY <1>1, AppendEntry DEF EntriesOf

(* A fix captured once has no choice of captures.                          *)
LEMMA OnlyCapture ==
  ASSUME TypeOK, NEW f, \A j, k \in Captures(f) : j = k
  PROVE  /\ \A i \in Captures(f) : /\ AppliedBefore(f) = audit[i].before
                                   /\ OriginalBefore(f) = audit[i].before
         /\ Captures(f) = {} => AppliedBefore(f) = None
<1>1. Captures(f) \subseteq Nat
  BY DEF Captures, EntriesOf
<1>2. ASSUME NEW i \in Captures(f)
      PROVE  /\ AppliedBefore(f) = audit[i].before
             /\ OriginalBefore(f) = audit[i].before
  <2>1. \A j \in Captures(f) : j <= i /\ i <= j
    BY <1>1, <1>2
  <2>2. /\ (CHOOSE k \in Captures(f) : \A j \in Captures(f) : j <= k) = i
        /\ (CHOOSE k \in Captures(f) : \A j \in Captures(f) : k <= j) = i
    BY <1>2, <2>1
  <2> QED BY <1>2, <2>2 DEF AppliedBefore, OriginalBefore, Captures
<1>3. Captures(f) = {} => AppliedBefore(f) = None
  BY DEF AppliedBefore, Captures
<1> QED BY <1>2, <1>3

(* Nothing but a capture of a fix changes what a rollback of it restores.  *)
LEMMA CaptureStays ==
  ASSUME NEW f, \A j, k \in Captures(f) : j = k,
         Captures(f)' = Captures(f),
         \A i \in Captures(f) : audit'[i] = audit[i]
  PROVE  AppliedBefore(f)' = AppliedBefore(f)
<1> DEFINE Last(C) == CHOOSE i \in C : \A j \in C : j <= i
<1>1. Captures(f) # {} => Last(Captures(f)) \in Captures(f)
  <2> SUFFICES ASSUME NEW i \in Captures(f)
               PROVE  \E l \in Captures(f) : \A j \in Captures(f) : j <= l
    OBVIOUS
  <2> QED BY DEF Captures, EntriesOf
<1>2. AppliedBefore(f) = IF Captures(f) = {}
                           THEN None ELSE audit[Last(Captures(f))].before
  BY DEF AppliedBefore, Captures
<1>3. AppliedBefore(f)' = IF Captures(f)' = {}
                            THEN None ELSE audit'[Last(Captures(f)')].before
  BY DEF AppliedBefore, Captures
<1> HIDE DEF Last
<1> QED BY <1>1, <1>2, <1>3

(* Nor does a step that leaves the trail alone.                            *)
LEMMA TrailStill ==
  ASSUME audit' = audit
  PROVE  /\ \A f, t : /\ EntriesOf(f, t)' = EntriesOf(f, t)
                      /\ Told(f, t)' <=> Told(f, t)
         /\ \A f : AppliedBefore(f)' = AppliedBefore(f)
  BY DEF EntriesOf, Told, AppliedBefore

LEMMA FirstCapture ==
  ASSUME TypeOK, NEW e \in AuditEntry, audit' = Append(audit, e),
         e.transition = "pending->applied", Captures(e.fix) = {}
  PROVE  AppliedBefore(e.fix)' = e.before
<1> DEFINE n == Len(audit) + 1
<1>1. n \in Nat
  BY DEF TypeOK
<1>2. Captures(e.fix)' = {n} /\ audit'[n] = e
  BY EntriesAppend DEF Captures
<1> DEFINE Last(C) == CHOOSE i \in C : \A j \in C : j <= i
<1>3. Last({n}) = n
  BY <1>1
<1>4. AppliedBefore(e.fix)' =
        IF Captures(e.fix)' = {}
          THEN None ELSE audit'[Last(Captures(e.fix)')].before
  BY DEF AppliedBefore, Captures
<1> HIDE DEF n, Last
<1> QED BY <1>2, <1>3, <1>4

(* Served in turn, the request that runs runs alone.                       *)
LEMMA Alone ==
  ASSUME OneAtATime, NEW r \in Request, pc[r] \in Running,
         NEW f, NEW steps \in SUBSET Running
  PROVE  Working(f, steps) <=> pc[r] \in steps /\ fix[r] = f
  BY DEF OneAtATime, Working

LEMMA AloneNext ==
  ASSUME TypeOK, OneAtATime, NEW r \in Request, pc[r] \in Running,
         NEW s, pc' = [pc EXCEPT ![r] = s], fix' = fix,
         NEW f, NEW steps \in SUBSET Running
  PROVE  Working(f, steps)' <=> s \in steps /\ fix[r] = f
  BY DEF OneAtATime, Working, TypeOK

(* Turns are kept: a request starts when no other runs.                    *)
LEMMA NoneActive ==
  ASSUME InTurn, OneAtATime, Cardinality(Active) < MaxActive
  PROVE  \A q \in Request : pc[q] \notin Running
<1> SUFFICES ASSUME NEW q \in Request, pc[q] \in Running PROVE FALSE
  OBVIOUS
<1>1. Active = {q}
  BY DEF Active, OneAtATime
<1>2. Cardinality(Active) = 1
  BY <1>1, FS_Singleton
<1> QED
  BY <1>2 DEF InTurn

(* What a step of a running request is, served in turn.                    *)
LEMMA StepMoves ==
  ASSUME InTurn, IInv, NEW r \in Request, Step(r)
  PROVE  /\ pc[r] \in Running
         /\ UNCHANGED <<op, fix>> /\ fix[r] \in Fix
         /\ \E s : pc' = [pc EXCEPT ![r] = s]
<1>1. pc[r] \in Running => fix[r] \in Fix
  BY DEF IInv, KnowsItsTask, Running
<1>2. CASE AuditCall(r)
  BY <1>1, <1>2, AuditCallAppends DEF AuditedStep, Running
<1>3. CASE Load(r)
  BY <1>1, <1>3 DEF Load, Goto, Running
<1>4. CASE ReadBefore(r)
  BY <1>1, <1>4 DEF ReadBefore, ReadStep, Goto, Running
<1>5. CASE FindBefore(r)
  BY <1>1, <1>5 DEF FindBefore, Goto, Running
<1>6. CASE StatusCall(r)
  BY <1>1, <1>6 DEF StatusCall, SetApproved, SetApplied, Park, SetRejected,
     SetRolledBack, StatusStep, Goto, Running
<1>7. CASE PublishCall(r)
  BY <1>1, <1>7 DEF PublishCall, WriteProposed, Restore, Publish, Goto, Running
<1> QED
  BY <1>2, <1>3, <1>4, <1>5, <1>6, <1>7, StepCases

LEMMA TurnCases ==
  ASSUME InTurn, IInv, OneAtATime, [Next]_vars
  PROVE  \/ UNCHANGED vars
         \/ \E batch \in SUBSET Fix : PersistFixes(batch)
         \/ \E r \in Request, o \in Operation, f \in Fix, valid \in BOOLEAN :
              Submit(r, o, f, valid)
         \/ \E r \in Request : Step(r) \/ LateWrite(r)
<1>1. ASSUME NEW m \in Media, NEW v \in Value, EditSite(m, v) PROVE FALSE
  BY <1>1 DEF EditSite, InTurn, IInv, TypeOK
<1>2. ASSUME NEW r \in Request, Crash(r) PROVE FALSE
  BY <1>2 DEF Crash, InTurn, May
<1> QED
  BY <1>1, <1>2 DEF Next

LEMMA OneAtATimeStep ==
  ASSUME InTurn, IInv, OneAtATime, [Next]_vars PROVE OneAtATime'
<1>1. CASE UNCHANGED pc
  BY <1>1 DEF OneAtATime
<1>2. ASSUME NEW r \in Request, NEW o \in Operation, NEW f \in Fix,
             NEW valid \in BOOLEAN, Submit(r, o, f, valid)
      PROVE  OneAtATime'
  BY <1>2, NoneActive DEF Submit, Goto, OneAtATime, IInv, TypeOK
<1>3. ASSUME NEW r \in Request, Step(r) PROVE OneAtATime'
  BY <1>3, StepMoves DEF OneAtATime, IInv, TypeOK
<1> QED
  BY <1>1, <1>2, <1>3, TurnCases DEF vars, PersistFixes, LateWrite

(* The steps that no thread takes.                                         *)
LEMMA ArrivalKeepsTurn ==
  ASSUME InTurn, IInv, TurnInv, NEW r \in Request, NEW o \in Operation,
         NEW f \in Fix, NEW valid \in BOOLEAN, Submit(r, o, f, valid)
  PROVE  RowMatches' /\ TrailMatches' /\ SiteMatches'
<1>1. \A q \in Request : pc[q] \notin Running
  BY NoneActive DEF Submit, TurnInv
<1>2. /\ pc[r] = "idle"
      /\ UNCHANGED <<status, audit, site, before, inflight>>
      /\ \A q \in Request : q # r => /\ pc'[q] = pc[q] /\ op'[q] = op[q]
                                     /\ fix'[q] = fix[q]
      /\ pc'[r] \in {"load", "refused"}
  BY DEF Submit, Goto, IInv, TypeOK
<1>3. \A g, steps : steps \subseteq Running \ {"load"} =>
        ~Working(g, steps) /\ ~Working(g, steps)'
  BY <1>1, <1>2 DEF Working, Running
<1>4. RowMatches'
  BY <1>1, <1>2 DEF RowMatches, Running
<1>5. TrailMatches'
  BY <1>2, <1>3, TrailStill DEF TurnInv, TrailMatches, Running
<1>6. SiteMatches'
  <2>1. r \notin inflight
    BY <1>2 DEF IInv, WriteAhead, Ended
  <2> QED
    BY <1>1, <1>2, <1>3, <2>1, TrailStill DEF TurnInv, SiteMatches, Running,
       IInv, TypeOK
<1> QED
  BY <1>4, <1>5, <1>6

LEMMA PersistKeepsTurn ==
  ASSUME InTurn, IInv, TurnInv, NEW batch \in SUBSET Fix, PersistFixes(batch)
  PROVE  RowMatches' /\ TrailMatches' /\ SiteMatches'
<1>1. /\ UNCHANGED <<audit, site, pc, op, fix, before, inflight>>
      /\ \A f \in Fix : \/ status'[f] = status[f]
                        \/ status[f] = "absent" /\ status'[f] = "pending"
  <2>1. /\ UNCHANGED <<audit, site, pc, op, fix, before, inflight>>
        /\ \A f \in batch : status[f] = "absent"
        /\ \A f \in Fix :
             status'[f] = IF f \in batch THEN "pending" ELSE status[f]
    BY DEF PersistFixes
  <2> QED
    BY <2>1
<1>2. \A r \in Request : pc[r] \in Running => fix[r] \in Fix
  BY DEF IInv, KnowsItsTask, Running
<1>3. RowMatches'
  BY <1>1, <1>2 DEF TurnInv, RowMatches, Running
<1>4. \A g, steps : Working(g, steps)' <=> Working(g, steps)
  BY <1>1 DEF Working
<1>5. TrailMatches'
  <2>1. \A f \in Fix : status[f] = "absent" =>
                         ~Working(f, {"write", "park", "set_applied"})
    BY DEF TurnInv, RowMatches, Working
  <2> QED
    BY <1>1, <1>4, <2>1, TrailStill DEF TurnInv, TrailMatches
<1>6. SiteMatches'
  BY <1>1, <1>4, TrailStill DEF TurnInv, SiteMatches, IInv, WriteAhead
<1> QED
  BY <1>3, <1>5, <1>6

LEMMA LateWriteKeepsTurn ==
  ASSUME InTurn, IInv, TurnInv, NEW q \in Request, LateWrite(q)
  PROVE  RowMatches' /\ TrailMatches' /\ SiteMatches'
<1>1. /\ UNCHANGED <<status, audit, pc, op, fix, before>>
      /\ q \in inflight /\ inflight' \subseteq inflight
      /\ site' = [site EXCEPT ![TargetOf[fix[q]]] =
                    IF op[q] = "rollback" THEN before[q]
                                          ELSE Proposed[fix[q]]]
      /\ pc[q] \in {"park"} \cup Ended /\ fix[q] \in AutoFix
  BY DEF LateWrite, IInv, WriteAhead
<1>2. \A g, steps : Working(g, steps)' <=> Working(g, steps)
  BY <1>1 DEF Working
<1>3. RowMatches' /\ TrailMatches'
  BY <1>1, <1>2, TrailStill DEF TurnInv, RowMatches, TrailMatches
<1>4. \A g \in AutoFix : g # fix[q] => site'[TargetOf[g]] = site[TargetOf[g]]
  BY <1>1 DEF InTurn, IInv, TypeOK
<1>5. status[fix[q]] = "approved" \/ pc[q] = "park" \/ op[q] = "rollback"
  BY <1>1 DEF TurnInv, SiteMatches
<1>6. op[q] = "rollback" => /\ status[fix[q]] \in {"applied", "rolled_back"}
                            /\ before[q] = AppliedBefore(fix[q])
                            /\ site'[TargetOf[fix[q]]] = before[q]
  BY <1>1 DEF TurnInv, SiteMatches, IInv, TypeOK
<1>7. \A r \in Request : pc[r] \in {"audit_applied", "write"} =>
        fix[r] \in AutoFix /\ fix[r] # fix[q]
  <2> SUFFICES ASSUME NEW r \in Request, pc[r] \in {"audit_applied", "write"}
               PROVE  fix[r] \in AutoFix /\ fix[r] # fix[q]
    OBVIOUS
  <2>1. fix[r] \in AutoFix
    BY DEF IInv, KnowsItsTask, WordPressStep
  <2>2. pc[q] = "park" => q = r
    BY DEF TurnInv, OneAtATime, Running
  <2>3. status[fix[r]] = "pending"
    BY DEF TurnInv, RowMatches
  <2> QED
    BY <1>5, <1>6, <2>1, <2>2, <2>3
<1>8. \A g \in AutoFix :
        status[g] = "rolled_back" \/ Working(g, {"set_rolled_back"}) =>
          site'[TargetOf[g]] = AppliedBefore(g)
  <2> SUFFICES ASSUME NEW g \in AutoFix,
                      status[g] = "rolled_back" \/
                      Working(g, {"set_rolled_back"})
               PROVE  site'[TargetOf[g]] = AppliedBefore(g)
    OBVIOUS
  <2>1. status[g] \in {"applied", "rolled_back"}
    BY DEF TurnInv, RowMatches, Working
  <2>2. pc[q] = "park" => status[fix[q]] = "pending"
    BY DEF TurnInv, RowMatches
  <2>3. CASE g = fix[q]
    BY <1>5, <1>6, <2>1, <2>2, <2>3
  <2>4. CASE g # fix[q]
    BY <1>4, <2>4 DEF TurnInv, SiteMatches
  <2> QED
    BY <2>3, <2>4
<1>9. SiteMatches'
  BY <1>1, <1>2, <1>4, <1>7, <1>8, TrailStill DEF TurnInv, SiteMatches
<1> QED
  BY <1>3, <1>9

(* The steps of the running request.  What it leaves alone:                *)
LEMMA OthersKept ==
  ASSUME IInv, TurnInv, NEW r \in Request, pc[r] \in Running,
         NEW s, pc' = [pc EXCEPT ![r] = s], UNCHANGED <<op, fix>>
  PROVE  /\ \A q \in Request : pc[q] \in Running \/ pc'[q] \in Running => q = r
         /\ pc'[r] = s
         /\ pc[r] # "park" => r \notin inflight
         /\ \A q \in inflight : pc[q] = "park" => q = r
         /\ \A g : \A steps \in SUBSET Running :
              /\ Working(g, steps) <=> pc[r] \in steps /\ fix[r] = g
              /\ Working(g, steps)' <=> s \in steps /\ fix[r] = g
<1>1. pc[r] # "park" => r \notin inflight
  BY DEF IInv, WriteAhead, Running, Ended
<1>2. \A q \in Request : pc[q] \in Running => q = r
  BY DEF TurnInv, OneAtATime
<1>3. \A q \in inflight : pc[q] = "park" => q = r
  BY <1>2 DEF IInv, TypeOK, Running
<1>4. \A q \in Request : q # r => pc'[q] = pc[q]
  BY DEF IInv, TypeOK
<1>5. pc'[r] = s
  BY DEF IInv, TypeOK
<1> QED
  BY <1>1, <1>2, <1>3, <1>4, <1>5, Alone, AloneNext DEF IInv, TurnInv

LEMMA LoadKeepsTurn ==
  ASSUME InTurn, IInv, TurnInv, NEW r \in Request, Load(r)
  PROVE  RowMatches' /\ TrailMatches' /\ SiteMatches'
<1> DEFINE s == IF Admitted(r) THEN FirstCall(r) ELSE "refused"
<1>1. /\ pc[r] = "load" /\ pc' = [pc EXCEPT ![r] = s]
      /\ UNCHANGED <<status, audit, site, op, fix, before, inflight>>
  BY DEF Load, Goto
<1>2. /\ op[r] \in Operation /\ fix[r] \in Fix
      /\ op[r] = "rollback" /\ Admitted(r) => fix[r] \in AutoFix
  BY <1>1 DEF IInv, KnowsItsTask, Admitted, WriteAhead
<1>3. \/ s = "refused"
      \/ s = "set_rejected" /\ status[fix[r]] = "pending"
      \/ s = "find" /\ status[fix[r]] = "applied"
      \/ s = "read" /\ status[fix[r]] = "pending"
      \/ /\ s = "set_approved" /\ status[fix[r]] = "pending"
         /\ fix[r] \notin AutoFix
  <2>1. CASE ~Admitted(r)
    BY <2>1
  <2>2. CASE Admitted(r) /\ op[r] = "reject"
    BY <2>2 DEF Admitted, FirstCall
  <2>3. CASE Admitted(r) /\ op[r] = "rollback"
    BY <2>3 DEF Admitted, FirstCall
  <2>4. CASE Admitted(r) /\ op[r] = "approve"
    BY <2>4 DEF Admitted, FirstCall
  <2> QED
    BY <1>2, <2>1, <2>2, <2>3, <2>4 DEF Operation
<1> HIDE DEF s
<1>4. /\ \A q \in Request : pc[q] \in Running \/ pc'[q] \in Running => q = r
      /\ pc'[r] = s /\ r \notin inflight
      /\ \A q \in inflight : pc[q] = "park" => q = r
      /\ \A g : \A steps \in SUBSET Running :
           /\ Working(g, steps) <=> pc[r] \in steps /\ fix[r] = g
           /\ Working(g, steps)' <=> s \in steps /\ fix[r] = g
  BY <1>1, OthersKept DEF Running
<1>5. RowMatches'
  BY <1>1, <1>3, <1>4 DEF RowMatches, Running
<1>6. \A g : \A steps \in SUBSET (Running \ {"load", "set_rejected", "find",
                                             "read", "set_approved"}) :
        ~Working(g, steps) /\ ~Working(g, steps)'
  BY <1>1, <1>3, <1>4 DEF Running
<1>7. TrailMatches'
  BY <1>1, <1>6, TrailStill DEF TurnInv, TrailMatches, Running
<1>8. SiteMatches'
  BY <1>1, <1>3, <1>4, <1>6, TrailStill
     DEF TurnInv, SiteMatches, Running, IInv, TypeOK
<1> QED
  BY <1>5, <1>7, <1>8

LEMMA ReadKeepsTurn ==
  ASSUME InTurn, IInv, TurnInv, NEW r \in Request, ReadBefore(r)
  PROVE  RowMatches' /\ TrailMatches' /\ SiteMatches'
<1>1. PICK s \in {"audit_applied", "park"} :
        /\ pc[r] = "read" /\ pc' = [pc EXCEPT ![r] = s]
        /\ UNCHANGED <<status, audit, site, op, fix, inflight>>
        /\ \/ /\ s = "audit_applied"
              /\ before' = [before EXCEPT ![r] = site[TargetOf[fix[r]]]]
           \/ s = "park" /\ before' = before
  BY DEF ReadBefore, ReadStep, Goto, InTurn, May
<1>2. /\ \A q \in Request : pc[q] \in Running \/ pc'[q] \in Running => q = r
      /\ pc'[r] = s /\ r \notin inflight
      /\ \A q \in inflight : pc[q] = "park" => q = r
      /\ \A g : \A steps \in SUBSET Running :
           /\ Working(g, steps) <=> pc[r] \in steps /\ fix[r] = g
           /\ Working(g, steps)' <=> s \in steps /\ fix[r] = g
  <2>1. /\ pc[r] = "read" /\ pc' = [pc EXCEPT ![r] = s]
        /\ UNCHANGED <<op, fix>>
    BY <1>1
  <2>2. pc[r] \in Running /\ pc[r] # "park"
    BY <2>1 DEF Running
  <2> QED
    BY <2>1, <2>2, OthersKept
<1>3. status[fix[r]] = "pending"
  BY <1>1 DEF TurnInv, RowMatches
<1>4. RowMatches'
  BY <1>1, <1>2, <1>3 DEF RowMatches, Running
<1>5. \A g : \A steps \in SUBSET (Running \ {"read", "audit_applied", "park"}) :
        ~Working(g, steps) /\ ~Working(g, steps)'
  BY <1>1, <1>2 DEF Running
<1>6. \A g : ~Working(g, {"write", "park", "set_applied"})
  BY <1>1, <1>2 DEF Running
<1>7. TrailMatches'
  BY <1>1, <1>5, <1>6, TrailStill DEF TurnInv, TrailMatches, Running
<1>8. SiteMatches'
  <2>1. \A q \in inflight : before'[q] = before[q] /\ pc'[q] = pc[q]
    BY <1>1, <1>2 DEF IInv, TypeOK
  <2>2. \A q \in Request : pc'[q] = "audit_applied" =>
                             before'[q] = site[TargetOf[fix[q]]]
    BY <1>1, <1>2 DEF IInv, TypeOK, Running
  <2>3. \A q \in Request : pc'[q] \notin {"write", "restore"}
    BY <1>1, <1>2 DEF Running
  <2> QED
    BY <1>1, <1>5, <2>1, <2>2, <2>3, TrailStill DEF TurnInv, SiteMatches,
       Running
<1> QED
  BY <1>4, <1>7, <1>8

LEMMA FindKeepsTurn ==
  ASSUME InTurn, IInv, TurnInv, NEW r \in Request, FindBefore(r)
  PROVE  RowMatches' /\ TrailMatches' /\ SiteMatches'
<1>1. PICK s \in {"restore", "refused"} :
        /\ pc[r] = "find" /\ pc' = [pc EXCEPT ![r] = s]
        /\ UNCHANGED <<status, audit, site, op, fix, inflight>>
        /\ before' = [before EXCEPT ![r] = AppliedBefore(fix[r])]
  BY DEF FindBefore, Goto
<1>2. /\ \A q \in Request : pc[q] \in Running \/ pc'[q] \in Running => q = r
      /\ pc'[r] = s /\ r \notin inflight
      /\ \A q \in inflight : pc[q] = "park" => q = r
      /\ \A g : \A steps \in SUBSET Running :
           /\ Working(g, steps) <=> pc[r] \in steps /\ fix[r] = g
           /\ Working(g, steps)' <=> s \in steps /\ fix[r] = g
  BY <1>1, OthersKept DEF Running
<1>3. status[fix[r]] = "applied"
  BY <1>1 DEF TurnInv, RowMatches
<1>4. RowMatches'
  BY <1>1, <1>2, <1>3 DEF RowMatches, Running
<1>5. \A g : \A steps \in SUBSET (Running \ {"find", "restore"}) :
        ~Working(g, steps) /\ ~Working(g, steps)'
  BY <1>1, <1>2 DEF Running
<1>6. TrailMatches'
  BY <1>1, <1>5, TrailStill DEF TurnInv, TrailMatches, Running
<1>7. SiteMatches'
  <2>1. \A q \in inflight : before'[q] = before[q] /\ pc'[q] = pc[q]
    BY <1>1, <1>2 DEF IInv, TypeOK
  <2>2. \A q \in Request : pc'[q] = "restore" =>
                             before'[q] = AppliedBefore(fix[q])
    BY <1>1, <1>2 DEF IInv, TypeOK, Running
  <2>3. \A q \in Request : pc'[q] \notin {"write", "audit_applied"}
    BY <1>1, <1>2 DEF Running
  <2> QED
    BY <1>1, <1>5, <2>1, <2>2, <2>3, TrailStill DEF TurnInv, SiteMatches,
       Running
<1> QED
  BY <1>4, <1>6, <1>7

(* A call that sets the status of the row, whichever it is: what it sets,  *)
(* and where the request goes.                                             *)
StatusMove(at, s, next) ==
  \/ at = "set_approved" /\ s = "approved" /\ next = "audit_approved"
  \/ at = "set_applied" /\ s = "applied" /\ next = "ok"
  \/ at = "park" /\ s = "approved" /\ next = "failed"
  \/ at = "set_rejected" /\ s = "rejected" /\ next = "audit_rejected"
  \/ at = "set_rolled_back" /\ s = "rolled_back" /\ next = "audit_rolled_back"

LEMMA StatusKeepsTurn ==
  ASSUME InTurn, IInv, TurnInv, NEW r \in Request, StatusCall(r)
  PROVE  RowMatches' /\ TrailMatches' /\ SiteMatches'
<1>1. PICK at, s, next : StatusMove(at, s, next) /\ StatusStep(r, at, s, next)
  BY DEF StatusCall, SetApproved, SetApplied, Park, SetRejected,
         SetRolledBack, StatusMove
<1>2. PICK f \in Fix : f = fix[r]
  BY <1>1 DEF StatusStep, StatusMove, IInv, KnowsItsTask
<1>3. /\ pc[r] = at /\ pc' = [pc EXCEPT ![r] = next]
      /\ status' = [status EXCEPT ![f] = s]
      /\ UNCHANGED <<audit, site, op, fix, before, inflight>>
  BY <1>1, <1>2 DEF StatusStep, Goto
<1>4. /\ status'[f] = s
      /\ \A g \in Fix : g # f => status'[g] = status[g]
  BY <1>2, <1>3 DEF IInv, TypeOK
<1>5. /\ \A q \in Request : pc[q] \in Running \/ pc'[q] \in Running => q = r
      /\ pc'[r] = next /\ (at # "park" => r \notin inflight)
      /\ \A q \in inflight : pc[q] = "park" => q = r
      /\ \A g : \A steps \in SUBSET Running :
           /\ Working(g, steps) <=> at \in steps /\ f = g
           /\ Working(g, steps)' <=> next \in steps /\ f = g
  <2>1. at \in Running
    BY <1>1 DEF StatusMove, Running
  <2>2. pc[r] \in Running /\ pc' = [pc EXCEPT ![r] = next]
        /\ UNCHANGED <<op, fix>>
    BY <1>3, <2>1
  <2> QED
    BY <1>2, <1>3, <2>2, OthersKept
<1>6. /\ at = "set_rolled_back" => status[f] = "applied"
      /\ at # "set_rolled_back" => status[f] = "pending"
      /\ at = "set_approved" => f \notin AutoFix
      /\ at \in {"park", "set_applied"} => f \in AutoFix /\ op[r] = "approve"
  BY <1>1, <1>2, <1>3 DEF StatusMove, TurnInv, RowMatches, IInv, KnowsItsTask,
     WordPressStep, ApproveSteps
<1>7. RowMatches'
  BY <1>1, <1>2, <1>3, <1>4, <1>5, <1>6 DEF RowMatches, StatusMove, Running
<1>8. TrailMatches'
  <2>1. ASSUME NEW g \in Fix, g # f
        PROVE  /\ status'[g] = status[g]
               /\ \A steps \in SUBSET Running : ~Working(g, steps)
               /\ \A steps \in SUBSET Running : ~Working(g, steps)'
    BY <1>4, <1>5, <2>1
  <2>2. /\ ~Told(f, "pending->approved") /\ ~Told(f, "pending->rejected")
        /\ ~Told(f, "applied->rolled_back")
    BY <1>6 DEF TurnInv, TrailMatches
  <2>3. Told(f, "pending->applied") =>
          at \in {"set_applied", "park", "set_rolled_back"}
    BY <1>1, <1>2, <1>5, <1>6 DEF TurnInv, TrailMatches, StatusMove, Running
  <2>4. ASSUME NEW g \in Fix
        PROVE  /\ \A t \in Transition : \A i, j \in EntriesOf(g, t)' : i = j
               /\ Told(g, "pending->approved")' <=>
                    /\ status'[g] = "approved" /\ g \notin AutoFix
                    /\ ~Working(g, {"audit_approved"})'
               /\ Told(g, "pending->rejected")' <=>
                    status'[g] = "rejected" /\ ~Working(g, {"audit_rejected"})'
               /\ Told(g, "applied->rolled_back")' <=>
                    /\ status'[g] = "rolled_back"
                    /\ ~Working(g, {"audit_rolled_back"})'
               /\ Told(g, "pending->applied")' =>
                    \/ status'[g] \in {"applied", "rolled_back"}
                    \/ status'[g] = "approved" /\ g \in AutoFix
                    \/ Working(g, {"write", "park", "set_applied"})'
    <3>1. CASE g # f
      BY <1>3, <2>1, <3>1, TrailStill DEF TurnInv, TrailMatches, Running
    <3>2. CASE g = f
      <4>1. /\ Working(g, {"audit_approved"})' <=> next = "audit_approved"
            /\ Working(g, {"audit_rejected"})' <=> next = "audit_rejected"
            /\ Working(g, {"audit_rolled_back"})' <=>
                 next = "audit_rolled_back"
        BY <1>5, <3>2 DEF Running
      <4>2. \A t : /\ EntriesOf(g, t)' = EntriesOf(g, t)
                   /\ Told(g, t)' <=> Told(g, t)
        BY <1>3, TrailStill
      <4>3. \A t \in Transition : \A i, j \in EntriesOf(g, t)' : i = j
        BY <4>2 DEF TurnInv, TrailMatches
      <4>4. /\ ~Told(g, "pending->approved") /\ ~Told(g, "pending->rejected")
            /\ ~Told(g, "applied->rolled_back")
        BY <2>2, <3>2
      <4> QED
        BY <1>1, <1>4, <1>6, <2>3, <3>2, <4>1, <4>2, <4>3, <4>4
           DEF StatusMove
    <3> QED
      BY <3>1, <3>2
  <2> QED
    BY <2>4 DEF TrailMatches
<1>9. SiteMatches'
  <2>1. \A q \in Request : pc'[q] \notin {"audit_applied", "write", "restore"}
    BY <1>1, <1>5 DEF StatusMove, Running
  <2>2. ASSUME NEW g \in AutoFix,
               status'[g] = "rolled_back" \/ Working(g, {"set_rolled_back"})'
        PROVE  site[TargetOf[g]] = AppliedBefore(g)
    <3>1. ~Working(g, {"set_rolled_back"})'
      BY <1>1, <1>5 DEF StatusMove, Running
    <3>2. CASE g # f
      BY <1>4, <2>2, <3>1, <3>2 DEF TurnInv, SiteMatches
    <3>3. CASE g = f
      <4>1. at = "set_rolled_back"
        BY <1>1, <1>4, <2>2, <3>1, <3>3 DEF StatusMove
      <4>2. Working(g, {"set_rolled_back"})
        BY <1>5, <3>3, <4>1 DEF Running
      <4> QED
        BY <4>2 DEF TurnInv, SiteMatches
    <3> QED
      BY <3>2, <3>3
  <2>3. ASSUME NEW q \in inflight
        PROVE  IF op[q] = "rollback"
                 THEN /\ status'[fix[q]] \in {"applied", "rolled_back"}
                      /\ before[q] = AppliedBefore(fix[q])
                 ELSE status'[fix[q]] = "approved" \/ pc'[q] = "park"
    <3>1. q \in Request /\ fix[q] \in Fix
      BY DEF IInv, TypeOK, WriteAhead
    <3>2. IF op[q] = "rollback"
            THEN /\ status[fix[q]] \in {"applied", "rolled_back"}
                 /\ before[q] = AppliedBefore(fix[q])
            ELSE status[fix[q]] = "approved" \/ pc[q] = "park"
      BY DEF TurnInv, SiteMatches
    <3>3. CASE q = r
      BY <1>1, <1>2, <1>4, <1>5, <1>6, <3>3 DEF StatusMove
    <3>4. CASE q # r /\ fix[q] # f
      BY <1>4, <1>5, <3>1, <3>2, <3>4
    <3>5. CASE q # r /\ fix[q] = f
      BY <1>1, <1>4, <1>5, <1>6, <3>2, <3>5 DEF StatusMove
    <3> QED
      BY <3>3, <3>4, <3>5
  <2> QED
    BY <1>3, <2>1, <2>2, <2>3, TrailStill DEF SiteMatches
<1> QED
  BY <1>7, <1>8, <1>9

(* A call that writes to the trail, whichever it is.                       *)
AuditMove(at, t, next) ==
  \/ at = "audit_approved" /\ t = "pending->approved" /\ next = "ok"
  \/ at = "audit_applied" /\ t = "pending->applied" /\ next = "write"
  \/ at = "audit_rejected" /\ t = "pending->rejected" /\ next = "ok"
  \/ at = "audit_rolled_back" /\ t = "applied->rolled_back" /\ next = "ok"

LEMMA AuditCallMoves ==
  ASSUME IInv, NEW r \in Request, AuditCall(r)
  PROVE  \E at, t, next : \E e \in AuditEntry :
           /\ AuditMove(at, t, next)
           /\ pc[r] = at /\ pc' = [pc EXCEPT ![r] = next]
           /\ UNCHANGED <<status, site, op, fix, before, inflight>>
           /\ audit' = Append(audit, e)
           /\ e.fix = fix[r] /\ e.transition = t
           /\ at = "audit_applied" => e.before = before[r]
<1>1. PICK at, t, next, v :
        /\ AuditMove(at, t, next) /\ v \in Value \cup {None}
        /\ at = "audit_applied" => v = before[r]
        /\ AuditStep(r, at, t, v, next)
  <2>1. before[r] \in Value \cup {None}
    BY DEF IInv, TypeOK
  <2>2. CASE AuditApproved(r)
    BY <2>2 DEF AuditApproved, AuditMove
  <2>3. CASE AuditApplied(r)
    BY <2>1, <2>3 DEF AuditApplied, AuditMove
  <2>4. CASE AuditRejected(r)
    BY <2>4 DEF AuditRejected, AuditMove
  <2>5. CASE AuditRolledBack(r)
    BY <2>1, <2>5 DEF AuditRolledBack, AuditMove
  <2> QED
    BY <2>2, <2>3, <2>4, <2>5 DEF AuditCall
<1> DEFINE e == [fix |-> fix[r], transition |-> t, before |-> v, actor |-> r]
<1>2. /\ pc[r] = at /\ pc' = [pc EXCEPT ![r] = next]
      /\ UNCHANGED <<status, site, op, fix, before, inflight>>
      /\ audit' = Append(audit, e)
  BY <1>1 DEF AuditStep, Goto
<1>3. t \in Transition /\ fix[r] \in Fix
  BY <1>1, <1>2 DEF AuditMove, Transition, IInv, KnowsItsTask
<1>4. e \in AuditEntry
  BY <1>1, <1>3 DEF AuditEntry
<1>5. e.fix = fix[r] /\ e.transition = t /\ e.before = v
  OBVIOUS
<1> HIDE DEF e
<1> QED
  BY <1>1, <1>2, <1>4, <1>5

LEMMA AuditKeepsTurn ==
  ASSUME InTurn, IInv, TurnInv, NEW r \in Request, AuditCall(r)
  PROVE  RowMatches' /\ TrailMatches' /\ SiteMatches'
<1>1. PICK at, t, next : \E e \in AuditEntry :
        /\ AuditMove(at, t, next)
        /\ pc[r] = at /\ pc' = [pc EXCEPT ![r] = next]
        /\ UNCHANGED <<status, site, op, fix, before, inflight>>
        /\ audit' = Append(audit, e)
        /\ e.fix = fix[r] /\ e.transition = t
        /\ at = "audit_applied" => e.before = before[r]
  BY AuditCallMoves
<1>2. PICK e \in AuditEntry :
        /\ AuditMove(at, t, next)
        /\ pc[r] = at /\ pc' = [pc EXCEPT ![r] = next]
        /\ UNCHANGED <<status, site, op, fix, before, inflight>>
        /\ audit' = Append(audit, e)
        /\ e.fix = fix[r] /\ e.transition = t
        /\ at = "audit_applied" => e.before = before[r]
  BY <1>1
<1>3. PICK f \in Fix : f = fix[r] /\ f = e.fix
  BY <1>2 DEF AuditEntry
<1>4. /\ \A q \in Request : pc[q] \in Running \/ pc'[q] \in Running => q = r
      /\ pc'[r] = next /\ r \notin inflight
      /\ \A q \in inflight : pc[q] = "park" => q = r
      /\ \A g : \A steps \in SUBSET Running :
           /\ Working(g, steps) <=> at \in steps /\ f = g
           /\ Working(g, steps)' <=> next \in steps /\ f = g
  <2>1. pc[r] \in Running /\ pc[r] # "park"
    BY <1>2 DEF AuditMove, Running
  <2>2. pc' = [pc EXCEPT ![r] = next] /\ UNCHANGED <<op, fix>>
    BY <1>2
  <2>3. pc[r] = at /\ fix[r] = f
    BY <1>2, <1>3
  <2>4. /\ \A q \in Request : pc[q] \in Running \/ pc'[q] \in Running => q = r
        /\ pc'[r] = next /\ r \notin inflight
        /\ \A q \in inflight : pc[q] = "park" => q = r
        /\ \A g : \A steps \in SUBSET Running :
             /\ Working(g, steps) <=> pc[r] \in steps /\ fix[r] = g
             /\ Working(g, steps)' <=> next \in steps /\ fix[r] = g
    BY <2>1, <2>2, OthersKept
  <2> QED
    BY <2>3, <2>4
<1>5. /\ at = "audit_approved" => status[f] = "approved" /\ f \notin AutoFix
      /\ at = "audit_applied" => status[f] = "pending" /\ f \in AutoFix
      /\ at = "audit_rejected" => status[f] = "rejected"
      /\ at = "audit_rolled_back" => status[f] = "rolled_back"
  BY <1>2, <1>3 DEF TurnInv, RowMatches, IInv, KnowsItsTask, WordPressStep
<1>6. RowMatches'
  BY <1>2, <1>3, <1>4, <1>5 DEF RowMatches, AuditMove, Running
<1>7. ~Told(f, t)
  <2>1. at = "audit_applied" => ~Working(f, {"write", "park", "set_applied"})
    BY <1>4 DEF Running
  <2>2. /\ at = "audit_approved" => Working(f, {"audit_approved"})
        /\ at = "audit_rejected" => Working(f, {"audit_rejected"})
        /\ at = "audit_rolled_back" => Working(f, {"audit_rolled_back"})
    BY <1>4 DEF Running
  <2> QED
    BY <1>2, <1>5, <2>1, <2>2 DEF AuditMove, TurnInv, TrailMatches
<1>8. /\ \A g, u : g # f \/ u # t =>
           /\ EntriesOf(g, u)' = EntriesOf(g, u)
           /\ Told(g, u)' <=> Told(g, u)
      /\ EntriesOf(f, t)' = {Len(audit) + 1} /\ Told(f, t)'
      /\ \A i \in DOMAIN audit : audit'[i] = audit[i]
  <2>1. TypeOK
    BY DEF IInv
  <2>2. EntriesOf(f, t)' = {Len(audit) + 1}
    BY <1>2, <1>3, <1>7, <2>1, EntriesAppend DEF Told
  <2>3. \A g, u : g # f \/ u # t => EntriesOf(g, u)' = EntriesOf(g, u)
    <3> SUFFICES ASSUME NEW g, NEW u, g # f \/ u # t
                 PROVE  EntriesOf(g, u)' = EntriesOf(g, u)
      OBVIOUS
    <3>1. EntriesOf(g, u)' = EntriesOf(g, u) \cup
            (IF e.fix = g /\ e.transition = u THEN {Len(audit) + 1} ELSE {})
      BY <1>2, <2>1, EntriesAppend
    <3>2. ~(e.fix = g /\ e.transition = u)
      BY <1>2, <1>3
    <3> QED
      BY <3>1, <3>2
  <2>4. \A i \in DOMAIN audit : audit'[i] = audit[i]
    BY <1>2, <2>1, AppendEntry
  <2> QED
    BY <2>2, <2>3, <2>4 DEF Told
<1>9. TrailMatches'
  <2>1. ASSUME NEW g \in Fix, NEW u \in Transition
        PROVE  \A i, j \in EntriesOf(g, u)' : i = j
    BY <1>8 DEF TurnInv, TrailMatches
  <2>2. ASSUME NEW g \in Fix, g # f
        PROVE  /\ status'[g] = status[g]
               /\ \A steps \in SUBSET Running : ~Working(g, steps)
               /\ \A steps \in SUBSET Running : ~Working(g, steps)'
    BY <1>2, <1>4, <2>2
  <2>3. ASSUME NEW g \in Fix
        PROVE  /\ Told(g, "pending->approved")' <=>
                    /\ status'[g] = "approved" /\ g \notin AutoFix
                    /\ ~Working(g, {"audit_approved"})'
               /\ Told(g, "pending->rejected")' <=>
                    status'[g] = "rejected" /\ ~Working(g, {"audit_rejected"})'
               /\ Told(g, "applied->rolled_back")' <=>
                    /\ status'[g] = "rolled_back"
                    /\ ~Working(g, {"audit_rolled_back"})'
               /\ Told(g, "pending->applied")' =>
                    \/ status'[g] \in {"applied", "rolled_back"}
                    \/ status'[g] = "approved" /\ g \in AutoFix
                    \/ Working(g, {"write", "park", "set_applied"})'
    <3>1. CASE g # f
      BY <1>8, <2>2, <3>1 DEF TurnInv, TrailMatches, Running
    <3>2. CASE g = f
      <4>1. /\ ~Working(g, {"audit_approved"})'
            /\ ~Working(g, {"audit_rejected"})'
            /\ ~Working(g, {"audit_rolled_back"})'
            /\ next = "write" => Working(g, {"write", "park", "set_applied"})'
        BY <1>2, <1>4, <3>2 DEF AuditMove, Running
      <4>2. /\ Working(g, {"audit_approved"}) <=> at = "audit_approved"
            /\ Working(g, {"audit_rejected"}) <=> at = "audit_rejected"
            /\ Working(g, {"audit_rolled_back"}) <=> at = "audit_rolled_back"
            /\ ~Working(g, {"write", "park", "set_applied"})
        BY <1>2, <1>4, <3>2 DEF AuditMove, Running
      <4>3. \A u \in Transition : Told(f, u)' <=> Told(f, u) \/ u = t
        BY <1>8
      <4> QED
        BY <1>2, <1>5, <3>2, <4>1, <4>2, <4>3
           DEF AuditMove, TurnInv, TrailMatches, Transition
    <3> QED
      BY <3>1, <3>2
  <2> QED
    BY <2>1, <2>3 DEF TrailMatches
<1>10. /\ \A g \in Fix : g # f => AppliedBefore(g)' = AppliedBefore(g)
       /\ at # "audit_applied" => AppliedBefore(f)' = AppliedBefore(f)
       /\ at = "audit_applied" => AppliedBefore(f)' = before[r]
  <2>1. ASSUME NEW g \in Fix, g # f \/ at # "audit_applied"
        PROVE  AppliedBefore(g)' = AppliedBefore(g)
    <3>1. Captures(g)' = Captures(g)
      BY <1>2, <1>8, <2>1 DEF Captures, AuditMove
    <3>2. \A j, k \in Captures(g) : j = k
      BY DEF TurnInv, TrailMatches, Captures, Transition
    <3>3. \A i \in Captures(g) : audit'[i] = audit[i]
      BY <1>8 DEF Captures, EntriesOf, IInv, TypeOK
    <3> QED
      BY <3>1, <3>2, <3>3, CaptureStays
  <2>2. CASE at = "audit_applied"
    <3>1. e.transition = "pending->applied" /\ Captures(e.fix) = {}
      BY <1>2, <1>3, <1>7, <2>2 DEF AuditMove, Told, Captures
    <3>2. AppliedBefore(e.fix)' = e.before
      BY <1>2, <3>1, FirstCapture DEF IInv
    <3> QED
      BY <1>2, <1>3, <2>1, <2>2, <3>2
  <2> QED
    BY <2>1, <2>2
<1>11. SiteMatches'
  <2>1. \A q \in Request : pc'[q] \notin {"audit_applied", "restore"}
    BY <1>2, <1>4 DEF AuditMove, Running
  <2>2. ASSUME NEW q \in Request, pc'[q] = "write"
        PROVE  site[TargetOf[fix[q]]] = AppliedBefore(fix[q])'
    <3>1. q = r /\ at = "audit_applied"
      BY <1>2, <1>4, <2>2 DEF AuditMove, Running
    <3> QED
      BY <1>2, <1>3, <1>10, <3>1 DEF TurnInv, SiteMatches
  <2>3. ASSUME NEW g \in AutoFix,
               status[g] = "rolled_back" \/ Working(g, {"set_rolled_back"})'
        PROVE  site[TargetOf[g]] = AppliedBefore(g)'
    <3>1. status[g] = "rolled_back"
      BY <1>2, <1>4, <2>3 DEF AuditMove, Running
    <3> QED
      BY <1>5, <1>10, <3>1 DEF TurnInv, SiteMatches
  <2>4. ASSUME NEW q \in inflight
        PROVE  IF op[q] = "rollback"
                 THEN /\ status[fix[q]] \in {"applied", "rolled_back"}
                      /\ before[q] = AppliedBefore(fix[q])'
                 ELSE status[fix[q]] = "approved" \/ pc'[q] = "park"
    <3>1. q \in Request /\ fix[q] \in Fix /\ q # r /\ pc[q] # "park"
      BY <1>4 DEF IInv, TypeOK, WriteAhead
    <3>2. IF op[q] = "rollback"
            THEN /\ status[fix[q]] \in {"applied", "rolled_back"}
                 /\ before[q] = AppliedBefore(fix[q])
            ELSE status[fix[q]] = "approved"
      BY <3>1 DEF TurnInv, SiteMatches
    <3>3. PICK g \in Fix : g = fix[q] /\ g = fix'[q]
      BY <1>2, <3>1
    <3>4. op[q] = "rollback" => AppliedBefore(g)' = AppliedBefore(g)
      BY <1>5, <1>10, <3>2, <3>3
    <3> QED
      BY <1>4, <3>1, <3>2, <3>3, <3>4
  <2> QED
    BY <1>2, <2>1, <2>2, <2>3, <2>4 DEF SiteMatches
<1> QED
  BY <1>6, <1>9, <1>11

(* A write to WordPress, whichever it is: confirmed, refused or given up.  *)
PublishMove(at, next) ==
  \/ at = "write" /\ next \in {"set_applied", "park"}
  \/ at = "restore" /\ next \in {"set_rolled_back", "failed"}
Confirmed(next) == next \in {"set_applied", "set_rolled_back"}

LEMMA PublishCallMoves ==
  ASSUME InTurn, NEW r \in Request, PublishCall(r)
  PROVE  \E at, next :
           /\ PublishMove(at, next)
           /\ pc[r] = at /\ pc' = [pc EXCEPT ![r] = next]
           /\ UNCHANGED <<status, audit, op, fix, before, edits>>
           /\ IF Confirmed(next)
                THEN /\ inflight' = inflight
                     /\ site' = [site EXCEPT ![TargetOf[fix[r]]] =
                          IF at = "write" THEN Proposed[fix[r]] ELSE before[r]]
                ELSE /\ site' = site
                     /\ inflight' \in {inflight, inflight \cup {r}}
<1>1. ~May("bad_reply")
  BY DEF InTurn, May
<1>2. CASE WriteProposed(r)
  <2>1. CASE pc' = [pc EXCEPT ![r] = "set_applied"] /\
             inflight' = inflight /\
             site' = [site EXCEPT ![TargetOf[fix[r]]] = Proposed[fix[r]]]
    BY <1>2, <2>1 DEF WriteProposed, PublishMove, Confirmed
  <2>2. CASE pc' = [pc EXCEPT ![r] = "park"] /\ site' = site /\
             inflight' \in {inflight, inflight \cup {r}}
    <3>1. PublishMove("write", "park") /\ ~Confirmed("park")
      BY DEF PublishMove, Confirmed
    <3>2. pc[r] = "write" /\ UNCHANGED <<status, audit, op, fix, before, edits>>
      BY <1>2 DEF WriteProposed
    <3> QED
      BY <2>2, <3>1, <3>2
  <2> QED
    BY <1>1, <1>2, <2>1, <2>2 DEF WriteProposed, Publish, Goto
<1>3. CASE Restore(r)
  <2>1. CASE pc' = [pc EXCEPT ![r] = "set_rolled_back"] /\
             inflight' = inflight /\
             site' = [site EXCEPT ![TargetOf[fix[r]]] = before[r]]
    BY <1>3, <2>1 DEF Restore, PublishMove, Confirmed
  <2>2. CASE pc' = [pc EXCEPT ![r] = "failed"] /\ site' = site /\
             inflight' \in {inflight, inflight \cup {r}}
    <3>1. PublishMove("restore", "failed") /\ ~Confirmed("failed")
      BY DEF PublishMove, Confirmed
    <3>2. /\ pc[r] = "restore"
          /\ UNCHANGED <<status, audit, op, fix, before, edits>>
      BY <1>3 DEF Restore
    <3> QED
      BY <2>2, <3>1, <3>2
  <2> QED
    BY <1>1, <1>3, <2>1, <2>2 DEF Restore, Publish, Goto
<1> QED
  BY <1>2, <1>3 DEF PublishCall

LEMMA PublishKeepsTurn ==
  ASSUME InTurn, IInv, TurnInv, NEW r \in Request, PublishCall(r)
  PROVE  RowMatches' /\ TrailMatches' /\ SiteMatches'
<1>1. PICK at, next :
        /\ PublishMove(at, next)
        /\ pc[r] = at /\ pc' = [pc EXCEPT ![r] = next]
        /\ UNCHANGED <<status, audit, op, fix, before, edits>>
        /\ IF Confirmed(next)
             THEN /\ inflight' = inflight
                  /\ site' = [site EXCEPT ![TargetOf[fix[r]]] =
                       IF at = "write" THEN Proposed[fix[r]] ELSE before[r]]
             ELSE /\ site' = site
                  /\ inflight' \in {inflight, inflight \cup {r}}
  BY PublishCallMoves
<1>2. PICK f \in AutoFix : f = fix[r]
  BY <1>1 DEF PublishMove, IInv, KnowsItsTask, WordPressStep
<1>3. /\ \A q \in Request : pc[q] \in Running \/ pc'[q] \in Running => q = r
      /\ pc'[r] = next /\ r \notin inflight
      /\ \A q \in inflight : pc[q] = "park" => q = r
      /\ \A g : \A steps \in SUBSET Running :
           /\ Working(g, steps) <=> at \in steps /\ f = g
           /\ Working(g, steps)' <=> next \in steps /\ f = g
  <2>1. pc[r] \in Running /\ pc[r] # "park"
    BY <1>1 DEF PublishMove, Running
  <2>2. pc' = [pc EXCEPT ![r] = next] /\ UNCHANGED <<op, fix>>
    BY <1>1
  <2>3. pc[r] = at /\ fix[r] = f
    BY <1>1, <1>2
  <2>4. /\ \A q \in Request : pc[q] \in Running \/ pc'[q] \in Running => q = r
        /\ pc'[r] = next /\ r \notin inflight
        /\ \A q \in inflight : pc[q] = "park" => q = r
        /\ \A g : \A steps \in SUBSET Running :
             /\ Working(g, steps) <=> pc[r] \in steps /\ fix[r] = g
             /\ Working(g, steps)' <=> next \in steps /\ fix[r] = g
    BY <2>1, <2>2, OthersKept
  <2> QED
    BY <2>3, <2>4
<1>4. /\ at = "write" => /\ status[f] = "pending" /\ op[r] = "approve"
                         /\ site[TargetOf[f]] = AppliedBefore(f)
      /\ at = "restore" => /\ status[f] = "applied" /\ op[r] = "rollback"
                           /\ before[r] = AppliedBefore(f)
  BY <1>1, <1>2 DEF TurnInv, RowMatches, SiteMatches, IInv, KnowsItsTask,
     ApproveSteps, RollbackSteps
<1>5. RowMatches'
  BY <1>1, <1>2, <1>3, <1>4 DEF RowMatches, PublishMove, Running
<1>6. TrailMatches'
  <2>1. /\ \A g : \A steps \in SUBSET {"audit_approved", "audit_rejected",
                                       "audit_rolled_back"} :
             ~Working(g, steps) /\ ~Working(g, steps)'
        /\ \A g : Working(g, {"write", "park", "set_applied"}) =>
                    Working(g, {"write", "park", "set_applied"})'
    BY <1>1, <1>3 DEF PublishMove, Running
  <2> QED
    BY <1>1, <2>1, TrailStill DEF TurnInv, TrailMatches
<1>7. SiteMatches'
  <2>1. \A q \in Request : pc'[q] \notin {"audit_applied", "write", "restore"}
    BY <1>1, <1>3 DEF PublishMove, Running
  <2>2. ASSUME NEW g \in AutoFix,
               status[g] = "rolled_back" \/ Working(g, {"set_rolled_back"})'
        PROVE  site'[TargetOf[g]] = AppliedBefore(g)
    <3>1. CASE g # f
      <4>1. site'[TargetOf[g]] = site[TargetOf[g]]
        BY <1>1, <1>2, <3>1 DEF InTurn, IInv, TypeOK
      <4>2. status[g] = "rolled_back"
        BY <1>3, <2>2, <3>1 DEF Running
      <4> QED
        BY <4>1, <4>2 DEF TurnInv, SiteMatches
    <3>2. CASE g = f
      <4>1. next = "set_rolled_back" /\ at = "restore"
        BY <1>1, <1>3, <1>4, <2>2, <3>2 DEF PublishMove, Running
      <4>2. site' = [site EXCEPT ![TargetOf[f]] = before[r]]
        BY <1>1, <1>2, <4>1 DEF Confirmed
      <4> QED
        BY <1>4, <3>2, <4>1, <4>2 DEF IInv, TypeOK
    <3> QED
      BY <3>1, <3>2
  <2>3. ASSUME NEW q \in inflight'
        PROVE  IF op[q] = "rollback"
                 THEN /\ status[fix[q]] \in {"applied", "rolled_back"}
                      /\ before[q] = AppliedBefore(fix[q])
                 ELSE status[fix[q]] = "approved" \/ pc'[q] = "park"
    <3>1. CASE q = r
      <4>1. ~Confirmed(next)
        BY <1>1, <1>3, <3>1
      <4> QED
        BY <1>1, <1>2, <1>3, <1>4, <3>1, <4>1 DEF PublishMove, Confirmed
    <3>2. CASE q # r
      <4>1. q \in inflight
        BY <1>1, <3>2
      <4>2. pc[q] # "park"
        BY <1>3, <3>2, <4>1
      <4> QED
        BY <4>1, <4>2 DEF TurnInv, SiteMatches
    <3> QED
      BY <3>1, <3>2
  <2> QED
    BY <1>1, <2>1, <2>2, <2>3, TrailStill DEF SiteMatches
<1> QED
  BY <1>5, <1>6, <1>7

-----------------------------------------------------------------------------
LEMMA TurnStep ==
  ASSUME InTurn PROVE IInv /\ TurnInv /\ [Next]_vars => TurnInv'
<1> SUFFICES ASSUME IInv, TurnInv, [Next]_vars PROVE TurnInv'
  OBVIOUS
<1>1. OneAtATime'
  BY OneAtATimeStep DEF TurnInv
<1>2. CASE UNCHANGED vars
  <2>1. UNCHANGED <<status, audit, site, pc, op, fix, before, inflight>>
    BY <1>2 DEF vars
  <2>2. \A g, steps : Working(g, steps)' <=> Working(g, steps)
    BY <2>1 DEF Working
  <2>3. RowMatches'
    BY <2>1 DEF TurnInv, RowMatches
  <2>4. TrailMatches'
    BY <2>1, <2>2, TrailStill DEF TurnInv, TrailMatches
  <2>5. SiteMatches'
    BY <2>1, <2>2, TrailStill DEF TurnInv, SiteMatches
  <2> QED
    BY <1>1, <2>3, <2>4, <2>5 DEF TurnInv
<1>3. ASSUME NEW r \in Request, Step(r)
      PROVE  RowMatches' /\ TrailMatches' /\ SiteMatches'
  BY <1>3, StepCases, LoadKeepsTurn, ReadKeepsTurn, FindKeepsTurn,
     StatusKeepsTurn, AuditKeepsTurn, PublishKeepsTurn
<1>4. CASE ~(UNCHANGED vars)
  BY <1>1, <1>3, <1>4, TurnCases, PersistKeepsTurn, ArrivalKeepsTurn,
     LateWriteKeepsTurn DEF TurnInv
<1> QED
  BY <1>2, <1>4

LEMMA TurnInvariance == ASSUME InTurn PROVE Spec => []TurnInv
<1>1. Init => TurnInv
  BY DEF Init, TurnInv, OneAtATime, RowMatches, TrailMatches, SiteMatches,
     Working, Told, EntriesOf, Running, Transition
<1>2. IInv /\ TurnInv /\ [Next]_vars => TurnInv'
  BY TurnStep
<1> QED
  BY <1>1, <1>2, Invariance, PTL DEF Spec

(* Of a fix at rest the trail tells the transitions its row has made, each *)
(* once, and a rolled back fix shows on the site what was captured before  *)
(* it was first published.                                                 *)
THEOREM History == ASSUME InTurn PROVE Spec => []HistoryIsTrue
<1>1. IInv /\ TurnInv => OneEntryPerTransition
  <2> SUFFICES ASSUME IInv, TurnInv, Active = {}, NEW f \in Fix
               PROVE  /\ {t \in Transition : EntriesOf(f, t) # {}} \in Story(f)
                      /\ \A t \in Transition :
                           \A i, j \in EntriesOf(f, t) : i = j
    BY DEF OneEntryPerTransition
  <2>1. \A steps \in SUBSET Running : ~Working(f, steps)
    BY DEF Active, Working
  <2>2. /\ Told(f, "pending->approved") <=>
             status[f] = "approved" /\ f \notin AutoFix
        /\ Told(f, "pending->rejected") <=> status[f] = "rejected"
        /\ Told(f, "applied->rolled_back") <=> status[f] = "rolled_back"
        /\ Told(f, "pending->applied") =>
             \/ status[f] \in {"applied", "rolled_back"}
             \/ status[f] = "approved" /\ f \in AutoFix
    BY <2>1 DEF TurnInv, TrailMatches, Running
  <2>3. status[f] \in {"applied", "rolled_back"} => Told(f, "pending->applied")
    BY DEF IInv, WriteAhead, Captured, Captures, Told
  <2> DEFINE T == {t \in Transition : EntriesOf(f, t) # {}}
  <2>4. T = {t \in Transition : Told(f, t)}
    BY DEF Told
  <2>5. T \in Story(f)
    <3> HIDE DEF T
    <3>1. status[f] \in Status
      BY DEF IInv, TypeOK
    <3>2. CASE status[f] \in {"absent", "pending"}
      <4>1. T = {}
        BY <2>2, <2>4, <3>2 DEF Transition
      <4> QED
        BY <3>2, <4>1 DEF Story
    <3>3. CASE status[f] = "rejected"
      <4>1. T = {"pending->rejected"}
        BY <2>2, <2>4, <3>3 DEF Transition
      <4> QED
        BY <3>3, <4>1 DEF Story
    <3>4. CASE status[f] = "applied"
      <4>1. T = {"pending->applied"}
        BY <2>2, <2>3, <2>4, <3>4 DEF Transition
      <4> QED
        BY <3>4, <4>1 DEF Story
    <3>5. CASE status[f] = "rolled_back"
      <4>1. T = {"pending->applied", "applied->rolled_back"}
        BY <2>2, <2>3, <2>4, <3>5 DEF Transition
      <4> QED
        BY <3>5, <4>1 DEF Story
    <3>6. CASE status[f] = "approved"
      <4>1. CASE f \in AutoFix
        <5>1. T = {} \/ T = {"pending->applied"}
          BY <2>2, <2>4, <3>6, <4>1 DEF Transition
        <5> QED
          BY <3>6, <4>1, <5>1 DEF Story
      <4>2. CASE f \notin AutoFix
        <5>1. T = {"pending->approved"}
          BY <2>2, <2>4, <3>6, <4>2 DEF Transition
        <5> QED
          BY <3>6, <4>2, <5>1 DEF Story
      <4> QED
        BY <4>1, <4>2
    <3> QED
      BY <3>1, <3>2, <3>3, <3>4, <3>5, <3>6 DEF Status, Decided
  <2> QED
    BY <2>5 DEF TurnInv, TrailMatches
<1>2. IInv /\ TurnInv => RolledBackIsRestored
  <2> SUFFICES ASSUME IInv, TurnInv, NEW f \in AutoFix,
                      status[f] = "rolled_back"
               PROVE  site[TargetOf[f]] = OriginalBefore(f)
    BY DEF RolledBackIsRestored
  <2>1. PICK i : i \in Captures(f)
    BY DEF IInv, WriteAhead, Captured
  <2>2. \A j, k \in Captures(f) : j = k
    BY DEF TurnInv, TrailMatches, Captures, Transition
  <2> QED
    BY <2>1, <2>2, OnlyCapture DEF IInv, TurnInv, SiteMatches
<1> QED
  BY <1>1, <1>2, Invariance, TurnInvariance, PTL DEF HistoryIsTrue

-----------------------------------------------------------------------------
(* The status a fix has in the abstract, when the request that decides it  *)
(* is about to make the call at and its row is s.                          *)
BarAt(at, s) == IF at = "set_applied" THEN "applied"
                ELSE IF at = "set_rolled_back" THEN "rolled_back"
                ELSE IF at = "park" THEN "approved"
                ELSE s

LEMMA Updated ==
  ASSUME NEW D, NEW S, NEW T, S = [x \in D |-> S[x]], T = [x \in D |-> T[x]],
         NEW f \in D, \A g \in D : g # f => T[g] = S[g]
  PROVE  T = [S EXCEPT ![f] = T[f]]
  OBVIOUS

LEMMA BarsAreFunctions ==
  /\ StatusBar = [f \in Fix |-> StatusBar[f]]
  /\ CapturedBar = [f \in Fix |-> CapturedBar[f]]
  /\ StatusBar' = [f \in Fix |-> StatusBar'[f]]
  /\ CapturedBar' = [f \in Fix |-> CapturedBar'[f]]
  BY DEF StatusBar, CapturedBar

LEMMA BarsOf ==
  ASSUME NEW f \in Fix
  PROVE  /\ StatusBar[f] = IF Working(f, {"set_applied"}) THEN "applied"
              ELSE IF Working(f, {"set_rolled_back"}) THEN "rolled_back"
              ELSE IF Working(f, {"park"}) THEN "approved"
              ELSE status[f]
         /\ CapturedBar[f] = IF StatusBar[f] \in {"applied", "rolled_back"}
                               THEN AppliedBefore(f) ELSE None
<1>1. \A step : Landed(f, step) <=> Working(f, {step})
  BY DEF Landed, Working
<1> QED
  BY <1>1 DEF StatusBar, CapturedBar

LEMMA BarsOfNext ==
  ASSUME NEW f \in Fix
  PROVE  /\ StatusBar'[f] = IF Working(f, {"set_applied"})' THEN "applied"
              ELSE IF Working(f, {"set_rolled_back"})' THEN "rolled_back"
              ELSE IF Working(f, {"park"})' THEN "approved"
              ELSE status'[f]
         /\ CapturedBar'[f] = IF StatusBar'[f] \in {"applied", "rolled_back"}
                                THEN AppliedBefore(f)' ELSE None
<1>1. \A step : Landed(f, step)' <=> Working(f, {step})'
  BY DEF Landed, Working
<1> QED
  BY <1>1 DEF StatusBar, CapturedBar

(* What a step of the running request does to the abstract state.          *)
LEMMA BarsMove ==
  ASSUME IInv, TurnInv, NEW r \in Request, pc[r] \in Running,
         NEW s, pc' = [pc EXCEPT ![r] = s], UNCHANGED <<op, fix>>,
         NEW f \in Fix, f = fix[r],
         \A g \in Fix : g # f => /\ status'[g] = status[g]
                                 /\ AppliedBefore(g)' = AppliedBefore(g)
  PROVE  /\ StatusBar[f] = BarAt(pc[r], status[f])
         /\ StatusBar'[f] = BarAt(s, status'[f])
         /\ StatusBar' = [StatusBar EXCEPT ![f] = StatusBar'[f]]
         /\ CapturedBar' = [CapturedBar EXCEPT ![f] = CapturedBar'[f]]
<1>1. \A g : \A steps \in SUBSET Running :
        /\ Working(g, steps) <=> pc[r] \in steps /\ f = g
        /\ Working(g, steps)' <=> s \in steps /\ f = g
  BY OthersKept
<1>2. {"set_applied"} \subseteq Running /\ {"set_rolled_back"} \subseteq Running
      /\ {"park"} \subseteq Running
  BY DEF Running
<1>3. StatusBar[f] = BarAt(pc[r], status[f])
  BY <1>1, <1>2, BarsOf DEF BarAt
<1>4. StatusBar'[f] = BarAt(s, status'[f])
  BY <1>1, <1>2, BarsOfNext DEF BarAt
<1>5. ASSUME NEW g \in Fix, g # f
      PROVE  StatusBar'[g] = StatusBar[g] /\ CapturedBar'[g] = CapturedBar[g]
  <2>1. StatusBar[g] = status[g]
    BY <1>1, <1>2, <1>5, BarsOf
  <2>2. StatusBar'[g] = status'[g]
    BY <1>1, <1>2, <1>5, BarsOfNext
  <2> QED
    BY <1>5, <2>1, <2>2, BarsOf, BarsOfNext
<1> QED
  BY <1>3, <1>4, <1>5, BarsAreFunctions, Updated

(* The steps that the abstract specification does not see.                 *)
LEMMA Hidden ==
  ASSUME StatusBar' = StatusBar, CapturedBar' = CapturedBar, site' = site
  PROVE  [Atomic!ANext]_(Atomic!avars)
  BY DEF Atomic!avars

LEMMA SameBars ==
  ASSUME \A f \in Fix : StatusBar'[f] = StatusBar[f] /\
                        CapturedBar'[f] = CapturedBar[f]
  PROVE  StatusBar' = StatusBar /\ CapturedBar' = CapturedBar
  BY BarsAreFunctions

LEMMA SameBarsIf ==
  ASSUME UNCHANGED <<status, audit>>,
         \A f \in Fix : \A at \in {"set_applied", "set_rolled_back", "park"} :
           Working(f, {at})' <=> Working(f, {at})
  PROVE  StatusBar' = StatusBar /\ CapturedBar' = CapturedBar
<1> SUFFICES ASSUME NEW f \in Fix
             PROVE  StatusBar'[f] = StatusBar[f] /\
                    CapturedBar'[f] = CapturedBar[f]
  BY SameBars
<1>1. StatusBar'[f] = StatusBar[f]
  BY BarsOf, BarsOfNext
<1> QED
  BY <1>1, BarsOf, BarsOfNext, TrailStill

LEMMA PersistRefines ==
  ASSUME IInv, TurnInv, NEW batch \in SUBSET Fix, PersistFixes(batch)
  PROVE  [Atomic!ANext]_(Atomic!avars)
<1>1. /\ UNCHANGED <<audit, site, pc, fix>>
      /\ \A f \in batch : status[f] = "absent"
      /\ \A f \in Fix :
           status'[f] = IF f \in batch THEN "pending" ELSE status[f]
  BY DEF PersistFixes
<1>2. \A g, steps : Working(g, steps)' <=> Working(g, steps)
  BY <1>1 DEF Working
<1>3. \A f \in batch : /\ ~Working(f, {"set_applied"})
                       /\ ~Working(f, {"set_rolled_back"})
                       /\ ~Working(f, {"park"})
  BY <1>1 DEF TurnInv, RowMatches, Working
<1>4. \A f \in Fix :
        /\ f \in batch => StatusBar[f] = "absent"
        /\ StatusBar'[f] = IF f \in batch THEN "pending" ELSE StatusBar[f]
  BY <1>1, <1>2, <1>3, BarsOf, BarsOfNext
<1>5. \A f \in Fix : CapturedBar'[f] = CapturedBar[f]
  BY <1>1, <1>4, BarsOf, BarsOfNext, TrailStill
<1>6. CapturedBar' = CapturedBar
  BY <1>5, BarsAreFunctions
<1>7. StatusBar' = [f \in Fix |-> IF f \in batch THEN "pending"
                                                 ELSE StatusBar[f]]
  BY <1>4, BarsAreFunctions
<1>8. Atomic!Persist(batch)
  BY <1>1, <1>4, <1>6, <1>7 DEF Atomic!Persist
<1> QED
  BY <1>8 DEF Atomic!ANext

LEMMA ArrivalRefines ==
  ASSUME InTurn, IInv, TurnInv, NEW r \in Request, NEW o \in Operation,
         NEW f \in Fix, NEW valid \in BOOLEAN, Submit(r, o, f, valid)
  PROVE  [Atomic!ANext]_(Atomic!avars)
<1>1. \A q \in Request : pc[q] \notin Running
  BY NoneActive DEF Submit, TurnInv
<1>2. /\ UNCHANGED <<status, audit, site>>
      /\ \A q \in Request : q # r => pc'[q] = pc[q]
      /\ pc'[r] \in {"load", "refused"}
  BY DEF Submit, Goto, IInv, TypeOK
<1>3. \A g : \A at \in {"set_applied", "set_rolled_back", "park"} :
        ~Working(g, {at}) /\ ~Working(g, {at})'
  BY <1>1, <1>2 DEF Working, Running
<1> QED
  BY <1>2, <1>3, SameBarsIf, Hidden

LEMMA LateWriteRefines ==
  ASSUME InTurn, IInv, TurnInv, NEW q \in Request, LateWrite(q)
  PROVE  [Atomic!ANext]_(Atomic!avars)
<1>1. /\ UNCHANGED <<status, audit, pc, fix>>
      /\ q \in inflight
      /\ site' = [site EXCEPT ![TargetOf[fix[q]]] =
                    IF op[q] = "rollback" THEN before[q]
                                          ELSE Proposed[fix[q]]]
  BY DEF LateWrite
<1>2. PICK f \in AutoFix : f = fix[q]
  BY <1>1 DEF IInv, WriteAhead
<1>3. StatusBar' = StatusBar /\ CapturedBar' = CapturedBar
  <2>1. \A g, steps : Working(g, steps)' <=> Working(g, steps)
    BY <1>1 DEF Working
  <2> QED
    BY <1>1, <2>1, SameBarsIf
<1>4. /\ Working(f, {"set_applied"}) \/ Working(f, {"park"}) =>
           status[f] = "pending"
      /\ Working(f, {"set_rolled_back"}) => status[f] = "applied"
  BY DEF TurnInv, RowMatches, Working
<1>5. f \in Fix
  OBVIOUS
<1>6. CASE op[q] = "rollback"
  <2>1. status[f] \in {"applied", "rolled_back"} /\
        before[q] = AppliedBefore(f)
    BY <1>1, <1>2, <1>6 DEF TurnInv, SiteMatches
  <2>2. StatusBar[f] \in {"applied", "rolled_back"}
    BY <1>4, <1>5, <2>1, BarsOf
  <2>3. CapturedBar[f] = before[q]
    BY <1>5, <2>1, <2>2, BarsOf
  <2>4. Atomic!LandsLate(f)
    BY <1>1, <1>2, <1>3, <1>6, <2>2, <2>3 DEF Atomic!LandsLate
  <2> QED
    BY <2>4 DEF Atomic!ANext
<1>7. CASE op[q] # "rollback"
  <2>1. status[f] = "approved" \/ pc[q] = "park"
    BY <1>1, <1>2, <1>7 DEF TurnInv, SiteMatches
  <2>2. StatusBar[f] = "approved"
    <3>1. CASE status[f] = "approved"
      BY <1>4, <1>5, <3>1, BarsOf
    <3>2. CASE pc[q] = "park"
      <4>1. q \in Request
        OBVIOUS
      <4>2. Working(f, {"park"}) /\ ~Working(f, {"set_applied"})
            /\ ~Working(f, {"set_rolled_back"})
        BY <1>2, <3>2, Alone DEF TurnInv, Running
      <4> QED
        BY <1>5, <4>2, BarsOf
    <3> QED
      BY <2>1, <3>1, <3>2
  <2>3. Atomic!LandsLate(f)
    BY <1>1, <1>2, <1>3, <1>7, <2>2 DEF Atomic!LandsLate
  <2> QED
    BY <2>3 DEF Atomic!ANext
<1> QED
  BY <1>6, <1>7

LEMMA LoadRefines ==
  ASSUME InTurn, IInv, TurnInv, NEW r \in Request, Load(r) \/ FindBefore(r)
  PROVE  [Atomic!ANext]_(Atomic!avars)
<1>1. PICK s \in {"set_rejected", "find", "read", "set_approved", "refused",
                  "restore"} :
        /\ pc[r] \in {"load", "find"}
        /\ pc' = [pc EXCEPT ![r] = s]
        /\ UNCHANGED <<status, audit, site, op, fix>>
  <2>1. CASE Load(r)
    <3>1. FirstCall(r) \in {"set_rejected", "find", "read", "set_approved"}
      BY DEF FirstCall
    <3> QED
      BY <2>1, <3>1 DEF Load, Goto
  <2>2. CASE FindBefore(r)
    BY <2>2 DEF FindBefore, Goto
  <2> QED
    BY <2>1, <2>2
<1>2. pc[r] \in Running /\ pc' = [pc EXCEPT ![r] = s] /\ UNCHANGED <<op, fix>>
  BY <1>1 DEF Running
<1>3. \A g : \A steps \in SUBSET Running :
        /\ Working(g, steps) <=> pc[r] \in steps /\ fix[r] = g
        /\ Working(g, steps)' <=> s \in steps /\ fix[r] = g
  BY <1>2, OthersKept
<1>4. \A g : \A at \in {"set_applied", "set_rolled_back", "park"} :
        ~Working(g, {at}) /\ ~Working(g, {at})'
  BY <1>1, <1>3 DEF Running
<1> QED
  BY <1>1, <1>4, SameBarsIf, Hidden

(* A status call sets what the abstract status already is, but for a       *)
(* report-only approval and a rejection, which decide.                     *)
LEMMA StatusRefines ==
  ASSUME InTurn, IInv, TurnInv, NEW r \in Request, StatusCall(r)
  PROVE  [Atomic!ANext]_(Atomic!avars)
<1>1. PICK at, s, next : StatusMove(at, s, next) /\ StatusStep(r, at, s, next)
  BY DEF StatusCall, SetApproved, SetApplied, Park, SetRejected,
         SetRolledBack, StatusMove
<1>2. /\ pc[r] = at /\ pc' = [pc EXCEPT ![r] = next]
      /\ status' = [status EXCEPT ![fix[r]] = s]
      /\ UNCHANGED <<audit, site, op, fix>>
  BY <1>1 DEF StatusStep, Goto
<1>3. PICK f \in Fix : f = fix[r]
  BY <1>1, <1>2 DEF StatusMove, IInv, KnowsItsTask
<1>4. status'[f] = s /\ \A g \in Fix : g # f => status'[g] = status[g]
  BY <1>2, <1>3 DEF IInv, TypeOK
<1>5. pc[r] \in Running
  BY <1>1, <1>2 DEF StatusMove, Running
<1>6. /\ StatusBar[f] = BarAt(at, status[f]) /\ StatusBar'[f] = BarAt(next, s)
      /\ StatusBar' = [StatusBar EXCEPT ![f] = StatusBar'[f]]
      /\ CapturedBar' = [CapturedBar EXCEPT ![f] = CapturedBar'[f]]
  <2>1. \A g \in Fix : g # f => /\ status'[g] = status[g]
                                /\ AppliedBefore(g)' = AppliedBefore(g)
    BY <1>2, <1>4, TrailStill
  <2>2. pc' = [pc EXCEPT ![r] = next] /\ UNCHANGED <<op, fix>>
    BY <1>2
  <2>3. /\ StatusBar[f] = BarAt(pc[r], status[f])
        /\ StatusBar'[f] = BarAt(next, status'[f])
        /\ StatusBar' = [StatusBar EXCEPT ![f] = StatusBar'[f]]
        /\ CapturedBar' = [CapturedBar EXCEPT ![f] = CapturedBar'[f]]
    BY <1>3, <1>5, <2>1, <2>2, BarsMove
  <2> QED
    BY <1>2, <1>4, <2>3
<1>7. at # "set_rolled_back" => status[f] = "pending"
  BY <1>1, <1>2, <1>3 DEF StatusMove, TurnInv, RowMatches
<1>8. CapturedBar'[f] = CapturedBar[f]
  <2>1. AppliedBefore(f)' = AppliedBefore(f)
    BY <1>2, TrailStill
  <2>2. StatusBar'[f] \in {"applied", "rolled_back"} <=>
        StatusBar[f] \in {"applied", "rolled_back"}
    BY <1>1, <1>6, <1>7 DEF StatusMove, BarAt
  <2> QED
    BY <2>1, <2>2, BarsOf, BarsOfNext
<1>9. CapturedBar' = CapturedBar
  BY <1>6, <1>8, BarsAreFunctions
<1>10. CASE at \in {"set_applied", "park", "set_rolled_back"}
  <2>1. StatusBar'[f] = StatusBar[f]
    BY <1>1, <1>6, <1>10 DEF StatusMove, BarAt
  <2> QED
    BY <1>2, <1>6, <1>9, <2>1, BarsAreFunctions, Hidden
<1>11. CASE at = "set_approved"
  <2>1. StatusBar[f] = "pending" /\ StatusBar'[f] = "approved"
    BY <1>1, <1>6, <1>7, <1>11 DEF StatusMove, BarAt
  <2>2. Atomic!Hold(f)
    BY <1>2, <1>6, <1>9, <2>1 DEF Atomic!Hold, Atomic!Move
  <2> QED
    BY <2>2 DEF Atomic!ANext
<1>12. CASE at = "set_rejected"
  <2>1. StatusBar[f] = "pending" /\ StatusBar'[f] = "rejected"
    BY <1>1, <1>6, <1>7, <1>12 DEF StatusMove, BarAt
  <2>2. Atomic!Reject(f)
    BY <1>2, <1>6, <1>9, <2>1 DEF Atomic!Reject, Atomic!Move
  <2> QED
    BY <2>2 DEF Atomic!ANext
<1> QED
  BY <1>1, <1>10, <1>11, <1>12 DEF StatusMove

(* The read of the live value decides nothing, unless it fails.            *)
LEMMA ReadRefines ==
  ASSUME InTurn, IInv, TurnInv, NEW r \in Request, ReadBefore(r)
  PROVE  [Atomic!ANext]_(Atomic!avars)
<1>1. PICK s \in {"audit_applied", "park"} :
        /\ pc[r] = "read" /\ pc' = [pc EXCEPT ![r] = s]
        /\ UNCHANGED <<status, audit, site, op, fix>>
  BY DEF ReadBefore, ReadStep, Goto, InTurn, May
<1>2. PICK f \in Fix : f = fix[r]
  BY <1>1 DEF IInv, KnowsItsTask
<1>3. status[f] = "pending" /\ pc[r] \in Running
  BY <1>1, <1>2 DEF TurnInv, RowMatches, Running
<1>4. \A g : AppliedBefore(g)' = AppliedBefore(g)
  BY <1>1, TrailStill
<1>5. /\ StatusBar[f] = BarAt(pc[r], status[f])
      /\ StatusBar'[f] = BarAt(s, status'[f])
      /\ StatusBar' = [StatusBar EXCEPT ![f] = StatusBar'[f]]
      /\ CapturedBar' = [CapturedBar EXCEPT ![f] = CapturedBar'[f]]
  <2>1. \A g \in Fix : g # f => /\ status'[g] = status[g]
                                /\ AppliedBefore(g)' = AppliedBefore(g)
    BY <1>1, <1>4
  <2>2. pc' = [pc EXCEPT ![r] = s] /\ UNCHANGED <<op, fix>>
    BY <1>1
  <2> QED
    BY <1>2, <1>3, <2>1, <2>2, BarsMove
<1>6. /\ StatusBar[f] = "pending"
      /\ StatusBar'[f] = IF s = "park" THEN "approved" ELSE "pending"
  BY <1>1, <1>3, <1>5 DEF BarAt
<1>7. CapturedBar' = CapturedBar
  BY <1>5, <1>6, BarsOf, BarsOfNext, BarsAreFunctions
<1>8. CASE s = "park"
  <2>1. Atomic!Hold(f)
    BY <1>1, <1>5, <1>6, <1>7, <1>8 DEF Atomic!Hold, Atomic!Move
  <2> QED
    BY <2>1 DEF Atomic!ANext
<1>9. CASE s = "audit_applied"
  BY <1>1, <1>5, <1>6, <1>7, <1>9, BarsAreFunctions, Hidden
<1> QED
  BY <1>8, <1>9

(* An entry in the trail decides nothing: the capture of an approval comes *)
(* before its write, the other entries after their status.                 *)
LEMMA AuditRefines ==
  ASSUME InTurn, IInv, TurnInv, NEW r \in Request, AuditCall(r)
  PROVE  [Atomic!ANext]_(Atomic!avars)
<1>1. PICK at, t, next : \E e \in AuditEntry :
        /\ AuditMove(at, t, next)
        /\ pc[r] = at /\ pc' = [pc EXCEPT ![r] = next]
        /\ UNCHANGED <<status, site, op, fix, before, inflight>>
        /\ audit' = Append(audit, e)
        /\ e.fix = fix[r] /\ e.transition = t
        /\ at = "audit_applied" => e.before = before[r]
  BY AuditCallMoves
<1>2. PICK e \in AuditEntry :
        /\ AuditMove(at, t, next)
        /\ pc[r] = at /\ pc' = [pc EXCEPT ![r] = next]
        /\ UNCHANGED <<status, site, op, fix>>
        /\ audit' = Append(audit, e)
        /\ e.fix = fix[r] /\ e.transition = t
  BY <1>1
<1>3. PICK f \in Fix : f = fix[r]
  BY <1>2 DEF AuditEntry
<1>4. at = "audit_applied" => status[f] = "pending"
  BY <1>2, <1>3 DEF TurnInv, RowMatches
<1>5. ASSUME NEW g \in Fix, g # f \/ at # "audit_applied"
      PROVE  AppliedBefore(g)' = AppliedBefore(g)
  <2>1. TypeOK
    BY DEF IInv
  <2>2. audit' = Append(audit, e)
    BY <1>2
  <2>3. /\ Captures(g)' = Captures(g)
        /\ \A i \in Captures(g) : audit'[i] = audit[i]
    <3>1. ~(e.fix = g /\ e.transition = "pending->applied")
      BY <1>2, <1>3, <1>5 DEF AuditMove
    <3>2. EntriesOf(g, "pending->applied")' =
            EntriesOf(g, "pending->applied") \cup
              (IF e.fix = g /\ e.transition = "pending->applied"
                 THEN {Len(audit) + 1} ELSE {})
      BY <2>1, <2>2, EntriesAppend
    <3>3. \A i \in EntriesOf(g, "pending->applied") : audit'[i] = audit[i]
      BY <2>1, <2>2, EntriesAppend
    <3> QED
      BY <3>1, <3>2, <3>3 DEF Captures
  <2>4. \A j, k \in Captures(g) : j = k
    BY DEF TurnInv, TrailMatches, Captures, Transition
  <2> QED
    BY <2>3, <2>4, CaptureStays
<1>6. pc[r] \in Running
  BY <1>2 DEF AuditMove, Running
<1>7. /\ StatusBar[f] = BarAt(at, status[f])
      /\ StatusBar'[f] = BarAt(next, status'[f])
      /\ StatusBar' = [StatusBar EXCEPT ![f] = StatusBar'[f]]
      /\ CapturedBar' = [CapturedBar EXCEPT ![f] = CapturedBar'[f]]
  <2>1. \A g \in Fix : g # f => /\ status'[g] = status[g]
                                /\ AppliedBefore(g)' = AppliedBefore(g)
    BY <1>2, <1>5
  <2>2. pc' = [pc EXCEPT ![r] = next] /\ UNCHANGED <<op, fix>>
    BY <1>2
  <2>3. /\ StatusBar[f] = BarAt(pc[r], status[f])
        /\ StatusBar'[f] = BarAt(next, status'[f])
        /\ StatusBar' = [StatusBar EXCEPT ![f] = StatusBar'[f]]
        /\ CapturedBar' = [CapturedBar EXCEPT ![f] = CapturedBar'[f]]
    BY <1>3, <1>6, <2>1, <2>2, BarsMove
  <2> QED
    BY <1>2, <2>3
<1>8. StatusBar[f] = status[f] /\ StatusBar'[f] = status[f]
  BY <1>2, <1>7 DEF AuditMove, BarAt
<1>9. CapturedBar'[f] = CapturedBar[f]
  BY <1>4, <1>5, <1>8, BarsOf, BarsOfNext
<1> QED
  BY <1>2, <1>7, <1>8, <1>9, BarsAreFunctions, Hidden

(* The write to WordPress is where a decision takes effect.                *)
LEMMA PublishRefines ==
  ASSUME InTurn, IInv, TurnInv, NEW r \in Request, PublishCall(r)
  PROVE  [Atomic!ANext]_(Atomic!avars)
<1>1. PICK at, next :
        /\ PublishMove(at, next)
        /\ pc[r] = at /\ pc' = [pc EXCEPT ![r] = next]
        /\ UNCHANGED <<status, audit, op, fix, before, edits>>
        /\ IF Confirmed(next)
             THEN /\ inflight' = inflight
                  /\ site' = [site EXCEPT ![TargetOf[fix[r]]] =
                       IF at = "write" THEN Proposed[fix[r]] ELSE before[r]]
             ELSE /\ site' = site
                  /\ inflight' \in {inflight, inflight \cup {r}}
  BY PublishCallMoves
<1>2. PICK f \in AutoFix : f = fix[r]
  BY <1>1 DEF PublishMove, IInv, KnowsItsTask, WordPressStep
<1>3. f \in Fix /\ pc[r] \in Running
  BY <1>1 DEF PublishMove, Running
<1>4. /\ at = "write" => /\ status[f] = "pending"
                         /\ site[TargetOf[f]] = AppliedBefore(f)
      /\ at = "restore" => /\ status[f] = "applied"
                           /\ before[r] = AppliedBefore(f)
  BY <1>1, <1>2 DEF TurnInv, RowMatches, SiteMatches
<1>5. /\ StatusBar[f] = BarAt(at, status[f])
      /\ StatusBar'[f] = BarAt(next, status'[f])
      /\ StatusBar' = [StatusBar EXCEPT ![f] = StatusBar'[f]]
      /\ CapturedBar' = [CapturedBar EXCEPT ![f] = CapturedBar'[f]]
  <2>1. \A g \in Fix : g # f => /\ status'[g] = status[g]
                                /\ AppliedBefore(g)' = AppliedBefore(g)
    BY <1>1, TrailStill
  <2>2. pc' = [pc EXCEPT ![r] = next] /\ UNCHANGED <<op, fix>>
    BY <1>1
  <2>3. /\ StatusBar[f] = BarAt(pc[r], status[f])
        /\ StatusBar'[f] = BarAt(next, status'[f])
        /\ StatusBar' = [StatusBar EXCEPT ![f] = StatusBar'[f]]
        /\ CapturedBar' = [CapturedBar EXCEPT ![f] = CapturedBar'[f]]
    BY <1>2, <1>3, <2>1, <2>2, BarsMove
  <2> QED
    BY <1>1, <2>3
<1>6. AppliedBefore(f)' = AppliedBefore(f) /\ status' = status
  BY <1>1, TrailStill
<1>7. CASE at = "write" /\ next = "set_applied"
  <2>1. /\ StatusBar[f] = "pending" /\ StatusBar'[f] = "applied"
        /\ CapturedBar'[f] = site[TargetOf[f]]
    BY <1>3, <1>4, <1>5, <1>6, <1>7, BarsOfNext DEF BarAt
  <2>2. site' = [site EXCEPT ![TargetOf[f]] = Proposed[f]]
    BY <1>1, <1>2, <1>7 DEF Confirmed
  <2>3. Atomic!Apply(f)
    BY <1>5, <2>1, <2>2 DEF Atomic!Apply, Atomic!Move
  <2> QED
    BY <1>3, <2>3 DEF Atomic!ANext
<1>8. CASE at = "write" /\ next = "park"
  <2>1. /\ StatusBar[f] = "pending" /\ StatusBar'[f] = "approved"
        /\ CapturedBar'[f] = CapturedBar[f]
    BY <1>3, <1>4, <1>5, <1>6, <1>8, BarsOf, BarsOfNext DEF BarAt
  <2>2. site' = site
    BY <1>1, <1>8 DEF Confirmed
  <2>3. Atomic!Hold(f)
    BY <1>5, <2>1, <2>2, BarsAreFunctions DEF Atomic!Hold, Atomic!Move
  <2> QED
    BY <1>3, <2>3 DEF Atomic!ANext
<1>9. CASE at = "restore" /\ next = "set_rolled_back"
  <2>1. /\ StatusBar[f] = "applied" /\ StatusBar'[f] = "rolled_back"
        /\ CapturedBar[f] = before[r] /\ CapturedBar'[f] = CapturedBar[f]
    BY <1>3, <1>4, <1>5, <1>6, <1>9, BarsOf, BarsOfNext DEF BarAt
  <2>2. site' = [site EXCEPT ![TargetOf[f]] = CapturedBar[f]]
    BY <1>1, <1>2, <1>9, <2>1 DEF Confirmed
  <2>3. Atomic!Rollback(f)
    BY <1>5, <2>1, <2>2, BarsAreFunctions DEF Atomic!Rollback, Atomic!Move
  <2> QED
    BY <1>3, <2>3 DEF Atomic!ANext
<1>10. CASE at = "restore" /\ next = "failed"
  <2>1. StatusBar'[f] = StatusBar[f] /\ CapturedBar'[f] = CapturedBar[f]
    BY <1>3, <1>4, <1>5, <1>6, <1>10, BarsOf, BarsOfNext DEF BarAt
  <2> QED
    BY <1>1, <1>5, <1>10, <2>1, BarsAreFunctions, Hidden DEF Confirmed
<1> QED
  BY <1>1, <1>7, <1>8, <1>9, <1>10 DEF PublishMove

-----------------------------------------------------------------------------
(* Served in turn, the service decides as if each decision were one step   *)
(* that changes the status, the site and the captured value together,      *)
(* though it takes four calls and any of them may be refused or come late. *)
THEOREM Atomicity == ASSUME InTurn PROVE Spec => ImplementsAtomic
<1>1. Init => Atomic!AInit
  <2> SUFFICES ASSUME Init PROVE Atomic!AInit
    OBVIOUS
  <2>1. \A f, steps : steps \subseteq Running => ~Working(f, steps)
    BY DEF Init, Working, Running
  <2>2. ASSUME NEW f \in Fix
        PROVE  StatusBar[f] = "absent" /\ CapturedBar[f] = None
    <3>1. StatusBar[f] = status[f]
      BY <2>1, BarsOf DEF Running
    <3> QED
      BY <3>1, BarsOf DEF Init
  <2> QED
    BY <2>2, BarsAreFunctions DEF Init, Atomic!AInit
<1>2. IInv /\ TurnInv /\ [Next]_vars => [Atomic!ANext]_(Atomic!avars)
  <2> SUFFICES ASSUME IInv, TurnInv, [Next]_vars
               PROVE  [Atomic!ANext]_(Atomic!avars)
    OBVIOUS
  <2>1. CASE UNCHANGED vars
    <3>1. UNCHANGED <<status, audit, site, pc, fix>>
      BY <2>1 DEF vars
    <3>2. \A g, steps : Working(g, steps)' <=> Working(g, steps)
      BY <3>1 DEF Working
    <3> QED
      BY <3>1, <3>2, SameBarsIf, Hidden
  <2>2. ASSUME NEW r \in Request, Step(r)
        PROVE  [Atomic!ANext]_(Atomic!avars)
    BY <2>2, StepCases, LoadRefines, ReadRefines, StatusRefines, AuditRefines,
       PublishRefines
  <2>3. CASE ~(UNCHANGED vars)
    <3>1. OneAtATime
      BY DEF TurnInv
    <3> QED
      BY <2>2, <2>3, <3>1, TurnCases, PersistRefines, ArrivalRefines,
         LateWriteRefines
  <2> QED
    BY <2>1, <2>3
<1> QED
  BY <1>1, <1>2, Invariance, TurnInvariance, PTL
     DEF Spec, ImplementsAtomic, Atomic!ASpec
=============================================================================
