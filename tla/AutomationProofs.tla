-------------------------- MODULE AutomationProofs --------------------------
(***************************************************************************)
(* What runs by itself keeps, whatever is lost and for any number of       *)
(* threads.  No node of a workflow runs without the approvals before it,   *)
(* and a run that waits can be approved; a call for an AI goes to the      *)
(* providers it should, no more often than is configured; what agents      *)
(* remember and learn is what was stored, one request at a time; what is   *)
(* observed of a site makes a goal for a metric once a day; and plans have *)
(* no cycle and do not publish without asking.                             *)
(***************************************************************************)
EXTENDS WorkflowExecution, AiGateway, AgentMemory, AutonomousGoals,
        AgentPlanning, DataLemmas

-----------------------------------------------------------------------------
(* Workflow runs.                                                          *)

(* The row of a run that has executed its nodes up to the current one.     *)
Passed(f, r) ==
  /\ r.node <= Len(Nodes[f])
  /\ Len(r.log) = r.node
  /\ \A i \in 1 .. r.node : r.log[i] = i

(* The approvals asked for by the first k nodes were granted.              *)
Granted(f, k) ==
  \A j \in 1 .. k : Nodes[f][j] = "approval" => j \in granted[f]

Holds(t) == wpc[t] \notin {"idle", "route"}   \* it works on a run
GoesOn == {"step", "unsuspend", "go on"}      \* its approval was granted

(* A row whose nodes ran in order, none before its approval.               *)
Good(f, r) == Passed(f, r) /\ Granted(f, r.node - 1)

(* Every copy of a run, however stale, is good; one that is about to go on *)
(* has the approval it waited for.                                         *)
CopiesPass ==
  \A t \in Thread : Holds(t) =>
    /\ Good(job[t], copy[t])
    /\ wpc[t] \in GoesOn => Granted(job[t], copy[t].node)

RowsPass ==
  \A f \in Workflow : run[f].status = "paused" => Good(f, run[f])

GInv == WfTypeOK /\ CopiesPass /\ RowsPass /\ NothingUnapproved

(* The workflows an event has still to start have no run, and only the     *)
(* event's own thread starts them.                                         *)
QueuesWait ==
  /\ \A t \in Thread : wpc[t] \in {"idle", "route"} => job[t] = Idle
  /\ \A t \in Thread : wpc[t] = "idle" => queue[t] = {}
  /\ \A t, u \in Thread : t # u => queue[t] = {} \/ queue[u] = {}
  /\ \A t \in Thread : \A f \in queue[t] : run[f].status = "absent"
  /\ \A t \in Thread : Holds(t) => run[job[t]].status # "absent"

(* What the rows of a run are while a request works on it.                 *)
Reads(t, status, rows) ==
  run[job[t]].status = status /\ suspended[job[t]] = rows

(* As long as requests do not meet, each run has one at most, which knows  *)
(* the rows it will find; a run without one is settled.                    *)
OneAtATime ==
  ~meddled =>
    /\ \A t, u \in Thread : Holds(t) /\ job[t] = job[u] => t = u
    /\ \A t \in Thread :
         /\ wpc[t] = "step" => Reads(t, "running", 0)
         /\ wpc[t] = "suspend" => Reads(t, "paused", 0)
         /\ wpc[t] \in {"unsuspend", "unsuspend to reject"}
              => Reads(t, "paused", 1)
         /\ wpc[t] \in {"go on", "reject"} => Reads(t, "paused", 0)
    /\ \A f \in Workflow :
         \/ \E t \in Thread : job[t] = f
         \/ /\ run[f].status # "running"
            /\ suspended[f] = IF run[f].status = "paused" THEN 1 ELSE 0

IInv == GInv /\ QueuesWait /\ OneAtATime

-----------------------------------------------------------------------------
(* Every set of natural numbers that is not empty has a least one.         *)
LEMMA LeastNumber ==
  ASSUME NEW T, T \subseteq Nat, T # {}
  PROVE  \E x \in T : \A y \in T : x <= y
<1> DEFINE R == {ss \in Nat \X Nat : ss[1] < ss[2]}
<1>1. IsWellFoundedOn(R, Nat)
  BY NatLessThanWellFounded DEF OpToRel
<1>2. PICK x \in T : \A y \in T : <<y, x>> \notin R
  <2> HIDE DEF R
  <2> QED BY <1>1, WFMin
<1>3. ASSUME NEW y \in T PROVE x <= y
  <2>1. x \in Nat /\ y \in Nat
    OBVIOUS
  <2>2. y < x => <<y, x>> \in R
    BY <2>1
  <2>3. ~(y < x)
    BY <1>2, <2>2
  <2> HIDE DEF R
  <2> QED BY <2>1, <2>3
<1> QED BY <1>3

(* A run stops at the first approval after its current node, or at the end.*)
LEMMA StopAtFirst ==
  ASSUME NEW f \in Workflow, NEW k \in Nat, k <= Len(Nodes[f])
  PROVE  /\ StopAt(f, k) \in k .. Len(Nodes[f])
         /\ \A i \in k + 1 .. StopAt(f, k) - 1 : Nodes[f][i] # "approval"
<1> DEFINE asks == {i \in k + 1 .. Len(Nodes[f]) : Nodes[f][i] = "approval"}
           first == CHOOSE i \in asks : \A j \in asks : i <= j
<1>1. Len(Nodes[f]) \in Nat
  BY WorkflowAssumption
<1>2. CASE asks = {}
  <2>1. StopAt(f, k) = Len(Nodes[f])
    BY <1>2 DEF StopAt
  <2> QED BY <1>1, <1>2, <2>1
<1>3. CASE asks # {}
  <2>1. asks \subseteq Nat
    BY <1>1
  <2>2. \E x \in asks : \A y \in asks : x <= y
    <3> HIDE DEF asks
    <3> QED BY <1>3, <2>1, LeastNumber
  <2>3. first \in asks /\ \A j \in asks : first <= j
    <3> HIDE DEF asks
    <3> QED BY <2>2
  <2>4. StopAt(f, k) = first
    BY <1>3 DEF StopAt
  <2> HIDE DEF first
  <2> QED BY <1>1, <2>3, <2>4
<1> QED BY <1>2, <1>3

(* A log of the first n positions, with the next d of them appended.       *)
LEMMA LogGoesOn ==
  ASSUME NEW s \in Seq(Nat), NEW e \in Seq(Nat),
         \A i \in 1 .. Len(s) : s[i] = i,
         \A j \in 1 .. Len(e) : e[j] = Len(s) + j
  PROVE  /\ s \o e \in Seq(Nat) /\ Len(s \o e) = Len(s) + Len(e)
         /\ \A i \in 1 .. Len(s) + Len(e) : (s \o e)[i] = i
<1>1. Len(s) \in Nat /\ Len(e) \in Nat
  BY LenProperties
<1>2. /\ s \o e \in Seq(Nat) /\ Len(s \o e) = Len(s) + Len(e)
      /\ \A i \in 1 .. Len(s) + Len(e) : (s \o e)[i] =
           IF i <= Len(s) THEN s[i] ELSE e[i - Len(s)]
  BY ConcatProperties
<1>3. ASSUME NEW i \in 1 .. Len(s) + Len(e) PROVE (s \o e)[i] = i
  <2>1. CASE i <= Len(s)
    BY <1>1, <1>2, <2>1
  <2>2. CASE i > Len(s)
    <3>1. i - Len(s) \in 1 .. Len(e) /\ Len(s) + (i - Len(s)) = i
      BY <1>1, <2>2
    <3>2. e[i - Len(s)] = i
      BY <3>1
    <3>3. (s \o e)[i] = e[i - Len(s)]
      BY <1>1, <1>2, <2>2
    <3> QED BY <3>2, <3>3
  <2> QED BY <1>1, <2>1, <2>2
<1> QED BY <1>2, <1>3

(* The positions from n to n + d.                                          *)
LEMMA Positions ==
  ASSUME NEW n \in Nat, NEW d \in Nat
  PROVE  LET e == [j \in 1 .. d |-> n + j]
         IN  /\ e \in Seq(Nat) /\ Len(e) = d
             /\ \A j \in 1 .. Len(e) : e[j] = n + j
<1> DEFINE e == [j \in 1 .. d |-> n + j]
<1>1. e \in [1 .. d -> Nat] /\ \A j \in 1 .. d : e[j] = n + j
  OBVIOUS
<1> HIDE DEF e
<1>2. e \in Seq(Nat)
  BY <1>1, SeqDef
<1>3. Len(e) = d
  BY <1>1, <1>2, LenProperties
<1> QED BY <1>1, <1>2, <1>3 DEF e

(* What a step makes of a run that has passed its nodes: it has passed     *)
(* more of them, none of them an approval but perhaps the last.            *)
LEMMA OutcomesPass ==
  ASSUME NEW f \in Workflow, NEW r \in Run, Passed(f, r),
         NEW q \in Outcomes(f, r)
  PROVE  /\ q \in Run /\ q.status \in {"paused", "completed", "failed"}
         /\ Passed(f, q) /\ r.node <= q.node
         /\ \A i \in r.node + 1 .. q.node - 1 : Nodes[f][i] # "approval"
<1> DEFINE stop == StopAt(f, r.node)
           added(i) == [j \in 1 .. i - r.node |-> r.node + j]
<1>1. /\ r.node \in Nat /\ r.node <= Len(Nodes[f]) /\ Len(Nodes[f]) \in Nat
      /\ r.log \in Seq(Nat) /\ Len(r.log) = r.node
      /\ \A i \in 1 .. r.node : r.log[i] = i
  BY WorkflowAssumption DEF Passed, Run
<1>2. /\ stop \in r.node .. Len(Nodes[f])
      /\ \A i \in r.node + 1 .. stop - 1 : Nodes[f][i] # "approval"
  BY <1>1, StopAtFirst
<1>3. PICK i \in r.node .. stop : \E st \in {"paused", "completed", "failed"} :
        q = [status |-> st, node |-> i, log |-> r.log \o added(i)]
  <2>1. stop \in r.node .. stop /\ r.node + 1 .. stop \subseteq r.node .. stop
    BY <1>1, <1>2
  <2>2. CASE \E st \in {"paused", "completed"} :
               q = [status |-> st, node |-> stop, log |-> r.log \o added(stop)]
    <3> HIDE DEF stop, added
    <3> QED BY <2>1, <2>2
  <2>3. CASE \E i \in r.node + 1 .. stop :
               q = [status |-> "failed", node |-> i, log |-> r.log \o added(i)]
    <3> HIDE DEF stop, added
    <3> QED BY <2>1, <2>3
  <2> QED BY <2>2, <2>3 DEF Outcomes
<1> HIDE DEF stop
<1>4. i \in Nat /\ i - r.node \in Nat /\ i <= Len(Nodes[f])
  BY <1>1, <1>2, <1>3, SMTT(30)
<1>5. /\ r.log \o added(i) \in Seq(Nat) /\ Len(r.log \o added(i)) = i
      /\ \A n \in 1 .. i : (r.log \o added(i))[n] = n
  <2>1. r.node + (i - r.node) = i
    BY <1>1, <1>4
  <2>2. /\ added(i) \in Seq(Nat) /\ Len(added(i)) = i - r.node
        /\ \A j \in 1 .. Len(added(i)) : added(i)[j] = r.node + j
    BY <1>1, <1>4, Positions
  <2> HIDE DEF added
  <2>3. /\ \A j \in 1 .. Len(r.log) : r.log[j] = j
        /\ \A j \in 1 .. Len(added(i)) : added(i)[j] = Len(r.log) + j
    BY <1>1, <2>2
  <2>4. /\ r.log \o added(i) \in Seq(Nat)
        /\ Len(r.log \o added(i)) = Len(r.log) + Len(added(i))
        /\ \A n \in 1 .. Len(r.log) + Len(added(i)) :
             (r.log \o added(i))[n] = n
    <3>1. r.log \in Seq(Nat) /\ added(i) \in Seq(Nat)
      BY <1>1, <2>2
    <3> QED BY <2>3, <3>1, LogGoesOn
  <2> QED BY <1>1, <2>1, <2>2, <2>4
<1> HIDE DEF added
<1>6. /\ q.node = i /\ q.log = r.log \o added(i)
      /\ q.status \in {"paused", "completed", "failed"}
      /\ q = [status |-> q.status, node |-> i, log |-> r.log \o added(i)]
  BY <1>3
<1>7. q \in Run
  BY <1>4, <1>5, <1>6 DEF Run
<1>8. Passed(f, q)
  BY <1>4, <1>5, <1>6 DEF Passed
<1> QED BY <1>1, <1>2, <1>3, <1>4, <1>6, <1>7, <1>8

-----------------------------------------------------------------------------
(* Types                                                                   *)

(* The part of WfTypeOK that says what a thread remembers.                 *)
LocalTypes ==
  /\ wpc \in [Thread -> {"idle", "route", "step", "suspend", "unsuspend",
                         "unsuspend to reject", "go on", "reject"}]
  /\ job \in [Thread -> Workflow \cup {Idle}]
  /\ copy \in [Thread -> Run]
  /\ \A t \in Thread : wpc[t] \notin {"idle", "route"} => job[t] \in Workflow

LEMMA NoRunTypes ==
  /\ NoRun \in Run
  /\ [NoRun EXCEPT !.status = "running"] =
       [status |-> "running", node |-> 0, log |-> <<>>]
  /\ [NoRun EXCEPT !.status = "running"] \in Run
<1>1. <<>> \in Seq(Nat)
  BY EmptySeq
<1>2. [NoRun EXCEPT !.status = "running"] =
        [status |-> "running", node |-> 0, log |-> <<>>]
  BY DEF NoRun
<1> QED BY <1>1, <1>2 DEF NoRun, Run

LEMMA TypeInit == WfInit => WfTypeOK
<1> SUFFICES ASSUME WfInit PROVE WfTypeOK
  OBVIOUS
<1>1. run \in [Workflow -> Run] /\ copy \in [Thread -> Run]
  BY NoRunTypes DEF WfInit
<1>2. /\ suspended \in [Workflow -> Nat] /\ meddled \in BOOLEAN
      /\ granted \in [Workflow -> SUBSET Nat]
      /\ queue \in [Thread -> SUBSET Workflow]
  BY DEF WfInit
<1> QED BY <1>1, <1>2 DEF WfInit, WfTypeOK

LEMMA DoneTypes ==
  ASSUME WfTypeOK, NEW t \in Thread, Done(t)
  PROVE  LocalTypes'
<1>1. /\ wpc' = [wpc EXCEPT ![t] = IF queue[t] = {} THEN "idle" ELSE "route"]
      /\ job' = [job EXCEPT ![t] = Idle]
      /\ copy' = [copy EXCEPT ![t] = NoRun]
  BY DEF Done, At
<1> QED BY <1>1, NoRunTypes DEF LocalTypes, WfTypeOK

LEMMA TypeStep ==
  ASSUME WfTypeOK, CopiesPass, [WfNext]_wfvars
  PROVE  WfTypeOK'
<1>1. CASE UNCHANGED wfvars
  BY <1>1 DEF wfvars, wlocal, WfTypeOK
<1>2. ASSUME NEW t \in Thread, RouteEvent(t) PROVE WfTypeOK'
  BY <1>2, WorkflowAssumption DEF RouteEvent, At, wrows, WfTypeOK
<1>3. ASSUME NEW t \in Thread, StartRun(t) PROVE WfTypeOK'
  <2>1. PICK f \in queue[t] :
          /\ run' = [run EXCEPT ![f] = [NoRun EXCEPT !.status = "running"]]
          /\ job' = [job EXCEPT ![t] = f]
          /\ copy' = [copy EXCEPT ![t] = run'[f]]
          /\ queue' = [queue EXCEPT ![t] = @ \ {f}]
    BY <1>3 DEF StartRun
  <2>2. f \in Workflow
    BY <2>1 DEF WfTypeOK
  <2>3. [NoRun EXCEPT !.status = "running"] \in Run
    BY NoRunTypes
  <2>4. run' \in [Workflow -> Run] /\ copy' \in [Thread -> Run]
    BY <2>1, <2>2, <2>3 DEF WfTypeOK
  <2>5. queue' \in [Thread -> SUBSET Workflow]
    BY <2>1 DEF WfTypeOK
  <2>6. /\ job' \in [Thread -> Workflow \cup {Idle}]
        /\ wpc' = [wpc EXCEPT ![t] = "step"]
        /\ UNCHANGED <<suspended, granted, meddled>>
    BY <1>3, <2>1, <2>2 DEF WfTypeOK, StartRun, At
  <2>7. \A u \in Thread : wpc'[u] \notin {"idle", "route"}
                            => job'[u] \in Workflow
    BY <2>1, <2>2, <2>6 DEF WfTypeOK
  <2> QED BY <2>4, <2>5, <2>6, <2>7 DEF WfTypeOK
<1>4. ASSUME NEW t \in Thread, StepExecution(t) PROVE WfTypeOK'
  <2>1. PICK r \in Outcomes(job[t], copy[t]) :
          /\ run' = [run EXCEPT ![job[t]] = r]
          /\ \/ /\ At(t, "suspend") /\ UNCHANGED job
                /\ copy' = [copy EXCEPT ![t] = r]
             \/ Done(t)
    BY <1>4 DEF StepExecution
  <2>2. job[t] \in Workflow /\ copy[t] \in Run /\ Passed(job[t], copy[t])
    BY <1>4 DEF StepExecution, WfTypeOK, CopiesPass, Holds, Good
  <2>3. r \in Run
    BY <2>1, <2>2, OutcomesPass
  <2>4. LocalTypes'
    BY <2>1, <2>2, <2>3, DoneTypes DEF At, LocalTypes, WfTypeOK
  <2>5. run' \in [Workflow -> Run] /\ UNCHANGED <<suspended, granted, meddled,
                                                 queue>>
    BY <1>4, <2>1, <2>2, <2>3 DEF StepExecution, WfTypeOK
  <2> QED BY <2>4, <2>5 DEF LocalTypes, WfTypeOK
<1>5. ASSUME NEW t \in Thread, SaveSuspension(t) PROVE WfTypeOK'
  <2>1. LocalTypes' /\ UNCHANGED <<run, granted, meddled, queue>>
    BY <1>5, DoneTypes DEF SaveSuspension
  <2>2. suspended' \in [Workflow -> Nat]
    <3>1. job[t] \in Workflow
      BY <1>5 DEF SaveSuspension, WfTypeOK
    <3>2. suspended \in [Workflow -> Nat] /\ suspended[job[t]] \in Nat
      BY <3>1 DEF WfTypeOK
    <3>3. suspended' = [suspended EXCEPT ![job[t]] = @ + 1]
      BY <1>5 DEF SaveSuspension
    <3> QED BY <3>1, <3>2, <3>3
  <2> QED BY <2>1, <2>2 DEF LocalTypes, WfTypeOK
<1>6. ASSUME NEW t \in Thread, NEW f \in Workflow, NEW approved \in BOOLEAN,
             ResumeExecution(t, f, approved)
      PROVE WfTypeOK'
  <2>1. run[f] \in Run /\ run[f].node \in Nat
    BY DEF WfTypeOK, Run
  <2>2. granted' \in [Workflow -> SUBSET Nat]
    BY <1>6, <2>1 DEF ResumeExecution, WfTypeOK
  <2>3. meddled' \in BOOLEAN
    BY <1>6 DEF ResumeExecution
  <2> QED BY <1>6, <2>1, <2>2, <2>3 DEF ResumeExecution, At, wrows, WfTypeOK
<1>7. ASSUME NEW t \in Thread, RemoveSuspension(t) PROVE WfTypeOK'
  BY <1>7 DEF RemoveSuspension, At, WfTypeOK
<1>8. ASSUME NEW t \in Thread, RejectRun(t) PROVE WfTypeOK'
  <2>1. copy[t] \in Run /\ job[t] \in Workflow
    BY <1>8 DEF RejectRun, WfTypeOK
  <2>2. Append(copy[t].log, Rejected) \in Seq(Nat)
    BY <2>1 DEF Run, Rejected
  <2>3. [copy[t] EXCEPT !.status = "failed",
                        !.log = Append(@, Rejected)] \in Run
    BY <2>1, <2>2 DEF Run
  <2>4. LocalTypes' /\ UNCHANGED <<suspended, granted, meddled, queue>>
    BY <1>8, DoneTypes DEF RejectRun
  <2>5. run' \in [Workflow -> Run]
    BY <1>8, <2>1, <2>3 DEF RejectRun, WfTypeOK
  <2> QED BY <2>4, <2>5 DEF LocalTypes, WfTypeOK
<1>9. ASSUME NEW t \in Thread, GoOn(t) PROVE WfTypeOK'
  <2>1. copy[t] \in Run /\ job[t] \in Workflow
    BY <1>9 DEF GoOn, WfTypeOK
  <2>2. [copy[t] EXCEPT !.status = "running"] \in Run
    BY <2>1 DEF Run
  <2> QED BY <1>9, <2>1, <2>2 DEF GoOn, At, WfTypeOK
<1>10. ASSUME NEW t \in Thread, LoseCall(t) PROVE WfTypeOK'
  BY <1>10, NoRunTypes DEF LoseCall, At, wrows, WfTypeOK
<1> QED BY <1>1, <1>2, <1>3, <1>4, <1>5, <1>6, <1>7, <1>8, <1>9, <1>10
           DEF WfNext

-----------------------------------------------------------------------------
(* Nothing unapproved                                                      *)

(* NothingUnapproved, of one log.                                          *)
LogApproved(f, log) ==
  \A i \in DOMAIN log :
    \/ /\ log[i] = i /\ i <= Len(Nodes[f])
       /\ \A j \in 1 .. i - 1 : Nodes[f][j] = "approval" => j \in granted[f]
    \/ log[i] = Rejected /\ i = Len(log)

LEMMA GoodLogs ==
  ASSUME NEW f \in Workflow, NEW r \in Run, Good(f, r)
  PROVE  LogApproved(f, r.log) /\ LogApproved(f, Append(r.log, Rejected))
<1>1. /\ r.node \in Nat /\ r.node <= Len(Nodes[f]) /\ Len(Nodes[f]) \in Nat
      /\ r.log \in Seq(Nat) /\ Len(r.log) = r.node
      /\ \A i \in 1 .. r.node : r.log[i] = i
      /\ \A j \in 1 .. r.node - 1 : Nodes[f][j] = "approval"
                                       => j \in granted[f]
  BY WorkflowAssumption DEF Good, Granted, Passed, Run
<1>2. ASSUME NEW i \in 1 .. r.node
      PROVE /\ r.log[i] = i /\ i <= Len(Nodes[f])
            /\ \A j \in 1 .. i - 1 : Nodes[f][j] = "approval"
                                       => j \in granted[f]
  BY <1>1
<1>3. LogApproved(f, r.log)
  BY <1>1, <1>2 DEF LogApproved
<1>4. /\ DOMAIN Append(r.log, Rejected) = 1 .. r.node + 1
      /\ Len(Append(r.log, Rejected)) = r.node + 1
      /\ Append(r.log, Rejected)[r.node + 1] = Rejected
      /\ \A i \in 1 .. r.node : Append(r.log, Rejected)[i] = r.log[i]
  BY <1>1 DEF Rejected
<1>5. \A i \in 1 .. r.node + 1 : i \in 1 .. r.node \/ i = r.node + 1
  BY <1>1
<1>6. LogApproved(f, Append(r.log, Rejected))
  BY <1>2, <1>4, <1>5 DEF LogApproved
<1> QED BY <1>3, <1>6

LEMMA OutcomesGood ==
  ASSUME NEW f \in Workflow, NEW r \in Run, Good(f, r), Granted(f, r.node),
         NEW q \in Outcomes(f, r)
  PROVE  /\ q \in Run /\ Good(f, q)
         /\ q.status \in {"paused", "completed", "failed"}
<1>1. /\ q \in Run /\ q.status \in {"paused", "completed", "failed"}
      /\ Passed(f, q) /\ r.node <= q.node
      /\ \A i \in r.node + 1 .. q.node - 1 : Nodes[f][i] # "approval"
  BY OutcomesPass DEF Good
<1>2. r.node \in Nat /\ q.node \in Nat
  BY <1>1 DEF Run
<1>3. ASSUME NEW j \in 1 .. q.node - 1, Nodes[f][j] = "approval"
      PROVE j \in granted[f]
  <2>1. j \in 1 .. r.node
    BY <1>1, <1>2, <1>3
  <2> QED BY <1>3, <2>1 DEF Granted
<1> QED BY <1>1, <1>3 DEF Good, Granted

(* With no approval taken back, what is good stays good.                   *)
LEMMA GoodStays ==
  ASSUME \A f \in Workflow : granted[f] \subseteq granted'[f],
         NEW f \in Workflow, NEW r \in Run
  PROVE  /\ Good(f, r) => Good(f, r)'
         /\ \A k \in Nat : Granted(f, k) => Granted(f, k)'
         /\ LogApproved(f, r.log) => LogApproved(f, r.log)'
  BY DEF Good, Granted, Passed, LogApproved

LEMMA PassInit == WfInit => CopiesPass /\ RowsPass /\ NothingUnapproved
  BY DEF WfInit, CopiesPass, RowsPass, NothingUnapproved, Holds, NoRun

(* A thread that is done holds nothing; of the others nothing changes.     *)
LEMMA DoneHolds ==
  ASSUME WfTypeOK, NEW t \in Thread, Done(t)
  PROVE  /\ wpc'[t] \in {"idle", "route"} /\ ~Holds(t)' /\ job'[t] = Idle
         /\ \A u \in Thread \ {t} : /\ wpc'[u] = wpc[u] /\ Holds(u)' = Holds(u)
                                    /\ job'[u] = job[u] /\ copy'[u] = copy[u]
  BY DEF Done, At, Holds, WfTypeOK

(* Writing a row that is good, or whose log is and that does not wait.     *)
LEMMA WriteKeeps ==
  ASSUME GInv, UNCHANGED granted, NEW f \in Workflow, NEW r \in Run,
         run' = [run EXCEPT ![f] = r],
         LogApproved(f, r.log), r.status = "paused" => Good(f, r)
  PROVE  RowsPass' /\ NothingUnapproved'
<1>1. run'[f] = r /\ \A g \in Workflow \ {f} : run'[g] = run[g]
  BY DEF GInv, WfTypeOK
<1>2. RowsPass'
  BY <1>1 DEF GInv, RowsPass, Good, Granted, Passed
<1>3. \A g \in Workflow : LogApproved(g, run[g].log)
  BY DEF GInv, NothingUnapproved, LogApproved
<1>4. \A g \in Workflow : LogApproved(g, run'[g].log)
  BY <1>1, <1>3
<1>5. NothingUnapproved'
  BY <1>4 DEF NothingUnapproved, LogApproved
<1> QED BY <1>2, <1>5

(* One thread takes a good copy, or lets go of it.                         *)
LEMMA CopyKeeps ==
  ASSUME GInv, UNCHANGED granted, NEW t \in Thread,
         \A u \in Thread \ {t} : /\ wpc'[u] = wpc[u] /\ job'[u] = job[u]
                                 /\ copy'[u] = copy[u],
         Holds(t)' => /\ Good(job'[t], copy'[t])
                      /\ wpc'[t] \in GoesOn => Granted(job'[t], copy'[t].node)
  PROVE  CopiesPass'
<1> SUFFICES ASSUME NEW u \in Thread, Holds(u)'
             PROVE  /\ Good(job[u], copy[u])'
                    /\ (wpc[u] \in GoesOn => Granted(job[u], copy[u].node))'
  BY DEF CopiesPass
<1>1. CASE u = t
  BY <1>1 DEF Good, Granted, Passed
<1>2. CASE u # t
  <2>1. Holds(u) /\ wpc'[u] = wpc[u] /\ job'[u] = job[u] /\ copy'[u] = copy[u]
    BY <1>2 DEF Holds
  <2> QED BY <2>1 DEF GInv, CopiesPass, Good, Granted, Passed
<1> QED BY <1>1, <1>2

LEMMA PassStep ==
  ASSUME GInv, WfTypeOK', [WfNext]_wfvars
  PROVE  (CopiesPass /\ RowsPass /\ NothingUnapproved)'
<1> DEFINE Preserved == (CopiesPass /\ RowsPass /\ NothingUnapproved)'
<1> USE DEF GInv
<1>1. CASE UNCHANGED wfvars
  BY <1>1 DEF wfvars, wlocal, CopiesPass, RowsPass, NothingUnapproved, Good,
              Passed, Granted, Holds
(* The actions that change no row, and take no approval back.              *)
<1>2. ASSUME NEW t \in Thread, RouteEvent(t) PROVE Preserved
  BY <1>2, ZenonT(40) DEF RouteEvent, At, wrows, WfTypeOK, CopiesPass, RowsPass,
              NothingUnapproved, Good, Passed, Granted, Holds, GoesOn
<1>3. ASSUME NEW t \in Thread, SaveSuspension(t) PROVE Preserved
  <2>1. Done(t) /\ UNCHANGED <<run, granted>>
    BY <1>3 DEF SaveSuspension
  <2>2. ~Holds(t)' /\ \A u \in Thread \ {t} :
          /\ wpc'[u] = wpc[u] /\ Holds(u)' = Holds(u)
          /\ job'[u] = job[u] /\ copy'[u] = copy[u]
    BY <2>1, DoneHolds
  <2> QED BY <2>1, <2>2, ZenonT(40) DEF CopiesPass, RowsPass, NothingUnapproved,
                                     Good, Passed, Granted, GoesOn
<1>4. ASSUME NEW t \in Thread, RemoveSuspension(t) PROVE Preserved
  BY <1>4, ZenonT(40) DEF RemoveSuspension, At, WfTypeOK, CopiesPass, RowsPass,
              NothingUnapproved, Good, Passed, Granted, Holds, GoesOn
<1>5. ASSUME NEW t \in Thread, LoseCall(t) PROVE Preserved
  BY <1>5, ZenonT(40) DEF LoseCall, At, wrows, WfTypeOK, CopiesPass, RowsPass,
              NothingUnapproved, Good, Passed, Granted, Holds, GoesOn
(* A granted approval leaves everything as good as it was.                 *)
<1>6. ASSUME NEW t \in Thread, NEW f \in Workflow, NEW approved \in BOOLEAN,
             ResumeExecution(t, f, approved)
      PROVE Preserved
  <2>1. /\ wpc[t] = "idle" /\ run[f].status = "paused" /\ run' = run
        /\ wpc' = [wpc EXCEPT ![t] = IF approved THEN "unsuspend"
                                     ELSE "unsuspend to reject"]
        /\ job' = [job EXCEPT ![t] = f] /\ copy' = [copy EXCEPT ![t] = run[f]]
        /\ granted' = [granted EXCEPT
                         ![f] = IF approved THEN @ \cup {run[f].node} ELSE @]
    BY <1>6 DEF ResumeExecution, At, wrows
  <2>2. \A g \in Workflow : granted[g] \subseteq granted'[g]
    BY <2>1 DEF WfTypeOK
  <2>3. run[f] \in Run /\ Good(f, run[f])
    BY <2>1 DEF RowsPass, WfTypeOK
  <2>4. \A g \in Workflow, r \in Run :
          /\ Good(g, r) => Good(g, r)'
          /\ \A k \in Nat : Granted(g, k) => Granted(g, k)'
    BY <2>2, GoodStays
  <2>5. approved => Granted(f, run[f].node)'
    <3>1. run[f].node \in Nat
      BY <2>3 DEF Run
    <3>2. ASSUME approved, NEW j \in 1 .. run[f].node,
                 Nodes[f][j] = "approval"
          PROVE  j \in granted'[f]
      <4>1. j \in 1 .. run[f].node - 1 \/ j = run[f].node
        BY <3>1
      <4>2. granted'[f] = granted[f] \cup {run[f].node}
        BY <2>1, <3>2 DEF WfTypeOK
      <4> QED BY <2>3, <3>2, <4>1, <4>2 DEF Good, Granted
    <3> QED BY <2>1, <3>2 DEF Granted
  <2>6. CopiesPass'
    <3> SUFFICES ASSUME NEW u \in Thread, Holds(u)'
                 PROVE  /\ Good(job[u], copy[u])'
                        /\ (wpc[u] \in GoesOn =>
                              Granted(job[u], copy[u].node))'
      BY DEF CopiesPass
    <3>1. CASE u = t
      <4>1. job'[u] = f /\ copy'[u] = run[f] /\ (wpc'[u] \in GoesOn => approved)
        BY <2>1, <3>1 DEF WfTypeOK, GoesOn
      <4>2. Good(f, run[f])'
        BY <2>1, <2>2, <2>3 DEF Good, Granted, Passed
      <4>3. run'[f] = run[f]
        BY <2>1
      <4> QED BY <2>5, <4>1, <4>2, <4>3 DEF Good, Granted, Passed
    <3>2. CASE u # t
      <4>1. /\ job'[u] = job[u] /\ copy'[u] = copy[u] /\ wpc'[u] = wpc[u]
            /\ Holds(u) /\ job[u] \in Workflow /\ copy[u] \in Run
            /\ copy[u].node \in Nat
        BY <2>1, <3>2 DEF WfTypeOK, Holds, Run
      <4>2. /\ Good(job[u], copy[u])
            /\ wpc[u] \in GoesOn => Granted(job[u], copy[u].node)
        BY <4>1 DEF CopiesPass
      <4> QED BY <2>2, <4>1, <4>2 DEF Good, Granted, Passed
    <3> QED BY <3>1, <3>2
  <2>7. RowsPass'
    BY <2>1, <2>4 DEF RowsPass, WfTypeOK, Good, Granted, Passed
  <2>8. NothingUnapproved'
    BY <2>1, <2>2 DEF NothingUnapproved
  <2> QED BY <2>6, <2>7, <2>8
(* The actions that write a row.                                           *)
<1>7. ASSUME NEW t \in Thread, StartRun(t) PROVE Preserved
  <2>1. PICK f \in queue[t] :
          /\ run' = [run EXCEPT ![f] = [NoRun EXCEPT !.status = "running"]]
          /\ job' = [job EXCEPT ![t] = f]
          /\ copy' = [copy EXCEPT ![t] = run'[f]]
    BY <1>7 DEF StartRun
  <2>2. UNCHANGED granted /\ wpc' = [wpc EXCEPT ![t] = "step"]
    BY <1>7 DEF StartRun, At
  <2> DEFINE r == [NoRun EXCEPT !.status = "running"]
  <2>3. f \in Workflow /\ r \in Run /\ r.status = "running"
    BY <2>1, NoRunTypes DEF WfTypeOK
  <2>4. r.node = 0 /\ r.log = <<>>
    BY NoRunTypes
  <2> HIDE DEF r
  <2>5. Good(f, r) /\ Granted(f, r.node)
    BY <2>3, <2>4, WorkflowAssumption DEF Good, Granted, Passed
  <2>6. RowsPass' /\ NothingUnapproved'
    BY <2>1, <2>2, <2>3, <2>5, GoodLogs, WriteKeeps DEF r
  <2>7. job'[t] = f /\ copy'[t] = r
    BY <2>1, <2>3 DEF WfTypeOK, r
  <2>8. \A u \in Thread \ {t} : /\ wpc'[u] = wpc[u] /\ job'[u] = job[u]
                                /\ copy'[u] = copy[u]
    BY <2>1, <2>2 DEF WfTypeOK
  <2>9. CopiesPass'
    BY <2>2, <2>5, <2>7, <2>8, CopyKeeps
  <2> QED BY <2>6, <2>9
<1>8. ASSUME NEW t \in Thread, StepExecution(t) PROVE Preserved
  <2>1. PICK r \in Outcomes(job[t], copy[t]) :
          /\ run' = [run EXCEPT ![job[t]] = r]
          /\ \/ /\ At(t, "suspend") /\ UNCHANGED job
                /\ copy' = [copy EXCEPT ![t] = r]
             \/ Done(t)
    BY <1>8 DEF StepExecution
  <2>2. UNCHANGED granted
    BY <1>8 DEF StepExecution
  <2>3. /\ job[t] \in Workflow /\ copy[t] \in Run /\ Good(job[t], copy[t])
        /\ Granted(job[t], copy[t].node)
    BY <1>8 DEF StepExecution, WfTypeOK, CopiesPass, Holds, GoesOn
  <2>4. r \in Run /\ Good(job[t], r)
    BY <2>1, <2>3, OutcomesGood
  <2>5. RowsPass' /\ NothingUnapproved'
    BY <2>1, <2>2, <2>3, <2>4, GoodLogs, WriteKeeps
  <2>6. CASE Done(t)
    <3>1. CopiesPass'
      BY <2>2, <2>6, DoneHolds, CopyKeeps
    <3> QED BY <2>5, <3>1
  <2>7. CASE /\ At(t, "suspend") /\ UNCHANGED job
             /\ copy' = [copy EXCEPT ![t] = r]
    <3>1. /\ wpc'[t] = "suspend" /\ job'[t] = job[t] /\ copy'[t] = r
          /\ \A u \in Thread \ {t} : /\ wpc'[u] = wpc[u] /\ job'[u] = job[u]
                                     /\ copy'[u] = copy[u]
      BY <2>7 DEF At, WfTypeOK
    <3>2. CopiesPass'
      BY <2>2, <2>4, <3>1, CopyKeeps DEF GoesOn
    <3> QED BY <2>5, <3>2
  <2> QED BY <2>1, <2>6, <2>7
<1>9. ASSUME NEW t \in Thread, RejectRun(t) PROVE Preserved
  <2> DEFINE r == [copy[t] EXCEPT !.status = "failed",
                                  !.log = Append(@, Rejected)]
  <2>1. run' = [run EXCEPT ![job[t]] = r] /\ UNCHANGED granted /\ Done(t)
    BY <1>9 DEF RejectRun
  <2>2. /\ job[t] \in Workflow /\ copy[t] \in Run /\ Good(job[t], copy[t])
    BY <1>9 DEF RejectRun, WfTypeOK, CopiesPass, Holds
  <2>3. r.status = "failed" /\ r.log = Append(copy[t].log, Rejected)
    BY <2>2 DEF Run
  <2>4. r \in Run
    <3>1. Append(copy[t].log, Rejected) \in Seq(Nat)
      BY <2>2 DEF Run, Rejected
    <3> QED BY <2>2, <3>1 DEF Run
  <2> HIDE DEF r
  <2>5. RowsPass' /\ NothingUnapproved'
    <3>1. LogApproved(job[t], r.log)
      BY <2>2, <2>3, GoodLogs
    <3> QED BY <2>1, <2>2, <2>3, <2>4, <3>1, WriteKeeps
  <2>6. CopiesPass'
    BY <2>1, DoneHolds, CopyKeeps
  <2> QED BY <2>5, <2>6
<1>10. ASSUME NEW t \in Thread, GoOn(t) PROVE Preserved
  <2> DEFINE r == [copy[t] EXCEPT !.status = "running"]
  <2>1. /\ job[t] \in Workflow /\ copy[t] \in Run /\ Good(job[t], copy[t])
        /\ Granted(job[t], copy[t].node)
    BY <1>10 DEF GoOn, WfTypeOK, CopiesPass, Holds, GoesOn
  <2>2. /\ copy' = [copy EXCEPT ![t] = r] /\ copy'[t] = r
        /\ run' = [run EXCEPT ![job[t]] = r]
        /\ wpc' = [wpc EXCEPT ![t] = "step"] /\ UNCHANGED <<job, granted>>
    BY <1>10 DEF GoOn, At, WfTypeOK
  <2>3. /\ r \in Run /\ r.status = "running" /\ r.node = copy[t].node
        /\ r.log = copy[t].log
    BY <2>1 DEF Run
  <2> HIDE DEF r
  <2>4. Good(job[t], r) /\ Granted(job[t], r.node)
    BY <2>1, <2>3 DEF Good, Passed
  <2>5. RowsPass' /\ NothingUnapproved'
    BY <2>1, <2>2, <2>3, <2>4, GoodLogs, WriteKeeps
  <2>6. \A u \in Thread \ {t} : /\ wpc'[u] = wpc[u] /\ job'[u] = job[u]
                                /\ copy'[u] = copy[u]
    BY <2>2 DEF WfTypeOK
  <2>7. CopiesPass'
    BY <2>2, <2>4, <2>6, CopyKeeps
  <2> QED BY <2>5, <2>7
<1> QED BY <1>1, <1>2, <1>3, <1>4, <1>5, <1>6, <1>7, <1>8, <1>9, <1>10
           DEF WfNext

-----------------------------------------------------------------------------
(* Paused runs                                                             *)

(* What a step makes of the run a thread works on.                         *)
LEMMA StepEffect ==
  ASSUME GInv, NEW t \in Thread, StepExecution(t)
  PROVE  \E r \in Run :
           /\ r.status \in {"paused", "completed", "failed"}
           /\ run' = [run EXCEPT ![job[t]] = r] /\ run'[job[t]] = r
           /\ r.status = "paused" => /\ wpc' = [wpc EXCEPT ![t] = "suspend"]
                                     /\ UNCHANGED job
           /\ r.status # "paused" => Done(t)
<1>1. PICK r \in Outcomes(job[t], copy[t]) :
        /\ run' = [run EXCEPT ![job[t]] = r]
        /\ r.status = "paused" => At(t, "suspend") /\ UNCHANGED job
        /\ r.status # "paused" => Done(t)
  BY DEF StepExecution
<1>2. /\ job[t] \in Workflow /\ copy[t] \in Run /\ Good(job[t], copy[t])
      /\ Granted(job[t], copy[t].node)
  BY DEF StepExecution, GInv, WfTypeOK, CopiesPass, Holds, GoesOn
<1>3. r \in Run /\ r.status \in {"paused", "completed", "failed"}
  BY <1>1, <1>2, OutcomesGood
<1>4. run'[job[t]] = r
  BY <1>1, <1>2 DEF GInv, WfTypeOK
<1> QED BY <1>1, <1>3, <1>4 DEF At

(* A thread that goes on with its run, or is done with it.                 *)
LEMMA QueuesStay ==
  ASSUME WfTypeOK, QueuesWait, UNCHANGED queue, NEW t \in Thread, Holds(t),
         \A g \in Workflow : run'[g].status = "absent" <=>
                             run[g].status = "absent",
         \A u \in Thread \ {t} : wpc'[u] = wpc[u] /\ job'[u] = job[u],
         \/ Holds(t)' /\ job'[t] = job[t]
         \/ /\ wpc'[t] = (IF queue[t] = {} THEN "idle" ELSE "route")
            /\ job'[t] = Idle
  PROVE  QueuesWait'
<1>1. \A u \in Thread : wpc'[u] \in {"idle", "route"} => job'[u] = Idle
  BY DEF QueuesWait, Holds
<1>2. \A u \in Thread : wpc'[u] = "idle" => queue'[u] = {}
  BY DEF QueuesWait, Holds
<1>3. \A u \in Thread : \A g \in queue'[u] : run'[g].status = "absent"
  BY DEF QueuesWait, WfTypeOK
<1>4. ASSUME NEW u \in Thread, Holds(u)' PROVE run'[job'[u]].status # "absent"
  <2>1. Holds(u) /\ job'[u] = job[u]
    BY <1>4 DEF Holds
  <2>2. job[u] \in Workflow
    BY <2>1 DEF Holds, WfTypeOK
  <2> QED BY <2>1, <2>2 DEF QueuesWait
<1>5. \A u, v \in Thread : u # v => queue'[u] = {} \/ queue'[v] = {}
  BY DEF QueuesWait
<1> QED BY <1>1, <1>2, <1>3, <1>4, <1>5 DEF QueuesWait

LEMMA QueuesStep ==
  ASSUME IInv, WfTypeOK', [WfNext]_wfvars
  PROVE  QueuesWait'
<1> USE DEF IInv, GInv
<1>1. CASE UNCHANGED wfvars
  BY <1>1 DEF wfvars, wlocal, QueuesWait, Holds
<1>2. ASSUME NEW t \in Thread, RouteEvent(t) PROVE QueuesWait'
  BY <1>2, ZenonT(40) DEF RouteEvent, At, wrows, WfTypeOK, QueuesWait, Holds
<1>3. ASSUME NEW t \in Thread, StartRun(t) PROVE QueuesWait'
  <2>1. PICK f \in queue[t] :
          /\ run' = [run EXCEPT ![f] = [NoRun EXCEPT !.status = "running"]]
          /\ job' = [job EXCEPT ![t] = f]
          /\ queue' = [queue EXCEPT ![t] = @ \ {f}]
    BY <1>3 DEF StartRun
  <2>2. wpc[t] = "route" /\ wpc' = [wpc EXCEPT ![t] = "step"]
    BY <1>3 DEF StartRun, At
  <2>3. f \in Workflow /\ run'[f].status = "running"
    BY <2>1, NoRunTypes DEF WfTypeOK
  <2>4. \A g \in Workflow : g # f => run'[g] = run[g]
    BY <2>1 DEF WfTypeOK
  <2>5. \A u \in Thread \ {t} : queue[u] = {}
    BY <2>1 DEF QueuesWait
  <2>6. \A u \in Thread : \A g \in queue'[u] :
          g \in Workflow /\ g # f /\ run[g].status = "absent"
    BY <2>1, <2>5 DEF QueuesWait, WfTypeOK
  <2>7. \A u \in Thread : Holds(u)' => run'[job'[u]].status # "absent"
    BY <2>1, <2>2, <2>3, <2>4, ZenonT(40) DEF QueuesWait, WfTypeOK, Holds
  <2>8. \A u \in Thread : wpc'[u] = "idle" => wpc[u] = "idle" /\ u # t
    BY <2>2 DEF WfTypeOK
  <2>9. \A u \in Thread : wpc'[u] = "idle" => queue'[u] = {}
    BY <2>1, <2>8 DEF QueuesWait, WfTypeOK
  <2>10. \A u \in Thread : wpc'[u] \in {"idle", "route"} => job'[u] = Idle
    BY <2>1, <2>2 DEF QueuesWait, WfTypeOK
  <2>11. \A u, v \in Thread : u # v => queue'[u] = {} \/ queue'[v] = {}
    BY <2>1, <2>5 DEF WfTypeOK
  <2> QED BY <2>4, <2>6, <2>7, <2>9, <2>10, <2>11 DEF QueuesWait
<1>4. ASSUME NEW t \in Thread, StepExecution(t) PROVE QueuesWait'
  <2>1. PICK r \in Run :
           /\ r.status \in {"paused", "completed", "failed"}
           /\ run' = [run EXCEPT ![job[t]] = r] /\ run'[job[t]] = r
           /\ r.status = "paused" => /\ wpc' = [wpc EXCEPT ![t] = "suspend"]
                                     /\ UNCHANGED job
           /\ r.status # "paused" => Done(t)
    BY <1>4, StepEffect
  <2>2. /\ job[t] \in Workflow /\ Holds(t) /\ run[job[t]].status # "absent"
        /\ UNCHANGED queue
    BY <1>4 DEF StepExecution, WfTypeOK, Holds, QueuesWait
  <2>3. \A g \in Workflow : g # job[t] => run'[g] = run[g]
    BY <2>1, <2>2 DEF WfTypeOK
  <2>4. \A g \in Workflow : run'[g].status = "absent" <=>
                              run[g].status = "absent"
    BY <2>1, <2>2, <2>3
  <2>5. CASE r.status = "paused"
    <3>1. /\ wpc'[t] = "suspend" /\ job'[t] = job[t]
          /\ \A u \in Thread \ {t} : wpc'[u] = wpc[u] /\ job'[u] = job[u]
      BY <2>1, <2>5 DEF WfTypeOK
    <3> QED BY <2>2, <2>4, <3>1, QueuesStay DEF Holds
  <2>6. CASE r.status # "paused"
    <3>1. wpc' = [wpc EXCEPT ![t] = IF queue[t] = {} THEN "idle" ELSE "route"]
          /\ job' = [job EXCEPT ![t] = Idle]
      BY <2>1, <2>6 DEF Done, At
    <3>2. /\ wpc'[t] = (IF queue[t] = {} THEN "idle" ELSE "route")
          /\ job'[t] = Idle
          /\ \A u \in Thread \ {t} : wpc'[u] = wpc[u] /\ job'[u] = job[u]
      BY <3>1 DEF WfTypeOK
    <3> QED BY <2>2, <2>4, <3>2, QueuesStay
  <2> QED BY <2>5, <2>6
<1>5. ASSUME NEW t \in Thread, SaveSuspension(t) PROVE QueuesWait'
  BY <1>5 DEF SaveSuspension, Done, At, WfTypeOK, QueuesWait, Holds
<1>6. ASSUME NEW t \in Thread, NEW f \in Workflow, NEW approved \in BOOLEAN,
             ResumeExecution(t, f, approved)
      PROVE QueuesWait'
  BY <1>6 DEF ResumeExecution, At, wrows, WfTypeOK, QueuesWait, Holds
<1>7. ASSUME NEW t \in Thread, RemoveSuspension(t) PROVE QueuesWait'
  BY <1>7 DEF RemoveSuspension, At, WfTypeOK, QueuesWait, Holds
<1>8. ASSUME NEW t \in Thread, RejectRun(t) PROVE QueuesWait'
  <2>1. /\ job[t] \in Workflow /\ Holds(t) /\ copy[t] \in Run
        /\ run' = [run EXCEPT ![job[t]] =
                     [copy[t] EXCEPT !.status = "failed",
                                     !.log = Append(@, Rejected)]]
        /\ wpc' = [wpc EXCEPT ![t] = IF queue[t] = {} THEN "idle" ELSE "route"]
        /\ job' = [job EXCEPT ![t] = Idle] /\ UNCHANGED queue
    BY <1>8 DEF RejectRun, Done, At, WfTypeOK, Holds
  <2>2. /\ run'[job[t]].status = "failed"
        /\ \A g \in Workflow : g # job[t] => run'[g] = run[g]
    BY <2>1 DEF WfTypeOK, Run
  <2>3. \A g \in Workflow : run'[g].status = "absent" <=>
                              run[g].status = "absent"
    BY <2>1, <2>2 DEF QueuesWait
  <2>4. /\ wpc'[t] = (IF queue[t] = {} THEN "idle" ELSE "route")
        /\ job'[t] = Idle
        /\ \A u \in Thread \ {t} : wpc'[u] = wpc[u] /\ job'[u] = job[u]
    BY <2>1 DEF WfTypeOK
  <2> QED BY <2>1, <2>3, <2>4, QueuesStay
<1>9. ASSUME NEW t \in Thread, GoOn(t) PROVE QueuesWait'
  <2>1. /\ job[t] \in Workflow /\ Holds(t) /\ copy[t] \in Run
        /\ run' = [run EXCEPT ![job[t]] = [copy[t] EXCEPT !.status = "running"]]
        /\ wpc' = [wpc EXCEPT ![t] = "step"] /\ UNCHANGED <<job, queue>>
    BY <1>9 DEF GoOn, At, WfTypeOK, Holds
  <2>2. /\ run'[job[t]].status = "running"
        /\ \A g \in Workflow : g # job[t] => run'[g] = run[g]
    BY <2>1 DEF WfTypeOK, Run
  <2>3. \A g \in Workflow : run'[g].status = "absent" <=>
                              run[g].status = "absent"
    BY <2>1, <2>2 DEF QueuesWait
  <2>4. /\ wpc'[t] = "step" /\ job'[t] = job[t]
        /\ \A u \in Thread \ {t} : wpc'[u] = wpc[u] /\ job'[u] = job[u]
    BY <2>1 DEF WfTypeOK
  <2> QED BY <2>1, <2>3, <2>4, QueuesStay DEF Holds
<1>10. ASSUME NEW t \in Thread, LoseCall(t) PROVE QueuesWait'
  BY <1>10, ZenonT(40) DEF LoseCall, At, wrows, WfTypeOK, QueuesWait, Holds
<1> QED BY <1>1, <1>2, <1>3, <1>4, <1>5, <1>6, <1>7, <1>8, <1>9, <1>10
           DEF WfNext

(* A thread that is alone with its run and settles it, or leaves it as the *)
(* next step expects it.                                                   *)
LEMMA AloneStays ==
  ASSUME IInv, ~meddled, NEW t \in Thread, Holds(t), UNCHANGED meddled,
         \A g \in Workflow \ {job[t]} :
           run'[g] = run[g] /\ suspended'[g] = suspended[g],
         \A u \in Thread \ {t} : wpc'[u] = wpc[u] /\ job'[u] = job[u],
         \/ /\ Holds(t)' /\ job'[t] = job[t]
            /\ wpc'[t] = "step" => Reads(t, "running", 0)'
            /\ wpc'[t] = "suspend" => Reads(t, "paused", 0)'
            /\ wpc'[t] \in {"go on", "reject"} => Reads(t, "paused", 0)'
            /\ wpc'[t] \notin {"unsuspend", "unsuspend to reject"}
         \/ /\ ~Holds(t)' /\ job'[t] = Idle
            /\ run'[job[t]].status # "running"
            /\ suspended'[job[t]] =
                 IF run'[job[t]].status = "paused" THEN 1 ELSE 0
  PROVE  OneAtATime'
<1> DEFINE f == job[t]
<1>1. f \in Workflow
  BY DEF IInv, GInv, WfTypeOK, Holds
<1>2. \A u \in Thread \ {t} : Holds(u)' <=> Holds(u)
  BY DEF Holds
<1>3. \A u \in Thread \ {t} : job[u] # f
  BY DEF IInv, OneAtATime
<1>4. \A u \in Thread : job[u] \in Workflow => Holds(u)
  BY WorkflowAssumption DEF IInv, QueuesWait, Holds
<1>5. ASSUME NEW u \in Thread, NEW v \in Thread, Holds(u)', job'[u] = job'[v]
      PROVE  u = v
  <2>1. CASE u = t
    BY <1>1, <1>3, <1>5, <2>1
  <2>2. CASE u # t /\ v = t
    <3>1. job[u] \in Workflow
      BY <1>2, <1>5, <2>2 DEF IInv, GInv, WfTypeOK, Holds
    <3> QED BY <1>3, <1>5, <2>2, <3>1, WorkflowAssumption
  <2>3. CASE u # t /\ v # t
    BY <1>2, <1>5, <2>3 DEF IInv, OneAtATime
  <2> QED BY <2>1, <2>2, <2>3
<1>6. ASSUME NEW u \in Thread
      PROVE  /\ wpc'[u] = "step" => Reads(u, "running", 0)'
             /\ wpc'[u] = "suspend" => Reads(u, "paused", 0)'
             /\ wpc'[u] \in {"unsuspend", "unsuspend to reject"}
                  => Reads(u, "paused", 1)'
             /\ wpc'[u] \in {"go on", "reject"} => Reads(u, "paused", 0)'
  <2>1. CASE u = t
    BY <2>1 DEF Holds
  <2>2. CASE u # t /\ ~Holds(u)
    BY <2>2 DEF Holds
  <2>3. CASE u # t /\ Holds(u)
    <3>1. job[u] \in Workflow \ {f}
      BY <1>3, <2>3 DEF IInv, GInv, WfTypeOK, Holds
    <3>2. /\ run'[job'[u]] = run[job[u]] /\ wpc'[u] = wpc[u]
          /\ suspended'[job'[u]] = suspended[job[u]]
      BY <2>3, <3>1
    <3> QED BY <3>2 DEF IInv, OneAtATime, Reads
  <2> QED BY <2>1, <2>2, <2>3
<1>7. ASSUME NEW g \in Workflow
      PROVE  \/ \E u \in Thread : job'[u] = g
             \/ /\ run'[g].status # "running"
                /\ suspended'[g] = IF run'[g].status = "paused" THEN 1 ELSE 0
  <2>1. CASE g = f
    BY <2>1
  <2>2. CASE g # f
    <3>1. (\E u \in Thread : job[u] = g) => \E u \in Thread : job'[u] = g
      BY <2>2
    <3> QED BY <2>2, <3>1 DEF IInv, OneAtATime
  <2> QED BY <2>1, <2>2
<1> QED BY <1>5, <1>6, <1>7 DEF OneAtATime

LEMMA AloneStep ==
  ASSUME IInv, WfTypeOK', [WfNext]_wfvars
  PROVE  OneAtATime'
<1> USE DEF IInv, GInv
<1> SUFFICES ASSUME ~meddled' PROVE OneAtATime'
  BY DEF OneAtATime
<1>0. ~meddled \/ UNCHANGED wfvars
  BY DEF WfNext, RouteEvent, StartRun, StepExecution, SaveSuspension,
         ResumeExecution, RemoveSuspension, RejectRun, GoOn, LoseCall, wfvars
<1>1. CASE UNCHANGED wfvars
  BY <1>1 DEF wfvars, wlocal, wrows, OneAtATime, Holds, Reads
<1> SUFFICES ASSUME ~meddled PROVE OneAtATime'
  BY <1>0, <1>1
<1>2. ASSUME NEW t \in Thread, RouteEvent(t) PROVE OneAtATime'
  <2>1. /\ UNCHANGED <<run, suspended, meddled, job>>
        /\ \A u \in Thread : \/ wpc'[u] = wpc[u]
                             \/ wpc'[u] = "route" /\ wpc[u] = "idle"
    BY <1>2 DEF RouteEvent, At, wrows, WfTypeOK
  <2> QED BY <2>1 DEF OneAtATime, Holds, Reads
<1>3. ASSUME NEW t \in Thread, StartRun(t) PROVE OneAtATime'
  <2>1. PICK f \in queue[t] :
          /\ run' = [run EXCEPT ![f] = [NoRun EXCEPT !.status = "running"]]
          /\ job' = [job EXCEPT ![t] = f]
    BY <1>3 DEF StartRun
  <2>2. /\ wpc[t] = "route" /\ wpc' = [wpc EXCEPT ![t] = "step"]
        /\ UNCHANGED <<suspended, meddled>>
    BY <1>3 DEF StartRun, At
  <2>3. /\ f \in Workflow /\ run'[f].status = "running"
        /\ \A g \in Workflow \ {f} : run'[g] = run[g]
        /\ run[f].status = "absent"
    BY <2>1, NoRunTypes DEF WfTypeOK, QueuesWait
  <2>4. \A u \in Thread : job[u] # f
    BY <2>3, WorkflowAssumption DEF QueuesWait, Holds
  <2>5. suspended[f] = 0
    BY <2>3, <2>4 DEF OneAtATime
  <2>6. /\ job'[t] = f /\ wpc'[t] = "step" /\ job[t] = Idle
        /\ \A u \in Thread \ {t} : /\ wpc'[u] = wpc[u] /\ job'[u] = job[u]
                                   /\ Holds(u)' <=> Holds(u)
    BY <2>1, <2>2 DEF WfTypeOK, QueuesWait, Holds
  <2>7. ASSUME NEW u \in Thread, NEW v \in Thread, Holds(u)', job'[u] = job'[v]
        PROVE  u = v
    BY <2>4, <2>6, <2>7 DEF OneAtATime
  <2>8. ASSUME NEW u \in Thread
        PROVE  /\ wpc'[u] = "step" => Reads(u, "running", 0)'
               /\ wpc'[u] = "suspend" => Reads(u, "paused", 0)'
               /\ wpc'[u] \in {"unsuspend", "unsuspend to reject"}
                    => Reads(u, "paused", 1)'
               /\ wpc'[u] \in {"go on", "reject"} => Reads(u, "paused", 0)'
    <3>1. CASE u = t
      BY <2>2, <2>3, <2>5, <2>6, <3>1 DEF Reads
    <3>2. CASE u # t /\ Holds(u)
      <4>1. job[u] \in Workflow \ {f}
        BY <2>4, <3>2 DEF WfTypeOK, Holds
      <4>2. /\ run'[job'[u]] = run[job[u]] /\ wpc'[u] = wpc[u]
            /\ suspended'[job'[u]] = suspended[job[u]]
        BY <2>2, <2>3, <2>6, <3>2, <4>1
      <4> QED BY <4>2 DEF OneAtATime, Reads
    <3>3. CASE u # t /\ ~Holds(u)
      BY <2>6, <3>3 DEF Holds
    <3> QED BY <3>1, <3>2, <3>3
  <2>9. ASSUME NEW g \in Workflow
        PROVE  \/ \E u \in Thread : job'[u] = g
               \/ /\ run'[g].status # "running"
                  /\ suspended'[g] = IF run'[g].status = "paused" THEN 1 ELSE 0
    <3>1. CASE g = f
      BY <2>6, <3>1
    <3>2. CASE g # f
      <4>1. (\E u \in Thread : job[u] = g) => \E u \in Thread : job'[u] = g
        BY <2>6, WorkflowAssumption
      <4> QED BY <2>2, <2>3, <3>2, <4>1 DEF OneAtATime
    <3> QED BY <3>1, <3>2
  <2> QED BY <2>7, <2>8, <2>9 DEF OneAtATime
<1>4. ASSUME NEW t \in Thread, StepExecution(t) PROVE OneAtATime'
  <2>1. PICK r \in Run :
           /\ r.status \in {"paused", "completed", "failed"}
           /\ run' = [run EXCEPT ![job[t]] = r] /\ run'[job[t]] = r
           /\ r.status = "paused" => /\ wpc' = [wpc EXCEPT ![t] = "suspend"]
                                     /\ UNCHANGED job
           /\ r.status # "paused" => Done(t)
    BY <1>4, StepEffect
  <2>2. /\ job[t] \in Workflow /\ Holds(t) /\ suspended[job[t]] = 0
        /\ UNCHANGED <<suspended, meddled>>
    BY <1>4 DEF StepExecution, WfTypeOK, Holds, OneAtATime, Reads
  <2>3. \A g \in Workflow \ {job[t]} :
          run'[g] = run[g] /\ suspended'[g] = suspended[g]
    BY <2>1, <2>2 DEF WfTypeOK
  <2>4. CASE r.status = "paused"
    <3>1. /\ wpc'[t] = "suspend" /\ job'[t] = job[t]
          /\ \A u \in Thread \ {t} : wpc'[u] = wpc[u] /\ job'[u] = job[u]
      BY <2>1, <2>4 DEF WfTypeOK
    <3>2. Holds(t)' /\ Reads(t, "paused", 0)'
      BY <2>1, <2>2, <2>4, <3>1 DEF Holds, Reads
    <3> QED BY <2>2, <2>3, <3>1, <3>2, AloneStays
  <2>5. CASE r.status # "paused"
    <3>1. /\ ~Holds(t)' /\ job'[t] = Idle
          /\ \A u \in Thread \ {t} : wpc'[u] = wpc[u] /\ job'[u] = job[u]
      BY <2>1, <2>5, DoneHolds
    <3> QED BY <2>1, <2>2, <2>3, <2>5, <3>1, AloneStays
  <2> QED BY <2>4, <2>5
<1>5. ASSUME NEW t \in Thread, SaveSuspension(t) PROVE OneAtATime'
  <2>1. /\ job[t] \in Workflow /\ Holds(t) /\ Reads(t, "paused", 0)
        /\ UNCHANGED <<run, meddled>> /\ Done(t)
        /\ suspended' = [suspended EXCEPT ![job[t]] = @ + 1]
    BY <1>5 DEF SaveSuspension, WfTypeOK, Holds, OneAtATime
  <2>2. /\ suspended'[job[t]] = 1
        /\ \A g \in Workflow \ {job[t]} : suspended'[g] = suspended[g]
    <3>1. suspended[job[t]] = 0 /\ suspended \in [Workflow -> Nat]
      BY <2>1 DEF WfTypeOK, Reads
    <3> QED BY <2>1, <3>1
  <2>3. /\ ~Holds(t)' /\ job'[t] = Idle
        /\ \A u \in Thread \ {t} : wpc'[u] = wpc[u] /\ job'[u] = job[u]
    BY <2>1, DoneHolds
  <2>4. run'[job[t]].status = "paused"
    BY <2>1 DEF Reads
  <2> QED BY <2>1, <2>2, <2>3, <2>4, AloneStays
<1>6. ASSUME NEW t \in Thread, NEW f \in Workflow, NEW approved \in BOOLEAN,
             ResumeExecution(t, f, approved)
      PROVE OneAtATime'
  <2>1. /\ wpc[t] = "idle" /\ run[f].status = "paused"
        /\ UNCHANGED <<run, suspended>>
        /\ wpc' = [wpc EXCEPT ![t] = IF approved THEN "unsuspend"
                                     ELSE "unsuspend to reject"]
        /\ job' = [job EXCEPT ![t] = f]
        /\ \A u \in Thread : job[u] # f
    BY <1>6 DEF ResumeExecution, At, wrows
  <2>2. suspended[f] = 1
    BY <2>1 DEF OneAtATime
  <2>3. /\ job'[t] = f /\ wpc'[t] \in {"unsuspend", "unsuspend to reject"}
        /\ job[t] = Idle
        /\ \A u \in Thread \ {t} : /\ wpc'[u] = wpc[u] /\ job'[u] = job[u]
                                   /\ Holds(u)' <=> Holds(u)
    BY <2>1 DEF WfTypeOK, QueuesWait, Holds
  <2>4. ASSUME NEW u \in Thread, NEW v \in Thread, Holds(u)', job'[u] = job'[v]
        PROVE  u = v
    <3>1. CASE u # t /\ v # t
      BY <2>3, <2>4, <3>1 DEF OneAtATime
    <3>2. CASE u = t \/ v = t
      BY <2>1, <2>3, <2>4, <3>2
    <3> QED BY <3>1, <3>2
  <2>5. ASSUME NEW u \in Thread
        PROVE  /\ wpc'[u] = "step" => Reads(u, "running", 0)'
               /\ wpc'[u] = "suspend" => Reads(u, "paused", 0)'
               /\ wpc'[u] \in {"unsuspend", "unsuspend to reject"}
                    => Reads(u, "paused", 1)'
               /\ wpc'[u] \in {"go on", "reject"} => Reads(u, "paused", 0)'
    <3>1. CASE u = t
      BY <2>1, <2>2, <2>3, <3>1 DEF Reads
    <3>2. CASE u # t
      <4>1. /\ run'[job'[u]] = run[job[u]] /\ wpc'[u] = wpc[u]
            /\ suspended'[job'[u]] = suspended[job[u]]
        BY <2>1, <2>3, <3>2
      <4> QED BY <4>1 DEF OneAtATime, Reads
    <3> QED BY <3>1, <3>2
  <2>6. ASSUME NEW g \in Workflow
        PROVE  \/ \E u \in Thread : job'[u] = g
               \/ /\ run'[g].status # "running"
                  /\ suspended'[g] = IF run'[g].status = "paused" THEN 1 ELSE 0
    <3>1. (\E u \in Thread : job[u] = g) => \E u \in Thread : job'[u] = g
      BY <2>3, WorkflowAssumption
    <3> QED BY <2>1, <3>1 DEF OneAtATime
  <2> QED BY <2>4, <2>5, <2>6 DEF OneAtATime
<1>7. ASSUME NEW t \in Thread, RemoveSuspension(t) PROVE OneAtATime'
  <2>1. /\ job[t] \in Workflow /\ Holds(t) /\ Reads(t, "paused", 1)
        /\ UNCHANGED <<run, meddled, job>>
        /\ wpc' = [wpc EXCEPT ![t] = IF wpc[t] = "unsuspend" THEN "go on"
                                     ELSE "reject"]
        /\ suspended' = [suspended EXCEPT ![job[t]] = 0]
    BY <1>7 DEF RemoveSuspension, At, WfTypeOK, Holds, OneAtATime
  <2>2. /\ suspended'[job[t]] = 0
        /\ \A g \in Workflow \ {job[t]} : suspended'[g] = suspended[g]
    BY <2>1 DEF WfTypeOK
  <2>3. /\ wpc'[t] \in {"go on", "reject"} /\ job'[t] = job[t]
        /\ \A u \in Thread \ {t} : wpc'[u] = wpc[u] /\ job'[u] = job[u]
    BY <2>1 DEF WfTypeOK
  <2>4. Holds(t)' /\ Reads(t, "paused", 0)'
    BY <2>1, <2>2, <2>3 DEF Holds, Reads
  <2>5. wpc'[t] \notin {"step", "suspend", "unsuspend", "unsuspend to reject"}
    BY <2>3
  <2> QED BY <2>1, <2>2, <2>3, <2>4, <2>5, AloneStays
<1>8. ASSUME NEW t \in Thread, RejectRun(t) PROVE OneAtATime'
  <2>1. /\ job[t] \in Workflow /\ Holds(t) /\ copy[t] \in Run
        /\ suspended[job[t]] = 0 /\ Done(t) /\ UNCHANGED <<suspended, meddled>>
        /\ run' = [run EXCEPT ![job[t]] =
                     [copy[t] EXCEPT !.status = "failed",
                                     !.log = Append(@, Rejected)]]
    BY <1>8 DEF RejectRun, WfTypeOK, Holds, OneAtATime, Reads
  <2>2. /\ run'[job[t]].status = "failed"
        /\ \A g \in Workflow \ {job[t]} : run'[g] = run[g]
    BY <2>1 DEF WfTypeOK, Run
  <2>3. /\ ~Holds(t)' /\ job'[t] = Idle
        /\ \A u \in Thread \ {t} : wpc'[u] = wpc[u] /\ job'[u] = job[u]
    BY <2>1, DoneHolds
  <2> QED BY <2>1, <2>2, <2>3, AloneStays
<1>9. ASSUME NEW t \in Thread, GoOn(t) PROVE OneAtATime'
  <2>1. /\ job[t] \in Workflow /\ Holds(t) /\ copy[t] \in Run
        /\ suspended[job[t]] = 0 /\ UNCHANGED <<suspended, meddled, job>>
        /\ run' = [run EXCEPT ![job[t]] = [copy[t] EXCEPT !.status = "running"]]
        /\ wpc' = [wpc EXCEPT ![t] = "step"]
    <3>1. /\ job[t] \in Workflow /\ Holds(t) /\ copy[t] \in Run
          /\ suspended[job[t]] = 0
      BY <1>9 DEF GoOn, WfTypeOK, Holds, OneAtATime, Reads
    <3>2. copy'[t] = [copy[t] EXCEPT !.status = "running"]
      BY <1>9 DEF GoOn, WfTypeOK
    <3> QED BY <1>9, <3>1, <3>2 DEF GoOn, At
  <2>2. /\ run'[job[t]].status = "running"
        /\ \A g \in Workflow \ {job[t]} : run'[g] = run[g]
    BY <2>1 DEF WfTypeOK, Run
  <2>3. /\ wpc'[t] = "step" /\ job'[t] = job[t]
        /\ \A u \in Thread \ {t} : wpc'[u] = wpc[u] /\ job'[u] = job[u]
    BY <2>1 DEF WfTypeOK
  <2>4. Holds(t)' /\ Reads(t, "running", 0)'
    BY <2>1, <2>2, <2>3 DEF Holds, Reads
  <2> QED BY <2>1, <2>2, <2>3, <2>4, AloneStays
<1>10. ASSUME NEW t \in Thread, LoseCall(t) PROVE OneAtATime'
  BY <1>10 DEF LoseCall
<1> QED BY <1>1, <1>2, <1>3, <1>4, <1>5, <1>6, <1>7, <1>8, <1>9, <1>10
           DEF WfNext

-----------------------------------------------------------------------------
LEMMA InvInit == WfInit => IInv
<1> SUFFICES ASSUME WfInit PROVE IInv
  OBVIOUS
<1>1. GInv
  BY TypeInit, PassInit DEF GInv
<1>2. QueuesWait
  BY DEF WfInit, QueuesWait, Holds
<1>3. OneAtATime
  BY DEF WfInit, OneAtATime, Holds, NoRun
<1> QED BY <1>1, <1>2, <1>3 DEF IInv

LEMMA InvStep == IInv /\ [WfNext]_wfvars => IInv'
<1> SUFFICES ASSUME IInv, [WfNext]_wfvars PROVE IInv'
  OBVIOUS
<1>1. WfTypeOK'
  BY TypeStep DEF IInv, GInv
<1>2. (CopiesPass /\ RowsPass /\ NothingUnapproved)'
  BY <1>1, PassStep DEF IInv
<1>3. QueuesWait' /\ OneAtATime'
  BY <1>1, QueuesStep, AloneStep
<1> QED BY <1>1, <1>2, <1>3 DEF IInv, GInv

LEMMA InvImplies == IInv => RunsAreGoverned
<1> SUFFICES ASSUME IInv PROVE PausedIsSuspended
  BY DEF IInv, GInv, RunsAreGoverned
<1> SUFFICES ASSUME ~meddled, \A t \in Thread : wpc[t] = "idle",
                    NEW f \in Workflow
             PROVE  /\ run[f].status # "running"
                    /\ suspended[f] = IF run[f].status = "paused" THEN 1 ELSE 0
  BY DEF PausedIsSuspended
<1>1. \A t \in Thread : job[t] # f
  BY WorkflowAssumption DEF IInv, QueuesWait
<1> QED BY <1>1 DEF IInv, OneAtATime

(* The inductive invariant behind the next theorem: every copy of a run,   *)
(* however stale, has passed its nodes in order and with their approvals   *)
(* (step_execution, the resume route).                                     *)
THEOREM WorkflowInvariance == WfSpec => []IInv
<1>1. WfInit => IInv
  BY InvInit
<1>2. IInv /\ [WfNext]_wfvars => IInv'
  BY InvStep
<1> QED BY <1>1, <1>2, PTL DEF WfSpec

(* Whatever requests race for an approval, and whichever of their calls    *)
(* are lost, no node is executed without the approvals before it; and with *)
(* neither, a paused run has the one suspension that can be acted on.      *)
THEOREM WorkflowGovernance == WfSpec => []RunsAreGoverned
<1>1. IInv => RunsAreGoverned
  BY InvImplies
<1> QED BY <1>1, WorkflowInvariance, PTL
-----------------------------------------------------------------------------
(* The AI gateway.                                                         *)

Answered(ended, p) ==
  {i \in DOMAIN ended : ended[i].ok /\ Last(ended[i].by) = p}

(* A call that looks for a provider has tries left, and what it has passed *)
(* over was not healthy while health did not change; one that has chosen   *)
(* has made no more tries than are configured.                             *)
Routing ==
  \A t \in Thread :
    /\ gpc[t] = "probe" =>
         /\ gprobe[t] \in 1 .. Len(Probes) + 1 /\ Enabled # {}
         /\ Len(gtried[t]) < RetryLimit
         /\ ~ FallbackEnabled => Len(gtried[t]) = 0
         /\ gsteady[t] => \A k \in 1 .. gprobe[t] - 1 : Probes[k] \notin ghealth
    /\ gpc[t] = "call" =>
         /\ Len(gtried[t]) \in 1 .. RetryLimit
         /\ ~ FallbackEnabled => Len(gtried[t]) = 1

GatewayInv == GTypeOK /\ CallsAreRouted /\ Routing

(* The registry lists every enabled provider.                              *)
LEMMA RegistryLists ==
  /\ Registry \in Seq(Enabled)
  /\ \A p \in Enabled : \E i \in 1 .. Len(Registry) : Registry[i] = p
  /\ Enabled # {} => Len(Registry) > 0
<1> DEFINE n == Cardinality(Enabled)
<1>1. IsFiniteSet(Enabled) /\ n \in Nat /\ ExistsBijection(1 .. n, Enabled)
  BY GatewayAssumption, FS_Subset, FS_CardinalityType
<1>2. \E f \in [1 .. n -> Enabled] : IsInjective(f)
  BY <1>1 DEF ExistsBijection, Bijection, Injection, IsInjective
<1>3. Registry \in [1 .. n -> Enabled] /\ IsInjective(Registry)
  BY <1>2 DEF Registry, SetToSeq
<1>4. IsFiniteSet(1 .. n) /\ Cardinality(1 .. n) = n
  BY <1>1, FS_Interval
<1>5. Registry \in Injection(1 .. n, Enabled)
  BY <1>3 DEF Injection, IsInjective
<1>6. Registry \in Surjection(1 .. n, Enabled)
  BY <1>1, <1>4, <1>5, FS_Injection
<1>7. \A p \in Enabled : \E i \in 1 .. n : Registry[i] = p
  BY <1>6 DEF Surjection
<1> HIDE DEF n
<1>8. Registry \in Seq(Enabled) /\ Len(Registry) = n
  BY <1>1, <1>3
<1> QED
  BY <1>1, <1>7, <1>8

LEMMA ProbesList ==
  /\ Probes \in Seq(Adapter) /\ Len(Order) \in Nat
  /\ Len(Probes) = Len(Order) + Len(Registry) /\ Len(Registry) \in Nat
  /\ \A i \in 1 .. Len(Order) : Probes[i] = Order[i]
  /\ \A p \in Enabled : \E i \in 1 .. Len(Probes) : Probes[i] = p
<1>1. Order \in Seq(Adapter) /\ Registry \in Seq(Adapter)
  BY GatewayAssumption, RegistryLists
<1>2. /\ Probes \in Seq(Adapter) /\ Len(Order) \in Nat
      /\ Len(Probes) = Len(Order) + Len(Registry) /\ Len(Registry) \in Nat
      /\ \A i \in 1 .. Len(Order) : Probes[i] = Order[i]
      /\ \A i \in 1 .. Len(Registry) : Probes[Len(Order) + i] = Registry[i]
  BY <1>1 DEF Probes
<1>3. ASSUME NEW p \in Enabled
      PROVE  \E i \in 1 .. Len(Probes) : Probes[i] = p
  <2>1. PICK i \in 1 .. Len(Registry) : Registry[i] = p
    BY RegistryLists
  <2>2. Len(Order) + i \in 1 .. Len(Probes) /\ Probes[Len(Order) + i] = p
    BY <1>2, <2>1
  <2> QED
    BY <2>2
<1> QED
  BY <1>2, <1>3

LEMMA GatewayInit == GInit => GatewayInv
<1> SUFFICES ASSUME GInit PROVE GatewayInv
  OBVIOUS
<1> USE DEF GInit
<1>1. GTypeOK
  <2>1. 0 \in 0 .. Len(Probes) + 1
    BY ProbesList
  <2> QED
    BY <2>1 DEF GTypeOK
<1>2. Routing
  BY DEF Routing
<1>3. CallsAreRouted
  <2>1. \A p \in Enabled :
          {i \in DOMAIN gended : gended[i].ok /\ Last(gended[i].by) = p} = {}
    OBVIOUS
  <2> QED
    BY <2>1, FS_EmptySet DEF CallsAreRouted
<1> QED
  BY <1>1, <1>2, <1>3 DEF GatewayInv

(* One more result is one more answer of the provider that gave it.        *)
LEMMA OneMoreAnswer ==
  ASSUME NEW ended \in Seq([by : Seq(Enabled), ok : BOOLEAN]),
         NEW last \in [by : Seq(Enabled), ok : BOOLEAN], NEW p \in Enabled
  PROVE  Cardinality(Answered(Append(ended, last), p)) =
           Cardinality(Answered(ended, p)) +
             (IF last.ok /\ Last(last.by) = p THEN 1 ELSE 0)
<1> DEFINE n == Len(ended) + 1
           more == Append(ended, last)
<1>1. n \in Nat \ {0} /\ DOMAIN ended = 1 .. n - 1 /\ DOMAIN more = 1 .. n
  OBVIOUS
<1>2. (\A i \in 1 .. n - 1 : more[i] = ended[i]) /\ more[n] = last
  OBVIOUS
<1>3. Answered(ended, p) \subseteq 1 .. n - 1
  BY <1>1 DEF Answered
<1>4. IsFiniteSet(Answered(ended, p))
  <2>1. 1 \in Int /\ n - 1 \in Int
    BY <1>1
  <2>2. IsFiniteSet(1 .. n - 1)
    BY <2>1, FS_Interval
  <2> QED
    BY <1>3, <2>2, FS_Subset
<1>5. Cardinality(Answered(ended, p)) \in Nat
  BY <1>4, FS_CardinalityType
<1>6. n \notin Answered(ended, p)
  BY <1>1, <1>3
<1> HIDE DEF n, more
<1>7. Answered(more, p) = IF last.ok /\ Last(last.by) = p
                            THEN Answered(ended, p) \cup {n}
                            ELSE Answered(ended, p)
  <2>1. 1 .. n = (1 .. n - 1) \cup {n} /\ n \notin 1 .. n - 1
    BY <1>1
  <2>2. \A i \in 1 .. n - 1 : more[i] = ended[i]
    BY <1>2
  <2>3. DOMAIN more = DOMAIN ended \cup {n}
    BY <1>1, <2>1
  <2> HIDE DEF n
  <2>4. Answered(more, p) =
          Answered(ended, p) \cup {i \in {n} : more[i].ok
                                    /\ Last(more[i].by) = p}
    BY <1>1, <2>2, <2>3 DEF Answered
  <2> QED
    BY <1>2, <2>4
<1>8. Cardinality(Answered(more, p)) =
        Cardinality(Answered(ended, p)) +
          (IF last.ok /\ Last(last.by) = p THEN 1 ELSE 0)
  <2>1. Cardinality(Answered(ended, p) \cup {n}) =
          Cardinality(Answered(ended, p)) + 1
    BY <1>4, <1>6, FS_AddElement
  <2> HIDE DEF Answered
  <2> QED
    BY <1>5, <1>7, <2>1
<1> QED
  BY <1>8 DEF more

Measured ==
  \A p \in Enabled : gusage[p] = Cardinality(Answered(gended, p))
Chosen(t) ==
  gpc[t] = "call" /\ gsteady[t] /\ ghealth # {} =>
    /\ Last(gtried[t]) \in ghealth
    /\ \A i \in DOMAIN Order : Order[i] \in ghealth =>
         \E j \in 1 .. i : Order[j] = Last(gtried[t])
AsConfigured ==
  \A i \in DOMAIN gended : ~gended[i].ok =>
    Len(gended[i].by) = IF Enabled = {} THEN 0
                        ELSE IF FallbackEnabled \/ RetryLimit = 0
                          THEN RetryLimit ELSE 1

LEMMA RoutedParts ==
  CallsAreRouted <=> (\A t \in Thread : Chosen(t)) /\ AsConfigured /\ Measured
BY DEF CallsAreRouted, Chosen, AsConfigured, Measured, Answered

LEMMA RoutedNext ==
  (\A t \in Thread : Chosen(t)') /\ AsConfigured' /\ Measured' =>
    CallsAreRouted'
BY DEF CallsAreRouted, Chosen, AsConfigured, Measured, Answered

(* A failed call ends as configured.                                       *)
LEMMA FinishKeeps ==
  ASSUME GatewayInv, NEW t \in Thread, NEW ok \in BOOLEAN, Finish(t, ok),
         gtried'[t] \in Seq(Enabled),
         ~ ok => Len(gtried'[t]) = IF Enabled = {} THEN 0
                        ELSE IF FallbackEnabled \/ RetryLimit = 0
                          THEN RetryLimit ELSE 1,
         ok => gtried'[t] # <<>>
               /\ gusage' = [gusage EXCEPT ![Last(gtried'[t])] = @ + 1],
         ~ ok => gusage' = gusage
  PROVE  /\ gended' \in Seq([by : Seq(Enabled), ok : BOOLEAN])
         /\ gusage' \in [Enabled -> Nat]
         /\ AsConfigured' /\ Measured'
<1> DEFINE last == [by |-> gtried'[t], ok |-> ok]
<1>1. gended' = Append(gended, last)
  BY DEF Finish
<1>2. /\ gended \in Seq([by : Seq(Enabled), ok : BOOLEAN])
      /\ gusage \in [Enabled -> Nat] /\ AsConfigured /\ Measured
  BY RoutedParts DEF GatewayInv, GTypeOK
<1>3. /\ last \in [by : Seq(Enabled), ok : BOOLEAN]
      /\ last.by = gtried'[t] /\ last.ok = ok
  OBVIOUS
<1>4. ok => Last(last.by) \in Enabled
  BY <1>3 DEF Last
<1> HIDE DEF last
<1>5. gended' \in Seq([by : Seq(Enabled), ok : BOOLEAN])
  BY <1>1, <1>2, <1>3
<1>6. gusage' \in [Enabled -> Nat]
  <2>1. CASE ok
    <3>1. gusage[Last(last.by)] + 1 \in Nat
      BY <1>2, <1>4, <2>1
    <3> QED
      BY <1>2, <1>3, <2>1, <3>1
  <2>2. CASE ~ ok
    BY <1>2, <2>2
  <2> QED
    BY <2>1, <2>2
<1>7. AsConfigured'
  <2>1. SUFFICES ASSUME NEW i \in DOMAIN gended', ~ gended'[i].ok
                 PROVE  Len(gended'[i].by) =
                          IF Enabled = {} THEN 0
                          ELSE IF FallbackEnabled \/ RetryLimit = 0
                            THEN RetryLimit ELSE 1
    BY DEF AsConfigured
  <2>2. \/ i \in DOMAIN gended /\ gended'[i] = gended[i]
        \/ gended'[i] = last
    BY <1>1, <1>2, <1>3
  <2> QED
    BY <1>2, <1>3, <2>1, <2>2 DEF AsConfigured
<1>8. Measured'
  <2>1. SUFFICES ASSUME NEW p \in Enabled
                 PROVE  gusage'[p] = Cardinality(Answered(gended', p))
    BY DEF Measured
  <2>2. Cardinality(Answered(gended', p)) =
          gusage[p] + (IF ok /\ Last(last.by) = p THEN 1 ELSE 0)
    <3>1. gusage[p] = Cardinality(Answered(gended, p))
      BY <1>2 DEF Measured
    <3>2. Cardinality(Answered(Append(gended, last), p)) =
            Cardinality(Answered(gended, p))
              + (IF last.ok /\ Last(last.by) = p THEN 1 ELSE 0)
      BY <1>2, <1>3, OneMoreAnswer
    <3> QED
      BY <1>1, <1>3, <3>1, <3>2
  <2>3. gusage[p] \in Nat
    BY <1>2
  <2>4. CASE ok
    BY <1>2, <1>3, <2>2, <2>3, <2>4
  <2>5. CASE ~ ok
    BY <2>2, <2>3, <2>5
  <2> QED
    BY <2>4, <2>5
<1> QED
  BY <1>5, <1>6, <1>7, <1>8
LEMMA BeginKeepsRoutes ==
  GatewayInv /\ (\E t \in Thread : Begin(t)) => GatewayInv'
<1> SUFFICES ASSUME GatewayInv, NEW t \in Thread, Begin(t) PROVE GatewayInv'
  OBVIOUS
<1>1. /\ GTypeOK /\ Routing /\ AsConfigured /\ Measured
      /\ \A u \in Thread : Chosen(u)
  BY RoutedParts DEF GatewayInv
<1>2. /\ gtried' = [gtried EXCEPT ![t] = <<>>]
      /\ gsteady' = [gsteady EXCEPT ![t] = TRUE]
      /\ ghealth' = ghealth /\ gusage' = gusage
      /\ \/ (RetryLimit = 0 \/ Enabled = {}) /\ Finish(t, FALSE)
         \/ /\ RetryLimit # 0 /\ Enabled # {}
            /\ Go(t, "probe", 1) /\ gended' = gended
  BY DEF Begin
<1>3. gtried \in [Thread -> Seq(Enabled)] /\ gtried'[t] = <<>>
      /\ \A u \in Thread : u # t => gtried'[u] = gtried[u]
  BY <1>1, <1>2 DEF GTypeOK
<1>4. PICK step \in {"idle", "probe"}, at \in {0, 1} :
        /\ gpc' = [gpc EXCEPT ![t] = step]
        /\ gprobe' = [gprobe EXCEPT ![t] = at]
        /\ step = "probe" => at = 1 /\ RetryLimit # 0 /\ Enabled # {}
  BY <1>2 DEF Go, Finish
<1>5. /\ gended' \in Seq([by : Seq(Enabled), ok : BOOLEAN])
      /\ AsConfigured' /\ Measured'
  <2>1. CASE Finish(t, FALSE) /\ (RetryLimit = 0 \/ Enabled = {})
    <3>1. Len(gtried'[t]) = IF Enabled = {} THEN 0
                            ELSE IF FallbackEnabled \/ RetryLimit = 0
                              THEN RetryLimit ELSE 1
      BY <1>3, <2>1
    <3>2. gtried'[t] \in Seq(Enabled)
      BY <1>3
    <3> QED
      BY <1>2, <2>1, <3>1, <3>2, FinishKeeps
  <2>2. CASE gended' = gended
    BY <1>1, <1>2, <2>2 DEF AsConfigured, Measured, GTypeOK
  <2> QED
    BY <1>2, <2>1, <2>2
<1>6. GTypeOK'
  <2>1. {0, 1} \subseteq 0 .. Len(Probes) + 1
    BY ProbesList
  <2>2. gtried' \in [Thread -> Seq(Enabled)]
    BY <1>2, <1>3
  <2> QED
    BY <1>1, <1>2, <1>4, <1>5, <2>1, <2>2 DEF GTypeOK
<1>7. Routing'
  <2> SUFFICES ASSUME NEW u \in Thread
      PROVE  /\ gpc'[u] = "probe" =>
                  /\ gprobe'[u] \in 1 .. Len(Probes) + 1 /\ Enabled # {}
                  /\ Len(gtried'[u]) < RetryLimit
                  /\ ~ FallbackEnabled => Len(gtried'[u]) = 0
                  /\ gsteady'[u] =>
                       \A k \in 1 .. gprobe'[u] - 1 : Probes[k] \notin ghealth'
             /\ gpc'[u] = "call" =>
                  /\ Len(gtried'[u]) \in 1 .. RetryLimit
                  /\ ~ FallbackEnabled => Len(gtried'[u]) = 1
    BY DEF Routing
  <2>1. CASE u = t
    <3>1. gpc'[t] = "probe" => gprobe'[t] = 1 /\ RetryLimit # 0 /\ Enabled # {}
      BY <1>1, <1>4 DEF GTypeOK
    <3>2. gpc'[t] # "call"
      BY <1>1, <1>4 DEF GTypeOK
    <3>3. Len(gtried'[t]) = 0 /\ RetryLimit \in Nat
      BY <1>3, GatewayAssumption
    <3> QED
      BY <2>1, <3>1, <3>2, <3>3, ProbesList
  <2>2. CASE u # t
    <3>1. /\ gpc'[u] = gpc[u] /\ gprobe'[u] = gprobe[u]
          /\ gtried'[u] = gtried[u] /\ gsteady'[u] = gsteady[u]
      BY <1>1, <1>2, <1>4, <2>2 DEF GTypeOK
    <3> QED
      BY <1>1, <1>2, <3>1 DEF Routing
  <2> QED
    BY <2>1, <2>2
<1>8. \A u \in Thread : Chosen(u)'
  <2> SUFFICES ASSUME NEW u \in Thread PROVE Chosen(u)'
    OBVIOUS
  <2>1. CASE u = t
    BY <1>1, <1>4, <2>1 DEF GTypeOK, Chosen
  <2>2. CASE u # t
    <3>1. /\ gpc'[u] = gpc[u] /\ gtried'[u] = gtried[u]
          /\ gsteady'[u] = gsteady[u]
      BY <1>1, <1>2, <1>4, <2>2 DEF GTypeOK
    <3>2. Chosen(u)
      BY <1>1
    <3> QED
      BY <1>2, <3>1, <3>2 DEF Chosen
  <2> QED
    BY <2>1, <2>2
<1>9. CallsAreRouted'
  BY <1>5, <1>8, RoutedNext
<1> QED
  BY <1>6, <1>7, <1>9 DEF GatewayInv

LEMMA SelectKeepsRoutes ==
  GatewayInv /\ (\E t \in Thread : SelectProvider(t)) => GatewayInv'
<1> SUFFICES ASSUME GatewayInv, NEW t \in Thread, SelectProvider(t)
             PROVE  GatewayInv'
  OBVIOUS
<1> DEFINE here == gprobe[t]
<1>1. /\ GTypeOK /\ Routing /\ AsConfigured /\ Measured
      /\ \A u \in Thread : Chosen(u)
  BY RoutedParts DEF GatewayInv
<1>2. /\ gpc[t] = "probe" /\ ghealth' = ghealth /\ gsteady' = gsteady
      /\ gusage' = gusage /\ gended' = gended
  BY DEF SelectProvider
<1>3. /\ here \in 1 .. Len(Probes) + 1 /\ Enabled # {}
      /\ Len(gtried[t]) < RetryLimit
      /\ ~ FallbackEnabled => Len(gtried[t]) = 0
      /\ gsteady[t] => \A k \in 1 .. here - 1 : Probes[k] \notin ghealth
  BY <1>1, <1>2 DEF Routing
<1>4. gtried[t] \in Seq(Enabled) /\ ghealth \subseteq Enabled
  BY <1>1 DEF GTypeOK
<1>5. \/ \E p \in Enabled :
           /\ gtried' = [gtried EXCEPT ![t] = Append(@, p)]
           /\ gpc' = [gpc EXCEPT ![t] = "call"]
           /\ gprobe' = [gprobe EXCEPT ![t] = 0]
           /\ \/ here > Len(Probes)
              \/ here <= Len(Probes) /\ p = Probes[here] /\ p \in ghealth
      \/ /\ here <= Len(Probes) /\ Probes[here] \notin ghealth
         /\ gtried' = gtried
         /\ gpc' = [gpc EXCEPT ![t] = "probe"]
         /\ gprobe' = [gprobe EXCEPT ![t] = here + 1]
  <2>1. Registry[1] \in Enabled
    BY <1>3, RegistryLists, ProbesList
  <2>2. Len(Probes) \in Nat
    BY ProbesList
  <2>3. CASE here > Len(Probes)
    <3>1. gtried' = [gtried EXCEPT ![t] = Append(@, Registry[1])]
          /\ Go(t, "call", 0)
      BY <2>2, <2>3, <1>3 DEF SelectProvider
    <3> QED
      BY <2>1, <2>3, <3>1 DEF Go
  <2>4. CASE here <= Len(Probes) /\ Probes[here] \in ghealth
    <3>1. gtried' = [gtried EXCEPT ![t] = Append(@, Probes[here])]
          /\ Go(t, "call", 0)
      BY <2>2, <2>4, <1>3 DEF SelectProvider
    <3> QED
      BY <1>4, <2>4, <3>1 DEF Go
  <2>5. CASE here <= Len(Probes) /\ Probes[here] \notin ghealth
    BY <2>2, <2>5, <1>3 DEF SelectProvider, Go
  <2> QED
    BY <2>2, <2>3, <2>4, <2>5, <1>3
<1>6. AsConfigured' /\ Measured'
  BY <1>1, <1>2 DEF AsConfigured, Measured
<1>7. CASE \E p \in Enabled :
           /\ gtried' = [gtried EXCEPT ![t] = Append(@, p)]
           /\ gpc' = [gpc EXCEPT ![t] = "call"]
           /\ gprobe' = [gprobe EXCEPT ![t] = 0]
           /\ \/ here > Len(Probes)
              \/ here <= Len(Probes) /\ p = Probes[here] /\ p \in ghealth
  <2>1. PICK p \in Enabled :
           /\ gtried' = [gtried EXCEPT ![t] = Append(@, p)]
           /\ gpc' = [gpc EXCEPT ![t] = "call"]
           /\ gprobe' = [gprobe EXCEPT ![t] = 0]
           /\ \/ here > Len(Probes)
              \/ here <= Len(Probes) /\ p = Probes[here] /\ p \in ghealth
    BY <1>7
  <2>2. /\ Append(gtried[t], p) \in Seq(Enabled)
        /\ Len(Append(gtried[t], p)) = Len(gtried[t]) + 1
        /\ Last(Append(gtried[t], p)) = p /\ Len(gtried[t]) \in Nat
    BY <1>4 DEF Last
  <2>3. gtried'[t] = Append(gtried[t], p) /\ gpc'[t] = "call"
    BY <1>1, <2>1 DEF GTypeOK
  <2>4. \A u \in Thread \ {t} :
          /\ gpc'[u] = gpc[u] /\ gprobe'[u] = gprobe[u]
          /\ gtried'[u] = gtried[u] /\ gsteady'[u] = gsteady[u]
    BY <1>1, <1>2, <2>1 DEF GTypeOK
  <2>5. GTypeOK'
    <3>1. gtried' \in [Thread -> Seq(Enabled)]
      BY <1>1, <2>1, <2>2 DEF GTypeOK
    <3>2. 0 \in 0 .. Len(Probes) + 1
      BY ProbesList
    <3> QED
      BY <1>1, <1>2, <2>1, <3>1, <3>2 DEF GTypeOK
  <2>6. Routing'
    <3>1. RetryLimit \in Nat
      BY GatewayAssumption
    <3>2. Len(gtried'[t]) \in 1 .. RetryLimit
          /\ (~ FallbackEnabled => Len(gtried'[t]) = 1)
      BY <1>3, <2>2, <2>3, <3>1
    <3> QED
      BY <1>1, <1>2, <2>3, <2>4, <3>2 DEF Routing
  <2>7. Chosen(t)'
    <3>1. SUFFICES ASSUME gsteady[t], ghealth # {}
          PROVE  /\ p \in ghealth
                 /\ \A i \in DOMAIN Order : Order[i] \in ghealth =>
                      \E j \in 1 .. i : Order[j] = p
      BY <1>2, <2>2, <2>3 DEF Chosen
    <3>2. here <= Len(Probes) /\ p = Probes[here] /\ p \in ghealth
      <4>1. PICK q \in Enabled : q \in ghealth
        BY <1>4, <3>1
      <4>2. PICK k \in 1 .. Len(Probes) : Probes[k] = q
        BY ProbesList
      <4>3. ~ (here > Len(Probes))
        BY <1>3, <3>1, <4>1, <4>2, ProbesList, SMTT(30)
      <4> QED
        BY <2>1, <4>3
    <3>3. ASSUME NEW i \in DOMAIN Order, Order[i] \in ghealth
          PROVE  \E j \in 1 .. i : Order[j] = p
      <4>1. i \in 1 .. Len(Order) /\ Probes[i] = Order[i]
        BY ProbesList, GatewayAssumption
      <4>2. ~ (i < here)
        BY <1>3, <3>1, <3>3, <4>1
      <4>3. here \in 1 .. i /\ Order[here] = p
        BY <1>3, <3>2, <4>1, <4>2, ProbesList
      <4> QED
        BY <4>3
    <3> QED
      BY <3>2, <3>3
  <2>8. \A u \in Thread \ {t} : Chosen(u)'
    BY <1>1, <1>2, <2>4 DEF Chosen
  <2>9. CallsAreRouted'
    BY <1>6, <2>7, <2>8, RoutedNext
  <2> QED
    BY <2>5, <2>6, <2>9 DEF GatewayInv
<1>8. CASE /\ here <= Len(Probes) /\ Probes[here] \notin ghealth
           /\ gtried' = gtried
           /\ gpc' = [gpc EXCEPT ![t] = "probe"]
           /\ gprobe' = [gprobe EXCEPT ![t] = here + 1]
  <2>1. gpc' = gpc /\ gprobe'[t] = here + 1
        /\ \A u \in Thread \ {t} : gprobe'[u] = gprobe[u]
    BY <1>1, <1>2, <1>8 DEF GTypeOK
  <2>2. here + 1 \in 1 .. Len(Probes) + 1 /\ Len(Probes) \in Nat
    BY <1>3, <1>8, ProbesList
  <2>3. GTypeOK'
    <3>1. here + 1 \in 0 .. Len(Probes) + 1
      BY <2>2
    <3> QED
      BY <1>1, <1>2, <1>8, <2>1, <3>1 DEF GTypeOK
  <2>4. gsteady[t] => \A k \in 1 .. (here + 1) - 1 : Probes[k] \notin ghealth
    <3>1. SUFFICES ASSUME gsteady[t], NEW k \in 1 .. here
                   PROVE  Probes[k] \notin ghealth
      BY <1>3
    <3>2. k \in 1 .. here - 1 \/ k = here
      BY <1>3
    <3> QED
      BY <1>3, <1>8, <3>1, <3>2
  <2>5. Routing'
    BY <1>1, <1>2, <1>3, <1>8, <2>1, <2>2, <2>4 DEF Routing
  <2>6. \A u \in Thread : Chosen(u)'
    BY <1>1, <1>2, <1>8, <2>1 DEF Chosen
  <2>7. CallsAreRouted'
    BY <1>6, <2>6, RoutedNext
  <2> QED
    BY <2>3, <2>5, <2>7 DEF GatewayInv
<1> QED
  BY <1>5, <1>7, <1>8

LEMMA CallKeepsRoutes ==
  GatewayInv /\ (\E t \in Thread : CallProvider(t)) => GatewayInv'
<1> SUFFICES ASSUME GatewayInv, NEW t \in Thread, CallProvider(t)
             PROVE  GatewayInv'
  OBVIOUS
<1>1. /\ GTypeOK /\ Routing /\ AsConfigured /\ Measured
      /\ \A u \in Thread : Chosen(u)
  BY RoutedParts DEF GatewayInv
<1>2. /\ gpc[t] = "call" /\ gtried' = gtried /\ ghealth' = ghealth
      /\ gsteady' = gsteady
      /\ \/ /\ gusage' = [gusage EXCEPT ![Last(gtried[t])] = @ + 1]
            /\ Finish(t, TRUE)
         \/ /\ FallbackEnabled /\ Len(gtried[t]) < RetryLimit
            /\ Go(t, "probe", 1) /\ gended' = gended /\ gusage' = gusage
         \/ /\ ~ (FallbackEnabled /\ Len(gtried[t]) < RetryLimit)
            /\ Finish(t, FALSE) /\ gusage' = gusage
  BY DEF CallProvider
<1>3. /\ Len(gtried[t]) \in 1 .. RetryLimit
      /\ ~ FallbackEnabled => Len(gtried[t]) = 1
  BY <1>1, <1>2 DEF Routing
<1>4. gtried[t] \in Seq(Enabled) /\ RetryLimit \in Nat /\ Enabled # {}
  <2>1. gtried[t] \in Seq(Enabled) /\ RetryLimit \in Nat
    BY <1>1, GatewayAssumption DEF GTypeOK
  <2> QED
    BY <1>3, <2>1
<1>5. PICK step \in {"idle", "probe"}, at \in {0, 1} :
        /\ gpc' = [gpc EXCEPT ![t] = step]
        /\ gprobe' = [gprobe EXCEPT ![t] = at]
        /\ step = "probe" => /\ at = 1 /\ FallbackEnabled
                             /\ Len(gtried[t]) < RetryLimit
  BY <1>2 DEF Go, Finish
<1>6. /\ gended' \in Seq([by : Seq(Enabled), ok : BOOLEAN])
      /\ gusage' \in [Enabled -> Nat] /\ AsConfigured' /\ Measured'
  <2>1. CASE Finish(t, TRUE)
             /\ gusage' = [gusage EXCEPT ![Last(gtried[t])] = @ + 1]
    <3>1. gtried'[t] # <<>> /\ gtried'[t] = gtried[t]
      BY <1>2, <1>3, <1>4
    <3> QED
      BY <1>4, <2>1, <3>1, FinishKeeps
  <2>2. CASE gended' = gended /\ gusage' = gusage
    BY <1>1, <2>2 DEF AsConfigured, Measured, GTypeOK
  <2>3. CASE /\ ~ (FallbackEnabled /\ Len(gtried[t]) < RetryLimit)
             /\ Finish(t, FALSE) /\ gusage' = gusage
    <3>1. Len(gtried[t]) = IF Enabled = {} THEN 0
                           ELSE IF FallbackEnabled \/ RetryLimit = 0
                             THEN RetryLimit ELSE 1
      <4>1. CASE FallbackEnabled
        <5>1. ~ (Len(gtried[t]) < RetryLimit)
          BY <2>3, <4>1
        <5>2. Len(gtried[t]) = RetryLimit
          BY <1>3, <1>4, <5>1
        <5> QED
          BY <1>4, <4>1, <5>2
      <4>2. CASE ~ FallbackEnabled
        <5>1. Len(gtried[t]) = 1 /\ RetryLimit # 0
          BY <1>3, <1>4, <4>2
        <5> QED
          BY <1>4, <4>2, <5>1
      <4> QED
        BY <4>1, <4>2
    <3> QED
      BY <1>2, <1>4, <2>3, <3>1, FinishKeeps
  <2> QED
    BY <1>2, <2>1, <2>2, <2>3
<1>7. GTypeOK'
  <2>1. {0, 1} \subseteq 0 .. Len(Probes) + 1
    BY ProbesList
  <2> QED
    BY <1>1, <1>2, <1>5, <1>6, <2>1 DEF GTypeOK
<1>8. Routing'
  <2> SUFFICES ASSUME NEW u \in Thread
      PROVE  /\ gpc'[u] = "probe" =>
                  /\ gprobe'[u] \in 1 .. Len(Probes) + 1 /\ Enabled # {}
                  /\ Len(gtried[u]) < RetryLimit
                  /\ ~ FallbackEnabled => Len(gtried[u]) = 0
                  /\ gsteady[u] =>
                       \A k \in 1 .. gprobe'[u] - 1 : Probes[k] \notin ghealth
             /\ gpc'[u] = "call" =>
                  /\ Len(gtried[u]) \in 1 .. RetryLimit
                  /\ ~ FallbackEnabled => Len(gtried[u]) = 1
    BY <1>2 DEF Routing
  <2>1. CASE u = t
    <3>1. /\ gpc'[t] = "probe" => /\ gprobe'[t] = 1 /\ FallbackEnabled
                                  /\ Len(gtried[t]) < RetryLimit
          /\ gpc'[t] # "call"
      BY <1>1, <1>5 DEF GTypeOK
    <3> QED
      BY <1>4, <2>1, <3>1, ProbesList
  <2>2. CASE u # t
    <3>1. gpc'[u] = gpc[u] /\ gprobe'[u] = gprobe[u]
      BY <1>1, <1>5, <2>2 DEF GTypeOK
    <3> QED
      BY <1>1, <3>1 DEF Routing
  <2> QED
    BY <2>1, <2>2
<1>9. \A u \in Thread : Chosen(u)'
  <2> SUFFICES ASSUME NEW u \in Thread PROVE Chosen(u)'
    OBVIOUS
  <2>1. gpc'[u] = "call" => gpc[u] = "call"
    BY <1>1, <1>5 DEF GTypeOK
  <2> QED
    BY <1>1, <1>2, <2>1 DEF Chosen
<1>10. CallsAreRouted'
  BY <1>6, <1>9, RoutedNext
<1> QED
  BY <1>7, <1>8, <1>10 DEF GatewayInv

LEMMA TurnKeepsRoutes ==
  GatewayInv /\ (\E p \in Enabled : Turn(p)) => GatewayInv'
<1> SUFFICES ASSUME GatewayInv, NEW p \in Enabled, Turn(p) PROVE GatewayInv'
  OBVIOUS
<1>1. GTypeOK /\ Routing /\ AsConfigured /\ Measured
  BY RoutedParts DEF GatewayInv
<1>2. /\ ghealth' \subseteq Enabled
      /\ gsteady' \in [Thread -> BOOLEAN] /\ \A u \in Thread : ~ gsteady'[u]
      /\ UNCHANGED <<gpc, gprobe, gtried, gusage, gended>>
  BY <1>1 DEF Turn, GTypeOK
<1>3. GTypeOK'
  BY <1>1, <1>2 DEF GTypeOK
<1>4. Routing'
  BY <1>1, <1>2 DEF Routing
<1>5. (\A u \in Thread : Chosen(u)') /\ AsConfigured' /\ Measured'
  BY <1>1, <1>2 DEF Chosen, AsConfigured, Measured
<1>6. CallsAreRouted'
  BY <1>5, RoutedNext
<1> QED
  BY <1>3, <1>4, <1>6 DEF GatewayInv

(* However many calls overlap and health changes, a call goes to the       *)
(* healthy provider of highest priority, is tried as often as configured,  *)
(* and is counted for the provider that answered.                          *)
THEOREM CallsGoWhereTheyShould == GSpec => []GatewayHolds
<1>1. GatewayInv /\ [GNext]_gvars => GatewayInv'
  <2> SUFFICES ASSUME GatewayInv, [GNext]_gvars PROVE GatewayInv'
    OBVIOUS
  <2>1. CASE \E p \in Enabled : Turn(p)
    BY <2>1, TurnKeepsRoutes
  <2>2. CASE \E t \in Thread : Begin(t)
    BY <2>2, BeginKeepsRoutes
  <2>3. CASE \E t \in Thread : SelectProvider(t)
    BY <2>3, SelectKeepsRoutes
  <2>4. CASE \E t \in Thread : CallProvider(t)
    BY <2>4, CallKeepsRoutes
  <2>5. CASE UNCHANGED gvars
    BY <2>5 DEF GatewayInv, GTypeOK, CallsAreRouted, Routing, gvars
  <2> QED
    BY <2>1, <2>2, <2>3, <2>4, <2>5 DEF GNext
<1>2. GatewayInv => GatewayHolds
  BY DEF GatewayInv, GatewayHolds
<1> QED
  BY <1>1, <1>2, GatewayInit, PTL DEF GSpec
-----------------------------------------------------------------------------
(* The memory of the agents.                                               *)

MemTopic ==
  FactTables \cup Scores \cup {<<"execution", e>> : e \in Execution}
  \cup {Slot, <<"calibration">>} \cup {<<"goal", g>> : g \in GoalId}
  \cup {<<"episode", n>> : n \in Nat}
MemStep == {"find_row", "put_row", "tell", "drop", "record_lesson",
            "save_score", "save_calibration"}
Counts ==
  {c \in [attempts : Nat, successes : Nat] : c.successes <= c.attempts}
InHand == Seq(Nat) \cup (Counts \X BOOLEAN)
MemRequest == [id : Nat, on : MemTopic \cup {<<"nothing">>}, held : InHand]

(* What a request at a step works on, and what it holds.                   *)
Fits(step, r) ==
  /\ r.on \in MemTopic
  /\ step \in {"find_row", "put_row"} => r.on \in FactTables
  /\ step = "put_row" => r.held \in Seq(1 .. MaxMemory)
  /\ step = "record_lesson" =>
       \E e \in Execution, failed \in 0 .. 1 :
         r.on = <<"execution", e>> /\ r.held = <<failed>>
  /\ step = "save_score" => r.on \in Scores /\ r.held \in Counts \X BOOLEAN
  /\ step = "save_calibration" => r.held \in (0 .. 100) \X (0 .. 100)
  /\ step = "drop" => r.on = Slot
  /\ r.on = Slot /\ Len(r.held) = 3 => r.held[2] >= r.held[3]

(* Requests on one topic at the same time have met.                        *)
MemServing ==
  /\ mserved \in 0 .. MaxMemory /\ mclock \in 0 .. MaxClock
  /\ mpc \in [Thread -> MemStep \cup {"idle"}]
  /\ mreq \in [Thread -> MemRequest]
  /\ \A t \in Thread :
       IF mpc[t] = "idle" THEN mreq[t] = Free
       ELSE mreq[t].id \in 1 .. mserved /\ Fits(mpc[t], mreq[t])
  /\ \A t, u \in Thread :
       mpc[t] # "idle" /\ mreq[t].on = mreq[u].on =>
         t = u \/ mreq[t].on \in mcrossed

(* A row in hand is the row there is, where nobody was met.                *)
FactsInv ==
  /\ mrow \in [FactTables -> Seq(1 .. MaxMemory)]
  /\ mlast \in [FactTables -> 0 .. MaxMemory]
  /\ \A k \in FactTables : k \notin mcrossed =>
       /\ mrow[k] = IF mlast[k] = 0 THEN <<>> ELSE <<mlast[k]>>
       /\ \A t \in Thread : mpc[t] = "put_row" /\ mreq[t].on = k =>
            mreq[t].held = mrow[k]

ScoresInv ==
  /\ mscore \in [Learner -> Counts] /\ mtried \in [Learner -> Counts]
  /\ \A x \in Learner : <<"score", x>> \notin mcrossed =>
       /\ mscore[x] = mtried[x]
       /\ \A t \in Thread :
            mpc[t] = "save_score" /\ mreq[t].on = <<"score", x>> =>
              mreq[t].held[1] = mscore[x]

(* Who is about to drop the entry has seen the one last set expire.        *)
Gone == mset = <<>> \/ mset[2] < mclock
SlotInv ==
  /\ mctx = <<>> \/ mctx \in (1 .. mserved) \X Nat
  /\ mset = <<>> \/ mset \in Nat \X Nat
  /\ Slot \notin mcrossed =>
       /\ IF mctx = <<>> THEN Gone ELSE mctx = mset
       /\ \A t \in Thread : mpc[t] = "drop" => Gone

(* A report has its lesson, or a request about to record it.               *)
LessonOf(e, r) == [of |-> e, id |-> r.id, failed |-> r.failed]
Teaches(t, e, r) ==
  mpc[t] = "record_lesson"
    /\ mreq[t] = [id |-> r.id, on |-> <<"execution", e>>, held |-> <<r.failed>>]
Taught(e, r) ==
  LessonOf(e, r) \in mlesson \/ \E t \in Thread : Teaches(t, e, r)
Report == [id : Nat, failed : 0 .. 1]
ReportsInv ==
  /\ mreport \in [Execution -> Seq(Report)]
  /\ \A e \in Execution : <<"execution", e>> \notin mcrossed =>
       \A i \in DOMAIN mreport[e] : Taught(e, mreport[e][i])

GoalRow == [id : Nat, goal : GoalId, value : 1 .. MaxMemory]
GoalsInv ==
  /\ mgoal \in Seq(GoalRow)
  /\ \A i, j \in DOMAIN mgoal : mgoal[i].id = mgoal[j].id => i = j

ChronicleInv ==
  /\ mepisode \in Seq([ok : BOOLEAN, tools : SUBSET Learner])
  /\ mcalib = <<>> \/ mcalib \in (0 .. 100) \X (0 .. 100) \X (10 .. 100)

MemoryInv ==
  /\ MemServing /\ FactsInv /\ ScoresInv /\ SlotInv
  /\ ReportsInv /\ GoalsInv /\ ChronicleInv

(* What every call of one thread leaves alone.                             *)
MemMoves(t) ==
  /\ mcrossed \subseteq mcrossed' /\ mserved <= mserved' /\ mclock' = mclock
  /\ \A u \in Thread \ {t} : mpc'[u] = mpc[u] /\ mreq'[u] = mreq[u]

LEMMA MemTopicsApart ==
  /\ \A e \in Execution : /\ <<"execution", e>> \in MemTopic
                          /\ <<"execution", e>> # Slot
  /\ \A g \in GoalId : <<"goal", g>> \in MemTopic /\ <<"goal", g>> # Slot
  /\ \A n \in Nat : <<"episode", n>> \in MemTopic /\ <<"episode", n>> # Slot
  /\ \A k \in FactTables : k \in MemTopic /\ k # Slot
  /\ \A x \in Learner : /\ <<"score", x>> \in MemTopic
                        /\ <<"score", x>> \in Scores /\ <<"score", x>> # Slot
  /\ Slot \in MemTopic /\ <<"calibration">> \in MemTopic
  /\ <<"calibration">> # Slot /\ <<"nothing">> \notin MemTopic
BY DEF MemTopic, Scores, FactTables, Slot

LEMMA AskedKeeps ==
  ASSUME MemServing, NEW t \in Thread, NEW step \in MemStep, NEW on,
         NEW held \in InHand, Ask(t, step, on, held),
         Fits(step, [id |-> mserved + 1, on |-> on, held |-> held])
  PROVE  /\ MemServing' /\ MemMoves(t)
         /\ mpc[t] = "idle" /\ mpc'[t] = step
         /\ mserved' = mserved + 1 /\ mserved + 1 \in 1 .. MaxMemory
         /\ mreq'[t] = [id |-> mserved + 1, on |-> on, held |-> held]
         /\ on \notin mcrossed' => \A u \in Thread : mreq[u].on # on
<1>1. /\ mpc[t] = "idle" /\ mserved < MaxMemory /\ mserved' = mserved + 1
      /\ mpc' = [mpc EXCEPT ![t] = step] /\ mclock' = mclock
      /\ mcrossed \subseteq mcrossed'
      /\ (\E u \in Thread : mreq[u].on = on) => on \in mcrossed'
  BY DEF Ask
<1>2. /\ mserved \in Nat /\ MaxMemory \in Nat /\ mserved + 1 \in 1 .. MaxMemory
      /\ "idle" \notin MemStep
  BY <1>1, MemoryAssumption DEF MemServing, MemStep
<1>3. PICK new : new = [id |-> mserved + 1, on |-> on, held |-> held]
  OBVIOUS
<1>4. mreq' = [mreq EXCEPT ![t] = new]
  BY <1>1, <1>3 DEF Ask
<1>5. Fits(step, new)
  BY <1>3
<1>6. on \in MemTopic
  BY <1>3, <1>5 DEF Fits
<1>7. new \in MemRequest /\ new.id = mserved + 1 /\ new.on = on
  BY <1>2, <1>3, <1>6 DEF MemRequest
<1>8. /\ mpc'[t] = step /\ mreq'[t] = new
      /\ \A u \in Thread \ {t} : mpc'[u] = mpc[u] /\ mreq'[u] = mreq[u]
  BY <1>1, <1>4 DEF MemServing
<1>9. /\ mserved' \in 0 .. MaxMemory /\ mclock' \in 0 .. MaxClock
      /\ mpc' \in [Thread -> MemStep \cup {"idle"}]
      /\ mreq' \in [Thread -> MemRequest]
  BY <1>1, <1>2, <1>4, <1>7 DEF MemServing
<1>10. ASSUME NEW u \in Thread
       PROVE  IF mpc'[u] = "idle" THEN mreq'[u] = Free
              ELSE mreq'[u].id \in 1 .. mserved' /\ Fits(mpc'[u], mreq'[u])
  <2>1. CASE u = t
    BY <1>1, <1>2, <1>5, <1>7, <1>8, <2>1
  <2>2. CASE u # t
    <3>1. mpc[u] # "idle" => mreq[u].id \in 1 .. mserved
      BY DEF MemServing
    <3>2. mpc[u] # "idle" => mreq[u].id \in 1 .. mserved + 1
      BY <1>2, <3>1
    <3> QED
      BY <1>1, <1>8, <2>2, <3>2 DEF MemServing
  <2> QED
    BY <2>1, <2>2
<1>11. ASSUME NEW u \in Thread, NEW v \in Thread, u # v, mpc'[u] # "idle",
              mreq'[u].on = mreq'[v].on
       PROVE  mreq'[u].on \in mcrossed'
  <2>1. CASE u # t /\ v # t
    BY <1>1, <1>8, <1>11, <2>1 DEF MemServing
  <2>2. CASE u = t \/ v = t
    BY <1>1, <1>7, <1>8, <1>11, <2>2
  <2> QED
    BY <2>1, <2>2
<1>12. MemServing'
  BY <1>9, <1>10, <1>11 DEF MemServing
<1> QED
  BY <1>1, <1>2, <1>3, <1>8, <1>12 DEF MemMoves

LEMMA FreeFits ==
  /\ Free \in MemRequest /\ Free.on = <<"nothing">> /\ Free.on \notin MemTopic
  /\ Free.held = <<>>
BY MemTopicsApart DEF Free, MemRequest, InHand

(* The end of a request, told or lost.                                     *)
LEMMA ReleaseKeeps ==
  ASSUME MemServing, NEW t \in Thread,
         mpc' = [mpc EXCEPT ![t] = "idle"], mreq' = [mreq EXCEPT ![t] = Free],
         UNCHANGED <<mserved, mclock>>, mcrossed \subseteq mcrossed'
  PROVE  /\ MemServing' /\ MemMoves(t)
         /\ mpc'[t] = "idle" /\ mreq'[t] = Free
<1>1. /\ mpc'[t] = "idle" /\ mreq'[t] = Free
      /\ \A u \in Thread \ {t} : mpc'[u] = mpc[u] /\ mreq'[u] = mreq[u]
  BY DEF MemServing
<1>2. /\ mpc' \in [Thread -> MemStep \cup {"idle"}]
      /\ mreq' \in [Thread -> MemRequest]
  BY FreeFits DEF MemServing
<1>3. ASSUME NEW u \in Thread
      PROVE  IF mpc'[u] = "idle" THEN mreq'[u] = Free
             ELSE mreq'[u].id \in 1 .. mserved' /\ Fits(mpc'[u], mreq'[u])
  BY <1>1 DEF MemServing
<1>4. ASSUME NEW u \in Thread, NEW v \in Thread, u # v, mpc'[u] # "idle",
             mreq'[u].on = mreq'[v].on
      PROVE  mreq'[u].on \in mcrossed'
  <2>1. u # t
    BY <1>1, <1>4
  <2>2. CASE v = t
    <3>1. mreq[u].on \in MemTopic
      BY <1>1, <1>4, <2>1 DEF MemServing, Fits
    <3> QED
      BY <1>1, <1>4, <2>1, <2>2, <3>1, FreeFits
  <2>3. CASE v # t
    BY <1>1, <1>4, <2>1, <2>3 DEF MemServing
  <2> QED
    BY <2>2, <2>3
<1>5. MemServing'
  BY <1>2, <1>3, <1>4 DEF MemServing
<1>6. mserved <= mserved'
  BY DEF MemServing
<1> QED
  BY <1>1, <1>5, <1>6 DEF MemMoves

LEMMA ToldKeeps ==
  ASSUME MemServing, NEW t \in Thread, Tell(t)
  PROVE  /\ MemServing' /\ MemMoves(t)
         /\ mpc'[t] = "idle" /\ mreq'[t] = Free
BY ReleaseKeeps DEF Tell

LEMMA FactsKept ==
  ASSUME FactsInv, NEW t \in Thread, MemMoves(t), UNCHANGED <<mrow, mlast>>,
         mpc'[t] # "put_row"
  PROVE  FactsInv'
BY DEF FactsInv, MemMoves

LEMMA ScoresKept ==
  ASSUME ScoresInv, NEW t \in Thread, MemMoves(t), UNCHANGED <<mscore, mtried>>,
         mpc'[t] # "save_score"
  PROVE  ScoresInv'
BY DEF ScoresInv, MemMoves

LEMMA SlotKept ==
  ASSUME SlotInv, MemServing, MemServing', NEW t \in Thread, MemMoves(t),
         UNCHANGED <<mctx, mset>>, mpc'[t] # "drop"
  PROVE  SlotInv'
<1>1. mctx' = <<>> \/ mctx' \in (1 .. mserved') \X Nat
  BY DEF SlotInv, MemMoves, MemServing
<1>2. Gone' <=> Gone
  BY DEF Gone, MemMoves
<1> QED
  BY <1>1, <1>2 DEF SlotInv, MemMoves

LEMMA ReportsKept ==
  ASSUME ReportsInv, NEW t \in Thread, MemMoves(t), mreport' = mreport,
         mlesson \subseteq mlesson', mpc[t] # "record_lesson"
  PROVE  ReportsInv'
<1>1. ASSUME NEW e \in Execution, NEW r, Taught(e, r)
      PROVE  Taught(e, r)'
  <2>1. ASSUME NEW u \in Thread, Teaches(u, e, r)
        PROVE  Teaches(u, e, r)'
    BY <2>1 DEF Teaches, MemMoves
  <2> QED
    BY <1>1, <2>1 DEF Taught, LessonOf
<1> QED
  BY <1>1 DEF ReportsInv, MemMoves, Taught, Teaches, LessonOf

LEMMA GoalsKept == GoalsInv /\ mgoal' = mgoal => GoalsInv'
BY DEF GoalsInv

LEMMA ChronicleKept ==
  ChronicleInv /\ UNCHANGED <<mepisode, mcalib>> => ChronicleInv'
BY DEF ChronicleInv

-----------------------------------------------------------------------------
LEMMA MemoryBegins == MInit => MemoryInv
<1> SUFFICES ASSUME MInit PROVE MemoryInv
  OBVIOUS
<1> USE DEF MInit
<1>1. MemServing
  BY FreeFits, MemoryAssumption DEF MemServing
<1>2. Never \in Counts
  BY DEF Never, Counts
<1>3. FactsInv
  BY MemoryAssumption DEF FactsInv
<1>4. ScoresInv
  BY <1>2 DEF ScoresInv
<1>5. SlotInv
  BY DEF SlotInv, Gone
<1>6. ReportsInv
  BY DEF ReportsInv
<1>7. GoalsInv /\ ChronicleInv
  BY DEF GoalsInv, ChronicleInv
<1> QED
  BY <1>1, <1>3, <1>4, <1>5, <1>6, <1>7 DEF MemoryInv

LEMMA RememberKeeps ==
  ASSUME MemoryInv, NEW t \in Thread, NEW k \in FactTables, Remember(t, k)
  PROVE  MemoryInv'
<1> USE DEF MemoryInv
<1>1. Ask(t, "find_row", k, <<>>) /\ UNCHANGED mdata
  BY DEF Remember
<1>2. Fits("find_row", [id |-> mserved + 1, on |-> k, held |-> <<>>])
  BY MemTopicsApart DEF Fits
<1>3. "find_row" \in MemStep /\ <<>> \in InHand
  BY DEF MemStep, InHand
<1>4. /\ MemServing' /\ MemMoves(t) /\ mpc[t] = "idle" /\ mpc'[t] = "find_row"
  BY <1>1, <1>2, <1>3, AskedKeeps
<1> QED
  BY <1>1, <1>4, FactsKept, ScoresKept, SlotKept, ReportsKept, GoalsKept,
     ChronicleKept DEF mdata

LEMMA FindRowKeeps ==
  ASSUME MemoryInv, NEW t \in Thread, FindRow(t)
  PROVE  MemoryInv'
<1> USE DEF MemoryInv
<1> DEFINE k == mreq[t].on
<1>1. mpc[t] = "find_row" /\ UNCHANGED mdata
  BY DEF FindRow
<1>2. k \in FactTables /\ mreq[t].id \in 1 .. mserved /\ mreq[t] \in MemRequest
  BY <1>1 DEF MemServing, Fits
<1>3. CASE Tell(t)
  <2>1. MemServing' /\ MemMoves(t) /\ mpc'[t] = "idle"
    BY <1>3, ToldKeeps
  <2> QED
    BY <1>1, <2>1, FactsKept, ScoresKept, SlotKept, ReportsKept, GoalsKept,
       ChronicleKept DEF mdata
<1>4. CASE /\ mreq' = [mreq EXCEPT ![t].held = mrow[mreq[t].on]]
           /\ Proceed(t, "put_row")
  <2>1. PICK new : new = [mreq[t] EXCEPT !.held = mrow[k]]
    OBVIOUS
  <2>2. mrow[k] \in Seq(1 .. MaxMemory) /\ mrow[k] \in InHand
    <3>1. mrow[k] \in Seq(1 .. MaxMemory)
      BY <1>2 DEF FactsInv
    <3> QED
      BY <3>1, MemoryAssumption DEF InHand
  <2>3. /\ new \in MemRequest /\ new.on = k /\ new.id = mreq[t].id
        /\ new.held = mrow[k]
    BY <1>2, <2>1, <2>2 DEF MemRequest
  <2>4. /\ mreq' = [mreq EXCEPT ![t] = new]
        /\ mpc' = [mpc EXCEPT ![t] = "put_row"]
        /\ UNCHANGED <<mserved, mclock, mcrossed>>
    BY <1>4, <2>1 DEF Proceed
  <2>5. /\ mpc'[t] = "put_row" /\ mreq'[t] = new
        /\ \A u \in Thread \ {t} : mpc'[u] = mpc[u] /\ mreq'[u] = mreq[u]
    BY <2>4 DEF MemServing
  <2>6. /\ mpc' \in [Thread -> MemStep \cup {"idle"}]
        /\ mreq' \in [Thread -> MemRequest]
    BY <2>3, <2>4 DEF MemServing, MemStep
  <2>7. Fits("put_row", new)
    BY <1>2, <2>2, <2>3, MemTopicsApart DEF Fits
  <2>8. MemServing'
    <3>1. ASSUME NEW u \in Thread
          PROVE  IF mpc'[u] = "idle" THEN mreq'[u] = Free
                 ELSE mreq'[u].id \in 1 .. mserved' /\ Fits(mpc'[u], mreq'[u])
      BY <1>2, <2>3, <2>4, <2>5, <2>7 DEF MemServing
    <3>2. \A u \in Thread : /\ mreq'[u].on = mreq[u].on
                            /\ mpc'[u] # "idle" => mpc[u] # "idle"
      BY <1>1, <2>3, <2>5
    <3>3. ASSUME NEW u \in Thread, NEW v \in Thread, u # v, mpc'[u] # "idle",
                 mreq'[u].on = mreq'[v].on
          PROVE  mreq'[u].on \in mcrossed'
      BY <2>4, <3>2, <3>3 DEF MemServing
    <3> QED
      BY <2>4, <2>6, <3>1, <3>3 DEF MemServing
  <2>9. MemMoves(t)
    BY <2>4, <2>5 DEF MemMoves, MemServing
  <2>10. FactsInv'
    BY <1>1, <2>3, <2>4, <2>5 DEF FactsInv, mdata
  <2> QED
    BY <1>1, <2>5, <2>8, <2>9, <2>10, ScoresKept, SlotKept, ReportsKept,
       GoalsKept, ChronicleKept DEF mdata
<1> QED
  BY <1>3, <1>4 DEF FindRow

LEMMA PutRowKeeps ==
  ASSUME MemoryInv, NEW t \in Thread, PutRow(t)
  PROVE  MemoryInv'
<1> USE DEF MemoryInv
<1>1. PICK k : k = mreq[t].on
  OBVIOUS
<1>2. PICK id : id = mreq[t].id
  OBVIOUS
<1>3. /\ mpc[t] = "put_row" /\ Tell(t)
      /\ mrow' = [mrow EXCEPT ![k] =
           IF mreq[t].held # <<>> THEN [mrow[k] EXCEPT ![1] = id]
                                  ELSE Append(mrow[k], id)]
      /\ mlast' = [mlast EXCEPT ![k] = id]
      /\ UNCHANGED <<mgoal, mepisode, mreport, mlesson, mscore, mcalib, mctx,
                     mset, mtried>>
  BY <1>1, <1>2 DEF PutRow
<1>4. k \in FactTables /\ id \in 1 .. MaxMemory
  <2>1. k \in FactTables /\ id \in 1 .. mserved /\ mserved \in 0 .. MaxMemory
    BY <1>1, <1>2, <1>3 DEF MemServing, Fits
  <2> QED
    BY <2>1, MemoryAssumption
<1>5. MemServing' /\ MemMoves(t) /\ mpc'[t] = "idle"
  BY <1>3, ToldKeeps
<1>6. PICK new : new = IF mreq[t].held # <<>> THEN [mrow[k] EXCEPT ![1] = id]
                                              ELSE Append(mrow[k], id)
  OBVIOUS
<1>7. new \in Seq(1 .. MaxMemory)
  <2>1. mrow[k] \in Seq(1 .. MaxMemory)
    BY <1>4 DEF FactsInv
  <2>2. [mrow[k] EXCEPT ![1] = id] \in Seq(1 .. MaxMemory)
    <3>1. PICK n \in Nat : n = Len(mrow[k])
      BY <2>1, LenProperties
    <3>2. mrow[k] \in [1 .. n -> 1 .. MaxMemory]
      BY <2>1, <3>1, LenProperties
    <3>3. PICK s \in [1 .. n -> 1 .. MaxMemory] : s = [mrow[k] EXCEPT ![1] = id]
      BY <1>4, <3>2
    <3>4. s \in Seq(1 .. MaxMemory)
      BY <3>1, SeqDef, Zenon
    <3> QED
      BY <3>3, <3>4
  <2>3. Append(mrow[k], id) \in Seq(1 .. MaxMemory)
    BY <1>4, <2>1
  <2> QED
    BY <1>6, <2>2, <2>3
<1>8. k \notin mcrossed => new = <<id>>
  <2> SUFFICES ASSUME k \notin mcrossed PROVE new = <<id>>
    OBVIOUS
  <2>1. /\ mreq[t].held = mrow[k]
        /\ mrow[k] = IF mlast[k] = 0 THEN <<>> ELSE <<mlast[k]>>
    BY <1>1, <1>3, <1>4 DEF FactsInv
  <2>2. CASE mlast[k] = 0
    BY <1>6, <2>1, <2>2
  <2>3. CASE mlast[k] # 0
    <3>1. mrow[k] = <<mlast[k]>> /\ mrow[k] # <<>>
      BY <2>1, <2>3
    <3>2. new = [<<mlast[k]>> EXCEPT ![1] = id]
      BY <1>6, <2>1, <3>1
    <3> QED
      BY <3>2
  <2> QED
    BY <2>2, <2>3
<1>9. /\ mrow'[k] = new /\ mlast'[k] = id
      /\ \A j \in FactTables \ {k} : mrow'[j] = mrow[j] /\ mlast'[j] = mlast[j]
      /\ mrow' \in [FactTables -> Seq(1 .. MaxMemory)]
      /\ mlast' \in [FactTables -> 0 .. MaxMemory]
  BY <1>3, <1>4, <1>6, <1>7 DEF FactsInv
<1>10. FactsInv'
  <2>1. ASSUME NEW j \in FactTables, j \notin mcrossed'
        PROVE  mrow'[j] = IF mlast'[j] = 0 THEN <<>> ELSE <<mlast'[j]>>
    BY <1>4, <1>5, <1>8, <1>9, <2>1 DEF FactsInv, MemMoves
  <2>2. ASSUME NEW j \in FactTables, j \notin mcrossed', NEW u \in Thread,
               mpc'[u] = "put_row", mreq'[u].on = j
        PROVE  mreq'[u].held = mrow'[j]
    <3>1. u # t /\ mpc[u] = "put_row" /\ mreq'[u] = mreq[u] /\ j \notin mcrossed
      BY <1>5, <2>2 DEF MemMoves
    <3>2. j # k
      BY <1>1, <2>2, <3>1 DEF MemServing
    <3> QED
      BY <1>9, <2>2, <3>1, <3>2 DEF FactsInv
  <2> QED
    BY <1>9, <2>1, <2>2 DEF FactsInv
<1> QED
  BY <1>3, <1>5, <1>10, ScoresKept, SlotKept, ReportsKept, GoalsKept,
     ChronicleKept

LEMMA SaveGoalKeeps ==
  ASSUME MemoryInv, NEW t \in Thread, NEW g \in GoalId, SaveGoalRecord(t, g)
  PROVE  MemoryInv'
<1> USE DEF MemoryInv
<1>1. PICK id \in {mgoal[i].id : i \in DOMAIN mgoal} \cup {mserved + 1} :
        /\ Ask(t, "tell", <<"goal", g>>, <<>>)
        /\ LET row == [id |-> id, goal |-> g, value |-> mserved + 1]
               old == {i \in DOMAIN mgoal : mgoal[i].id = id}
           IN  mgoal' = IF old = {} THEN Append(mgoal, row)
                        ELSE [i \in DOMAIN mgoal |->
                                IF i \in old THEN row ELSE mgoal[i]]
  BY DEF SaveGoalRecord
<1>2. UNCHANGED <<mrow, mepisode, mreport, mlesson, mscore, mcalib, mctx, mset,
                  mlast, mtried>>
  BY DEF SaveGoalRecord
<1>3. "tell" \in MemStep /\ <<>> \in InHand
      /\ Fits("tell", [id |-> mserved + 1, on |-> <<"goal", g>>, held |-> <<>>])
  BY MemTopicsApart DEF MemStep, InHand, Fits
<1>4. /\ MemServing' /\ MemMoves(t) /\ mpc[t] = "idle" /\ mpc'[t] = "tell"
      /\ mserved + 1 \in 1 .. MaxMemory
  BY <1>1, <1>3, AskedKeeps
<1>5. PICK row : row = [id |-> id, goal |-> g, value |-> mserved + 1]
  OBVIOUS
<1>6. PICK n \in Nat : n = Len(mgoal) /\ DOMAIN mgoal = 1 .. n
  BY DEF GoalsInv
<1>7. \A i \in 1 .. n : mgoal[i] \in GoalRow
  BY <1>6, ElementOfSeq DEF GoalsInv
<1>8. row \in GoalRow /\ row.id = id
  <2>1. id \in Nat
    <3>1. mserved + 1 \in Nat
      BY <1>4, MemoryAssumption
    <3> QED
      BY <1>6, <1>7, <3>1 DEF GoalRow
  <2> QED
    BY <1>4, <1>5, <2>1 DEF GoalRow
<1>9. GoalsInv'
  <2>1. CASE \A i \in DOMAIN mgoal : mgoal[i].id # id
    <3>1. {i \in DOMAIN mgoal : mgoal[i].id = id} = {}
      BY <2>1
    <3>2. mgoal' = Append(mgoal, row)
      BY <1>1, <1>5, <3>1
    <3>3. /\ mgoal' \in Seq(GoalRow) /\ DOMAIN mgoal' = 1 .. n + 1
          /\ mgoal'[n + 1] = row /\ \A i \in 1 .. n : mgoal'[i] = mgoal[i]
      BY <1>6, <1>8, <3>2 DEF GoalsInv
    <3>4. ASSUME NEW i \in 1 .. n + 1, NEW j \in 1 .. n + 1,
                 mgoal'[i].id = mgoal'[j].id
          PROVE  i = j
      <4>1. \A k \in 1 .. n + 1 : k \in 1 .. n \/ k = n + 1
        BY <1>6
      <4> QED
        BY <1>6, <1>8, <2>1, <3>3, <3>4, <4>1 DEF GoalsInv
    <3> QED
      BY <3>3, <3>4 DEF GoalsInv
  <2>2. CASE \E i \in DOMAIN mgoal : mgoal[i].id = id
    <3>1. {i \in DOMAIN mgoal : mgoal[i].id = id} # {}
      BY <2>2
    <3>2. mgoal' = [i \in 1 .. n |-> IF mgoal[i].id = id THEN row ELSE mgoal[i]]
      BY <1>1, <1>5, <1>6, <3>1
    <3>3. mgoal' \in [1 .. n -> GoalRow]
      BY <1>7, <1>8, <3>2
    <3>4. mgoal' \in Seq(GoalRow) /\ DOMAIN mgoal' = 1 .. n
      BY <1>6, <3>3
    <3>5. \A i \in 1 .. n : mgoal'[i].id = mgoal[i].id
      BY <1>8, <3>2
    <3> QED
      BY <1>6, <3>4, <3>5 DEF GoalsInv
  <2> QED
    BY <2>1, <2>2
<1> QED
  BY <1>2, <1>4, <1>9, FactsKept, ScoresKept, SlotKept, ReportsKept,
     ChronicleKept

LEMMA RecordEpisodeKeeps ==
  ASSUME MemoryInv, NEW t \in Thread, RecordEpisode(t)
  PROVE  MemoryInv'
<1> USE DEF MemoryInv
<1>1. PICK ok \in BOOLEAN, tools \in SUBSET Learner :
        /\ Ask(t, "tell", <<"episode", mserved + 1>>, <<>>)
        /\ mepisode' = Append(mepisode, [ok |-> ok, tools |-> tools])
  BY DEF RecordEpisode
<1>2. UNCHANGED <<mrow, mgoal, mreport, mlesson, mscore, mcalib, mctx, mset,
                  mlast, mtried>>
  BY DEF RecordEpisode
<1>3. "tell" \in MemStep /\ <<>> \in InHand
      /\ Fits("tell", [id |-> mserved + 1, on |-> <<"episode", mserved + 1>>,
                       held |-> <<>>])
  <2>1. mserved + 1 \in Nat
    BY MemoryAssumption DEF MemServing
  <2> QED
    BY <2>1, MemTopicsApart DEF MemStep, InHand, Fits
<1>4. /\ MemServing' /\ MemMoves(t) /\ mpc[t] = "idle" /\ mpc'[t] = "tell"
  BY <1>1, <1>3, AskedKeeps
<1>5. ChronicleInv'
  BY <1>1, <1>2 DEF ChronicleInv
<1> QED
  BY <1>2, <1>4, <1>5, FactsKept, ScoresKept, SlotKept, ReportsKept, GoalsKept

LEMMA ReflectKeeps ==
  ASSUME MemoryInv, NEW t \in Thread, NEW e \in Execution,
         ReflectOnExecution(t, e)
  PROVE  MemoryInv'
<1> USE DEF MemoryInv
<1>0. PICK failed \in 0 .. 1 :
        /\ Ask(t, "record_lesson", <<"execution", e>>, <<failed>>)
        /\ mreport' = [mreport EXCEPT ![e] =
             Append(mreport[e], [id |-> mserved + 1, failed |-> failed])]
  BY DEF ReflectOnExecution
<1>1. PICK report :
        /\ Ask(t, "record_lesson", <<"execution", e>>, <<failed>>)
        /\ report = [id |-> mserved + 1, failed |-> failed]
        /\ mreport' = [mreport EXCEPT ![e] = Append(mreport[e], report)]
  BY <1>0
<1>2. UNCHANGED <<mrow, mgoal, mepisode, mlesson, mscore, mcalib, mctx, mset,
                  mlast, mtried>>
  BY DEF ReflectOnExecution
<1>3. "record_lesson" \in MemStep /\ <<failed>> \in InHand
      /\ Fits("record_lesson", [id |-> mserved + 1, on |-> <<"execution", e>>,
                                held |-> <<failed>>])
  BY MemTopicsApart DEF MemStep, InHand, Fits
<1>4. /\ MemServing' /\ MemMoves(t) /\ mpc[t] = "idle"
      /\ mpc'[t] = "record_lesson" /\ mserved + 1 \in 1 .. MaxMemory
      /\ mreq'[t] = [id |-> mserved + 1, on |-> <<"execution", e>>,
                     held |-> <<failed>>]
  BY <1>1, <1>3, AskedKeeps
<1>5. /\ report \in Report
      /\ report.id = mserved + 1 /\ report.failed = failed
  <2>1. mserved + 1 \in Nat
    BY <1>4, MemoryAssumption
  <2> QED
    BY <1>1, <2>1 DEF Report
<1>6. Teaches(t, e, report)'
  BY <1>4, <1>5 DEF Teaches
<1>7. /\ mreport' \in [Execution -> Seq(Report)]
      /\ mreport'[e] = Append(mreport[e], report)
      /\ \A d \in Execution \ {e} : mreport'[d] = mreport[d]
  BY <1>1, <1>5 DEF ReportsInv
<1>8. \A d \in Execution : \A r : Taught(d, r) => Taught(d, r)'
  BY <1>2, <1>4 DEF Taught, Teaches, LessonOf, MemMoves
<1>9. ReportsInv'
  <2>1. SUFFICES ASSUME NEW d \in Execution,
                        <<"execution", d>> \notin mcrossed',
                        NEW i \in DOMAIN mreport'[d], NEW r, r = mreport'[d][i]
                 PROVE  Taught(d, r)'
    BY <1>7 DEF ReportsInv, Taught, Teaches, LessonOf
  <2>2. CASE i \in DOMAIN mreport[d] /\ r = mreport[d][i]
    <3>1. <<"execution", d>> \notin mcrossed
      BY <1>4, <2>1 DEF MemMoves
    <3>2. Taught(d, r)
      BY <2>2, <3>1 DEF ReportsInv
    <3> QED
      BY <1>8, <3>2
  <2>3. CASE d = e /\ r = report
    BY <1>6, <2>3 DEF Taught, Teaches
  <2>4. \/ i \in DOMAIN mreport[d] /\ r = mreport[d][i]
        \/ d = e /\ r = report
    <3>1. mreport[d] \in Seq(Report)
      BY DEF ReportsInv
    <3>2. CASE d = e
      <4>1. PICK s \in Seq(Report) : s = mreport[d]
        BY <3>1
      <4>2. i \in DOMAIN Append(s, report) /\ r = Append(s, report)[i]
        BY <1>7, <2>1, <3>2, <4>1
      <4>3. (i \in DOMAIN s /\ r = s[i]) \/ r = report
        BY <1>5, <4>2
      <4> QED
        BY <3>2, <4>1, <4>3
    <3>3. CASE d # e
      BY <1>7, <2>1, <3>3
    <3> QED
      BY <3>2, <3>3
  <2> QED
    BY <2>2, <2>3, <2>4
<1> QED
  BY <1>2, <1>4, <1>9, FactsKept, ScoresKept, SlotKept, GoalsKept, ChronicleKept

LEMMA RecordLessonKeeps ==
  ASSUME MemoryInv, NEW t \in Thread, RecordLesson(t)
  PROVE  MemoryInv'
<1> USE DEF MemoryInv
<1>1. /\ mpc[t] = "record_lesson" /\ Tell(t)
      /\ mlesson' = mlesson \cup {[of |-> mreq[t].on[2], id |-> mreq[t].id,
                                   failed |-> mreq[t].held[1]]}
      /\ UNCHANGED <<mrow, mgoal, mepisode, mreport, mscore, mcalib, mctx, mset,
                     mlast, mtried>>
  BY DEF RecordLesson
<1>2. MemServing' /\ MemMoves(t) /\ mpc'[t] = "idle"
  BY <1>1, ToldKeeps
<1>3. \A d \in Execution : \A r :
        Teaches(t, d, r) => LessonOf(d, r) \in mlesson'
  BY <1>1 DEF Teaches, LessonOf
<1>4. \A d \in Execution, u \in Thread \ {t} : \A r :
        Teaches(u, d, r) => Teaches(u, d, r)'
  BY <1>2 DEF Teaches, MemMoves
<1>5. \A d \in Execution : \A r : Taught(d, r) => Taught(d, r)'
  <2> SUFFICES ASSUME NEW d \in Execution, NEW r, Taught(d, r)
               PROVE  Taught(d, r)'
    OBVIOUS
  <2>1. CASE LessonOf(d, r) \in mlesson
    BY <1>1, <2>1 DEF Taught, LessonOf
  <2>2. CASE \E u \in Thread : Teaches(u, d, r)
    <3>1. LessonOf(d, r) \in mlesson' \/ \E u \in Thread : Teaches(u, d, r)'
      <4>1. PICK u \in Thread : Teaches(u, d, r)
        BY <2>2
      <4>2. CASE u = t
        BY <1>3, <4>1, <4>2
      <4>3. CASE u # t
        BY <1>4, <4>1, <4>3
      <4> QED
        BY <4>2, <4>3
    <3> QED
      BY <3>1 DEF Taught, LessonOf
  <2> QED
    BY <2>1, <2>2 DEF Taught
<1>6. ReportsInv'
  <2>1. SUFFICES ASSUME NEW d \in Execution,
                        <<"execution", d>> \notin mcrossed',
                        NEW i \in DOMAIN mreport[d], NEW r, r = mreport[d][i]
                 PROVE  Taught(d, r)'
    BY <1>1 DEF ReportsInv, Taught, Teaches, LessonOf
  <2>2. <<"execution", d>> \notin mcrossed
    BY <1>2, <2>1 DEF MemMoves
  <2>3. Taught(d, r)
    BY <2>1, <2>2 DEF ReportsInv
  <2> QED
    BY <1>5, <2>3
<1> QED
  BY <1>1, <1>2, <1>6, FactsKept, ScoresKept, SlotKept, GoalsKept, ChronicleKept

LEMMA ReadScoreKeeps ==
  ASSUME MemoryInv, NEW t \in Thread, NEW x \in Learner, ReadScore(t, x)
  PROVE  MemoryInv'
<1> USE DEF MemoryInv
<1>1. PICK ok \in BOOLEAN :
        Ask(t, "save_score", <<"score", x>>, <<mscore[x], ok>>)
  BY DEF ReadScore
<1>2. UNCHANGED mdata
  BY DEF ReadScore
<1>3. mscore[x] \in Counts
  BY DEF ScoresInv
<1>4. /\ <<mscore[x], ok>> \in Counts \X BOOLEAN
      /\ <<mscore[x], ok>>[1] = mscore[x]
  BY <1>3
<1>5. PICK held : held = <<mscore[x], ok>>
  OBVIOUS
<1>6. "save_score" \in MemStep /\ held \in InHand
      /\ Fits("save_score", [id |-> mserved + 1, on |-> <<"score", x>>,
                             held |-> held])
  BY <1>4, <1>5, MemTopicsApart DEF MemStep, InHand, Fits
<1>7. /\ MemServing' /\ MemMoves(t) /\ mpc[t] = "idle"
      /\ mpc'[t] = "save_score"
      /\ mreq'[t] = [id |-> mserved + 1, on |-> <<"score", x>>, held |-> held]
  BY <1>1, <1>5, <1>6, AskedKeeps
<1>8. mreq'[t].on = <<"score", x>> /\ mreq'[t].held[1] = mscore[x]
  BY <1>4, <1>5, <1>7
<1>9. ScoresInv'
  <2>1. ASSUME NEW y \in Learner, <<"score", y>> \notin mcrossed',
               NEW u \in Thread, mpc'[u] = "save_score",
               mreq'[u].on = <<"score", y>>
        PROVE  mreq'[u].held[1] = mscore[y]
    <3>1. CASE u = t
      <4>1. y = x
        BY <1>8, <2>1, <3>1
      <4> QED
        BY <1>8, <3>1, <4>1
    <3>2. CASE u # t
      BY <1>7, <2>1, <3>2 DEF ScoresInv, MemMoves
    <3> QED
      BY <3>1, <3>2
  <2> QED
    BY <1>2, <1>7, <2>1 DEF ScoresInv, MemMoves, mdata
<1> QED
  BY <1>2, <1>7, <1>9, FactsKept, SlotKept, ReportsKept, GoalsKept,
     ChronicleKept DEF mdata

LEMMA CountedCounts ==
  ASSUME NEW row \in Counts, NEW ok \in BOOLEAN
  PROVE  Counted(row, ok) \in Counts
BY DEF Counted, Counts

LEMMA SaveScoreKeeps ==
  ASSUME MemoryInv, NEW t \in Thread, SaveScore(t)
  PROVE  MemoryInv'
<1> USE DEF MemoryInv
<1>1. mpc[t] = "save_score"
  BY DEF SaveScore
<1>2. mreq[t].on \in Scores /\ mreq[t].held \in Counts \X BOOLEAN
  BY <1>1 DEF MemServing, Fits
<1>3. PICK x \in Learner : mreq[t].on = <<"score", x>> /\ mreq[t].on[2] = x
  BY <1>2 DEF Scores
<1>4. PICK row \in Counts, ok \in BOOLEAN :
        mreq[t].held[1] = row /\ mreq[t].held[2] = ok
  BY <1>2
<1>5. /\ mscore' = [mscore EXCEPT ![x] = Counted(row, ok)]
      /\ mtried' = [mtried EXCEPT ![x] = Counted(mtried[x], ok)]
      /\ Tell(t)
      /\ UNCHANGED <<mrow, mgoal, mepisode, mreport, mlesson, mcalib, mctx,
                     mset, mlast>>
  BY <1>3, <1>4 DEF SaveScore, Counted
<1>6. MemServing' /\ MemMoves(t) /\ mpc'[t] = "idle"
  BY <1>5, ToldKeeps
<1>7. /\ mscore \in [Learner -> Counts] /\ mtried \in [Learner -> Counts]
      /\ Counted(row, ok) \in Counts /\ Counted(mtried[x], ok) \in Counts
  BY CountedCounts DEF ScoresInv
<1>8. /\ mscore' \in [Learner -> Counts] /\ mtried' \in [Learner -> Counts]
      /\ mscore'[x] = Counted(row, ok) /\ mtried'[x] = Counted(mtried[x], ok)
      /\ \A y \in Learner \ {x} :
           mscore'[y] = mscore[y] /\ mtried'[y] = mtried[y]
  BY <1>5, <1>7
<1>9. <<"score", x>> \notin mcrossed => mscore'[x] = mtried'[x]
  BY <1>1, <1>3, <1>4, <1>8 DEF ScoresInv
<1>10. ScoresInv'
  <2>1. ASSUME NEW y \in Learner, <<"score", y>> \notin mcrossed',
               NEW u \in Thread, mpc'[u] = "save_score",
               mreq'[u].on = <<"score", y>>
        PROVE  mreq'[u].held[1] = mscore'[y]
    <3>1. u # t /\ mpc[u] = "save_score" /\ mreq'[u] = mreq[u]
          /\ <<"score", y>> \notin mcrossed
      BY <1>6, <2>1 DEF MemMoves
    <3>2. y # x
      BY <1>3, <2>1, <3>1 DEF MemServing
    <3> QED
      BY <1>8, <2>1, <3>1, <3>2 DEF ScoresInv
  <2>2. ASSUME NEW y \in Learner, <<"score", y>> \notin mcrossed'
        PROVE  mscore'[y] = mtried'[y]
    BY <1>6, <1>8, <1>9, <2>2 DEF ScoresInv, MemMoves
  <2> QED
    BY <1>8, <2>1, <2>2 DEF ScoresInv
<1> QED
  BY <1>1, <1>5, <1>6, <1>10, FactsKept, SlotKept, ReportsKept, GoalsKept,
     ChronicleKept

LEMMA HalfwayBounds ==
  \A a, b \in 0 .. 100 : Halfway(a, b) \in 0 .. 100
BY DEF Halfway

LEMMA FactorBounds ==
  \A a, b \in 0 .. 100 : Factor(a, b) \in 10 .. 100
<1> SUFFICES ASSUME NEW a \in 0 .. 100, NEW b \in 0 .. 100
             PROVE  Factor(a, b) \in 10 .. 100
  OBVIOUS
<1>1. PICK ratio : ratio = IF a > 0 THEN (100 * b) \div a ELSE 100
  OBVIOUS
<1>2. ratio \in Int
  <2>1. CASE a > 0
    <3>1. 100 * b \in Int /\ a \in Nat \ {0}
      BY <2>1
    <3>2. (100 * b) \div a \in Int
      BY <3>1
    <3> QED
      BY <1>1, <2>1, <3>2
  <2>2. CASE ~ (a > 0)
    BY <1>1, <2>2
  <2> QED
    BY <2>1, <2>2
<1>3. Factor(a, b) = IF ratio < 10 THEN 10
                     ELSE IF ratio > 100 THEN 100 ELSE ratio
  BY <1>1 DEF Factor
<1> QED
  BY <1>2, <1>3

LEMMA ReadCalibrationKeeps ==
  ASSUME MemoryInv, NEW t \in Thread, ReadCalibration(t)
  PROVE  MemoryInv'
<1> USE DEF MemoryInv
<1>0. PICK predicted \in {0, 90}, actual \in {0, 90} :
        /\ Ask(t, "save_calibration", <<"calibration">>,
               <<IF mcalib = <<>> THEN predicted
                 ELSE Halfway(mcalib[1], predicted),
                 IF mcalib = <<>> THEN actual ELSE Halfway(mcalib[2], actual)>>)
        /\ UNCHANGED mdata
  BY DEF ReadCalibration
<1>1. PICK one, two :
        /\ Ask(t, "save_calibration", <<"calibration">>, <<one, two>>)
        /\ one = IF mcalib = <<>> THEN predicted
                 ELSE Halfway(mcalib[1], predicted)
        /\ two = IF mcalib = <<>> THEN actual ELSE Halfway(mcalib[2], actual)
        /\ UNCHANGED mdata
  BY <1>0
<1>2. one \in 0 .. 100 /\ two \in 0 .. 100
  <2>1. CASE mcalib = <<>>
    BY <1>1, <2>1
  <2>2. CASE mcalib # <<>>
    <3>1. mcalib[1] \in 0 .. 100 /\ mcalib[2] \in 0 .. 100
      BY <2>2 DEF ChronicleInv
    <3>2. predicted \in 0 .. 100 /\ actual \in 0 .. 100
      OBVIOUS
    <3> QED
      BY <1>1, <2>2, <3>1, <3>2, HalfwayBounds, ZenonT(40)
  <2> QED
    BY <2>1, <2>2
<1>3. PICK held : held = <<one, two>>
  OBVIOUS
<1>4. "save_calibration" \in MemStep /\ held \in InHand
      /\ held \in (0 .. 100) \X (0 .. 100)
  BY <1>2, <1>3 DEF MemStep, InHand
<1>5. Fits("save_calibration", [id |-> mserved + 1, on |-> <<"calibration">>,
                                held |-> held])
  BY <1>4, MemTopicsApart DEF Fits
<1>6. /\ MemServing' /\ MemMoves(t) /\ mpc[t] = "idle"
      /\ mpc'[t] = "save_calibration"
  BY <1>1, <1>3, <1>4, <1>5, AskedKeeps
<1> QED
  BY <1>1, <1>6, FactsKept, ScoresKept, SlotKept, ReportsKept, GoalsKept,
     ChronicleKept DEF mdata

LEMMA SaveCalibrationKeeps ==
  ASSUME MemoryInv, NEW t \in Thread, SaveCalibration(t)
  PROVE  MemoryInv'
<1> USE DEF MemoryInv
<1>1. PICK h : h = mreq[t].held
  OBVIOUS
<1>2. /\ mpc[t] = "save_calibration" /\ Tell(t)
      /\ mcalib' = <<h[1], h[2], Factor(h[1], h[2])>>
      /\ UNCHANGED <<mrow, mgoal, mepisode, mreport, mlesson, mscore, mctx,
                     mset, mlast, mtried>>
  BY <1>1 DEF SaveCalibration
<1>3. h \in (0 .. 100) \X (0 .. 100)
  BY <1>1, <1>2 DEF MemServing, Fits
<1>4. /\ h[1] \in 0 .. 100 /\ h[2] \in 0 .. 100
      /\ Factor(h[1], h[2]) \in 10 .. 100
  BY <1>3, FactorBounds
<1>5. mcalib' \in (0 .. 100) \X (0 .. 100) \X (10 .. 100)
  BY <1>2, <1>4
<1>6. MemServing' /\ MemMoves(t) /\ mpc'[t] = "idle"
  BY <1>2, ToldKeeps
<1>7. ChronicleInv'
  BY <1>2, <1>5 DEF ChronicleInv
<1> QED
  BY <1>2, <1>6, <1>7, FactsKept, ScoresKept, SlotKept, ReportsKept, GoalsKept

LEMMA SetContextKeeps ==
  ASSUME MemoryInv, NEW t \in Thread, SetContext(t)
  PROVE  MemoryInv'
<1> USE DEF MemoryInv
<1>1. PICK ttl \in Ttl :
        /\ Ask(t, "tell", Slot, <<>>)
        /\ mctx' = <<mserved + 1, mclock + ttl>> /\ mset' = mctx'
        /\ UNCHANGED <<mrow, mgoal, mepisode, mreport, mlesson, mscore, mcalib,
                       mlast, mtried>>
  BY DEF SetContext
<1>2. "tell" \in MemStep /\ <<>> \in InHand
      /\ Fits("tell", [id |-> mserved + 1, on |-> Slot, held |-> <<>>])
  BY MemTopicsApart DEF MemStep, InHand, Fits
<1>3. /\ MemServing' /\ MemMoves(t) /\ mpc[t] = "idle" /\ mpc'[t] = "tell"
      /\ mserved' = mserved + 1 /\ mserved + 1 \in 1 .. MaxMemory
      /\ Slot \notin mcrossed' => \A u \in Thread : mreq[u].on # Slot
  BY <1>1, <1>2, AskedKeeps
<1>4. mctx' \in (1 .. mserved') \X Nat /\ mctx' \in Nat \X Nat /\ mctx' # <<>>
  <2>1. mserved + 1 \in 1 .. mserved + 1 /\ mclock + ttl \in Nat
        /\ mserved + 1 \in Nat
    BY <1>3, MemoryAssumption DEF MemServing
  <2> QED
    BY <1>1, <1>3, <2>1
<1>5. ASSUME Slot \notin mcrossed', NEW u \in Thread
      PROVE  mpc'[u] # "drop"
  <2>1. mpc[u] = "drop" => mreq[u].on = Slot
    BY DEF MemServing, Fits
  <2> QED
    BY <1>3, <1>5, <2>1 DEF MemMoves
<1>6. SlotInv'
  BY <1>1, <1>4, <1>5 DEF SlotInv
<1> QED
  BY <1>1, <1>3, <1>6, FactsKept, ScoresKept, ReportsKept, GoalsKept,
     ChronicleKept

LEMMA GetContextKeeps ==
  ASSUME MemoryInv, NEW t \in Thread, GetContext(t)
  PROVE  MemoryInv'
<1> USE DEF MemoryInv
<1>1. mctx # <<>> /\ UNCHANGED mdata
  BY DEF GetContext
<1>2. /\ mctx \in (1 .. mserved) \X Nat /\ mctx[1] \in Nat /\ mctx[2] \in Nat
      /\ mclock \in Nat
  <2>1. mctx \in (1 .. mserved) \X Nat
    BY <1>1 DEF SlotInv
  <2>2. mserved \in Nat /\ mclock \in Nat
    BY MemoryAssumption DEF MemServing
  <2> QED
    BY <2>1, <2>2
<1>3. CASE mclock > mctx[2]
  <2>1. Ask(t, "drop", Slot, <<>>)
    BY <1>3 DEF GetContext
  <2>2. "drop" \in MemStep /\ <<>> \in InHand
        /\ Fits("drop", [id |-> mserved + 1, on |-> Slot, held |-> <<>>])
    BY MemTopicsApart DEF MemStep, InHand, Fits
  <2>3. /\ MemServing' /\ MemMoves(t) /\ mpc[t] = "idle" /\ mpc'[t] = "drop"
        /\ mserved' = mserved + 1
    BY <2>1, <2>2, AskedKeeps
  <2>4. SlotInv'
    <3>1. Slot \notin mcrossed' => Slot \notin mcrossed /\ mctx = mset
      BY <1>1, <2>3 DEF SlotInv, MemMoves
    <3>2. Slot \notin mcrossed' => mset[2] < mclock
      BY <1>2, <1>3, <3>1
    <3>3. Slot \notin mcrossed' => Gone'
      BY <1>1, <2>3, <3>2 DEF Gone, MemMoves, mdata
    <3>4. mctx' = <<>> \/ mctx' \in (1 .. mserved') \X Nat
      <4>1. mserved \in Nat
        BY MemoryAssumption DEF MemServing
      <4> QED
        BY <1>1, <1>2, <2>3, <4>1 DEF mdata
    <3> QED
      BY <1>1, <3>1, <3>3, <3>4 DEF SlotInv, mdata
  <2> QED
    BY <1>1, <2>3, <2>4, FactsKept, ScoresKept, ReportsKept, GoalsKept,
       ChronicleKept DEF mdata
<1>4. CASE ~ (mclock > mctx[2])
  <2>1. PICK held : held = Append(mctx, mclock)
    OBVIOUS
  <2>2. Ask(t, "tell", Slot, held)
    BY <1>4, <2>1 DEF GetContext
  <2>3. /\ held \in Seq(Nat) /\ Len(held) = 3
        /\ held[2] = mctx[2] /\ held[3] = mclock
    <3>1. PICK a \in Nat, b \in Nat : mctx = <<a, b>>
      BY <1>2
    <3>2. /\ mctx \in Seq(Nat) /\ Len(mctx) = 2
          /\ mctx[2] \in Nat
      BY <3>1
    <3>3. mclock \in Nat
      BY <1>2
    <3>4. \A i \in 1 .. 2 : held[i] = mctx[i]
      BY <2>1, <3>2, <3>3, AppendProperties
    <3>5. /\ Append(mctx, mclock) \in Seq(Nat)
          /\ Len(Append(mctx, mclock)) = Len(mctx) + 1
          /\ Append(mctx, mclock)[Len(mctx) + 1] = mclock
      BY <3>2, <3>3, AppendProperties, ZenonT(40)
    <3>6. Len(mctx) + 1 = 3
      BY <3>2
    <3>7. held \in Seq(Nat)
      BY <2>1, <3>5, Zenon
    <3>8. Len(held) = 3
      BY <2>1, <3>5, <3>6, Zenon
    <3>9. held[3] = mclock
      BY <2>1, <3>5, <3>6, Zenon
    <3> QED
      BY <3>4, <3>7, <3>8, <3>9
  <2>4. held[2] >= held[3]
    BY <1>2, <1>4, <2>3
  <2>5. "tell" \in MemStep /\ held \in InHand
        /\ Fits("tell", [id |-> mserved + 1, on |-> Slot, held |-> held])
    BY <2>3, <2>4, MemTopicsApart DEF MemStep, InHand, Fits
  <2>6. /\ MemServing' /\ MemMoves(t) /\ mpc[t] = "idle" /\ mpc'[t] = "tell"
    BY <2>2, <2>5, AskedKeeps
  <2> QED
    BY <1>1, <2>6, FactsKept, ScoresKept, SlotKept, ReportsKept, GoalsKept,
       ChronicleKept DEF mdata
<1> QED
  BY <1>3, <1>4

LEMMA DropContextKeeps ==
  ASSUME MemoryInv, NEW t \in Thread, DropContext(t)
  PROVE  MemoryInv'
<1> USE DEF MemoryInv
<1>1. /\ mpc[t] = "drop" /\ mctx' = <<>> /\ Tell(t)
      /\ UNCHANGED <<mrow, mgoal, mepisode, mreport, mlesson, mscore, mcalib,
                     mset, mlast, mtried>>
  BY DEF DropContext
<1>2. MemServing' /\ MemMoves(t) /\ mpc'[t] = "idle"
  BY <1>1, ToldKeeps
<1>3. Slot \notin mcrossed' => Slot \notin mcrossed /\ Gone /\ Gone'
  BY <1>1, <1>2 DEF SlotInv, MemMoves, Gone
<1>4. SlotInv'
  BY <1>1, <1>3 DEF SlotInv
<1> QED
  BY <1>1, <1>2, <1>4, FactsKept, ScoresKept, ReportsKept, GoalsKept,
     ChronicleKept

LEMMA DeleteContextKeeps ==
  ASSUME MemoryInv, NEW t \in Thread, DeleteContext(t)
  PROVE  MemoryInv'
<1> USE DEF MemoryInv
<1>1. /\ Ask(t, "tell", Slot, <<>>) /\ mctx' = <<>> /\ mset' = <<>>
      /\ UNCHANGED <<mrow, mgoal, mepisode, mreport, mlesson, mscore, mcalib,
                     mlast, mtried>>
  BY DEF DeleteContext
<1>2. "tell" \in MemStep /\ <<>> \in InHand
      /\ Fits("tell", [id |-> mserved + 1, on |-> Slot, held |-> <<>>])
  BY MemTopicsApart DEF MemStep, InHand, Fits
<1>3. /\ MemServing' /\ MemMoves(t) /\ mpc[t] = "idle" /\ mpc'[t] = "tell"
  BY <1>1, <1>2, AskedKeeps
<1>4. SlotInv'
  BY <1>1 DEF SlotInv, Gone
<1> QED
  BY <1>1, <1>3, <1>4, FactsKept, ScoresKept, ReportsKept, GoalsKept,
     ChronicleKept

LEMMA TellOfKeeps ==
  ASSUME MemoryInv, NEW t \in Thread, TellOf(t)
  PROVE  MemoryInv'
<1> USE DEF MemoryInv
<1>1. mpc[t] = "tell" /\ Tell(t) /\ UNCHANGED mdata
  BY DEF TellOf
<1>2. MemServing' /\ MemMoves(t) /\ mpc'[t] = "idle"
  BY <1>1, ToldKeeps
<1> QED
  BY <1>1, <1>2, FactsKept, ScoresKept, SlotKept, ReportsKept, GoalsKept,
     ChronicleKept DEF mdata

LEMMA LoseKeeps ==
  ASSUME MemoryInv, NEW t \in Thread, LoseMemoryCall(t)
  PROVE  MemoryInv'
<1> USE DEF MemoryInv
<1>1. /\ mcrossed' = mcrossed \cup {mreq[t].on} /\ UNCHANGED mdata
      /\ mpc' = [mpc EXCEPT ![t] = "idle"] /\ mreq' = [mreq EXCEPT ![t] = Free]
      /\ UNCHANGED <<mserved, mclock>>
  BY DEF LoseMemoryCall
<1>2. MemServing' /\ MemMoves(t) /\ mpc'[t] = "idle"
  BY <1>1, ReleaseKeeps
<1>3. ReportsInv'
  <2>1. SUFFICES ASSUME NEW d \in Execution,
                        <<"execution", d>> \notin mcrossed',
                        NEW i \in DOMAIN mreport[d], NEW r, r = mreport[d][i]
                 PROVE  Taught(d, r)'
    BY <1>1 DEF ReportsInv, Taught, Teaches, LessonOf, mdata
  <2>2. Taught(d, r) /\ ~ Teaches(t, d, r)
    <3>1. <<"execution", d>> \notin mcrossed /\ mreq[t].on # <<"execution", d>>
      BY <1>1, <2>1
    <3> QED
      BY <2>1, <3>1 DEF ReportsInv, Teaches
  <2>3. ASSUME NEW u \in Thread, Teaches(u, d, r)
        PROVE  Teaches(u, d, r)'
    BY <1>2, <2>2, <2>3 DEF Teaches, MemMoves
  <2> QED
    BY <1>1, <2>2, <2>3 DEF Taught, LessonOf, mdata
<1> QED
  BY <1>1, <1>2, <1>3, FactsKept, ScoresKept, SlotKept, GoalsKept,
     ChronicleKept DEF mdata

LEMMA PassTimeKeeps ==
  ASSUME MemoryInv, PassTime
  PROVE  MemoryInv'
<1> USE DEF MemoryInv
<1>1. /\ mclock < MaxClock /\ mclock' = mclock + 1
      /\ UNCHANGED <<mserved, mdata, mcrossed, mpc, mreq>>
  BY DEF PassTime
<1>2. mclock' \in 0 .. MaxClock /\ mclock \in Nat
  BY <1>1, MemoryAssumption DEF MemServing
<1>3. MemServing'
  BY <1>1, <1>2 DEF MemServing
<1>4. SlotInv'
  <2>1. Gone => Gone'
    <3>1. mset # <<>> => mset[2] \in Nat
      BY DEF SlotInv
    <3> QED
      BY <1>1, <1>2, <3>1 DEF Gone, mdata
  <2> QED
    BY <1>1, <2>1 DEF SlotInv, mdata
<1>5. FactsInv' /\ ScoresInv'
  BY <1>1 DEF FactsInv, ScoresInv, mdata
<1>6. ReportsInv'
  BY <1>1 DEF ReportsInv, Taught, Teaches, LessonOf, mdata
<1>7. GoalsInv' /\ ChronicleInv'
  BY <1>1, GoalsKept, ChronicleKept DEF mdata
<1> QED
  BY <1>3, <1>4, <1>5, <1>6, <1>7

LEMMA MemoryStep == MemoryInv /\ [MNext]_mvars => MemoryInv'
<1> SUFFICES ASSUME MemoryInv, [MNext]_mvars PROVE MemoryInv'
  OBVIOUS
<1>1. CASE PassTime
  BY <1>1, PassTimeKeeps
<1>2. ASSUME NEW t \in Thread,
             \/ \E k \in FactTables : Remember(t, k)
             \/ FindRow(t) \/ PutRow(t)
             \/ \E g \in GoalId : SaveGoalRecord(t, g)
             \/ RecordEpisode(t)
             \/ \E e \in Execution : ReflectOnExecution(t, e)
             \/ RecordLesson(t)
      PROVE  MemoryInv'
  BY <1>2, RememberKeeps, FindRowKeeps, PutRowKeeps, SaveGoalKeeps,
     RecordEpisodeKeeps, ReflectKeeps, RecordLessonKeeps
<1>3. ASSUME NEW t \in Thread,
             \/ \E x \in Learner : ReadScore(t, x)
             \/ SaveScore(t) \/ ReadCalibration(t) \/ SaveCalibration(t)
             \/ SetContext(t) \/ GetContext(t) \/ DropContext(t)
             \/ DeleteContext(t) \/ TellOf(t) \/ LoseMemoryCall(t)
      PROVE  MemoryInv'
  BY <1>3, ReadScoreKeeps, SaveScoreKeeps, ReadCalibrationKeeps,
     SaveCalibrationKeeps, SetContextKeeps, GetContextKeeps, DropContextKeeps,
     DeleteContextKeeps, TellOfKeeps, LoseKeeps
<1>4. CASE UNCHANGED mvars
  <2> USE <1>4 DEF MemoryInv, mvars, mdata
  <2>1. MemServing'
    BY DEF MemServing
  <2>2. FactsInv' /\ ScoresInv'
    BY DEF FactsInv, ScoresInv
  <2>3. SlotInv'
    BY DEF SlotInv, Gone
  <2>4. ReportsInv'
    BY DEF ReportsInv, Taught, Teaches, LessonOf
  <2>5. GoalsInv' /\ ChronicleInv'
    BY DEF GoalsInv, ChronicleInv
  <2> QED
    BY <2>1, <2>2, <2>3, <2>4, <2>5
<1> QED
  BY <1>1, <1>2, <1>3, <1>4 DEF MNext

-----------------------------------------------------------------------------
LEMMA GoalStateType ==
  ASSUME GoalsInv, NEW g \in GoalId
  PROVE  GoalState(g) \in 0 .. MaxMemory
<1>1. PICK rows : rows = {i \in DOMAIN mgoal : mgoal[i].goal = g}
  OBVIOUS
<1>2. PICK n \in Nat : n = Len(mgoal) /\ DOMAIN mgoal = 1 .. n
  BY DEF GoalsInv
<1>3. \A i \in 1 .. n : mgoal[i].value \in 1 .. MaxMemory
  <2>1. \A i \in 1 .. n : mgoal[i] \in GoalRow
    BY <1>2, ElementOfSeq DEF GoalsInv
  <2> QED
    BY <2>1 DEF GoalRow
<1>4. GoalState(g) = IF rows = {} THEN 0 ELSE mgoal[Min(rows)].value
  BY <1>1 DEF GoalState
<1>5. CASE rows = {}
  BY <1>4, <1>5, MemoryAssumption
<1>6. CASE rows # {}
  <2>1. rows \subseteq Nat /\ rows \subseteq 1 .. n
    BY <1>1, <1>2
  <2>2. \E x \in rows : \A y \in rows : x <= y
    BY <1>6, <2>1, SmallestNumber
  <2>3. Min(rows) \in rows
    BY <2>2 DEF Min
  <2> QED
    <3>1. Min(rows) \in 1 .. n
      BY <2>1, <2>3
    <3>2. mgoal[Min(rows)].value \in 1 .. MaxMemory
      BY <1>3, <3>1
    <3> QED
      BY <1>4, <1>6, <3>2, MemoryAssumption
<1> QED
  BY <1>5, <1>6

LEMMA MemoryTyped == MemoryInv => MemTypeOK
<1> SUFFICES ASSUME MemoryInv PROVE MemTypeOK
  OBVIOUS
<1> USE DEF MemoryInv
<1>1. mserved \in 0 .. MaxMemory /\ mclock \in 0 .. MaxClock
  BY DEF MemServing
<1>2. \A k \in FactTables : mrow[k] \in Seq(1 .. MaxMemory)
  BY DEF FactsInv
<1>3. \A i, j \in DOMAIN mgoal : mgoal[i].id = mgoal[j].id => i = j
  BY DEF GoalsInv
<1>4. \A g \in GoalId : GoalState(g) \in 0 .. MaxMemory
  BY GoalStateType
<1>5. \A x \in Learner : mscore[x].successes \in 0 .. mscore[x].attempts
  BY DEF ScoresInv, Counts
<1>6. mcalib # <<>> => /\ {mcalib[1], mcalib[2]} \subseteq 0 .. 100
                       /\ mcalib[3] \in 10 .. 100
  BY DEF ChronicleInv
<1>7. mctx # <<>> => mctx[1] \in 1 .. mserved
  BY DEF SlotInv
<1>8. mpc \in [Thread -> {"idle", "find_row", "put_row", "tell", "drop",
                "record_lesson", "save_score", "save_calibration"}]
  <2>1. MemStep \cup {"idle"} = {"idle", "find_row", "put_row", "tell", "drop",
                "record_lesson", "save_score", "save_calibration"}
    BY DEF MemStep
  <2> QED
    BY <2>1 DEF MemServing
<1> QED
  BY <1>1, <1>2, <1>3, <1>4, <1>5, <1>6, <1>7, <1>8 DEF MemTypeOK

LEMMA MemoryKept == MemoryInv => MemoryKeepsTheLast
<1> SUFFICES ASSUME MemoryInv PROVE MemoryKeepsTheLast
  OBVIOUS
<1> USE DEF MemoryInv
<1>1. \A k \in FactTables : k \notin mcrossed =>
        mrow[k] = IF mlast[k] = 0 THEN <<>> ELSE <<mlast[k]>>
  BY DEF FactsInv
<1>2. Slot \notin mcrossed =>
        IF mctx = <<>> THEN mset = <<>> \/ mset[2] < mclock ELSE mctx = mset
  BY DEF SlotInv, Gone
<1>3. ASSUME NEW t \in Thread, mreq[t].on = Slot, Len(mreq[t].held) = 3
      PROVE  mreq[t].held[2] >= mreq[t].held[3]
  <2>1. mpc[t] # "idle"
    <3>1. mpc[t] = "idle" => mreq[t] = Free
      BY DEF MemServing
    <3> QED
      BY <1>3, <3>1, FreeFits, MemTopicsApart
  <2> QED
    BY <1>3, <2>1 DEF MemServing, Fits
<1> QED
  BY <1>1, <1>2, <1>3 DEF MemoryKeepsTheLast

(* The rate is whole only without a failure.                               *)
LEMMA NoLoss ==
  ASSUME NEW a \in Nat, NEW n \in Nat \ {0}, a <= n, (100 * a) \div n = 100
  PROVE  a = n
OBVIOUS

LEMMA FailuresCounted ==
  ASSUME ChronicleInv, NEW x
  PROVE  /\ Failures(x) \in Nat
         /\ Failures(x) > 0 => \E i \in DOMAIN mepisode : ~ mepisode[i].ok
<1>1. PICK n \in Nat : n = Len(mepisode) /\ DOMAIN mepisode = 1 .. n
  BY DEF ChronicleInv
<1>2. PICK S : S = {i \in DOMAIN mepisode :
                      ~ mepisode[i].ok /\ x \in mepisode[i].tools}
  OBVIOUS
<1>3. IsFiniteSet(S)
  <2>1. IsFiniteSet(1 .. n) /\ S \subseteq 1 .. n
    BY <1>1, <1>2, FS_Interval
  <2> QED
    BY <2>1, FS_Subset
<1>4. Failures(x) = Cardinality(S) /\ Cardinality(S) \in Nat
  BY <1>2, <1>3, FS_CardinalityType DEF Failures
<1>5. Cardinality(S) > 0 => S # {}
  BY FS_EmptySet
<1> QED
  BY <1>2, <1>4, <1>5

LEMMA FlawlessAtFullRate ==
  ASSUME ChronicleInv, SuccessRate = 100
  PROVE  \A i \in DOMAIN mepisode : mepisode[i].ok
<1>1. PICK n \in Nat : n = Len(mepisode) /\ DOMAIN mepisode = 1 .. n
  BY DEF ChronicleInv
<1>2. PICK S : S = {i \in DOMAIN mepisode : mepisode[i].ok}
  OBVIOUS
<1>3. CASE n = 0
  BY <1>1, <1>3
<1>4. CASE n # 0
  <2>1. IsFiniteSet(1 .. n) /\ Cardinality(1 .. n) = n
    BY <1>4, FS_Interval
  <2>2. S \subseteq 1 .. n
    BY <1>1, <1>2
  <2>3. /\ IsFiniteSet(S) /\ Cardinality(S) <= n
        /\ Cardinality(S) = n => S = 1 .. n
    BY <2>1, <2>2, FS_Subset
  <2>4. Cardinality(S) \in Nat
    BY <2>3, FS_CardinalityType
  <2>5. mepisode # <<>>
    BY <1>1, <1>4
  <2>6. (100 * Cardinality(S)) \div n = 100
    BY <1>1, <1>2, <2>5 DEF SuccessRate
  <2>7. Cardinality(S) = n
    BY <1>4, <2>3, <2>4, <2>6, NoLoss
  <2> QED
    BY <1>1, <1>2, <2>3, <2>7
<1> QED
  BY <1>3, <1>4

LEMMA LearningHolds == MemoryInv => LearningFollowsAttempts
<1> SUFFICES ASSUME MemoryInv PROVE LearningFollowsAttempts
  OBVIOUS
<1> USE DEF MemoryInv
<1>1. \A x \in Learner : <<"score", x>> \notin mcrossed => mscore[x] = mtried[x]
  BY DEF ScoresInv
<1>2. ASSUME NEW e \in Execution, <<"execution", e>> \notin mcrossed,
             NEW i \in DOMAIN mreport[e]
      PROVE  \/ \E l \in mlesson : l = [of |-> e, id |-> mreport[e][i].id,
                                        failed |-> mreport[e][i].failed]
             \/ \E t \in Thread : mreq[t].id = mreport[e][i].id
  <2>1. Taught(e, mreport[e][i])
    BY <1>2 DEF ReportsInv
  <2>2. CASE LessonOf(e, mreport[e][i]) \in mlesson
    BY <2>2 DEF LessonOf
  <2>3. CASE \E t \in Thread : Teaches(t, e, mreport[e][i])
    BY <2>3 DEF Teaches
  <2> QED
    BY <2>1, <2>2, <2>3 DEF Taught
<1>3. ASSUME SuccessRate = 100
      PROVE  Bottlenecks = {} /\ Strategies = {<<"parallel_batching">>}
  <2>1. Bottlenecks = {}
    BY <1>3, FlawlessAtFullRate, FailuresCounted DEF Bottlenecks
  <2> QED
    BY <2>1 DEF Strategies
<1>4. ASSUME NEW x \in Bottlenecks
      PROVE  UpdatedWeight(x) \in 50 .. 90
  <2>1. Failures(x) \in Nat /\ Failures(x) > 0
    BY FailuresCounted DEF Bottlenecks
  <2> HIDE DEF Failures
  <2> QED
    BY <2>1 DEF UpdatedWeight
<1>5. ASSUME NEW x \in Learner, Failures(x) >= 2
      PROVE  /\ <<"parallel_batching">> \notin Strategies
             /\ <<"serialize_and_approve", x>> \in Strategies
  <2>1. x \in Bottlenecks
    BY <1>5, FailuresCounted DEF Bottlenecks
  <2>2. Strategies = {<<"serialize_and_approve", y>> :
                        y \in {z \in Bottlenecks : Failures(z) >= 2}}
    BY <1>5, <2>1 DEF Strategies
  <2>3. \A y : <<"parallel_batching">> # <<"serialize_and_approve", y>>
    OBVIOUS
  <2> QED
    BY <1>5, <2>1, <2>2, <2>3
<1> QED
  BY <1>1, <1>2, <1>3, <1>4, <1>5 DEF LearningFollowsAttempts

(* However requests overlap and calls are lost, where none met and none    *)
(* was lost the memory keeps what was saved last and the scores, reports   *)
(* and lessons follow what was tried; and what it sums up follows the      *)
(* episodes always.                                                        *)
THEOREM MemoryAndLearning == MSpec => []MemoryHolds
<1>1. MemoryInv => MemoryHolds
  BY MemoryTyped, MemoryKept, LearningHolds DEF MemoryHolds
<1> QED
  BY <1>1, MemoryBegins, MemoryStep, PTL DEF MSpec

-----------------------------------------------------------------------------
(* Autonomous goals.                                                       *)

Metric == {"organic_traffic", "keyword_gap", "backlink_count",
           "content_freshness", "organic_impressions", "health_score",
           "local_seo_score", "review_count", "token_cost", "conversions"}
PageKey == UNION {h.pages : h \in Happening}
EventKey == UNION {h.keys : h \in Happening}
GoalMade == [metric : Metric, priority : DOMAIN PriorityOrder, days : Nat,
             pages : SUBSET PageKey, event : Nat, recent : BOOLEAN]
NewGoal == {g \in GoalMade : g.recent}
EventStored == [id : Nat, category : DOMAIN CategoryImpact,
                ref : {h.ref : h \in Happening}, amount : Int, lost : Int,
                pages : SUBSET PageKey, keys : SUBSET EventKey,
                confidence : Int, severity : {"info", "warning", "critical"},
                at : Nat]
Observing ==
  /\ oevents \in Seq(EventStored) /\ Len(oevents) <= MaxObserved
  /\ ogoals \in Seq(GoalMade) /\ Len(ogoals) <= MaxMade
  /\ opc \in [Thread -> {"idle", "compare", "save"}]
  /\ oreq \in [Thread -> [event : Nat, left : Seq(NewGoal)]]
  /\ \A t \in Thread : oreq[t].event <= Len(oevents)

(* A goal about to be saved was compared with those of the day, or a       *)
(* request that is saving one like it met this one.                        *)
Saving(t, m) ==
  opc[t] = "save" /\ Head(oreq[t].left).metric = m
Compared ==
  \A t \in Thread :
    /\ opc[t] = "save" => oreq[t].left # <<>>
    /\ \A m \in Metric \ omet : Saving(t, m) =>
         /\ \A i \in DOMAIN ogoals : ogoals[i].recent => ogoals[i].metric # m
         /\ \A u \in Thread : Saving(u, m) => u = t

OncePerDay ==
  \A i, j \in DOMAIN ogoals :
    i # j /\ ogoals[i].metric = ogoals[j].metric
      /\ ogoals[i].recent /\ ogoals[j].recent => ogoals[i].metric \in omet

AutonomyInv == Observing /\ Compared /\ OncePerDay

(* The greater of two numbers is one of them.                              *)
LEMMA GreatestOfTwo ==
  ASSUME NEW x \in Int, NEW y \in Int
  PROVE  Max({x, y}) \in {x, y} /\ \A z \in {x, y} : Max({x, y}) >= z
<1>1. \E m \in {x, y} : \A z \in {x, y} : m >= z
  BY SMT
<1> QED BY <1>1 DEF Max

(* A confidence is clipped to a percentage.                                *)
LEMMA Clipped ==
  ASSUME NEW x \in Int
  PROVE  Max({0, Min({100, x})}) \in 0 .. 100
<1>1. \E m \in {100, x} : \A z \in {100, x} : m <= z
  BY SMT
<1>2. Min({100, x}) \in {100, x} /\ \A z \in {100, x} : Min({100, x}) <= z
  BY <1>1 DEF Min
<1>3. PICK y \in Int : y = Min({100, x}) /\ y <= 100
  BY <1>2
<1>4. Max({0, y}) \in {0, y} /\ \A z \in {0, y} : Max({0, y}) >= z
  BY GreatestOfTwo
<1> QED BY <1>3, <1>4

(* A trigger makes one goal of its metric, or none.                        *)
LEMMA OneTrigger ==
  ASSUME NEW fires \in BOOLEAN, NEW e \in EventStored, NEW metric \in Metric,
         NEW priority \in DOMAIN PriorityOrder, NEW days \in Nat,
         NEW pages \in SUBSET PageKey
  PROVE  Goal(fires, e, metric, priority, days, pages) \in Seq(NewGoal)
<1> DEFINE g == [metric |-> metric, priority |-> priority, days |-> days,
                 pages |-> pages, event |-> e.id, recent |-> TRUE]
<1>1. g \in NewGoal
  BY DEF NewGoal, GoalMade, EventStored
<1> HIDE DEF g
<1>2. <<g>> \in Seq(NewGoal) /\ <<>> \in Seq(NewGoal)
  BY <1>1
<1> QED BY <1>2 DEF Goal, g

(* The triggers' goals fit, and are of today.                              *)
LEMMA TriggersMake ==
  ASSUME NEW e \in EventStored
  PROVE  Evaluated(e) \in Seq(NewGoal)
<1>1. e.pages \in SUBSET PageKey /\ {} \in SUBSET PageKey
  BY DEF EventStored
<1>2. {"low", "normal", "high", "urgent"} \subseteq DOMAIN PriorityOrder
  BY DEF PriorityOrder
<1>3. HighIfCritical(e) \in DOMAIN PriorityOrder
  BY <1>2 DEF HighIfCritical
<1>4. RankingDropped(e) \in Seq(NewGoal)
  BY <1>1, <1>3, OneTrigger DEF RankingDropped, Metric
<1>5. CompetitorImproved(e) \in Seq(NewGoal)
  BY <1>1, <1>2, OneTrigger DEF CompetitorImproved, Metric
<1>6. BacklinksDisappeared(e) \in Seq(NewGoal)
  BY <1>1, <1>2, OneTrigger DEF BacklinksDisappeared, Metric
<1>7. PagesStale(e) \in Seq(NewGoal)
  BY <1>1, <1>2, OneTrigger DEF PagesStale, Metric
<1>8. KeywordOpportunity(e) \in Seq(NewGoal)
  BY <1>1, <1>2, OneTrigger DEF KeywordOpportunity, Metric
<1>9. CwvDegraded(e) \in Seq(NewGoal)
  BY <1>1, <1>2, OneTrigger DEF CwvDegraded, Metric
<1>10. LocalListingsInconsistent(e) \in Seq(NewGoal)
  BY <1>1, <1>2, OneTrigger DEF LocalListingsInconsistent, Metric
<1>11. ReviewsDecreased(e) \in Seq(NewGoal)
  BY <1>1, <1>2, OneTrigger DEF ReviewsDecreased, Metric
<1>12. CostIncreasing(e) \in Seq(NewGoal)
  BY <1>1, <1>2, OneTrigger DEF CostIncreasing, Metric
<1>13. ConversionDropped(e) \in Seq(NewGoal)
  BY <1>1, <1>3, OneTrigger DEF ConversionDropped, Metric
<1>14. \A r, s \in Seq(NewGoal) : r \o s \in Seq(NewGoal)
  BY ConcatProperties
<1> QED
  BY <1>4, <1>5, <1>6, <1>7, <1>8, <1>9, <1>10, <1>11, <1>12, <1>13, <1>14,
     Zenon DEF Evaluated

(* An event is of one of three severities, whatever it says.               *)
LEMMA Classified ==
  ASSUME NEW h \in Happening
  PROVE  Classify(h) \in {"info", "warning", "critical"}
<1>1. h.severity \in {"info", "warning", "critical"} \cup {Unset}
  BY ObservationAssumption DEF SeverityWeight
<1>2. CASE h.severity # Unset
  BY <1>1, <1>2 DEF Classify
<1>3. CASE h.severity = Unset /\ h.category \notin DOMAIN SeverityRules
  BY <1>3 DEF Classify
<1>4. CASE h.severity = Unset /\ h.category \in DOMAIN SeverityRules
  <2>1. PICK rule : rule = SeverityRules[h.category]
    OBVIOUS
  <2>2. Classify(h) =
          IF Exceeds(rule, h.amount, rule.critical) THEN "critical"
          ELSE IF Exceeds(rule, h.amount, rule.warning) THEN "warning"
          ELSE "info"
    BY <1>4, <2>1, Zenon DEF Classify
  <2> QED BY <2>2
<1> QED BY <1>2, <1>3, <1>4

(* Goals of one metric merge, whichever comes first; no priority is        *)
(* lowered and no time shortened by it.                                    *)
LEMMA MergingCommutes ==
  ASSUME NEW g \in GoalMade, NEW h \in GoalMade, g.metric = h.metric
  PROVE  /\ MergeGoals(g, h) # Unmerged
         /\ [MergeGoals(h, g)[1] EXCEPT !.event = g.event]
              = MergeGoals(g, h)[1]
         /\ PriorityOrder[MergeGoals(g, h)[1].priority]
              >= PriorityOrder[g.priority]
         /\ MergeGoals(g, h)[1].days >= g.days
<1>1. /\ g.priority \in {"low", "normal", "high", "urgent"}
      /\ h.priority \in {"low", "normal", "high", "urgent"}
      /\ g.days \in Nat /\ h.days \in Nat
  BY DEF GoalMade, PriorityOrder
<1>2. /\ PriorityOrder["low"] = 0 /\ PriorityOrder["normal"] = 1
      /\ PriorityOrder["high"] = 2 /\ PriorityOrder["urgent"] = 3
  BY DEF PriorityOrder
<1>3. /\ g.pages \cup h.pages = h.pages \cup g.pages
      /\ {g.days, h.days} = {h.days, g.days}
  OBVIOUS
<1> DEFINE higher(a, b) ==
             IF PriorityOrder[a] >= PriorityOrder[b] THEN a ELSE b
<1>4. /\ higher(g.priority, h.priority) = higher(h.priority, g.priority)
      /\ PriorityOrder[higher(g.priority, h.priority)]
           >= PriorityOrder[g.priority]
  BY <1>1, <1>2
<1>5. Max({g.days, h.days}) >= g.days
  <2>1. PICK x, y \in Int : x = g.days /\ y = h.days
    BY <1>1
  <2>2. \A z \in {x, y} : Max({x, y}) >= z
    BY GreatestOfTwo
  <2> QED BY <2>1, <2>2
<1>6. /\ MergeGoals(g, h) =
           <<[metric |-> g.metric, event |-> g.event,
              pages |-> g.pages \cup h.pages, days |-> Max({g.days, h.days}),
              priority |-> higher(g.priority, h.priority)]>>
      /\ MergeGoals(h, g) =
           <<[metric |-> h.metric, event |-> h.event,
              pages |-> h.pages \cup g.pages, days |-> Max({h.days, g.days}),
              priority |-> higher(h.priority, g.priority)]>>
  BY DEF MergeGoals
<1> HIDE DEF higher
<1>7. Max({g.days, h.days}) = Max({h.days, g.days})
  BY <1>3
<1>8. PICK m : m = Max({g.days, h.days})
  OBVIOUS
<1> QED BY <1>3, <1>4, <1>5, <1>6, <1>7, <1>8 DEF Unmerged

(* What stands and what merges: the goals as they are promised.            *)
LEMMA AutonomyInvImplies == AutonomyInv => OTypeOK /\ GoalsAreNotRepeated
<1> SUFFICES ASSUME AutonomyInv PROVE OTypeOK /\ GoalsAreNotRepeated
  OBVIOUS
<1>1. OTypeOK
  <2>1. /\ Observing /\ Len(oevents) \in Nat
        /\ DOMAIN oevents = 1 .. Len(oevents)
        /\ Len(ogoals) \in Nat /\ DOMAIN ogoals = 1 .. Len(ogoals)
    BY DEF AutonomyInv, Observing
  <2>2. \A i \in DOMAIN oevents : oevents[i] \in EventStored
    BY <2>1 DEF Observing
  <2>3. \A i \in DOMAIN oevents :
          oevents[i].severity \in {"info", "warning", "critical"}
    BY <2>2 DEF EventStored
  <2>4. \A i \in DOMAIN ogoals : ogoals[i] \in GoalMade
    BY <2>1 DEF Observing
  <2>5. \A i \in DOMAIN ogoals : ogoals[i].priority \in DOMAIN PriorityOrder
    BY <2>4 DEF GoalMade
  <2>6. \A t \in Thread : oreq[t].event \in 0 .. Len(oevents)
    <3>1. \A t \in Thread : oreq[t].event \in Nat
      BY <2>1 DEF Observing
    <3> QED BY <2>1, <3>1 DEF Observing
  <2>7. DOMAIN SeverityWeight = {"info", "warning", "critical"}
    BY DEF SeverityWeight
  <2> QED BY <2>1, <2>3, <2>5, <2>6, <2>7 DEF OTypeOK, Observing
<1>2. ASSUME NEW i \in DOMAIN ogoals, NEW j \in DOMAIN ogoals, i # j,
             ogoals[i].metric = ogoals[j].metric
      PROVE  LET merged == MergeGoals(ogoals[i], ogoals[j])
                 turned == MergeGoals(ogoals[j], ogoals[i])
             IN  /\ ogoals[i].recent /\ ogoals[j].recent =>
                       ogoals[i].metric \in omet
                 /\ merged # Unmerged
                 /\ [turned[1] EXCEPT !.event = ogoals[i].event] = merged[1]
                 /\ PriorityOrder[merged[1].priority]
                      >= PriorityOrder[ogoals[i].priority]
                 /\ merged[1].days >= ogoals[i].days
  <2>1. ogoals[i] \in GoalMade /\ ogoals[j] \in GoalMade
    BY <1>2 DEF AutonomyInv, Observing
  <2>2. ogoals[i].recent /\ ogoals[j].recent => ogoals[i].metric \in omet
    BY <1>2 DEF AutonomyInv, OncePerDay
  <2> QED BY <1>2, <2>1, <2>2, MergingCommutes
<1> QED BY <1>1, <1>2, Zenon DEF GoalsAreNotRepeated

(* Nothing was observed yet.                                               *)
LEMMA GoalsInit == OInit => AutonomyInv
  BY ObservationAssumption DEF OInit, Unasked, AutonomyInv, Observing, Compared,
     OncePerDay, Saving

(* A day passes: the goals of the day before compare with no new one.      *)
LEMMA DayKeeps == AutonomyInv /\ DayPasses => AutonomyInv'
<1> SUFFICES ASSUME AutonomyInv, DayPasses PROVE AutonomyInv'
  OBVIOUS
<1>1. /\ \A t \in Thread : opc[t] = "idle"
      /\ ogoals' = [i \in DOMAIN ogoals |-> [ogoals[i] EXCEPT !.recent = FALSE]]
      /\ UNCHANGED <<oevents, omet, opc, oreq>>
  BY DEF DayPasses
<1>2. /\ ogoals \in Seq(GoalMade) /\ Len(ogoals) \in Nat
      /\ DOMAIN ogoals = 1 .. Len(ogoals)
  BY DEF AutonomyInv, Observing
<1>3. ASSUME NEW i \in DOMAIN ogoals
      PROVE  ogoals'[i] \in GoalMade /\ ~ogoals'[i].recent
  <2>1. ogoals[i] \in GoalMade
    BY <1>2
  <2>2. ogoals'[i] = [ogoals[i] EXCEPT !.recent = FALSE]
    BY <1>1
  <2> QED BY <2>1, <2>2 DEF GoalMade
<1>4. /\ ogoals' \in Seq(GoalMade) /\ Len(ogoals') = Len(ogoals)
      /\ DOMAIN ogoals' = DOMAIN ogoals
  BY <1>1, <1>2, <1>3
<1>5. Observing'
  BY <1>1, <1>4 DEF AutonomyInv, Observing
<1>6. Compared'
  BY <1>1 DEF Compared, Saving
<1>7. OncePerDay'
  BY <1>3, <1>4 DEF OncePerDay
<1> QED BY <1>5, <1>6, <1>7 DEF AutonomyInv

(* What is stored of an event fits.                                        *)
LEMMA StoredFits ==
  ASSUME oevents \in Seq(EventStored), NEW h \in Happening
  PROVE  StoredEvent(h) \in EventStored
<1> DEFINE last == IF oevents = <<>> THEN 0 ELSE oevents[Len(oevents)].at
<1>1. last \in Nat /\ Len(oevents) \in Nat
  <2>1. oevents # <<>> => oevents[Len(oevents)] \in EventStored
    OBVIOUS
  <2> QED BY <2>1 DEF EventStored
<1>2. h.keys \in SUBSET EventKey /\ h.pages \in SUBSET PageKey
  BY DEF EventKey, PageKey
<1>3. /\ h.category \in DOMAIN CategoryImpact /\ h.gap \in Nat
      /\ h.amount \in Int /\ h.lost \in Int /\ h.confidence \in Int
  BY ObservationAssumption
<1>4. Classify(h) \in {"info", "warning", "critical"}
  BY Classified
<1>5. last + h.gap \in Nat /\ Len(oevents) + 1 \in Nat
  BY <1>1, <1>3
<1>6. StoredEvent(h) =
        [id |-> Len(oevents) + 1, category |-> h.category, ref |-> h.ref,
         amount |-> h.amount, lost |-> h.lost, pages |-> h.pages,
         keys |-> h.keys, confidence |-> h.confidence,
         severity |-> Classify(h), at |-> last + h.gap]
  BY Zenon DEF StoredEvent
<1> HIDE DEF last
<1> QED BY <1>2, <1>3, <1>4, <1>5, <1>6 DEF EventStored

(* An event comes in; its triggers are worked on from the first.           *)
LEMMA ObserveKeeps ==
  ASSUME AutonomyInv, NEW t \in Thread, NEW h \in Happening, Observe(t, h)
  PROVE  AutonomyInv'
<1>1. PICK e : e = StoredEvent(h) /\ oevents' = Append(oevents, e)
  BY DEF Observe
<1>2. /\ opc' = [opc EXCEPT ![t] = "compare"]
      /\ oreq' = [oreq EXCEPT ![t] =
           [event |-> Len(oevents'),
            left |-> Evaluated(oevents'[Len(oevents')])]]
      /\ UNCHANGED <<ogoals, omet>> /\ Len(oevents) < MaxObserved
  BY DEF Observe
<1>3. /\ oevents \in Seq(EventStored) /\ Len(oevents) \in Nat
      /\ MaxObserved \in Nat
  BY ObservationAssumption DEF AutonomyInv, Observing
<1>5. e \in EventStored
  BY <1>1, <1>3, StoredFits
<1>6. /\ oevents' \in Seq(EventStored) /\ Len(oevents') = Len(oevents) + 1
      /\ oevents'[Len(oevents')] = e
  BY <1>1, <1>3, <1>5, AppendProperties
<1>7. Evaluated(e) \in Seq(NewGoal)
  BY <1>5, TriggersMake
<1>8. Observing'
  <2>1. oreq' = [oreq EXCEPT ![t] = [event |-> Len(oevents) + 1,
                                     left |-> Evaluated(e)]]
    BY <1>2, <1>6
  <2>2. oreq' \in [Thread -> [event : Nat, left : Seq(NewGoal)]]
    BY <1>3, <1>7, <2>1 DEF AutonomyInv, Observing
  <2>3. \A u \in Thread : oreq'[u].event <= Len(oevents')
    BY <1>3, <1>6, <2>1 DEF AutonomyInv, Observing
  <2> QED BY <1>2, <1>3, <1>6, <2>2, <2>3 DEF AutonomyInv, Observing
<1>9. \A u \in Thread : \A m : Saving(u, m)' => Saving(u, m) /\ u # t
  BY <1>2 DEF Saving, AutonomyInv, Observing
<1>10. Compared'
  <2>1. \A u \in Thread : opc'[u] = "save" => u # t /\ opc[u] = "save"
    BY <1>2 DEF AutonomyInv, Observing
  <2>2. \A u \in Thread : u # t => oreq'[u] = oreq[u]
    BY <1>2 DEF AutonomyInv, Observing
  <2> QED BY <1>2, <1>9, <2>1, <2>2 DEF AutonomyInv, Compared
<1>11. OncePerDay'
  BY <1>2 DEF AutonomyInv, OncePerDay
<1> QED BY <1>8, <1>10, <1>11 DEF AutonomyInv

(* A request that drops its next trigger saves nothing.                    *)
LEMMA DropKeeps ==
  ASSUME AutonomyInv, NEW t \in Thread,
         NEW s \in {"idle", "compare"},
         NEW r \in [event : Nat, left : Seq(NewGoal)],
         r.event <= Len(oevents),
         opc' = [opc EXCEPT ![t] = s], oreq' = [oreq EXCEPT ![t] = r],
         UNCHANGED <<oevents, ogoals, omet>>
  PROVE  AutonomyInv'
<1>1. Observing'
  BY DEF AutonomyInv, Observing
<1>2. \A u \in Thread : opc'[u] = "save" => u # t /\ opc[u] = "save"
  BY DEF AutonomyInv, Observing
<1>3. \A u \in Thread : u # t => oreq'[u] = oreq[u]
  BY DEF AutonomyInv, Observing
<1>4. \A u \in Thread : \A m : Saving(u, m)' => Saving(u, m)
  BY <1>2, <1>3 DEF Saving
<1>5. Compared'
  BY <1>2, <1>3, <1>4 DEF AutonomyInv, Compared
<1> QED BY <1>1, <1>5 DEF AutonomyInv, OncePerDay

(* The goals left after the first are of the same kinds.                   *)
LEMMA NextTriggerIs ==
  ASSUME AutonomyInv, NEW t \in Thread, NextTrigger(t), oreq[t].left # <<>>
  PROVE  \E r \in [event : Nat, left : Seq(NewGoal)] :
           /\ r.event <= Len(oevents) /\ oreq' = [oreq EXCEPT ![t] = r]
           /\ opc' = [opc EXCEPT ![t] = "compare"]
<1>1. oreq[t] \in [event : Nat, left : Seq(NewGoal)]
      /\ oreq[t].event <= Len(oevents)
  BY DEF AutonomyInv, Observing
<1>2. Tail(oreq[t].left) \in Seq(NewGoal)
  BY <1>1, HeadTailProperties
<1>3. PICK r : r = [oreq[t] EXCEPT !.left = Tail(oreq[t].left)]
  OBVIOUS
<1>4. r \in [event : Nat, left : Seq(NewGoal)] /\ r.event = oreq[t].event
  BY <1>1, <1>2, <1>3
<1>5. oreq' = [oreq EXCEPT ![t] = r]
  BY <1>3 DEF NextTrigger, AutonomyInv, Observing
<1> QED BY <1>1, <1>4, <1>5 DEF NextTrigger

(* The next goal is compared with those of the day, and dropped or kept.   *)
LEMMA CompareKeeps ==
  ASSUME AutonomyInv, NEW t \in Thread, CompareGoal(t)
  PROVE  AutonomyInv'
<1>1. PICK goal : goal = Head(oreq[t].left)
  OBVIOUS
<1>2. /\ opc[t] = "compare" /\ oreq[t].left # <<>>
      /\ UNCHANGED <<oevents, ogoals>>
  BY DEF CompareGoal
<1>3. goal \in NewGoal /\ goal.metric \in Metric
  <2>1. oreq[t].left \in Seq(NewGoal)
    BY DEF AutonomyInv, Observing
  <2> QED BY <1>1, <1>2, <2>1, HeadTailProperties DEF NewGoal, GoalMade
<1>4. CASE IsDuplicate(goal)
  <2>1. NextTrigger(t) /\ UNCHANGED omet
    BY <1>1, <1>4 DEF CompareGoal
  <2> QED BY <1>2, <2>1, NextTriggerIs, DropKeeps
<1>5. CASE ~ IsDuplicate(goal)
  <2>1. /\ opc' = [opc EXCEPT ![t] = "save"]
        /\ omet' = omet \cup {goal.metric : u \in {v \in Thread \ {t} :
             opc[v] = "save" /\ Head(oreq[v].left).metric = goal.metric}}
        /\ UNCHANGED oreq
    BY <1>1, <1>5 DEF CompareGoal
  <2>2. /\ omet \subseteq omet'
        /\ \A v \in Thread \ {t} : Saving(v, goal.metric) =>
             goal.metric \in omet'
    BY <2>1 DEF Saving
  <2>3. /\ \A v \in Thread \ {t} : \A m : Saving(v, m)' <=> Saving(v, m)
        /\ \A m : Saving(t, m)' <=> m = goal.metric
    BY <1>1, <2>1 DEF Saving, AutonomyInv, Observing
  <2>4. \A i \in DOMAIN ogoals : ogoals[i].recent =>
          ogoals[i].metric # goal.metric
    BY <1>5 DEF IsDuplicate
  <2>5. Observing'
    BY <1>2, <2>1 DEF AutonomyInv, Observing
  <2>6. Compared'
    <3>1. \A v \in Thread : opc'[v] = "save" => oreq'[v].left # <<>>
      BY <1>2, <2>1 DEF AutonomyInv, Observing, Compared
    <3>2. ASSUME NEW v \in Thread, NEW m \in Metric \ omet', Saving(v, m)'
          PROVE  /\ \A i \in DOMAIN ogoals' :
                      ogoals'[i].recent => ogoals'[i].metric # m
                 /\ \A u \in Thread : Saving(u, m)' => u = v
      <4>1. m \in Metric \ omet
        BY <2>2, <3>2
      <4>2. CASE v = t
        <5>1. m = goal.metric
          BY <2>3, <3>2, <4>2
        <5> QED BY <1>2, <2>2, <2>3, <2>4, <3>2, <4>2, <5>1
      <4>3. CASE v # t
        <5>1. Saving(v, m)
          BY <2>3, <3>2, <4>3
        <5>2. m # goal.metric
          BY <2>2, <3>2, <4>3, <5>1
        <5> QED BY <1>2, <2>3, <4>1, <5>1, <5>2 DEF AutonomyInv, Compared
      <4> QED BY <4>2, <4>3
    <3> QED BY <3>1, <3>2 DEF Compared
  <2>7. OncePerDay'
    BY <1>2, <2>2 DEF AutonomyInv, OncePerDay
  <2> QED BY <2>5, <2>6, <2>7 DEF AutonomyInv
<1> QED BY <1>4, <1>5

(* A goal is saved: it is the only one of its day, or two requests met.    *)
LEMMA SaveNewGoalKeeps ==
  ASSUME AutonomyInv, NEW t \in Thread, SaveNewGoal(t)
  PROVE  AutonomyInv'
<1>1. PICK goal : goal = Head(oreq[t].left)
  OBVIOUS
<1>2. /\ opc[t] = "save" /\ Len(ogoals) < MaxMade
      /\ ogoals' = Append(ogoals, goal) /\ NextTrigger(t)
      /\ UNCHANGED <<oevents, omet>>
  BY <1>1 DEF SaveNewGoal
<1>3. oreq[t].left # <<>>
  BY <1>2 DEF AutonomyInv, Compared
<1>4. goal \in GoalMade /\ goal.metric \in Metric
  <2>1. oreq[t].left \in Seq(NewGoal)
    BY DEF AutonomyInv, Observing
  <2> QED BY <1>1, <1>3, <2>1, HeadTailProperties DEF NewGoal, GoalMade
<1>5. PICK r \in [event : Nat, left : Seq(NewGoal)] :
        /\ r.event <= Len(oevents) /\ oreq' = [oreq EXCEPT ![t] = r]
        /\ opc' = [opc EXCEPT ![t] = "compare"]
  BY <1>2, <1>3, NextTriggerIs
<1>6. ogoals \in Seq(GoalMade) /\ Len(ogoals) \in Nat /\ MaxMade \in Nat
  BY ObservationAssumption DEF AutonomyInv, Observing
<1>7. /\ ogoals' \in Seq(GoalMade) /\ Len(ogoals') = Len(ogoals) + 1
      /\ \A i \in 1 .. Len(ogoals) : ogoals'[i] = ogoals[i]
      /\ ogoals'[Len(ogoals) + 1] = goal
  BY <1>2, <1>4, <1>6, AppendProperties
<1>8. Observing'
  BY <1>2, <1>5, <1>6, <1>7 DEF AutonomyInv, Observing
<1>9. \A u \in Thread : opc'[u] = "save" => u # t /\ opc[u] = "save"
  BY <1>5 DEF AutonomyInv, Observing
<1>10. \A u \in Thread : u # t => oreq'[u] = oreq[u]
  BY <1>5 DEF AutonomyInv, Observing
<1>11. \A u \in Thread : \A m : Saving(u, m)' => Saving(u, m) /\ u # t
  BY <1>9, <1>10 DEF Saving
<1>12. Saving(t, goal.metric)
  BY <1>1, <1>2 DEF Saving
<1>13. DOMAIN ogoals = 1 .. Len(ogoals) /\ DOMAIN ogoals' = 1 .. Len(ogoals) + 1
  BY <1>6, <1>7
<1>14. Compared'
  <2>1. \A v \in Thread : opc'[v] = "save" => oreq'[v].left # <<>>
    BY <1>9, <1>10 DEF AutonomyInv, Compared
  <2>2. ASSUME NEW v \in Thread, NEW m \in Metric \ omet', Saving(v, m)'
        PROVE  /\ \A i \in DOMAIN ogoals' :
                    ogoals'[i].recent => ogoals'[i].metric # m
               /\ \A u \in Thread : Saving(u, m)' => u = v
    <3>1. m \in Metric \ omet /\ Saving(v, m) /\ v # t
      BY <1>2, <1>11, <2>2
    <3>2. m # goal.metric
      BY <1>12, <3>1 DEF AutonomyInv, Compared
    <3>3. \A i \in DOMAIN ogoals : ogoals[i].recent => ogoals[i].metric # m
      BY <3>1 DEF AutonomyInv, Compared
    <3>4. ASSUME NEW i \in DOMAIN ogoals', ogoals'[i].recent
          PROVE  ogoals'[i].metric # m
      BY <1>6, <1>7, <1>13, <3>2, <3>3, <3>4
    <3>5. \A u \in Thread : Saving(u, m)' => u = v
      BY <1>11, <3>1 DEF AutonomyInv, Compared
    <3> QED BY <3>4, <3>5
  <2> QED BY <2>1, <2>2 DEF Compared
<1>15. OncePerDay'
  <2> SUFFICES ASSUME NEW i \in DOMAIN ogoals', NEW j \in DOMAIN ogoals', i # j,
                      ogoals'[i].metric = ogoals'[j].metric,
                      ogoals'[i].recent, ogoals'[j].recent
               PROVE  ogoals'[i].metric \in omet
    BY <1>2 DEF OncePerDay
  <2>1. CASE i \in DOMAIN ogoals /\ j \in DOMAIN ogoals
    BY <1>7, <1>13, <2>1 DEF AutonomyInv, OncePerDay
  <2>2. ASSUME NEW k \in DOMAIN ogoals, ogoals[k].recent,
               ogoals[k].metric = goal.metric
        PROVE  goal.metric \in omet
    BY <1>4, <1>12, <2>2 DEF AutonomyInv, Compared
  <2>3. CASE i = Len(ogoals) + 1
    <3>1. j \in DOMAIN ogoals
      BY <1>6, <1>13, <2>3
    <3> QED BY <1>7, <1>13, <2>2, <2>3, <3>1
  <2>4. CASE j = Len(ogoals) + 1
    <3>1. i \in DOMAIN ogoals
      BY <1>6, <1>13, <2>4
    <3> QED BY <1>7, <1>13, <2>2, <2>4, <3>1
  <2> QED BY <1>6, <1>13, <2>1, <2>3, <2>4
<1> QED BY <1>8, <1>14, <1>15 DEF AutonomyInv

(* A request ends, lost or done.                                           *)
LEMMA EndKeepsGoals ==
  ASSUME AutonomyInv, NEW t \in Thread, EndObservation(t)
  PROVE  AutonomyInv'
<1>1. Unasked \in [event : Nat, left : Seq(NewGoal)] /\ Unasked.event = 0
  BY DEF Unasked
<1>2. Unasked.event <= Len(oevents)
  BY <1>1 DEF AutonomyInv, Observing
<1>3. "idle" \in {"idle", "compare"}
  OBVIOUS
<1> QED BY <1>1, <1>2, <1>3, DropKeeps DEF EndObservation

(* Every step of goal generation keeps its invariant.                      *)
LEMMA GoalsStep == AutonomyInv /\ [ONext]_ovars => AutonomyInv'
<1> SUFFICES ASSUME AutonomyInv, [ONext]_ovars PROVE AutonomyInv'
  OBVIOUS
<1>1. CASE UNCHANGED ovars
  BY <1>1 DEF ovars, AutonomyInv, Observing, Compared, Saving, OncePerDay
<1> QED
  BY <1>1, DayKeeps, ObserveKeeps, CompareKeeps, SaveNewGoalKeeps,
     EndKeepsGoals DEF ONext

-----------------------------------------------------------------------------
(* What is made of the events stored.                                      *)

(* Events are stored in the order of their times.                          *)
InTime(events) ==
  \A i, j \in DOMAIN events : i <= j => events[i].at <= events[j].at

(* A group of events is what its earliest one gathers.                     *)
Belongs(events, g) ==
  /\ g \subseteq DOMAIN events
  /\ \E i \in g : /\ \E j \in g : Gathers(events, i, j)
                  /\ \A j \in g : j = i \/ Gathers(events, i, j)
Groups(events, groups) ==
  /\ \A g \in groups : Belongs(events, g)
  /\ \A g, h \in groups : g = h \/ g \cap h = {}

(* Gathering for one event more leaves the groups apart.                   *)
LEMMA GroupKeeps ==
  ASSUME NEW events, NEW groups, Groups(events, groups),
         NEW i \in DOMAIN events
  PROVE  Groups(events, Group(events, groups, i))
<1> DEFINE used == UNION groups
           more == {j \in DOMAIN events \ used : Gathers(events, i, j)}
           group == {i} \cup more
<1>1. CASE i \in used \/ more = {}
  <2>1. Group(events, groups, i) = groups
    BY <1>1 DEF Group
  <2> QED BY <2>1
<1>2. CASE i \notin used /\ more # {}
  <2>1. Group(events, groups, i) = groups \cup {group}
    BY <1>2 DEF Group
  <2>2. Belongs(events, group)
    BY <1>2 DEF Belongs
  <2>3. \A g \in groups : g \cap group = {}
    BY <1>2
  <2>4. /\ \A g \in groups : Belongs(events, g)
        /\ \A g, h \in groups : g = h \/ g \cap h = {}
    BY DEF Groups
  <2> HIDE DEF group
  <2>5. \A g \in groups \cup {group} : Belongs(events, g)
    BY <2>2, <2>4
  <2>6. \A g, h \in groups \cup {group} : g = h \/ g \cap h = {}
    BY <2>3, <2>4
  <2> QED BY <2>1, <2>5, <2>6 DEF Groups
<1> QED BY <1>1, <1>2

(* So the groups are apart when all events were looked at.                 *)
LEMMA CorrelateGroups ==
  ASSUME NEW events, Len(events) \in Nat, DOMAIN events = 1 .. Len(events)
  PROVE  Groups(events, Correlate(events))
<1> DEFINE n == Len(events)
           S == SUBSET SUBSET DOMAIN events
           g == [i \in 1 .. n |-> [v \in S |-> Group(events, v, i)]]
<1>1. ASSUME NEW v \in S, NEW i \in 1 .. n PROVE Group(events, v, i) \in S
  BY DEF Group
<1>2. Stepping(n, S, {}, g)
  <2>1. g \in [1 .. n -> [S -> S]]
    BY <1>1
  <2> HIDE DEF g, S
  <2>2. {} \in S
    BY DEF S
  <2> QED BY <2>1, <2>2 DEF Stepping
<1>3. PICK h : Stepped(h, n, S, {}, g)
  <2> HIDE DEF g, S, n
  <2> QED BY <1>2, RecursionExists
<1>4. h = [i \in 0 .. n |-> IF i = 0 THEN {} ELSE Group(events, h[i - 1], i)]
  <2>1. h \in [0 .. n -> S] /\ h[0] = {}
    BY <1>3 DEF Stepped
  <2>2. ASSUME NEW i \in 1 .. n PROVE h[i] = Group(events, h[i - 1], i)
    <3>1. h[i] = g[i][h[i - 1]]
      <4> HIDE DEF g, S
      <4> QED BY <1>3 DEF Stepped
    <3>2. i - 1 \in 0 .. n
      OBVIOUS
    <3>3. h[i - 1] \in S
      <4> HIDE DEF S, n
      <4> QED BY <2>1, <3>2
    <3> HIDE DEF S
    <3> QED BY <3>1, <3>3
  <2>3. ASSUME NEW i \in 0 .. n
        PROVE  h[i] = IF i = 0 THEN {} ELSE Group(events, h[i - 1], i)
    BY <2>1, <2>2
  <2> HIDE DEF S, n
  <2> QED BY <2>1, <2>3
<1> HIDE DEF g, S
<1>5. PICK e :
        /\ e = [i \in 0 .. n |->
                  IF i = 0 THEN {} ELSE Group(events, e[i - 1], i)]
        /\ Correlate(events) = e[n]
  BY <1>4 DEF Correlate
<1> DEFINE P == {i \in 0 .. n : Groups(events, e[i])}
<1>6. 0 \in P
  BY <1>5 DEF Groups
<1>7. ASSUME NEW k \in 0 .. n - 1, k \in P PROVE k + 1 \in P
  <2>1. k + 1 \in 1 .. n /\ k + 1 \in 0 .. n /\ (k + 1) - 1 = k /\ k + 1 # 0
    OBVIOUS
  <2>2. e[k + 1] = Group(events, e[k], k + 1)
    <3> HIDE DEF n
    <3> QED BY <2>1, <1>5
  <2>3. Groups(events, e[k])
    BY <1>7
  <2>4. Groups(events, Group(events, e[k], k + 1))
    <3>1. k + 1 \in DOMAIN events
      BY <2>1
    <3> QED BY <2>3, <3>1, GroupKeeps
  <2> QED BY <2>1, <2>2, <2>4
<1>8. n \in P
  <2>1. \A k \in 0 .. n - 1 : k \in P => k + 1 \in P
    BY <1>7
  <2>2. n \in Nat
    OBVIOUS
  <2> HIDE DEF P, n
  <2>3. \A k \in 0 .. n : k \in P
    BY <1>6, <2>1, <2>2, AllNumbers
  <2> QED BY <2>2, <2>3
<1> QED BY <1>5, <1>8

(* Groups of events that are in time are as they should be.                *)
LEMMA GroupsBelong ==
  ASSUME NEW events, DOMAIN events \subseteq Int, InTime(events),
         \A i \in DOMAIN events : events[i].at \in Int,
         NEW g, Belongs(events, g)
  PROVE  /\ \E i, j \in g : events[i].category # events[j].category
         /\ \A i, j \in g : events[i].at - events[j].at <= Window
<1>1. PICK i \in g : /\ \E j \in g : Gathers(events, i, j)
                     /\ \A j \in g : j = i \/ Gathers(events, i, j)
  BY DEF Belongs
<1>2. g \subseteq DOMAIN events
  BY DEF Belongs
<1>3. \E j \in g : events[i].category # events[j].category
  BY <1>1 DEF Gathers
<1>4. ASSUME NEW j \in g
      PROVE  /\ events[i].at <= events[j].at
             /\ events[j].at - events[i].at <= Window
  <2>1. CASE j = i
    BY <2>1, <1>2 DEF InTime, Window
  <2>2. CASE Gathers(events, i, j)
    <3>1. i \in DOMAIN events /\ j \in DOMAIN events /\ i <= j
      BY <1>2, <2>2 DEF Gathers
    <3> QED BY <2>2, <3>1 DEF InTime, Gathers
  <2> QED BY <1>1, <2>1, <2>2
<1>5. ASSUME NEW j \in g, NEW k \in g
      PROVE  events[j].at - events[k].at <= Window
  <2>1. /\ events[i].at \in Int /\ events[j].at \in Int /\ events[k].at \in Int
        /\ Window \in Int
    BY <1>2 DEF Window
  <2>2. /\ events[i].at <= events[k].at /\ events[j].at - events[i].at <= Window
    BY <1>4
  <2> QED BY <2>1, <2>2
<1> QED BY <1>3, <1>5

(* The events stored, when in time, are grouped as they should be.         *)
LEMMA Correlated ==
  ASSUME oevents \in Seq(EventStored), InTime(oevents)
  PROVE  CorrelationsAgree
<1>1. /\ Len(oevents) \in Nat /\ DOMAIN oevents = 1 .. Len(oevents)
      /\ \A i \in DOMAIN oevents : oevents[i].at \in Int
  <2>1. Len(oevents) \in Nat /\ DOMAIN oevents = 1 .. Len(oevents)
    OBVIOUS
  <2>2. \A i \in DOMAIN oevents : oevents[i] \in EventStored
    BY <2>1
  <2> QED BY <2>1, <2>2 DEF EventStored
<1>2. Groups(oevents, Correlate(oevents))
  BY <1>1, CorrelateGroups
<1>3. ASSUME NEW g \in Correlate(oevents)
      PROVE  /\ \E i, j \in g : oevents[i].category # oevents[j].category
             /\ \A i, j \in g : oevents[i].at - oevents[j].at <= Window
  <2>1. Belongs(oevents, g)
    BY <1>2 DEF Groups
  <2>2. DOMAIN oevents \subseteq Int
    BY <1>1
  <2> QED BY <1>1, <2>1, <2>2, GroupsBelong
<1> QED BY <1>2, <1>3 DEF CorrelationsAgree, Groups

(* Of two events of one category, a critical one has the greater impact,   *)
(* unless the other is a warning and surer.                                *)
LEMMA ImpactGrows ==
  ASSUME NEW e \in EventStored
  PROVE  /\ ImpactScore(e) \in Int
         /\ \A d \in EventStored :
              /\ d.category = e.category
              /\ d.severity # "critical" /\ e.severity = "critical"
              /\ d.severity = "info" \/ Confidence(d) <= Confidence(e)
              => ImpactScore(d) < ImpactScore(e)
<1> DEFINE c(d) == CategoryImpact[d.category]
           w(d) == SeverityWeight[d.severity]
<1>1. ASSUME NEW d \in EventStored
      PROVE  /\ c(d) \in Int /\ w(d) \in {10, 50, 100}
             /\ Confidence(d) \in 0 .. 100
             /\ d.severity = "critical" => w(d) = 100
             /\ d.severity = "info" => w(d) = 10
             /\ d.severity # "critical" => w(d) <= 50
             /\ ImpactScore(d) = w(d) * 4 + c(d) * 3 + Confidence(d) * 3
  <2>1. \A x \in DOMAIN CategoryImpact : CategoryImpact[x] \in Int
    BY DEF CategoryImpact
  <2>2. d.category \in DOMAIN CategoryImpact
    BY DEF EventStored
  <2>3. c(d) \in Int
    BY <2>1, <2>2
  <2>4. /\ SeverityWeight["critical"] = 100 /\ SeverityWeight["warning"] = 50
        /\ SeverityWeight["info"] = 10
    BY DEF SeverityWeight
  <2>5. d.severity \in {"info", "warning", "critical"} /\ d.confidence \in Int
    BY DEF EventStored
  <2>6. Confidence(d) \in 0 .. 100
    BY <2>5, Clipped DEF Confidence
  <2>7. /\ w(d) \in {10, 50, 100}
        /\ d.severity = "critical" => w(d) = 100
        /\ d.severity = "info" => w(d) = 10
        /\ d.severity # "critical" => w(d) <= 50
    BY <2>4, <2>5
  <2>8. ImpactScore(d) = w(d) * 4 + c(d) * 3 + Confidence(d) * 3
    BY Zenon DEF ImpactScore
  <2> HIDE DEF c, w
  <2> QED BY <2>3, <2>6, <2>7, <2>8
<1> HIDE DEF w
<1>2. ASSUME NEW d \in EventStored, d.category = e.category,
             d.severity # "critical", e.severity = "critical",
             d.severity = "info" \/ Confidence(d) <= Confidence(e)
      PROVE  ImpactScore(d) < ImpactScore(e)
  <2>1. c(d) = c(e)
    BY <1>2
  <2> HIDE DEF c
  <2>2. PICK x \in Int : x = w(d) /\ x <= 50 /\ (d.severity = "info" => x = 10)
    BY <1>1, <1>2
  <2>3. PICK k \in Int : k = c(e)
    BY <1>1
  <2>4. PICK f \in 0 .. 100, g \in 0 .. 100 :
          f = Confidence(d) /\ g = Confidence(e)
    BY <1>1
  <2>5. w(e) = 100
    BY <1>1, <1>2
  <2>6. x = 10 \/ f <= g
    BY <1>2, <2>2, <2>4
  <2>7. x * 4 + k * 3 + f * 3 < 100 * 4 + k * 3 + g * 3
    BY <2>2, <2>3, <2>4, <2>6
  <2>8. /\ ImpactScore(d) = x * 4 + k * 3 + f * 3
        /\ ImpactScore(e) = 100 * 4 + k * 3 + g * 3
    BY <1>1, <2>1, <2>2, <2>3, <2>4, <2>5
  <2> QED BY <2>7, <2>8
<1>3. ImpactScore(e) \in Int
  <2>1. /\ c(e) \in Int /\ w(e) \in Int /\ Confidence(e) \in Int
        /\ ImpactScore(e) = w(e) * 4 + c(e) * 3 + Confidence(e) * 3
    BY <1>1
  <2> HIDE DEF c
  <2> QED BY <2>1
<1> QED BY <1>2, <1>3

(* So the critical events of a category come before its others, unless     *)
(* those are warnings and surer.                                           *)
LEMMA Prioritized ==
  ASSUME oevents \in Seq(EventStored)
  PROVE  PrioritiesAgree
<1> DEFINE n == Len(oevents)
           D == DOMAIN oevents
           key == [i \in D |-> -ImpactScore(oevents[i])]
           q == Ordered(D, key)
<1>1. /\ n \in Nat /\ D = 1 .. n
      /\ \A i \in D : oevents[i] \in EventStored
  OBVIOUS
<1>2. IsFiniteSet(D) /\ Cardinality(D) = n
  BY <1>1, FS_Interval
<1>3. key \in [D -> Int]
  <2>1. \A i \in D : ImpactScore(oevents[i]) \in Int
    BY <1>1, ImpactGrows
  <2>2. ASSUME NEW i \in D PROVE -ImpactScore(oevents[i]) \in Int
    BY <2>1
  <2> HIDE DEF D
  <2> QED BY <2>2
<1>4. Orders(q, D, key)
  <2>1. D \subseteq Int
    BY <1>1
  <2> HIDE DEF q, D, key
  <2> QED BY <1>2, <1>3, <2>1, OrderedSorts DEF q
<1>5. Prioritize(oevents) = [k \in D |-> oevents[q[k]]]
  BY DEF Prioritize, SortedBy
<1> DEFINE r == [k \in D |-> oevents[q[k]]]
<1>6. /\ \A k \in D : q[k] \in D
      /\ \A i \in D : \E k \in D : q[k] = i
      /\ \A k, l \in D : k < l => key[q[k]] <= key[q[l]]
  <2>1. /\ q \in [1 .. Cardinality(D) -> D]
        /\ \A i \in D : Cardinality(UpTo(D, key, i)) \in 1 .. Cardinality(D)
        /\ \A i \in D : q[Cardinality(UpTo(D, key, i))] = i
        /\ \A k, l \in 1 .. Cardinality(D) : k < l =>
             \/ key[q[k]] < key[q[l]]
             \/ key[q[k]] = key[q[l]] /\ q[k] < q[l]
    BY <1>4 DEF Orders
  <2>2. 1 .. Cardinality(D) = D
    BY <1>1, <1>2
  <2> HIDE DEF q, D, key
  <2>3. \A k \in D : q[k] \in D /\ key[q[k]] \in Int
    BY <2>1, <2>2, <1>3
  <2>4. \A i \in D : \E k \in D : q[k] = i
    BY <2>1, <2>2
  <2>5. ASSUME NEW k \in D, NEW l \in D, k < l PROVE key[q[k]] <= key[q[l]]
    <3>1. key[q[k]] < key[q[l]] \/ key[q[k]] = key[q[l]]
      BY <2>1, <2>2, <2>5
    <3> QED BY <3>1, <2>3
  <2> QED BY <2>3, <2>4, <2>5
<1>7. ToSet(r) = ToSet(oevents)
  <2>1. ToSet(r) = {r[k] : k \in D} /\ ToSet(oevents) = {oevents[i] : i \in D}
    BY DEF ToSet
  <2> HIDE DEF q
  <2>2. \A k \in D : r[k] = oevents[q[k]]
    OBVIOUS
  <2> HIDE DEF r, D
  <2>3. {r[k] : k \in D} \subseteq {oevents[i] : i \in D}
    BY <1>6, <2>2
  <2>4. {oevents[i] : i \in D} \subseteq {r[k] : k \in D}
    <3>1. ASSUME NEW i \in D PROVE \E k \in D : r[k] = oevents[i]
      BY <1>6, <2>2
    <3> QED BY <3>1
  <2> QED BY <2>1, <2>3, <2>4
<1>8. ASSUME NEW i \in D, NEW j \in D, r[i].category = r[j].category,
             r[i].severity # "critical", r[j].severity = "critical",
             r[i].severity = "info" \/ Confidence(r[i]) <= Confidence(r[j])
      PROVE  j < i
  <2> HIDE DEF q
  <2>1. r[i] = oevents[q[i]] /\ r[j] = oevents[q[j]]
    OBVIOUS
  <2>2. q[i] \in D /\ q[j] \in D
    BY <1>6
  <2>3. r[i] \in EventStored /\ r[j] \in EventStored
    BY <1>1, <2>1, <2>2
  <2>4. /\ ImpactScore(r[i]) < ImpactScore(r[j])
        /\ ImpactScore(r[i]) \in Int /\ ImpactScore(r[j]) \in Int
    <3> HIDE DEF r, D
    <3> QED BY <2>3, <1>8, ImpactGrows
  <2>5. key[q[i]] = -ImpactScore(r[i]) /\ key[q[j]] = -ImpactScore(r[j])
    BY <2>1, <2>2
  <2>6. i # j
    BY <1>8
  <2>7. i \in Int /\ j \in Int
    BY <1>1
  <2>8. i < j => key[q[i]] <= key[q[j]]
    <3> HIDE DEF r, D, key
    <3> QED BY <1>6
  <2> HIDE DEF r, D, key
  <2> QED BY <2>4, <2>5, <2>6, <2>7, <2>8
<1>9. DOMAIN r = D
  OBVIOUS
<1> HIDE DEF r, q
<1>10. Prioritize(oevents) = r
  BY <1>5 DEF r
<1> QED BY <1>7, <1>8, <1>9, <1>10 DEF PrioritiesAgree

-----------------------------------------------------------------------------
(* Series of n numbers, one the other moved or turned round.               *)
SeriesOf(s, n) == n \in Nat /\ s \in [1 .. n -> Int]
Moved(s, n, r) == SeriesOf(s, n) /\ SeriesOf(r, n)
                  /\ \A i \in 1 .. n : r[i] = s[i] + 7
Turned(s, n, r) == SeriesOf(s, n) /\ SeriesOf(r, n)
                   /\ \A i \in 1 .. n : r[i] = s[(n - i) + 1]
Line(s) == [i \in DOMAIN s |-> i - 1]
Slope(s) ==
  Len(s) * Products(Line(s), s) - SumFunction(Line(s)) * SumFunction(s)

(* What the sums over a series are.                                        *)
LEMMA SeriesSums ==
  ASSUME NEW s, NEW n, SeriesOf(s, n)
  PROVE  /\ n \in Nat /\ DOMAIN s = 1 .. n /\ Len(s) = n /\ IsFiniteSet(1 .. n)
         /\ Cardinality(1 .. n) = n
         /\ SeriesOf(Line(s), n)
         /\ SumFunction(s) \in Int /\ Products(s, s) \in Int
         /\ Products(Line(s), s) \in Int /\ SumFunction(Line(s)) \in Int
         /\ Spread(s) = n * Products(s, s) - SumFunction(s) * SumFunction(s)
         /\ Spread(s) \in Int /\ Slope(s) \in Int
<1>1. n \in Nat /\ s \in [1 .. n -> Int] /\ DOMAIN s = 1 .. n /\ Len(s) = n
  BY DEF SeriesOf
<1>2. IsFiniteSet(1 .. n) /\ Cardinality(1 .. n) = n
  BY <1>1, FS_Interval
<1>3. Line(s) \in [1 .. n -> Int] /\ SeriesOf(Line(s), n)
  BY <1>1 DEF Line, SeriesOf
<1>4. ASSUME NEW f \in [1 .. n -> Int] PROVE SumFunction(f) \in Int
  <2>1. SumFunctionOnSet(f, 1 .. n) \in Int
    BY <1>2, IntegerSums
  <2> QED BY <2>1 DEF SumFunction
<1>5. ASSUME NEW f \in [1 .. n -> Int] PROVE Products(f, s) \in Int
  <2>1. [i \in 1 .. n |-> f[i] * s[i]] \in [1 .. n -> Int]
    BY <1>1
  <2> QED BY <1>1, <1>4, <2>1 DEF Products
<1>6. /\ SumFunction(s) \in Int /\ Products(s, s) \in Int
      /\ Products(Line(s), s) \in Int /\ SumFunction(Line(s)) \in Int
  BY <1>1, <1>3, <1>4, <1>5
<1>7. Spread(s) = n * Products(s, s) - SumFunction(s) * SumFunction(s)
  BY <1>1 DEF Spread
<1>8. Slope(s)
        = n * Products(Line(s), s) - SumFunction(Line(s)) * SumFunction(s)
  BY <1>1 DEF Slope
<1> QED BY <1>1, <1>2, <1>3, <1>6, <1>7, <1>8

(* The sum of a series that is a sum of others.                            *)
Combines(k, n, a, f, b, g, c) ==
  /\ n \in Nat /\ f \in [1 .. n -> Int] /\ g \in [1 .. n -> Int]
  /\ k \in [1 .. n -> Int] /\ a \in Int /\ b \in Int /\ c \in Int
  /\ \A i \in 1 .. n : k[i] = a * f[i] + b * g[i] + c
LEMMA SeriesLinear ==
  ASSUME NEW n, NEW f, NEW g, NEW a, NEW b, NEW c, NEW k,
         Combines(k, n, a, f, b, g, c)
  PROVE  SumFunction(k) = a * SumFunction(f) + b * SumFunction(g) + c * n
<1>0. /\ n \in Nat /\ f \in [1 .. n -> Int] /\ g \in [1 .. n -> Int]
      /\ k \in [1 .. n -> Int] /\ a \in Int /\ b \in Int /\ c \in Int
      /\ \A i \in 1 .. n : k[i] = a * f[i] + b * g[i] + c
  BY DEF Combines
<1> USE <1>0
<1>1. IsFiniteSet(1 .. n) /\ Cardinality(1 .. n) = n
  BY FS_Interval
<1> DEFINE D == 1 .. n
<1>2. SumFunctionOnSet(k, D)
        = a * SumFunctionOnSet(f, D) + b * SumFunctionOnSet(g, D) + c * n
  <2>1. \A i \in D : k[i] = a * f[i] + b * g[i] + c
    OBVIOUS
  <2>2. f \in [D -> Int] /\ g \in [D -> Int] /\ k \in [D -> Int]
    OBVIOUS
  <2>3. IsFiniteSet(D) /\ Cardinality(D) = n
    BY <1>1
  <2> HIDE DEF D
  <2>4. SumFunctionOnSet(k, D) = a * SumFunctionOnSet(f, D)
          + b * SumFunctionOnSet(g, D) + c * Cardinality(D)
    <3>1. Linear(k, D, a, f, b, g, c)
      BY <2>1, <2>2, <2>3 DEF Linear
    <3> QED BY <3>1, SumIsLinear
  <2> QED BY <2>3, <2>4
<1> QED BY <1>2 DEF SumFunction

(* A series turned round has the same sum.                                 *)
LEMMA SeriesTurned ==
  ASSUME NEW n \in Nat, NEW f \in [1 .. n -> Int], NEW g \in [1 .. n -> Int],
         \A i \in 1 .. n : g[i] = f[(n - i) + 1]
  PROVE  SumFunction(g) = SumFunction(f)
<1> DEFINE D == 1 .. n
           p == [i \in D |-> (n - i) + 1]
<1>1. IsFiniteSet(D)
  BY FS_Interval
<1>2. p \in [D -> D] /\ \A x \in D : p[p[x]] = x
  OBVIOUS
<1>3. \A x \in D : g[x] = f[p[x]]
  OBVIOUS
<1>4. f \in [D -> Int] /\ g \in [D -> Int] /\ DOMAIN f = D /\ DOMAIN g = D
  OBVIOUS
<1> HIDE DEF D, p
<1>5. SumFunctionOnSet(g, D) = SumFunctionOnSet(f, D)
  <2>1. Mirrors(g, D, f, p)
    BY <1>1, <1>2, <1>3, <1>4 DEF Mirrors
  <2> QED BY <2>1, SumReindexed
<1> QED BY <1>4, <1>5 DEF SumFunction
(* Moving a series changes neither how far its values spread nor its       *)
(* slope.                                                                  *)
LEMMA MovedAgrees ==
  ASSUME NEW s, NEW n, NEW r, Moved(s, n, r)
  PROVE  /\ SumFunction(r) = SumFunction(s) + 7 * n
         /\ Spread(r) = Spread(s) /\ Slope(r) = Slope(s) /\ Line(r) = Line(s)
<1>1. /\ SeriesOf(s, n) /\ SeriesOf(r, n) /\ \A i \in 1 .. n : r[i] = s[i] + 7
      /\ n \in Nat /\ s \in [1 .. n -> Int] /\ r \in [1 .. n -> Int]
  BY DEF Moved, SeriesOf
<1>2. /\ DOMAIN s = 1 .. n /\ DOMAIN r = 1 .. n /\ Len(s) = n /\ Len(r) = n
  BY <1>1, SeriesSums
<1>3. Line(r) = Line(s)
  BY <1>2 DEF Line
<1> DEFINE x == Line(s)
           S == SumFunction(s)
           X == SumFunction(x)
           Q == Products(s, s)
           P == Products(x, s)
<1>4. x \in [1 .. n -> Int] /\ S \in Int /\ X \in Int /\ Q \in Int /\ P \in Int
  BY <1>1, SeriesSums DEF SeriesOf
<1> HIDE DEF x
<1>5. SumFunction(r) = S + 7 * n
  <2>1. \A i \in 1 .. n : r[i] = 1 * s[i] + 0 * s[i] + 7
    BY <1>1
  <2>2. SumFunction(r) = 1 * S + 0 * S + 7 * n
    <3>1. Combines(r, n, 1, s, 0, s, 7)
      BY <1>1, <2>1 DEF Combines
    <3> QED BY <3>1, SeriesLinear
  <2> QED BY <2>2, <1>1, <1>4
<1>6. Products(r, r) = Q + 14 * S + 49 * n
  <2> DEFINE f == [i \in 1 .. n |-> s[i] * s[i]]
             k == [i \in 1 .. n |-> r[i] * r[i]]
  <2>1. f \in [1 .. n -> Int] /\ k \in [1 .. n -> Int]
    BY <1>1
  <2>2. ASSUME NEW i \in 1 .. n PROVE k[i] = 1 * f[i] + 14 * s[i] + 49
    <3>1. r[i] = s[i] + 7 /\ s[i] \in Int
      BY <1>1
    <3>2. k[i] = (s[i] + 7) * (s[i] + 7) /\ f[i] = s[i] * s[i]
      BY <3>1
    <3> QED BY <3>1, <3>2
  <2>3. Q = SumFunction(f) /\ Products(r, r) = SumFunction(k)
    BY <1>2 DEF Products
  <2> HIDE DEF f, k
  <2>4. SumFunction(k) = 1 * SumFunction(f) + 14 * SumFunction(s) + 49 * n
    <3>1. Combines(k, n, 1, f, 14, s, 49)
      BY <1>1, <2>1, <2>2 DEF Combines
    <3> QED BY <3>1, SeriesLinear
  <2> HIDE DEF Q, S
  <2>5. SumFunction(k) = 1 * Q + 14 * S + 49 * n
    BY <2>3, <2>4 DEF S
  <2> QED BY <2>3, <2>5, <1>4
<1>7. Products(x, r) = P + 7 * X
  <2> DEFINE f == [i \in 1 .. n |-> x[i] * s[i]]
             k == [i \in 1 .. n |-> x[i] * r[i]]
  <2>1. f \in [1 .. n -> Int] /\ k \in [1 .. n -> Int]
    <3>1. ASSUME NEW i \in 1 .. n
          PROVE  x[i] * s[i] \in Int /\ x[i] * r[i] \in Int
      <4>1. x[i] \in Int /\ s[i] \in Int /\ r[i] \in Int
        BY <1>1, <1>4
      <4> QED BY <4>1
    <3> QED BY <3>1
  <2>2. ASSUME NEW i \in 1 .. n PROVE k[i] = 1 * f[i] + 7 * x[i] + 0
    <3>1. PICK v \in Int, w \in Int : v = s[i] /\ w = x[i]
      BY <1>1, <1>4
    <3>2. k[i] = w * (v + 7) /\ f[i] = w * v
      BY <1>1, <3>1
    <3> HIDE DEF k, f
    <3>3. w * (v + 7) = 1 * (w * v) + 7 * w + 0
      OBVIOUS
    <3> QED BY <3>1, <3>2, <3>3
  <2>3. P = SumFunction(f) /\ Products(x, r) = SumFunction(k)
    BY <1>2 DEF Products
  <2> HIDE DEF f, k
  <2>4. SumFunction(k) = 1 * SumFunction(f) + 7 * SumFunction(x) + 0 * n
    <3>1. Combines(k, n, 1, f, 7, x, 0)
      BY <1>1, <1>4, <2>1, <2>2 DEF Combines
    <3> QED BY <3>1, SeriesLinear
  <2> HIDE DEF P, X
  <2>5. SumFunction(k) = 1 * P + 7 * X + 0 * n
    BY <2>3, <2>4 DEF X
  <2> QED BY <2>3, <2>5, <1>4, <1>1
<1>8. Spread(r) = n * (Q + 14 * S + 49 * n) - (S + 7 * n) * (S + 7 * n)
  BY <1>2, <1>5, <1>6 DEF Spread
<1>9. Slope(r) = n * (P + 7 * X) - X * (S + 7 * n)
  BY <1>2, <1>3, <1>5, <1>7 DEF Slope, x
<1>10. Spread(s) = n * Q - S * S /\ Slope(s) = n * P - X * S
  BY <1>2 DEF Spread, Slope, x
<1> HIDE DEF S, X, Q, P
<1>11. Spread(r) = Spread(s)
  BY <1>1, <1>4, <1>8, <1>10
<1>12. Slope(r) = Slope(s)
  BY <1>1, <1>4, <1>9, <1>10
<1> QED BY <1>3, <1>5, <1>11, <1>12 DEF S

(* Twice the sum of the line's values.                                     *)
LEMMA LineSum ==
  ASSUME NEW n, NEW x, n \in Nat, x = [i \in 1 .. n |-> i - 1]
  PROVE  SumFunction(x) \in Int /\ 2 * SumFunction(x) = n * (n - 1)
<1> DEFINE y == [i \in 1 .. n |-> n - i]
           X == SumFunction(x)
           Y == SumFunction(y)
<1>1. x \in [1 .. n -> Int] /\ y \in [1 .. n -> Int]
  OBVIOUS
<1>2. Y = X
  <2>1. \A i \in 1 .. n : y[i] = x[(n - i) + 1]
    OBVIOUS
  <2> HIDE DEF y
  <2> QED BY <1>1, <2>1, SeriesTurned
<1>3. Y = (-1) * X + 0 * X + (n - 1) * n
  <2>1. \A i \in 1 .. n : y[i] = (-1) * x[i] + 0 * x[i] + (n - 1)
    OBVIOUS
  <2>2. -1 \in Int /\ 0 \in Int /\ n - 1 \in Int
    OBVIOUS
  <2> HIDE DEF y
  <2>3. Combines(y, n, -1, x, 0, x, n - 1)
    BY <1>1, <2>1, <2>2 DEF Combines
  <2> QED BY <2>3, SeriesLinear
<1>4. X \in Int
  <2>1. SeriesOf(x, n)
    BY <1>1 DEF SeriesOf
  <2> QED BY <2>1, SeriesSums
<1> HIDE DEF X, Y
<1>5. X = (-1) * X + 0 * X + (n - 1) * n
  BY <1>2, <1>3
<1>6. 2 * X = n * (n - 1)
  BY <1>4, <1>5
<1> QED BY <1>4, <1>6 DEF X

(* The line itself is not flat.                                            *)
LEMMA LineSpreads ==
  ASSUME NEW n, NEW x, n \in Nat, n >= 3, x = [i \in 1 .. n |-> i - 1]
  PROVE  Spread(x) \in Int /\ Spread(x) > 0
<1> DEFINE X == SumFunction(x)
           Q == Products(x, x)
           D == 1 .. n
           f == [i \in D |-> x[i] * x[i]]
           k == [i \in D |-> (n * x[i] - X) * (n * x[i] - X)]
<1>1. x \in [D -> Int] /\ SeriesOf(x, n)
  BY DEF SeriesOf
<1>2. /\ X \in Int /\ Q \in Int /\ Spread(x) \in Int /\ DOMAIN x = D
      /\ Spread(x) = n * Q - X * X /\ IsFiniteSet(D)
  BY <1>1, SeriesSums
<1>3. 2 * X = n * (n - 1)
  BY LineSum
<1>4. X > 0
  <2> HIDE DEF X
  <2>1. n * (n - 1) >= n
    <3>1. n * (n - 1) = n * n - n /\ n * n >= 3 * n
      OBVIOUS
    <3> QED BY <3>1
  <2>2. X \in Int
    BY <1>2
  <2>3. 2 * X >= n
    BY <1>3, <2>1
  <2> QED BY <2>2, <2>3
<1> HIDE DEF X
<1>5. f \in [D -> Int] /\ k \in [D -> Nat] /\ k \in [D -> Int]
  <2>1. ASSUME NEW i \in D PROVE x[i] * x[i] \in Int
    BY <1>1
  <2>2. ASSUME NEW i \in D PROVE (n * x[i] - X) * (n * x[i] - X) \in Nat
    <3>1. PICK v \in Int : v = n * x[i] - X
      BY <1>1, <1>2
    <3>2. v * v \in Nat
      OBVIOUS
    <3> QED BY <3>1, <3>2
  <2>3. f \in [D -> Int]
    BY <2>1
  <2>4. k \in [D -> Nat]
    BY <2>2
  <2> HIDE DEF f, k
  <2>5. k \in [D -> Int]
    BY <2>4
  <2> QED BY <2>3, <2>4, <2>5
<1>6. SumFunction(k) = (n * n) * Q + (-(2 * n * X)) * X + (X * X) * n
  <2>1. ASSUME NEW i \in D
        PROVE  k[i] = (n * n) * f[i] + (-(2 * n * X)) * x[i] + X * X
    <3>1. PICK v \in Int : v = x[i]
      BY <1>1
    <3>2. k[i] = (n * v - X) * (n * v - X) /\ f[i] = v * v
      BY <3>1
    <3> HIDE DEF k, f
    <3>3. (n * v - X) * (n * v - X)
            = (n * n) * (v * v) + (-(2 * n * X)) * v + X * X
      BY <1>2
    <3> QED BY <3>1, <3>2, <3>3
  <2>2. n * n \in Int /\ -(2 * n * X) \in Int /\ X * X \in Int
    BY <1>2
  <2>3. Q = SumFunction(f)
    BY <1>2 DEF Products
  <2> HIDE DEF f, k
  <2>4. SumFunction(k) = (n * n) * SumFunction(f)
          + (-(2 * n * X)) * SumFunction(x) + (X * X) * n
    <3>1. Combines(k, n, n * n, f, -(2 * n * X), x, X * X)
      BY <1>1, <1>5, <2>1, <2>2 DEF Combines
    <3> QED BY <3>1, SeriesLinear
  <2> QED BY <2>3, <2>4 DEF X
<1>7. k[1] = X * X /\ 1 \in D
  <2>1. 1 \in D /\ x[1] = 0
    OBVIOUS
  <2>2. k[1] = (n * 0 - X) * (n * 0 - X)
    BY <2>1
  <2> QED BY <1>2, <2>1, <2>2
<1>8. SumFunction(k) >= X * X
  <2>1. SumFunction(k) = SumFunctionOnSet(k, D)
    <3>1. DOMAIN k = D
      OBVIOUS
    <3> QED BY <3>1 DEF SumFunction
  <2> HIDE DEF k, D
  <2>2. SumFunctionOnSet(k, D) >= k[1]
    BY <1>2, <1>5, <1>7, SumReaches
  <2> QED BY <2>1, <2>2, <1>7
<1>9. n * Spread(x) >= X * X
  <2> HIDE DEF Q, k
  <2>1. (n * n) * Q + (-(2 * n * X)) * X + (X * X) * n = n * (n * Q - X * X)
    BY <1>2
  <2> QED BY <1>2, <1>6, <1>8, <2>1
<1>10. X * X > 0
  BY <1>2, <1>4
<1>11. n * Spread(x) > 0
  BY <1>2, <1>9, <1>10
<1> HIDE DEF X, Q
<1>12. PICK w \in Int : w = Spread(x)
  BY <1>2
<1>13. w > 0
  <2>1. n * w > 0
    BY <1>11, <1>12
  <2>2. w <= 0 => n * w <= 0
    OBVIOUS
  <2> QED BY <2>1, <2>2
<1> QED BY <1>12, <1>13

(* A series turned round spreads alike and slopes the other way.           *)
LEMMA TurnedAgrees ==
  ASSUME NEW s, NEW n, NEW r, Turned(s, n, r)
  PROVE  Spread(r) = Spread(s) /\ Slope(r) = -Slope(s) /\ Line(r) = Line(s)
<1>1. /\ SeriesOf(s, n) /\ SeriesOf(r, n)
      /\ \A i \in 1 .. n : r[i] = s[(n - i) + 1]
      /\ n \in Nat /\ s \in [1 .. n -> Int] /\ r \in [1 .. n -> Int]
  BY DEF Turned, SeriesOf
<1>2. /\ DOMAIN s = 1 .. n /\ DOMAIN r = 1 .. n /\ Len(s) = n /\ Len(r) = n
  BY <1>1, SeriesSums
<1>3. Line(r) = Line(s) /\ Line(s) = [i \in 1 .. n |-> i - 1]
  BY <1>2 DEF Line
<1> DEFINE x == Line(s)
           S == SumFunction(s)
           X == SumFunction(x)
           Q == Products(s, s)
           P == Products(x, s)
<1>4. x \in [1 .. n -> Int] /\ S \in Int /\ X \in Int /\ Q \in Int /\ P \in Int
  BY <1>1, SeriesSums DEF SeriesOf
<1>x. \A i \in 1 .. n : x[i] = i - 1
  BY <1>3
<1>9. 2 * X = n * (n - 1)
  <2> HIDE DEF x
  <2>1. x = [i \in 1 .. n |-> i - 1]
    BY <1>3 DEF x
  <2> QED BY <1>1, <2>1, LineSum
<1> HIDE DEF x
<1>5. SumFunction(r) = S
  BY <1>1, SeriesTurned
<1>6. Products(r, r) = Q
  <2> DEFINE f == [i \in 1 .. n |-> s[i] * s[i]]
             k == [i \in 1 .. n |-> r[i] * r[i]]
  <2>1. f \in [1 .. n -> Int] /\ k \in [1 .. n -> Int]
    BY <1>1
  <2>2. ASSUME NEW i \in 1 .. n PROVE k[i] = f[(n - i) + 1]
    <3>1. r[i] = s[(n - i) + 1] /\ (n - i) + 1 \in 1 .. n
      BY <1>1
    <3> QED BY <3>1
  <2>3. Q = SumFunction(f) /\ Products(r, r) = SumFunction(k)
    BY <1>2 DEF Products
  <2> HIDE DEF f, k
  <2>4. SumFunction(k) = SumFunction(f)
    BY <1>1, <2>1, <2>2, SeriesTurned
  <2> QED BY <2>3, <2>4
<1>7. Products(x, r) = (-1) * P + (n - 1) * S + 0 * n
  <2> DEFINE k == [i \in 1 .. n |-> x[i] * r[i]]
             f == [i \in 1 .. n |-> x[i] * s[i]]
             g == [i \in 1 .. n |-> (n - i) * s[i]]
  <2>1. /\ f \in [1 .. n -> Int] /\ k \in [1 .. n -> Int]
        /\ g \in [1 .. n -> Int]
    <3>1. f \in [1 .. n -> Int]
      BY <1>1, <1>4
    <3>2. k \in [1 .. n -> Int]
      BY <1>1, <1>4
    <3>3. \A i \in 1 .. n : n - i \in Int /\ s[i] \in Int
      BY <1>1
    <3>4. g \in [1 .. n -> Int]
      BY <3>3
    <3> QED BY <3>1, <3>2, <3>4
  <2>2. ASSUME NEW i \in 1 .. n PROVE k[i] = g[(n - i) + 1]
    <3>1. r[i] = s[(n - i) + 1] /\ (n - i) + 1 \in 1 .. n
          /\ x[i] = i - 1 /\ n - ((n - i) + 1) = i - 1
      BY <1>1, <1>x
    <3> QED BY <3>1
  <2>3. ASSUME NEW i \in 1 .. n
        PROVE  g[i] = (-1) * f[i] + (n - 1) * s[i] + 0
    <3>1. PICK v \in Int : v = s[i]
      BY <1>1
    <3>2. f[i] = (i - 1) * v /\ g[i] = (n - i) * v
      BY <1>x, <3>1
    <3> HIDE DEF f, g
    <3>3. (n - i) * v = (-1) * ((i - 1) * v) + (n - 1) * v + 0
      BY <1>1
    <3> QED BY <3>1, <3>2, <3>3
  <2>4. P = SumFunction(f) /\ Products(x, r) = SumFunction(k)
    BY <1>2 DEF Products
  <2>5. -1 \in Int /\ n - 1 \in Int /\ 0 \in Int
    BY <1>1
  <2> HIDE DEF f, k, g
  <2>6. SumFunction(k) = SumFunction(g)
    BY <1>1, <2>1, <2>2, SeriesTurned
  <2>7. SumFunction(g)
          = (-1) * SumFunction(f) + (n - 1) * SumFunction(s) + 0 * n
    <3>1. Combines(g, n, -1, f, n - 1, s, 0)
      BY <1>1, <2>1, <2>3, <2>5 DEF Combines
    <3> QED BY <3>1, SeriesLinear
  <2> QED BY <2>4, <2>6, <2>7
<1>8. Spread(r) = Spread(s)
  BY <1>2, <1>5, <1>6 DEF Spread
<1>10. /\ Slope(r) = n * ((-1) * P + (n - 1) * S + 0 * n) - X * S
       /\ Slope(s) = n * P - X * S
  BY <1>2, <1>3, <1>5, <1>7 DEF Slope, x
<1> HIDE DEF S, X, P, Q
<1>11. n * ((-1) * P + (n - 1) * S + 0 * n) - X * S
         = (n * (n - 1)) * S - n * P - X * S
  BY <1>1, <1>4
<1>12. (n * (n - 1)) * S = 2 * X * S
  BY <1>9
<1>13. 2 * X * S - n * P - X * S = -(n * P - X * S)
  BY <1>1, <1>4
<1> QED BY <1>3, <1>8, <1>10, <1>11, <1>12, <1>13

(* A trend is told from length, spread and slope.                          *)
LEMMA TrendIs ==
  ASSUME NEW s
  PROVE  Trend(s) =
           IF \/ Len(s) < 3 \/ Spread(s) = 0
              \/ ~(2 * Slope(s) * Slope(s) >= Spread(Line(s)) * Spread(s))
              \/ 100 * Magnitude(Slope(s)) < Spread(Line(s)) THEN "stable"
           ELSE IF Slope(s) > 0 THEN "up" ELSE "down"
  BY DEF Trend, Slope, Line

(* So the trend of a series moved is the same, of one turned opposite.     *)
LEMMA TrendsAgree ==
  ASSUME NEW s, NEW n, NEW r, NEW u, Moved(s, n, r), Turned(s, n, u)
  PROVE  Trend(r) = Trend(s) /\ Trend(u) = Opposite[Trend(s)]
<1>1. /\ SeriesOf(s, n) /\ SeriesOf(r, n) /\ SeriesOf(u, n) /\ n \in Nat
  BY DEF Moved, Turned, SeriesOf
<1>2. Len(s) = n /\ Len(r) = n /\ Len(u) = n /\ DOMAIN s = 1 .. n
  BY <1>1, SeriesSums
<1>3. Spread(r) = Spread(s) /\ Slope(r) = Slope(s) /\ Line(r) = Line(s)
  BY MovedAgrees
<1>4. Spread(u) = Spread(s) /\ Slope(u) = -Slope(s) /\ Line(u) = Line(s)
  BY TurnedAgrees
<1>5. Trend(r) = Trend(s)
  BY <1>2, <1>3, TrendIs
<1>6. PICK p \in Int, q \in Int : p = Slope(s) /\ q = Spread(s)
  BY <1>1, SeriesSums
<1>7. n >= 3 => Spread(Line(s)) \in Int /\ Spread(Line(s)) > 0
  <2>1. Line(s) = [i \in 1 .. n |-> i - 1]
    BY <1>2 DEF Line
  <2> QED BY <1>1, <2>1, LineSpreads
<1>8. CASE n < 3
  <2>1. Trend(s) = "stable" /\ Trend(u) = "stable"
    BY <1>2, <1>8, TrendIs
  <2> QED BY <1>5, <2>1 DEF Opposite
<1>9. CASE n >= 3
  <2>1. PICK w \in Int : w = Spread(Line(s)) /\ w > 0
    BY <1>7, <1>9
  <2>2. Slope(u) = -p /\ Slope(s) = p /\ Spread(u) = q /\ Spread(s) = q
        /\ Spread(Line(s)) = w /\ Spread(Line(u)) = w
    BY <1>4, <1>6, <2>1
  <2>3. ~(n < 3)
    BY <1>1, <1>9
  <2>4. Trend(s) = IF \/ q = 0 \/ ~(2 * p * p >= w * q)
                      \/ 100 * Magnitude(p) < w THEN "stable"
                   ELSE IF p > 0 THEN "up" ELSE "down"
    BY <1>2, <2>2, <2>3, TrendIs
  <2>5. Trend(u) = IF \/ q = 0 \/ ~(2 * (-p) * (-p) >= w * q)
                      \/ 100 * Magnitude(-p) < w THEN "stable"
                   ELSE IF -p > 0 THEN "up" ELSE "down"
    BY <1>2, <2>2, <2>3, TrendIs
  <2>6. 2 * (-p) * (-p) = 2 * p * p
    OBVIOUS
  <2>7. Magnitude(-p) = Magnitude(p) /\ (p = 0 => 100 * Magnitude(p) < w)
    BY <2>1 DEF Magnitude
  <2>8. p # 0 => (-p > 0 <=> ~(p > 0))
    OBVIOUS
  <2> DEFINE flat == \/ q = 0 \/ ~(2 * p * p >= w * q)
                     \/ 100 * Magnitude(p) < w
             rises == p > 0
             falls == -p > 0
  <2>9. /\ Trend(s) = IF flat THEN "stable" ELSE IF rises THEN "up" ELSE "down"
        /\ Trend(u) = IF flat THEN "stable" ELSE IF falls THEN "up" ELSE "down"
        /\ ~flat => (falls <=> ~rises)
    BY <2>4, <2>5, <2>6, <2>7, <2>8
  <2> HIDE DEF flat, rises, falls
  <2>10. /\ Opposite["stable"] = "stable" /\ Opposite["up"] = "down"
         /\ Opposite["down"] = "up"
    BY DEF Opposite
  <2> QED BY <1>5, <2>9, <2>10
<1> QED BY <1>1, <1>8, <1>9

(* A moved series is sorted by the same order.                             *)
LEMMA SortedMoves ==
  ASSUME NEW s, NEW n, NEW r, Moved(s, n, r)
  PROVE  \A k \in 1 .. n : /\ SortedBy(s, s)[k] \in Int
                           /\ SortedBy(r, r)[k] = SortedBy(s, s)[k] + 7
<1>1. /\ \A i \in 1 .. n : r[i] = s[i] + 7
      /\ n \in Nat /\ s \in [1 .. n -> Int] /\ r \in [1 .. n -> Int]
      /\ DOMAIN s = 1 .. n /\ DOMAIN r = 1 .. n
  BY DEF Moved, SeriesOf
<1> DEFINE D == 1 .. n
<1>2. IsFiniteSet(D) /\ Cardinality(D) = n
  BY <1>1, FS_Interval
<1>3. \A i \in D : UpTo(D, r, i) = UpTo(D, s, i)
  <2>1. ASSUME NEW i \in D, NEW j \in D
        PROVE  (r[j] < r[i] \/ (r[j] = r[i] /\ j <= i))
                 <=> (s[j] < s[i] \/ (s[j] = s[i] /\ j <= i))
    <3>1. /\ r[i] = s[i] + 7 /\ r[j] = s[j] + 7
          /\ s[i] \in Int /\ s[j] \in Int
      BY <1>1
    <3> QED BY <3>1
  <2>2. ASSUME NEW i \in D PROVE UpTo(D, r, i) = UpTo(D, s, i)
    <3>1. \A j \in D : (r[j] < r[i] \/ (r[j] = r[i] /\ j <= i))
                 <=> (s[j] < s[i] \/ (s[j] = s[i] /\ j <= i))
      BY <2>1
    <3> HIDE DEF D
    <3> QED BY <3>1 DEF UpTo
  <2> QED BY <2>2
<1>4. Ordered(D, r) = Ordered(D, s)
  <2>1. \A k : (CHOOSE i \in D : Cardinality(UpTo(D, r, i)) = k)
                 = CHOOSE i \in D : Cardinality(UpTo(D, s, i)) = k
    <3> HIDE DEF D
    <3>1. ASSUME NEW k
          PROVE  (CHOOSE i \in D : Cardinality(UpTo(D, r, i)) = k)
                   = CHOOSE i \in D : Cardinality(UpTo(D, s, i)) = k
      <4>1. \A i : (i \in D /\ Cardinality(UpTo(D, r, i)) = k)
                     <=> (i \in D /\ Cardinality(UpTo(D, s, i)) = k)
        BY <1>3
      <4> QED BY <4>1
    <3> QED BY <3>1
  <2> HIDE DEF D
  <2> QED BY <2>1 DEF Ordered
<1>5. \A k \in D : Ordered(D, s)[k] \in D
  <2>1. D \subseteq Int /\ s \in [D -> Int]
    BY <1>1
  <2>2. D = 1 .. Cardinality(D)
    BY <1>2
  <2> HIDE DEF D
  <2>3. Orders(Ordered(D, s), D, s)
    BY <1>2, <2>1, OrderedSorts
  <2>4. Ordered(D, s) \in [1 .. Cardinality(D) -> D]
    BY <2>3 DEF Orders
  <2> QED BY <2>2, <2>4
<1>6. /\ SortedBy(s, s) = [k \in D |-> s[Ordered(D, s)[k]]]
      /\ SortedBy(r, r) = [k \in D |-> r[Ordered(D, s)[k]]]
  <2>1. DOMAIN s = D /\ DOMAIN r = D
    BY <1>1
  <2> HIDE DEF D
  <2> QED BY <1>4, <2>1 DEF SortedBy
<1>7. ASSUME NEW k \in D
      PROVE  /\ SortedBy(s, s)[k] \in Int
             /\ SortedBy(r, r)[k] = SortedBy(s, s)[k] + 7
  <2>1. PICK i \in D : i = Ordered(D, s)[k]
    BY <1>5
  <2>2. SortedBy(s, s)[k] = s[i] /\ SortedBy(r, r)[k] = r[i]
    <3> HIDE DEF D
    <3> QED BY <1>6, <2>1
  <2> QED BY <1>1, <2>2
<1> QED BY <1>7

(* An anomaly moved with its past is one.                                  *)
LEMMA AnomaliesAgree ==
  ASSUME NEW s, NEW n, NEW r, Moved(s, n, r), NEW v \in Int
  PROVE  /\ ZScoreAnomaly(v, s) = ZScoreAnomaly(v + 7, r)
         /\ IqrAnomaly(v, s) = IqrAnomaly(v + 7, r)
<1>1. SeriesOf(s, n) /\ SeriesOf(r, n)
  BY DEF Moved
<1>2. /\ n \in Nat /\ Len(s) = n /\ Len(r) = n /\ SumFunction(s) \in Int
  BY <1>1, SeriesSums
<1>3. Spread(r) = Spread(s) /\ SumFunction(r) = SumFunction(s) + 7 * n
  BY MovedAgrees
<1>4. ZScoreAnomaly(v, s) = ZScoreAnomaly(v + 7, r)
  <2>1. n * (v + 7) - SumFunction(r) = n * v - SumFunction(s)
    BY <1>2, <1>3
  <2> QED BY <1>2, <1>3, <2>1 DEF ZScoreAnomaly
<1>5. IqrAnomaly(v, s) = IqrAnomaly(v + 7, r)
  <2>1. CASE n >= 4
    <3> DEFINE i == (n \div 4) + 1
               j == ((3 * n) \div 4) + 1
    <3>1. i \in 1 .. n /\ j \in 1 .. n
      BY <1>2, <2>1
    <3> HIDE DEF i, j
    <3>2. PICK a \in Int, b \in Int :
            /\ SortedBy(s, s)[i] = a /\ SortedBy(s, s)[j] = b
            /\ SortedBy(r, r)[i] = a + 7 /\ SortedBy(r, r)[j] = b + 7
      BY <3>1, SortedMoves
    <3>3. /\ (2 * v < 2 * a - 3 * (b - a))
               = (2 * (v + 7) < 2 * (a + 7) - 3 * ((b + 7) - (a + 7)))
          /\ (2 * v > 2 * b + 3 * (b - a))
               = (2 * (v + 7) > 2 * (b + 7) + 3 * ((b + 7) - (a + 7)))
      OBVIOUS
    <3>4. IqrAnomaly(v, s) = (2 * v < 2 * a - 3 * (b - a)
                                \/ 2 * v > 2 * b + 3 * (b - a))
      BY <1>2, <2>1, <3>2 DEF IqrAnomaly, i, j
    <3>5. IqrAnomaly(v + 7, r)
            = (2 * (v + 7) < 2 * (a + 7) - 3 * ((b + 7) - (a + 7))
                 \/ 2 * (v + 7) > 2 * (b + 7) + 3 * ((b + 7) - (a + 7)))
      BY <1>2, <2>1, <3>2 DEF IqrAnomaly, i, j
    <3> QED BY <3>3, <3>4, <3>5
  <2>2. CASE ~(n >= 4)
    BY <1>2, <2>2 DEF IqrAnomaly
  <2> QED BY <2>1, <2>2
<1> QED BY <1>4, <1>5

(* A series does not drift from itself.                                    *)
LEMMA NoDriftFromItself ==
  ASSUME NEW s, NEW n, SeriesOf(s, n)
  PROVE  ~Drifts(s, s)
<1>1. n \in Nat /\ Len(s) = n /\ SumFunction(s) \in Int
  BY SeriesSums
<1>2. n = 0 => s = <<>>
  <2>1. s \in Seq(Int)
    BY <1>1 DEF SeriesOf
  <2> QED BY <1>1, <2>1, EmptySeq
<1>3. PICK t \in Int : t = SumFunction(s)
  BY <1>1
<1>4. CASE n = 0
  BY <1>2, <1>4 DEF Drifts
<1>5. CASE n > 0
  <2>1. t * n - t * n = 0
    BY <1>1
  <2>2. t # 0 => ~(10 * Magnitude(0) >= Magnitude(t) * n)
    <3>1. t # 0 => Magnitude(t) \in Nat /\ Magnitude(t) >= 1
      BY DEF Magnitude
    <3>2. Magnitude(0) = 0
      BY DEF Magnitude
    <3>3. ASSUME NEW m \in Nat, m >= 1 PROVE m * n >= 1
      BY <1>1, <1>5, <3>3
    <3>4. CASE t # 0
      <4>1. PICK m \in Nat : m = Magnitude(t) /\ m >= 1
        BY <3>1, <3>4
      <4>2. m * n \in Int /\ m * n >= 1
        BY <4>1, <3>3, <1>1
      <4>3. 10 * Magnitude(0) = 0
        BY <3>2
      <4>4. ~(0 >= m * n)
        BY <4>2
      <4> QED BY <4>1, <4>3, <4>4
    <3> QED BY <3>4
  <2>3. Drifts(s, s) => IF t = 0 THEN t * n - t * n # 0
                        ELSE 10 * Magnitude(t * n - t * n) >= Magnitude(t) * n
    BY <1>1, <1>3 DEF Drifts
  <2> QED BY <2>1, <2>2, <2>3
<1> QED BY <1>1, <1>4, <1>5

(* What is found in any series agrees.                                     *)
LEMMA Detected == DetectionAgrees
<1> SUFFICES ASSUME NEW s \in Windows \ {<<>>}
             PROVE  LET past == Front(s)
                        v == Last(s)
                    IN  /\ ZScoreAnomaly(v, past)
                             = ZScoreAnomaly(v + 7, Raised(past))
                        /\ IqrAnomaly(v, past) = IqrAnomaly(v + 7, Raised(past))
                        /\ Trend(Raised(s)) = Trend(s)
                        /\ Trend(Reverse(s)) = Opposite[Trend(s)]
                        /\ ~Drifts(s, s)
  BY Zenon DEF DetectionAgrees
<1> DEFINE n == Len(s)
           past == Front(s)
           v == Last(s)
<1>1. n \in Nat /\ s \in Seq(Int)
  BY ObservationAssumption
<1>2. SeriesOf(s, n) /\ s \in Seq(Int) /\ Len(s) = n /\ DOMAIN s = 1 .. n
  BY <1>1 DEF SeriesOf
<1>3. s # <<>>
  OBVIOUS
<1> HIDE DEF n
<1>4. n >= 1
  <2>1. n # 0
    BY <1>2, <1>3, EmptySeq
  <2> QED BY <2>1, <1>1
<1>5. Moved(s, n, Raised(s))
  BY <1>2 DEF Moved, SeriesOf, Raised
<1>6. Turned(s, n, Reverse(s))
  BY <1>2 DEF Turned, SeriesOf, Reverse
<1>7. SeriesOf(past, n - 1) /\ v \in Int
  <2>1. past = [i \in 1 .. n - 1 |-> s[i]] /\ v = s[n]
    BY <1>1, <1>2, <1>4 DEF Front, Last
  <2> QED BY <2>1, <1>1, <1>2, <1>4 DEF SeriesOf
<1>8. Moved(past, n - 1, Raised(past))
  BY <1>7 DEF Moved, SeriesOf, Raised
<1> HIDE DEF past, v
<1>9. /\ ZScoreAnomaly(v, past) = ZScoreAnomaly(v + 7, Raised(past))
      /\ IqrAnomaly(v, past) = IqrAnomaly(v + 7, Raised(past))
  BY <1>7, <1>8, AnomaliesAgree
<1>10. Trend(Raised(s)) = Trend(s) /\ Trend(Reverse(s)) = Opposite[Trend(s)]
  BY <1>5, <1>6, TrendsAgree
<1>11. ~Drifts(s, s)
  BY <1>2, NoDriftFromItself
<1> QED BY <1>9, <1>10, <1>11 DEF past, v

(* An event is stored when it happens, not before those stored already.    *)
LEMMA TimesKeep ==
  ASSUME AutonomyInv, InTime(oevents), [ONext]_ovars
  PROVE  InTime(oevents')
<1>1. /\ oevents \in Seq(EventStored) /\ Len(oevents) \in Nat
      /\ DOMAIN oevents = 1 .. Len(oevents)
  BY DEF AutonomyInv, Observing
<1>2. ASSUME NEW t \in Thread, NEW h \in Happening, Observe(t, h)
      PROVE  InTime(oevents')
  <2>1. PICK at, e :
          /\ at = (IF oevents = <<>> THEN 0 ELSE oevents[Len(oevents)].at)
                     + h.gap
          /\ e = StoredEvent(h) /\ e.at = at
          /\ oevents' = Append(oevents, e)
    BY <1>2 DEF Observe, StoredEvent
  <2>2. \A i \in DOMAIN oevents : oevents[i] \in EventStored
    BY <1>1
  <2>3. \A i \in DOMAIN oevents : oevents[i].at \in Nat
    BY <2>2 DEF EventStored
  <2>4. h.gap \in Nat
    BY ObservationAssumption
  <2>5. \A i \in DOMAIN oevents : oevents[i].at <= at
    <3>1. ASSUME NEW i \in DOMAIN oevents PROVE oevents[i].at <= at
      <4>1. /\ Len(oevents) \in DOMAIN oevents /\ oevents # <<>>
            /\ i <= Len(oevents)
        BY <1>1
      <4>2. oevents[i].at <= oevents[Len(oevents)].at
        BY <4>1 DEF InTime
      <4>3. at = oevents[Len(oevents)].at + h.gap
        BY <2>1, <4>1
      <4> QED BY <2>3, <2>4, <4>1, <4>2, <4>3
    <3> QED BY <3>1
  <2>6. at \in Nat
    <3>1. oevents # <<>> => Len(oevents) \in DOMAIN oevents
      BY <1>1, EmptySeq
    <3> QED BY <2>1, <2>3, <2>4, <3>1
  <2>7. /\ DOMAIN oevents' = 1 .. Len(oevents) + 1
        /\ \A i \in DOMAIN oevents : oevents'[i] = oevents[i]
        /\ oevents'[Len(oevents) + 1] = e /\ e.at = at
    BY <1>1, <2>1
  <2>8. ASSUME NEW i \in DOMAIN oevents', NEW j \in DOMAIN oevents', i <= j
        PROVE  oevents'[i].at <= oevents'[j].at
    <3>1. CASE j \in DOMAIN oevents
      <4>1. i \in DOMAIN oevents
        BY <1>1, <2>7, <2>8, <3>1
      <4> QED BY <2>7, <2>8, <3>1, <4>1 DEF InTime
    <3>2. CASE j = Len(oevents) + 1 /\ i \in DOMAIN oevents
      BY <2>5, <2>7, <3>2
    <3>3. CASE j = Len(oevents) + 1 /\ i = Len(oevents) + 1
      BY <2>6, <2>7, <3>3
    <3> QED BY <1>1, <2>7, <2>8, <3>1, <3>2, <3>3
  <2> QED BY <2>8 DEF InTime
<1>3. CASE oevents' = oevents
  BY <1>3
<1> QED
  BY <1>2, <1>3
     DEF ONext, ovars, DayPasses, CompareGoal, SaveNewGoal, EndObservation

(* No metric gets two goals in a day, unless two requests that compared    *)
(* theirs at the same time met; whatever events come, in whatever order    *)
(* (GoalGenerator.process_event), and goals alike merge into one.  The     *)
(* groups, the order of importance and the anomalies, trends and drifts    *)
(* made of the events stored agree (EventCorrelationEngine,                *)
(* EventPrioritizer, AnomalyDetection, TrendDetection, DriftDetection).    *)
THEOREM GoalsOnceADay == OSpec => []GoalsHold
<1> DEFINE Stored == AutonomyInv /\ InTime(oevents)
<1>1. OInit => Stored
  <2>1. OInit => InTime(oevents)
    BY DEF OInit, InTime
  <2> QED BY <2>1, GoalsInit
<1>2. Stored /\ [ONext]_ovars => Stored'
  BY GoalsStep, TimesKeep
<1>3. Stored => GoalsHold
  <2>1. AutonomyInv => oevents \in Seq(EventStored)
    BY DEF AutonomyInv, Observing
  <2>2. Stored => ObservationsAgree
    BY <2>1, Correlated, Prioritized, Detected DEF ObservationsAgree
  <2> QED BY <2>2, AutonomyInvImplies DEF GoalsHold
<1> HIDE DEF Stored
<1> QED BY <1>1, <1>2, <1>3, PTL DEF OSpec

-----------------------------------------------------------------------------
(* The depth-first search.  Marks, what a call may find, and the calls.    *)
Marks(ids) == [ids -> 0 .. 2]
Founds(ids) == [ok : BOOLEAN, mark : Marks(ids)]
Searches(ids) == [ids -> [Marks(ids) -> Founds(ids)]]
CallAt(graph, f, u, mark) ==
  /\ IsFiniteSet(DOMAIN graph.nodes)
  /\ f \in Searches(DOMAIN graph.nodes)
  /\ u \in DOMAIN graph.nodes /\ mark \in Marks(DOMAIN graph.nodes)

(* A step of the search answers with marks.                                *)
LEMMA EnterIsTyped ==
  ASSUME NEW ids, NEW f, NEW found, NEW v,
         f \in Searches(ids), found \in Founds(ids), v \in ids
  PROVE  /\ Enter(f, found, v) \in Founds(ids)
         /\ Descend(f, found, v) \in Founds(ids)
<1>1. found.mark \in Marks(ids) /\ found.ok \in BOOLEAN
  BY DEF Founds
<1>2. f[v][found.mark] \in Founds(ids)
  BY <1>1 DEF Searches
<1>3. Enter(f, found, v) \in Founds(ids)
  BY <1>2 DEF Enter
<1>4. [found EXCEPT !.ok = FALSE] \in Founds(ids)
  BY <1>1 DEF Founds
<1> QED BY <1>3, <1>4 DEF Descend

(* The accumulators of the calls on the successors of a node.              *)
Opened(mark, u) == [ok |-> TRUE, mark |-> [mark EXCEPT ![u] = 1]]
Descents(graph, f, u, mark, h) ==
  /\ h \in [SUBSET Successors(graph, u) -> Founds(DOMAIN graph.nodes)]
  /\ h[{}] = Opened(mark, u)
  /\ \A s \in SUBSET Successors(graph, u) :
       s # {} => h[s] = Descend(f, h[Rest(s)], Pick(s))
Closed(found, u) == [ok |-> found.ok, mark |-> [found.mark EXCEPT ![u] = 2]]

(* The calls on the successors of a node have accumulators.                *)
LEMMA DescentsExist ==
  ASSUME NEW graph, NEW f, NEW u, NEW mark, CallAt(graph, f, u, mark)
  PROVE  \E h : Descents(graph, f, u, mark, h)
<1> DEFINE ids == DOMAIN graph.nodes
           D == Successors(graph, u)
           V == Founds(ids)
           base == Opened(mark, u)
           g == [x \in D |-> [v \in V |-> Descend(f, v, x)]]
<1>t. /\ IsFiniteSet(ids) /\ f \in Searches(ids) /\ u \in ids
      /\ mark \in Marks(ids)
  BY DEF CallAt
<1>d. D \subseteq ids
  BY DEF Successors
<1>f. IsFiniteSet(D)
  BY <1>t, <1>d, FS_Subset
<1>b. base \in V
  <2>1. [mark EXCEPT ![u] = 1] \in Marks(ids)
    BY <1>t DEF Marks
  <2> QED BY <2>1 DEF Opened, Founds
<1>g. ASSUME NEW x \in D, NEW v \in V PROVE Descend(f, v, x) \in V
  <2>1. x \in ids
    BY <1>d
  <2> QED BY <2>1, <1>t, EnterIsTyped
<1>1. Foldable(D, V, base, g)
  <2>1. g \in [D -> [V -> V]]
    BY <1>g
  <2> HIDE DEF D, V, base, g
  <2> QED BY <2>1, <1>b, <1>f DEF Foldable
<1>2. PICK h : Folded(h, D, V, base, g)
  <2> HIDE DEF D, V, base, g
  <2> QED BY <1>1, FoldExists
<1>3. h \in [SUBSET D -> V] /\ h[{}] = base
  BY <1>2 DEF Folded
<1>p. ASSUME NEW s \in SUBSET D, s # {}
      PROVE  Pick(s) \in D /\ Rest(s) \in SUBSET D
  BY <1>p DEF Pick, Rest
<1>4. ASSUME NEW s \in SUBSET D, s # {}
      PROVE  h[s] = Descend(f, h[Rest(s)], Pick(s))
  <2>1. h[s] = g[Pick(s)][h[Rest(s)]]
    <3> HIDE DEF D, V, base, g
    <3> QED BY <1>2, <1>4 DEF Folded
  <2>2. Pick(s) \in D /\ h[Rest(s)] \in V
    <3> HIDE DEF D, V
    <3> QED BY <1>p, <1>4, <1>3
  <2> HIDE DEF D, V
  <2> QED BY <2>1, <2>2
<1> QED BY <1>3, <1>4 DEF Descents

(* A visit ends with the last of them.                                     *)
LEMMA VisitEnds ==
  ASSUME NEW graph, NEW f, NEW u, NEW mark, NEW h,
         IsFiniteSet(DOMAIN graph.nodes), Descents(graph, f, u, mark, h)
  PROVE  Visit(graph, f, u, mark) = Closed(h[Successors(graph, u)], u)
<1> DEFINE D == Successors(graph, u)
           V == Founds(DOMAIN graph.nodes)
           base == Opened(mark, u)
<1>f. IsFiniteSet(D)
  <2>1. D \subseteq DOMAIN graph.nodes
    BY DEF Successors
  <2> HIDE DEF D
  <2> QED BY <2>1, FS_Subset
<1>3. h \in [SUBSET D -> V] /\ h[{}] = base
  BY DEF Descents
<1>4. ASSUME NEW s \in SUBSET D, s # {}
      PROVE  h[s] = Descend(f, h[Rest(s)], Pick(s))
  BY <1>4 DEF Descents
<1>5. h = [s \in SUBSET D |->
             IF s = {} THEN base
             ELSE LET x == CHOOSE x \in s : TRUE
                  IN  Descend(f, h[s \ {x}], x)]
  <2>1. ASSUME NEW s \in SUBSET D
        PROVE  h[s] = IF s = {} THEN base
                      ELSE LET x == CHOOSE x \in s : TRUE
                           IN  Descend(f, h[s \ {x}], x)
    <3> HIDE DEF D, base
    <3> QED BY <1>3, <1>4 DEF Pick, Rest
  <2> HIDE DEF D, V, base
  <2> QED BY <2>1, <1>3
<1>6. PICK e :
        /\ e = [s \in SUBSET D |->
                  IF s = {} THEN base
                  ELSE LET x == CHOOSE x \in s : TRUE
                       IN  Descend(f, e[s \ {x}], x)]
        /\ FoldSet(LAMBDA v, found : Descend(f, found, v), base, D) = e[D]
  <2> HIDE DEF D, base
  <2> QED BY <1>5 DEF FoldSet, MapThenFoldSet
<1>7. e[D] = h[D]
  <2> DEFINE P == {s \in SUBSET D : e[s] = h[s]}
  <2>1. e[{}] = h[{}]
    <3> HIDE DEF D, base
    <3> QED BY <1>6, <1>3
  <2>2. ASSUME NEW s \in SUBSET D, s # {}, Rest(s) \in P PROVE s \in P
    <3>1. e[s] = Descend(f, e[Rest(s)], Pick(s))
      <4> HIDE DEF D, base
      <4> QED BY <1>6, <2>2 DEF Pick, Rest
    <3>2. e[Rest(s)] = h[Rest(s)]
      BY <2>2
    <3> HIDE DEF D
    <3> QED BY <3>1, <3>2, <1>4, <2>2
  <2>3. Inductive(D, P)
    <3> HIDE DEF D
    <3> QED BY <2>1, <2>2, <1>f DEF Inductive
  <2> HIDE DEF P, D
  <2>4. SUBSET D \subseteq P
    BY <2>3, AllSubsets
  <2> QED BY <2>4 DEF P
<1> QED BY <1>6, <1>7 DEF Visit, Closed, Opened

(* So a visit is one of those folds, closed.                               *)
LEMMA VisitFolds ==
  ASSUME NEW graph, NEW f, NEW u, NEW mark, CallAt(graph, f, u, mark)
  PROVE  \E h : /\ Descents(graph, f, u, mark, h)
                /\ Visit(graph, f, u, mark) =
                     Closed(h[Successors(graph, u)], u)
<1>1. PICK h : Descents(graph, f, u, mark, h)
  BY DescentsExist
<1>2. IsFiniteSet(DOMAIN graph.nodes)
  BY DEF CallAt
<1> QED BY <1>1, <1>2, VisitEnds

(* A visit answers with marks.                                             *)
LEMMA VisitIsTyped ==
  ASSUME NEW graph, NEW f, NEW u, NEW mark, CallAt(graph, f, u, mark)
  PROVE  Visit(graph, f, u, mark) \in Founds(DOMAIN graph.nodes)
<1> DEFINE ids == DOMAIN graph.nodes
           D == Successors(graph, u)
<1>1. PICK h : /\ Descents(graph, f, u, mark, h)
               /\ Visit(graph, f, u, mark) = Closed(h[D], u)
  BY VisitFolds
<1>2. h[D] \in Founds(ids)
  BY <1>1 DEF Descents
<1>3. h[D].mark \in Marks(ids) /\ h[D].ok \in BOOLEAN
  BY <1>2 DEF Founds
<1>4. [h[D].mark EXCEPT ![u] = 2] \in Marks(ids)
  <2>1. u \in ids
    BY DEF CallAt
  <2> HIDE DEF D
  <2> QED BY <1>3, <2>1 DEF Marks
<1>5. Closed(h[D], u) \in Founds(ids)
  <2> HIDE DEF D
  <2> QED BY <1>3, <1>4 DEF Closed, Founds
<1> QED BY <1>1, <1>5

(* What a call has still to visit beside its node.                         *)
Unseen(ids, u, mark) == {w \in ids \ {u} : mark[w] = 0}
Grows(ids, mark, more) == \A w \in ids : mark[w] # 0 => more[w] # 0
(* The calls that have less than m nodes to visit answer as the code does. *)
Answers(graph, f, m) ==
  \A u \in DOMAIN graph.nodes, mark \in Marks(DOMAIN graph.nodes) :
    Cardinality(Unseen(DOMAIN graph.nodes, u, mark)) < m =>
      /\ f[u][mark] = Visit(graph, f, u, mark)
      /\ Grows(DOMAIN graph.nodes, mark, f[u][mark].mark)

(* Marks that grow twice grow.                                             *)
LEMMA GrowsOn ==
  ASSUME NEW ids, NEW a, NEW b, NEW c, Grows(ids, a, b), Grows(ids, b, c)
  PROVE  Grows(ids, a, c)
BY DEF Grows

(* A call on a successor has one node less to visit.                       *)
LEMMA UnseenShrinks ==
  ASSUME NEW ids, NEW u, NEW v, NEW mark, NEW more,
         IsFiniteSet(ids), u \in ids, v \in ids, mark \in Marks(ids),
         Grows(ids, [mark EXCEPT ![u] = 1], more), more[v] = 0
  PROVE  /\ Cardinality(Unseen(ids, v, more)) \in Nat
         /\ Cardinality(Unseen(ids, u, mark)) \in Nat
         /\ Cardinality(Unseen(ids, v, more))
              < Cardinality(Unseen(ids, u, mark))
<1> DEFINE small == Unseen(ids, v, more)
           large == Unseen(ids, u, mark)
<1>m. DOMAIN mark = ids
  BY DEF Marks
<1>1. v # u
  BY <1>m DEF Grows
<1>2. v \in large /\ v \notin small
  <2>1. mark[v] = 0
    BY <1>1, <1>m DEF Grows
  <2> QED BY <2>1, <1>1 DEF Unseen
<1>3. small \subseteq large
  <2>1. ASSUME NEW w \in small PROVE w \in large
    <3>1. w \in ids /\ more[w] = 0
      BY DEF Unseen
    <3>2. [mark EXCEPT ![u] = 1][w] = 0
      BY <3>1 DEF Grows
    <3>3. w # u /\ mark[w] = 0
      BY <3>1, <3>2, <1>m
    <3> QED BY <3>1, <3>3 DEF Unseen
  <2> QED BY <2>1
<1>4. IsFiniteSet(large)
  <2>1. large \subseteq ids
    BY DEF Unseen
  <2> HIDE DEF large
  <2> QED BY <2>1, FS_Subset
<1>5. IsFiniteSet(small) /\ Cardinality(small) <= Cardinality(large)
  <2> HIDE DEF small, large
  <2> QED BY <1>3, <1>4, FS_Subset
<1>6. Cardinality(small) # Cardinality(large)
  <2> HIDE DEF small, large
  <2> QED BY <1>2, <1>3, <1>4, FS_Subset
<1>7. Cardinality(small) \in Nat /\ Cardinality(large) \in Nat
  <2> HIDE DEF small, large
  <2> QED BY <1>4, <1>5, FS_CardinalityType
<1> HIDE DEF small, large
<1>8. Cardinality(small) < Cardinality(large)
  BY <1>5, <1>6, <1>7
<1> QED BY <1>7, <1>8 DEF small, large

Agree(ids, f, e, m) ==
  \A u \in ids, mark \in Marks(ids) :
    Cardinality(Unseen(ids, u, mark)) < m => e[u][mark] = f[u][mark]

(* A visit only asks for calls that have less to visit.                    *)
LEMMA VisitAgrees ==
  ASSUME NEW graph, NEW f, NEW e, NEW u, NEW mark, NEW m,
         CallAt(graph, f, u, mark), m \in Nat,
         Answers(graph, f, m), Agree(DOMAIN graph.nodes, f, e, m),
         Cardinality(Unseen(DOMAIN graph.nodes, u, mark)) <= m
  PROVE  /\ Visit(graph, e, u, mark) = Visit(graph, f, u, mark)
         /\ Visit(graph, f, u, mark) \in Founds(DOMAIN graph.nodes)
         /\ Grows(DOMAIN graph.nodes, mark, Visit(graph, f, u, mark).mark)
<1> DEFINE ids == DOMAIN graph.nodes
           D == Successors(graph, u)
           open == [mark EXCEPT ![u] = 1]
<1>t. /\ IsFiniteSet(ids) /\ f \in Searches(ids)
      /\ u \in ids /\ mark \in Marks(ids)
  BY DEF CallAt
<1>d. D \subseteq ids
  BY DEF Successors
<1>f. IsFiniteSet(D)
  BY <1>t, <1>d, FS_Subset
<1>1. PICK h : /\ Descents(graph, f, u, mark, h)
               /\ Visit(graph, f, u, mark) = Closed(h[D], u)
  BY VisitFolds
<1>o. h[{}] = Opened(mark, u)
  BY <1>1 DEF Descents
<1>h. ASSUME NEW s \in SUBSET D PROVE h[s] \in Founds(ids)
  BY <1>1 DEF Descents
<1> DEFINE P == {s \in SUBSET D :
                   /\ Grows(ids, open, h[s].mark)
                   /\ s # {} => h[s] = Descend(e, h[Rest(s)], Pick(s))}
<1>3. {} \in P
  <2>1. h[{}].mark = open
    BY <1>o DEF Opened
  <2> QED BY <2>1, <1>o DEF Grows
<1>4. ASSUME NEW s \in SUBSET D, s # {}, Rest(s) \in P PROVE s \in P
  <2> DEFINE r == Rest(s)
             v == Pick(s)
             found == h[r]
  <2>1. v \in ids /\ r \in SUBSET D
    BY <1>4, <1>d DEF Pick, Rest
  <2>2. Grows(ids, open, found.mark)
    BY <1>4
  <2>3. h[s] = Descend(f, found, v)
    <3> HIDE DEF D
    <3> QED BY <1>1, <1>4 DEF Descents, D
  <2>5. found \in Founds(ids)
    BY <2>1, <1>h
  <2>6. found.mark \in Marks(ids) /\ found.ok \in BOOLEAN
    BY <2>5 DEF Founds
  <2> HIDE DEF found, v, r
  <2>7. ASSUME found.mark[v] = 0
        PROVE  /\ e[v][found.mark] = f[v][found.mark]
               /\ Grows(ids, found.mark, f[v][found.mark].mark)
    <3>1. /\ Cardinality(Unseen(ids, v, found.mark)) \in Nat
          /\ Cardinality(Unseen(ids, u, mark)) \in Nat
          /\ Cardinality(Unseen(ids, v, found.mark))
               < Cardinality(Unseen(ids, u, mark))
      <4> HIDE DEF ids
      <4> QED BY <1>t, <2>1, <2>2, <2>7, UnseenShrinks
    <3>2. Cardinality(Unseen(ids, v, found.mark)) < m
      BY <3>1
    <3> QED BY <3>2, <2>1, <2>6 DEF Agree, Answers
  <2>8. CASE found.mark[v] = 1
    <3>1. /\ h[s] = [found EXCEPT !.ok = FALSE]
          /\ h[s] = Descend(e, found, v)
      BY <2>3, <2>8 DEF Descend
    <3>2. h[s].mark = found.mark
      BY <3>1, <2>5 DEF Founds
    <3> QED BY <3>1, <3>2, <2>2 DEF found, v, r
  <2>9. CASE found.mark[v] # 1 /\ found.ok /\ found.mark[v] = 0
    <3>1. h[s] = f[v][found.mark] /\ Descend(e, found, v) = e[v][found.mark]
      BY <2>3, <2>9 DEF Descend, Enter
    <3>2. Grows(ids, open, f[v][found.mark].mark)
      <4> HIDE DEF ids, open
      <4> QED BY <2>2, <2>7, <2>9, GrowsOn
    <3>3. h[s] = Descend(e, found, v)
      BY <3>1, <2>7, <2>9
    <3> QED BY <3>1, <3>2, <3>3 DEF found, v, r
  <2>10. CASE found.mark[v] # 1 /\ ~(found.ok /\ found.mark[v] = 0)
    <3>1. h[s] = found /\ h[s] = Descend(e, found, v)
      BY <2>3, <2>10 DEF Descend, Enter
    <3> QED BY <3>1, <2>2 DEF found, v, r
  <2> QED BY <2>8, <2>9, <2>10
<1>5. SUBSET D \subseteq P
  <2>1. Inductive(D, P)
    <3> HIDE DEF D
    <3>1. {} \in P /\ \A s \in SUBSET D : s # {} /\ Rest(s) \in P => s \in P
      <4> HIDE DEF P
      <4> QED BY <1>3, <1>4
    <3> QED BY <3>1, <1>f DEF Inductive
  <2> HIDE DEF P, D
  <2> QED BY <2>1, AllSubsets
<1>6. Grows(ids, open, h[D].mark)
  <2> HIDE DEF D
  <2> QED BY <1>5
<1>2. Visit(graph, e, u, mark) = Closed(h[D], u)
  <2>1. ASSUME NEW s \in SUBSET D, s # {}
        PROVE  h[s] = Descend(e, h[Rest(s)], Pick(s))
    <3> HIDE DEF D
    <3> QED BY <1>5, <2>1
  <2>2. h \in [SUBSET D -> Founds(ids)] /\ h[{}] = Opened(mark, u)
    BY <1>1 DEF Descents
  <2>3. Descents(graph, e, u, mark, h)
    BY <2>1, <2>2 DEF Descents
  <2> QED BY <2>3, <1>t, VisitEnds
<1>7. h[D] \in Founds(ids)
  <2>1. D \in SUBSET D
    OBVIOUS
  <2> HIDE DEF D
  <2> QED BY <2>1, <1>h
<1>8. h[D].mark \in Marks(ids) /\ h[D].ok \in BOOLEAN
  BY <1>7 DEF Founds
<1>9. [h[D].mark EXCEPT ![u] = 2] \in Marks(ids)
  <2> HIDE DEF D
  <2> QED BY <1>8, <1>t DEF Marks
<1>10. Closed(h[D], u) \in Founds(ids)
  <2> HIDE DEF D
  <2> QED BY <1>8, <1>9 DEF Closed, Founds
<1>11. Grows(ids, mark, Closed(h[D], u).mark)
  <2>1. Closed(h[D], u).mark = [h[D].mark EXCEPT ![u] = 2]
    BY DEF Closed
  <2>2. ASSUME NEW w \in ids, mark[w] # 0
        PROVE  [h[D].mark EXCEPT ![u] = 2][w] # 0
    <3>1. open[w] # 0
      BY <1>t, <2>2 DEF Marks
    <3>2. h[D].mark[w] # 0
      <4> HIDE DEF D, open
      <4> QED BY <3>1, <1>6 DEF Grows
    <3>3. DOMAIN h[D].mark = ids
      <4> HIDE DEF D
      <4> QED BY <1>8 DEF Marks
    <3> HIDE DEF D
    <3> QED BY <3>2, <3>3
  <2> QED BY <2>1, <2>2 DEF Grows
<1> QED BY <1>1, <1>2, <1>6, <1>10, <1>11

(* The recursion of the search has a solution.                             *)
LEMMA SearchExists ==
  ASSUME NEW graph, IsFiniteSet(DOMAIN graph.nodes)
  PROVE  \E f \in Searches(DOMAIN graph.nodes) :
           Answers(graph, f, Cardinality(DOMAIN graph.nodes) + 1)
<1> DEFINE ids == DOMAIN graph.nodes
           n == Cardinality(ids)
           T == {m \in 0 .. n + 1 :
                   \E f \in Searches(ids) : Answers(graph, f, m)}
<1>n. n \in Nat
  BY FS_CardinalityType
<1>u. ASSUME NEW u \in ids, NEW mark \in Marks(ids)
      PROVE  Cardinality(Unseen(ids, u, mark)) \in 0 .. n
  <2> DEFINE S == Unseen(ids, u, mark)
  <2>1. S \subseteq ids
    BY DEF Unseen
  <2> HIDE DEF S, ids
  <2>2. IsFiniteSet(S) /\ Cardinality(S) <= n
    BY <2>1, FS_Subset DEF ids
  <2>3. Cardinality(S) \in Nat
    BY <2>2, FS_CardinalityType
  <2> QED BY <2>2, <2>3, <1>n DEF S
<1>1. 0 \in T
  <2> DEFINE none == [ok |-> TRUE, mark |-> [u \in ids |-> 0]]
             f == [u \in ids |-> [mark \in Marks(ids) |-> none]]
  <2>1. none \in Founds(ids)
    BY DEF Founds, Marks
  <2>2. f \in Searches(ids)
    <3> HIDE DEF none
    <3> QED BY <2>1 DEF Searches
  <2>3. Answers(graph, f, 0)
    <3>1. ASSUME NEW u \in ids, NEW mark \in Marks(ids)
          PROVE  ~ (Cardinality(Unseen(ids, u, mark)) < 0)
      <4>1. Cardinality(Unseen(ids, u, mark)) \in 0 .. n
        BY <1>u
      <4> HIDE DEF n
      <4> QED BY <4>1, <1>n
    <3> HIDE DEF f
    <3> QED BY <3>1 DEF Answers
  <2> HIDE DEF f, n
  <2> QED BY <2>2, <2>3, <1>n
<1>2. ASSUME NEW m \in 0 .. (n + 1) - 1, m \in T PROVE m + 1 \in T
  <2>1. PICK f \in Searches(ids) : Answers(graph, f, m)
    BY <1>2
  <2> DEFINE e == [u \in ids |-> [mark \in Marks(ids) |->
                    IF Cardinality(Unseen(ids, u, mark)) < m
                    THEN f[u][mark] ELSE Visit(graph, f, u, mark)]]
  <2>m. m \in Nat /\ m + 1 \in 0 .. n + 1
    BY <1>n
  <2>2. ASSUME NEW u \in ids, NEW mark \in Marks(ids),
               Cardinality(Unseen(ids, u, mark)) < m + 1
        PROVE  /\ e[u][mark] = Visit(graph, f, u, mark)
               /\ Visit(graph, f, u, mark) \in Founds(ids)
               /\ Grows(ids, mark, Visit(graph, f, u, mark).mark)
    <3>1. CallAt(graph, f, u, mark)
      BY <2>1 DEF CallAt
    <3>2. Agree(ids, f, f, m)
      BY DEF Agree
    <3>3. Cardinality(Unseen(ids, u, mark)) <= m
      <4>1. Cardinality(Unseen(ids, u, mark)) \in 0 .. n
        BY <1>u
      <4> HIDE DEF n
      <4> QED BY <4>1, <2>2, <1>n, <2>m
    <3>4. /\ Visit(graph, f, u, mark) \in Founds(ids)
          /\ Grows(ids, mark, Visit(graph, f, u, mark).mark)
      BY <3>1, <3>2, <3>3, <2>1, <2>m, VisitAgrees
    <3>5. e[u][mark] = Visit(graph, f, u, mark)
      <4>1. CASE Cardinality(Unseen(ids, u, mark)) < m
        <5>1. f[u][mark] = Visit(graph, f, u, mark)
          BY <4>1, <2>1 DEF Answers
        <5> QED BY <5>1, <4>1
      <4> QED BY <4>1
    <3> QED BY <3>4, <3>5
  <2>3. e \in Searches(ids)
    <3>1. ASSUME NEW u \in ids, NEW mark \in Marks(ids)
          PROVE  e[u][mark] \in Founds(ids)
      <4>1. CallAt(graph, f, u, mark)
        BY <2>1 DEF CallAt
      <4>2. Visit(graph, f, u, mark) \in Founds(ids)
        BY <4>1, VisitIsTyped
      <4>3. f[u][mark] \in Founds(ids)
        BY <2>1 DEF Searches
      <4> QED BY <4>2, <4>3
    <3>2. ASSUME NEW u \in ids PROVE e[u] \in [Marks(ids) -> Founds(ids)]
      <4>1. e[u] = [mark \in Marks(ids) |-> e[u][mark]]
        OBVIOUS
      <4> HIDE DEF e
      <4> QED BY <3>1, <4>1
    <3>3. e = [u \in ids |-> e[u]]
      OBVIOUS
    <3> HIDE DEF e
    <3> QED BY <3>2, <3>3 DEF Searches
  <2>4. Answers(graph, e, m + 1)
    <3>1. ASSUME NEW u \in ids, NEW mark \in Marks(ids),
                 Cardinality(Unseen(ids, u, mark)) < m + 1
          PROVE  /\ e[u][mark] = Visit(graph, e, u, mark)
                 /\ Grows(ids, mark, e[u][mark].mark)
      <4>1. CallAt(graph, f, u, mark)
        BY <2>1 DEF CallAt
      <4>2. Agree(ids, f, e, m)
        BY DEF Agree
      <4>3. Cardinality(Unseen(ids, u, mark)) <= m
        <5>1. Cardinality(Unseen(ids, u, mark)) \in 0 .. n
          BY <1>u
        <5> HIDE DEF n
        <5> QED BY <5>1, <3>1, <1>n, <2>m
      <4> HIDE DEF e
      <4>4. Visit(graph, e, u, mark) = Visit(graph, f, u, mark)
        BY <4>1, <4>2, <4>3, <2>1, <2>m, VisitAgrees
      <4> QED BY <4>4, <2>2, <3>1
    <3> HIDE DEF e
    <3> QED BY <3>1 DEF Answers
  <2> HIDE DEF e, n
  <2> QED BY <2>3, <2>4, <2>m
<1>3. n + 1 \in T
  <2>1. \A m \in 0 .. (n + 1) - 1 : m \in T => m + 1 \in T
    BY <1>2
  <2>2. n + 1 \in Nat
    BY <1>n
  <2> HIDE DEF T, n
  <2>3. \A m \in 0 .. n + 1 : m \in T
    BY <1>1, <2>1, <2>2, AllNumbers
  <2> QED BY <2>3, <1>n
<1>4. PICK f \in Searches(ids) : Answers(graph, f, n + 1)
  BY <1>3
<1> QED BY <1>4

-----------------------------------------------------------------------------
(* A set of nodes that have their successors in it, and are ranked above   *)
(* them.                                                                   *)
Ranks(graph, B, r, b) ==
  /\ r \in [DOMAIN graph.nodes -> Nat] /\ b \in Nat
  /\ \A w \in B : r[w] <= b /\ Successors(graph, w) \subseteq B
  /\ \A w \in B : \A v \in Successors(graph, w) : r[v] < r[w]
Ranked(graph, B) == \E r, b : Ranks(graph, B, r, b)
Marked(ids, mark, n) == {w \in ids : mark[w] = n}

(* A node whose successors are all ranked can be ranked above them.        *)
LEMMA RankAbove ==
  ASSUME NEW graph, NEW B, NEW u,
         u \in DOMAIN graph.nodes, B \subseteq DOMAIN graph.nodes,
         Ranked(graph, B), Successors(graph, u) \subseteq B
  PROVE  Ranked(graph, B \cup {u})
<1> DEFINE ids == DOMAIN graph.nodes
<1>1. PICK r, b : Ranks(graph, B, r, b)
  BY DEF Ranked
<1>2. /\ r \in [ids -> Nat] /\ b \in Nat
      /\ \A w \in B : r[w] <= b /\ Successors(graph, w) \subseteq B
      /\ \A w \in B : \A v \in Successors(graph, w) : r[v] < r[w]
  BY <1>1 DEF Ranks
<1>3. CASE u \in B
  <2>1. B \cup {u} = B
    BY <1>3
  <2> QED BY <2>1
<1>4. CASE u \notin B
  <2> DEFINE q == [r EXCEPT ![u] = b + 1]
  <2>1. q \in [ids -> Nat] /\ b + 1 \in Nat
    BY <1>2
  <2>2. \A w \in B : q[w] = r[w]
    BY <1>2, <1>4
  <2>3. q[u] = b + 1
    BY <1>2
  <2> HIDE DEF q
  <2>4. ASSUME NEW w \in B \cup {u}
        PROVE  q[w] <= b + 1 /\ Successors(graph, w) \subseteq B \cup {u}
    <3>1. CASE w = u
      BY <3>1, <2>3, <1>2
    <3>2. CASE w \in B
      <4>1. r[w] \in Nat /\ r[w] <= b
        BY <3>2, <1>2
      <4> QED BY <4>1, <3>2, <2>2, <1>2
    <3> QED BY <3>1, <3>2
  <2>5. ASSUME NEW w \in B \cup {u}, NEW v \in Successors(graph, w)
        PROVE  q[v] < q[w]
    <3>1. CASE w = u
      <4>1. v \in B
        BY <3>1
      <4>2. r[v] \in Nat /\ r[v] <= b /\ q[v] = r[v]
        BY <4>1, <1>2, <2>2
      <4> QED BY <4>2, <3>1, <2>3, <1>2
    <3>2. CASE w \in B
      <4>1. v \in B /\ r[v] < r[w]
        BY <3>2, <1>2
      <4> QED BY <4>1, <3>2, <2>2
    <3> QED BY <3>1, <3>2
  <2>6. Ranks(graph, B \cup {u}, q, b + 1)
    BY <2>1, <2>4, <2>5 DEF Ranks
  <2> QED BY <2>6 DEF Ranked
<1> QED BY <1>3, <1>4

(* What a call answers without finding a cycle.                            *)
FoundBelow(graph, u, mark, found) ==
  LET ids == DOMAIN graph.nodes
  IN  found.ok =>
        /\ Ranked(graph, Marked(ids, found.mark, 2))
        /\ Marked(ids, mark, 2) \cup {u} \subseteq Marked(ids, found.mark, 2)
        /\ Marked(ids, found.mark, 1) = Marked(ids, mark, 1)
Sound(graph, f, m) ==
  \A u \in DOMAIN graph.nodes, mark \in Marks(DOMAIN graph.nodes) :
    /\ Cardinality(Unseen(DOMAIN graph.nodes, u, mark)) < m
    /\ mark[u] = 0
    /\ Ranked(graph, Marked(DOMAIN graph.nodes, mark, 2))
    => FoundBelow(graph, u, mark, f[u][mark])

(* A visit that finds no cycle ranks all that it closes, when the calls    *)
(* below it do.                                                            *)
LEMMA VisitIsSound ==
  ASSUME NEW graph, NEW f, NEW u, NEW mark, NEW m,
         CallAt(graph, f, u, mark), m \in Nat, Sound(graph, f, m),
         Cardinality(Unseen(DOMAIN graph.nodes, u, mark)) <= m,
         mark[u] = 0, Ranked(graph, Marked(DOMAIN graph.nodes, mark, 2))
  PROVE  FoundBelow(graph, u, mark, Visit(graph, f, u, mark))
<1> DEFINE ids == DOMAIN graph.nodes
           D == Successors(graph, u)
           open == [mark EXCEPT ![u] = 1]
<1>t. /\ IsFiniteSet(ids) /\ f \in Searches(ids)
      /\ u \in ids /\ mark \in Marks(ids)
  BY DEF CallAt
<1>m. mark \in [ids -> 0 .. 2]
  BY <1>t DEF Marks
<1>d. D \subseteq ids
  BY DEF Successors
<1>f. IsFiniteSet(D)
  BY <1>t, <1>d, FS_Subset
<1>1. PICK h : /\ Descents(graph, f, u, mark, h)
               /\ Visit(graph, f, u, mark) = Closed(h[D], u)
  BY VisitFolds
<1>o. h[{}] = Opened(mark, u)
  BY <1>1 DEF Descents
<1>h. ASSUME NEW s \in SUBSET D PROVE h[s] \in Founds(ids)
  BY <1>1 DEF Descents
<1> DEFINE Kept(s, found) ==
             found.ok =>
               /\ Ranked(graph, Marked(ids, found.mark, 2))
               /\ Marked(ids, mark, 2) \cup s
                    \subseteq Marked(ids, found.mark, 2)
               /\ Marked(ids, found.mark, 1) = Marked(ids, mark, 1) \cup {u}
           P == {s \in SUBSET D : Kept(s, h[s])}
<1>3. {} \in P
  <2>1. h[{}].mark = open
    BY <1>o DEF Opened
  <2>2. Marked(ids, open, 2) = Marked(ids, mark, 2)
    BY <1>m, <1>t DEF Marked
  <2>3. Marked(ids, open, 1) = Marked(ids, mark, 1) \cup {u}
    BY <1>m, <1>t DEF Marked
  <2> HIDE DEF open
  <2>4. Kept({}, h[{}])
    BY <2>1, <2>2, <2>3
  <2> QED BY <2>4
<1>4. ASSUME NEW s \in SUBSET D, s # {}, Rest(s) \in P PROVE s \in P
  <2> DEFINE r == Rest(s)
             v == Pick(s)
             found == h[r]
  <2>1. v \in ids /\ r \in SUBSET D /\ s = r \cup {v}
    BY <1>4, <1>d DEF Pick, Rest
  <2>2. Kept(r, found)
    BY <1>4
  <2>3. h[s] = Descend(f, found, v)
    <3> HIDE DEF D
    <3> QED BY <1>1, <1>4 DEF Descents, D
  <2>5. found \in Founds(ids)
    BY <2>1, <1>h
  <2>6. found.mark \in Marks(ids) /\ found.ok \in BOOLEAN
    BY <2>5 DEF Founds
  <2> HIDE DEF found, v, r
  <2>w. found.mark \in [ids -> 0 .. 2]
    BY <2>6 DEF Marks
  <2>8. CASE found.mark[v] = 1
    <3>1. h[s] = [found EXCEPT !.ok = FALSE]
      BY <2>3, <2>8 DEF Descend
    <3>2. ~ h[s].ok
      BY <3>1, <2>5 DEF Founds
    <3> QED BY <3>2
  <2>9. CASE found.mark[v] # 1 /\ found.ok /\ found.mark[v] = 0
    <3>1. h[s] = f[v][found.mark]
      BY <2>3, <2>9 DEF Descend, Enter
    <3>2. /\ Ranked(graph, Marked(ids, found.mark, 2))
          /\ Marked(ids, mark, 2) \cup r \subseteq Marked(ids, found.mark, 2)
          /\ Marked(ids, found.mark, 1) = Marked(ids, mark, 1) \cup {u}
      BY <2>2, <2>9
    <3>3. Grows(ids, open, found.mark)
      <4>1. ASSUME NEW w \in ids, open[w] # 0 PROVE found.mark[w] # 0
        <5>1. CASE w = u
          <6>1. w \in Marked(ids, found.mark, 1)
            BY <5>1, <3>2
          <6> QED BY <6>1 DEF Marked
        <5>2. CASE w # u
          <6>1. mark[w] # 0
            BY <5>2, <4>1, <1>m
          <6>2. w \in Marked(ids, mark, 1) \/ w \in Marked(ids, mark, 2)
            BY <6>1, <1>m DEF Marked
          <6>3. \/ w \in Marked(ids, found.mark, 1)
                \/ w \in Marked(ids, found.mark, 2)
            BY <6>2, <3>2
          <6> QED BY <6>3 DEF Marked
        <5> QED BY <5>1, <5>2
      <4> HIDE DEF open
      <4> QED BY <4>1 DEF Grows
    <3>4. /\ Cardinality(Unseen(ids, v, found.mark)) \in Nat
          /\ Cardinality(Unseen(ids, u, mark)) \in Nat
          /\ Cardinality(Unseen(ids, v, found.mark))
               < Cardinality(Unseen(ids, u, mark))
      <4> HIDE DEF ids
      <4> QED BY <1>t, <2>1, <3>3, <2>9, UnseenShrinks
    <3>5. Cardinality(Unseen(ids, v, found.mark)) < m
      BY <3>4
    <3>6. FoundBelow(graph, v, found.mark, h[s])
      BY <3>5, <3>2, <3>1, <2>1, <2>6, <2>9 DEF Sound
    <3>7. h[s].ok =>
            /\ Ranked(graph, Marked(ids, h[s].mark, 2))
            /\ Marked(ids, found.mark, 2) \cup {v}
                 \subseteq Marked(ids, h[s].mark, 2)
            /\ Marked(ids, h[s].mark, 1) = Marked(ids, found.mark, 1)
      BY <3>6 DEF FoundBelow
    <3>8. Kept(s, h[s])
      <4> HIDE DEF ids
      <4> QED BY <3>7, <3>2, <2>1
    <3> HIDE DEF Kept, D
    <3> QED BY <3>8
  <2>10. CASE found.mark[v] # 1 /\ ~(found.ok /\ found.mark[v] = 0)
    <3>1. h[s] = found
      BY <2>3, <2>10 DEF Descend, Enter
    <3>2. found.ok => v \in Marked(ids, found.mark, 2)
      BY <2>10, <2>w, <2>1 DEF Marked
    <3>3. Kept(s, h[s])
      <4> HIDE DEF ids
      <4> QED BY <3>1, <3>2, <2>1, <2>2
    <3> HIDE DEF Kept, D
    <3> QED BY <3>3
  <2> QED BY <2>8, <2>9, <2>10
<1>5. D \in P
  <2>1. Inductive(D, P)
    <3> HIDE DEF D
    <3>1. {} \in P /\ \A s \in SUBSET D : s # {} /\ Rest(s) \in P => s \in P
      <4> HIDE DEF P
      <4> QED BY <1>3, <1>4
    <3> QED BY <3>1, <1>f DEF Inductive
  <2> HIDE DEF P, D
  <2>2. SUBSET D \subseteq P
    BY <2>1, AllSubsets
  <2> QED BY <2>2
<1>6. Kept(D, h[D])
  <2> HIDE DEF D, Kept
  <2> QED BY <1>5
<1>7. h[D] \in Founds(ids)
  <2>1. D \in SUBSET D
    OBVIOUS
  <2> HIDE DEF D
  <2> QED BY <2>1, <1>h
<1>8. h[D].mark \in [ids -> 0 .. 2]
  BY <1>7 DEF Founds, Marks
<1> DEFINE found == h[D]
           last == Closed(found, u)
<1>9. last.ok = found.ok /\ last.mark = [found.mark EXCEPT ![u] = 2]
  BY DEF Closed
<1>10. ASSUME found.ok
       PROVE  /\ Ranked(graph, Marked(ids, last.mark, 2))
              /\ Marked(ids, mark, 2) \cup {u}
                   \subseteq Marked(ids, last.mark, 2)
              /\ Marked(ids, last.mark, 1) = Marked(ids, mark, 1)
  <2> HIDE DEF D
  <2>1. /\ Ranked(graph, Marked(ids, found.mark, 2))
        /\ Marked(ids, mark, 2) \cup D \subseteq Marked(ids, found.mark, 2)
        /\ Marked(ids, found.mark, 1) = Marked(ids, mark, 1) \cup {u}
    BY <1>6, <1>10
  <2> HIDE DEF found, last
  <2>2. found.mark \in [ids -> 0 .. 2]
    BY <1>8 DEF found
  <2>3. Marked(ids, last.mark, 2) = Marked(ids, found.mark, 2) \cup {u}
    BY <2>2, <1>9, <1>t DEF Marked
  <2>4. Marked(ids, last.mark, 1) = Marked(ids, found.mark, 1) \ {u}
    BY <2>2, <1>9, <1>t DEF Marked
  <2>5. u \notin Marked(ids, mark, 1)
    BY DEF Marked
  <2>6. Ranked(graph, Marked(ids, found.mark, 2) \cup {u})
    <3>1. Marked(ids, found.mark, 2) \subseteq ids
      BY DEF Marked
    <3> QED BY <3>1, <2>1, <1>t, RankAbove DEF D
  <2> QED BY <2>1, <2>3, <2>4, <2>5, <2>6
<1>11. FoundBelow(graph, u, mark, last)
  <2> HIDE DEF found, last
  <2> QED BY <1>9, <1>10 DEF FoundBelow
<1> QED BY <1>1, <1>11

(* The search itself: a solution of the recursion, and the accumulators of *)
(* the calls from outside.                                                 *)
Solves(graph, f) ==
  /\ f \in Searches(DOMAIN graph.nodes)
  /\ \A u \in DOMAIN graph.nodes, mark \in Marks(DOMAIN graph.nodes) :
       f[u][mark] = Visit(graph, f, u, mark)
Unmarked(ids) == [ok |-> TRUE, mark |-> [u \in ids |-> 0]]
Calls(graph, f, h) ==
  /\ h \in [SUBSET DOMAIN graph.nodes -> Founds(DOMAIN graph.nodes)]
  /\ h[{}] = Unmarked(DOMAIN graph.nodes)
  /\ \A s \in SUBSET DOMAIN graph.nodes :
       s # {} => h[s] = Enter(f, h[Rest(s)], Pick(s))

(* It has only one.                                                        *)
LEMMA SearchIsUnique ==
  ASSUME NEW graph, IsFiniteSet(DOMAIN graph.nodes),
         NEW f \in Searches(DOMAIN graph.nodes), NEW e,
         Answers(graph, f, Cardinality(DOMAIN graph.nodes) + 1),
         \A u \in DOMAIN graph.nodes, mark \in Marks(DOMAIN graph.nodes) :
           e[u][mark] = Visit(graph, e, u, mark)
  PROVE  \A u \in DOMAIN graph.nodes, mark \in Marks(DOMAIN graph.nodes) :
           e[u][mark] = f[u][mark] /\ f[u][mark] = Visit(graph, f, u, mark)
<1> DEFINE ids == DOMAIN graph.nodes
           n == Cardinality(ids)
           T == {m \in 0 .. n + 1 : Agree(ids, f, e, m)}
<1>n. n \in Nat
  BY FS_CardinalityType
<1>u. ASSUME NEW u \in ids, NEW mark \in Marks(ids)
      PROVE  Cardinality(Unseen(ids, u, mark)) \in 0 .. n
  <2> DEFINE S == Unseen(ids, u, mark)
  <2>1. S \subseteq ids
    BY DEF Unseen
  <2> HIDE DEF S, ids
  <2>2. IsFiniteSet(S) /\ Cardinality(S) <= n
    BY <2>1, FS_Subset DEF ids
  <2>3. Cardinality(S) \in Nat
    BY <2>2, FS_CardinalityType
  <2> QED BY <2>2, <2>3, <1>n DEF S
<1>1. 0 \in T
  <2>1. ASSUME NEW u \in ids, NEW mark \in Marks(ids)
        PROVE  ~ (Cardinality(Unseen(ids, u, mark)) < 0)
    <3>1. Cardinality(Unseen(ids, u, mark)) \in 0 .. n
      BY <1>u
    <3> HIDE DEF n
    <3> QED BY <3>1, <1>n
  <2>2. Agree(ids, f, e, 0)
    BY <2>1 DEF Agree
  <2> HIDE DEF n, ids
  <2> QED BY <2>2, <1>n
<1>2. ASSUME NEW m \in 0 .. (n + 1) - 1, m \in T PROVE m + 1 \in T
  <2>m. m \in Nat /\ m + 1 \in 0 .. n + 1 /\ m <= n
    BY <1>n
  <2>1. ASSUME NEW u \in ids, NEW mark \in Marks(ids),
               Cardinality(Unseen(ids, u, mark)) < m + 1
        PROVE  e[u][mark] = f[u][mark]
    <3>1. CallAt(graph, f, u, mark)
      BY DEF CallAt
    <3>2. Cardinality(Unseen(ids, u, mark)) \in 0 .. n
      BY <1>u
    <3>3. /\ Cardinality(Unseen(ids, u, mark)) <= m
          /\ Cardinality(Unseen(ids, u, mark)) < n + 1
      <4> HIDE DEF n
      <4> QED BY <3>2, <2>1, <1>n, <2>m
    <3>4. Answers(graph, f, m)
      <4>1. ASSUME NEW w \in ids, NEW more \in Marks(ids),
                   Cardinality(Unseen(ids, w, more)) < m
            PROVE  Cardinality(Unseen(ids, w, more)) < n + 1
        <5>1. Cardinality(Unseen(ids, w, more)) \in 0 .. n
          BY <1>u
        <5> HIDE DEF n
        <5> QED BY <5>1, <1>n
      <4> QED BY <4>1 DEF Answers
    <3>5. Visit(graph, e, u, mark) = Visit(graph, f, u, mark)
      <4>1. Agree(ids, f, e, m)
        BY <1>2
      <4> QED BY <4>1, <3>1, <3>3, <3>4, <2>m, VisitAgrees
    <3>6. f[u][mark] = Visit(graph, f, u, mark)
      BY <3>3 DEF Answers
    <3> QED BY <3>5, <3>6
  <2>2. Agree(ids, f, e, m + 1)
    BY <2>1 DEF Agree
  <2> HIDE DEF n, ids
  <2> QED BY <2>2, <2>m
<1>3. n + 1 \in T
  <2>1. \A m \in 0 .. (n + 1) - 1 : m \in T => m + 1 \in T
    BY <1>2
  <2>2. n + 1 \in Nat
    BY <1>n
  <2> HIDE DEF T, n
  <2>3. \A m \in 0 .. n + 1 : m \in T
    BY <1>1, <2>1, <2>2, AllNumbers
  <2> QED BY <2>3, <1>n
<1>5. ASSUME NEW u \in ids, NEW mark \in Marks(ids)
      PROVE  e[u][mark] = f[u][mark] /\ f[u][mark] = Visit(graph, f, u, mark)
  <2>1. Cardinality(Unseen(ids, u, mark)) \in 0 .. n
    BY <1>u
  <2>2. Cardinality(Unseen(ids, u, mark)) < n + 1
    <3> HIDE DEF n
    <3> QED BY <2>1, <1>n
  <2> QED BY <2>2, <1>3 DEF Answers, Agree
<1> QED BY <1>5

(* The search folds the calls that solve its recursion.                    *)
LEMMA SearchedFolds ==
  ASSUME NEW graph, IsFiniteSet(DOMAIN graph.nodes)
  PROVE  \E f, h : /\ Solves(graph, f) /\ Calls(graph, f, h)
                   /\ Searched(graph) = h[DOMAIN graph.nodes]
<1> DEFINE D == DOMAIN graph.nodes
           V == Founds(D)
           base == Unmarked(D)
           n == Cardinality(D)
<1>b. base \in V
  BY DEF Unmarked, Founds, Marks
<1>1. PICK f0 \in Searches(D) : Answers(graph, f0, n + 1)
  BY SearchExists
<1>n. ASSUME NEW u \in D, NEW mark \in Marks(D)
      PROVE  f0[u][mark] = Visit(graph, f0, u, mark)
  <2> DEFINE S == Unseen(D, u, mark)
  <2>1. S \subseteq D
    BY DEF Unseen
  <2>2. IsFiniteSet(S) /\ Cardinality(S) <= n
    <3> HIDE DEF S
    <3> QED BY <2>1, FS_Subset
  <2>3. Cardinality(S) \in Nat /\ n \in Nat
    BY <2>2, FS_CardinalityType
  <2>4. Cardinality(S) < n + 1
    <3> HIDE DEF S, n
    <3> QED BY <2>2, <2>3
  <2> QED BY <2>4, <1>1 DEF Answers
<1>2. f0 = [u \in D |-> [mark \in [D -> 0 .. 2] |-> Visit(graph, f0, u, mark)]]
  <2>1. ASSUME NEW u \in D
        PROVE  f0[u] = [mark \in [D -> 0 .. 2] |-> Visit(graph, f0, u, mark)]
    <3>1. f0[u] \in [Marks(D) -> V]
      BY <1>1 DEF Searches
    <3> HIDE DEF D, V
    <3> QED BY <3>1, <1>n DEF Marks
  <2>2. f0 \in [D -> [Marks(D) -> V]]
    BY <1>1 DEF Searches
  <2> HIDE DEF D, V
  <2> QED BY <2>1, <2>2
<1> DEFINE f == CHOOSE dfs :
                  dfs = [u \in D |-> [mark \in [D -> 0 .. 2] |->
                                        Visit(graph, dfs, u, mark)]]
<1>3. f = [u \in D |-> [mark \in [D -> 0 .. 2] |-> Visit(graph, f, u, mark)]]
  <2> HIDE DEF D
  <2> QED BY <1>2, Zenon
<1>4. Searched(graph) =
        (CHOOSE iter :
           iter = [s \in SUBSET D |->
                     IF s = {} THEN base
                     ELSE LET x == CHOOSE x \in s : TRUE
                          IN  Enter(f, iter[s \ {x}], x)])[D]
  BY DEF Searched, Unmarked, FoldSet, MapThenFoldSet
<1> HIDE DEF f
<1>5. f = f0
  <2>1. ASSUME NEW u \in D, NEW mark \in Marks(D)
        PROVE  f[u][mark] = Visit(graph, f, u, mark)
    <3> HIDE DEF D
    <3>1. f[u] = [m \in [D -> 0 .. 2] |-> Visit(graph, f, u, m)]
      BY <1>3
    <3> QED BY <3>1 DEF Marks
  <2>2. ASSUME NEW u \in D, NEW mark \in Marks(D)
        PROVE  f[u][mark] = f0[u][mark]
    BY <2>1, <1>1, SearchIsUnique
  <2>3. ASSUME NEW u \in D PROVE f[u] = f0[u]
    <3> HIDE DEF D, V
    <3>1. f[u] = [m \in [D -> 0 .. 2] |-> Visit(graph, f, u, m)]
      BY <1>3
    <3>2. f0[u] \in [Marks(D) -> V]
      BY <1>1 DEF Searches, V
    <3>3. f[u] = [m \in Marks(D) |-> f0[u][m]]
      <4>1. ASSUME NEW m \in Marks(D) PROVE Visit(graph, f, u, m) = f0[u][m]
        BY <2>1, <2>2
      <4> QED BY <4>1, <3>1 DEF Marks
    <3> QED BY <3>2, <3>3
  <2>4. f0 \in [D -> [Marks(D) -> V]]
    BY <1>1 DEF Searches
  <2>5. f = [u \in D |-> f[u]]
    <3> HIDE DEF D
    <3> QED BY <1>3
  <2> HIDE DEF D, V
  <2> QED BY <2>3, <2>4, <2>5
<1>6. Solves(graph, f0)
  BY <1>1, <1>n DEF Solves
<1> DEFINE g == [x \in D |-> [v \in V |-> Enter(f0, v, x)]]
<1>7. PICK h : Folded(h, D, V, base, g)
  <2>1. g \in [D -> [V -> V]]
    <3>1. ASSUME NEW x \in D, NEW v \in V PROVE Enter(f0, v, x) \in V
      BY <1>1, EnterIsTyped
    <3> HIDE DEF D, V
    <3> QED BY <3>1
  <2>2. Foldable(D, V, base, g)
    <3> HIDE DEF V, base, g
    <3> QED BY <2>1, <1>b DEF Foldable
  <2> HIDE DEF D, V, base, g
  <2> QED BY <2>2, FoldExists
<1>8. h \in [SUBSET D -> V] /\ h[{}] = base
  BY <1>7 DEF Folded
<1>p. ASSUME NEW s \in SUBSET D, s # {}
      PROVE  Pick(s) \in D /\ Rest(s) \in SUBSET D
  BY <1>p DEF Pick, Rest
<1>9. ASSUME NEW s \in SUBSET D, s # {}
      PROVE  h[s] = Enter(f0, h[Rest(s)], Pick(s))
  <2>1. h[s] = g[Pick(s)][h[Rest(s)]]
    <3> HIDE DEF D, V, base, g
    <3> QED BY <1>7, <1>9 DEF Folded
  <2>2. Pick(s) \in D /\ h[Rest(s)] \in V
    <3> HIDE DEF D, V
    <3> QED BY <1>p, <1>9, <1>8
  <2> HIDE DEF D, V
  <2> QED BY <2>1, <2>2
<1>10. Calls(graph, f0, h)
  BY <1>8, <1>9 DEF Calls
<1>11. PICK e :
         /\ e = [s \in SUBSET D |->
                   IF s = {} THEN base
                   ELSE LET x == CHOOSE x \in s : TRUE
                        IN  Enter(f, e[s \ {x}], x)]
         /\ Searched(graph) = e[D]
  <2>1. h = [s \in SUBSET D |->
               IF s = {} THEN base
               ELSE LET x == CHOOSE x \in s : TRUE
                    IN  Enter(f, h[s \ {x}], x)]
    <3>1. ASSUME NEW s \in SUBSET D
          PROVE  h[s] = IF s = {} THEN base
                        ELSE LET x == CHOOSE x \in s : TRUE
                             IN  Enter(f, h[s \ {x}], x)
      <4> HIDE DEF D, base
      <4> QED BY <1>8, <1>9, <1>5 DEF Pick, Rest
    <3> HIDE DEF D, V, base
    <3> QED BY <3>1, <1>8
  <2> HIDE DEF D, base
  <2> QED BY <2>1, <1>4
<1>12. e[D] = h[D]
  <2> DEFINE P == {s \in SUBSET D : e[s] = h[s]}
  <2>1. e[{}] = h[{}]
    <3> HIDE DEF D, base
    <3> QED BY <1>11, <1>8
  <2>2. ASSUME NEW s \in SUBSET D, s # {}, Rest(s) \in P PROVE s \in P
    <3>1. e[s] = Enter(f0, e[Rest(s)], Pick(s))
      <4> HIDE DEF D, base
      <4> QED BY <1>11, <2>2, <1>5 DEF Pick, Rest
    <3>2. e[Rest(s)] = h[Rest(s)]
      BY <2>2
    <3> HIDE DEF D
    <3> QED BY <3>1, <3>2, <1>9, <2>2
  <2>3. Inductive(D, P)
    <3> HIDE DEF D
    <3> QED BY <2>1, <2>2 DEF Inductive, D
  <2> HIDE DEF P, D
  <2>4. SUBSET D \subseteq P
    BY <2>3, AllSubsets
  <2> QED BY <2>4 DEF P
<1> QED BY <1>6, <1>10, <1>11, <1>12

(* A solution answers soundly, however much there is to visit.             *)
LEMMA SolutionIsSound ==
  ASSUME NEW graph, NEW f, IsFiniteSet(DOMAIN graph.nodes), Solves(graph, f)
  PROVE  \A u \in DOMAIN graph.nodes, mark \in Marks(DOMAIN graph.nodes) :
           mark[u] = 0 /\ Ranked(graph, Marked(DOMAIN graph.nodes, mark, 2))
             => FoundBelow(graph, u, mark, f[u][mark])
<1> DEFINE ids == DOMAIN graph.nodes
           n == Cardinality(ids)
           T == {m \in 0 .. n + 1 : Sound(graph, f, m)}
<1>n. n \in Nat
  BY FS_CardinalityType
<1>u. ASSUME NEW u \in ids, NEW mark \in Marks(ids)
      PROVE  Cardinality(Unseen(ids, u, mark)) \in 0 .. n
  <2> DEFINE S == Unseen(ids, u, mark)
  <2>1. S \subseteq ids
    BY DEF Unseen
  <2> HIDE DEF S, ids
  <2>2. IsFiniteSet(S) /\ Cardinality(S) <= n
    BY <2>1, FS_Subset DEF ids
  <2>3. Cardinality(S) \in Nat
    BY <2>2, FS_CardinalityType
  <2> QED BY <2>2, <2>3, <1>n DEF S
<1>1. 0 \in T
  <2>1. ASSUME NEW u \in ids, NEW mark \in Marks(ids)
        PROVE  ~ (Cardinality(Unseen(ids, u, mark)) < 0)
    <3>1. Cardinality(Unseen(ids, u, mark)) \in 0 .. n
      BY <1>u
    <3> HIDE DEF n
    <3> QED BY <3>1, <1>n
  <2>2. Sound(graph, f, 0)
    BY <2>1 DEF Sound
  <2> HIDE DEF n, ids
  <2> QED BY <2>2, <1>n
<1>2. ASSUME NEW m \in 0 .. (n + 1) - 1, m \in T PROVE m + 1 \in T
  <2>m. m \in Nat /\ m + 1 \in 0 .. n + 1
    BY <1>n
  <2>1. ASSUME NEW u \in ids, NEW mark \in Marks(ids), mark[u] = 0,
               Ranked(graph, Marked(ids, mark, 2)),
               Cardinality(Unseen(ids, u, mark)) < m + 1
        PROVE  FoundBelow(graph, u, mark, f[u][mark])
    <3>1. CallAt(graph, f, u, mark)
      BY DEF CallAt, Solves
    <3>2. Cardinality(Unseen(ids, u, mark)) \in 0 .. n
      BY <1>u
    <3>3. Cardinality(Unseen(ids, u, mark)) <= m
      <4> HIDE DEF n
      <4> QED BY <3>2, <2>1, <1>n, <2>m
    <3>4. FoundBelow(graph, u, mark, Visit(graph, f, u, mark))
      <4>1. Sound(graph, f, m)
        BY <1>2
      <4> QED BY <4>1, <3>1, <3>3, <2>1, <2>m, VisitIsSound
    <3>5. f[u][mark] = Visit(graph, f, u, mark)
      BY DEF Solves
    <3> QED BY <3>4, <3>5
  <2>2. Sound(graph, f, m + 1)
    BY <2>1 DEF Sound
  <2> HIDE DEF n, ids
  <2> QED BY <2>2, <2>m
<1>3. n + 1 \in T
  <2>1. \A m \in 0 .. (n + 1) - 1 : m \in T => m + 1 \in T
    BY <1>2
  <2>2. n + 1 \in Nat
    BY <1>n
  <2> HIDE DEF T, n
  <2>3. \A m \in 0 .. n + 1 : m \in T
    BY <1>1, <2>1, <2>2, AllNumbers
  <2> QED BY <2>3, <1>n
<1>4. ASSUME NEW u \in ids, NEW mark \in Marks(ids), mark[u] = 0,
             Ranked(graph, Marked(ids, mark, 2))
      PROVE  FoundBelow(graph, u, mark, f[u][mark])
  <2>1. Cardinality(Unseen(ids, u, mark)) \in 0 .. n
    BY <1>u
  <2>2. Cardinality(Unseen(ids, u, mark)) < n + 1
    <3> HIDE DEF n
    <3> QED BY <2>1, <1>n
  <2> QED BY <2>2, <1>3, <1>4 DEF Sound
<1> QED BY <1>4

(* A graph in which the search finds no cycle can be ranked.               *)
LEMMA SearchedIsRanked ==
  ASSUME NEW graph, IsFiniteSet(DOMAIN graph.nodes), Searched(graph).ok
  PROVE  Ranked(graph, DOMAIN graph.nodes)
<1> DEFINE D == DOMAIN graph.nodes
<1>1. PICK f, h : /\ Solves(graph, f) /\ Calls(graph, f, h)
                  /\ Searched(graph) = h[D]
  BY SearchedFolds
<1> DEFINE Kept(s, found) ==
             found.ok => /\ Ranked(graph, Marked(D, found.mark, 2))
                         /\ s \subseteq Marked(D, found.mark, 2)
                         /\ Marked(D, found.mark, 1) = {}
           P == {s \in SUBSET D : Kept(s, h[s])}
<1>h. ASSUME NEW s \in SUBSET D PROVE h[s] \in Founds(D)
  BY <1>1 DEF Calls
<1>2. {} \in P
  <2>1. h[{}].mark = [u \in D |-> 0]
    BY <1>1 DEF Calls, Unmarked
  <2>2. Marked(D, h[{}].mark, 2) = {} /\ Marked(D, h[{}].mark, 1) = {}
    BY <2>1 DEF Marked
  <2>3. Ranked(graph, {})
    <3> DEFINE r == [u \in D |-> 0]
    <3>1. Ranks(graph, {}, r, 0)
      BY DEF Ranks
    <3> HIDE DEF r
    <3> QED BY <3>1 DEF Ranked
  <2> QED BY <2>2, <2>3
<1>3. ASSUME NEW s \in SUBSET D, s # {}, Rest(s) \in P PROVE s \in P
  <2> DEFINE r == Rest(s)
             v == Pick(s)
             found == h[r]
  <2>1. v \in D /\ r \in SUBSET D /\ s = r \cup {v}
    BY <1>3 DEF Pick, Rest
  <2>2. Kept(r, found)
    BY <1>3
  <2>3. h[s] = Enter(f, found, v)
    <3> HIDE DEF D
    <3> QED BY <1>1, <1>3 DEF Calls, D
  <2>5. found \in Founds(D)
    BY <2>1, <1>h
  <2>6. found.mark \in Marks(D) /\ found.ok \in BOOLEAN
    BY <2>5 DEF Founds
  <2> HIDE DEF found, v, r
  <2>w. found.mark \in [D -> 0 .. 2]
    BY <2>6 DEF Marks
  <2>7. CASE found.ok /\ found.mark[v] = 0
    <3>1. h[s] = f[v][found.mark]
      BY <2>3, <2>7 DEF Enter
    <3>2. /\ Ranked(graph, Marked(D, found.mark, 2))
          /\ r \subseteq Marked(D, found.mark, 2)
          /\ Marked(D, found.mark, 1) = {}
      BY <2>2, <2>7
    <3>3. FoundBelow(graph, v, found.mark, h[s])
      BY <3>1, <3>2, <1>1, <2>1, <2>6, <2>7, SolutionIsSound
    <3>4. h[s].ok =>
            /\ Ranked(graph, Marked(D, h[s].mark, 2))
            /\ Marked(D, found.mark, 2) \cup {v}
                 \subseteq Marked(D, h[s].mark, 2)
            /\ Marked(D, h[s].mark, 1) = Marked(D, found.mark, 1)
      BY <3>3 DEF FoundBelow
    <3>5. Kept(s, h[s])
      <4> HIDE DEF D
      <4> QED BY <3>4, <3>2, <2>1
    <3> HIDE DEF Kept, D
    <3> QED BY <3>5
  <2>8. CASE ~(found.ok /\ found.mark[v] = 0)
    <3>1. h[s] = found
      BY <2>3, <2>8 DEF Enter
    <3>2. found.ok => v \in Marked(D, found.mark, 2)
      <4>1. found.ok => v \notin Marked(D, found.mark, 1)
        BY <2>2
      <4> QED BY <4>1, <2>8, <2>w, <2>1 DEF Marked
    <3>3. Kept(s, h[s])
      <4> HIDE DEF D
      <4> QED BY <3>1, <3>2, <2>1, <2>2
    <3> HIDE DEF Kept, D
    <3> QED BY <3>3
  <2> QED BY <2>7, <2>8
<1>4. SUBSET D \subseteq P
  <2>1. Inductive(D, P)
    <3> HIDE DEF D
    <3>1. {} \in P /\ \A s \in SUBSET D : s # {} /\ Rest(s) \in P => s \in P
      <4> HIDE DEF P
      <4> QED BY <1>2, <1>3
    <3> QED BY <3>1 DEF Inductive, D
  <2> HIDE DEF P, D
  <2> QED BY <2>1, AllSubsets
<1>5. Kept(D, h[D])
  <2> HIDE DEF D, Kept
  <2> QED BY <1>4
<1>6. D = Marked(D, h[D].mark, 2) /\ Ranked(graph, Marked(D, h[D].mark, 2))
  <2>1. Marked(D, h[D].mark, 2) \subseteq D
    BY DEF Marked
  <2> HIDE DEF D
  <2> QED BY <2>1, <1>5, <1>1
<1> HIDE DEF D
<1>7. Ranked(graph, D)
  BY <1>6
<1> QED BY <1>7 DEF D

-----------------------------------------------------------------------------
(* The pairs of steps joined by a path, found a step of the path at a time.*)
Extended(pairs, edges) ==
  pairs \cup {<<p[1][1], p[2][2]>> :
                p \in {q \in pairs \X edges : q[1][2] = q[2][1]}}

(* The pairs joined by a path are found in as many steps as there are      *)
(* nodes.                                                                  *)
LEMMA ReachesGrows ==
  ASSUME NEW graph, IsFiniteSet(DOMAIN graph.nodes),
         graph.edges \subseteq (DOMAIN graph.nodes) \X (DOMAIN graph.nodes)
  PROVE  \E w : LET n == Cardinality(DOMAIN graph.nodes)
                IN  /\ w[0] = graph.edges
                    /\ \A k \in 0 .. n - 1 :
                         w[k + 1] = Extended(w[k], graph.edges)
                    /\ Reaches(graph) = w[n]
<1> DEFINE D == DOMAIN graph.nodes
           E == graph.edges
           n == Cardinality(D)
           S == SUBSET (D \X D)
           More(w) == w \cup {<<p[1][1], p[2][2]>> :
                        p \in {q \in w \X E : q[1][2] = q[2][1]}}
           g == [k \in 1 .. n |-> [w \in S |-> More(w)]]
<1>n. n \in Nat
  BY FS_CardinalityType
<1>e. E \subseteq D \X D
  OBVIOUS
<1>m. ASSUME NEW w \in S PROVE More(w) \in S
  <2>1. ASSUME NEW q \in w \X E PROVE <<q[1][1], q[2][2]>> \in D \X D
    <3>1. q[1] \in D \X D /\ q[2] \in D \X D
      BY <1>e
    <3> QED BY <3>1
  <2> HIDE DEF D, E
  <2> QED BY <2>1
<1>1. PICK h : Stepped(h, n, S, E, g)
  <2>1. g \in [1 .. n -> [S -> S]]
    <3> HIDE DEF More, S, n
    <3> QED BY <1>m
  <2>2. Stepping(n, S, E, g)
    <3>1. E \in S
      BY <1>e
    <3> HIDE DEF S, E, g, n
    <3> QED BY <2>1, <3>1, <1>n DEF Stepping
  <2> HIDE DEF n, S, E, g
  <2> QED BY <2>2, RecursionExists
<1>2. h \in [0 .. n -> S] /\ h[0] = E
  <2> HIDE DEF n, S, E, g
  <2> QED BY <1>1 DEF Stepped
<1>3. ASSUME NEW k \in 0 .. n, k # 0 PROVE h[k] = More(h[k - 1])
  <2>0. k \in 1 .. n /\ k - 1 \in 0 .. n
    <3> HIDE DEF n
    <3> QED BY <1>3, <1>n
  <2>1. h[k] = g[k][h[k - 1]]
    <3> HIDE DEF n, S, E, g
    <3> QED BY <1>1, <2>0 DEF Stepped
  <2>2. h[k - 1] \in S
    <3> HIDE DEF n, S
    <3> QED BY <2>0, <1>2
  <2> HIDE DEF n, S, More
  <2> QED BY <2>0, <2>1, <2>2
<1>4. h = [k \in 0 .. n |-> IF k = 0 THEN E
             ELSE h[k - 1] \cup {<<p[1][1], p[2][2]>> :
                    p \in {q \in h[k - 1] \X E : q[1][2] = q[2][1]}}]
  <2>1. ASSUME NEW k \in 0 .. n
        PROVE  h[k] = IF k = 0 THEN E
             ELSE h[k - 1] \cup {<<p[1][1], p[2][2]>> :
                    p \in {q \in h[k - 1] \X E : q[1][2] = q[2][1]}}
    BY <1>2, <1>3, Zenon
  <2> HIDE DEF n, S, E
  <2> QED BY <2>1, <1>2
<1>5. PICK w :
        /\ w = [k \in 0 .. n |-> IF k = 0 THEN E
                  ELSE w[k - 1] \cup {<<p[1][1], p[2][2]>> :
                         p \in {q \in w[k - 1] \X E : q[1][2] = q[2][1]}}]
        /\ Reaches(graph) = w[n]
  BY <1>4 DEF Reaches
<1>6. w[0] = E
  <2> HIDE DEF n, E
  <2> QED BY <1>5, <1>n
<1>7. ASSUME NEW k \in 0 .. n - 1 PROVE w[k + 1] = Extended(w[k], E)
  <2>0. k + 1 \in 0 .. n /\ k + 1 # 0 /\ (k + 1) - 1 = k
    <3> HIDE DEF n
    <3> QED BY <1>n
  <2>1. w[k + 1] = w[(k + 1) - 1] \cup {<<p[1][1], p[2][2]>> :
                   p \in {q \in w[(k + 1) - 1] \X E : q[1][2] = q[2][1]}}
    <3> HIDE DEF n, E
    <3> QED BY <1>5, <2>0, Zenon
  <2> HIDE DEF n, E
  <2> QED BY <2>1, <2>0 DEF Extended
<1> HIDE DEF n, E
<1>8. \E v : /\ v[0] = E
             /\ \A k \in 0 .. n - 1 : v[k + 1] = Extended(v[k], E)
             /\ Reaches(graph) = v[n]
  BY <1>5, <1>6, <1>7
<1> QED BY <1>8 DEF n, D, E

(* Along a path of a graph that can be ranked, the rank falls.             *)
LEMMA RankedIsAcyclic ==
  ASSUME NEW graph, IsFiniteSet(DOMAIN graph.nodes),
         graph.edges \subseteq (DOMAIN graph.nodes) \X (DOMAIN graph.nodes),
         Ranked(graph, DOMAIN graph.nodes)
  PROVE  Acyclic(graph)
<1> DEFINE D == DOMAIN graph.nodes
           E == graph.edges
           n == Cardinality(D)
<1>n. n \in Nat
  BY FS_CardinalityType
<1>e. E \subseteq D \X D
  OBVIOUS
<1>5. PICK w : /\ w[0] = E
               /\ \A k \in 0 .. n - 1 : w[k + 1] = Extended(w[k], E)
               /\ Reaches(graph) = w[n]
  BY ReachesGrows
<1>6. PICK r, b : Ranks(graph, D, r, b)
  BY DEF Ranked
<1>7. /\ r \in [D -> Nat]
      /\ \A u \in D : \A v \in Successors(graph, u) : r[v] < r[u]
  BY <1>6 DEF Ranks
<1>8. ASSUME NEW e \in E PROVE r[e[2]] < r[e[1]] /\ e[1] \in D /\ e[2] \in D
  <2>1. e[1] \in D /\ e[2] \in D /\ e = <<e[1], e[2]>>
    BY <1>e
  <2>2. e[2] \in Successors(graph, e[1])
    BY <2>1 DEF Successors
  <2> QED BY <2>1, <2>2, <1>7
<1> DEFINE Falls(pairs) == \A x \in pairs :
             x \in D \X D /\ r[x[2]] < r[x[1]]
           P == {k \in 0 .. n : Falls(w[k])}
<1>9. 0 \in P
  <2>1. w[0] = E
    BY <1>5
  <2>2. Falls(E)
    BY <1>8, <1>e
  <2> HIDE DEF n, E, Falls
  <2> QED BY <2>1, <2>2, <1>n
<1>10. ASSUME NEW k \in 0 .. n - 1, k \in P PROVE k + 1 \in P
  <2>0. k + 1 \in 0 .. n /\ k + 1 # 0 /\ (k + 1) - 1 = k
    <3> HIDE DEF n
    <3> QED BY <1>n
  <2>1. w[k + 1] = w[k] \cup {<<p[1][1], p[2][2]>> :
                     p \in {q \in w[k] \X E : q[1][2] = q[2][1]}}
    <3>1. w[k + 1] = Extended(w[k], E)
      <4> HIDE DEF n, E
      <4> QED BY <1>5
    <3> HIDE DEF E
    <3> QED BY <3>1 DEF Extended
  <2>2. Falls(w[k])
    BY <1>10
  <2>3. ASSUME NEW q \in w[k] \X E, q[1][2] = q[2][1]
        PROVE  /\ <<q[1][1], q[2][2]>> \in D \X D
               /\ r[q[2][2]] < r[q[1][1]]
    <3>1. q[1] \in w[k] /\ q[2] \in E
      OBVIOUS
    <3>2. q[1] \in D \X D /\ r[q[1][2]] < r[q[1][1]]
      BY <3>1, <2>2
    <3>3. r[q[2][2]] < r[q[2][1]] /\ q[2][1] \in D /\ q[2][2] \in D
      BY <3>1, <1>8
    <3>4. r[q[1][1]] \in Nat /\ r[q[1][2]] \in Nat /\ r[q[2][2]] \in Nat
      BY <3>2, <3>3, <1>7
    <3> QED BY <3>2, <3>3, <3>4, <2>3
  <2>4. ASSUME NEW x \in w[k + 1] PROVE x \in D \X D /\ r[x[2]] < r[x[1]]
    <3>1. CASE x \in w[k]
      BY <3>1, <2>2
    <3>2. CASE x \notin w[k]
      <4>1. PICK q \in w[k] \X E :
              q[1][2] = q[2][1] /\ x = <<q[1][1], q[2][2]>>
        <5> HIDE DEF E
        <5> QED BY <3>2, <2>1
      <4>2. x[1] = q[1][1] /\ x[2] = q[2][2]
        BY <4>1
      <4> HIDE DEF D, E
      <4> QED BY <4>1, <4>2, <2>3
    <3> QED BY <3>1, <3>2
  <2>5. Falls(w[k + 1])
    BY <2>4
  <2> HIDE DEF Falls, n
  <2> QED BY <2>0, <2>5
<1>11. Falls(w[n])
  <2>1. \A k \in 0 .. n - 1 : k \in P => k + 1 \in P
    BY <1>10
  <2> HIDE DEF P, n
  <2>2. \A k \in 0 .. n : k \in P
    BY <1>9, <1>n, <2>1, AllNumbers
  <2>3. n \in P
    BY <2>2, <1>n
  <2> HIDE DEF Falls
  <2> QED BY <2>3 DEF P
<1>12. ASSUME NEW i \in D, <<i, i>> \in Reaches(graph) PROVE FALSE
  <2>1. r[i] < r[i]
    <3> HIDE DEF n, D
    <3>1. r[<<i, i>>[2]] < r[<<i, i>>[1]]
      BY <1>5, <1>11, <1>12
    <3> QED BY <3>1
  <2>2. r[i] \in Nat
    BY <1>7
  <2> QED BY <2>1, <2>2
<1> QED BY <1>12 DEF Acyclic

-----------------------------------------------------------------------------
(* What Kahn's algorithm keeps true from round to round.                   *)
Graph(graph) ==
  /\ IsFiniteSet(DOMAIN graph.nodes)
  /\ graph.edges \subseteq (DOMAIN graph.nodes) \X (DOMAIN graph.nodes)
(* The edges that still hold up a step when the steps in done are done.    *)
Waiting(graph, v, done) ==
  {e \in graph.edges : e[2] = v /\ e[1] \notin done}
KahnState(graph, s) ==
  /\ s.queue \in Seq(DOMAIN graph.nodes) /\ s.order \in Seq(DOMAIN graph.nodes)
  /\ s.degree \in [DOMAIN graph.nodes -> Nat]
KahnOrders(graph, s) ==
  /\ IsInjective(s.queue) /\ IsInjective(s.order)
  /\ ToSet(s.queue) \cap ToSet(s.order) = {}
  /\ \A v \in DOMAIN graph.nodes :
       /\ s.degree[v] = Cardinality(Waiting(graph, v, ToSet(s.order)))
       /\ s.degree[v] = 0 <=> v \in ToSet(s.queue) \cup ToSet(s.order)
  /\ \A e \in graph.edges, j \in 1 .. Len(s.order) :
       s.order[j] = e[2] => \E i \in 1 .. j - 1 : s.order[i] = e[1]

(* One step more done holds up one step less.                              *)
LEMMA WaitingShrinks ==
  ASSUME NEW graph, Graph(graph), NEW done, NEW u, u \notin done, NEW v
  PROVE  /\ IsFiniteSet(Waiting(graph, v, done))
         /\ Cardinality(Waiting(graph, v, done)) \in Nat
         /\ Cardinality(Waiting(graph, v, done \cup {u})) =
              IF <<u, v>> \in graph.edges
              THEN Cardinality(Waiting(graph, v, done)) - 1
              ELSE Cardinality(Waiting(graph, v, done))
         /\ <<u, v>> \in graph.edges => Cardinality(Waiting(graph, v, done)) # 0
<1> DEFINE E == graph.edges
           D == DOMAIN graph.nodes
           W == Waiting(graph, v, done)
<1>1. IsFiniteSet(D \X D)
  <2>1. IsFiniteSet(D)
    BY DEF Graph
  <2> QED BY <2>1, FS_Product
<1>2. W \subseteq D \X D
  BY DEF Graph, Waiting
<1>3. IsFiniteSet(W)
  <2> HIDE DEF W, D
  <2> QED BY <1>1, <1>2, FS_Subset
<1>4. Cardinality(W) \in Nat
  BY <1>3, FS_CardinalityType
<1>5. Waiting(graph, v, done \cup {u}) = W \ {<<u, v>>}
  <2>1. ASSUME NEW e \in E PROVE (e[1] = u /\ e[2] = v) <=> e = <<u, v>>
    <3>1. e \in D \X D
      BY DEF Graph
    <3> QED BY <3>1
  <2> QED BY <2>1 DEF Waiting
<1>6. <<u, v>> \in W <=> <<u, v>> \in E
  BY DEF Waiting
<1>7. Cardinality(W \ {<<u, v>>}) =
        IF <<u, v>> \in W THEN Cardinality(W) - 1 ELSE Cardinality(W)
  <2> HIDE DEF W
  <2> QED BY <1>3, FS_RemoveElement
<1>8. <<u, v>> \in W => Cardinality(W) # 0
  <2> HIDE DEF W
  <2> QED BY <1>3, FS_EmptySet
<1> QED BY <1>3, <1>4, <1>5, <1>6, <1>7, <1>8

(* A round of the algorithm keeps the order, and orders one step more.     *)
LEMMA RoundOrders ==
  ASSUME NEW graph, Graph(graph), NEW s, KahnState(graph, s),
         KahnOrders(graph, s), s.queue # <<>>
  PROVE  /\ KahnState(graph, Dequeue(graph, s))
         /\ KahnOrders(graph, Dequeue(graph, s))
         /\ Len(Dequeue(graph, s).order) = Len(s.order) + 1
<1> DEFINE D == DOMAIN graph.nodes
           E == graph.edges
           q == s.queue
           o == s.order
           u == Head(q)
           degree == [v \in D |-> IF v \in Successors(graph, u)
                                  THEN s.degree[v] - 1 ELSE s.degree[v]]
           ready == {v \in Successors(graph, u) : degree[v] = 0}
           r == SetToSeq(ready)
           W(v) == Cardinality(Waiting(graph, v, ToSet(o)))
<1>t. /\ q \in Seq(D) /\ o \in Seq(D) /\ s.degree \in [D -> Nat] /\ q # <<>>
  BY DEF KahnState
<1>o. /\ IsInjective(q) /\ IsInjective(o) /\ ToSet(q) \cap ToSet(o) = {}
      /\ \A v \in D : /\ s.degree[v] = W(v)
                      /\ s.degree[v] = 0 <=> v \in ToSet(q) \cup ToSet(o)
      /\ \A e \in E, j \in 1 .. Len(o) :
           o[j] = e[2] => \E i \in 1 .. j - 1 : o[i] = e[1]
  BY DEF KahnOrders
<1>1. /\ Dequeue(graph, s).queue = Tail(q) \o r
      /\ Dequeue(graph, s).order = Append(o, u)
      /\ Dequeue(graph, s).degree = degree
  BY DEF Dequeue
<1>g. IsFiniteSet(D) /\ E \subseteq D \X D
  BY DEF Graph
<1>s. \A v \in D : v \in Successors(graph, u) <=> <<u, v>> \in E
  BY DEF Successors
<1>r. Successors(graph, u) \subseteq D
  BY DEF Successors
<1> HIDE DEF D, E, q, o, u, W
<1>2. /\ u \in D /\ u \in ToSet(q) /\ Tail(q) \in Seq(D)
      /\ ToSet(Tail(q)) = ToSet(q) \ {u} /\ IsInjective(Tail(q))
  BY <1>t, <1>o, OfTail DEF u
<1>3. u \notin ToSet(o)
  BY <1>2, <1>o
<1>4. /\ Append(o, u) \in Seq(D) /\ Len(Append(o, u)) = Len(o) + 1
      /\ \A i \in 1 .. Len(o) : Append(o, u)[i] = o[i]
      /\ Append(o, u)[Len(o) + 1] = u
      /\ ToSet(Append(o, u)) = ToSet(o) \cup {u} /\ IsInjective(Append(o, u))
  BY <1>t, <1>o, <1>2, <1>3, OfAppend
<1>5. ready \subseteq Successors(graph, u) /\ ready \subseteq D
  BY <1>r
<1>6. r \in Seq(D) /\ ToSet(r) = ready /\ IsInjective(r)
  <2>1. IsFiniteSet(ready)
    <3> HIDE DEF ready
    <3> QED BY <1>5, <1>g, FS_Subset
  <2> HIDE DEF ready
  <2> QED BY <2>1, <1>5, OfLists
<1>7. ASSUME NEW v \in D
      PROVE  /\ W(v) \in Nat
             /\ Cardinality(Waiting(graph, v, ToSet(o) \cup {u})) =
                  IF v \in Successors(graph, u) THEN W(v) - 1 ELSE W(v)
             /\ v \in Successors(graph, u) => W(v) # 0
             /\ IsFiniteSet(Waiting(graph, v, ToSet(o)))
  BY <1>3, <1>s, WaitingShrinks DEF W, E
<1>8. ASSUME NEW v \in D
      PROVE  /\ degree[v] = Cardinality(Waiting(graph, v, ToSet(Append(o, u))))
             /\ degree[v] \in Nat
             /\ degree[v] = IF v \in Successors(graph, u)
                            THEN s.degree[v] - 1 ELSE s.degree[v]
  <2>1. s.degree[v] = W(v)
    BY <1>o
  <2>2. degree[v] = IF v \in Successors(graph, u)
                    THEN s.degree[v] - 1 ELSE s.degree[v]
    OBVIOUS
  <2>3. W(v) \in Nat /\ (v \in Successors(graph, u) => W(v) # 0)
    BY <1>7
  <2>4. Cardinality(Waiting(graph, v, ToSet(o) \cup {u})) =
          IF v \in Successors(graph, u) THEN W(v) - 1 ELSE W(v)
    BY <1>7
  <2>5. ToSet(Append(o, u)) = ToSet(o) \cup {u}
    BY <1>4
  <2> HIDE DEF degree
  <2>6. degree[v] = Cardinality(Waiting(graph, v, ToSet(o) \cup {u}))
    BY <2>1, <2>2, <2>4
  <2>7. degree[v] \in Nat
    BY <2>1, <2>2, <2>3
  <2> QED BY <2>2, <2>5, <2>6, <2>7
<1>9. \A v \in ready : v \notin ToSet(q) \cup ToSet(o)
  <2>1. ASSUME NEW v \in ready PROVE v \notin ToSet(q) \cup ToSet(o)
    <3>1. v \in D /\ v \in Successors(graph, u)
      BY <1>5
    <3> HIDE DEF ready
    <3>2. s.degree[v] # 0
      BY <3>1, <1>7, <1>o
    <3> QED BY <3>1, <3>2, <1>o
  <2> QED BY <2>1
<1>10. \A v \in D : v \in ready <=> v \in Successors(graph, u) /\ degree[v] = 0
  OBVIOUS
<1>d. degree \in [D -> Nat]
  <2>1. degree = [v \in D |-> degree[v]]
    OBVIOUS
  <2> HIDE DEF degree
  <2> QED BY <2>1, <1>8
<1> HIDE DEF ready, degree, r
<1>11. /\ Tail(q) \o r \in Seq(D)
       /\ ToSet(Tail(q) \o r) = (ToSet(q) \ {u}) \cup ready
       /\ IsInjective(Tail(q) \o r)
  <2>1. ToSet(Tail(q)) \cap ToSet(r) = {}
    BY <1>2, <1>6, <1>9
  <2>2. /\ Tail(q) \in Seq(D) /\ IsInjective(Tail(q))
        /\ r \in Seq(D) /\ IsInjective(r)
    BY <1>2, <1>6
  <2>3. /\ Tail(q) \o r \in Seq(D)
        /\ ToSet(Tail(q) \o r) = ToSet(Tail(q)) \cup ToSet(r)
        /\ IsInjective(Tail(q) \o r)
    <3> DEFINE a == Tail(q)
    <3>1. a \in Seq(D) /\ IsInjective(a) /\ ToSet(a) \cap ToSet(r) = {}
      BY <2>1, <2>2
    <3> HIDE DEF a
    <3>2. /\ a \o r \in Seq(D) /\ ToSet(a \o r) = ToSet(a) \cup ToSet(r)
          /\ IsInjective(a \o r)
      BY <2>2, <3>1, OfConcat
    <3> QED BY <3>2 DEF a
  <2> QED BY <2>3, <1>2, <1>6
<1>12. KahnState(graph, Dequeue(graph, s))
  BY <1>1, <1>4, <1>11, <1>d DEF KahnState, D
<1>13. ToSet(Tail(q) \o r) \cap ToSet(Append(o, u)) = {}
  BY <1>11, <1>4, <1>9, <1>2, <1>o
<1>14. ASSUME NEW v \in D
       PROVE  degree[v] = 0 <=>
                v \in ToSet(Tail(q) \o r) \cup ToSet(Append(o, u))
  <2>1. v \in ToSet(Tail(q) \o r) \cup ToSet(Append(o, u)) <=>
          v \in ToSet(q) \cup ToSet(o) \/ v \in ready
    BY <1>11, <1>4, <1>2
  <2>2. CASE v \in Successors(graph, u)
    <3>1. s.degree[v] # 0
      BY <2>2, <1>7, <1>o
    <3> QED BY <3>1, <2>1, <2>2, <1>10, <1>o
  <2>3. CASE v \notin Successors(graph, u)
    BY <2>1, <2>3, <1>10, <1>8, <1>o
  <2> QED BY <2>2, <2>3
<1>15. ASSUME NEW e \in E, NEW j \in 1 .. Len(Append(o, u)),
              Append(o, u)[j] = e[2]
       PROVE  \E i \in 1 .. j - 1 : Append(o, u)[i] = e[1]
  <2>n. Len(o) \in Nat
    BY <1>t, LenProperties
  <2>1. CASE j \in 1 .. Len(o)
    <3>1. o[j] = e[2]
      BY <2>1, <1>15, <1>4
    <3>2. PICK i \in 1 .. j - 1 : o[i] = e[1]
      BY <3>1, <2>1, <1>o
    <3>3. i \in 1 .. Len(o)
      BY <3>2, <2>1, <2>n
    <3> QED BY <3>2, <3>3, <1>4
  <2>2. CASE j = Len(o) + 1
    <3>1. e[2] = u
      BY <2>2, <1>15, <1>4
    <3>2. W(u) = 0
      BY <1>o, <1>2
    <3>3. Waiting(graph, u, ToSet(o)) = {}
      <4>1. IsFiniteSet(Waiting(graph, u, ToSet(o)))
        BY <1>2, <1>7
      <4> QED BY <4>1, <3>2, FS_EmptySet DEF W
    <3>4. e[1] \in ToSet(o)
      BY <3>1, <3>3 DEF Waiting, E
    <3>5. PICK i \in 1 .. Len(o) : o[i] = e[1]
      BY <3>4 DEF ToSet
    <3>6. i \in 1 .. j - 1
      BY <2>2, <2>n
    <3> QED BY <3>5, <3>6, <1>4
  <2> QED BY <2>1, <2>2, <2>n, <1>4
<1>16. KahnOrders(graph, Dequeue(graph, s))
  <2> DEFINE a == Append(o, u)
             b == Tail(q) \o r
             d == Dequeue(graph, s)
  <2>1. d.queue = b /\ d.order = a /\ d.degree = degree
    BY <1>1
  <2>2. IsInjective(b) /\ IsInjective(a) /\ ToSet(b) \cap ToSet(a) = {}
    BY <1>4, <1>11, <1>13
  <2>3. \A v \in D : /\ degree[v] = Cardinality(Waiting(graph, v, ToSet(a)))
                     /\ degree[v] = 0 <=> v \in ToSet(b) \cup ToSet(a)
    BY <1>8, <1>14
  <2>4. \A e \in E, j \in 1 .. Len(a) :
          a[j] = e[2] => \E i \in 1 .. j - 1 : a[i] = e[1]
    BY <1>15
  <2> HIDE DEF a, b, d
  <2>5. KahnOrders(graph, d)
    BY <2>1, <2>2, <2>3, <2>4 DEF KahnOrders, D, E
  <2> QED BY <2>5 DEF d
<1> QED BY <1>1, <1>4, <1>12, <1>16 DEF o

(* Kahn's algorithm starts with the steps that wait for none in the queue. *)
Started(graph) ==
  LET degree == [v \in DOMAIN graph.nodes |-> InDegree(graph, v)]
  IN  [queue |-> SetToSeq({v \in DOMAIN graph.nodes : degree[v] = 0}),
       order |-> <<>>, degree |-> degree]

(* It starts with nothing ordered, and nothing wrong.                      *)
LEMMA StartOrders ==
  ASSUME NEW graph, Graph(graph)
  PROVE  KahnState(graph, Started(graph)) /\ KahnOrders(graph, Started(graph))
<1> DEFINE D == DOMAIN graph.nodes
           E == graph.edges
           degree == [v \in D |-> InDegree(graph, v)]
           free == {v \in D : degree[v] = 0}
           q == SetToSeq(free)
           s == Started(graph)
<1>1. s.queue = q /\ s.order = <<>> /\ s.degree = degree
  BY DEF Started
<1>2. IsFiniteSet(D) /\ IsFiniteSet(E)
  <2>1. IsFiniteSet(D) /\ E \subseteq D \X D
    BY DEF Graph
  <2> HIDE DEF D, E
  <2>2. IsFiniteSet(D \X D)
    BY <2>1, FS_Product
  <2> QED BY <2>1, <2>2, FS_Subset
<1>3. ToSet(<<>>) = {} /\ IsInjective(<<>>) /\ <<>> \in Seq(D) /\ Len(<<>>) = 0
  BY EmptySeq DEF ToSet, IsInjective
<1>4. ASSUME NEW v \in D
      PROVE  degree[v] = Cardinality(Waiting(graph, v, {})) /\ degree[v] \in Nat
  <2>1. Waiting(graph, v, {}) = {e \in E : e[2] = v}
    BY DEF Waiting
  <2>2. degree[v] = Cardinality({e \in E : e[2] = v})
    BY DEF InDegree
  <2>3. IsFiniteSet({e \in E : e[2] = v})
    BY <1>2, FS_Subset
  <2>4. Cardinality({e \in E : e[2] = v}) \in Nat
    BY <2>3, FS_CardinalityType
  <2> QED BY <2>1, <2>2, <2>4
<1>5. degree \in [D -> Nat]
  <2>1. degree = [v \in D |-> degree[v]]
    OBVIOUS
  <2> HIDE DEF degree
  <2> QED BY <2>1, <1>4
<1>6. q \in Seq(D) /\ ToSet(q) = free /\ IsInjective(q)
  <2>1. free \subseteq D
    OBVIOUS
  <2> HIDE DEF free
  <2>2. IsFiniteSet(free)
    BY <2>1, <1>2, FS_Subset
  <2> QED BY <2>1, <2>2, OfLists
<1>7. \A v \in D : degree[v] = 0 <=> v \in ToSet(q) \cup ToSet(<<>>)
  BY <1>3, <1>6
<1> HIDE DEF degree, free, q, s
<1>8. KahnState(graph, s)
  BY <1>1, <1>3, <1>5, <1>6 DEF KahnState, D
<1>9. \A v \in D :
        /\ s.degree[v] = Cardinality(Waiting(graph, v, ToSet(s.order)))
        /\ s.degree[v] = 0 <=> v \in ToSet(s.queue) \cup ToSet(s.order)
  BY <1>1, <1>3, <1>4, <1>7
<1>10. /\ IsInjective(s.queue) /\ IsInjective(s.order)
       /\ ToSet(s.queue) \cap ToSet(s.order) = {}
  BY <1>1, <1>3, <1>6
<1>11. \A e \in graph.edges, j \in 1 .. Len(s.order) :
         s.order[j] = e[2] => \E i \in 1 .. j - 1 : s.order[i] = e[1]
  BY <1>1, <1>3
<1>12. KahnOrders(graph, s)
  BY <1>9, <1>10, <1>11 DEF KahnOrders, D
<1> QED BY <1>8, <1>12 DEF s

(* When nothing is left in the queue, all steps of an acyclic graph are    *)
(* ordered: the highest of those that are not would wait for none.         *)
LEMMA AllOrdered ==
  ASSUME NEW graph, Graph(graph), Ranked(graph, DOMAIN graph.nodes),
         NEW s, KahnState(graph, s), KahnOrders(graph, s), s.queue = <<>>
  PROVE  ToSet(s.order) = DOMAIN graph.nodes
<1> DEFINE D == DOMAIN graph.nodes
           T == D \ ToSet(s.order)
<1>1. PICK r, b : Ranks(graph, D, r, b)
  BY DEF Ranked
<1>2. /\ r \in [D -> Nat] /\ b \in Nat /\ \A w \in D : r[w] <= b
      /\ \A u \in D : \A v \in Successors(graph, u) : r[v] < r[u]
  BY <1>1 DEF Ranks
<1>3. ToSet(s.order) \subseteq D
  BY LenProperties DEF ToSet, KahnState
<1>4. SUFFICES ASSUME T # {} PROVE FALSE
  BY <1>3
<1> DEFINE H == {b - r[w] : w \in T}
<1>5. PICK v \in T : \A w \in T : r[w] <= r[v]
  <2>0. T \subseteq D
    OBVIOUS
  <2> HIDE DEF T, D
  <2>1. H \subseteq Nat /\ H # {}
    BY <2>0, <1>2, <1>4
  <2>2. PICK x \in H : \A y \in H : x <= y
    <3> HIDE DEF H
    <3> QED BY <2>1, SmallestNumber
  <2>3. PICK v \in T : x = b - r[v]
    BY <2>2
  <2>4. ASSUME NEW w \in T PROVE r[w] <= r[v]
    <3>1. b - r[v] <= b - r[w]
      BY <2>2, <2>3
    <3>2. r[w] \in Nat /\ r[v] \in Nat
      BY <2>0, <1>2
    <3> QED BY <3>1, <3>2, <1>2
  <2> QED BY <2>4
<1>6. s.degree[v] # 0
  <2>1. ToSet(s.queue) = {}
    BY EmptySeq DEF ToSet
  <2> QED BY <2>1 DEF KahnOrders
<1>7. Waiting(graph, v, ToSet(s.order)) # {}
  <2>1. s.degree[v] = Cardinality(Waiting(graph, v, ToSet(s.order)))
    BY DEF KahnOrders
  <2> QED BY <2>1, <1>6, FS_EmptySet
<1>8. PICK e \in graph.edges : e[2] = v /\ e[1] \notin ToSet(s.order)
  BY <1>7 DEF Waiting
<1>9. e[1] \in T /\ v \in Successors(graph, e[1])
  <2>1. e \in D \X D
    BY DEF Graph
  <2>2. e = <<e[1], v>>
    BY <2>1, <1>8
  <2> QED BY <2>1, <2>2, <1>8 DEF Successors
<1>10. r[v] < r[e[1]] /\ r[e[1]] <= r[v]
  BY <1>9, <1>5, <1>2
<1>11. r[v] \in Nat /\ r[e[1]] \in Nat
  BY <1>9, <1>2
<1> QED BY <1>10, <1>11

(* The sorted order: every step once, and after all it waits for.          *)
Sorts(graph, order) ==
  /\ order \in Seq(DOMAIN graph.nodes)
  /\ Len(order) = Cardinality(DOMAIN graph.nodes)
  /\ \A e \in graph.edges : \E i, j \in DOMAIN order :
       order[i] = e[1] /\ order[j] = e[2] /\ i < j

(* Kahn's algorithm sorts a graph that can be ranked.                      *)
LEMMA SortSorts ==
  ASSUME NEW graph, Graph(graph), Ranked(graph, DOMAIN graph.nodes)
  PROVE  Sorts(graph, TopologicalSort(graph))
<1> DEFINE D == DOMAIN graph.nodes
           n == Cardinality(D)
           degree == [v \in D |-> InDegree(graph, v)]
           start == [queue |-> SetToSeq({v \in D : degree[v] = 0}),
                     order |-> <<>>, degree |-> degree]
           K == [queue : Seq(D), order : Seq(D), degree : [D -> Nat]]
           S == {s \in K : KahnOrders(graph, s)}
           g == [k \in 1 .. n |-> [s \in S |-> Dequeue(graph, s)]]
<1>f. IsFiniteSet(D)
  BY DEF Graph
<1>n. n \in Nat
  BY <1>f, FS_CardinalityType
<1>k. \A s \in S : KahnState(graph, s) /\ KahnOrders(graph, s)
  BY DEF KahnState
<1>1. start \in S
  <2>1. start = Started(graph)
    BY DEF Started
  <2>2. start \in K
    <3>1. /\ start.queue \in Seq(D) /\ start.order \in Seq(D)
          /\ start.degree \in [D -> Nat]
      BY <2>1, StartOrders DEF KahnState
    <3> DEFINE q == SetToSeq({v \in D : degree[v] = 0})
    <3>2. start = [queue |-> q, order |-> <<>>, degree |-> degree]
      OBVIOUS
    <3> HIDE DEF start, q, degree, D
    <3> QED BY <3>1, <3>2
  <2>3. KahnOrders(graph, start)
    BY <2>1, StartOrders
  <2> HIDE DEF start, K
  <2> QED BY <2>2, <2>3
<1>2. ASSUME NEW s \in S
      PROVE  /\ Dequeue(graph, s) \in S
             /\ s.queue # <<>> =>
                  Len(Dequeue(graph, s).order) = Len(s.order) + 1
             /\ s.queue = <<>> => Dequeue(graph, s) = s
  <2>1. KahnState(graph, s) /\ KahnOrders(graph, s)
    BY <1>k
  <2>2. CASE s.queue = <<>>
    <3>1. Dequeue(graph, s) = s
      BY <2>2 DEF Dequeue
    <3> HIDE DEF S
    <3> QED BY <2>2, <3>1
  <2>3. CASE s.queue # <<>>
    <3> DEFINE d == Dequeue(graph, s)
    <3>1. /\ KahnState(graph, d) /\ KahnOrders(graph, d)
          /\ Len(d.order) = Len(s.order) + 1
      BY <2>1, <2>3, RoundOrders
    <3>2. d = [queue |-> d.queue, order |-> d.order, degree |-> d.degree]
      BY <2>3 DEF Dequeue
    <3> HIDE DEF d
    <3>3. d \in K
      BY <3>1, <3>2 DEF KahnState
    <3>4. d \in S
      BY <3>1, <3>3
    <3> QED BY <3>1, <3>4, <2>3 DEF d
  <2> QED BY <2>2, <2>3
<1> HIDE DEF n, S, start
<1>3. PICK h : Stepped(h, n, S, start, g)
  <2>1. g \in [1 .. n -> [S -> S]]
    BY <1>2
  <2>2. Stepping(n, S, start, g)
    <3> HIDE DEF g
    <3> QED BY <2>1, <1>1, <1>n DEF Stepping
  <2> HIDE DEF g
  <2> QED BY <2>2, RecursionExists
<1>4. h \in [0 .. n -> S] /\ h[0] = start
  <2> HIDE DEF g
  <2> QED BY <1>3 DEF Stepped
<1>5. ASSUME NEW k \in 0 .. n, k # 0
      PROVE  k \in 1 .. n /\ k - 1 \in 0 .. n /\ h[k] = Dequeue(graph, h[k - 1])
  <2>0. k \in 1 .. n /\ k - 1 \in 0 .. n
    BY <1>5, <1>n
  <2>1. h[k] = g[k][h[k - 1]]
    <3> HIDE DEF g
    <3> QED BY <1>3, <2>0 DEF Stepped
  <2>2. h[k - 1] \in S
    BY <2>0, <1>4
  <2> QED BY <2>0, <2>1, <2>2
<1>6. h = [k \in 0 .. n |-> IF k = 0 THEN start ELSE Dequeue(graph, h[k - 1])]
  <2>1. ASSUME NEW k \in 0 .. n
        PROVE  h[k] = IF k = 0 THEN start ELSE Dequeue(graph, h[k - 1])
    BY <1>4, <1>5, Zenon
  <2> QED BY <2>1, <1>4
<1>7. PICK e :
        /\ e = [k \in 0 .. n |-> IF k = 0 THEN start
                                 ELSE Dequeue(graph, e[k - 1])]
        /\ TopologicalSort(graph) = e[n].order
  BY <1>6 DEF TopologicalSort, n, start
<1> DEFINE Kept(k, s) == s \in S /\ (Len(s.order) = k \/ s.queue = <<>>)
           P == {k \in 0 .. n : Kept(k, e[k])}
<1>8. 0 \in P
  <2>1. e[0] = start
    BY <1>7, <1>n
  <2>2. Len(start.order) = 0
    BY EmptySeq DEF start
  <2> QED BY <2>1, <2>2, <1>1, <1>n
<1>9. ASSUME NEW k \in 0 .. n - 1, k \in P PROVE k + 1 \in P
  <2>0. k + 1 \in 0 .. n /\ k + 1 # 0 /\ (k + 1) - 1 = k /\ k \in Nat
    BY <1>n
  <2>1. e[k + 1] = Dequeue(graph, e[k])
    <3>1. e[k + 1] = Dequeue(graph, e[(k + 1) - 1])
      BY <1>7, <2>0, Zenon
    <3> QED BY <3>1, <2>0
  <2>2. Kept(k, e[k])
    BY <1>9
  <2>3. Kept(k + 1, e[k + 1])
    <3>1. CASE e[k].queue = <<>>
      BY <3>1, <2>1, <2>2, <1>2
    <3>2. CASE e[k].queue # <<>>
      <4>1. Len(e[k].order) = k /\ e[k] \in S
        BY <2>2, <3>2
      <4>2. Len(e[k + 1].order) = Len(e[k].order) + 1 /\ e[k + 1] \in S
        BY <4>1, <3>2, <2>1, <1>2
      <4> QED BY <4>1, <4>2
    <3> QED BY <3>1, <3>2
  <2> HIDE DEF Kept
  <2> QED BY <2>0, <2>3
<1>10. Kept(n, e[n])
  <2>1. \A k \in 0 .. n - 1 : k \in P => k + 1 \in P
    BY <1>9
  <2> HIDE DEF P
  <2>2. \A k \in 0 .. n : k \in P
    BY <1>8, <1>n, <2>1, AllNumbers
  <2>3. n \in P
    BY <2>2, <1>n
  <2> HIDE DEF Kept
  <2> QED BY <2>3 DEF P
<1> DEFINE s == e[n]
           o == s.order
<1>11. KahnState(graph, s) /\ KahnOrders(graph, s)
  BY <1>10, <1>k
<1>12. o \in Seq(D) /\ IsInjective(o)
  BY <1>11 DEF KahnState, KahnOrders
<1> HIDE DEF D
<1>13. ToSet(o) \subseteq D /\ Len(o) = Cardinality(ToSet(o))
  BY <1>12, <1>f, DistinctLength
<1>14. ToSet(o) = D
  <2>1. CASE s.queue = <<>>
    BY <2>1, <1>11, AllOrdered DEF D
  <2>2. CASE s.queue # <<>>
    <3>1. Len(o) = n
      BY <2>2, <1>10
    <3>2. Cardinality(ToSet(o)) = Cardinality(D)
      BY <3>1, <1>13 DEF n
    <3> HIDE DEF o
    <3> QED BY <3>2, <1>13, <1>f, FS_Subset
  <2> QED BY <2>1, <2>2
<1>15. Len(o) = n
  BY <1>13, <1>14 DEF n
<1>16. ASSUME NEW x \in graph.edges
       PROVE  \E i, j \in DOMAIN o : o[i] = x[1] /\ o[j] = x[2] /\ i < j
  <2>1. x[2] \in D
    BY DEF Graph, D
  <2>4. DOMAIN o = 1 .. Len(o) /\ Len(o) \in Nat
    BY <1>12, LenProperties
  <2>2. PICK j \in 1 .. Len(o) : o[j] = x[2]
    BY <2>1, <2>4, <1>14 DEF ToSet
  <2>3. PICK i \in 1 .. j - 1 : o[i] = x[1]
    BY <2>2, <1>11 DEF KahnOrders
  <2>5. i \in DOMAIN o /\ j \in DOMAIN o /\ i < j
    BY <2>2, <2>3, <2>4
  <2> QED BY <2>2, <2>3, <2>5
<1> QED BY <1>7, <1>12, <1>15, <1>16 DEF Sorts, D, n

-----------------------------------------------------------------------------
(* A step that another reaches has an edge that leads to it.               *)
LEMMA ReachedHasEdge ==
  ASSUME NEW graph, Graph(graph), NEW x \in Reaches(graph)
  PROVE  \E e \in graph.edges : e[2] = x[2]
<1> DEFINE E == graph.edges
           n == Cardinality(DOMAIN graph.nodes)
           Led(pairs) == \A y \in pairs : \E e \in E : e[2] = y[2]
<1>n. n \in Nat
  BY FS_CardinalityType DEF Graph
<1>1. PICK w : /\ w[0] = E
               /\ \A k \in 0 .. n - 1 : w[k + 1] = Extended(w[k], E)
               /\ Reaches(graph) = w[n]
  BY ReachesGrows DEF Graph
<1> DEFINE P == {k \in 0 .. n : Led(w[k])}
<1>2. 0 \in P
  <2>1. Led(E)
    OBVIOUS
  <2> HIDE DEF n, E, Led
  <2> QED BY <2>1, <1>1, <1>n
<1>3. ASSUME NEW k \in 0 .. n - 1, k \in P PROVE k + 1 \in P
  <2>1. Led(w[k])
    BY <1>3
  <2>2. Led(Extended(w[k], E))
    <3>1. ASSUME NEW y \in Extended(w[k], E) PROVE \E e \in E : e[2] = y[2]
      <4>1. CASE y \in w[k]
        BY <4>1, <2>1
      <4>2. CASE y \notin w[k]
        <5>1. PICK q \in w[k] \X E : y = <<q[1][1], q[2][2]>>
          <6> HIDE DEF E
          <6> QED BY <4>2 DEF Extended
        <5> QED BY <5>1
      <4> QED BY <4>1, <4>2
    <3> QED BY <3>1
  <2>3. k + 1 \in 0 .. n
    <3> HIDE DEF n
    <3> QED BY <1>n
  <2> HIDE DEF n, E, Led
  <2> QED BY <2>2, <2>3, <1>1
<1>4. n \in P
  <2>1. \A k \in 0 .. n - 1 : k \in P => k + 1 \in P
    BY <1>3
  <2> HIDE DEF P, n
  <2>2. \A k \in 0 .. n : k \in P
    BY <1>2, <1>n, <2>1, AllNumbers
  <2> QED BY <2>2, <1>n
<1>5. Led(w[n])
  <2> HIDE DEF Led
  <2> QED BY <1>4
<1> HIDE DEF n, E
<1> QED BY <1>5, <1>1 DEF E

(* No two steps that depend on nothing are in a chain of steps.            *)
LEMMA ChainHasOneFree ==
  ASSUME NEW graph, Graph(graph), Declares(graph), NEW c \in Chains(graph),
         NEW i \in c \cap Independent(graph),
         NEW j \in c \cap Independent(graph)
  PROVE  i = j
<1>1. i \in DOMAIN graph.nodes /\ j \in DOMAIN graph.nodes
  BY DEF Independent, Which
<1>2. ASSUME NEW k \in Independent(graph), NEW e \in graph.edges, e[2] = k
      PROVE  FALSE
  <2>1. /\ e[1] \in DOMAIN graph.nodes /\ k \in DOMAIN graph.nodes
        /\ e = <<e[1], k>>
    BY <1>2 DEF Graph
  <2>2. e[1] \in graph.nodes[k].item.dependencies
    BY <2>1 DEF Declares
  <2>3. graph.nodes[k].item.dependencies = {}
    BY DEF Independent, Which
  <2> QED BY <2>2, <2>3
<1>3. ASSUME NEW k \in Independent(graph), NEW l, <<l, k>> \in Reaches(graph)
      PROVE  FALSE
  <2>1. PICK e \in graph.edges : e[2] = <<l, k>>[2]
    BY <1>3, ReachedHasEdge
  <2>2. e[2] = k
    BY <2>1
  <2> QED BY <2>2, <1>2
<1>4. i = j \/ <<i, j>> \in Reaches(graph) \/ <<j, i>> \in Reaches(graph)
  BY DEF Chains
<1> QED BY <1>3, <1>4

(* The total of the simulation is not below what it was cut from.          *)
LEMMA NotBelow == \A x \in Int : Max({0, x}) \in Int /\ Max({0, x}) >= x
<1> SUFFICES ASSUME NEW x \in Int
             PROVE  Max({0, x}) \in Int /\ Max({0, x}) >= x
  OBVIOUS
<1>1. \E y \in {0, x} : \A z \in {0, x} : y >= z
  BY SMT
<1>2. Max({0, x}) \in {0, x} /\ \A z \in {0, x} : Max({0, x}) >= z
  BY <1>1 DEF Max
<1> QED BY <1>2

(* No chain of steps takes longer than the simulated hours: of the free    *)
(* steps, which save what is over the longest of them, it has one at most. *)
LEMMA ChainsFit ==
  ASSUME NEW graph, Graph(graph), Hours(graph) \in [DOMAIN graph.nodes -> Nat],
         Declares(graph), NEW c \in Chains(graph)
  PROVE  SumFunctionOnSet(Hours(graph), c) <= Simulated(graph).hours
<1> DEFINE D == DOMAIN graph.nodes
           f == Hours(graph)
           F == Independent(graph)
           m == Max({f[x] : x \in F})
           A == c \cap F
           B == c \ F
           R == (D \ F) \ B
           S(x) == SumFunctionOnSet(f, x)
<1>1. IsFiniteSet(D) /\ f \in [D -> Nat] /\ c \in SUBSET D /\ F \in SUBSET D
  BY DEF Graph, Chains, Independent, Which
<1>2. \/ /\ Simulated(graph).hours = Max({0, S(D) - (S(F) - m)})
         /\ Cardinality(F) > 1
      \/ Simulated(graph).hours = Max({0, S(D) - 0})
  BY DEF Simulated, Longest
<1>o. \A i, j \in A : i = j
  BY ChainHasOneFree
<1>e. c = A \cup B /\ D \ F = B \cup R /\ D = F \cup (D \ F)
  BY <1>1
<1>d. /\ A \in SUBSET D /\ B \in SUBSET D /\ R \in SUBSET D
      /\ D \ F \in SUBSET D /\ D \ c \in SUBSET D /\ D = c \cup (D \ c)
      /\ A \cap B = {} /\ B \cap R = {} /\ F \cap (D \ F) = {}
      /\ c \cap (D \ c) = {} /\ D \in SUBSET D
  BY <1>1
<1> HIDE DEF D, f, F
<1>3. /\ S({}) = 0
      /\ \A x \in D : S({x}) = f[x]
      /\ \A X \in SUBSET D : S(X) \in Nat
      /\ \A X, Y \in SUBSET D : X \cap Y = {} => S(X \cup Y) = S(X) + S(Y)
  BY <1>1, SumsAgree
<1> HIDE DEF S, A, B, R, m
<1>4. /\ S(c) = S(A) + S(B) /\ S(D) = S(F) + S(D \ F)
      /\ S(D \ F) = S(B) + S(R) /\ S(D) = S(c) + S(D \ c)
  <2>1. S(A \cup B) = S(A) + S(B)
    BY <1>3, <1>d
  <2>2. S(F \cup (D \ F)) = S(F) + S(D \ F)
    BY <1>3, <1>d, <1>1
  <2>3. S(B \cup R) = S(B) + S(R)
    BY <1>3, <1>d
  <2>4. S(c \cup (D \ c)) = S(c) + S(D \ c)
    BY <1>3, <1>d, <1>1
  <2> QED BY <2>1, <2>2, <2>3, <2>4, <1>e, <1>d
<1>5. /\ S(c) \in Nat /\ S(A) \in Nat /\ S(B) \in Nat /\ S(R) \in Nat
      /\ S(F) \in Nat /\ S(D) \in Nat /\ S(D \ F) \in Nat /\ S(D \ c) \in Nat
  BY <1>1, <1>3, <1>d
<1>6. S(c) <= S(D)
  BY <1>4, <1>5
<1>7. ASSUME Cardinality(F) > 1 PROVE S(A) <= m /\ m \in Nat
  <2>1. F # {}
    BY <1>7, FS_EmptySet
  <2>2. (\E x \in F : m = f[x]) /\ \A x \in F : f[x] <= m
    BY <1>1, <2>1, GreatestIsIn DEF m
  <2>3. m \in Nat
    BY <1>1, <2>2
  <2>4. CASE A = {}
    BY <2>3, <2>4, <1>3
  <2>5. CASE A # {}
    <3>1. PICK x \in A : TRUE
      BY <2>5
    <3>2. A = {x}
      BY <3>1, <1>o
    <3>3. x \in F /\ x \in D
      BY <3>1, <1>d DEF A
    <3> QED BY <3>2, <3>3, <2>2, <2>3, <1>3
  <2> QED BY <2>3, <2>4, <2>5
<1>8. CASE /\ Cardinality(F) > 1
           /\ Simulated(graph).hours = Max({0, S(D) - (S(F) - m)})
  <2>1. S(A) <= m /\ m \in Nat
    BY <1>7, <1>8
  <2>2. PICK x \in Int : x = S(D) - (S(F) - m) /\ S(c) <= x
    BY <2>1, <1>4, <1>5
  <2>3. PICK h \in Int : h = Simulated(graph).hours /\ h = Max({0, x}) /\ h >= x
    BY <2>2, <1>8, NotBelow
  <2> QED BY <2>2, <2>3, <1>5 DEF S, f
<1>9. CASE Simulated(graph).hours = Max({0, S(D) - 0})
  <2>1. PICK x \in Int : x = S(D) - 0 /\ S(c) <= x
    BY <1>5, <1>6
  <2>2. PICK h \in Int : h = Simulated(graph).hours /\ h = Max({0, x}) /\ h >= x
    BY <2>1, <1>9, NotBelow
  <2> QED BY <2>1, <2>2, <1>5 DEF S, f
<1> QED BY <1>2, <1>8, <1>9

(* What is written as publishing publishes.                                *)
LEMMA WrittenIsSaid ==
  ASSUME NEW graph, \A i \in DOMAIN graph.nodes :
           graph.nodes[i].item.action \in DOMAIN Words
  PROVE  Recognised(graph) \subseteq Publishes(graph)
<1>1. \A item : item.action \in DOMAIN Words /\ Writes(item, "publish")
                => Says(item, "publish")
  BY DEF Writes, Says, AsWritten, Words
<1> QED BY <1>1 DEF Recognised, Publishes, Which

(* The reasoner and the analyst count the same, and the critic misses an   *)
(* approval exactly where the planner did not recognise a publication.     *)
LEMMA CountsAgree ==
  ASSUME NEW graph, Approved(graph) = Recognised(graph),
         Recognised(graph) \subseteq Publishes(graph)
  PROVE  /\ "unapproved" \in Critique(graph)
               <=> Publishes(graph) # Recognised(graph)
         /\ Score(graph).risk = 100 - Risk(graph).execution
         /\ Score(graph).approval = 100 - Risk(graph).approval
<1>1. "unapproved" \in Critique(graph)
        <=> Publishes(graph) # Recognised(graph)
  <2>1. "unapproved" \in Critique(graph)
          <=> ~ Publishes(graph) \subseteq Approved(graph)
    BY DEF Critique
  <2> QED BY <2>1
<1>2. CASE DOMAIN graph.nodes = {}
  BY <1>1, <1>2 DEF Score, Risk
<1>3. CASE DOMAIN graph.nodes # {}
  <2>1. /\ Score(graph).risk = 100 - Percent(Risky(graph), graph)
        /\ Score(graph).approval = 100 - Percent(Approved(graph), graph)
    BY <1>3 DEF Score
  <2>2. /\ Risk(graph).execution = Percent(Risky(graph), graph)
        /\ Risk(graph).approval = Percent(Approved(graph), graph)
    BY <1>3 DEF Risk
  <2> QED BY <1>1, <2>1, <2>2
<1> QED BY <1>2, <1>3

-----------------------------------------------------------------------------
(* Goals and plans.                                                        *)

(* The graphs there may be: what the planner makes of an answer.           *)
PlannedGraph == {EmptyGraph} \cup {Planned(a) : a \in PlanAnswers}
Estimated(graph) ==
  /\ "unapproved" \in Critique(graph)
        <=> Publishes(graph) # Recognised(graph)
  /\ Score(graph).risk = 100 - Risk(graph).execution
  /\ Score(graph).approval = 100 - Risk(graph).approval
  /\ Declares(graph) /\ Endures(graph) => \A c \in Chains(graph) :
       SumFunctionOnSet(Hours(graph), c) <= Simulated(graph).hours
Governed(graph) ==
  /\ \A e \in graph.edges : {e[1], e[2]} \subseteq DOMAIN graph.nodes
  /\ Approved(graph) = Recognised(graph) /\ Risky(graph) = Approved(graph)
  /\ Acyclic(graph) /\ Sorts(graph, TopologicalSort(graph))
  /\ Estimated(graph)
PlanRow == [goal : Nat, graph : PlannedGraph]
PlanRequest == [goal : Nat, plan : Nat, graph : PlannedGraph]
PlanStep == {"idle", "save_plan", "save_graph", "save_simulation"}

(* What a request holds of a plan is what is stored: no plan is changed.   *)
PlansTyped ==
  /\ goals \in 0 .. MaxGoal
  /\ plans \in Seq(PlanRow)
  /\ \A p \in DOMAIN plans : plans[p].goal \in 1 .. goals
  /\ plpc \in [Thread -> PlanStep]
  /\ plreq \in [Thread -> PlanRequest]
PlanInHand ==
  \A t \in Thread :
    /\ plreq[t].plan <= Len(plans)
    /\ plpc[t] = "save_plan" => plreq[t].goal \in 1 .. goals
    /\ plpc[t] \in {"save_graph", "save_simulation"} =>
         /\ plreq[t].plan \in DOMAIN plans
         /\ plreq[t].graph = plans[plreq[t].plan].graph
SavedBeside ==
  /\ DOMAIN graphs \cup DOMAIN simulations \subseteq DOMAIN plans
  /\ \A p \in DOMAIN graphs : graphs[p] = plans[p].graph
  /\ \A p \in DOMAIN simulations : simulations[p] = Simulated(plans[p].graph)
PlansInv == PlansTyped /\ PlanInHand /\ SavedBeside

(* A tool asks for approval and is risky if the step is written as         *)
(* publishing, listed or not, and only then.                               *)
LEMMA PublishingAsks ==
  ASSUME NEW item, item.action \in DOMAIN Words
  PROVE  /\ ToolFor(item).approval \in BOOLEAN
         /\ ToolFor(item).approval = TRUE <=> Writes(item, "publish")
         /\ ToolFor(item).risk \in {"high", "critical"}
              <=> Writes(item, "publish")
<1>1. item.action \in {"technical_seo_audit", "content_generation", "publish",
                       "publish_feed", "Publish_page", "fix_links"}
  BY DEF Words
<1>2. Writes(item, "publish") <=> item.action \in {"publish", "publish_feed"}
  BY <1>1 DEF Writes, AsWritten, Words
<1>3. CASE item.action \in {"technical_seo_audit", "content_generation"}
  <2>1. /\ ToolFor(item).approval = FALSE
        /\ ToolFor(item).risk \in {"low", "medium"}
    BY <1>3 DEF ToolFor, DefaultTools
  <2> QED BY <2>1, <1>2, <1>3
<1>4. CASE item.action = "publish"
  <2>1. ToolFor(item).approval = TRUE /\ ToolFor(item).risk = "high"
    BY <1>4 DEF ToolFor, DefaultTools
  <2> QED BY <2>1, <1>2, <1>4
<1>5. CASE item.action \in {"publish_feed", "Publish_page", "fix_links"}
  <2>1. item.action \notin DOMAIN DefaultTools
    BY <1>5 DEF DefaultTools
  <2>2. CASE Writes(item, "publish")
    BY <2>1, <2>2 DEF ToolFor
  <2>3. CASE ~Writes(item, "publish")
    BY <2>1, <2>3 DEF ToolFor
  <2> QED BY <2>2, <2>3
<1> QED BY <1>1, <1>3, <1>4, <1>5

(* A graph that the search found acyclic, and whose recognised             *)
(* publications ask for approval, is all a plan should be.                 *)
LEMMA RankedIsGoverned ==
  ASSUME NEW graph, Graph(graph), Hours(graph) \in [DOMAIN graph.nodes -> Int],
         Approved(graph) = Recognised(graph), Risky(graph) = Approved(graph),
         Recognised(graph) \subseteq Publishes(graph),
         Ranked(graph, DOMAIN graph.nodes)
  PROVE  Governed(graph)
<1>1. \A e \in graph.edges : {e[1], e[2]} \subseteq DOMAIN graph.nodes
  BY DEF Graph
<1>2. Acyclic(graph)
  BY RankedIsAcyclic DEF Graph
<1>3. Sorts(graph, TopologicalSort(graph))
  BY SortSorts
<1>4. Estimated(graph)
  <2>1. ASSUME Declares(graph), Endures(graph), NEW c \in Chains(graph)
        PROVE  SumFunctionOnSet(Hours(graph), c) <= Simulated(graph).hours
    <3>1. Hours(graph) \in [DOMAIN graph.nodes -> Nat]
      BY <2>1 DEF Endures
    <3> QED BY <2>1, <3>1, ChainsFit
  <2> QED BY <2>1, CountsAgree DEF Estimated
<1> QED BY <1>1, <1>2, <1>3, <1>4 DEF Governed

(* Whatever the model answers, the planner's graph is governed, can be     *)
(* executed and is estimated consistently.                                 *)
LEMMA PlannedIsGoverned == \A graph \in PlannedGraph : Governed(graph)
<1>1. Governed(EmptyGraph)
  <2> DEFINE r == [u \in {} |-> 0]
  <2>1. DOMAIN EmptyGraph.nodes = {} /\ EmptyGraph.edges = {}
    BY EmptySeq DEF EmptyGraph
  <2>2. Graph(EmptyGraph)
    BY <2>1, FS_EmptySet DEF Graph
  <2>3. Hours(EmptyGraph) \in [DOMAIN EmptyGraph.nodes -> Int]
    BY <2>1 DEF Hours
  <2>4. /\ Approved(EmptyGraph) = Recognised(EmptyGraph)
        /\ Risky(EmptyGraph) = Approved(EmptyGraph)
        /\ Recognised(EmptyGraph) \subseteq Publishes(EmptyGraph)
    BY <2>1 DEF Publishes, Recognised, Approved, Risky, Which
  <2>5. Ranks(EmptyGraph, {}, r, 0)
    BY <2>1 DEF Ranks
  <2>6. Ranked(EmptyGraph, DOMAIN EmptyGraph.nodes)
    <3> HIDE DEF r
    <3> QED BY <2>1, <2>5 DEF Ranked
  <2> QED BY <2>2, <2>3, <2>4, <2>6, RankedIsGoverned
<1>2. ASSUME NEW a \in PlanAnswers PROVE Governed(Planned(a))
  <2> DEFINE graph == [nodes |-> [i \in DOMAIN a.nodes |->
                                    ExecutionNode(a.nodes[i])],
                       edges |-> a.edges]
  <2>1. CASE ValidDag(graph)
    <3>1. Planned(a) = graph
      BY <2>1 DEF Planned
    <3>a. /\ IsFiniteSet(DOMAIN a.nodes) /\ a.edges \subseteq StepId \X StepId
          /\ \A i \in DOMAIN a.nodes : /\ a.nodes[i].action \in DOMAIN Words
                                       /\ a.nodes[i].duration \in Int
      BY PlanningAssumption
    <3>2. \A e \in graph.edges : {e[1], e[2]} \subseteq DOMAIN graph.nodes
      BY <2>1 DEF ValidDag
    <3>3. ASSUME NEW i \in DOMAIN graph.nodes
          PROVE  /\ graph.nodes[i].item = a.nodes[i]
                 /\ graph.nodes[i].approval = ToolFor(a.nodes[i]).approval
                 /\ graph.nodes[i].risk = ToolFor(a.nodes[i]).risk
                 /\ i \in DOMAIN a.nodes
      <4>1. graph.nodes[i] = ExecutionNode(a.nodes[i])
        OBVIOUS
      <4> QED BY <4>1 DEF ExecutionNode
    <3>4. DOMAIN graph.nodes = DOMAIN a.nodes /\ graph.edges = a.edges
      OBVIOUS
    <3> HIDE DEF graph
    <3>5. Approved(graph) = Recognised(graph) /\ Risky(graph) = Approved(graph)
      <4>1. ASSUME NEW i \in DOMAIN graph.nodes
            PROVE  /\ graph.nodes[i].approval
                        <=> Writes(graph.nodes[i].item, "publish")
                   /\ graph.nodes[i].risk \in {"high", "critical"}
                        <=> Writes(graph.nodes[i].item, "publish")
        <5>1. /\ ToolFor(a.nodes[i]).approval = TRUE
                   <=> Writes(a.nodes[i], "publish")
              /\ ToolFor(a.nodes[i]).risk \in {"high", "critical"}
                   <=> Writes(a.nodes[i], "publish")
          BY <4>1, <3>3, <3>a, PublishingAsks
        <5>2. ToolFor(a.nodes[i]).approval \in BOOLEAN
          BY <4>1, <3>3, <3>a, PublishingAsks
        <5> QED BY <5>1, <5>2, <3>3, <4>1
      <4>2. Approved(graph) = Recognised(graph)
        BY <4>1 DEF Approved, Recognised, Which
      <4>3. Risky(graph) = Recognised(graph)
        BY <4>1 DEF Risky, Recognised, Which
      <4> QED BY <4>2, <4>3
    <3>9. Recognised(graph) \subseteq Publishes(graph)
      BY <3>a, <3>3, WrittenIsSaid
    <3>6. Graph(graph)
      <4>1. ASSUME NEW e \in graph.edges
            PROVE  e \in (DOMAIN graph.nodes) \X (DOMAIN graph.nodes)
        <5>1. e = <<e[1], e[2]>>
          BY <3>a, <3>4
        <5>2. e[1] \in DOMAIN graph.nodes /\ e[2] \in DOMAIN graph.nodes
          BY <3>2
        <5> QED BY <5>1, <5>2
      <4> QED BY <4>1, <3>a, <3>4 DEF Graph
    <3>7. Hours(graph) \in [DOMAIN graph.nodes -> Int]
      BY <3>a, <3>3 DEF Hours
    <3>8. Ranked(graph, DOMAIN graph.nodes)
      BY <2>1, <3>6, SearchedIsRanked DEF ValidDag, Graph
    <3> QED BY <3>1, <3>5, <3>6, <3>7, <3>8, <3>9, RankedIsGoverned
  <2>2. CASE ~ValidDag(graph)
    BY <1>1, <2>2 DEF Planned
  <2> QED BY <2>1, <2>2
<1> QED BY <1>1, <1>2 DEF PlannedGraph

(* Its plans are governed, for no plan is changed.                         *)
LEMMA PlansInvImplies == PlansInv => PlanningHolds
<1> SUFFICES ASSUME PlansInv PROVE PlanningHolds
  OBVIOUS
<1>1. Len(plans) \in Nat /\ DOMAIN plans = 1 .. Len(plans)
  BY DEF PlansInv, PlansTyped
<1>2. \A p \in DOMAIN plans : plans[p].graph \in PlannedGraph
  <2>1. \A p \in DOMAIN plans : plans[p] \in PlanRow
    BY <1>1 DEF PlansInv, PlansTyped
  <2> QED BY <2>1 DEF PlanRow
<1>3. PlansAreGoverned
  BY <1>2, PlannedIsGoverned
     DEF PlansInv, SavedBeside, PlansAreGoverned, Governed
<1>6. PlansAreExecutable
  <2>1. ASSUME NEW p \in DOMAIN plans PROVE Governed(plans[p].graph)
    BY <1>2, PlannedIsGoverned
  <2> QED BY <2>1 DEF PlansAreExecutable, Governed, Sorts
<1>7. EstimatesAgree
  <2>1. ASSUME NEW p \in DOMAIN simulations
        PROVE  /\ Governed(plans[p].graph)
               /\ simulations[p].hours = Simulated(plans[p].graph).hours
    BY <1>2, PlannedIsGoverned DEF PlansInv, SavedBeside
  <2> QED BY <2>1 DEF EstimatesAgree, Governed, Estimated
<1>4. \A t \in Thread : plreq[t].plan \in 0 .. Len(plans)
  <2>1. \A t \in Thread : plreq[t].plan \in Nat
    BY DEF PlansInv, PlansTyped, PlanRequest
  <2> QED BY <1>1, <2>1 DEF PlansInv, PlanInHand
<1>5. ApTypeOK
  BY <1>4 DEF PlansInv, PlansTyped, SavedBeside, ApTypeOK, PlanStep
<1> QED BY <1>3, <1>5, <1>6, <1>7 DEF PlanningHolds

(* A thread without a request holds no plan.                               *)
LEMMA NothingPlanned == Unplanned \in PlanRequest /\ Unplanned.plan = 0
  BY DEF Unplanned, PlanRequest, PlannedGraph

(* Nothing is planned at first.                                            *)
LEMMA PlansInit == ApInit => PlansInv
<1> SUFFICES ASSUME ApInit PROVE PlansInv
  OBVIOUS
<1>1. plans = <<>> /\ plans \in Seq(PlanRow) /\ DOMAIN plans = {}
  BY DEF ApInit
<1>2. DOMAIN graphs = {} /\ DOMAIN simulations = {} /\ Len(plans) = 0
  BY DEF ApInit
<1>3. goals \in 0 .. MaxGoal
  BY PlanningAssumption DEF ApInit
<1> QED BY <1>1, <1>2, <1>3, NothingPlanned
        DEF ApInit, PlansInv, PlansTyped, PlanInHand, SavedBeside, PlanStep

(* A request of one thread moves on; plans and what is beside them stay.   *)
LEMMA RequestMoves ==
  ASSUME PlansInv, NEW t \in Thread, NEW s \in PlanStep,
         NEW r \in PlanRequest,
         plpc' = [plpc EXCEPT ![t] = s], plreq' = [plreq EXCEPT ![t] = r],
         r.plan <= Len(plans),
         s = "save_plan" => r.goal \in 1 .. goals,
         s \in {"save_graph", "save_simulation"} =>
           r.plan \in DOMAIN plans /\ r.graph = plans[r.plan].graph,
         UNCHANGED <<goals, plans>>, SavedBeside'
  PROVE  PlansInv'
<1>1. PlansTyped'
  BY DEF PlansInv, PlansTyped
<1>2. /\ plpc'[t] = s /\ plreq'[t] = r
      /\ \A u \in Thread \ {t} : plpc'[u] = plpc[u] /\ plreq'[u] = plreq[u]
  BY DEF PlansInv, PlansTyped
<1>3. PlanInHand'
  BY <1>2 DEF PlansInv, PlanInHand
<1> QED BY <1>1, <1>3 DEF PlansInv

(* parse_goal saves a goal, and plans nothing.                             *)
LEMMA ParseGoalKeeps ==
  ASSUME PlansInv, NEW t \in Thread, ParseGoal(t)
  PROVE  PlansInv'
<1>1. /\ goals' = goals + 1 /\ goals < MaxGoal /\ goals \in Nat
      /\ UNCHANGED <<plans, graphs, simulations, plpc, plreq>>
  BY DEF ParseGoal, PlansInv, PlansTyped
<1>2. goals' \in 0 .. MaxGoal /\ \A g \in 1 .. goals : g \in 1 .. goals'
  BY <1>1, PlanningAssumption
<1>3. PlansTyped'
  BY <1>1, <1>2 DEF PlansInv, PlansTyped
<1>4. PlanInHand' /\ SavedBeside'
  BY <1>1, <1>2 DEF PlansInv, PlanInHand, SavedBeside
<1> QED BY <1>3, <1>4 DEF PlansInv

(* Planner.plan governs what the model answered before it is saved.        *)
LEMMA PlanGoalKeeps ==
  ASSUME PlansInv, NEW t \in Thread, NEW g \in 1 .. goals, PlanGoal(t, g)
  PROVE  PlansInv'
<1>1. PICK graph \in PlannedGraph :
        plreq' = [plreq EXCEPT ![t] = [goal |-> g, plan |-> 0,
                                       graph |-> graph]]
  BY DEF PlanGoal, PlannedGraph
<1>2. PICK r : r = [goal |-> g, plan |-> 0, graph |-> graph]
  OBVIOUS
<1>3. r \in PlanRequest /\ r.plan = 0 /\ r.goal = g
  BY <1>2 DEF PlanRequest
<1>4. /\ plpc' = [plpc EXCEPT ![t] = "save_plan"]
      /\ UNCHANGED <<goals, plans, graphs, simulations>>
  BY DEF PlanGoal
<1>5. SavedBeside'
  BY <1>4 DEF PlansInv, SavedBeside
<1>6. "save_plan" \in PlanStep /\ 0 <= Len(plans)
  BY DEF PlanStep, PlansInv, PlansTyped
<1> QED BY <1>1, <1>2, <1>3, <1>4, <1>5, <1>6, RequestMoves

(* The plan saved is the one in hand, beside those that stand.             *)
LEMMA SavePlanKeeps ==
  ASSUME PlansInv, NEW t \in Thread, SavePlan(t)
  PROVE  PlansInv'
<1>1. PICK n \in Nat : n = Len(plans)
  BY DEF PlansInv, PlansTyped
<1>2. PICK r : r = plreq[t] /\ r \in PlanRequest /\ r.goal \in 1 .. goals
  BY DEF SavePlan, PlansInv, PlansTyped, PlanInHand
<1>3. PICK row : row = [goal |-> r.goal, graph |-> r.graph]
  OBVIOUS
<1>4. row \in PlanRow /\ row.goal \in 1 .. goals /\ row.graph = r.graph
  BY <1>2, <1>3 DEF PlanRow, PlanRequest
<1>5. /\ plans' = Append(plans, row)
      /\ plpc' = [plpc EXCEPT ![t] = "save_graph"]
      /\ plreq' = [plreq EXCEPT ![t].plan = Len(plans')]
      /\ UNCHANGED <<goals, graphs, simulations>>
  BY <1>2, <1>3 DEF SavePlan
<1>6. /\ plans' \in Seq(PlanRow) /\ Len(plans') = n + 1
      /\ plans'[n + 1] = row /\ \A p \in 1 .. n : plans'[p] = plans[p]
      /\ DOMAIN plans = 1 .. n /\ DOMAIN plans' = 1 .. n + 1
  BY <1>1, <1>4, <1>5, AppendProperties DEF PlansInv, PlansTyped
<1>7. PICK q : q = [r EXCEPT !.plan = n + 1]
  OBVIOUS
<1>8. q \in PlanRequest /\ q.plan = n + 1 /\ q.graph = r.graph
  BY <1>1, <1>2, <1>7 DEF PlanRequest
<1>9. plreq' = [plreq EXCEPT ![t] = q]
  BY <1>2, <1>5, <1>6, <1>7
<1>10. /\ plpc'[t] = "save_graph" /\ plreq'[t] = q
       /\ \A u \in Thread \ {t} : plpc'[u] = plpc[u] /\ plreq'[u] = plreq[u]
  BY <1>5, <1>9 DEF PlansInv, PlansTyped
<1>11. \A p \in 1 .. n + 1 : p \in 1 .. n \/ p = n + 1
  BY <1>1
<1>12. PlansTyped'
  <2>1. \A p \in DOMAIN plans' : plans'[p].goal \in 1 .. goals
    BY <1>4, <1>6, <1>11 DEF PlansInv, PlansTyped
  <2>2. plpc' \in [Thread -> PlanStep] /\ plreq' \in [Thread -> PlanRequest]
    BY <1>5, <1>8, <1>9 DEF PlansInv, PlansTyped, PlanStep
  <2> QED BY <1>5, <1>6, <2>1, <2>2 DEF PlansInv, PlansTyped
<1>13. PlanInHand'
  <2>1. ASSUME NEW u \in Thread \ {t}
        PROVE  /\ plreq'[u].plan <= n + 1
               /\ plpc'[u] = "save_plan" => plreq'[u].goal \in 1 .. goals
               /\ plpc'[u] \in {"save_graph", "save_simulation"} =>
                    /\ plreq'[u].plan \in 1 .. n + 1
                    /\ plreq'[u].graph = plans'[plreq'[u].plan].graph
    <3>1. plreq[u].plan \in Nat /\ plreq[u].plan <= n
      BY <1>1 DEF PlansInv, PlansTyped, PlanInHand, PlanRequest
    <3>2. plreq[u].plan <= n + 1
      BY <1>1, <3>1
    <3> QED BY <1>6, <1>10, <3>1, <3>2 DEF PlansInv, PlanInHand
  <2>2. /\ plreq'[t].plan = n + 1 /\ n + 1 <= n + 1 /\ n + 1 \in 1 .. n + 1
        /\ plreq'[t].graph = plans'[n + 1].graph /\ plpc'[t] # "save_plan"
    BY <1>1, <1>4, <1>6, <1>8, <1>10
  <2> QED BY <1>5, <1>6, <2>1, <2>2 DEF PlanInHand
<1>14. SavedBeside'
  BY <1>5, <1>6, <1>11 DEF PlansInv, SavedBeside
<1> QED BY <1>12, <1>13, <1>14 DEF PlansInv

(* A request ends, lost or done.                                           *)
LEMMA FinishedKeeps ==
  ASSUME PlansInv, NEW t \in Thread, Finished(t),
         UNCHANGED <<goals, plans>>, SavedBeside'
  PROVE  PlansInv'
<1>1. /\ plpc' = [plpc EXCEPT ![t] = "idle"]
      /\ plreq' = [plreq EXCEPT ![t] = Unplanned]
  BY DEF Finished
<1>2. "idle" \in PlanStep /\ Unplanned.plan <= Len(plans)
  BY NothingPlanned DEF PlanStep, PlansInv, PlansTyped
<1> QED BY <1>1, <1>2, NothingPlanned, RequestMoves

(* The graph saved is the plan's.                                          *)
LEMMA SaveGraphKeeps ==
  ASSUME PlansInv, NEW t \in Thread, SaveGraph(t)
  PROVE  PlansInv'
<1>1. PICK p : p = plreq[t].plan
  OBVIOUS
<1>2. p \in DOMAIN plans /\ plreq[t].graph = plans[p].graph
  BY <1>1 DEF SaveGraph, PlansInv, PlanInHand
<1>3. /\ graphs' = [q \in DOMAIN graphs \cup {p} |->
                      IF q = p THEN plans[p].graph ELSE graphs[q]]
      /\ Finished(t) /\ UNCHANGED <<goals, plans, simulations>>
  BY <1>1, <1>2 DEF SaveGraph
<1>4. SavedBeside'
  BY <1>2, <1>3 DEF PlansInv, SavedBeside
<1> QED BY <1>3, <1>4, FinishedKeeps

(* What a simulation reads is what was saved.                              *)
LEMMA ReadPlanKeeps ==
  ASSUME PlansInv, NEW t \in Thread, NEW p \in DOMAIN plans, ReadPlan(t, p)
  PROVE  PlansInv'
<1>1. PICK r : r = [goal |-> 0, plan |-> p, graph |-> plans[p].graph]
  OBVIOUS
<1>2. /\ plpc' = [plpc EXCEPT ![t] = "save_simulation"]
      /\ plreq' = [plreq EXCEPT ![t] = r]
      /\ UNCHANGED <<goals, plans, graphs, simulations>>
  BY <1>1 DEF ReadPlan
<1>3. p \in 1 .. Len(plans) /\ Len(plans) \in Nat /\ plans[p] \in PlanRow
  BY DEF PlansInv, PlansTyped
<1>4. r \in PlanRequest /\ r.plan = p /\ r.graph = plans[p].graph
  BY <1>1, <1>3 DEF PlanRequest, PlanRow
<1>5. SavedBeside'
  BY <1>2 DEF PlansInv, SavedBeside
<1>6. "save_simulation" \in PlanStep /\ p <= Len(plans)
  BY <1>3 DEF PlanStep
<1> QED BY <1>2, <1>4, <1>5, <1>6, RequestMoves

(* The simulation saved is of the plan's graph.                            *)
LEMMA SaveSimulationKeeps ==
  ASSUME PlansInv, NEW t \in Thread, SaveSimulation(t)
  PROVE  PlansInv'
<1>1. PICK p : p = plreq[t].plan
  OBVIOUS
<1>2. p \in DOMAIN plans /\ plreq[t].graph = plans[p].graph
  BY <1>1 DEF SaveSimulation, PlansInv, PlanInHand
<1>3. PICK s : s = Simulated(plans[p].graph)
  OBVIOUS
<1>4. /\ simulations' = [q \in DOMAIN simulations \cup {p} |->
                           IF q = p THEN s ELSE simulations[q]]
      /\ Finished(t) /\ UNCHANGED <<goals, plans, graphs>>
  BY <1>1, <1>2, <1>3 DEF SaveSimulation
<1>5. SavedBeside'
  BY <1>2, <1>3, <1>4 DEF PlansInv, SavedBeside
<1> QED BY <1>4, <1>5, FinishedKeeps

(* A lost request leaves what it has saved.                                *)
LEMMA LosePlanningKeeps ==
  ASSUME PlansInv, NEW t \in Thread, LosePlanning(t)
  PROVE  PlansInv'
<1>1. Finished(t) /\ UNCHANGED <<goals, plans, graphs, simulations>>
  BY DEF LosePlanning
<1>2. SavedBeside'
  BY <1>1 DEF PlansInv, SavedBeside
<1> QED BY <1>1, <1>2, FinishedKeeps

(* Whatever graphs the model answers, whoever plans and simulates at once  *)
(* and whatever is lost: no plan is saved that waits for a step it does    *)
(* not have, the steps that ask for approval are those written as          *)
(* publishing (Planner.plan), and the critic misses an approval exactly    *)
(* where another publishes (critique_plan); all plans can be executed in   *)
(* the order they are sorted in (validate_dag, get_topological_sort), and  *)
(* what is saved beside a plan is the plan's.                              *)
THEOREM PlansStayGoverned == ApSpec => []PlanningHolds
<1>1. PlansInv /\ [ApNext]_plvars => PlansInv'
  <2> SUFFICES ASSUME PlansInv, [ApNext]_plvars PROVE PlansInv'
    OBVIOUS
  <2>1. CASE UNCHANGED plvars
    BY <2>1 DEF plvars, PlansInv, PlansTyped, PlanInHand, SavedBeside
  <2> QED
    BY <2>1, ParseGoalKeeps, PlanGoalKeeps, SavePlanKeeps, SaveGraphKeeps,
       ReadPlanKeeps, SaveSimulationKeeps, LosePlanningKeeps DEF ApNext
<1> QED BY <1>1, PlansInit, PlansInvImplies, PTL DEF ApSpec
=============================================================================
