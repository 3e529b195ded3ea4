-------------------------- MODULE WorkflowExecution --------------------------
(***************************************************************************)
(* Automation Studio: workflows are lists of nodes.  An event starts every *)
(* workflow registered for it; a run executes its nodes in order until a   *)
(* script fails, the list ends, or a node asks for an approval, at which   *)
(* it is suspended; POST resume approves or rejects.  Several threads      *)
(* serve events and resumes, each repository call is a transaction, and    *)
(* the run's row is written back whole from the copy a request works on.   *)
(*                                                                         *)
(* Abstractions: one run of each workflow; what a script computes is       *)
(* whether it fails (the sandbox turns exceptions into an error); names,   *)
(* edges, contexts and notifications are not kept.                         *)
(***************************************************************************)
EXTENDS Service

CONSTANTS
  Workflow,   \* workflow definitions
  Nodes,      \* [Workflow -> Seq(NodeType)], nodes_json
  Registered, \* those an event of the tenant triggers
  Idle        \* no workflow

NodeType == {"approval", "script", "other"}
Rejected == 0   \* the log entry of a rejection; nodes are logged by position

ASSUME WorkflowAssumption ==
  /\ Nodes \in [Workflow -> Seq(NodeType)]
  /\ Registered \subseteq Workflow
  /\ Idle \notin Workflow

VARIABLES
  run,        \* [Workflow -> its execution row]
  suspended,  \* [Workflow -> suspension rows]
  granted,    \* [Workflow -> positions of approvals someone granted]
  meddled,    \* a call was lost, or two requests met on one run
  wpc,        \* [Thread -> next call of the request it serves]
  job,        \* [Thread -> workflow of the run it works on]
  queue,      \* [Thread -> workflows the event has still to start]
  copy        \* [Thread -> exec_run]

wrows   == <<run, suspended>>
wlocal  == <<wpc, job, queue, copy>>
wfvars  == <<run, suspended, granted, meddled, wlocal>>

NoRun == [status |-> "absent", node |-> 0, log |-> <<>>]

WfInit ==
  /\ run = [f \in Workflow |-> NoRun]
  /\ suspended = [f \in Workflow |-> 0]
  /\ granted = [f \in Workflow |-> {}]
  /\ meddled = FALSE
  /\ wpc = [t \in Thread |-> "idle"]
  /\ job = [t \in Thread |-> Idle]
  /\ queue = [t \in Thread |-> {}]
  /\ copy = [t \in Thread |-> NoRun]

(* Position of the node at which a run that is past node k stops.          *)
StopAt(f, k) ==
  LET asks == {i \in k + 1 .. Len(Nodes[f]) : Nodes[f][i] = "approval"}
  IN  IF asks = {} THEN Len(Nodes[f])
                   ELSE CHOOSE i \in asks : \A j \in asks : i <= j

(* Mutant: an approval that follows an approved one is passed over.        *)
OutcomesOnce(f, r) ==
  {IF r.node = 0
     THEN [status |-> IF \E i \in DOMAIN Nodes[f] : Nodes[f][i] = "approval"
                        THEN "paused" ELSE "completed",
           node |-> StopAt(f, 0),
           log |-> [i \in 1 .. StopAt(f, 0) |-> i]]
     ELSE [status |-> "completed", node |-> Len(Nodes[f]),
           log |-> [i \in 1 .. Len(Nodes[f]) |-> i]]}

(* What step_execution makes of a run: every node after the current one is *)
(* logged, up to the first that fails, pauses the run, or is the last.     *)
Outcomes(f, r) ==
  LET stop == StopAt(f, r.node)
      Upto(i, st) == [status |-> st, node |-> i,
                      log |-> r.log \o [j \in 1 .. i - r.node |-> r.node + j]]
      asks == stop > r.node /\ Nodes[f][stop] = "approval"
  IN  {Upto(stop, IF asks THEN "paused" ELSE "completed")}
        \cup {Upto(i, "failed") :
                i \in {j \in r.node + 1 .. stop : Nodes[f][j] = "script"}}

-----------------------------------------------------------------------------
At(t, step) == wpc' = [wpc EXCEPT ![t] = step]

(* The request is over; an event goes on with its next workflow.           *)
Done(t) ==
  /\ At(t, IF queue[t] = {} THEN "idle" ELSE "route")
  /\ job' = [job EXCEPT ![t] = Idle]
  /\ copy' = [copy EXCEPT ![t] = NoRun]

(* route_event: the registered workflows, one after the other.             *)
RouteEvent(t) ==
  /\ wpc[t] = "idle" /\ Registered # {}
  /\ \A f \in Registered : run[f].status = "absent"
  /\ \A u \in Thread : queue[u] = {}
  /\ queue' = [queue EXCEPT ![t] = Registered]
  /\ At(t, "route")
  /\ UNCHANGED <<wrows, granted, meddled, job, copy>>

StartRun(t) ==
  /\ wpc[t] = "route"
  /\ \E f \in queue[t] :
       /\ run' = [run EXCEPT ![f] = [NoRun EXCEPT !.status = "running"]]
       /\ job' = [job EXCEPT ![t] = f]
       /\ copy' = [copy EXCEPT ![t] = run'[f]]
       /\ queue' = [queue EXCEPT ![t] = @ \ {f}]
  /\ At(t, "step")
  /\ UNCHANGED <<suspended, granted, meddled>>

(* step_execution up to the save at its end.                               *)
StepExecution(t) ==
  /\ wpc[t] = "step"
  /\ \E r \in Outcomes(job[t], copy[t]) :
       /\ run' = [run EXCEPT ![job[t]] = r]
       /\ IF r.status = "paused"
            THEN /\ At(t, "suspend") /\ UNCHANGED job
                 /\ copy' = [copy EXCEPT ![t] = r]
            ELSE Done(t)
  /\ UNCHANGED <<suspended, granted, meddled, queue>>

SaveSuspension(t) ==
  /\ wpc[t] = "suspend"
  /\ suspended' = [suspended EXCEPT ![job[t]] = @ + 1]
  /\ Done(t)
  /\ UNCHANGED <<run, granted, meddled, queue>>

(* POST resume reads the run, which must be paused.                        *)
ResumeExecution(t, f, approved) ==
  /\ wpc[t] = "idle"
  /\ run[f].status = "paused"
  /\ At(t, IF approved THEN "unsuspend" ELSE "unsuspend to reject")
  /\ job' = [job EXCEPT ![t] = f]
  /\ copy' = [copy EXCEPT ![t] = run[f]]
  /\ granted' = [granted EXCEPT
                   ![f] = IF approved THEN @ \cup {run[f].node} ELSE @]
  /\ meddled' = (meddled \/ \E u \in Thread : job[u] = f)
  /\ UNCHANGED <<wrows, queue>>

RemoveSuspension(t) ==
  /\ wpc[t] \in {"unsuspend", "unsuspend to reject"}
  /\ suspended' = [suspended EXCEPT ![job[t]] = 0]
  /\ At(t, IF wpc[t] = "unsuspend" THEN "go on" ELSE "reject")
  /\ UNCHANGED <<run, granted, meddled, job, queue, copy>>

RejectRun(t) ==
  /\ wpc[t] = "reject"
  /\ run' = [run EXCEPT
               ![job[t]] = [copy[t] EXCEPT !.status = "failed",
                                           !.log = Append(@, Rejected)]]
  /\ Done(t)
  /\ UNCHANGED <<suspended, granted, meddled, queue>>

GoOn(t) ==
  /\ wpc[t] = "go on"
  /\ copy' = [copy EXCEPT ![t].status = "running"]
  /\ run' = [run EXCEPT ![job[t]] = copy'[t]]
  /\ At(t, "step")
  /\ UNCHANGED <<suspended, granted, meddled, job, queue>>

(* The database refuses a call or the process dies.                        *)
LoseCall(t) ==
  /\ Lossy /\ wpc[t] # "idle"
  /\ At(t, "idle")
  /\ job' = [job EXCEPT ![t] = Idle]
  /\ copy' = [copy EXCEPT ![t] = NoRun]
  /\ queue' = [queue EXCEPT ![t] = {}]
  /\ meddled' = TRUE
  /\ UNCHANGED <<wrows, granted>>

WfNext ==
  \E t \in Thread :
    \/ RouteEvent(t) \/ StartRun(t) \/ StepExecution(t) \/ SaveSuspension(t)
    \/ \E f \in Workflow, approved \in BOOLEAN : ResumeExecution(t, f, approved)
    \/ RemoveSuspension(t) \/ RejectRun(t) \/ GoOn(t) \/ LoseCall(t)

WfSpec == WfInit /\ [][WfNext]_wfvars

-----------------------------------------------------------------------------
Run == [status : {"absent", "running", "paused", "completed", "failed"},
        node : Nat, log : Seq(Nat)]

WfTypeOK ==
  /\ run \in [Workflow -> Run]
  /\ suspended \in [Workflow -> Nat]
  /\ granted \in [Workflow -> SUBSET Nat]
  /\ meddled \in BOOLEAN
  /\ wpc \in [Thread -> {"idle", "route", "step", "suspend", "unsuspend",
                         "unsuspend to reject", "go on", "reject"}]
  /\ job \in [Thread -> Workflow \cup {Idle}]
  /\ queue \in [Thread -> SUBSET Workflow]
  /\ copy \in [Thread -> Run]
  /\ \A t \in Thread : wpc[t] \notin {"idle", "route"} => job[t] \in Workflow

(* A node that follows an approval is executed only if that approval was   *)
(* granted, however many approvals and rejections race for it, and each    *)
(* run's log is one pass over its nodes.                                   *)
NothingUnapproved ==
  \A f \in Workflow : \A i \in DOMAIN run[f].log :
    \/ /\ run[f].log[i] = i /\ i <= Len(Nodes[f])
       /\ \A j \in 1 .. i - 1 : Nodes[f][j] = "approval" => j \in granted[f]
    \/ run[f].log[i] = Rejected /\ i = Len(run[f].log)

(* With nothing under way, a paused run has the one suspension someone can *)
(* act on, a run that is over has none, and no run is left running: as     *)
(* long as no call is lost and no two requests meet on a run.              *)
PausedIsSuspended ==
  (~meddled /\ \A t \in Thread : wpc[t] = "idle") =>
    \A f \in Workflow :
      /\ run[f].status # "running"
      /\ suspended[f] = IF run[f].status = "paused" THEN 1 ELSE 0

(* The invariant of runs and their suspensions: no step without its        *)
(* approval, and no run that waits for nobody.                             *)
RunsAreGoverned == WfTypeOK /\ NothingUnapproved /\ PausedIsSuspended
=============================================================================
