---------------------------- MODULE AgentRuntime ----------------------------
(***************************************************************************)
(* The Agent Runtime: one execution plan, a graph of nodes with their      *)
(* dependencies, driven by API requests start / pause / resume / cancel /  *)
(* step that run concurrently on worker threads.                           *)
(*                                                                         *)
(* The plan has two rows: the execution (its state) and the checkpoint     *)
(* (a state of its own and the nodes completed so far).  Each repository   *)
(* call is one transaction; nothing is locked between two calls.  One      *)
(* action is one call together with the local computation up to the next.  *)
(*                                                                         *)
(* Abstractions: one execution id, started each time with the same graph;  *)
(* outputs, current_node_id, metrics, episodes and lessons are written and *)
(* never read by the runtime; every request is made for the plan's tenant, *)
(* as the container makes it.                                              *)
(***************************************************************************)
EXTENDS Naturals, FiniteSets

CONSTANTS
  Node,         \* nodes of the plan's graph
  Edge,         \* <<from, to>>: the edges of the graph
  Rank,         \* [Node -> Nat], the order of the graph's nodes dictionary
  Writes,       \* nodes whose action publishes or fixes something
  Barred,       \* nodes above the policy's risk, or lacking their approval
  MaxRetries,   \* [Node -> Nat], required_inputs.max_retries
  Worker,       \* threads that serve requests
  None,         \* Python's None
  Operations,   \* what clients ask for in a run
  MaxStarts,    \* how many times the plan is started
  Faults        \* which faults a run shows

State == {"created", "ready", "waiting", "running", "succeeded", "failed",
          "blocked", "paused", "cancelled", "rollback", "completed"}
Operation == {"start", "pause", "resume", "cancel", "step"}
Identity  == {"owner", "viewer"}

ASSUME RuntimeAssumption ==
  /\ Edge \subseteq Node \X Node
  /\ Rank \in [Node -> Nat]
  /\ Writes \subseteq Node /\ Barred \subseteq Node
  /\ MaxRetries \in [Node -> Nat]
  /\ None \notin Node
  /\ Operations \subseteq Operation
  /\ MaxStarts \in Nat
  /\ Faults \subseteq {"tool", "crash"}

VARIABLES
  execution,   \* state of the execution row ("absent": no row)
  checkpoint,  \* the checkpoint row: its state and the completed nodes
  ran,         \* [Node -> how often its tool ran], counted up to Often
  starts,      \* starts asked for so far (bounded by MaxStarts)
  pc,          \* [Worker -> the next call of the request it serves]
  op,          \* [Worker -> what that request asks]
  identity,    \* [Worker -> who asks for a step]
  held,        \* [Worker -> the checkpoint object the request works on]
  node,        \* [Worker -> next_node of a step]
  retries      \* [Worker -> current_retries of a step]

vars == <<execution, checkpoint, ran, starts, pc, op, identity, held, node,
          retries>>
rows  == <<execution, checkpoint>>
local == <<op, identity, held, node, retries>>

Checkpoint == [state : State \cup {"absent"}, completed : SUBSET Node]
NoCheckpoint == [state |-> "absent", completed |-> {}]
Terminal == {"completed", "failed", "cancelled"}
Often == MaxStarts + 1

(* VALID_TRANSITIONS: the states that may follow each state.               *)
ValidTransitions ==
  [s \in State |->
     CASE s = "created"   -> {"ready", "cancelled"}
       [] s = "ready"     -> {"running", "paused", "cancelled", "blocked"}
       [] s = "waiting"   -> {"running", "paused", "cancelled"}
       [] s = "running"   -> {"succeeded", "failed", "blocked", "paused",
                              "cancelled"}
       [] s = "blocked"   -> {"running", "cancelled", "paused"}
       [] s = "paused"    -> {"running", "cancelled"}
       [] s = "succeeded" -> {"completed", "rollback"}
       [] s = "failed"    -> {"rollback"}
       [] s = "rollback"  -> {"failed", "completed"}
       [] OTHER           -> {}]

ValidTransition(from, to) ==
  from # "absent" /\ (from = to \/ to \in ValidTransitions[from])

TargetState(o) == CASE o = "pause"  -> "paused"
                    [] o = "resume" -> "running"
                    [] OTHER        -> "cancelled"

(* Mutant: edges followed the wrong way.                                   *)
EligibleReversed(completed) ==
  {n \in Node \ completed :
     \A e \in Edge : e[1] = n => e[2] \in completed}
(* Mutant: a node that was completed is searched again.                    *)
EligibleAgain(completed) ==
  {n \in Node : \A e \in Edge : e[2] = n => e[1] \in completed}

(* Nodes not completed whose dependencies are.                             *)
Eligible(completed) ==
  {n \in Node \ completed :
     \A e \in Edge : e[2] = n => e[1] \in completed}

(* The first of them in the order of the dictionary.                       *)
IsNext(n, completed) ==
  /\ n \in Eligible(completed)
  /\ \A m \in Eligible(completed) : Rank[n] <= Rank[m]

(* GovernanceGate: who may run a node under the policy.                    *)
PassesGate(n, who) == n \notin Barred /\ (n \in Writes => who = "owner")

Init ==
  /\ execution = "absent"
  /\ checkpoint = NoCheckpoint
  /\ ran = [n \in Node |-> 0]
  /\ starts = 0
  /\ pc = [w \in Worker |-> "idle"]
  /\ op = [w \in Worker |-> None]
  /\ identity = [w \in Worker |-> None]
  /\ held = [w \in Worker |-> NoCheckpoint]
  /\ node = [w \in Worker |-> None]
  /\ retries = [w \in Worker |-> 0]

Goto(w, step) == pc' = [pc EXCEPT ![w] = step]
Hold(w, c) == held' = [held EXCEPT ![w] = c]

(* The request ends and leaves its thread.                                 *)
Return(w) ==
  /\ Goto(w, "idle")
  /\ op' = [op EXCEPT ![w] = None]
  /\ identity' = [identity EXCEPT ![w] = None]
  /\ Hold(w, NoCheckpoint)
  /\ node' = [node EXCEPT ![w] = None]
  /\ retries' = [retries EXCEPT ![w] = 0]

(* An API request arrives; /start begins with a write, the others read.    *)
Request(w, o, who) ==
  /\ pc[w] = "idle"
  /\ o = "start" => starts < MaxStarts
  /\ starts' = IF o = "start" THEN starts + 1 ELSE starts
  /\ op' = [op EXCEPT ![w] = o]
  /\ identity' = [identity EXCEPT ![w] = IF o = "step" THEN who ELSE None]
  /\ Goto(w, IF o = "start" THEN "start_execution" ELSE "read")
  /\ UNCHANGED <<rows, ran, held, node, retries>>

-----------------------------------------------------------------------------
(* start_plan                                                              *)

StartExecution(w) ==
  /\ pc[w] = "start_execution"
  /\ execution' = "ready"
  /\ Goto(w, "start_checkpoint")
  /\ UNCHANGED <<checkpoint, ran, starts, local>>

StartCheckpoint(w) ==
  /\ pc[w] = "start_checkpoint"
  /\ checkpoint' = [state |-> "ready", completed |-> {}]
  /\ Return(w)
  /\ UNCHANGED <<execution, ran, starts>>

-----------------------------------------------------------------------------
(* pause_plan, resume_plan, cancel_plan, and the first call of a step      *)

ReadExecution(w) ==
  /\ pc[w] = "read"
  /\ \/ /\ op[w] = "step" /\ execution # "absent"
        /\ Goto(w, "load")
        /\ UNCHANGED local
     \/ /\ op[w] # "step"
        /\ ValidTransition(execution, TargetState(op[w]))
        /\ Goto(w, "set_execution")
        /\ UNCHANGED local
     \/ /\ \/ execution = "absent"
           \/ op[w] # "step" /\ ~ValidTransition(execution, TargetState(op[w]))
        /\ Return(w)
  /\ UNCHANGED <<rows, ran, starts>>

SetExecution(w) ==
  /\ pc[w] = "set_execution"
  /\ execution' = TargetState(op[w])
  /\ Goto(w, "load")
  /\ UNCHANGED <<checkpoint, ran, starts, local>>

(* Mutant: the new state is saved over an empty checkpoint.                *)
LoadForStateBlank(w) ==
  /\ pc[w] = "load" /\ op[w] # "step"
  /\ Hold(w, [state |-> TargetState(op[w]), completed |-> {}])
  /\ Goto(w, "set_checkpoint")
  /\ UNCHANGED <<rows, ran, starts, op, identity, node, retries>>

LoadForState(w) ==
  /\ pc[w] = "load" /\ op[w] # "step"
  /\ IF checkpoint.state = "absent"
       THEN Return(w)
       ELSE /\ Hold(w, [checkpoint EXCEPT !.state = TargetState(op[w])])
            /\ Goto(w, "set_checkpoint")
            /\ UNCHANGED <<op, identity, node, retries>>
  /\ UNCHANGED <<rows, ran, starts>>

SetCheckpoint(w) ==
  /\ pc[w] = "set_checkpoint"
  /\ checkpoint' = held[w]
  /\ Return(w)
  /\ UNCHANGED <<execution, ran, starts>>

-----------------------------------------------------------------------------
(* execute_next_node                                                       *)

(* The checkpoint is read once; every later save of the step writes this   *)
(* object back.                                                            *)
LoadForStep(w) ==
  /\ pc[w] = "load" /\ op[w] = "step"
  /\ \/ /\ checkpoint.state \in Terminal \cup {"absent"}
        /\ Return(w)
     \/ /\ checkpoint.state \notin Terminal \cup {"absent"}
        /\ Eligible(checkpoint.completed) = {}
        /\ Hold(w, [checkpoint EXCEPT !.state = "completed"])
        /\ Goto(w, "complete_execution")
        /\ UNCHANGED <<op, identity, node, retries>>
     \/ /\ checkpoint.state \notin Terminal \cup {"absent"}
        /\ \E n \in Node :
             /\ IsNext(n, checkpoint.completed)
             /\ node' = [node EXCEPT ![w] = n]
             /\ Hold(w, [checkpoint EXCEPT !.state = "running"])
        /\ Goto(w, "set_running")
        /\ UNCHANGED <<op, identity, retries>>
  /\ UNCHANGED <<rows, ran, starts>>

CompleteExecution(w) ==
  /\ pc[w] = "complete_execution"
  /\ execution' = "completed"
  /\ Goto(w, "complete_checkpoint")
  /\ UNCHANGED <<checkpoint, ran, starts, local>>

CompleteCheckpoint(w) ==
  /\ pc[w] = "complete_checkpoint"
  /\ checkpoint' = held[w]
  /\ Return(w)
  /\ UNCHANGED <<execution, ran, starts>>

SetRunning(w) ==
  /\ pc[w] = "set_running"
  /\ checkpoint' = held[w]
  /\ IF PassesGate(node[w], identity[w])
       THEN Goto(w, "run") /\ UNCHANGED held
       ELSE /\ Goto(w, "block_checkpoint")
            /\ Hold(w, [held[w] EXCEPT !.state = "blocked"])
  /\ UNCHANGED <<execution, ran, starts, op, identity, node, retries>>

BlockCheckpoint(w) ==
  /\ pc[w] = "block_checkpoint"
  /\ checkpoint' = held[w]
  /\ Goto(w, "block_execution")
  /\ UNCHANGED <<execution, ran, starts, local>>

BlockExecution(w) ==
  /\ pc[w] = "block_execution"
  /\ execution' = "blocked"
  /\ Return(w)
  /\ UNCHANGED <<checkpoint, ran, starts>>

(* The tool does its work; the node becomes completed in the object only.  *)
RunNode(w) ==
  /\ pc[w] = "run"
  /\ ran' = [ran EXCEPT ![node[w]] = IF @ < Often THEN @ + 1 ELSE @]
  /\ Hold(w, [state |-> "ready",
              completed |-> held[w].completed \cup {node[w]}])
  /\ Goto(w, "save_progress")
  /\ UNCHANGED <<rows, starts, op, identity, node, retries>>

(* Mutant: spent retries start over.                                       *)
ToolFailsForever(w) ==
  /\ pc[w] = "run" /\ "tool" \in Faults
  /\ retries' = [retries EXCEPT
                   ![w] = IF @ < MaxRetries[node[w]] THEN @ + 1 ELSE 0]
  /\ UNCHANGED <<rows, ran, starts, pc, op, identity, held, node>>

(* Mutant: a node whose retries are spent is passed over.                  *)
ToolFailsSkips(w) ==
  /\ pc[w] = "run" /\ "tool" \in Faults
  /\ Hold(w, [state |-> "ready",
              completed |-> held[w].completed \cup {node[w]}])
  /\ Goto(w, "save_progress")
  /\ UNCHANGED <<rows, ran, starts, op, identity, node, retries>>

(* The tool raises: try again while retries are left.                      *)
ToolFails(w) ==
  /\ pc[w] = "run" /\ "tool" \in Faults
  /\ IF retries[w] < MaxRetries[node[w]]
       THEN /\ retries' = [retries EXCEPT ![w] = @ + 1]
            /\ UNCHANGED <<pc, held>>
       ELSE /\ Hold(w, [held[w] EXCEPT !.state = "failed"])
            /\ Goto(w, "fail_checkpoint")
            /\ UNCHANGED retries
  /\ UNCHANGED <<rows, ran, starts, op, identity, node>>

SaveProgress(w) ==
  /\ pc[w] = "save_progress"
  /\ checkpoint' = held[w]
  /\ Return(w)
  /\ UNCHANGED <<execution, ran, starts>>

FailCheckpoint(w) ==
  /\ pc[w] = "fail_checkpoint"
  /\ checkpoint' = held[w]
  /\ Goto(w, "fail_execution")
  /\ UNCHANGED <<execution, ran, starts, local>>

FailExecution(w) ==
  /\ pc[w] = "fail_execution"
  /\ execution' = "failed"
  /\ Return(w)
  /\ UNCHANGED <<checkpoint, ran, starts>>

-----------------------------------------------------------------------------
(* The process dies, or the database refuses a call and the exception      *)
(* becomes a 400: what was committed stays.                                *)
Crash(w) ==
  /\ "crash" \in Faults
  /\ pc[w] # "idle"
  /\ Return(w)
  /\ UNCHANGED <<rows, ran, starts>>

Work(w) ==
  \/ StartExecution(w) \/ StartCheckpoint(w)
  \/ ReadExecution(w) \/ SetExecution(w) \/ LoadForState(w)
  \/ SetCheckpoint(w)
  \/ LoadForStep(w) \/ CompleteExecution(w) \/ CompleteCheckpoint(w)
  \/ SetRunning(w) \/ BlockCheckpoint(w) \/ BlockExecution(w)
  \/ RunNode(w) \/ ToolFails(w) \/ SaveProgress(w)
  \/ FailCheckpoint(w) \/ FailExecution(w)

Next ==
  \E w \in Worker :
    \/ \E o \in Operations, who \in Identity : Request(w, o, who)
    \/ Work(w)
    \/ Crash(w)

Spec == Init /\ [][Next]_vars

(* Threads are scheduled, and the client goes on asking for steps.         *)
Fairness ==
  \A w \in Worker : /\ WF_vars(Work(w))
                    /\ SF_vars(Request(w, "step", "owner"))
LiveSpec == Spec /\ Fairness

-----------------------------------------------------------------------------
(* Types: where a request can be, and what it then has in hand.            *)
Call == {"idle", "start_execution", "start_checkpoint", "read",
         "set_execution", "load", "set_checkpoint", "complete_execution",
         "complete_checkpoint", "set_running", "block_checkpoint",
         "block_execution", "run", "save_progress", "fail_checkpoint",
         "fail_execution"}

(* Calls at which a step has chosen its node.                              *)
OnNode == {"set_running", "block_checkpoint", "block_execution", "run",
           "save_progress", "fail_checkpoint", "fail_execution"}

(* The rows hold states of the state machine, and a request that is past   *)
(* its choice holds a node of the plan.                                    *)
TypeOK ==
  /\ execution \in State \cup {"absent"}
  /\ checkpoint \in Checkpoint
  /\ ran \in [Node -> Nat]
  /\ starts \in Nat
  /\ pc \in [Worker -> Call]
  /\ op \in [Worker -> Operation \cup {None}]
  /\ identity \in [Worker -> Identity \cup {None}]
  /\ held \in [Worker -> Checkpoint]
  /\ node \in [Worker -> Node \cup {None}]
  /\ retries \in [Worker -> Nat]
  /\ \A w \in Worker : pc[w] \in OnNode => node[w] \in Node

(* However requests race, crash and write stale checkpoints back, no tool  *)
(* ever runs before the tools of the nodes it depends on have run          *)
(* (the topological search of execute_next_node).                          *)
DependenciesFirst ==
  \A e \in Edge : ran[e[2]] > 0 => ran[e[1]] > 0

(* A plan without a cycle that reads "completed", in either row, had every *)
(* one of its nodes run ("No nodes left; plan complete").                  *)
CompletedMeansDone ==
  "completed" \in {execution, checkpoint.state} => \A n \in Node : ran[n] > 0

(* The premise of that promise: every set of nodes has one that depends on *)
(* none of them, so the graph has no cycle.  start_plan takes any graph.   *)
Acyclic ==
  \A S \in SUBSET Node :
    S # {} => \E n \in S : \A e \in Edge : e[2] = n => e[1] \notin S

(* The checkpoint keeps a node from being executed again: at most once for *)
(* each start of the plan ("exactly-once execution safety").               *)
ExecutedOnce == \A n \in Node : ran[n] <= starts

(* With no request under way the two rows tell the same story: one that    *)
(* says the plan is over, or a checkpoint that says it waits for someone.  *)
RowsAgreeAtRest ==
  (\A w \in Worker : pc[w] = "idle") =>
    /\ execution \in Terminal => checkpoint.state = execution
    /\ checkpoint.state \in Terminal \cup {"paused", "blocked"} =>
         execution = checkpoint.state

(* Both, of requests served one at a time: a client may trust what either  *)
(* row says, and repeat a request it is not sure of.                       *)
ServedInOrder == ExecutedOnce /\ RowsAgreeAtRest

(* The refinement mapping: the checkpoint alone says how far the plan is.  *)
PhaseBar == CASE checkpoint.state = "absent"     -> "none"
              [] checkpoint.state \in Terminal   -> checkpoint.state
              [] OTHER                           -> "open"

Promise == INSTANCE PlanRun WITH phase <- PhaseBar, done <- checkpoint.completed

(* Served one request at a time and without crashes, the runtime runs a    *)
(* plan as PlanRun promises.                                               *)
ImplementsPlanRun == Promise!PSpec

(* Served one request at a time, and asked for steps again and again, a    *)
(* started plan ends and stays ended, whatever tools fail and whoever      *)
(* pauses, resumes or cancels it (should_retry bounds the attempts).       *)
PlanSettles == <>[](checkpoint.state \in Terminal \cup {"absent"})
=============================================================================
