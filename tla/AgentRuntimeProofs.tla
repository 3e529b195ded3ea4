-------------------------- MODULE AgentRuntimeProofs ------------------------
(***************************************************************************)
(* Safety of the Agent Runtime for every plan, every number of threads and *)
(* every fault, proved from one inductive invariant: whatever a stale      *)
(* checkpoint forgets, it never claims a node that has not run.            *)
(***************************************************************************)
EXTENDS AgentRuntime, TLAPS

AllRan == \A n \in Node : ran[n] > 0

(* Every copy of the checkpoint, in the row or in the hands of a request,  *)
(* lists only nodes that ran, and a step holds a node whose dependencies   *)
(* ran.                                                                    *)
KnowsWhatRan ==
  /\ \A n \in checkpoint.completed : ran[n] > 0
  /\ \A w \in Worker : \A n \in held[w].completed : ran[n] > 0
  /\ \A w \in Worker :
       pc[w] \in OnNode =>
         \A e \in Edge : e[2] = node[w] => ran[e[1]] > 0

(* Wherever the plan counts as completed, or is about to, all nodes ran.   *)
EndsWhenDone ==
  /\ "completed" \in {execution, checkpoint.state} => AllRan
  /\ \A w \in Worker :
       \/ held[w].state = "completed"
       \/ pc[w] \in {"complete_execution", "complete_checkpoint"}
       => AllRan

IInv == TypeOK /\ DependenciesFirst /\ KnowsWhatRan

USE RuntimeAssumption

(* Without a cycle, a search that finds no node has none left to find.     *)
LEMMA NothingLeft ==
  ASSUME Acyclic, NEW C \in SUBSET Node, Eligible(C) = {}
  PROVE  C = Node
<1>1. SUFFICES ASSUME Node \ C # {} PROVE FALSE
  OBVIOUS
<1>2. PICK n \in Node \ C : \A e \in Edge : e[2] = n => e[1] \notin Node \ C
  BY <1>1 DEF Acyclic
<1>3. \A e \in Edge : e[1] \in Node
  OBVIOUS
<1>4. n \in Eligible(C)
  BY <1>2, <1>3 DEF Eligible
<1> QED BY <1>4

LEMMA TargetType ==
  \A o : TargetState(o) \in State /\ TargetState(o) # "completed"
  BY DEF TargetState, State

(* A step of the runtime whoever asks for it: a request of any kind, a     *)
(* call of one, or the end of one that is refused or lost.                 *)
EndsEarly(w) == Return(w) /\ UNCHANGED <<rows, ran, starts>>
AnyStep ==
  \E w \in Worker :
    \/ \E o \in Operation, who \in Identity : Request(w, o, who)
    \/ Work(w)
    \/ EndsEarly(w)

LEMMA NextIsAnyStep == [Next]_vars => [AnyStep]_vars
  BY DEF Next, AnyStep, Crash, EndsEarly

(* Every step keeps the rows, and what each request has in hand, typed.    *)
LEMMA TypeStep == TypeOK /\ [AnyStep]_vars => TypeOK'
<1> SUFFICES ASSUME TypeOK, [AnyStep]_vars PROVE TypeOK'
  OBVIOUS
<1> USE DEF TypeOK, Checkpoint, NoCheckpoint, OnNode, Call
<1>1. CASE UNCHANGED vars
  BY <1>1 DEF vars, rows, local
<1>2. ASSUME NEW w \in Worker, NEW o \in Operation, NEW who \in Identity,
             Request(w, o, who)
      PROVE  TypeOK'
  BY <1>2 DEF Request, Operation, Return, Goto, Hold, rows
<1>3. ASSUME NEW w \in Worker, EndsEarly(w) PROVE TypeOK'
  BY <1>3 DEF EndsEarly, Return, Goto, Hold, rows
<1>4. ASSUME NEW w \in Worker, Work(w) PROVE TypeOK'
  <2>1. CASE StartExecution(w)
    BY <2>1 DEF StartExecution, Return, Goto, Hold, rows, local, State
  <2>2. CASE StartCheckpoint(w)
    BY <2>2 DEF StartCheckpoint, Return, Goto, Hold, rows, local, State
  <2>3. CASE ReadExecution(w)
    <3>1. CASE Return(w)
      BY <2>3, <3>1 DEF ReadExecution, Return, Goto, Hold, rows, local
    <3>2. CASE Goto(w, "load") /\ UNCHANGED local
      BY <2>3, <3>2 DEF ReadExecution, Return, Goto, Hold, rows, local
    <3>3. CASE Goto(w, "set_execution") /\ UNCHANGED local
      BY <2>3, <3>3 DEF ReadExecution, Return, Goto, Hold, rows, local
    <3> QED BY <2>3, <3>1, <3>2, <3>3 DEF ReadExecution
  <2>4. CASE SetExecution(w)
    BY <2>4, TargetType DEF SetExecution, Return, Goto, Hold, rows, local
  <2>5. CASE LoadForState(w)
    <3>1. CASE Return(w)
      BY <2>5, <3>1, TargetType DEF LoadForState, Return, Goto, Hold, rows,
            local
    <3>2. CASE /\ Hold(w, [checkpoint EXCEPT !.state = TargetState(op[w])])
            /\ Goto(w, "set_checkpoint")
            /\ UNCHANGED <<op, identity, node, retries>>
      BY <2>5, <3>2, TargetType DEF LoadForState, Return, Goto, Hold, rows,
            local
    <3> QED BY <2>5, <3>1, <3>2 DEF LoadForState
  <2>6. CASE SetCheckpoint(w)
    BY <2>6 DEF SetCheckpoint, Return, Goto, Hold, rows, local
  <2>7. CASE LoadForStep(w)
    <3>1. CASE Return(w)
      BY <2>7, <3>1 DEF LoadForStep, Return, Goto, Hold, rows, local, State,
            IsNext, Eligible
    <3>2. CASE /\ Eligible(checkpoint.completed) = {}
            /\ Hold(w, [checkpoint EXCEPT !.state = "completed"])
            /\ Goto(w, "complete_execution")
            /\ UNCHANGED <<op, identity, node, retries>>
      BY <2>7, <3>2 DEF LoadForStep, Return, Goto, Hold, rows, local, State,
            IsNext, Eligible
    <3>3. CASE /\ \E n \in Node :
                 /\ IsNext(n, checkpoint.completed)
                 /\ node' = [node EXCEPT ![w] = n]
                 /\ Hold(w, [checkpoint EXCEPT !.state = "running"])
            /\ Goto(w, "set_running")
            /\ UNCHANGED <<op, identity, retries>>
      BY <2>7, <3>3, SMTT(30) DEF LoadForStep, Return, Goto, Hold, rows, local,
                                  State, IsNext, Eligible
    <3> QED BY <2>7, <3>1, <3>2, <3>3 DEF LoadForStep
  <2>8. CASE CompleteExecution(w)
    BY <2>8 DEF CompleteExecution, Return, Goto, Hold, rows, local, State
  <2>9. CASE CompleteCheckpoint(w)
    BY <2>9 DEF CompleteCheckpoint, Return, Goto, Hold, rows, local
  <2>10. CASE SetRunning(w)
    <3>1. CASE Goto(w, "run") /\ UNCHANGED held
      BY <2>10, <3>1 DEF SetRunning, Return, Goto, Hold, rows, local, State
    <3>2. CASE /\ Goto(w, "block_checkpoint")
            /\ Hold(w, [held[w] EXCEPT !.state = "blocked"])
      BY <2>10, <3>2 DEF SetRunning, Return, Goto, Hold, rows, local, State
    <3> QED BY <2>10, <3>1, <3>2 DEF SetRunning
  <2>11. CASE BlockCheckpoint(w)
    BY <2>11 DEF BlockCheckpoint, Return, Goto, Hold, rows, local
  <2>12. CASE BlockExecution(w)
    BY <2>12 DEF BlockExecution, Return, Goto, Hold, rows, local, State
  <2>13. CASE RunNode(w)
    BY <2>13 DEF RunNode, Return, Goto, Hold, rows, local, State
  <2>14. CASE ToolFails(w)
    <3>1. CASE /\ retries' = [retries EXCEPT ![w] = @ + 1]
            /\ UNCHANGED <<pc, held>>
      BY <2>14, <3>1 DEF ToolFails, Return, Goto, Hold, rows, local, State
    <3>2. CASE /\ Hold(w, [held[w] EXCEPT !.state = "failed"])
            /\ Goto(w, "fail_checkpoint")
            /\ UNCHANGED retries
      BY <2>14, <3>2 DEF ToolFails, Return, Goto, Hold, rows, local, State
    <3> QED BY <2>14, <3>1, <3>2 DEF ToolFails
  <2>15. CASE SaveProgress(w)
    BY <2>15 DEF SaveProgress, Return, Goto, Hold, rows, local
  <2>16. CASE FailCheckpoint(w)
    BY <2>16 DEF FailCheckpoint, Return, Goto, Hold, rows, local
  <2>17. CASE FailExecution(w)
    BY <2>17 DEF FailExecution, Return, Goto, Hold, rows, local, State
  <2> QED BY <1>4, <2>1, <2>2, <2>3, <2>4, <2>5, <2>6, <2>7, <2>8, <2>9,
                <2>10, <2>11, <2>12, <2>13, <2>14, <2>15, <2>16, <2>17 DEF
                Work
<1> QED BY <1>1, <1>2, <1>3, <1>4 DEF AnyStep

(* The work a plan has done is never undone.                               *)
LEMMA RanGrows ==
  TypeOK /\ [AnyStep]_vars => \A n \in Node : ran[n] > 0 => ran'[n] > 0
<1> SUFFICES ASSUME TypeOK, [AnyStep]_vars
             PROVE  \A n \in Node : ran[n] > 0 => ran'[n] > 0
  OBVIOUS
<1>1. CASE ran' = ran
  BY <1>1
<1>2. ASSUME NEW w \in Worker, RunNode(w)
      PROVE  \A n \in Node : ran[n] > 0 => ran'[n] > 0
  BY <1>2 DEF RunNode, TypeOK
<1> QED
  BY <1>1, <1>2 DEF AnyStep, Work, vars, Request, EndsEarly, StartExecution,
     StartCheckpoint, ReadExecution, SetExecution, LoadForState, SetCheckpoint,
     LoadForStep, CompleteExecution, CompleteCheckpoint, SetRunning,
     BlockCheckpoint, BlockExecution, ToolFails, SaveProgress, FailCheckpoint,
     FailExecution

(* Stale copies stay true: what they list has run, and runs are never      *)
(* undone.                                                                 *)
LEMMA KnowledgeStep ==
  IInv /\ [AnyStep]_vars => (DependenciesFirst /\ KnowsWhatRan)'
<1> SUFFICES ASSUME IInv, [AnyStep]_vars
             PROVE  (DependenciesFirst /\ KnowsWhatRan)'
  OBVIOUS
<1> DEFINE Goal == (DependenciesFirst /\ KnowsWhatRan)'
<1>0. TypeOK /\ TypeOK' /\ \A n \in Node : ran[n] > 0 => ran'[n] > 0
  BY TypeStep, RanGrows DEF IInv
<1>e. \A e \in Edge : e[1] \in Node /\ e[2] \in Node
  OBVIOUS
<1> USE DEF IInv, DependenciesFirst, KnowsWhatRan, TypeOK, Checkpoint,
            NoCheckpoint, OnNode
<1>1. CASE UNCHANGED vars
  BY <1>1 DEF vars, rows, local
<1>2. ASSUME NEW w \in Worker, NEW o \in Operation, NEW who \in Identity,
             Request(w, o, who)
      PROVE  Goal
  BY <1>0, <1>e, <1>2 DEF Request, Goto, rows
<1>3. ASSUME NEW w \in Worker, EndsEarly(w) PROVE Goal
  BY <1>0, <1>e, <1>3 DEF EndsEarly, Return, Goto, Hold, rows
<1>4. ASSUME NEW w \in Worker, Work(w) PROVE Goal
  <2>1. CASE StartExecution(w)
    BY <2>1, <1>0, <1>e DEF StartExecution, Return, Goto, Hold, rows, local
  <2>2. CASE StartCheckpoint(w)
    BY <2>2, <1>0, <1>e DEF StartCheckpoint, Return, Goto, Hold, rows, local
  <2>3. CASE ReadExecution(w)
    <3>1. CASE Return(w)
      BY <2>3, <3>1, <1>0, <1>e DEF ReadExecution, Return, Goto, Hold, rows,
            local
    <3>2. CASE Goto(w, "load") /\ UNCHANGED local
      BY <2>3, <3>2, <1>0, <1>e DEF ReadExecution, Return, Goto, Hold, rows,
            local
    <3>3. CASE Goto(w, "set_execution") /\ UNCHANGED local
      BY <2>3, <3>3, <1>0, <1>e DEF ReadExecution, Return, Goto, Hold, rows,
            local
    <3> QED BY <2>3, <3>1, <3>2, <3>3 DEF ReadExecution
  <2>4. CASE SetExecution(w)
    BY <2>4, <1>0, <1>e DEF SetExecution, Return, Goto, Hold, rows, local
  <2>5. CASE LoadForState(w)
    <3>1. CASE Return(w)
      BY <2>5, <3>1, <1>0, <1>e DEF LoadForState, Return, Goto, Hold, rows,
            local
    <3>2. CASE /\ Hold(w, [checkpoint EXCEPT !.state = TargetState(op[w])])
            /\ Goto(w, "set_checkpoint")
            /\ UNCHANGED <<op, identity, node, retries>>
      BY <2>5, <3>2, <1>0, <1>e DEF LoadForState, Return, Goto, Hold, rows,
            local
    <3> QED BY <2>5, <3>1, <3>2 DEF LoadForState
  <2>6. CASE SetCheckpoint(w)
    BY <2>6, <1>0, <1>e DEF SetCheckpoint, Return, Goto, Hold, rows, local
  <2>7. CASE LoadForStep(w)
    <3>1. CASE Return(w)
      BY <2>7, <3>1, <1>0, <1>e DEF LoadForStep, Return, Goto, Hold, rows,
            local, IsNext, Eligible
    <3>2. CASE /\ Eligible(checkpoint.completed) = {}
            /\ Hold(w, [checkpoint EXCEPT !.state = "completed"])
            /\ Goto(w, "complete_execution")
            /\ UNCHANGED <<op, identity, node, retries>>
      BY <2>7, <3>2, <1>0, <1>e DEF LoadForStep, Return, Goto, Hold, rows,
            local, IsNext, Eligible
    <3>3. CASE /\ \E n \in Node :
                 /\ IsNext(n, checkpoint.completed)
                 /\ node' = [node EXCEPT ![w] = n]
                 /\ Hold(w, [checkpoint EXCEPT !.state = "running"])
            /\ Goto(w, "set_running")
            /\ UNCHANGED <<op, identity, retries>>
      BY <2>7, <3>3, <1>0, <1>e DEF LoadForStep, Return, Goto, Hold, rows,
            local, IsNext, Eligible
    <3> QED BY <2>7, <3>1, <3>2, <3>3 DEF LoadForStep
  <2>8. CASE CompleteExecution(w)
    BY <2>8, <1>0, <1>e DEF CompleteExecution, Return, Goto, Hold, rows,
          local
  <2>9. CASE CompleteCheckpoint(w)
    BY <2>9, <1>0, <1>e DEF CompleteCheckpoint, Return, Goto, Hold, rows,
          local
  <2>10. CASE SetRunning(w)
    <3>1. CASE Goto(w, "run") /\ UNCHANGED held
      BY <2>10, <3>1, <1>0, <1>e DEF SetRunning, Return, Goto, Hold, rows,
            local
    <3>2. CASE /\ Goto(w, "block_checkpoint")
            /\ Hold(w, [held[w] EXCEPT !.state = "blocked"])
      BY <2>10, <3>2, <1>0, <1>e DEF SetRunning, Return, Goto, Hold, rows,
            local
    <3> QED BY <2>10, <3>1, <3>2 DEF SetRunning
  <2>11. CASE BlockCheckpoint(w)
    BY <2>11, <1>0, <1>e DEF BlockCheckpoint, Return, Goto, Hold, rows,
          local
  <2>12. CASE BlockExecution(w)
    BY <2>12, <1>0, <1>e DEF BlockExecution, Return, Goto, Hold, rows, local
  <2>13. CASE RunNode(w)
    <3>1. /\ node[w] \in Node
          /\ \A e \in Edge : e[2] = node[w] => ran[e[1]] > 0
          /\ \A n \in Node : n # node[w] => ran'[n] = ran[n]
          /\ ran'[node[w]] > 0
      <4>1. pc[w] = "run" /\ node[w] \in Node
        BY <2>13 DEF RunNode
      <4>2. /\ ran' = [ran EXCEPT ![node[w]] =
                         IF @ < Often THEN @ + 1 ELSE @]
            /\ ran[node[w]] \in Nat /\ Often \in Nat /\ Often > 0
        BY <2>13, <4>1 DEF RunNode, Often
      <4> QED BY <4>1, <4>2
    <3>2. DependenciesFirst'
      BY <3>1, <1>0, <1>e
    <3>3. /\ checkpoint' = checkpoint
          /\ \A v \in Worker \ {w} : held'[v] = held[v] /\ pc'[v] = pc[v]
          /\ held'[w].completed = held[w].completed \cup {node[w]}
          /\ node' = node
          /\ held[w].completed \subseteq Node
      BY <2>13 DEF RunNode, Hold, Goto, rows
    <3>4. \A v \in Worker : \A n \in held'[v].completed : ran'[n] > 0
      BY <3>1, <3>3, <1>0, SMTT(30)
    <3>5. \A v \in Worker :
            pc'[v] \in OnNode =>
              \A e \in Edge : e[2] = node'[v] => ran'[e[1]] > 0
      BY <3>1, <3>3, <1>0, <1>e
    <3>6. \A n \in checkpoint'.completed : ran'[n] > 0
      BY <3>3, <1>0
    <3> QED BY <3>2, <3>4, <3>5, <3>6
  <2>14. CASE ToolFails(w)
    <3>1. CASE /\ retries' = [retries EXCEPT ![w] = @ + 1]
            /\ UNCHANGED <<pc, held>>
      BY <2>14, <3>1, <1>0, <1>e DEF ToolFails, Return, Goto, Hold, rows,
            local
    <3>2. CASE /\ Hold(w, [held[w] EXCEPT !.state = "failed"])
            /\ Goto(w, "fail_checkpoint")
            /\ UNCHANGED retries
      BY <2>14, <3>2, <1>0, <1>e DEF ToolFails, Return, Goto, Hold, rows,
            local
    <3> QED BY <2>14, <3>1, <3>2 DEF ToolFails
  <2>15. CASE SaveProgress(w)
    BY <2>15, <1>0, <1>e DEF SaveProgress, Return, Goto, Hold, rows, local
  <2>16. CASE FailCheckpoint(w)
    BY <2>16, <1>0, <1>e DEF FailCheckpoint, Return, Goto, Hold, rows, local
  <2>17. CASE FailExecution(w)
    BY <2>17, <1>0, <1>e DEF FailExecution, Return, Goto, Hold, rows, local
  <2> QED BY <1>4, <2>1, <2>2, <2>3, <2>4, <2>5, <2>6, <2>7, <2>8, <2>9,
                <2>10, <2>11, <2>12, <2>13, <2>14, <2>15, <2>16, <2>17 DEF
                Work
<1> QED BY <1>1, <1>2, <1>3, <1>4 DEF AnyStep

(* A plan is only completed where the search for a node came back empty,   *)
(* and then every node is in the checkpoint, so it has run.                *)
LEMMA EndStep ==
  ASSUME Acyclic PROVE IInv /\ EndsWhenDone /\ [AnyStep]_vars => EndsWhenDone'
<1> SUFFICES ASSUME IInv, EndsWhenDone, [AnyStep]_vars PROVE EndsWhenDone'
  OBVIOUS
<1>0. TypeOK /\ TypeOK' /\ (AllRan => AllRan')
  BY TypeStep, RanGrows DEF IInv, AllRan
<1>e. Eligible(checkpoint.completed) = {} => AllRan
  BY <1>0, NothingLeft DEF IInv, TypeOK, Checkpoint, KnowsWhatRan, AllRan
<1> DEFINE Goal == EndsWhenDone'
<1> USE DEF EndsWhenDone, TypeOK, Checkpoint, NoCheckpoint
<1>1. CASE UNCHANGED vars
  BY <1>0, <1>1 DEF vars, rows, local
<1>2. ASSUME NEW w \in Worker, NEW o \in Operation, NEW who \in Identity,
             Request(w, o, who)
      PROVE  Goal
  BY <1>0, <1>2 DEF Request, Goto, rows
<1>3. ASSUME NEW w \in Worker, EndsEarly(w) PROVE Goal
  BY <1>0, <1>3 DEF EndsEarly, Return, Goto, Hold, rows
<1>4. ASSUME NEW w \in Worker, Work(w) PROVE Goal
  <2>1. CASE StartExecution(w)
    BY <2>1, <1>0 DEF StartExecution, Return, Goto, Hold, rows, local
  <2>2. CASE StartCheckpoint(w)
    BY <2>2, <1>0 DEF StartCheckpoint, Return, Goto, Hold, rows, local
  <2>3. CASE ReadExecution(w)
    <3>1. CASE Return(w)
      BY <2>3, <3>1, <1>0 DEF ReadExecution, Return, Goto, Hold, rows, local
    <3>2. CASE Goto(w, "load") /\ UNCHANGED local
      BY <2>3, <3>2, <1>0 DEF ReadExecution, Return, Goto, Hold, rows, local
    <3>3. CASE Goto(w, "set_execution") /\ UNCHANGED local
      BY <2>3, <3>3, <1>0 DEF ReadExecution, Return, Goto, Hold, rows, local
    <3> QED BY <2>3, <3>1, <3>2, <3>3 DEF ReadExecution
  <2>4. CASE SetExecution(w)
    BY <2>4, <1>0, TargetType DEF SetExecution, Return, Goto, Hold, rows,
          local
  <2>5. CASE LoadForState(w)
    <3>1. CASE Return(w)
      BY <2>5, <3>1, <1>0, TargetType DEF LoadForState, Return, Goto, Hold,
            rows, local
    <3>2. CASE /\ Hold(w, [checkpoint EXCEPT !.state = TargetState(op[w])])
            /\ Goto(w, "set_checkpoint")
            /\ UNCHANGED <<op, identity, node, retries>>
      BY <2>5, <3>2, <1>0, TargetType DEF LoadForState, Return, Goto, Hold,
            rows, local
    <3> QED BY <2>5, <3>1, <3>2 DEF LoadForState
  <2>6. CASE SetCheckpoint(w)
    BY <2>6, <1>0 DEF SetCheckpoint, Return, Goto, Hold, rows, local
  <2>7. CASE LoadForStep(w)
    <3>1. CASE Return(w)
      BY <2>7, <3>1, <1>0, <1>e DEF LoadForStep, Return, Goto, Hold, rows,
            local
    <3>2. CASE /\ Eligible(checkpoint.completed) = {}
            /\ Hold(w, [checkpoint EXCEPT !.state = "completed"])
            /\ Goto(w, "complete_execution")
            /\ UNCHANGED <<op, identity, node, retries>>
      BY <2>7, <3>2, <1>0, <1>e DEF LoadForStep, Return, Goto, Hold, rows,
            local
    <3>3. CASE /\ \E n \in Node :
                 /\ IsNext(n, checkpoint.completed)
                 /\ node' = [node EXCEPT ![w] = n]
                 /\ Hold(w, [checkpoint EXCEPT !.state = "running"])
            /\ Goto(w, "set_running")
            /\ UNCHANGED <<op, identity, retries>>
      BY <2>7, <3>3, <1>0, <1>e DEF LoadForStep, Return, Goto, Hold, rows,
            local
    <3> QED BY <2>7, <3>1, <3>2, <3>3 DEF LoadForStep
  <2>8. CASE CompleteExecution(w)
    BY <2>8, <1>0 DEF CompleteExecution, Return, Goto, Hold, rows, local
  <2>9. CASE CompleteCheckpoint(w)
    BY <2>9, <1>0 DEF CompleteCheckpoint, Return, Goto, Hold, rows, local
  <2>10. CASE SetRunning(w)
    <3>1. CASE Goto(w, "run") /\ UNCHANGED held
      BY <2>10, <3>1, <1>0 DEF SetRunning, Return, Goto, Hold, rows, local
    <3>2. CASE /\ Goto(w, "block_checkpoint")
            /\ Hold(w, [held[w] EXCEPT !.state = "blocked"])
      BY <2>10, <3>2, <1>0 DEF SetRunning, Return, Goto, Hold, rows, local
    <3> QED BY <2>10, <3>1, <3>2 DEF SetRunning
  <2>11. CASE BlockCheckpoint(w)
    BY <2>11, <1>0 DEF BlockCheckpoint, Return, Goto, Hold, rows, local
  <2>12. CASE BlockExecution(w)
    BY <2>12, <1>0 DEF BlockExecution, Return, Goto, Hold, rows, local
  <2>13. CASE RunNode(w)
    BY <2>13, <1>0 DEF RunNode, Return, Goto, Hold, rows, local
  <2>14. CASE ToolFails(w)
    <3>1. CASE /\ retries' = [retries EXCEPT ![w] = @ + 1]
            /\ UNCHANGED <<pc, held>>
      BY <2>14, <3>1, <1>0 DEF ToolFails, Return, Goto, Hold, rows, local
    <3>2. CASE /\ Hold(w, [held[w] EXCEPT !.state = "failed"])
            /\ Goto(w, "fail_checkpoint")
            /\ UNCHANGED retries
      BY <2>14, <3>2, <1>0 DEF ToolFails, Return, Goto, Hold, rows, local
    <3> QED BY <2>14, <3>1, <3>2 DEF ToolFails
  <2>15. CASE SaveProgress(w)
    BY <2>15, <1>0 DEF SaveProgress, Return, Goto, Hold, rows, local
  <2>16. CASE FailCheckpoint(w)
    BY <2>16, <1>0 DEF FailCheckpoint, Return, Goto, Hold, rows, local
  <2>17. CASE FailExecution(w)
    BY <2>17, <1>0 DEF FailExecution, Return, Goto, Hold, rows, local
  <2> QED BY <1>4, <2>1, <2>2, <2>3, <2>4, <2>5, <2>6, <2>7, <2>8, <2>9,
                <2>10, <2>11, <2>12, <2>13, <2>14, <2>15, <2>16, <2>17 DEF
                Work
<1> QED BY <1>1, <1>2, <1>3, <1>4 DEF AnyStep

LEMMA InitIInv == Init => IInv /\ EndsWhenDone
  BY DEF Init, IInv, TypeOK, DependenciesFirst, KnowsWhatRan, EndsWhenDone,
         NoCheckpoint, Checkpoint, Call, OnNode, State

(* The invariant behind the theorems below holds in every reachable state. *)
THEOREM RuntimeInvariance == Spec => []IInv
<1>1. IInv /\ [Next]_vars => IInv'
  BY NextIsAnyStep, TypeStep, KnowledgeStep DEF IInv
<1> QED BY InitIInv, <1>1, PTL DEF Spec

(* Type correctness of the runtime, for any plan and number of threads.    *)
THEOREM RuntimeTyping == Spec => []TypeOK
<1>1. IInv => TypeOK
  BY DEF IInv
<1> QED BY RuntimeInvariance, <1>1, PTL

(* No tool runs before the tools its node depends on, whatever requests    *)
(* race, crash, restart the plan or save stale checkpoints.                *)
THEOREM RuntimeOrder == Spec => []DependenciesFirst
<1>1. IInv => DependenciesFirst
  BY DEF IInv
<1> QED BY RuntimeInvariance, <1>1, PTL

(* A plan without a cycle never reads completed before all its nodes ran.  *)
THEOREM RuntimeCompletion == ASSUME Acyclic PROVE Spec => []CompletedMeansDone
<1>1. IInv /\ EndsWhenDone /\ [Next]_vars => (IInv /\ EndsWhenDone)'
  BY NextIsAnyStep, TypeStep, KnowledgeStep, EndStep DEF IInv
<1>2. EndsWhenDone => CompletedMeansDone
  BY DEF EndsWhenDone, CompletedMeansDone, AllRan
<1> QED BY InitIInv, <1>1, <1>2, PTL DEF Spec

-----------------------------------------------------------------------------
(* Requests served one at a time, none lost on its way.                    *)
OneByOne == (\E w : Worker = {w}) /\ "crash" \notin Faults

(* The rows between two requests, and while a plan may still be worked on. *)
RowsAgree ==
  /\ execution = "absent" <=> checkpoint.state = "absent"
  /\ execution \in Terminal => checkpoint.state = execution
  /\ checkpoint.state \in Terminal \cup {"paused", "blocked"} =>
       execution = checkpoint.state
UnderWay == {execution, checkpoint.state} \cap (Terminal \cup {"absent"}) = {}

(* What a change of state meets: a plan under way, or one cancelled again. *)
MayBeSet(c, target) ==
  /\ c # "absent"
  /\ c \in Terminal => c = "cancelled" /\ target = "cancelled"

(* What the rows say at each call of the one request.                      *)
RowsKnown(w) ==
  /\ pc[w] \in {"idle", "read", "set_execution"} => RowsAgree
  /\ pc[w] = "load" /\ op[w] = "step" => RowsAgree
  /\ pc[w] = "start_checkpoint" => execution = "ready"
  /\ pc[w] = "set_execution" =>
       op[w] # "step" /\ MayBeSet(checkpoint.state, TargetState(op[w]))
  /\ pc[w] = "set_checkpoint" \/ (pc[w] = "load" /\ op[w] # "step") =>
       /\ execution = TargetState(op[w])
       /\ MayBeSet(checkpoint.state, TargetState(op[w]))
  /\ pc[w] \in {"complete_execution", "complete_checkpoint"} =>
       /\ checkpoint.state \notin Terminal \cup {"absent"}
       /\ checkpoint.completed = Node
  /\ pc[w] = "complete_checkpoint" => execution = "completed"
  /\ pc[w] \in OnNode \ {"block_execution", "fail_execution"} => UnderWay
  /\ pc[w] = "block_execution" =>
       checkpoint.state = "blocked" /\ execution \notin Terminal
  /\ pc[w] = "fail_execution" => checkpoint.state = "failed"

(* The object a request will save is the row with its own change.          *)
HeldKnown(w) ==
  /\ pc[w] = "set_checkpoint" =>
       held[w] = [checkpoint EXCEPT !.state = TargetState(op[w])]
  /\ pc[w] \in {"complete_execution", "complete_checkpoint"} =>
       held[w] = [checkpoint EXCEPT !.state = "completed"]
  /\ pc[w] \in {"set_running", "run"} =>
       held[w] = [checkpoint EXCEPT !.state = "running"]
  /\ pc[w] = "block_checkpoint" =>
       held[w] = [checkpoint EXCEPT !.state = "blocked"]
  /\ pc[w] = "fail_checkpoint" =>
       held[w] = [checkpoint EXCEPT !.state = "failed"]
  /\ pc[w] = "save_progress" =>
       held[w] = [state |-> "ready",
                  completed |-> checkpoint.completed \cup {node[w]}]
  /\ pc[w] \in {"set_running", "run", "save_progress"} =>
       node[w] \in Eligible(checkpoint.completed)

(* A node not done since the last start has a run to spend.                *)
Unspent(done) == \A n \in Node \ done : ran[n] < starts
RunsKnown(w) ==
  /\ ExecutedOnce
  /\ pc[w] \in {"start_execution", "start_checkpoint"} => Unspent({})
  /\ pc[w] = "save_progress" => Unspent(held[w].completed)
  /\ /\ pc[w] \notin {"start_execution", "start_checkpoint", "save_progress"}
     /\ checkpoint.state # "absent"
     => Unspent(checkpoint.completed)

InTurn ==
  \A w \in Worker : RowsKnown(w) /\ HeldKnown(w) /\ RunsKnown(w)

(* A change of state is refused where the plan is over.                    *)
LEMMA TargetsOfLivePlans ==
  ASSUME NEW o, NEW s \in State \cup {"absent"},
         ValidTransition(s, TargetState(o))
  PROVE  /\ TargetState(o) \in {"paused", "running", "cancelled"}
         /\ MayBeSet(s, TargetState(o))
  BY DEF ValidTransition, ValidTransitions, TargetState, MayBeSet, State,
     Terminal

(* Each call keeps what is known at the next one, and ends a request with  *)
(* two rows that agree.                                                    *)
LEMMA InTurnStep ==
  ASSUME Acyclic, OneByOne, IInv, InTurn, [Next]_vars PROVE InTurn'
<1>0. TypeOK /\ TypeOK'
  BY NextIsAnyStep, TypeStep DEF IInv
<1> DEFINE Known(w) == RowsKnown(w) /\ HeldKnown(w) /\ RunsKnown(w)
<1> USE DEF RowsKnown, HeldKnown, RunsKnown, OnNode, Terminal, UnderWay,
            Unspent, ExecutedOnce, RowsAgree, MayBeSet
<1>1. CASE UNCHANGED vars
  BY <1>1 DEF vars, rows, local, InTurn, Eligible
<1>2. ASSUME NEW w \in Worker, Known(w),
             \/ \E o \in Operation, who \in Identity : Request(w, o, who)
             \/ Work(w)
      PROVE  Known(w)'
  <2> USE <1>0, <1>2
  <2>0. TargetState(op[w]) \in {"paused", "running", "cancelled"}
    BY DEF TargetState
  <2>1. ASSUME NEW o \in Operation, NEW who \in Identity, Request(w, o, who)
        PROVE  Known(w)'
    BY <2>1 DEF Request, Goto, rows, TypeOK
  <2>2. CASE StartExecution(w)
    BY <2>2 DEF StartExecution, Goto, local, TypeOK
  <2>3. CASE StartCheckpoint(w)
    BY <2>3 DEF StartCheckpoint, Goto, Return, TypeOK
  <2>4. CASE ReadExecution(w)
    <3>1. CASE Return(w)
      BY <2>4, <3>1 DEF ReadExecution, Return, Goto, rows, TypeOK
    <3>2. CASE op[w] = "step" /\ Goto(w, "load") /\ UNCHANGED local
      BY <2>4, <3>2 DEF ReadExecution, Goto, rows, local, TypeOK
    <3>3. CASE /\ op[w] # "step"
               /\ ValidTransition(execution, TargetState(op[w]))
               /\ Goto(w, "set_execution") /\ UNCHANGED local
      <4>1. MayBeSet(execution, TargetState(op[w]))
        BY <3>3, TargetsOfLivePlans DEF TypeOK
      <4> QED BY <2>4, <3>3, <4>1 DEF ReadExecution, Goto, rows, local, TypeOK
    <3> QED BY <2>4, <3>1, <3>2, <3>3 DEF ReadExecution
  <2>5. CASE SetExecution(w)
    BY <2>5, <2>0 DEF SetExecution, Goto, local, TypeOK
  <2>6. CASE LoadForState(w)
    <3>1. /\ pc[w] = "load" /\ op[w] # "step" /\ pc'[w] = "set_checkpoint"
          /\ held'[w] = [checkpoint EXCEPT !.state = TargetState(op[w])]
          /\ UNCHANGED <<execution, checkpoint, ran, starts, op>>
      BY <2>6 DEF LoadForState, Goto, Hold, rows, TypeOK
    <3> QED BY <3>1
  <2>7. CASE SetCheckpoint(w)
    <3>1. /\ pc[w] = "set_checkpoint" /\ pc'[w] = "idle"
          /\ checkpoint'.state = TargetState(op[w])
          /\ checkpoint'.completed = checkpoint.completed
          /\ UNCHANGED <<execution, ran, starts>>
      BY <2>7 DEF SetCheckpoint, Return, Goto, TypeOK, Checkpoint
    <3> QED BY <3>1, <2>0
  <2>8. CASE LoadForStep(w)
    <3>1. CASE Return(w)
      BY <2>8, <3>1 DEF LoadForStep, Return, Goto, rows, TypeOK
    <3>2. CASE Goto(w, "complete_execution")
      <4>1. checkpoint.completed = Node
        <5>1. Eligible(checkpoint.completed) = {}
          BY <2>8, <3>2 DEF LoadForStep, Goto, Return, TypeOK
        <5> QED BY <5>1, NothingLeft DEF TypeOK, Checkpoint
      <4>2. /\ pc[w] = "load" /\ pc'[w] = "complete_execution"
            /\ checkpoint.state \notin Terminal \cup {"absent"}
            /\ held'[w] = [checkpoint EXCEPT !.state = "completed"]
            /\ UNCHANGED <<execution, checkpoint, ran, starts>>
        BY <2>8, <3>2 DEF LoadForStep, Goto, Hold, Return, rows, TypeOK
      <4> QED BY <4>1, <4>2
    <3>3. CASE Goto(w, "set_running")
      <4>1. /\ pc[w] = "load" /\ op[w] = "step" /\ pc'[w] = "set_running"
            /\ checkpoint.state \notin Terminal \cup {"absent"}
            /\ held'[w] = [checkpoint EXCEPT !.state = "running"]
            /\ node'[w] \in Eligible(checkpoint.completed)
            /\ UNCHANGED <<execution, checkpoint, ran, starts>>
        BY <2>8, <3>3 DEF LoadForStep, IsNext, Goto, Hold, Return, rows,
           TypeOK
      <4>2. node'[w] \in Eligible(checkpoint'.completed)
        BY <4>1
      <4> QED BY <4>1, <4>2
    <3> QED BY <2>8, <3>1, <3>2, <3>3 DEF LoadForStep
  <2>9. CASE CompleteExecution(w)
    <3>1. /\ pc[w] = "complete_execution" /\ pc'[w] = "complete_checkpoint"
          /\ execution' = "completed"
          /\ UNCHANGED <<checkpoint, ran, starts, held>>
      BY <2>9 DEF CompleteExecution, Goto, local, TypeOK
    <3> QED BY <3>1
  <2>10. CASE CompleteCheckpoint(w)
    <3>1. /\ pc[w] = "complete_checkpoint" /\ pc'[w] = "idle"
          /\ checkpoint'.state = "completed"
          /\ checkpoint'.completed = checkpoint.completed
          /\ UNCHANGED <<execution, ran, starts>>
      BY <2>10 DEF CompleteCheckpoint, Return, Goto, TypeOK, Checkpoint
    <3> QED BY <3>1
  <2>11. CASE SetRunning(w)
    <3>1. /\ pc[w] = "set_running"
          /\ checkpoint'.state = "running"
          /\ checkpoint'.completed = checkpoint.completed
          /\ \/ /\ pc'[w] = "run"
                /\ held'[w] = [checkpoint' EXCEPT !.state = "running"]
             \/ /\ pc'[w] = "block_checkpoint"
                /\ held'[w] = [checkpoint' EXCEPT !.state = "blocked"]
          /\ UNCHANGED <<execution, ran, starts, node>>
      BY <2>11 DEF SetRunning, Goto, Hold, TypeOK, Checkpoint
    <3> QED BY <3>1
  <2>12. CASE BlockCheckpoint(w)
    <3>1. /\ pc[w] = "block_checkpoint" /\ pc'[w] = "block_execution"
          /\ checkpoint'.state = "blocked"
          /\ checkpoint'.completed = checkpoint.completed
          /\ UNCHANGED <<execution, ran, starts>>
      BY <2>12 DEF BlockCheckpoint, Goto, local, TypeOK, Checkpoint
    <3> QED BY <3>1
  <2>13. CASE BlockExecution(w)
    <3>1. /\ pc[w] = "block_execution" /\ pc'[w] = "idle"
          /\ execution' = "blocked"
          /\ UNCHANGED <<checkpoint, ran, starts>>
      BY <2>13 DEF BlockExecution, Return, Goto, TypeOK
    <3> QED BY <3>1
  <2>14. CASE RunNode(w)
    <3>1. /\ pc[w] = "run" /\ pc'[w] = "save_progress"
          /\ node[w] \in Node \ checkpoint.completed
          /\ held'[w] = [state |-> "ready",
                         completed |-> checkpoint.completed \cup {node[w]}]
          /\ UNCHANGED <<execution, checkpoint, starts, node>>
      BY <2>14 DEF RunNode, Goto, Hold, rows, TypeOK, Checkpoint, Eligible
    <3>2. /\ \A n \in Node \ {node[w]} : ran'[n] = ran[n]
          /\ ran'[node[w]] \in {ran[node[w]], ran[node[w]] + 1}
      BY <2>14, <3>1 DEF RunNode, TypeOK
    <3>3. \A n \in Node \ checkpoint.completed : ran[n] < starts
      BY <3>1
    <3>4. ran \in [Node -> Nat] /\ starts \in Nat /\ starts' = starts
      BY <3>1 DEF TypeOK
    <3>5. node'[w] \in Eligible(checkpoint'.completed)
      BY <3>1
    <3>6. ExecutedOnce'
      <4>1. ASSUME NEW n \in Node PROVE ran'[n] <= starts
        <5>1. ran[n] <= starts
          OBVIOUS
        <5>2. CASE n = node[w]
          BY <3>1, <3>2, <3>3, <3>4, <5>2
        <5>3. CASE n # node[w]
          BY <3>2, <5>1, <5>3
        <5> QED BY <5>2, <5>3
      <4> QED BY <4>1, <3>4
    <3>7. Unspent(held[w].completed)'
      <4>1. held'[w].completed = checkpoint.completed \cup {node[w]}
        BY <3>1
      <4> QED BY <4>1, <3>2, <3>3, <3>4
    <3> HIDE DEF ExecutedOnce, Unspent
    <3> QED BY <3>1, <3>5, <3>6, <3>7
  <2>15. CASE ToolFails(w)
    <3>1. /\ pc[w] = "run"
          /\ \/ UNCHANGED <<pc, held>>
             \/ /\ pc'[w] = "fail_checkpoint"
                /\ held'[w] = [checkpoint EXCEPT !.state = "failed"]
          /\ UNCHANGED <<execution, checkpoint, ran, starts, node>>
      BY <2>15 DEF ToolFails, Goto, Hold, rows, TypeOK, Checkpoint
    <3> QED BY <3>1
  <2>16. CASE SaveProgress(w)
    <3>1. /\ pc[w] = "save_progress" /\ pc'[w] = "idle"
          /\ checkpoint'.state = "ready"
          /\ checkpoint'.completed = held[w].completed
          /\ UNCHANGED <<execution, ran, starts>>
      BY <2>16 DEF SaveProgress, Return, Goto, TypeOK
    <3> QED BY <3>1
  <2>17. CASE FailCheckpoint(w)
    <3>1. /\ pc[w] = "fail_checkpoint" /\ pc'[w] = "fail_execution"
          /\ checkpoint'.state = "failed"
          /\ checkpoint'.completed = checkpoint.completed
          /\ UNCHANGED <<execution, ran, starts>>
      BY <2>17 DEF FailCheckpoint, Goto, local, TypeOK, Checkpoint
    <3> QED BY <3>1
  <2>18. CASE FailExecution(w)
    <3>1. /\ pc[w] = "fail_execution" /\ pc'[w] = "idle"
          /\ execution' = "failed"
          /\ UNCHANGED <<checkpoint, ran, starts>>
      BY <2>18 DEF FailExecution, Return, Goto, TypeOK
    <3> QED BY <3>1
  <2> HIDE DEF Known
  <2> QED BY <2>1, <2>2, <2>3, <2>4, <2>5, <2>6, <2>7, <2>8, <2>9, <2>10,
             <2>11, <2>12, <2>13, <2>14, <2>15, <2>16, <2>17, <2>18 DEF Work
<1>3. \A w \in Worker : Known(w)
  BY DEF InTurn
<1> HIDE DEF Known
<1>4. CASE Next
  <2>1. PICK w \in Worker : \/ \E o \in Operation, who \in Identity :
                                Request(w, o, who)
                           \/ Work(w)
    BY <1>4 DEF Next, OneByOne, Crash
  <2>2. \A v \in Worker : v = w
    BY DEF OneByOne
  <2>3. \A v \in Worker : Known(v)'
    BY <1>2, <1>3, <2>1, <2>2
  <2> QED BY <2>3 DEF InTurn, Known
<1> QED BY <1>1, <1>4

(* Every step of the checkpoint row is a step PlanRun allows: the state of *)
(* the rows a request knows of tells which.                                *)
LEMMA PromiseStep ==
  ASSUME OneByOne, IInv, InTurn, [Next]_vars
  PROVE  [Promise!PNext]_(Promise!pvars)
<1>1. TypeOK
  BY DEF IInv
<1> USE DEF Promise!PNext, Promise!pvars, PhaseBar
<1>2. CASE checkpoint' = checkpoint
  BY <1>2
<1>3. ASSUME NEW w \in Worker, RowsKnown(w), HeldKnown(w), Work(w),
             checkpoint' # checkpoint
      PROVE  [Promise!PNext]_(Promise!pvars)
  <2> USE <1>1, <1>3 DEF Terminal
  <2>1. CASE StartCheckpoint(w)
    BY <2>1 DEF StartCheckpoint, Promise!Start
  <2>2. CASE SetCheckpoint(w)
    <3>1. /\ MayBeSet(checkpoint.state, TargetState(op[w]))
          /\ checkpoint'.state = TargetState(op[w])
          /\ checkpoint'.completed = checkpoint.completed
      BY <2>2 DEF SetCheckpoint, RowsKnown, HeldKnown, TypeOK, Checkpoint
    <3>2. TargetState(op[w]) \in {"paused", "running", "cancelled"}
      BY DEF TargetState
    <3>3. CASE PhaseBar = "open" /\ TargetState(op[w]) = "cancelled"
      <4>1. Promise!End("cancelled")
        BY <3>1, <3>3 DEF Promise!End
      <4> QED BY <4>1 DEF Promise!Ending
    <3>4. CASE ~(PhaseBar = "open" /\ TargetState(op[w]) = "cancelled")
      BY <3>1, <3>2, <3>4 DEF MayBeSet
    <3> QED BY <3>3, <3>4
  <2>3. CASE CompleteCheckpoint(w)
    <3>1. Promise!End("completed")
      BY <2>3 DEF CompleteCheckpoint, RowsKnown, HeldKnown, Promise!End,
         TypeOK, Checkpoint
    <3> QED BY <3>1 DEF Promise!Ending
  <2>4. CASE SetRunning(w)
    BY <2>4 DEF SetRunning, RowsKnown, HeldKnown, TypeOK, Checkpoint, OnNode,
       UnderWay
  <2>5. CASE BlockCheckpoint(w)
    BY <2>5 DEF BlockCheckpoint, RowsKnown, HeldKnown, TypeOK, Checkpoint,
       OnNode, UnderWay
  <2>6. CASE SaveProgress(w)
    <3>1. /\ node[w] \in Eligible(checkpoint.completed)
          /\ checkpoint.state \notin Terminal \cup {"absent"}
          /\ checkpoint'.state = "ready"
          /\ checkpoint'.completed = checkpoint.completed \cup {node[w]}
      <4>1. pc[w] = "save_progress" /\ checkpoint' = held[w]
        BY <2>6 DEF SaveProgress
      <4>2. /\ node[w] \in Eligible(checkpoint.completed)
            /\ held[w] = [state |-> "ready",
                          completed |-> checkpoint.completed \cup {node[w]}]
        BY <4>1 DEF HeldKnown
      <4>3. checkpoint.state \notin Terminal \cup {"absent"}
        BY <4>1 DEF RowsKnown, OnNode, UnderWay
      <4> QED BY <4>1, <4>2, <4>3
    <3>2. Promise!Progress(node[w])
      BY <3>1 DEF Promise!Progress, Eligible
    <3> QED BY <3>1, <3>2 DEF Eligible
  <2>7. CASE FailCheckpoint(w)
    <3>1. /\ checkpoint.state \notin Terminal \cup {"absent"}
          /\ checkpoint'.state = "failed"
          /\ checkpoint'.completed = checkpoint.completed
      BY <2>7 DEF FailCheckpoint, RowsKnown, HeldKnown, TypeOK, Checkpoint,
         OnNode, UnderWay
    <3>2. Promise!End("failed")
      BY <3>1 DEF Promise!End
    <3> QED BY <3>2 DEF Promise!Ending
  <2>8. CASE checkpoint' = checkpoint
    BY <2>8
  <2> QED
    BY <2>1, <2>2, <2>3, <2>4, <2>5, <2>6, <2>7, <2>8 DEF Work,
       StartExecution, ReadExecution, SetExecution, LoadForState, LoadForStep,
       CompleteExecution, BlockExecution, RunNode, ToolFails, FailExecution,
       rows
<1>4. CASE checkpoint' # checkpoint
  <2>1. PICK w \in Worker : Work(w)
    BY <1>4 DEF Next, OneByOne, Crash, Request, rows, vars
  <2> QED BY <1>3, <1>4, <2>1 DEF InTurn
<1> QED BY <1>2, <1>4

(* With requests served in turn the invariant holds from start to end.     *)
LEMMA InTurnInvariance ==
  ASSUME Acyclic, OneByOne PROVE Spec => [](IInv /\ InTurn)
<1>1. Init => IInv /\ InTurn
  <2>1. Init => InTurn
    BY DEF Init, InTurn, RowsKnown, HeldKnown, RunsKnown, RowsAgree, OnNode,
       NoCheckpoint, ExecutedOnce, Terminal
  <2> QED BY <2>1, InitIInv
<1>2. IInv /\ InTurn /\ [Next]_vars => (IInv /\ InTurn)'
  BY NextIsAnyStep, TypeStep, KnowledgeStep, InTurnStep DEF IInv
<1> QED BY <1>1, <1>2, PTL DEF Spec

(* Served one request at a time and without crashes, each node runs at     *)
(* most once for each start, and the two rows agree at rest.               *)
THEOREM RuntimeInTurn == ASSUME Acyclic, OneByOne PROVE Spec => []ServedInOrder
<1>1. IInv /\ InTurn => ServedInOrder
  BY DEF OneByOne, InTurn, RowsKnown, RunsKnown, RowsAgree, ServedInOrder,
     RowsAgreeAtRest
<1> QED BY InTurnInvariance, <1>1, PTL

(* Served so, the runtime implements PlanRun: nodes are done one by one,   *)
(* each after its dependencies, and the plan ends once.                    *)
THEOREM RuntimeRefines ==
  ASSUME Acyclic, OneByOne PROVE Spec => ImplementsPlanRun
<1>1. Init => Promise!PInit
  <2>1. Init => checkpoint.state = "absent" /\ checkpoint.completed = {}
    BY DEF Init, NoCheckpoint
  <2>2. checkpoint.state = "absent" => PhaseBar = "none"
    BY DEF PhaseBar, Terminal
  <2> QED BY <2>1, <2>2 DEF Promise!PInit
<1>2. IInv /\ InTurn /\ [Next]_vars => [Promise!PNext]_(Promise!pvars)
  BY PromiseStep
<1> QED BY InTurnInvariance, <1>1, <1>2, PTL DEF Spec, ImplementsPlanRun,
           Promise!PSpec
=============================================================================
