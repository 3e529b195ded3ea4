------------------------------ MODULE Missions ------------------------------
(***************************************************************************)
(* A multi-agent mission on top of the Agent Runtime.  The supervisor      *)
(* consults its specialists, lets them vote, and steps the mission's plan  *)
(* through the runtime until it ends; meanwhile people pause, resume or    *)
(* cancel the mission, and FailureRecovery may be asked to take it up.     *)
(* Each of them changes the mission's row by reading it, validating the    *)
(* change and writing all of it back: two transactions.                    *)
(*                                                                         *)
(* Abstractions: one mission, whose execution id it alone uses; all its    *)
(* proposals get the same votes, so that the plan is Node or there is      *)
(* none; message bodies, the blackboard, the decision history and metrics  *)
(* are append-only and never read back by the mission.                     *)
(***************************************************************************)
EXTENDS AgentRuntime, Sequences

CONSTANTS
  Specialist,   \* agents the supervisor consults, and who vote
  Interventions,\* what people ask of the mission in a run
  MaxAsked      \* how often they do

LifecycleState == {"created", "planning", "assigned", "executing", "waiting",
                   "recovering", "completed", "cancelled", "failed"}
Recovery       == {"recover", "recover_as_viewer"}
MissionRequest == {"execute", "pause", "resume", "cancel"} \cup Recovery
Driver         == {"execute"} \cup Recovery   \* requests that step the plan

ASSUME MissionsAssumption ==
  /\ IsFiniteSet(Specialist) /\ Specialist # {}
  /\ Interventions \subseteq MissionRequest \ {"execute"}
  /\ MaxAsked \in Nat
  /\ None \notin State \cup MissionRequest

VARIABLES
  mission,   \* the mission's row: state and transitions ("absent": none)
  mail,      \* [Specialist -> last message of its conversation]
  disturbed, \* a person intervened, or a call was refused or lost
  asked,     \* interventions so far (bounded by MaxAsked)
  at,        \* [Worker -> where its mission request is]
  asks,      \* [Worker -> the request]
  target,    \* [Worker -> state it is changing the mission to]
  draft,     \* [Worker -> the row it read, changed]
  answer     \* [Worker -> state last returned by the runtime]

mlocal == <<at, asks, target, draft, answer>>
mvars  == <<mission, mail, disturbed, asked, mlocal>>
allvars == <<vars, mvars>>

NoMission == [state |-> "absent", path |-> <<>>]

AllowedTransitions ==
  [s \in LifecycleState |->
     CASE s = "created"    -> {"planning", "cancelled", "failed"}
       [] s = "planning"   -> {"assigned", "waiting", "cancelled", "failed"}
       [] s = "assigned"   -> {"executing", "waiting", "cancelled", "failed"}
       [] s = "executing"  -> {"waiting", "recovering", "completed",
                               "cancelled", "failed"}
       [] s = "waiting"    -> {"executing", "recovering", "cancelled",
                               "failed"}
       [] s = "recovering" -> {"executing", "completed", "cancelled",
                               "failed"}
       [] s = "failed"     -> {"recovering"}
       [] OTHER            -> {}]

(* Runtime states at which the supervisor stops stepping.                  *)
Over == {"completed", "failed", "blocked", "cancelled"}

(* A majority of the voters, and at least one.                             *)
Majority(yes) == 2 * yes > Cardinality(Specialist)

(* The change with which a request begins.                                 *)
FirstTarget(m) == CASE m = "pause"  -> "waiting"
                    [] m = "resume" -> "executing"
                    [] m = "cancel" -> "cancelled"
                    [] OTHER        -> None

MInit ==
  /\ Init
  /\ mission = NoMission
  /\ mail = [s \in Specialist |-> "none"]
  /\ disturbed = FALSE
  /\ asked = 0
  /\ at = [w \in Worker |-> "idle"]
  /\ asks = [w \in Worker |-> None]
  /\ target = [w \in Worker |-> None]
  /\ draft = [w \in Worker |-> NoMission]
  /\ answer = [w \in Worker |-> None]

Proceed(w, step) == at' = [at EXCEPT ![w] = step]

(* The request is answered, or fails, and leaves its thread.               *)
Finish(w) ==
  /\ Proceed(w, "idle")
  /\ asks' = [asks EXCEPT ![w] = None]
  /\ target' = [target EXCEPT ![w] = None]
  /\ draft' = [draft EXCEPT ![w] = NoMission]
  /\ answer' = [answer EXCEPT ![w] = None]

(* The next step is transition_state to the given state.                   *)
Change(w, to) ==
  /\ Proceed(w, "look")
  /\ target' = [target EXCEPT ![w] = to]
  /\ UNCHANGED <<asks, draft, answer>>

(* A mission is started, once.                                             *)
Execute(w) ==
  /\ at[w] = "idle" /\ pc[w] = "idle"
  /\ mission.state = "absent" /\ \A u \in Worker : asks[u] # "execute"
  /\ starts < MaxStarts
  /\ ~disturbed
  /\ Proceed(w, "create")
  /\ asks' = [asks EXCEPT ![w] = "execute"]
  /\ UNCHANGED <<vars, mission, mail, disturbed, asked, target, draft, answer>>

(* Someone intervenes; all of this begins by looking the mission up.       *)
Intervene(w, m) ==
  /\ at[w] = "idle" /\ pc[w] = "idle"
  /\ mission.state # "absent" /\ asked < MaxAsked
  /\ asked' = asked + 1
  /\ disturbed' = TRUE
  /\ Proceed(w, IF m \in Recovery THEN "inspect" ELSE "look")
  /\ asks' = [asks EXCEPT ![w] = m]
  /\ target' = [target EXCEPT ![w] = FirstTarget(m)]
  /\ UNCHANGED <<vars, mission, mail, draft, answer>>

-----------------------------------------------------------------------------
(* MissionManager                                                          *)

CreateMission(w) ==
  /\ at[w] = "create"
  /\ mission' = [state |-> "created", path |-> <<"created">>]
  /\ Change(w, "planning")
  /\ UNCHANGED <<vars, mail, disturbed, asked>>

(* Mutant: the transition is recorded before it is validated.              *)
LookUnchecked(w) ==
  /\ at[w] = "look"
  /\ draft' = [draft EXCEPT ![w] =
                 [state |-> target[w],
                  path  |-> Append(mission.path, target[w])]]
  /\ Proceed(w, "save")
  /\ UNCHANGED <<vars, mission, mail, disturbed, asked, asks, target, answer>>

(* transition_state reads and validates; a refusal ends the request.       *)
Look(w) ==
  /\ at[w] = "look"
  /\ \/ /\ target[w] \in AllowedTransitions[mission.state]
        /\ draft' = [draft EXCEPT ![w] =
                       [state |-> target[w],
                        path  |-> Append(mission.path, target[w])]]
        /\ Proceed(w, "save")
        /\ UNCHANGED <<asks, target, answer>>
     \/ /\ target[w] \notin AllowedTransitions[mission.state]
        /\ Finish(w)
  /\ UNCHANGED <<vars, mission, mail, disturbed, asked>>

(* recover_mission takes whatever identity its caller has.                 *)
Who(w) == IF asks[w] = "recover_as_viewer" THEN "viewer" ELSE "owner"

(* What a request does once its change of state is saved.                  *)
AfterSave(w) ==
  \/ /\ asks[w] = "execute" /\ target[w] = "planning"
     /\ Proceed(w, "consult")
     /\ UNCHANGED <<vars, asks, target, draft, answer>>
  \/ /\ asks[w] = "execute" /\ target[w] = "assigned"
     /\ Proceed(w, "vote")
     /\ UNCHANGED <<vars, asks, target, draft, answer>>
  \/ /\ asks[w] = "execute" /\ target[w] = "executing"
     /\ Request(w, "start", "owner")
     /\ Proceed(w, "call")
     /\ UNCHANGED <<asks, target, draft, answer>>
  \/ /\ asks[w] \in {"pause", "resume", "cancel"}
     /\ Request(w, asks[w], "owner")
     /\ Proceed(w, "call")
     /\ UNCHANGED <<asks, target, draft, answer>>
  \/ /\ target[w] = "recovering"
     /\ Proceed(w, "loop")
     /\ UNCHANGED <<vars, asks, target, draft, answer>>
  \/ /\ asks[w] \in Driver
     /\ target[w] \in {"completed", "failed"}
     /\ Finish(w)
     /\ UNCHANGED vars

(* save_mission writes the whole row, whatever it holds by now.            *)
Save(w) ==
  /\ at[w] = "save"
  /\ mission' = draft[w]
  /\ AfterSave(w)
  /\ UNCHANGED <<mail, disturbed, asked>>

-----------------------------------------------------------------------------
(* SupervisorAgent.execute_mission                                         *)

Waiting == {s \in Specialist : mail[s] = "request"}

(* The next specialist is asked; with all answers in, the mission is       *)
(* assigned.                                                               *)
Consult(w) ==
  /\ at[w] = "consult" /\ Waiting = {}
  /\ \/ \E s \in Specialist :
          /\ mail[s] = "none"
          /\ mail' = [mail EXCEPT ![s] = "request"]
          /\ UNCHANGED mlocal
     \/ /\ \A s \in Specialist : mail[s] # "none"
        /\ Change(w, "assigned")
        /\ UNCHANGED mail
  /\ UNCHANGED <<vars, mission, disturbed, asked>>

Evidence(w) ==
  /\ at[w] = "consult"
  /\ \E s \in Waiting : mail' = [mail EXCEPT ![s] = "evidence"]
  /\ UNCHANGED <<vars, mission, disturbed, asked, mlocal>>

(* Mutant: the supervisor carries on without the specialist.               *)
SpecialistSkipped(w) ==
  /\ at[w] = "consult"
  /\ \E s \in Waiting : mail' = [mail EXCEPT ![s] = "failure"]
  /\ UNCHANGED <<vars, mission, disturbed, asked, mlocal>>

(* reason raises: the failure is on record and the mission left as it is.  *)
SpecialistFails(w) ==
  /\ at[w] = "consult"
  /\ \E s \in Waiting : mail' = [mail EXCEPT ![s] = "failure"]
  /\ disturbed' = TRUE
  /\ Finish(w)
  /\ UNCHANGED <<vars, mission, asked>>

Vote(w) ==
  /\ at[w] = "vote"
  /\ \E yes \in 0 .. Cardinality(Specialist) :
       Change(w, IF Majority(yes) THEN "executing" ELSE "failed")
  /\ UNCHANGED <<vars, mission, mail, disturbed, asked>>

(* What the runtime's call gives its caller when it ends.                  *)
Returned(w) == CASE pc[w] = "load"                -> checkpoint.state
                 [] pc[w] = "complete_checkpoint" -> "completed"
                 [] pc[w] = "block_execution"     -> "blocked"
                 [] pc[w] = "fail_execution"      -> "failed"
                 [] OTHER                         -> "ready"

(* A plan not found, or a change of its state refused, raises.             *)
Raises(w) == \/ pc[w] = "read"
             \/ pc[w] = "load" /\ checkpoint.state = "absent"

(* The runtime works for a mission request.                                *)
RuntimeCall(w) ==
  /\ at[w] = "call"
  /\ Work(w)
  /\ \/ /\ pc'[w] # "idle"
        /\ UNCHANGED mlocal
     \/ /\ pc'[w] = "idle" /\ asks[w] \in Driver /\ ~Raises(w)
        /\ Proceed(w, "loop")
        /\ answer' = [answer EXCEPT ![w] = Returned(w)]
        /\ UNCHANGED <<asks, target, draft>>
     \/ /\ pc'[w] = "idle"
        /\ Raises(w) \/ asks[w] \notin Driver
        /\ Finish(w)
  /\ UNCHANGED <<mission, mail, disturbed, asked>>

(* Mutant: only a plan that completes changes the mission.                 *)
StepUnlessCompleted(w) ==
  /\ at[w] = "loop"
  /\ \/ /\ answer[w] \notin Over
        /\ Request(w, "step", Who(w))
        /\ Proceed(w, "call")
        /\ UNCHANGED <<asks, target, draft, answer>>
     \/ /\ answer[w] = "completed" /\ Change(w, "completed") /\ UNCHANGED vars
     \/ /\ answer[w] \in Over \ {"completed"} /\ Finish(w)
        /\ UNCHANGED vars
  /\ UNCHANGED <<mission, mail, disturbed, asked>>

(* Mutant: a plan that is over completes the mission.                      *)
StepThenCompleted(w) ==
  /\ at[w] = "loop"
  /\ \/ /\ answer[w] \notin Over
        /\ Request(w, "step", Who(w))
        /\ Proceed(w, "call")
        /\ UNCHANGED <<asks, target, draft, answer>>
     \/ /\ answer[w] \in Over /\ Change(w, "completed") /\ UNCHANGED vars
  /\ UNCHANGED <<mission, mail, disturbed, asked>>

(* Step the plan until it is over; a paused plan is stepped all the same.  *)
Step(w) ==
  /\ at[w] = "loop"
  /\ \/ /\ answer[w] \notin Over
        /\ Request(w, "step", Who(w))
        /\ Proceed(w, "call")
        /\ UNCHANGED <<asks, target, draft, answer>>
     \/ /\ answer[w] \in Over
        /\ Change(w, IF answer[w] = "completed" THEN "completed" ELSE "failed")
        /\ UNCHANGED vars
  /\ UNCHANGED <<mission, mail, disturbed, asked>>

(* recover_mission goes on from the checkpoint, or fails the mission.      *)
Inspect(w) ==
  /\ at[w] = "inspect"
  /\ Proceed(w, "look")
  /\ IF checkpoint.state = "absent"
       THEN /\ target' = [target EXCEPT ![w] = "failed"]
            /\ UNCHANGED answer
       ELSE /\ target' = [target EXCEPT ![w] = "recovering"]
            /\ answer' = [answer EXCEPT ![w] = checkpoint.state]
  /\ UNCHANGED <<vars, mission, mail, disturbed, asked, asks, draft>>

-----------------------------------------------------------------------------
(* The database refuses a call, or the process dies: the request is over   *)
(* and what it committed stays.                                            *)
Lose(w) ==
  /\ "crash" \in Faults
  /\ at[w] # "idle"
  /\ Finish(w)
  /\ Return(w)
  /\ disturbed' = TRUE
  /\ UNCHANGED <<rows, ran, starts, mission, mail, asked>>

Serve(w) ==
  \/ CreateMission(w) \/ Look(w) \/ Save(w)
  \/ Consult(w) \/ Evidence(w) \/ SpecialistFails(w) \/ Vote(w)
  \/ RuntimeCall(w) \/ Step(w) \/ Inspect(w)

MNext ==
  \E w \in Worker :
    \/ Execute(w)
    \/ \E m \in Interventions : Intervene(w, m)
    \/ Serve(w)
    \/ Lose(w)

MSpec == MInit /\ [][MNext]_allvars

-----------------------------------------------------------------------------
Row == [state : LifecycleState \cup {"absent"}, path : Seq(LifecycleState)]

(* Types of the mission's row and of the requests that work on it.         *)
MTypeOK ==
  /\ mission \in Row
  /\ mail \in [Specialist -> {"none", "request", "evidence", "failure"}]
  /\ disturbed \in BOOLEAN
  /\ asked \in Nat
  /\ at \in [Worker -> {"idle", "create", "look", "save", "consult", "vote",
                        "call", "loop", "inspect"}]
  /\ asks \in [Worker -> MissionRequest \cup {None}]
  /\ target \in [Worker -> LifecycleState \cup {None}]
  /\ draft \in [Worker -> Row]
  /\ answer \in [Worker -> State \cup {None}]

(* A list of transitions from "created" to s, each of them allowed.        *)
LegalTo(s, path) ==
  /\ path # <<>> /\ path[1] = "created" /\ path[Len(path)] = s
  /\ \A i \in 1 .. Len(path) - 1 :
       path[i + 1] \in AllowedTransitions[path[i]]

(* Whoever writes the row last, the transitions it records lead from its   *)
(* creation to its state, each of them allowed ("persisted, validated      *)
(* transitions"): a lost update takes its record with it.                  *)
HistoryIsLegal ==
  MTypeOK /\ (mission.state # "absent" => LegalTo(mission.state, mission.path))

(* A mission past "planning" heard every specialist: one that fails to     *)
(* reason stops the mission (_collect_specialist_proposals).               *)
EverySpecialistHeard ==
  \A i \in 1 .. Len(mission.path) : mission.path[i] = "assigned" =>
    \A s \in Specialist : mail[s] = "evidence"

(* A completed mission's plan was executed to the last node, whoever       *)
(* paused, resumed, recovered or overwrote it on the way.                  *)
CompletedMissionIsDone ==
  mission.state = "completed" => \A n \in Node : ran[n] > 0

(* A mission nobody interfered with, all of whose calls were served, is    *)
(* completed if its plan is and has failed otherwise; it is left in no     *)
(* state on the way (execute_mission).                                     *)
SettlesUndisturbed ==
  (~disturbed /\ mission.state # "absent" /\ \A w \in Worker : at[w] = "idle")
    => mission.state = IF checkpoint.state = "completed"
                         THEN "completed" ELSE "failed"
=============================================================================
