--------------------------- MODULE MissionProofs ---------------------------
(***************************************************************************)
(* Safety of a mission for any plan, any specialists and any number of     *)
(* threads: whoever writes the mission's row last, its record is legal,    *)
(* its specialists were heard, and if it is completed its plan was run; a  *)
(* mission that nobody interferes with settles.                            *)
(* The runtime's invariant is taken over from AgentRuntimeProofs.          *)
(***************************************************************************)
EXTENDS Missions, AgentRuntimeProofs

(* Every copy of the row, stored or about to be, has a legal record, and a *)
(* change is only begun of a mission there is.                             *)
Recorded ==
  /\ mission.state # "absent" => LegalTo(mission.state, mission.path)
  /\ \A w \in Worker :
       /\ at[w] \notin {"idle", "create"} => mission.state # "absent"
       /\ at[w] \in {"look", "save"} => target[w] \in LifecycleState
       /\ at[w] = "save" => LegalTo(target[w], draft[w].path)
       /\ at[w] = "save" => draft[w].state = target[w]

(* Whoever says that the plan is completed, it is.                         *)
CompletionKnown ==
  /\ mission.state = "completed" => AllRan
  /\ \A w \in Worker :
       /\ at[w] \in {"look", "save"} /\ target[w] = "completed" => AllRan
       /\ answer[w] = "completed" => AllRan

Assigns(path) == \E i \in 1 .. Len(path) : path[i] = "assigned"

(* The mission is assigned, or someone is about to say so.                 *)
Assignment ==
  \/ Assigns(mission.path)
  \/ \E w \in Worker :
       \/ at[w] = "look" /\ target[w] = "assigned"
       \/ at[w] = "save" /\ Assigns(draft[w].path)

(* The supervisor has not asked its specialists yet.                       *)
BeforeAsking(w) ==
  \/ at[w] = "create"
  \/ at[w] \in {"look", "save"} /\ target[w] = "planning"

(* There is one supervisor; it asks once, and all answer before anything   *)
(* is assigned.                                                            *)
Supervised ==
  /\ \A u, w \in Worker : asks[u] = "execute" /\ asks[w] = "execute" => u = w
  /\ mission.state = "absent" =>
       mission.path = <<>> /\ \A s \in Specialist : mail[s] = "none"
  /\ \A w \in Worker :
       /\ at[w] = "create" => mission.state = "absent"
       /\ BeforeAsking(w) => \A s \in Specialist : mail[s] = "none"
       /\ BeforeAsking(w) \/ at[w] \in {"consult", "vote"} =>
            asks[w] = "execute"
       /\ at[w] = "consult" => \A s \in Specialist : mail[s] # "failure"
  /\ Assignment =>
       /\ \A s \in Specialist : mail[s] = "evidence"
       /\ \A w \in Worker : ~ BeforeAsking(w) /\ at[w] # "consult"

MissionInv == IInv /\ MTypeOK /\ Recorded

-----------------------------------------------------------------------------
(* A mission does to the runtime what the runtime's clients do.            *)
LEMMA MissionStepsRuntime ==
  ASSUME MTypeOK, MNext PROVE [AnyStep]_vars
<1>1. PICK w \in Worker : \/ Execute(w)
                          \/ \E m \in Interventions : Intervene(w, m)
                          \/ Serve(w)
                          \/ Lose(w)
  BY DEF MNext
<1>2. \A o \in Operation, who \in Identity : Request(w, o, who) => AnyStep
  BY DEF AnyStep
<1>3. Work(w) => AnyStep
  BY DEF AnyStep
<1>4. CASE Execute(w)
  BY <1>4 DEF Execute
<1>5. CASE \E m \in Interventions : Intervene(w, m)
  BY <1>5 DEF Intervene
<1>6. CASE Lose(w)
  BY <1>6 DEF Lose, AnyStep, EndsEarly
<1>7. CASE Save(w)
  <2>1. "start" \in Operation /\ "owner" \in Identity
    BY DEF Operation, Identity
  <2>2. {"pause", "resume", "cancel"} \subseteq Operation
    BY DEF Operation
  <2> QED BY <1>2, <1>7, <2>1, <2>2 DEF Save, AfterSave
<1>8. CASE Step(w)
  <2>1. "step" \in Operation /\ Who(w) \in Identity
    BY DEF Operation, Identity, Who
  <2> QED BY <1>2, <1>8, <2>1 DEF Step
<1>9. CASE RuntimeCall(w)
  BY <1>3, <1>9 DEF RuntimeCall
<1>10. CASE CreateMission(w) \/ Look(w) \/ Consult(w) \/ Evidence(w)
            \/ SpecialistFails(w) \/ Vote(w) \/ Inspect(w)
  BY <1>10 DEF CreateMission, Look, Consult, Evidence, SpecialistFails, Vote,
               Inspect
<1> QED
  BY <1>1, <1>4, <1>5, <1>6, <1>7, <1>8, <1>9, <1>10 DEF Serve

(* A legal record stays legal with an allowed state at its end.            *)
LEMMA LegalAppend ==
  ASSUME NEW s \in LifecycleState, NEW t \in AllowedTransitions[s],
         NEW path \in Seq(LifecycleState), LegalTo(s, path)
  PROVE  LegalTo(t, Append(path, t))
<1> DEFINE longer == Append(path, t)
<1>1. /\ Len(path) \in Nat /\ Len(path) # 0 /\ Len(longer) = Len(path) + 1
      /\ longer[Len(path) + 1] = t
      /\ \A i \in 1 .. Len(path) : longer[i] = path[i]
  BY DEF LegalTo
<1> HIDE DEF longer
<1>2. longer # <<>> /\ longer[1] = "created" /\ longer[Len(longer)] = t
  BY <1>1 DEF LegalTo
<1>3. ASSUME NEW i \in 1 .. Len(longer) - 1
      PROVE  longer[i + 1] \in AllowedTransitions[longer[i]]
  <2>1. CASE i = Len(path)
    BY <1>1, <2>1 DEF LegalTo
  <2>2. CASE i # Len(path)
    <3>1. i \in 1 .. Len(path) - 1 /\ i + 1 \in 1 .. Len(path)
      BY <1>1, <2>2
    <3> QED BY <1>1, <3>1 DEF LegalTo
  <2> QED BY <2>1, <2>2
<1> QED BY <1>2, <1>3 DEF LegalTo, longer

LEMMA AllowedIsState ==
  \A s \in LifecycleState : AllowedTransitions[s] \subseteq LifecycleState
BY DEF AllowedTransitions, LifecycleState

(* The row that a look reads, changed.                                     *)
LEMMA DraftLegal ==
  ASSUME MTypeOK, Recorded, NEW w \in Worker, at[w] = "look",
         target[w] \in AllowedTransitions[mission.state]
  PROVE  /\ mission.state \in LifecycleState /\ target[w] \in LifecycleState
         /\ [state |-> target[w], path |-> Append(mission.path, target[w])]
              \in Row
         /\ LegalTo(target[w], Append(mission.path, target[w]))
<1>1. /\ mission.state \in LifecycleState
      /\ mission.path \in Seq(LifecycleState)
      /\ LegalTo(mission.state, mission.path)
  BY DEF MTypeOK, Row, Recorded
<1>2. target[w] \in LifecycleState
  BY <1>1, AllowedIsState
<1>3. Append(mission.path, target[w]) \in Seq(LifecycleState)
  BY <1>1, <1>2
<1> QED BY <1>1, <1>2, <1>3, LegalAppend DEF Row

(* What the runtime answers to a call that did not raise.                  *)
LEMMA ReturnedType ==
  ASSUME TypeOK, NEW w \in Worker, ~ Raises(w)
  PROVE  Returned(w) \in State
BY DEF TypeOK, Checkpoint, Raises, Returned, State

-----------------------------------------------------------------------------
LEMMA FinishTyped ==
  ASSUME MTypeOK, NEW w \in Worker, Finish(w)
  PROVE  /\ at' \in [Worker -> {"idle", "create", "look", "save", "consult",
                                "vote", "call", "loop", "inspect"}]
         /\ asks' \in [Worker -> MissionRequest \cup {None}]
         /\ target' \in [Worker -> LifecycleState \cup {None}]
         /\ draft' \in [Worker -> Row]
         /\ answer' \in [Worker -> State \cup {None}]
<1>1. NoMission \in Row
  BY DEF NoMission, Row
<1> QED BY <1>1 DEF MTypeOK, Finish, Proceed

(* The row's type, and that of all that is in the requests' hands.         *)
LEMMA MissionTyping ==
  ASSUME TypeOK, MTypeOK, Recorded, MNext PROVE MTypeOK'
<1>1. PICK w \in Worker : \/ Execute(w)
                          \/ \E m \in Interventions : Intervene(w, m)
                          \/ Serve(w)
                          \/ Lose(w)
  BY DEF MNext
<1>2. CASE Execute(w)
  BY <1>2 DEF Execute, Proceed, MTypeOK, MissionRequest
<1>3. CASE \E m \in Interventions : Intervene(w, m)
  <2>1. PICK m \in Interventions : Intervene(w, m)
    BY <1>3
  <2>2. /\ m \in MissionRequest
        /\ FirstTarget(m) \in LifecycleState \cup {None}
    BY MissionsAssumption DEF FirstTarget, LifecycleState
  <2> QED BY <2>1, <2>2 DEF Intervene, Proceed, MTypeOK
<1>4. CASE CreateMission(w)
  <2>1. [state |-> "created", path |-> <<"created">>] \in Row
    BY DEF Row, LifecycleState
  <2> QED
    BY <1>4, <2>1 DEF CreateMission, Change, Proceed, MTypeOK, LifecycleState
<1>5. CASE Look(w)
  <2>1. CASE Finish(w)
    BY <1>5, <2>1, FinishTyped DEF Look, MTypeOK
  <2>2. CASE /\ target[w] \in AllowedTransitions[mission.state]
             /\ draft' = [draft EXCEPT ![w] =
                   [state |-> target[w],
                    path  |-> Append(mission.path, target[w])]]
             /\ Proceed(w, "save")
             /\ UNCHANGED <<asks, target, answer>>
    <3>1. at[w] = "look" /\ UNCHANGED <<mission, mail, disturbed, asked>>
      BY <1>5 DEF Look
    <3>2. [state |-> target[w], path |-> Append(mission.path, target[w])]
            \in Row
      BY <2>2, <3>1, DraftLegal
    <3> QED BY <2>2, <3>1, <3>2 DEF Proceed, MTypeOK
  <2> QED BY <1>5, <2>1, <2>2 DEF Look
<1>6. CASE Save(w)
  <2>1. mission' \in Row /\ UNCHANGED <<mail, disturbed, asked>>
    BY <1>6 DEF Save, MTypeOK
  <2>2. CASE Finish(w)
    BY <2>1, <2>2, FinishTyped DEF MTypeOK
  <2>3. CASE /\ UNCHANGED <<asks, target, draft, answer>>
             /\ \E step \in {"consult", "vote", "call", "loop"} :
                  Proceed(w, step)
    BY <2>1, <2>3 DEF Proceed, MTypeOK
  <2> QED BY <1>6, <2>2, <2>3 DEF Save, AfterSave
<1>7. CASE Consult(w)
  BY <1>7 DEF Consult, Change, Proceed, MTypeOK, LifecycleState, mlocal
<1>8. CASE Evidence(w)
  BY <1>8 DEF Evidence, Waiting, MTypeOK, mlocal
<1>9. CASE SpecialistFails(w)
  BY <1>9, FinishTyped DEF SpecialistFails, Waiting, MTypeOK
<1>10. CASE Vote(w)
  BY <1>10 DEF Vote, Change, Proceed, MTypeOK, LifecycleState
<1>11. CASE RuntimeCall(w)
  <2>1. CASE Finish(w)
    BY <1>11, <2>1, FinishTyped DEF RuntimeCall, MTypeOK
  <2>2. CASE /\ ~ Raises(w)
             /\ Proceed(w, "loop")
             /\ answer' = [answer EXCEPT ![w] = Returned(w)]
             /\ UNCHANGED <<asks, target, draft>>
    BY <1>11, <2>2, ReturnedType DEF RuntimeCall, Proceed, MTypeOK
  <2>3. CASE UNCHANGED mlocal
    BY <1>11, <2>3 DEF RuntimeCall, MTypeOK, mlocal
  <2> QED BY <1>11, <2>1, <2>2, <2>3 DEF RuntimeCall
<1>12. CASE Step(w)
  BY <1>12 DEF Step, Change, Proceed, MTypeOK, LifecycleState
<1>13. CASE Inspect(w)
  <2>1. checkpoint.state # "absent" => checkpoint.state \in State
    BY DEF TypeOK, Checkpoint
  <2> QED BY <1>13, <2>1 DEF Inspect, Proceed, MTypeOK, LifecycleState
<1>14. CASE Lose(w)
  BY <1>14, FinishTyped DEF Lose, MTypeOK
<1> QED
  BY <1>1, <1>2, <1>3, <1>4, <1>5, <1>6, <1>7, <1>8, <1>9, <1>10, <1>11,
     <1>12, <1>13, <1>14 DEF Serve

(* A row is only written from a legal draft.                               *)
LEMMA RecordKept ==
  ASSUME MTypeOK, Recorded, MNext PROVE Recorded'
<1>1. PICK w \in Worker : \/ Execute(w)
                          \/ \E m \in Interventions : Intervene(w, m)
                          \/ Serve(w)
                          \/ Lose(w)
  BY DEF MNext
<1> USE DEF MTypeOK, Recorded, Proceed
<1>2. CASE Execute(w)
  BY <1>2 DEF Execute
<1>3. CASE \E m \in Interventions : Intervene(w, m)
  <2>1. PICK m \in Interventions : Intervene(w, m)
    BY <1>3
  <2>2. /\ m \in MissionRequest \ {"execute"}
        /\ m \notin Recovery => FirstTarget(m) \in LifecycleState
    BY MissionsAssumption DEF FirstTarget, LifecycleState, MissionRequest
  <2> QED BY <2>1, <2>2 DEF Intervene
<1>4. CASE CreateMission(w)
  <2>1. LegalTo("created", <<"created">>)
    BY DEF LegalTo
  <2>2. /\ mission'.state = "created" /\ LegalTo(mission'.state, mission'.path)
        /\ mission'.state # "absent"
    BY <1>4, <2>1 DEF CreateMission
  <2>3. /\ at'[w] = "look" /\ target'[w] = "planning"
        /\ \A u \in Worker \ {w} : at'[u] = at[u] /\ target'[u] = target[u]
        /\ draft' = draft
    BY <1>4 DEF CreateMission, Change
  <2> QED BY <2>2, <2>3 DEF LifecycleState
<1>5. CASE Look(w)
  <2>1. CASE Finish(w)
    BY <1>5, <2>1 DEF Look, Finish
  <2>2. CASE /\ target[w] \in AllowedTransitions[mission.state]
             /\ draft' = [draft EXCEPT ![w] =
                   [state |-> target[w],
                    path  |-> Append(mission.path, target[w])]]
             /\ Proceed(w, "save")
             /\ UNCHANGED <<asks, target, answer>>
    <3>1. at[w] = "look" /\ UNCHANGED mission
      BY <1>5 DEF Look
    <3>2. /\ target[w] \in LifecycleState
          /\ LegalTo(target[w], Append(mission.path, target[w]))
      BY <2>2, <3>1, DraftLegal
    <3>3. /\ at'[w] = "save" /\ target' = target
          /\ draft'[w].state = target[w]
          /\ draft'[w].path = Append(mission.path, target[w])
          /\ \A u \in Worker \ {w} : at'[u] = at[u] /\ draft'[u] = draft[u]
      BY <2>2
    <3> QED BY <3>1, <3>2, <3>3
  <2> QED BY <1>5, <2>1, <2>2 DEF Look
<1>6. CASE Save(w)
  <2>1. /\ mission' = draft[w] /\ draft[w].state = target[w]
        /\ target[w] \in LifecycleState /\ LegalTo(target[w], draft[w].path)
    BY <1>6 DEF Save
  <2>2. mission'.state # "absent" /\ LegalTo(mission'.state, mission'.path)
    BY <2>1 DEF LifecycleState
  <2>3. CASE Finish(w)
    BY <2>2, <2>3 DEF Finish
  <2>4. CASE /\ UNCHANGED <<asks, target, draft, answer>>
             /\ \E step \in {"consult", "vote", "call", "loop"} :
                  Proceed(w, step)
    BY <2>2, <2>4
  <2> QED BY <1>6, <2>3, <2>4 DEF Save, AfterSave
<1>7. CASE Consult(w)
  BY <1>7 DEF Consult, Change, LifecycleState, mlocal
<1>8. CASE Evidence(w)
  BY <1>8 DEF Evidence, mlocal
<1>9. CASE SpecialistFails(w)
  BY <1>9 DEF SpecialistFails, Finish
<1>10. CASE Vote(w)
  BY <1>10 DEF Vote, Change, LifecycleState
<1>11. CASE RuntimeCall(w)
  <2>1. CASE Finish(w)
    BY <1>11, <2>1 DEF RuntimeCall, Finish
  <2>2. CASE /\ Proceed(w, "loop")
             /\ UNCHANGED <<asks, target, draft>>
    BY <1>11, <2>2 DEF RuntimeCall
  <2>3. CASE UNCHANGED mlocal
    BY <1>11, <2>3 DEF RuntimeCall, mlocal
  <2> QED BY <1>11, <2>1, <2>2, <2>3 DEF RuntimeCall
<1>12. CASE Step(w)
  BY <1>12 DEF Step, Change, LifecycleState
<1>13. CASE Inspect(w)
  BY <1>13 DEF Inspect, LifecycleState
<1>14. CASE Lose(w)
  BY <1>14 DEF Lose, Finish
<1> QED
  BY <1>1, <1>2, <1>3, <1>4, <1>5, <1>6, <1>7, <1>8, <1>9, <1>10, <1>11,
     <1>12, <1>13, <1>14 DEF Serve

LEMMA MissionInvInit == MInit => MissionInv /\ EndsWhenDone /\ CompletionKnown
<1> SUFFICES ASSUME MInit
             PROVE  MissionInv /\ EndsWhenDone /\ CompletionKnown
  OBVIOUS
<1>1. IInv /\ EndsWhenDone
  BY InitIInv DEF MInit
<1>2. NoMission \in Row
  BY DEF NoMission, Row
<1>3. MTypeOK
  BY <1>2 DEF MInit, MTypeOK
<1>4. Recorded
  BY DEF MInit, Recorded, NoMission
<1>5. CompletionKnown
  BY MissionsAssumption DEF MInit, CompletionKnown, NoMission, State
<1> QED BY <1>1, <1>3, <1>4, <1>5 DEF MissionInv

LEMMA MissionInvStep == MissionInv /\ [MNext]_allvars => MissionInv'
<1> SUFFICES ASSUME MissionInv, [MNext]_allvars PROVE MissionInv'
  OBVIOUS
<1>1. CASE MNext
  <2>1. IInv'
    BY <1>1, MissionStepsRuntime, TypeStep, KnowledgeStep
    DEF MissionInv, IInv
  <2>2. MTypeOK' /\ Recorded'
    BY <1>1, MissionTyping, RecordKept DEF MissionInv, IInv
  <2> QED BY <2>1, <2>2 DEF MissionInv
<1>2. CASE UNCHANGED allvars
  <2>1. UNCHANGED vars /\ UNCHANGED mvars
    BY <1>2 DEF allvars
  <2>2. IInv'
    BY <2>1, TypeStep, KnowledgeStep DEF MissionInv, IInv
  <2>3. MTypeOK' /\ Recorded'
    BY <2>1 DEF mvars, mlocal, MissionInv, MTypeOK, Recorded
  <2> QED BY <2>2, <2>3 DEF MissionInv
<1> QED BY <1>1, <1>2

(* However many requests change the mission at once, and whichever of them *)
(* writes last, the record of its transitions is a legal one.              *)
THEOREM MissionRecord == MSpec => []HistoryIsLegal
<1>1. MissionInv => HistoryIsLegal
  BY DEF MissionInv, Recorded, HistoryIsLegal
<1> QED BY MissionInvInit, MissionInvStep, <1>1, PTL DEF MSpec

-----------------------------------------------------------------------------
(* "completed" is only ever the runtime's word, or passed on from it.      *)
LEMMA CompletionStep ==
  ASSUME MissionInv, EndsWhenDone, CompletionKnown, MNext
  PROVE  CompletionKnown'
<1>1. PICK w \in Worker : \/ Execute(w)
                          \/ \E m \in Interventions : Intervene(w, m)
                          \/ Serve(w)
                          \/ Lose(w)
  BY DEF MNext
<1>0. AllRan => AllRan'
  BY MissionStepsRuntime, RanGrows DEF MissionInv, IInv, AllRan
<1>n. None # "completed"
  BY MissionsAssumption DEF State
<1> USE <1>0, <1>n DEF MissionInv, MTypeOK, CompletionKnown, Proceed
<1>2. CASE Execute(w)
  BY <1>2 DEF Execute
<1>3. CASE \E m \in Interventions : Intervene(w, m)
  <2>1. PICK m \in Interventions : Intervene(w, m)
    BY <1>3
  <2>2. FirstTarget(m) # "completed"
    BY DEF FirstTarget
  <2> QED BY <2>1, <2>2 DEF Intervene
<1>4. CASE CreateMission(w)
  BY <1>4 DEF CreateMission, Change
<1>5. CASE Look(w)
  BY <1>5 DEF Look, Finish
<1>6. CASE Save(w)
  <2>1. mission'.state = target[w] /\ at[w] = "save"
    BY <1>6 DEF Save, Recorded
  <2>2. CASE Finish(w)
    BY <2>1, <2>2 DEF Finish
  <2>3. CASE /\ UNCHANGED <<asks, target, draft, answer>>
             /\ \E step \in {"consult", "vote", "call", "loop"} :
                  Proceed(w, step)
    BY <2>1, <2>3
  <2> QED BY <1>6, <2>2, <2>3 DEF Save, AfterSave
<1>7. CASE Consult(w)
  BY <1>7 DEF Consult, Change, mlocal
<1>8. CASE Evidence(w)
  BY <1>8 DEF Evidence, mlocal
<1>9. CASE SpecialistFails(w)
  BY <1>9 DEF SpecialistFails, Finish
<1>10. CASE Vote(w)
  BY <1>10 DEF Vote, Change
<1>11. CASE RuntimeCall(w)
  <2>1. CASE Finish(w)
    BY <1>11, <2>1 DEF RuntimeCall, Finish
  <2>2. CASE /\ Proceed(w, "loop")
             /\ answer' = [answer EXCEPT ![w] = Returned(w)]
             /\ UNCHANGED <<asks, target, draft>>
    <3>1. Returned(w) = "completed" => AllRan
      BY DEF Returned, EndsWhenDone
    <3> QED BY <1>11, <2>2, <3>1 DEF RuntimeCall
  <2>3. CASE UNCHANGED mlocal
    BY <1>11, <2>3 DEF RuntimeCall, mlocal
  <2> QED BY <1>11, <2>1, <2>2, <2>3 DEF RuntimeCall
<1>12. CASE Step(w)
  BY <1>12 DEF Step, Change
<1>13. CASE Inspect(w)
  BY <1>13 DEF Inspect, EndsWhenDone
<1>14. CASE Lose(w)
  BY <1>14 DEF Lose, Finish
<1> QED
  BY <1>1, <1>2, <1>3, <1>4, <1>5, <1>6, <1>7, <1>8, <1>9, <1>10, <1>11,
     <1>12, <1>13, <1>14 DEF Serve

(* A mission whose plan has no cycle is completed only after every node of *)
(* its plan ran, whoever paused, recovered or overwrote it on the way.     *)
THEOREM MissionCompletion ==
  ASSUME Acyclic PROVE MSpec => []CompletedMissionIsDone
<1>1. MissionInv /\ EndsWhenDone /\ CompletionKnown /\ [MNext]_allvars =>
        (MissionInv /\ EndsWhenDone /\ CompletionKnown)'
  <2> SUFFICES ASSUME MissionInv, EndsWhenDone, CompletionKnown,
                      [MNext]_allvars
               PROVE  (MissionInv /\ EndsWhenDone /\ CompletionKnown)'
    OBVIOUS
  <2>1. MissionInv'
    BY MissionInvStep
  <2>2. [AnyStep]_vars
    BY MissionStepsRuntime DEF MissionInv, allvars
  <2>3. EndsWhenDone'
    BY <2>2, EndStep DEF MissionInv
  <2>4. CASE MNext
    BY <2>1, <2>3, <2>4, CompletionStep
  <2>5. CASE UNCHANGED allvars
    BY <2>1, <2>3, <2>5
    DEF allvars, vars, mvars, mlocal, CompletionKnown, AllRan
  <2> QED BY <2>4, <2>5
<1>2. CompletionKnown => CompletedMissionIsDone
  BY DEF CompletionKnown, CompletedMissionIsDone, AllRan
<1> QED BY MissionInvInit, <1>1, <1>2, PTL DEF MSpec

-----------------------------------------------------------------------------
(* What is written of a mission that is not there yet, or by a request     *)
(* that ends, assigns nothing.                                             *)
LEMMA AssignsAppend ==
  ASSUME NEW path \in Seq(LifecycleState), NEW t \in LifecycleState
  PROVE  Assigns(Append(path, t)) <=> Assigns(path) \/ t = "assigned"
<1> DEFINE longer == Append(path, t)
<1>1. /\ Len(path) \in Nat /\ Len(longer) = Len(path) + 1
      /\ longer[Len(path) + 1] = t
      /\ \A i \in 1 .. Len(path) : longer[i] = path[i]
  OBVIOUS
<1> HIDE DEF longer
<1>2. 1 .. Len(longer) = 1 .. Len(path) \cup {Len(path) + 1}
  BY <1>1
<1> QED BY <1>1, <1>2 DEF Assigns, longer

LEMMA SupervisedInit == MInit => Supervised
<1> SUFFICES ASSUME MInit PROVE Supervised
  OBVIOUS
<1>1. None # "execute"
  BY MissionsAssumption DEF MissionRequest
<1>2. ~ Assignment
  BY DEF MInit, Assignment, Assigns, NoMission
<1> QED BY <1>1, <1>2 DEF MInit, Supervised, BeforeAsking, NoMission

(* A request that stops, or goes on without touching the mission's row or  *)
(* its conversation, assigns nothing and asks nobody.                      *)
Quiet(w) ==
  /\ UNCHANGED <<mission, mail>>
  /\ \A u \in Worker \ {w} : /\ at'[u] = at[u] /\ asks'[u] = asks[u]
                             /\ target'[u] = target[u]
                             /\ draft'[u] = draft[u]
  /\ \/ at'[w] \in {"idle", "loop", "inspect", "call"}
     \/ at'[w] = "look" /\ target'[w] \notin {"planning", "assigned"}
  /\ asks'[w] = asks[w] \/ asks'[w] # "execute"

LEMMA SupervisedQuiet ==
  ASSUME Supervised, NEW w \in Worker, Quiet(w)
  PROVE  Supervised'
<1> USE DEF Quiet
<1>1. \A u \in Worker : asks'[u] = "execute" => asks[u] = "execute"
  OBVIOUS
<1>2. ~ BeforeAsking(w)' /\ at'[w] \notin {"create", "consult", "vote"}
  BY DEF BeforeAsking
<1>3. \A u \in Worker \ {w} : BeforeAsking(u)' <=> BeforeAsking(u)
  BY DEF BeforeAsking
<1>4. Assignment' => Assignment
  BY DEF Assignment
<1> QED BY <1>1, <1>2, <1>3, <1>4 DEF Supervised

(* No specialist is asked twice, and none of a mission that is assigned.   *)
LEMMA SupervisedStep ==
  ASSUME TypeOK, MTypeOK, Recorded, Supervised, MNext PROVE Supervised'
<1>1. PICK w \in Worker : \/ Execute(w)
                          \/ \E m \in Interventions : Intervene(w, m)
                          \/ Serve(w)
                          \/ Lose(w)
  BY DEF MNext
<1>n. None # "execute"
  BY MissionsAssumption DEF MissionRequest
<1>q. Quiet(w) => Supervised'
  BY SupervisedQuiet
<1> USE <1>n DEF MTypeOK, Proceed
<1>2. CASE Execute(w)
  <2>1. /\ mission.state = "absent" /\ \A u \in Worker : asks[u] # "execute"
        /\ UNCHANGED <<mission, mail, target, draft>>
        /\ at'[w] = "create" /\ asks'[w] = "execute"
        /\ \A u \in Worker \ {w} : at'[u] = at[u] /\ asks'[u] = asks[u]
    BY <1>2 DEF Execute
  <2>2. mission.path = <<>> /\ \A s \in Specialist : mail[s] = "none"
    BY <2>1 DEF Supervised
  <2>3. \A u \in Worker : at[u] \in {"idle", "create"}
    BY <2>1 DEF Recorded
  <2>4. ~ Assignment'
    BY <2>1, <2>2, <2>3 DEF Assignment, Assigns
  <2>5. \A u \in Worker \ {w} : ~ BeforeAsking(u)'
    BY <2>1, <2>3 DEF Supervised, BeforeAsking
  <2>6. \A u \in Worker : asks'[u] = "execute" => u = w
    BY <2>1
  <2>7. \A u \in Worker \ {w} : at'[u] = "idle"
    BY <2>1, <2>3 DEF Supervised, BeforeAsking
  <2> QED BY <2>1, <2>2, <2>4, <2>5, <2>6, <2>7 DEF Supervised
<1>3. CASE \E m \in Interventions : Intervene(w, m)
  <2>1. PICK m \in Interventions : Intervene(w, m)
    BY <1>3
  <2>2. /\ m # "execute"
        /\ m \notin Recovery =>
             FirstTarget(m) \notin {"planning", "assigned"}
    BY MissionsAssumption DEF FirstTarget, MissionRequest
  <2> QED BY <2>1, <2>2, <1>q DEF Quiet, Intervene
<1>4. CASE CreateMission(w)
  <2>1. /\ at[w] = "create" /\ asks[w] = "execute"
        /\ mission.state = "absent" /\ BeforeAsking(w)
    BY <1>4 DEF CreateMission, Supervised, BeforeAsking
  <2>2. /\ mission'.state = "created" /\ mission'.path = <<"created">>
        /\ at'[w] = "look" /\ target'[w] = "planning"
        /\ UNCHANGED <<mail, asks, draft>>
        /\ \A u \in Worker \ {w} : at'[u] = at[u] /\ target'[u] = target[u]
    BY <1>4 DEF CreateMission, Change
  <2>3. \A u \in Worker : at[u] \in {"idle", "create"}
    BY <2>1 DEF Recorded
  <2>4. \A u \in Worker \ {w} : at[u] = "idle"
    BY <2>1, <2>3 DEF Supervised, BeforeAsking
  <2>5. ~ Assignment'
    BY <2>2, <2>4 DEF Assignment, Assigns
  <2>6. \A u \in Worker \ {w} : ~ BeforeAsking(u)'
    BY <2>2, <2>4 DEF BeforeAsking
  <2>7. \A s \in Specialist : mail'[s] = "none"
    BY <2>1, <2>2 DEF Supervised
  <2> QED BY <2>1, <2>2, <2>4, <2>5, <2>6, <2>7 DEF Supervised
<1>5. CASE Look(w)
  <2>1. CASE Finish(w)
    BY <1>5, <2>1, <1>q DEF Quiet, Look, Finish
  <2>2. CASE /\ target[w] \in AllowedTransitions[mission.state]
             /\ draft' = [draft EXCEPT ![w] =
                   [state |-> target[w],
                    path  |-> Append(mission.path, target[w])]]
             /\ Proceed(w, "save")
             /\ UNCHANGED <<asks, target, answer>>
    <3>1. /\ at[w] = "look" /\ at'[w] = "save"
          /\ UNCHANGED <<mission, mail, asks, target>>
          /\ draft'[w].path = Append(mission.path, target[w])
          /\ \A u \in Worker \ {w} : at'[u] = at[u] /\ draft'[u] = draft[u]
      BY <1>5, <2>2 DEF Look
    <3>2. mission.path \in Seq(LifecycleState) /\ target[w] \in LifecycleState
      BY <3>1 DEF Row, Recorded
    <3>3. Assigns(draft'[w].path) <=>
            Assigns(mission.path) \/ target[w] = "assigned"
      BY <3>1, <3>2, AssignsAppend
    <3>4. Assignment' => Assignment
      BY <3>1, <3>3 DEF Assignment
    <3>5. \A u \in Worker : BeforeAsking(u)' <=> BeforeAsking(u)
      BY <3>1 DEF BeforeAsking
    <3> QED BY <3>1, <3>4, <3>5 DEF Supervised
  <2> QED BY <1>5, <2>1, <2>2 DEF Look
<1>6. CASE Save(w)
  <2>1. /\ at[w] = "save" /\ mission' = draft[w] /\ mail' = mail
        /\ mission'.state # "absent" /\ mission.state # "absent"
    BY <1>6 DEF Save, Recorded, LifecycleState
  <2>2. \A u \in Worker \ {w} : /\ at'[u] = at[u] /\ asks'[u] = asks[u]
                                /\ target'[u] = target[u]
                                /\ draft'[u] = draft[u]
    BY <1>6 DEF Save, AfterSave, Finish
  <2>3. \A u \in Worker \ {w} : BeforeAsking(u)' <=> BeforeAsking(u)
    BY <2>2 DEF BeforeAsking
  <2>4. at'[w] \notin {"look", "save", "create"} /\ ~ BeforeAsking(w)'
    BY <1>6 DEF Save, AfterSave, Finish, BeforeAsking
  <2>5. Assignment' => Assignment
    BY <2>1, <2>2, <2>4 DEF Assignment
  <2>6. asks'[w] = "execute" => asks[w] = "execute"
    BY <1>6 DEF Save, AfterSave, Finish
  <2>7. at'[w] = "consult" => BeforeAsking(w) /\ asks'[w] = "execute"
    BY <1>6, <2>1 DEF Save, AfterSave, Finish, BeforeAsking
  <2>8. at'[w] = "vote" => asks'[w] = "execute"
    BY <1>6 DEF Save, AfterSave, Finish
  <2>9. \A u \in Worker : at[u] # "create"
    BY <2>1 DEF Supervised
  <2> QED
    BY <2>1, <2>2, <2>3, <2>4, <2>5, <2>6, <2>7, <2>8, <2>9 DEF Supervised
<1>7. CASE Consult(w)
  <2>1. /\ at[w] = "consult" /\ asks[w] = "execute" /\ mission' = mission
        /\ ~ Assignment /\ mission.state # "absent"
        /\ \A s \in Specialist : mail[s] # "failure"
    BY <1>7 DEF Consult, Supervised, Recorded
  <2>2. \A u \in Worker \ {w} :
          ~ BeforeAsking(u) /\ at[u] \notin {"consult", "vote"}
    BY <2>1 DEF Supervised
  <2>3. ASSUME NEW s \in Specialist, mail[s] = "none",
               mail' = [mail EXCEPT ![s] = "request"], UNCHANGED mlocal
        PROVE  Supervised'
    <3>1. \A r \in Specialist : mail'[r] # "failure"
      BY <2>1, <2>3
    <3>2. UNCHANGED <<mission, at, asks, target, draft>>
      BY <2>1, <2>3 DEF mlocal
    <3>3. ~ Assignment' /\ \A u \in Worker : ~ BeforeAsking(u)'
      BY <2>1, <2>2, <3>2 DEF Assignment, BeforeAsking
    <3>4. \A u \in Worker : at'[u] \in {"consult", "vote", "create"} => u = w
      BY <2>2, <3>2 DEF BeforeAsking
    <3> QED BY <2>1, <3>1, <3>2, <3>3, <3>4 DEF Supervised
  <2>4. CASE /\ \A s \in Specialist : mail[s] # "none"
             /\ Change(w, "assigned") /\ UNCHANGED mail
    <3>1. \A s \in Specialist : mail[s] = "evidence"
      BY <1>7, <2>1, <2>4 DEF Consult, Waiting
    <3>2. /\ at'[w] = "look" /\ target'[w] = "assigned"
          /\ UNCHANGED <<asks, draft, mail>>
          /\ \A u \in Worker \ {w} : at'[u] = at[u] /\ target'[u] = target[u]
      BY <2>4 DEF Change
    <3>3. \A u \in Worker :
            ~ BeforeAsking(u)' /\ at'[u] \notin {"create", "consult", "vote"}
      BY <2>2, <3>2 DEF BeforeAsking
    <3> QED BY <2>1, <3>1, <3>2, <3>3 DEF Supervised
  <2> QED BY <1>7, <2>3, <2>4 DEF Consult
<1>8. CASE Evidence(w) \/ SpecialistFails(w)
  <2>1. /\ at[w] = "consult" /\ asks[w] = "execute" /\ mission' = mission
        /\ ~ Assignment /\ mission.state # "absent"
        /\ \A s \in Specialist : mail[s] # "failure"
    BY <1>8 DEF Evidence, SpecialistFails, Supervised, Recorded
  <2>2. \A u \in Worker \ {w} :
          ~ BeforeAsking(u) /\ at[u] \notin {"create", "consult", "vote"}
    BY <2>1 DEF Supervised, BeforeAsking
  <2>3. CASE Evidence(w)
    <3>1. PICK s \in Specialist : mail' = [mail EXCEPT ![s] = "evidence"]
      BY <2>3 DEF Evidence, Waiting
    <3>2. UNCHANGED <<at, asks, target, draft>>
      BY <2>3 DEF Evidence, mlocal
    <3>3. \A r \in Specialist : mail'[r] # "failure"
      BY <2>1, <3>1
    <3>4. ~ Assignment' /\ \A u \in Worker : ~ BeforeAsking(u)'
      BY <2>1, <2>2, <3>2 DEF Assignment, BeforeAsking
    <3> QED BY <2>1, <2>2, <3>2, <3>3, <3>4 DEF Supervised
  <2>4. CASE SpecialistFails(w)
    <3>1. /\ at'[w] = "idle" /\ asks'[w] # "execute"
          /\ \A u \in Worker \ {w} : /\ at'[u] = at[u] /\ asks'[u] = asks[u]
                                     /\ target'[u] = target[u]
                                     /\ draft'[u] = draft[u]
      BY <2>4 DEF SpecialistFails, Finish
    <3>2. ~ Assignment' /\ \A u \in Worker : ~ BeforeAsking(u)'
      BY <2>1, <2>2, <3>1 DEF Assignment, BeforeAsking
    <3> QED BY <2>1, <2>2, <3>1, <3>2 DEF Supervised
  <2> QED BY <1>8, <2>3, <2>4
<1>9. CASE Vote(w)
  <2>1. PICK to \in {"executing", "failed"} : Change(w, to)
    BY <1>9 DEF Vote
  <2> QED BY <1>9, <2>1, <1>q DEF Quiet, Vote, Change
<1>10. CASE RuntimeCall(w)
  <2>1. CASE Finish(w)
    BY <1>10, <2>1, <1>q DEF Quiet, RuntimeCall, Finish
  <2>2. CASE /\ Proceed(w, "loop")
             /\ UNCHANGED <<asks, target, draft>>
    BY <1>10, <2>2, <1>q DEF Quiet, RuntimeCall
  <2>3. CASE UNCHANGED mlocal
    BY <1>10, <2>3, <1>q DEF Quiet, RuntimeCall, mlocal
  <2> QED BY <1>10, <2>1, <2>2, <2>3 DEF RuntimeCall
<1>11. CASE Step(w)
  <2>1. CASE Proceed(w, "call") /\ UNCHANGED <<asks, target, draft, answer>>
    BY <1>11, <2>1, <1>q DEF Quiet, Step
  <2>2. CASE \E to \in {"completed", "failed"} : Change(w, to)
    BY <1>11, <2>2, <1>q DEF Quiet, Step, Change
  <2> QED BY <1>11, <2>1, <2>2 DEF Step
<1>12. CASE Inspect(w)
  BY <1>12, <1>q DEF Quiet, Inspect
<1>13. CASE Lose(w)
  BY <1>13, <1>q DEF Quiet, Lose, Finish
<1> QED
  BY <1>1, <1>2, <1>3, <1>4, <1>5, <1>6, <1>7, <1>8, <1>9, <1>10, <1>11,
     <1>12, <1>13 DEF Serve

(* No mission is assigned before each of its specialists was heard, and    *)
(* none is asked again after it.                                           *)
THEOREM MissionHearing == MSpec => []EverySpecialistHeard
<1>1. MissionInv /\ Supervised /\ [MNext]_allvars =>
        (MissionInv /\ Supervised)'
  <2> SUFFICES ASSUME MissionInv, Supervised, [MNext]_allvars
               PROVE  (MissionInv /\ Supervised)'
    OBVIOUS
  <2>1. CASE MNext
    BY <2>1, MissionInvStep, SupervisedStep DEF MissionInv, IInv
  <2>2. CASE UNCHANGED allvars
    BY <2>2, MissionInvStep
    DEF allvars, mvars, mlocal, Supervised, BeforeAsking, Assignment
  <2> QED BY <2>1, <2>2
<1>2. Supervised => EverySpecialistHeard
  BY DEF Supervised, Assignment, Assigns, EverySpecialistHeard
<1> QED BY MissionInvInit, SupervisedInit, <1>1, <1>2, PTL DEF MSpec

-----------------------------------------------------------------------------
(* What is true of a mission nobody interferes with.                       *)

Started == execution # "absent" /\ checkpoint.state # "absent"
Unstarted == checkpoint.state = "absent"

(* An answer that ends the plan says what the checkpoint says.             *)
Tells(state) ==
  state \in Over => (state = "completed" <=> checkpoint.state = "completed")

(* The supervisor's call of the runtime: what is in its hand is what the   *)
(* checkpoint will say.                                                    *)
Stepping(w) ==
  /\ op[w] = "step"
  /\ pc[w] \in {"read", "load", "complete_execution", "complete_checkpoint"}
                 \cup OnNode
  /\ pc[w] \in {"complete_execution", "complete_checkpoint"} =>
       held[w].state = "completed"
  /\ pc[w] \in {"set_running", "run"} => held[w].state = "running"
  /\ pc[w] = "save_progress" => held[w].state = "ready"
  /\ pc[w] = "block_checkpoint" => held[w].state = "blocked"
  /\ pc[w] = "block_execution" => checkpoint.state = "blocked"
  /\ pc[w] = "fail_checkpoint" => held[w].state = "failed"
  /\ pc[w] = "fail_execution" => checkpoint.state = "failed"
Called(w) ==
  \/ pc[w] = "start_execution" /\ Unstarted
  \/ pc[w] = "start_checkpoint" /\ Unstarted /\ execution # "absent"
  \/ Started /\ Stepping(w)

Changing(w, from, to) ==
  at[w] \in {"look", "save"} /\ target[w] = to /\ mission.state = from

(* How far execute_mission is, and what the mission's row says there.      *)
Preparing(w) ==
  \/ at[w] = "create" /\ mission.state = "absent"
  \/ Changing(w, "created", "planning")
  \/ at[w] = "consult" /\ mission.state = "planning"
  \/ Changing(w, "planning", "assigned")
  \/ at[w] = "vote" /\ mission.state = "assigned"
  \/ Changing(w, "assigned", "executing")
  \/ Changing(w, "assigned", "failed")
Stage(w) ==
  \/ Preparing(w) /\ Unstarted
  \/ at[w] = "call" /\ mission.state = "executing" /\ Called(w)
  \/ at[w] = "loop" /\ mission.state = "executing" /\ Started
       /\ Tells(answer[w])
  \/ Changing(w, "executing", "completed") /\ checkpoint.state = "completed"
  \/ Changing(w, "executing", "failed") /\ checkpoint.state # "completed"

Settled ==
  mission.state =
    IF checkpoint.state = "completed" THEN "completed" ELSE "failed"
Alone ==
  /\ \A w \in Worker : at[w] # "idle" => asks[w] = "execute" /\ Stage(w)
  /\ \A w \in Worker : pc[w] # "idle" => at[w] = "call"
  /\ mission.state = "absent" => Unstarted
  /\ mission.state # "absent" /\ (\A w \in Worker : at[w] = "idle") => Settled

(* A step's record of what it will write stays true from call to call, and *)
(* the end of one tells the supervisor what the checkpoint then says.      *)
LEMMA CallStep ==
  ASSUME TypeOK, NEW w \in Worker, Work(w), Called(w)
  PROVE  /\ pc'[w] # "idle" => Called(w)'
         /\ pc'[w] = "idle" =>
              /\ ~Raises(w) /\ Started'
              /\ Returned(w) \in Over =>
                   (Returned(w) = "completed" <=>
                      checkpoint'.state = "completed")
         /\ \A u \in Worker \ {w} : pc'[u] = pc[u]
<1> USE DEF Started, Unstarted
<1>1. CASE pc[w] = "start_execution" /\ Unstarted
  <2>1. StartExecution(w)
    BY <1>1 DEF Work, StartExecution, StartCheckpoint, ReadExecution,
       SetExecution, LoadForState, SetCheckpoint, LoadForStep,
       CompleteExecution, CompleteCheckpoint, SetRunning, BlockCheckpoint,
       BlockExecution, RunNode, ToolFails, SaveProgress, FailCheckpoint,
       FailExecution
  <2> QED BY <1>1, <2>1 DEF StartExecution, Goto, Called, TypeOK
<1>2. CASE pc[w] = "start_checkpoint" /\ Unstarted /\ execution # "absent"
  <2>1. StartCheckpoint(w)
    BY <1>2 DEF Work, StartExecution, StartCheckpoint, ReadExecution,
       SetExecution, LoadForState, SetCheckpoint, LoadForStep,
       CompleteExecution, CompleteCheckpoint, SetRunning, BlockCheckpoint,
       BlockExecution, RunNode, ToolFails, SaveProgress, FailCheckpoint,
       FailExecution
  <2>2. /\ pc'[w] = "idle" /\ \A u \in Worker \ {w} : pc'[u] = pc[u]
        /\ checkpoint'.state = "ready" /\ execution' # "absent"
    BY <1>2, <2>1 DEF StartCheckpoint, Return, Goto, TypeOK
  <2>3. ~Raises(w) /\ Returned(w) = "ready"
    BY <1>2, <2>2 DEF Raises, Returned
  <2> QED BY <2>2, <2>3 DEF Over
<1>3. CASE Started /\ Stepping(w)
  <2> USE <1>3 DEF Stepping, OnNode
  <2>1. CASE ReadExecution(w)
    <3>1. /\ pc'[w] = "load" /\ UNCHANGED <<execution, checkpoint, op, held>>
          /\ \A u \in Worker \ {w} : pc'[u] = pc[u]
      BY <2>1 DEF ReadExecution, Goto, TypeOK, rows, local
    <3> QED BY <3>1 DEF Called
  <2>2. CASE LoadForStep(w)
    <3>1. /\ pc[w] = "load" /\ UNCHANGED <<execution, checkpoint>>
          /\ \A u \in Worker \ {w} : pc'[u] = pc[u]
      BY <2>2 DEF LoadForStep, Return, Goto, TypeOK, rows
    <3>2. CASE checkpoint.state \in Terminal /\ Return(w)
      <4>1. pc'[w] = "idle" /\ ~Raises(w) /\ Returned(w) = checkpoint.state
        BY <3>1, <3>2 DEF Raises, Returned, Return, Goto, TypeOK
      <4> QED BY <3>1, <4>1
    <3>3. CASE /\ pc'[w] = "complete_execution" /\ op'[w] = "step"
               /\ held'[w].state = "completed"
      BY <3>1, <3>3 DEF Called
    <3>4. CASE /\ pc'[w] = "set_running" /\ op'[w] = "step"
               /\ held'[w].state = "running"
      BY <3>1, <3>4 DEF Called
    <3> QED
      BY <2>2, <3>2, <3>3, <3>4
         DEF LoadForStep, Hold, Goto, TypeOK, Checkpoint
  <2>3. CASE CompleteExecution(w)
    <3>1. /\ pc[w] = "complete_execution" /\ pc'[w] = "complete_checkpoint"
          /\ execution' = "completed" /\ UNCHANGED <<checkpoint, op, held>>
          /\ \A u \in Worker \ {w} : pc'[u] = pc[u]
      BY <2>3 DEF CompleteExecution, Goto, TypeOK, local
    <3> QED BY <3>1 DEF Called
  <2>4. CASE SetRunning(w)
    <3>1. /\ pc[w] = "set_running" /\ checkpoint' = held[w]
          /\ \A u \in Worker \ {w} : pc'[u] = pc[u]
          /\ UNCHANGED <<execution, op>>
      BY <2>4 DEF SetRunning, Goto, TypeOK
    <3>2. \/ pc'[w] = "run" /\ held'[w].state = "running"
          \/ pc'[w] = "block_checkpoint" /\ held'[w].state = "blocked"
      BY <2>4 DEF SetRunning, Goto, Hold, TypeOK, Checkpoint
    <3> QED BY <3>1, <3>2 DEF Called
  <2>5. CASE BlockCheckpoint(w) \/ FailCheckpoint(w)
    <3>1. /\ checkpoint' = held[w] /\ UNCHANGED <<execution, op, held>>
          /\ \/ pc[w] = "block_checkpoint" /\ pc'[w] = "block_execution"
             \/ pc[w] = "fail_checkpoint" /\ pc'[w] = "fail_execution"
          /\ \A u \in Worker \ {w} : pc'[u] = pc[u]
      BY <2>5 DEF BlockCheckpoint, FailCheckpoint, Goto, TypeOK, local
    <3> QED BY <3>1 DEF Called
  <2>6. CASE RunNode(w)
    <3>1. /\ pc[w] = "run" /\ pc'[w] = "save_progress"
          /\ held'[w].state = "ready" /\ UNCHANGED <<rows, op>>
          /\ \A u \in Worker \ {w} : pc'[u] = pc[u]
      BY <2>6 DEF RunNode, Goto, Hold, TypeOK
    <3> QED BY <3>1 DEF Called, rows
  <2>7. CASE ToolFails(w)
    <3>1. /\ pc[w] = "run" /\ UNCHANGED <<rows, op>>
          /\ \/ pc'[w] = "run" /\ held' = held
             \/ pc'[w] = "fail_checkpoint" /\ held'[w].state = "failed"
          /\ \A u \in Worker \ {w} : pc'[u] = pc[u]
      BY <2>7 DEF ToolFails, Goto, Hold, TypeOK, Checkpoint
    <3> QED BY <3>1 DEF Called, rows
  <2>8. CASE CompleteCheckpoint(w) \/ SaveProgress(w)
    <3>1. /\ checkpoint' = held[w] /\ pc'[w] = "idle"
          /\ UNCHANGED execution
          /\ pc[w] \in {"complete_checkpoint", "save_progress"}
          /\ \A u \in Worker \ {w} : pc'[u] = pc[u]
      BY <2>8 DEF CompleteCheckpoint, SaveProgress, Return, Goto, TypeOK
    <3>2. ~Raises(w)
      BY <3>1 DEF Raises
    <3>3. Returned(w) = IF pc[w] = "complete_checkpoint" THEN "completed"
                        ELSE "ready"
      BY <3>1 DEF Returned
    <3> QED BY <3>1, <3>2, <3>3 DEF Over
  <2>9. CASE BlockExecution(w) \/ FailExecution(w)
    <3>1. /\ execution' # "absent" /\ pc'[w] = "idle"
          /\ UNCHANGED checkpoint
          /\ pc[w] \in {"block_execution", "fail_execution"}
          /\ \A u \in Worker \ {w} : pc'[u] = pc[u]
      BY <2>9 DEF BlockExecution, FailExecution, Return, Goto, TypeOK
    <3>2. ~Raises(w)
      BY <3>1 DEF Raises
    <3>3. Returned(w) = IF pc[w] = "block_execution" THEN "blocked"
                        ELSE "failed"
      BY <3>1 DEF Returned
    <3> QED BY <3>1, <3>2, <3>3
  <2>10. \/ ReadExecution(w) \/ LoadForStep(w) \/ CompleteExecution(w)
         \/ SetRunning(w) \/ BlockCheckpoint(w) \/ FailCheckpoint(w)
         \/ RunNode(w) \/ ToolFails(w) \/ CompleteCheckpoint(w)
         \/ SaveProgress(w) \/ BlockExecution(w) \/ FailExecution(w)
    BY DEF Work, StartExecution, StartCheckpoint, SetExecution, LoadForState,
           SetCheckpoint
  <2> QED
    BY <2>1, <2>2, <2>3, <2>4, <2>5, <2>6, <2>7, <2>8, <2>9, <2>10
<1> QED BY <1>1, <1>2, <1>3 DEF Called

(* Only one request is served.                                             *)
LEMMA OnlyOne ==
  ASSUME Supervised, Alone, NEW w \in Worker, at[w] # "idle",
         NEW u \in Worker \ {w}
  PROVE  at[u] = "idle" /\ pc[u] = "idle"
BY DEF Supervised, Alone

LEMMA AloneKept ==
  ASSUME NEW w \in Worker,
         \A u \in Worker \ {w} : at'[u] = "idle" /\ pc'[u] = "idle",
         at'[w] # "idle" => asks'[w] = "execute" /\ Stage(w)',
         pc'[w] # "idle" => at'[w] = "call",
         mission'.state = "absent" => Unstarted',
         mission'.state # "absent" /\ at'[w] = "idle" => Settled'
  PROVE  Alone'
BY DEF Alone

(* A step of the supervisor's request leaves the others where they are.    *)
LEMMA AloneStep ==
  ASSUME MissionInv, Supervised, Alone, MNext, ~disturbed' PROVE Alone'
<1>1. PICK w \in Worker : \/ Execute(w)
                          \/ \E m \in Interventions : Intervene(w, m)
                          \/ Serve(w)
                          \/ Lose(w)
  BY DEF MNext
<1>2. TypeOK /\ MTypeOK /\ Recorded
  BY DEF MissionInv, IInv
<1>3. CASE Execute(w)
  <2>1. /\ mission.state = "absent" /\ \A u \in Worker : asks[u] # "execute"
        /\ at'[w] = "create" /\ asks'[w] = "execute"
        /\ \A u \in Worker \ {w} : at'[u] = at[u]
        /\ UNCHANGED <<mission, pc, checkpoint>>
    BY <1>2, <1>3 DEF Execute, Proceed, MTypeOK, vars
  <2>2. /\ \A u \in Worker : at[u] = "idle" /\ pc[u] = "idle"
        /\ checkpoint.state = "absent"
    BY <2>1 DEF Alone, Unstarted
  <2> QED
    BY <2>1, <2>2, AloneKept DEF Stage, Preparing, Unstarted
<1>4. CASE (\E m \in Interventions : Intervene(w, m)) \/ Lose(w)
  BY <1>4 DEF Intervene, Lose
<1>5. CASE Serve(w)
  <2>1. at[w] # "idle" /\ ~SpecialistFails(w)
    BY <1>5 DEF Serve, CreateMission, Look, Save, Consult, Evidence,
       SpecialistFails, Vote, RuntimeCall, Step, Inspect
  <2>2. /\ \A u \in Worker \ {w} : at[u] = "idle" /\ pc[u] = "idle"
        /\ asks[w] = "execute" /\ Stage(w)
        /\ pc[w] # "idle" => at[w] = "call"
    BY <2>1, OnlyOne DEF Alone
  <2> USE DEF Unstarted, Changing
  <2>3. CASE CreateMission(w)
    <3>1. /\ at[w] = "create" /\ at'[w] = "look" /\ target'[w] = "planning"
          /\ mission'.state = "created" /\ asks'[w] = "execute"
          /\ \A u \in Worker \ {w} : at'[u] = at[u]
          /\ UNCHANGED <<pc, checkpoint>>
      BY <1>2, <2>2, <2>3 DEF CreateMission, Change, Proceed, MTypeOK, vars,
                              rows
    <3>2. checkpoint.state = "absent"
      BY <2>2, <3>1 DEF Stage, Preparing
    <3> QED
      BY <2>2, <3>1, <3>2, AloneKept DEF Stage, Preparing
  <2>4. CASE Look(w)
    <3>1. /\ at[w] = "look" /\ UNCHANGED <<mission, pc, checkpoint>>
          /\ target[w] \in AllowedTransitions[mission.state]
      <4>1. at[w] = "look" /\ UNCHANGED <<mission, pc, checkpoint>>
        BY <2>4 DEF Look, vars, rows
      <4>2. \/ mission.state = "created" /\ target[w] = "planning"
            \/ mission.state = "planning" /\ target[w] = "assigned"
            \/ mission.state = "assigned" /\
                 target[w] \in {"executing", "failed"}
            \/ mission.state = "executing" /\
                 target[w] \in {"completed", "failed"}
        BY <2>2, <4>1 DEF Stage, Preparing
      <4> QED BY <4>1, <4>2 DEF AllowedTransitions, LifecycleState
    <3>2. /\ at'[w] = "save" /\ target' = target /\ asks' = asks
          /\ \A u \in Worker \ {w} : at'[u] = at[u]
      BY <1>2, <2>4, <3>1 DEF Look, Proceed, MTypeOK
    <3>3. Stage(w)'
      BY <2>2, <3>1, <3>2 DEF Stage, Preparing
    <3> QED
      BY <2>2, <3>1, <3>2, <3>3, AloneKept DEF Alone
  <2>5. CASE Save(w)
    <3>1. /\ at[w] = "save" /\ mission'.state = target[w]
          /\ AfterSave(w) /\ target[w] \in LifecycleState
      BY <1>2, <2>5 DEF Save, Recorded
    <3>2. CASE target[w] \in {"planning", "assigned"}
      <4>1. /\ at'[w] = IF target[w] = "planning" THEN "consult" ELSE "vote"
            /\ \A u \in Worker \ {w} : at'[u] = at[u]
            /\ UNCHANGED <<pc, checkpoint, asks>>
        BY <1>2, <2>2, <3>1, <3>2 DEF AfterSave, Proceed, MTypeOK, vars, rows,
           Driver, Recovery
      <4>2. checkpoint.state = "absent"
        BY <2>2, <3>1, <3>2 DEF Stage, Preparing
      <4> QED
        BY <2>2, <3>1, <3>2, <4>1, <4>2, AloneKept DEF Stage, Preparing
    <3>3. CASE target[w] = "executing"
      <4>1. /\ at'[w] = "call" /\ Request(w, "start", "owner")
            /\ \A u \in Worker \ {w} : at'[u] = at[u]
            /\ asks' = asks
        BY <1>2, <2>2, <3>1, <3>3 DEF AfterSave, Proceed, MTypeOK, Driver,
           Recovery
      <4>2. /\ pc'[w] = "start_execution" /\ UNCHANGED checkpoint
            /\ \A u \in Worker \ {w} : pc'[u] = pc[u]
        BY <1>2, <4>1 DEF Request, Goto, TypeOK, rows
      <4>3. checkpoint.state = "absent"
        BY <2>2, <3>1, <3>3 DEF Stage, Preparing
      <4> QED
        BY <2>2, <3>1, <3>3, <4>1, <4>2, <4>3, AloneKept DEF Stage, Called
    <3>4. CASE target[w] \in {"completed", "failed"}
      <4>1. /\ at'[w] = "idle" /\ UNCHANGED <<pc, checkpoint>>
            /\ \A u \in Worker \ {w} : at'[u] = at[u]
        BY <1>2, <2>2, <3>1, <3>4 DEF AfterSave, Finish, Proceed, MTypeOK,
           vars, rows
      <4>2. target[w] = "completed" <=> checkpoint.state = "completed"
        BY <2>2, <3>1, <3>4 DEF Stage, Preparing
      <4> QED
        BY <2>2, <3>1, <3>4, <4>1, <4>2, AloneKept DEF Settled
    <3>5. target[w] \in {"planning", "assigned", "executing", "completed",
                         "failed"}
      BY <2>2, <3>1 DEF Stage, Preparing
    <3> QED BY <3>2, <3>3, <3>4, <3>5
  <2>6. CASE Consult(w) \/ Evidence(w)
    <3>1. /\ at[w] = "consult" /\ UNCHANGED <<mission, pc, checkpoint, asks>>
          /\ \/ at'[w] = "consult"
             \/ at'[w] = "look" /\ target'[w] = "assigned"
          /\ \A u \in Worker \ {w} : at'[u] = at[u]
      BY <1>2, <2>6 DEF Consult, Evidence, Change, Proceed, MTypeOK, vars,
                        rows, mlocal
    <3>2. mission.state = "planning" /\ checkpoint.state = "absent"
      BY <2>2, <3>1 DEF Stage, Preparing
    <3> QED
      BY <2>2, <3>1, <3>2, AloneKept DEF Stage, Preparing
  <2>7. CASE Vote(w)
    <3>1. /\ at[w] = "vote" /\ UNCHANGED <<mission, pc, checkpoint, asks>>
          /\ at'[w] = "look" /\ target'[w] \in {"executing", "failed"}
          /\ \A u \in Worker \ {w} : at'[u] = at[u]
      BY <1>2, <2>7 DEF Vote, Change, Proceed, MTypeOK, vars, rows
    <3>2. mission.state = "assigned" /\ checkpoint.state = "absent"
      BY <2>2, <3>1 DEF Stage, Preparing
    <3> QED
      BY <2>2, <3>1, <3>2, AloneKept DEF Stage, Preparing
  <2>8. CASE RuntimeCall(w)
    <3>1. at[w] = "call" /\ Work(w) /\ UNCHANGED mission
      BY <2>8 DEF RuntimeCall
    <3>2. Called(w) /\ mission.state = "executing"
      BY <2>2, <3>1 DEF Stage, Preparing
    <3>3. /\ pc'[w] # "idle" => Called(w)'
          /\ pc'[w] = "idle" =>
               /\ ~Raises(w) /\ Started'
               /\ Returned(w) \in Over =>
                    (Returned(w) = "completed" <=>
                       checkpoint'.state = "completed")
          /\ \A u \in Worker \ {w} : pc'[u] = pc[u]
      BY <1>2, <3>1, <3>2, CallStep
    <3>4. CASE pc'[w] # "idle"
      <4>1. UNCHANGED mlocal
        BY <2>8, <3>4 DEF RuntimeCall
      <4>2. UNCHANGED <<at, asks>>
        BY <4>1 DEF mlocal
      <4> QED
        BY <2>2, <3>1, <3>2, <3>3, <3>4, <4>2, AloneKept DEF Stage
    <3>5. CASE pc'[w] = "idle"
      <4>1. /\ Proceed(w, "loop")
            /\ answer' = [answer EXCEPT ![w] = Returned(w)]
            /\ asks' = asks
        BY <2>2, <2>8, <3>3, <3>5 DEF RuntimeCall, Driver
      <4>2. /\ at'[w] = "loop" /\ answer'[w] = Returned(w)
            /\ \A u \in Worker \ {w} : at'[u] = at[u]
        BY <1>2, <4>1 DEF Proceed, MTypeOK
      <4>3. Stage(w)'
        BY <3>1, <3>2, <3>3, <3>5, <4>2 DEF Stage, Tells
      <4> QED
        BY <2>2, <3>1, <3>2, <3>3, <3>5, <4>1, <4>2, <4>3, AloneKept
    <3> QED BY <3>4, <3>5
  <2>9. CASE Step(w)
    <3>1. /\ at[w] = "loop" /\ UNCHANGED <<mission, checkpoint, execution>>
          /\ asks' = asks
      BY <2>9 DEF Step, Request, Change, vars, rows
    <3>2. mission.state = "executing" /\ Started /\ Tells(answer[w])
      BY <2>2, <3>1 DEF Stage, Preparing
    <3>3. CASE answer[w] \notin Over
      <4>1. Request(w, "step", Who(w)) /\ Proceed(w, "call")
        BY <2>9, <3>3 DEF Step
      <4>2. /\ pc'[w] = "read" /\ op'[w] = "step" /\ at'[w] = "call"
            /\ \A u \in Worker \ {w} : pc'[u] = pc[u] /\ at'[u] = at[u]
        BY <1>2, <4>1 DEF Request, Goto, Proceed, TypeOK, MTypeOK
      <4>3. Called(w)'
        BY <3>1, <3>2, <4>2 DEF Called, Started, Stepping
      <4> QED
        BY <2>2, <3>1, <3>2, <4>2, <4>3, AloneKept DEF Stage
    <3>4. CASE answer[w] \in Over
      <4>1. /\ Change(w, IF answer[w] = "completed" THEN "completed"
                         ELSE "failed")
            /\ UNCHANGED vars
        BY <2>9, <3>4 DEF Step
      <4>2. /\ at'[w] = "look" /\ UNCHANGED pc
            /\ target'[w] = IF answer[w] = "completed" THEN "completed"
                            ELSE "failed"
            /\ \A u \in Worker \ {w} : at'[u] = at[u]
        BY <1>2, <4>1 DEF Change, Proceed, MTypeOK, vars
      <4>3. Stage(w)'
        BY <3>1, <3>2, <3>4, <4>2 DEF Stage, Tells
      <4> QED
        BY <2>2, <3>1, <3>2, <4>2, <4>3, AloneKept
    <3> QED BY <3>3, <3>4
  <2>10. ~Inspect(w)
    BY <2>2 DEF Inspect, Stage, Preparing
  <2> QED
    BY <1>5, <2>1, <2>3, <2>4, <2>5, <2>6, <2>7, <2>8, <2>9, <2>10 DEF Serve
<1> QED BY <1>1, <1>3, <1>4, <1>5

(* A mission nobody interferes with, all of whose calls are served, ends   *)
(* as its plan does: execute_mission leaves it in no state on the way.     *)
THEOREM MissionSettles == MSpec => []SettlesUndisturbed
<1> DEFINE Inv == MissionInv /\ Supervised /\ (~disturbed => Alone)
<1>1. MInit => Alone
  <2> SUFFICES ASSUME MInit PROVE Alone
    OBVIOUS
  <2>1. /\ \A w \in Worker : at[w] = "idle" /\ pc[w] = "idle"
        /\ mission.state = "absent" /\ checkpoint.state = "absent"
    BY DEF MInit, Init, NoMission, NoCheckpoint
  <2> QED BY <2>1 DEF Alone, Unstarted
<1>2. Inv /\ [MNext]_allvars => Inv'
  <2> SUFFICES ASSUME Inv, [MNext]_allvars PROVE Inv'
    OBVIOUS
  <2>1. CASE MNext
    <3>1. ~disturbed' => ~disturbed
      <4>1. PICK w \in Worker : \/ Execute(w)
                                \/ \E m \in Interventions : Intervene(w, m)
                                \/ Serve(w)
                                \/ Lose(w)
        BY <2>1 DEF MNext
      <4> QED
        BY <4>1 DEF Execute, Intervene, Lose, Serve, CreateMission, Look,
           Save, Consult, Evidence, SpecialistFails, Vote, RuntimeCall, Step,
           Inspect
    <3> QED
      BY <2>1, <3>1, MissionInvStep, SupervisedStep, AloneStep
         DEF MissionInv, IInv
  <2>2. CASE UNCHANGED allvars
    <3>1. UNCHANGED <<execution, checkpoint, pc, op, held, mission, disturbed,
                      at, asks, target, answer, mail, draft>>
      BY <2>2 DEF allvars, vars, rows, local, mvars, mlocal
    <3>2. \A w : Stage(w)' <=> Stage(w)
      BY <3>1 DEF Stage, Preparing, Changing, Unstarted, Started, Tells,
                  Called, Stepping
    <3>3. Alone' <=> Alone
      BY <3>1, <3>2 DEF Alone, Unstarted, Settled
    <3>4. Supervised' <=> Supervised
      BY <3>1 DEF Supervised, BeforeAsking, Assignment
    <3> QED BY <2>2, <3>1, <3>3, <3>4, MissionInvStep
  <2> QED BY <2>1, <2>2
<1>3. Inv => SettlesUndisturbed
  BY DEF Alone, Settled, SettlesUndisturbed
<1> HIDE DEF Inv
<1>4. MInit => Inv
  BY <1>1, MissionInvInit, SupervisedInit DEF Inv
<1> QED BY <1>2, <1>3, <1>4, PTL DEF MSpec
=============================================================================
