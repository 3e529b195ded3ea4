-------------------------- MODULE GrowthAutomation --------------------------
(***************************************************************************)
(* Growth automation: POST /growth/automation/events publishes an event on *)
(* the in-memory bus; the automation service, the bus's only subscriber,   *)
(* reads the enabled rules for it, dispatches the action of each one that  *)
(* matches, and then saves a log entry per rule.  Rules are upserted and   *)
(* disabled by other requests meanwhile.                                   *)
(*                                                                         *)
(* Abstractions: a rule's trigger, condition and action are constants; a   *)
(* payload is the number its condition looks at, or Absent; the dispatcher *)
(* is external: it acts, or it raises and does not.                        *)
(***************************************************************************)
EXTENDS Service

CONSTANTS
  Rule,       \* automation rules
  Trigger,    \* [Rule -> event type]
  Condition,  \* [Rule -> [op, value], or op "none"]
  Known,      \* rules whose action_type exists
  EventType, Payload,
  MaxEvent,   \* bound on the events published
  Credential, \* what requests carry, see Authenticate
  Tenant      \* the tenant of the container

Absent == 0   \* the condition's field is not in the payload

ASSUME AutomationAssumption ==
  /\ Trigger \in [Rule -> EventType] /\ DOMAIN Condition = Rule
  /\ Known \subseteq Rule /\ Payload \subseteq Nat
  /\ MaxEvent \in Nat

VARIABLES
  arule,    \* [Rule -> its row: "none", "enabled" or "disabled"]
  aevent,   \* published_events
  adue,     \* [event -> rules that were read for it and match]
  aoff,     \* [event -> rules that were off when it was published, and since]
  afired,   \* [event -> [Rule -> dispatches]]
  alog,     \* [event -> [Rule -> log rows, by result]]
  alost,    \* events for which a call was lost
  apc,      \* [Thread -> next call]
  awork,    \* [Thread -> event it handles, 0 for none]
  atodo,    \* [Thread -> rules still to evaluate]
  apending  \* [Thread -> logs still to save]

arows == <<arule, aevent, adue, aoff, afired, alog, alost>>
avars == <<arows, apc, awork, atodo, apending>>

Event == 1 .. MaxEvent
Result == {"success", "failed"}

(* authenticate, then the tenant's check.  An API key is looked at before  *)
(* a service account, and that before a bearer token; the first the        *)
(* request carries decides, and no later one makes up for a wrong one.     *)
Authenticate(c) ==
  LET carried == SelectSeq(<<c.key, c.account, c.token>>,
                           LAMBDA id : id # "missing")
  IN  IF carried = <<>> THEN "refused" ELSE carried[1]

Admitted == \E c \in Credential : Authenticate(c) = Tenant

AInit ==
  /\ arule = [r \in Rule |-> "none"]
  /\ aevent = <<>>
  /\ adue = [n \in Event |-> {}]
  /\ aoff = [n \in Event |-> {}]
  /\ afired = [n \in Event |-> [r \in Rule |-> 0]]
  /\ alog = [n \in Event |-> [r \in Rule |-> [s \in Result |-> 0]]]
  /\ alost = {}
  /\ apc = [t \in Thread |-> "idle"]
  /\ awork = [t \in Thread |-> 0]
  /\ atodo = [t \in Thread |-> {}]
  /\ apending = [t \in Thread |-> {}]

-----------------------------------------------------------------------------
(* AutomationCondition.evaluate, on numbers below ten, where one is        *)
(* contained in another only if they are equal.                            *)
Evaluate(condition, have) ==
  CASE condition.op = "exists" -> have # Absent
    [] have = Absent -> FALSE
    [] condition.op \in {"eq", "contains"} -> have = condition.value
    [] condition.op = "neq" -> have # condition.value
    [] condition.op = "gt" -> have > condition.value
    [] condition.op = "gte" -> have >= condition.value
    [] condition.op = "lt" -> have < condition.value
    [] condition.op = "lte" -> have <= condition.value
    [] OTHER -> FALSE

Matches(r, e) ==
  /\ Trigger[r] = e.type
  /\ Condition[r].op = "none" \/ Evaluate(Condition[r], e.value)

RulesForEvent(e) == {r \in Rule : arule[r] = "enabled" /\ Trigger[r] = e.type}

CreateRule(r, enabled) ==
  /\ Admitted
  /\ arule' = [arule EXCEPT ![r] = IF enabled THEN "enabled" ELSE "disabled"]
  /\ aoff' = [n \in Event |-> IF enabled THEN aoff[n] \ {r} ELSE aoff[n]]
  /\ UNCHANGED <<aevent, adue, afired, alog, alost, apc, awork, atodo,
                 apending>>

DisableRule(r) ==
  /\ Admitted
  /\ arule[r] # "none"
  /\ arule' = [arule EXCEPT ![r] = "disabled"]
  /\ UNCHANGED <<aevent, adue, aoff, afired, alog, alost, apc, awork, atodo,
                 apending>>

Publish(t) ==
  /\ apc[t] = "idle" /\ Admitted
  /\ Len(aevent) < MaxEvent
  /\ \E type \in EventType, value \in Payload \cup {Absent} :
       aevent' = Append(aevent, [type |-> type, value |-> value])
  /\ awork' = [awork EXCEPT ![t] = Len(aevent')]
  /\ aoff' = [aoff EXCEPT ![Len(aevent')] =
                {r \in Rule : arule[r] # "enabled"}]
  /\ apc' = [apc EXCEPT ![t] = "read"]
  /\ UNCHANGED <<arule, adue, afired, alog, alost, atodo, apending>>

(* _handle_event reads the rules; those that do not match are passed over. *)
ReadRules(t) ==
  /\ apc[t] = "read"
  /\ LET e == aevent[awork[t]]
         due == {r \in RulesForEvent(e) : Matches(r, e)}
     IN  /\ adue' = [adue EXCEPT ![awork[t]] = due]
         /\ atodo' = [atodo EXCEPT ![t] = due]
  /\ apc' = [apc EXCEPT ![t] = "dispatch"]
  /\ UNCHANGED <<arule, aevent, aoff, afired, alog, alost, awork, apending>>

(* Mutant: the first action that fails ends the evaluation.                *)
DispatchUntilFailure(t) ==
  /\ apc[t] = "dispatch"
  /\ \E r \in atodo[t], raises \in BOOLEAN :
       LET acts == r \in Known /\ ~raises
       IN  /\ afired' = [afired EXCEPT ![awork[t]][r] =
                            IF acts THEN @ + 1 ELSE @]
           /\ atodo' = [atodo EXCEPT ![t] = IF acts THEN @ \ {r} ELSE {}]
           /\ apending' = [apending EXCEPT ![t] = @ \cup
                {[rule |-> r, result |-> IF acts THEN "success" ELSE "failed"]}]
  /\ UNCHANGED <<arule, aevent, adue, aoff, alog, alost, apc, awork>>

(* One rule of the engine's loop: an unknown action, or one that raises,   *)
(* is logged as failed, and the loop goes on.                              *)
Dispatch(t) ==
  /\ apc[t] = "dispatch"
  /\ \E r \in atodo[t], raises \in BOOLEAN :
       LET acts == r \in Known /\ ~raises
       IN  /\ afired' = [afired EXCEPT ![awork[t]][r] =
                            IF acts THEN @ + 1 ELSE @]
           /\ atodo' = [atodo EXCEPT ![t] = @ \ {r}]
           /\ apending' = [apending EXCEPT ![t] = @ \cup
                {[rule |-> r, result |-> IF acts THEN "success" ELSE "failed"]}]
  /\ UNCHANGED <<arule, aevent, adue, aoff, alog, alost, apc, awork>>

(* The logs are saved one by one; an error is passed over.                 *)
SaveLog(t) ==
  /\ apc[t] = "dispatch" /\ atodo[t] = {}
  /\ \E log \in apending[t], saved \in BOOLEAN :
       /\ ~saved => Lossy
       /\ alog' = [alog EXCEPT ![awork[t]][log.rule][log.result] =
                     IF saved THEN @ + 1 ELSE @]
       /\ alost' = IF saved THEN alost ELSE alost \cup {awork[t]}
       /\ apending' = [apending EXCEPT ![t] = @ \ {log}]
  /\ UNCHANGED <<arule, aevent, adue, aoff, afired, apc, awork, atodo>>

AEnd(t) ==
  /\ apc' = [apc EXCEPT ![t] = "idle"]
  /\ awork' = [awork EXCEPT ![t] = 0]
  /\ atodo' = [atodo EXCEPT ![t] = {}]
  /\ apending' = [apending EXCEPT ![t] = {}]

Handled(t) ==
  /\ apc[t] = "dispatch" /\ atodo[t] = {} /\ apending[t] = {}
  /\ AEnd(t)
  /\ UNCHANGED arows

(* The rules cannot be read, which nobody is told; or the process dies.    *)
ALose(t) ==
  /\ Lossy /\ apc[t] # "idle"
  /\ AEnd(t)
  /\ alost' = alost \cup {awork[t]}
  /\ UNCHANGED <<arule, aevent, adue, aoff, afired, alog>>

ANext ==
  \/ \E r \in Rule : DisableRule(r) \/ \E on \in BOOLEAN : CreateRule(r, on)
  \/ \E t \in Thread : \/ Publish(t) \/ ReadRules(t) \/ Dispatch(t)
                       \/ SaveLog(t) \/ Handled(t) \/ ALose(t)

ASpec == AInit /\ [][ANext]_avars

-----------------------------------------------------------------------------
ATypeOK ==
  /\ arule \in [Rule -> {"none", "enabled", "disabled"}]
  /\ aevent \in Seq([type : EventType, value : Payload \cup {Absent}])
  /\ adue \in [Event -> SUBSET Rule] /\ aoff \in [Event -> SUBSET Rule]
  /\ afired \in [Event -> [Rule -> Nat]]
  /\ alog \in [Event -> [Rule -> [Result -> Nat]]]
  /\ alost \subseteq Event
  /\ apc \in [Thread -> {"idle", "read", "dispatch"}]
  /\ awork \in [Thread -> {0} \cup Event]
  /\ atodo \in [Thread -> SUBSET Rule]
  /\ apending \in [Thread -> SUBSET [rule : Rule, result : Result]]

(* A rule fires at most once on an event, never if it was off from before  *)
(* the event on, and its log says what happened; once an event is handled  *)
(* and no call of it was lost, each rule that was due has exactly one log  *)
(* row, even if the action of another one failed.                          *)
FiringsAreExact ==
  \A n \in DOMAIN aevent, r \in Rule :
    /\ afired[n][r] > 0 => r \in adue[n] \ aoff[n]
    /\ alog[n][r]["success"] <= afired[n][r] /\ afired[n][r] <= 1
    /\ n \notin alost /\ (\A t \in Thread : awork[t] # n) =>
         /\ alog[n][r]["success"] = afired[n][r]
         /\ alog[n][r]["success"] + alog[n][r]["failed"] =
              IF r \in adue[n] THEN 1 ELSE 0

(* The invariant of the event rules: each due rule fires once and is       *)
(* logged.                                                                 *)
AutomationHolds == ATypeOK /\ FiringsAreExact
=============================================================================
