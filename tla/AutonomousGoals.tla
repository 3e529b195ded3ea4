-------------------------- MODULE AutonomousGoals --------------------------
(***************************************************************************)
(* From observations to goals: an event is classified and stored, and each *)
(* trigger that it fires makes a goal, unless the goals of the last day    *)
(* have one for the same site and metric.  Of the events stored, those     *)
(* that belong together are grouped, the most important come first, and    *)
(* series of values are searched for anomalies, trends and drift.          *)
(*                                                                         *)
(* Abstractions: one tenant and one site; what an event is measured by is  *)
(* one number, in hundredths where the code has fractions, as confidences  *)
(* are; the square root and the divisions of the statistics are multiplied *)
(* out; what a goal says beside metric, pages, days and priority (text,    *)
(* magnitude, context, constraints) its trigger reads off one event, whose *)
(* number stands for it; goals do not expire while they are made.          *)
(***************************************************************************)
EXTENDS Service, Ordering, SequencesExt

CONSTANTS
  Happening,  \* what may be observed: category, reference, amount, lost
              \* backlinks, pages, keys, confidence, the severity a model
              \* gave it or Unset, and the minutes since the last event
  Windows,    \* series of values that are searched for what stands out
  MaxObserved, MaxMade   \* bounds on the events and the goals

(* Severities by amount: what is critical and what a warning, moved either *)
(* way, at or above, at or below.  Other categories are only informative.  *)
SeverityRules ==
  [ranking    |-> [side |-> "either", critical |-> 10, warning |-> 3],
   technical  |-> [side |-> "below", critical |-> 30, warning |-> 60],
   backlink   |-> [side |-> "above", critical |-> 20, warning |-> 5],
   analytics  |-> [side |-> "either", critical |-> 30, warning |-> 10],
   reputation |-> [side |-> "below", critical |-> 30, warning |-> 50],
   cost       |-> [side |-> "above", critical |-> 50, warning |-> 20]]
CategoryImpact ==
  [ranking |-> 90, analytics |-> 85, technical |-> 80, backlink |-> 70,
   content |-> 65, competitor |-> 60, reputation |-> 55, local_seo |-> 50,
   cost |-> 45, platform_health |-> 40, security |-> 95]
SeverityWeight == [critical |-> 100, warning |-> 50, info |-> 10]
Unset == "unset"

ASSUME ObservationAssumption ==
  /\ MaxObserved \in Nat /\ MaxMade \in Nat /\ Windows \subseteq Seq(Int)
  /\ \A h \in Happening : /\ h.category \in DOMAIN CategoryImpact
                          /\ h.severity \in DOMAIN SeverityWeight \cup {Unset}
                          /\ {h.amount, h.lost, h.confidence} \subseteq Int
                          /\ h.gap \in Nat

VARIABLES
  oevents,   \* the events stored, with severity and time
  ogoals,    \* the goals made
  omet,      \* metrics for which two requests have met
  opc, oreq  \* [Thread -> next call; event and goals of triggers left]

ovars == <<oevents, ogoals, omet, opc, oreq>>

Unasked == [event |-> 0, left |-> <<>>]

OInit ==
  /\ oevents = <<>> /\ ogoals = <<>> /\ omet = {}
  /\ opc = [t \in Thread |-> "idle"] /\ oreq = [t \in Thread |-> Unasked]

-----------------------------------------------------------------------------
(* EventClassifier: a rank or a rate may move either way; a predictive     *)
(* alert has the severity the model gave it.                               *)
Magnitude(a) == IF a < 0 THEN -a ELSE a
Exceeds(rule, amount, mark) ==
  CASE rule.side = "either" -> Magnitude(amount) >= mark
    [] rule.side = "above"  -> amount >= mark
    [] OTHER                -> amount <= mark
Classify(h) ==
  IF h.severity # Unset THEN h.severity
  ELSE IF h.category \notin DOMAIN SeverityRules THEN "info"
  ELSE LET rule == SeverityRules[h.category]
       IN  IF Exceeds(rule, h.amount, rule.critical) THEN "critical"
           ELSE IF Exceeds(rule, h.amount, rule.warning) THEN "warning"
           ELSE "info"

(* EventPrioritizer: in thousandths; a confidence out of range is clipped, *)
(* for a model's may be any number.                                        *)
Confidence(e) == Max({0, Min({100, e.confidence})})
ImpactScore(e) ==
  SeverityWeight[e.severity] * 4 + CategoryImpact[e.category] * 3
    + Confidence(e) * 3
Prioritize(events) ==
  SortedBy(events, [i \in DOMAIN events |-> -ImpactScore(events[i])])

-----------------------------------------------------------------------------
(* EventCorrelationEngine: the first event not in a group gathers those of *)
(* the next hour from other categories that share a key with it.           *)
Window == 60
Gathers(events, i, j) ==
  /\ i < j /\ events[j].at - events[i].at <= Window
  /\ events[j].category # events[i].category
  /\ events[i].keys \cap events[j].keys # {}

Group(events, groups, i) ==
  LET used == UNION groups
      more == {j \in DOMAIN events \ used : Gathers(events, i, j)}
  IN  IF i \in used \/ more = {} THEN groups ELSE groups \cup {{i} \cup more}

Correlate(events) ==
  LET groups[i \in 0 .. Len(events)] ==
        IF i = 0 THEN {} ELSE Group(events, groups[i - 1], i)
  IN  groups[Len(events)]

-----------------------------------------------------------------------------
(* Detection in a series, the last value against those before it.          *)
Products(r, s) == SumFunction([i \in DOMAIN s |-> r[i] * s[i]])
Spread(s) == Len(s) * Products(s, s) - SumFunction(s) * SumFunction(s)

ZScoreAnomaly(v, past) ==
  LET far == Len(past) * v - SumFunction(past)
  IN  Len(past) >= 3 /\ Spread(past) > 0 /\ 4 * far * far >= 25 * Spread(past)
IqrAnomaly(v, past) ==
  LET n == Len(past)
      sorted == SortedBy(past, past)
      q1 == sorted[(n \div 4) + 1]
      q3 == sorted[((3 * n) \div 4) + 1]
  IN  /\ n >= 4
      /\ \/ 2 * v < 2 * q1 - 3 * (q3 - q1)
         \/ 2 * v > 2 * q3 + 3 * (q3 - q1)
(* The least squares line over equally spaced values.                      *)
Trend(s) ==
  LET x == [i \in DOMAIN s |-> i - 1]
      slope == Len(s) * Products(x, s) - SumFunction(x) * SumFunction(s)
      fits == 2 * slope * slope >= Spread(x) * Spread(s)
  IN  IF Len(s) < 3 \/ Spread(s) = 0 \/ ~fits
         \/ 100 * Magnitude(slope) < Spread(x) THEN "stable"
      ELSE IF slope > 0 THEN "up" ELSE "down"
Drifts(base, recent) ==
  /\ base # <<>> /\ recent # <<>>
  /\ LET total == SumFunction(base)
         change == SumFunction(recent) * Len(base) - total * Len(recent)
     IN  IF total = 0 THEN change # 0
         ELSE 10 * Magnitude(change) >= Magnitude(total) * Len(recent)

-----------------------------------------------------------------------------
(* The triggers: what each fires on, and the goal it then makes.           *)
Goal(fires, e, metric, priority, days, pages) ==
  IF fires THEN <<[metric |-> metric, priority |-> priority, days |-> days,
                   pages |-> pages, event |-> e.id, recent |-> TRUE]>>
           ELSE <<>>
HighIfCritical(e) == IF e.severity = "critical" THEN "high" ELSE "normal"
NamesCwv == {"cwv", "CWV_lcp"}   \* references with cwv in their lower case

RankingDropped(e) ==
  Goal(e.category = "ranking" /\ e.severity \in {"warning", "critical"}, e,
       "organic_traffic", HighIfCritical(e), 30, e.pages)
CompetitorImproved(e) ==
  Goal(e.category = "competitor", e, "keyword_gap", "normal", 14, {})
BacklinksDisappeared(e) ==
  Goal(e.category = "backlink" /\ e.lost >= 1, e,
       "backlink_count", "high", 30, {})
PagesStale(e) ==
  Goal(e.category = "content" /\ e.ref = "stale_content" /\ e.pages # {}, e,
       "content_freshness", "normal", 10, e.pages)
KeywordOpportunity(e) ==
  Goal(e.category = "competitor" /\ e.ref = "keyword_gap", e,
       "organic_impressions", "normal", 30, {})
CwvDegraded(e) ==
  Goal(e.category = "technical" /\ e.ref \in NamesCwv, e,
       "health_score", "urgent", 7, {})
LocalListingsInconsistent(e) ==
  Goal(e.category = "local_seo", e, "local_seo_score", "normal", 14, {})
ReviewsDecreased(e) ==
  Goal(e.category = "reputation" /\ e.ref = "review_volume", e,
       "review_count", "normal", 30, {})
CostIncreasing(e) ==
  Goal(e.category = "cost", e, "token_cost", "low", 14, {})
ConversionDropped(e) ==
  Goal(e.category = "analytics" /\ e.ref = "conversion_rate", e,
       "conversions", HighIfCritical(e), 30, {})

(* In the order they are tried.                                            *)
Evaluated(e) ==
  RankingDropped(e) \o CompetitorImproved(e) \o BacklinksDisappeared(e)
    \o PagesStale(e) \o KeywordOpportunity(e) \o CwvDegraded(e)
    \o LocalListingsInconsistent(e) \o ReviewsDecreased(e)
    \o CostIncreasing(e) \o ConversionDropped(e)

(* GoalMerger: the pages of both, the higher priority, the longer time;    *)
(* the magnitude, the context and the constraints are the first's.  Goals  *)
(* of two metrics do not merge.                                            *)
PriorityOrder == [low |-> 0, normal |-> 1, high |-> 2, urgent |-> 3]
Unmerged == <<>>
MergeGoals(g, h) ==
  IF g.metric # h.metric THEN Unmerged
  ELSE <<[metric |-> g.metric, event |-> g.event,
          pages |-> g.pages \cup h.pages, days |-> Max({g.days, h.days}),
          priority |-> IF PriorityOrder[g.priority] >= PriorityOrder[h.priority]
                       THEN g.priority ELSE h.priority]>>

(* Mutant: only the goal made last is compared.                            *)
IsLatest(goal) ==
  ogoals # <<>> /\ ogoals[Len(ogoals)].metric = goal.metric
(* Is there a goal of the last 24 hours for the metric?                    *)
IsDuplicate(goal) ==
  \E i \in DOMAIN ogoals : ogoals[i].recent /\ ogoals[i].metric = goal.metric

-----------------------------------------------------------------------------
StoredEvent(h) ==
  LET last == IF oevents = <<>> THEN 0 ELSE oevents[Len(oevents)].at
  IN  [id |-> Len(oevents) + 1, category |-> h.category, ref |-> h.ref,
       amount |-> h.amount, lost |-> h.lost, pages |-> h.pages,
       keys |-> h.keys, confidence |-> h.confidence,
       severity |-> Classify(h), at |-> last + h.gap]

Observe(t, h) ==
  /\ opc[t] = "idle" /\ Len(oevents) < MaxObserved
  /\ oevents' = Append(oevents, StoredEvent(h))
  /\ opc' = [opc EXCEPT ![t] = "compare"]
  /\ oreq' = [oreq EXCEPT ![t] =
       [event |-> Len(oevents'), left |-> Evaluated(oevents'[Len(oevents')])]]
  /\ UNCHANGED <<ogoals, omet>>

NextTrigger(t) ==
  /\ oreq' = [oreq EXCEPT ![t].left = Tail(@)]
  /\ opc' = [opc EXCEPT ![t] = "compare"]

(* The goals saved are looked through; a goal that is new is then saved.   *)
CompareGoal(t) ==
  /\ opc[t] = "compare" /\ oreq[t].left # <<>>
  /\ LET goal == Head(oreq[t].left)
     IN  IF IsDuplicate(goal)
         THEN NextTrigger(t) /\ UNCHANGED omet
         ELSE /\ opc' = [opc EXCEPT ![t] = "save"]
              /\ omet' = omet \cup {goal.metric : u \in {v \in Thread \ {t} :
                   opc[v] = "save" /\ Head(oreq[v].left).metric = goal.metric}}
              /\ UNCHANGED oreq
  /\ UNCHANGED <<oevents, ogoals>>

SaveNewGoal(t) ==
  /\ opc[t] = "save" /\ Len(ogoals) < MaxMade
  /\ ogoals' = Append(ogoals, Head(oreq[t].left))
  /\ NextTrigger(t)
  /\ UNCHANGED <<oevents, omet>>

EndObservation(t) ==
  /\ \/ opc[t] = "compare" /\ oreq[t].left = <<>>
     \/ Lossy /\ opc[t] # "idle"
  /\ opc' = [opc EXCEPT ![t] = "idle"] /\ oreq' = [oreq EXCEPT ![t] = Unasked]
  /\ UNCHANGED <<oevents, ogoals, omet>>

(* A day passes while nothing is asked.                                    *)
DayPasses ==
  /\ \A t \in Thread : opc[t] = "idle"
  /\ \E i \in DOMAIN ogoals : ogoals[i].recent
  /\ ogoals' = [i \in DOMAIN ogoals |-> [ogoals[i] EXCEPT !.recent = FALSE]]
  /\ UNCHANGED <<oevents, omet, opc, oreq>>

ONext ==
  \/ DayPasses
  \/ \E t \in Thread :
       \/ \E h \in Happening : Observe(t, h)
       \/ CompareGoal(t) \/ SaveNewGoal(t) \/ EndObservation(t)

OSpec == OInit /\ [][ONext]_ovars

-----------------------------------------------------------------------------
OTypeOK ==
  /\ Len(oevents) <= MaxObserved /\ Len(ogoals) <= MaxMade
  /\ \A i \in DOMAIN oevents :
       oevents[i].severity \in DOMAIN SeverityWeight
  /\ \A i \in DOMAIN ogoals : ogoals[i].priority \in DOMAIN PriorityOrder
  /\ opc \in [Thread -> {"idle", "compare", "save"}]
  /\ \A t \in Thread : oreq[t].event \in 0 .. Len(oevents)

(* No two goals of one day have the same metric, unless two events that    *)
(* fire its trigger were compared at the same time; such goals merge into  *)
(* one that lowers neither's priority and shortens neither's time, the     *)
(* same whichever comes first but for the event it goes back to.           *)
GoalsAreNotRepeated ==
  \A i, j \in DOMAIN ogoals : i # j /\ ogoals[i].metric = ogoals[j].metric =>
    LET merged == MergeGoals(ogoals[i], ogoals[j])
        turned == MergeGoals(ogoals[j], ogoals[i])
    IN  /\ ogoals[i].recent /\ ogoals[j].recent => ogoals[i].metric \in omet
        /\ merged # Unmerged
        /\ [turned[1] EXCEPT !.event = ogoals[i].event] = merged[1]
        /\ PriorityOrder[merged[1].priority]
             >= PriorityOrder[ogoals[i].priority]
        /\ merged[1].days >= ogoals[i].days

(* An event is in one group at most, no group is of a single category, and *)
(* all of it lies within the window.                                       *)
CorrelationsAgree ==
  \A g \in Correlate(oevents) :
    /\ \A h \in Correlate(oevents) : g = h \/ g \cap h = {}
    /\ \E i, j \in g : oevents[i].category # oevents[j].category
    /\ \A i, j \in g : oevents[i].at - oevents[j].at <= Window

(* Every event is somewhere in the order of importance; of two of one      *)
(* category, a critical one comes before one that only informs, however    *)
(* sure that is, and before any other that is no surer than itself.        *)
PrioritiesAgree ==
  LET ranked == Prioritize(oevents)
  IN  /\ ToSet(ranked) = ToSet(oevents)
      /\ \A i, j \in DOMAIN ranked :
           /\ ranked[i].category = ranked[j].category
           /\ ranked[i].severity # "critical" /\ ranked[j].severity = "critical"
           /\ \/ ranked[i].severity = "info"
              \/ Confidence(ranked[i]) <= Confidence(ranked[j])
           => j < i

Raised(s) == [i \in DOMAIN s |-> s[i] + 7]
Opposite == [up |-> "down", down |-> "up", stable |-> "stable"]

(* In any series, an anomaly or a trend does not depend on where zero is,  *)
(* and the series read backwards has the opposite trend; a window does not *)
(* drift from itself.                                                      *)
DetectionAgrees ==
  \A s \in Windows \ {<<>>} :
    LET past == Front(s)
        v == Last(s)
    IN  /\ ZScoreAnomaly(v, past) = ZScoreAnomaly(v + 7, Raised(past))
        /\ IqrAnomaly(v, past) = IqrAnomaly(v + 7, Raised(past))
        /\ Trend(Raised(s)) = Trend(s)
        /\ Trend(Reverse(s)) = Opposite[Trend(s)]
        /\ ~Drifts(s, s)

(* What is made of the events stored agrees with what it is made for:      *)
(* groups of events that belong together, an order of importance, and what *)
(* is found in series of values.                                           *)
ObservationsAgree == CorrelationsAgree /\ PrioritiesAgree /\ DetectionAgrees

(* The invariant of goal generation: goals are not made twice in a day, and*)
(* what is made of the events behind them agrees with them.                *)
GoalsHold == OTypeOK /\ GoalsAreNotRepeated /\ ObservationsAgree
=============================================================================
