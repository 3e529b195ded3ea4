--------------------------- MODULE AgentPlanning ---------------------------
(***************************************************************************)
(* Goals and plans of the agents.  The model turns an objective into a     *)
(* structured goal, and a goal into a graph of steps, which is validated   *)
(* as acyclic, scored, criticised, simulated and saved.  Of the model's    *)
(* answers nothing is known, but for what the planner checks.              *)
(*                                                                         *)
(* Abstractions: one tenant; an action is a name with the words the code   *)
(* looks for in it; a step names what it waits for once; durations are     *)
(* whole, probabilities and scores in hundredths; costs are left out of    *)
(* the scores, and so are sums of what is the same for all steps; the      *)
(* knowledge graph's summary and the fixed alternative plan are not looked *)
(* at by anything modelled.                                                *)
(***************************************************************************)
EXTENDS Service, SequencesExt

CONSTANTS
  StepId,      \* ids the model may give to steps
  PlanAnswers, \* graphs the model may answer: steps and edges
  MaxGoal, MaxPlan   \* bounds on the goals and plans made

(* The words the code finds in an action's name: the critic, the analyst,  *)
(* the reasoner and the simulation in its lower case, the planner in the   *)
(* name as the model wrote it.                                             *)
Words == [technical_seo_audit |-> {"technical", "seo", "audit"},
          content_generation  |-> {"content"},
          publish             |-> {"publish"},
          publish_feed        |-> {"publish"},
          Publish_page        |-> {"publish"},
          fix_links           |-> {"fix"}]
AsWritten == [Words EXCEPT !.Publish_page = {}]
Says(item, word) == word \in Words[item.action]
Writes(item, word) == word \in AsWritten[item.action]

ASSUME PlanningAssumption ==
  /\ MaxGoal \in Nat /\ MaxPlan \in Nat
  /\ \A answer \in PlanAnswers :
       /\ DOMAIN answer.nodes \subseteq StepId
       /\ IsFiniteSet(DOMAIN answer.nodes)
       /\ \A i \in DOMAIN answer.nodes :
            /\ answer.nodes[i].action \in DOMAIN Words
            /\ answer.nodes[i].dependencies \subseteq StepId
            /\ {answer.nodes[i].duration, answer.nodes[i].tokens} \subseteq Int
       /\ answer.edges \subseteq StepId \X StepId

VARIABLES
  goals,   \* goals saved: numbered
  plans,   \* plans saved: goal and graph
  graphs,  \* [plans whose graph was saved -> graph]
  simulations,    \* [plans simulated -> outcome]
  plpc, plreq \* [Thread -> next call, request]

plvars == <<goals, plans, graphs, simulations, plpc, plreq>>

EmptyGraph == [nodes |-> <<>>, edges |-> {}]
Unplanned == [goal |-> 0, plan |-> 0, graph |-> EmptyGraph]

ApInit ==
  /\ goals = 0 /\ plans = <<>> /\ graphs = <<>> /\ simulations = <<>>
  /\ plpc = [t \in Thread |-> "idle"]
  /\ plreq = [t \in Thread |-> Unplanned]

-----------------------------------------------------------------------------
(* The tools, and what the planner takes from them: the first tool for the *)
(* action, or a stub that asks for approval when its name, as written, is  *)
(* about publishing.                                                       *)
DefaultTools ==
  [technical_seo_audit |-> [tool |-> "seo_audit", approval |-> FALSE,
                            risk |-> "low"],
   content_generation  |-> [tool |-> "content_generator", approval |-> FALSE,
                            risk |-> "medium"],
   publish             |-> [tool |-> "wp_publish", approval |-> TRUE,
                            risk |-> "high"]]

(* Mutant: only a tool that is listed asks for approval.                   *)
ToolListed(item) ==
  IF item.action \in DOMAIN DefaultTools THEN DefaultTools[item.action]
  ELSE [tool |-> "stub", approval |-> FALSE, risk |-> "low"]

ToolFor(item) ==
  IF item.action \in DOMAIN DefaultTools THEN DefaultTools[item.action]
  ELSE IF Writes(item, "publish")
       THEN [tool |-> "stub", approval |-> TRUE, risk |-> "high"]
       ELSE [tool |-> "stub", approval |-> FALSE, risk |-> "low"]

ExecutionNode(item) ==
  [item |-> item, tool |-> ToolFor(item).tool,
   approval |-> ToolFor(item).approval, risk |-> ToolFor(item).risk]

-----------------------------------------------------------------------------
(* The depth-first search of validate_dag: 0 unvisited, 1 visiting, 2 done.*)
(* dfs is what a call answers for a node and the marks it finds.           *)
Successors(graph, u) == {v \in DOMAIN graph.nodes : <<u, v>> \in graph.edges}

Enter(dfs, found, v) ==
  IF found.ok /\ found.mark[v] = 0 THEN dfs[v][found.mark] ELSE found
Descend(dfs, found, v) ==
  IF found.mark[v] = 1 THEN [found EXCEPT !.ok = FALSE]
                       ELSE Enter(dfs, found, v)

Visit(graph, dfs, u, mark) ==
  LET below == FoldSet(LAMBDA v, found : Descend(dfs, found, v),
                       [ok |-> TRUE, mark |-> [mark EXCEPT ![u] = 1]],
                       Successors(graph, u))
  IN  [ok |-> below.ok, mark |-> [below.mark EXCEPT ![u] = 2]]

Searched(graph) ==
  LET ids == DOMAIN graph.nodes
      dfs[u \in ids] ==
        [mark \in [ids -> 0 .. 2] |-> Visit(graph, dfs, u, mark)]
  IN  FoldSet(LAMBDA u, found : Enter(dfs, found, u),
              [ok |-> TRUE, mark |-> [u \in ids |-> 0]], ids)

ValidDag(graph) ==
  /\ \A e \in graph.edges : {e[1], e[2]} \subseteq DOMAIN graph.nodes
  /\ Searched(graph).ok

(* Planner.plan: a failure of the model, an answer that cannot be read and *)
(* a graph that is no DAG all leave an empty graph.                        *)
Planned(answer) ==
  LET graph == [nodes |-> [i \in DOMAIN answer.nodes |->
                             ExecutionNode(answer.nodes[i])],
                edges |-> answer.edges]
  IN  IF ValidDag(graph) THEN graph ELSE EmptyGraph

-----------------------------------------------------------------------------
(* get_topological_sort: Kahn's algorithm.  In a round the first of the    *)
(* queue is ordered, and the steps it was the last to hold up are queued;  *)
(* a step is queued once, so that there are no more rounds than steps.     *)
InDegree(graph, v) == Cardinality({e \in graph.edges : e[2] = v})

Dequeue(graph, s) ==
  LET u == Head(s.queue)
      degree == [v \in DOMAIN graph.nodes |->
                   IF v \in Successors(graph, u) THEN s.degree[v] - 1
                                                 ELSE s.degree[v]]
      ready == {v \in Successors(graph, u) : degree[v] = 0}
  IN  IF s.queue = <<>> THEN s
      ELSE [queue |-> Tail(s.queue) \o SetToSeq(ready),
            order |-> Append(s.order, u), degree |-> degree]

TopologicalSort(graph) ==
  LET ids == DOMAIN graph.nodes
      degree == [v \in ids |-> InDegree(graph, v)]
      kahn[k \in 0 .. Cardinality(ids)] ==
        IF k = 0 THEN [queue |-> SetToSeq({v \in ids : degree[v] = 0}),
                       order |-> <<>>, degree |-> degree]
                 ELSE Dequeue(graph, kahn[k - 1])
  IN  kahn[Cardinality(ids)].order

-----------------------------------------------------------------------------
(* Critic, risk analysis, scores and simulation of a graph.                *)
Which(graph, Test(_)) == {i \in DOMAIN graph.nodes : Test(graph.nodes[i])}
Percent(part, graph) ==
  (100 * Cardinality(part)) \div Cardinality(DOMAIN graph.nodes)
Lesser(a, b) == IF a < b THEN a ELSE b

Risky(graph) == Which(graph, LAMBDA n : n.risk \in {"high", "critical"})
Approved(graph) == Which(graph, LAMBDA n : n.approval)
Publishes(graph) == Which(graph, LAMBDA n : Says(n.item, "publish"))
Recognised(graph) == Which(graph, LAMBDA n : Writes(n.item, "publish"))
Creates(graph) == Which(graph, LAMBDA n : Says(n.item, "content"))

Critique(graph) ==
  LET technical == Which(graph, LAMBDA n : \/ Says(n.item, "technical")
                                           \/ Says(n.item, "fix"))
      repeated == Which(graph, LAMBDA n : \E i, j \in DOMAIN graph.nodes :
                    i # j /\ {graph.nodes[i].item.action,
                              graph.nodes[j].item.action} = {n.item.action})
      applies == [empty |-> DOMAIN graph.nodes = {},
                  many_steps |-> Cardinality(DOMAIN graph.nodes) > 8,
                  unapproved |-> ~ Publishes(graph) \subseteq Approved(graph),
                  duplicate |-> repeated # {},
                  unchecked |-> Creates(graph) # {} /\ technical = {}]
  IN  {c \in DOMAIN applies : applies[c]}

(* Risks grow to 100 and scores fall to 0 with the same counts.            *)
Risk(graph) ==
  IF DOMAIN graph.nodes = {} THEN [execution |-> 0, approval |-> 0, seo |-> 0,
                                   provider |-> 0]
  ELSE [execution |-> Percent(Risky(graph), graph),
        approval |-> Percent(Approved(graph), graph),
        seo |-> Lesser(100, 15 * Cardinality(
                  Which(graph, LAMBDA n : \/ Says(n.item, "seo")
                                          \/ Says(n.item, "audit")))),
        provider |-> Percent(Which(graph, LAMBDA n : n.item.tokens > 0), graph)]

Score(graph) ==
  IF DOMAIN graph.nodes = {} THEN [risk |-> 100, approval |-> 100,
                                   dependencies |-> 100]
  ELSE [risk |-> 100 - Percent(Risky(graph), graph),
        approval |-> 100 - Percent(Approved(graph), graph),
        dependencies |->
          LET n == Cardinality(DOMAIN graph.nodes)
              deps == SumFunction([i \in DOMAIN graph.nodes |->
                        Cardinality(graph.nodes[i].item.dependencies)])
          IN  IF deps > n THEN 0 ELSE 100 - (100 * deps) \div n]

(* Steps that depend on nothing are taken to run together.  Nothing checks *)
(* the durations the model answers, which may be negative; the total may   *)
(* not.                                                                    *)
Hours(graph) == [i \in DOMAIN graph.nodes |-> graph.nodes[i].item.duration]
Independent(graph) == Which(graph, LAMBDA n : n.item.dependencies = {})
Longest(graph, steps) == Max({Hours(graph)[i] : i \in steps})

Simulated(graph) ==
  LET all == DOMAIN graph.nodes
      free == Independent(graph)
      savings == IF Cardinality(all) > 1 /\ Cardinality(free) > 1
                 THEN SumFunctionOnSet(Hours(graph), free)
                        - Longest(graph, free)
                 ELSE 0
      traffic(item) == CASE Says(item, "content") -> 10
                         [] Says(item, "audit")   -> 5
                         [] Says(item, "fix")     -> 15
                         [] Says(item, "publish") -> 20
                         [] OTHER                 -> 0
  IN  [hours |-> Max({0, SumFunctionOnSet(Hours(graph), all) - savings}),
       traffic |-> SumFunction([i \in all |-> traffic(graph.nodes[i].item)]),
       pages |-> Cardinality(Creates(graph))]

-----------------------------------------------------------------------------
(* GoalEngine.parse: the goal is saved when the answer fits the schema.    *)
ParseGoal(t) ==
  /\ plpc[t] = "idle" /\ goals < MaxGoal
  /\ goals' = goals + 1
  /\ UNCHANGED <<plans, graphs, simulations, plpc, plreq>>

(* POST /goals/{id}/plan: the goal is read and the model asked.            *)
PlanGoal(t, g) ==
  /\ plpc[t] = "idle"
  /\ Len(plans) + Cardinality({u \in Thread : plpc[u] = "save_plan"}) < MaxPlan
  /\ \E graph \in {EmptyGraph} \cup {Planned(a) : a \in PlanAnswers} :
       plreq' = [plreq EXCEPT ![t] = [goal |-> g, plan |-> 0, graph |-> graph]]
  /\ plpc' = [plpc EXCEPT ![t] = "save_plan"]
  /\ UNCHANGED <<goals, plans, graphs, simulations>>

SavePlan(t) ==
  /\ plpc[t] = "save_plan"
  /\ plans' = Append(plans, [goal |-> plreq[t].goal, graph |-> plreq[t].graph])
  /\ plreq' = [plreq EXCEPT ![t].plan = Len(plans')]
  /\ plpc' = [plpc EXCEPT ![t] = "save_graph"]
  /\ UNCHANGED <<goals, graphs, simulations>>

Finished(t) ==
  /\ plpc' = [plpc EXCEPT ![t] = "idle"]
  /\ plreq' = [plreq EXCEPT ![t] = Unplanned]

SaveGraph(t) ==
  /\ plpc[t] = "save_graph"
  /\ graphs' = [p \in DOMAIN graphs \cup {plreq[t].plan} |->
                   IF p = plreq[t].plan THEN plreq[t].graph ELSE graphs[p]]
  /\ Finished(t)
  /\ UNCHANGED <<goals, plans, simulations>>

(* POST /plans/{id}/simulate.                                              *)
ReadPlan(t, p) ==
  /\ plpc[t] = "idle"
  /\ plreq' = [plreq EXCEPT ![t] = [goal |-> 0, plan |-> p,
                                  graph |-> plans[p].graph]]
  /\ plpc' = [plpc EXCEPT ![t] = "save_simulation"]
  /\ UNCHANGED <<goals, plans, graphs, simulations>>

SaveSimulation(t) ==
  /\ plpc[t] = "save_simulation"
  /\ simulations' = [p \in DOMAIN simulations \cup {plreq[t].plan} |->
                 IF p = plreq[t].plan THEN Simulated(plreq[t].graph)
                                     ELSE simulations[p]]
  /\ Finished(t)
  /\ UNCHANGED <<goals, plans, graphs>>

LosePlanning(t) ==
  /\ Lossy /\ plpc[t] # "idle"
  /\ Finished(t)
  /\ UNCHANGED <<goals, plans, graphs, simulations>>

ApNext ==
  \E t \in Thread :
    \/ ParseGoal(t) \/ \E g \in 1 .. goals : PlanGoal(t, g)
    \/ SavePlan(t) \/ SaveGraph(t)
    \/ \E p \in DOMAIN plans : ReadPlan(t, p)
    \/ SaveSimulation(t) \/ LosePlanning(t)

ApSpec == ApInit /\ [][ApNext]_plvars

-----------------------------------------------------------------------------
ApTypeOK ==
  /\ goals \in 0 .. MaxGoal
  /\ \A p \in DOMAIN plans : plans[p].goal \in 1 .. goals
  /\ DOMAIN graphs \cup DOMAIN simulations \subseteq DOMAIN plans
  /\ plpc \in [Thread -> {"idle", "save_plan", "save_graph", "save_simulation"}]
  /\ \A t \in Thread : plreq[t].plan \in 0 .. Len(plans)

(* Reference definitions: no step reaches itself; the hours of the longest *)
(* chain of steps that wait for each other.                                *)
Reaches(graph) ==
  LET ids == DOMAIN graph.nodes
      within[k \in 0 .. Cardinality(ids)] ==
        IF k = 0 THEN graph.edges
        ELSE within[k - 1] \cup {<<p[1][1], p[2][2]>> :
               p \in {q \in within[k - 1] \X graph.edges : q[1][2] = q[2][1]}}
  IN  within[Cardinality(ids)]
Acyclic(graph) == \A i \in DOMAIN graph.nodes : <<i, i>> \notin Reaches(graph)
Chains(graph) ==
  {c \in SUBSET DOMAIN graph.nodes : \A i, j \in c :
     i = j \/ <<i, j>> \in Reaches(graph) \/ <<j, i>> \in Reaches(graph)}
Declares(graph) ==
  \A i \in DOMAIN graph.nodes : graph.nodes[i].item.dependencies =
    {j \in DOMAIN graph.nodes : <<j, i>> \in graph.edges}

(* Whatever the model answers, a saved plan waits for its own steps only,  *)
(* and a step asks for approval exactly when it is written as publishing,  *)
(* which is when it counts as risky; the graph and the simulation saved    *)
(* beside the plan, in later transactions and by whoever asked last, are   *)
(* those of the plan.                                                      *)
PlansAreGoverned ==
  \A p \in DOMAIN plans :
    LET graph == plans[p].graph
    IN  /\ \A e \in graph.edges : {e[1], e[2]} \subseteq DOMAIN graph.nodes
        /\ Approved(graph) = Recognised(graph) /\ Risky(graph) = Approved(graph)
        /\ p \in DOMAIN graphs => graphs[p] = graph
        /\ p \in DOMAIN simulations => simulations[p] = Simulated(graph)

(* A saved plan can be executed: it has no cycles, and its sorted order    *)
(* puts every step once and after all it waits for.                        *)
PlansAreExecutable ==
  \A p \in DOMAIN plans :
    LET graph == plans[p].graph
        order == TopologicalSort(graph)
    IN  /\ Acyclic(graph)
        /\ Len(order) = Cardinality(DOMAIN graph.nodes)
        /\ \A e \in graph.edges : \E i, j \in DOMAIN order :
             order[i] = e[1] /\ order[j] = e[2] /\ i < j

(* What is estimated of a plan is consistent: the critic finds a           *)
(* publication without approval exactly where the planner did not see one, *)
(* the reasoner scores high what the analyst finds without risk, and where *)
(* the dependencies declared are the edges and no duration is negative, no *)
(* chain of steps takes longer than the simulated hours.                   *)
Endures(graph) == \A i \in DOMAIN graph.nodes : Hours(graph)[i] >= 0
EstimatesAgree ==
  \A p \in DOMAIN simulations :
    LET graph == plans[p].graph
    IN  /\ "unapproved" \in Critique(graph)
              <=> Publishes(graph) # Recognised(graph)
        /\ Score(graph).risk = 100 - Risk(graph).execution
        /\ Score(graph).approval = 100 - Risk(graph).approval
        /\ Declares(graph) /\ Endures(graph) => \A c \in Chains(graph) :
             SumFunctionOnSet(Hours(graph), c) <= simulations[p].hours

(* The invariant of plans, whoever asks and whatever is lost: what is      *)
(* saved is governed, can be executed, and is estimated consistently.      *)
PlanningHolds ==
  ApTypeOK /\ PlansAreGoverned /\ PlansAreExecutable /\ EstimatesAgree
=============================================================================
