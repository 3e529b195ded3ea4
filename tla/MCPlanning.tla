---------------------------- MODULE MCPlanning ----------------------------
(***************************************************************************)
(* The graphs a model may answer, for TLC: also those it was told not to.  *)
(***************************************************************************)
EXTENDS AgentPlanning

(* All graphs of three steps with at most three edges; two publications    *)
(* written otherwise, of negative durations; and steps that wait for one   *)
(* that is not there.                                                      *)
PlannedStep(action, edges, i) ==
  [action |-> action, duration |-> i, tokens |-> 1,
   dependencies |-> {e[1] : e \in {x \in edges : x[2] = i}}]
Steps == {1, 2, 3}
PlanGraphs ==
  {[nodes |-> [i \in Steps |-> PlannedStep(actions[i], edges, i)],
    edges |-> edges] :
     actions \in {<<"technical_seo_audit", "content_generation", "publish">>,
                  <<"content_generation", "publish_feed", "fix_links">>},
     edges \in {x \in SUBSET (Steps \X Steps) : Cardinality(x) <= 3}}
  \cup {[nodes |-> [i \in {1, 2} |-> PlannedStep("Publish_page", {}, -i)],
         edges |-> edges] : edges \in {{}, {<<1, 9>>}, {<<1, 2>>}}}
=============================================================================
