---------------------------- MODULE MCPlatform ----------------------------
(***************************************************************************)
(* The instance of the service modules for TLC.  No two of them share      *)
(* state, so that interleaving them would show nothing new: a behaviour    *)
(* runs one part of the platform and leaves the others as they start.      *)
(***************************************************************************)
EXTENDS WorkflowExecution, KnowledgeVersions, Reports, AiGateway,
        GrowthAutomation, GrowthContent, RankTracking, Agency,
        SaasRecords, MCPlanning, AgentMemory, AutonomousGoals, TLC

CONSTANTS t1, t2, shoes, boots
VARIABLE part

PlatformSymmetry == Permutations(Thread) \cup Permutations(Text)

Parts == {"workflows", "knowledge", "engines", "gateway", "rules", "content",
          "reports", "rankings", "agency", "records", "plans", "memory",
          "autonomy"}

PInit ==
  /\ part \in Parts
  /\ WfInit /\ KInit /\ EInit /\ GInit /\ AInit /\ CInit /\ GrInit /\ RInit
  /\ AgInit /\ SInit /\ ApInit /\ MInit /\ OInit
  /\ part # "engines" => epages = <<>>
  /\ part # "gateway" => ghealth = {}

(* Only the variables of part p change.                                    *)
Only(p) ==
  /\ part = p /\ UNCHANGED part
  /\ IF p = "workflows" THEN WfNext ELSE UNCHANGED wfvars
  /\ IF p = "knowledge" THEN KNext ELSE UNCHANGED kvars
  /\ IF p = "engines" THEN ENext ELSE UNCHANGED evars
  /\ IF p = "gateway" THEN GNext ELSE UNCHANGED gvars
  /\ IF p = "rules" THEN ANext ELSE UNCHANGED avars
  /\ IF p = "content" THEN CNext ELSE UNCHANGED cvars
  /\ IF p = "reports" THEN GrNext ELSE UNCHANGED grvars
  /\ IF p = "rankings" THEN RNext ELSE UNCHANGED rvars
  /\ IF p = "agency" THEN AgNext ELSE UNCHANGED agvars
  /\ IF p = "records" THEN SNext ELSE UNCHANGED svars
  /\ IF p = "plans" THEN ApNext ELSE UNCHANGED plvars
  /\ IF p = "memory" THEN MNext ELSE UNCHANGED mvars
  /\ IF p = "autonomy" THEN ONext ELSE UNCHANGED ovars

PNext == \E p \in Parts : Only(p)
PSpec == PInit /\ [][PNext]_<<part, wfvars, kvars, evars, gvars, avars, cvars,
  grvars, rvars, agvars, svars, plvars, mvars, ovars>>

-----------------------------------------------------------------------------
(* Two workflows: one that asks twice, and one that never asks.            *)
TwoWorkflows ==
  [w \in Workflow |->
     IF w = "a" THEN <<"approval", "script", "approval", "other">>
                ELSE <<"script", "script">>]

(* Two sections, or one that asks nothing of a model.                      *)
Sections == {{"internal_seo", "eeat"}, {"technical_seo"}}

(* Keyphrases that share words or have none of more than two letters; a    *)
(* page with defects and little measured, and one that is perfect but that *)
(* robots may not index it; sites without pages, without keyphrases, and   *)
(* with nested, equal and short ones.                                      *)
SomeWords ==
  [none |-> {}, ai |-> {}, seo |-> {"seo"}, shop |-> {"shop"},
   tools |-> {"tools"}, seo_shop |-> {"seo", "shop"},
   shop_tools |-> {"shop", "tools"}]
TokOf == [k \in (DOMAIN SomeWords \ {"none"}) \cup {""} |->
            SomeWords[IF k = "" THEN "none" ELSE k]]
Measured(defects, raised, score, focus, placed, trust, shares, keywords) ==
  [defects |-> defects, raised |-> raised, issues |-> 2 * Cardinality(raised),
   score |-> score, words |-> 250, focus |-> focus, placed |-> placed,
   inlinks |-> placed, images |-> 4, alts |-> placed - 1, trust |-> trust,
   headings |-> 2, readability |-> 0, shares |-> shares, keywords |-> keywords]
TwoPages ==
  {Measured({"missing_title", "images_missing_alt", "canonical_issue"},
            {"broken_links"}, Unknown, "seo_shop", 3, Unknown, <<80, 40>>,
            <<"seo", "shop", "seo_shop", "ai", "tools", "seo", "shop_tools">>),
   Measured({"robots_noindex"}, {}, 100, "ai", 5, 100, <<130>>, <<>>)}
SomeSites ==
  {<<>>, <<"seo", "seo_shop", "seo", "shop_tools">>, <<"ai", "", "ai", "seo">>}
SomeOptions ==
  {[authority |-> <<80>>, complete |-> 30],
   [authority |-> <<120>>, complete |-> -50]}
SomeTargets ==
  {<<"technical_seo", 1>>, <<"technical_seo", 2>>, <<"seo_scoring", 1>>,
   <<"content_intelligence", 1>>, <<"site_architecture", 0>>}

PriorityList == <<"google", "openai">>

(* One rule without a condition and one with; a credential that is known   *)
(* and one that is refused, for an account that is not there.              *)
OnCrawled == [r \in Rule |-> "crawled"]
FromThree ==
  [r \in Rule |-> IF r = "r1" THEN [op |-> "none", value |-> 0]
                              ELSE [op |-> "gte", value |-> 3]]
SomeCredentials ==
  {[key |-> k, account |-> "missing", token |-> "acme"] :
     k \in {"missing", "refused"}}

OneArticle == [x |-> "blog_post"]

(* Pages that disagree about a business beside one that names none;        *)
(* reviews of each kind; a content with a question left open.              *)
Named(n, p, a) == [name |-> n, phone |-> p, address |-> a]
BusinessPages ==
  {<<[schema |-> <<Named("acme", "1", "x")>>,
      contact |-> <<Named("other", "2", "")>>],
     [schema |-> <<>>, contact |-> <<Named("acme", "1", "y")>>]>>,
   <<[schema |-> <<>>, contact |-> <<>>]>>}
Rated(rating, words, how, label, score, answers) ==
  [rating |-> rating, words |-> words, answers |-> answers,
   model |-> [how |-> how, label |-> label, score |-> score]]
SomeReviews ==
  {<<>>, <<Rated(0, "none", "words", "other", 0, FALSE)>>,
   <<Rated(10, "critical", "error", "other", 0, FALSE),
     Rated(50, "none", "json", "positive", -2000, TRUE),
     Rated(40, "high", "words", "negative", 0, TRUE),
     Rated(20, "none", "json", "negative", 900, TRUE),
     Rated(35, "critical", "json", "negative", -300, TRUE)>>}
OneContent ==
  {[questions |-> <<"q1", "q2">>, headings |-> {"q2"}, covered |-> {"q1"},
    intent |-> "other", lacks |-> {}]}

(* Happenings of every severity, sure and unsure, near enough to belong    *)
(* together or not; the last is an alert of a model, with a severity of    *)
(* its own.                                                                *)
Seen(category, ref, amount, keys, confidence, severity, gap) ==
  [category |-> category, ref |-> ref, amount |-> amount, lost |-> 0,
   pages |-> keys, keys |-> keys, confidence |-> confidence,
   severity |-> severity, gap |-> gap]
SomeHappenings ==
  {Seen("ranking", "kw", -12, {"p1"}, -20, Unset, 20),
   Seen("ranking", "kw", 4, {"p2"}, 120, Unset, 50),
   Seen("competitor", "keyword_gap", 2, {"p1", "p2"}, 80, Unset, 20),
   Seen("technical", "CWV_lcp", 20, {"p1"}, 100, Unset, 50),
   Seen("analytics", "prediction", 40, {}, 50, "critical", 0)}

(* All short series of a few values, near and far apart.                   *)
ShortSeries == UNION {[1 .. n -> {-3, 0, 1, 9}] : n \in 0 .. 5}
=============================================================================
