--------------------------- MODULE EngineReports ---------------------------
(***************************************************************************)
(* The ten analysis engines and their report tables.  An engine computes a *)
(* report from the page's knowledge object and the site's context, and     *)
(* its repository numbers the report and inserts it, in two transactions,  *)
(* for whichever scope was analysed.  EngineAudit says which engines of an *)
(* audit run and when; here is what they compute, and what is kept.        *)
(*                                                                         *)
(* Abstractions: a page is the set of its technical defects and a few      *)
(* measures; percentages are whole numbers; PageRank, the edges between    *)
(* topics and the authority they add up to, texts, hashes and excerpts are *)
(* left out.                                                               *)
(***************************************************************************)
EXTENDS Service, Integers, FiniteSetsExt, SequencesExt

CONSTANTS
  Tok,        \* [keyphrase -> its words of more than two letters]
  Measures,   \* what a knowledge object may say of a page, see Measure
  Sites,      \* of a site's pages, the focus keyphrases, "" for none: a
              \* set of sequences
  Options,    \* what a request may say of a page's authority, see Option
  Targets,    \* the engines asked for, and on which scope: a page's
              \* position, or 0 for the site
  MaxReport   \* bound on the rows

Unknown == -1   \* None

-----------------------------------------------------------------------------
(* Technical SEO: what each check reports when it fails.                   *)
Finding(severity, fix) == [severity |-> severity, fix |-> fix]
CrawlabilityChecks ==
  [broken_page |-> Finding("critical", "none"),
   not_indexable |-> Finding("high", "none"),
   not_https |-> Finding("high", "none"),
   excessive_url_depth |-> Finding("low", "none")]
MetadataChecks ==
  [missing_title |-> Finding("high", "update_title"),
   missing_meta_description |-> Finding("medium", "update_meta_description"),
   canonical_issue |-> Finding("high", "none"),
   robots_noindex |-> Finding("critical", "none"),
   duplicate_title |-> Finding("medium", "none"),
   duplicate_meta_description |-> Finding("medium", "none")]
LinkChecks ==
  [broken_links |-> Finding("high", "none"),
   redirect_chain |-> Finding("medium", "none"),
   orphan_page |-> Finding("high", "none"),
   link_depth |-> Finding("medium", "none")]
ContentChecks ==
  [thin_content |-> Finding("medium", "none"),
   missing_h1 |-> Finding("high", "none"),
   multiple_h1 |-> Finding("medium", "none"),
   images_missing_alt |-> Finding("medium", "update_alt_text"),
   missing_schema |-> Finding("low", "update_schema")]
Checks == CrawlabilityChecks @@ MetadataChecks @@ LinkChecks @@ ContentChecks
NChecks == Cardinality(DOMAIN Checks) - 1   \* one check for both of the H1's

(* What was measured of a page: a check that raises an error finds nothing,*)
(* and there is a finding for every canonical issue.  The shares are those *)
(* that a model answered, of the two it is asked for, and nothing bounds   *)
(* them.                                                                   *)
Keyphrase == DOMAIN Tok
Measure ==
  [defects : SUBSET DOMAIN Checks, raised : SUBSET DOMAIN Checks, issues : Nat,
   score : Int, words : Nat, focus : Keyphrase, placed : Int, inlinks : Nat,
   images : Nat, alts : Nat, trust : Int, headings : Nat, readability : Int,
   shares : Seq(Int), keywords : Seq(Keyphrase)]

(* An authority, if a request has one, and how complete its data is, both  *)
(* in percent and as the request says.                                     *)
Option == [authority : Seq(Int), complete : Int]
NoOptions == [authority |-> <<>>, complete |-> 0]

ASSUME ReportAssumption ==
  /\ MaxReport \in Nat /\ \A target \in Targets : target[2] \in Nat
  /\ "" \in Keyphrase /\ Tok[""] = {}
  /\ \A k \in Keyphrase : IsFiniteSet(Tok[k])
  /\ Measures \subseteq Measure /\ Sites \subseteq Seq(Keyphrase)
  /\ Options \subseteq Option

Critical(defects) == {d \in defects : Checks[d].severity = "critical"}

Findings(ko) ==
  NChecks - Cardinality(ko.raised) + Max({0, ko.issues - 1})
TechnicalSeoReport(kos) ==
  LET failed == UNION {ko.defects : ko \in kos}
      Passed(ko) == NChecks - Cardinality(ko.raised \cup ko.defects)
  IN  [failed |-> failed, critical |-> Cardinality(Critical(failed)),
       findings |-> Max({0} \cup {Findings(ko) : ko \in kos}),
       passed |-> Max({0} \cup {Passed(ko) : ko \in kos})]

-----------------------------------------------------------------------------
(* SEO scoring: components with a value, and how complete, in percent, the *)
(* data is that it comes from.                                             *)
Component(value, complete, weight) ==
  [value |-> value, complete |-> complete, weight |-> weight]
AtMost(n, most) == Min({n, most})
Clip(n) == IF n < 0 THEN 0 ELSE IF n > 100 THEN 100 ELSE n
NoScore(weight) == Component(0, 0, weight)

TechnicalComponent(audit) ==
  IF audit = {} THEN NoScore(20)
  ELSE LET a == CHOOSE x \in audit : TRUE
       IN  IF a.findings = 0 THEN Component(100, 100, 20)
           ELSE Component(Clip((100 * a.passed) \div a.findings
                                 - 15 * a.critical), 100, 20)
ContentComponent(ko) ==
  IF ko.score # Unknown THEN Component(ko.score, 100, 20)
                        ELSE Component(Clip(ko.words \div 10), 50, 20)
KeywordComponent(ko) ==
  CASE ko.focus = "" -> Component(0, 100, 15)
    [] ko.focus # "" /\ ko.placed = Unknown -> Component(50, 50, 15)
    [] OTHER -> Component(20 * ko.placed, 100, 15)
LinkComponent(ko, equity) ==
  IF equity # Unknown THEN Component(equity, 100, 10)
                      ELSE Component(Clip(20 * ko.inlinks), 50, 10)
AuthorityComponent(options) ==
  IF options.authority = <<>> THEN NoScore(10)
  ELSE Component(options.authority[1], options.complete, 10)
PerformanceComponent == NoScore(5)
AccessibilityComponent(ko) ==
  Component(IF ko.images = 0 THEN 100 ELSE (100 * ko.alts) \div ko.images,
            100, 10)
TrustComponent(ko) ==
  IF ko.trust = Unknown THEN Component(50, 50, 10)
                        ELSE Component(Clip(ko.trust), 100, 10)

(* The mean of the components, by weight and completeness; a negative      *)
(* completeness may make the whole weight negative.                        *)
WeightedOverall(components) ==
  LET weight == [c \in DOMAIN components |->
                   components[c].weight * components[c].complete]
      total == SumFunction(weight)
      sum == SumFunction([c \in DOMAIN components |->
                            weight[c] * components[c].value])
  IN  CASE total = 0 -> 0
        [] total > 0 -> sum \div total
        [] total < 0 -> (-sum) \div (-total)

(* A page without a knowledge object has no components but the audit's.    *)
Components(kos, audit, equity, options) ==
  IF kos = {}
  THEN [technical_score |-> TechnicalComponent(audit),
        authority_score |-> AuthorityComponent(options),
        performance_score |-> PerformanceComponent]
  ELSE LET ko == CHOOSE x \in kos : TRUE
       IN  [technical_score |-> TechnicalComponent(audit),
            content_score |-> ContentComponent(ko),
            keyword_score |-> KeywordComponent(ko),
            internal_link_score |-> LinkComponent(ko, equity),
            authority_score |-> AuthorityComponent(options),
            performance_score |-> PerformanceComponent,
            accessibility_score |-> AccessibilityComponent(ko),
            trust_score |-> TrustComponent(ko)]

SeoScoring(kos, audit, equity, options) ==
  WeightedOverall(Components(kos, audit, equity, options))

-----------------------------------------------------------------------------
(* Opportunities and recommendations, from an audit's failed findings.     *)
Impact(d) ==
  [critical |-> 95, high |-> 75, medium |-> 45, low |-> 20][Checks[d].severity]
Effort(d) ==
  IF Checks[d].fix \in {"none", "update_schema"} THEN "medium" ELSE "small"
Priority(d) == Impact(d) * (IF Effort(d) = "small" THEN 90 ELSE 75)

Opportunities(audit) ==
  {[from |-> d, effort |-> Effort(d), priority |-> Priority(d),
    quick |-> Impact(d) >= 60 /\ Effort(d) = "small",
    critical |-> d \in Critical({d})] : d \in UNION {a.failed : a \in audit}}

(* _infer_fix_type: the first of the fixes whose name is part of the       *)
(* reference, which ends with the check's; "alt_text" is part of none.     *)
InferFixType(d) ==
  CASE d \in {"missing_meta_description", "duplicate_meta_description"} ->
         "update_meta_description"
    [] d \in {"missing_title", "duplicate_title"} -> "update_title"
    [] d = "missing_schema" -> "update_schema"
    [] OTHER -> "none"

Recommendations(opportunities) ==
  {[problem |-> o.from, fix |-> InferFixType(o.from), impact |-> Impact(o.from),
    priority |-> o.priority] : o \in opportunities}

-----------------------------------------------------------------------------
(* The engines that group keyphrases, by their words or as they are.       *)
Related(a, b) == Tok[a] \cap Tok[b] # {}

(* Mutant: a group takes in keywords that an earlier group has.            *)
ClusteredAgain(keywords, groups, i) ==
  IF keywords[i] \in UNION groups THEN groups
  ELSE groups \cup {{keywords[i]} \cup
                      {k \in ToSet(keywords) : Related(k, keywords[i])}}

(* Keyword intelligence: each keyword not yet used opens a group, and      *)
(* takes in those not used that share a word with it.                      *)
Clustered(keywords, groups, i) ==
  LET used == UNION groups
  IN  IF keywords[i] \in used THEN groups
      ELSE groups \cup {{keywords[i]} \cup
             {k \in ToSet(keywords) \ used : Related(k, keywords[i])}}
KeywordClusters(keywords) ==
  LET groups[i \in 0 .. Len(keywords)] ==
        IF i = 0 THEN {} ELSE Clustered(keywords, groups[i - 1], i)
  IN  groups[Len(keywords)]

(* Pages that compete with page i for the keyphrase it has the focus on; a *)
(* keyphrase without words is in competition with none.                    *)
Cannibalization(pages, i, focus) ==
  {j \in DOMAIN pages \ {i} :
     10 * Cardinality(Tok[focus] \cap Tok[pages[j]])
       >= 6 * Max({1, Cardinality(Tok[focus])})}

(* Site architecture: every page with a keyphrase opens a cluster, even if *)
(* an earlier one has it, and takes those no cluster has that share a word.*)
Gathered(pages, topics, i) ==
  LET has == topics.has \cup {i}
      members == {j \in DOMAIN pages \ has : Related(pages[j], pages[i])}
  IN  IF pages[i] = "" THEN topics
      ELSE [has |-> has \cup members,
            all |-> Append(topics.all, members \cup {i})]
TopicClusters(pages) ==
  LET topics[i \in 0 .. Len(pages)] ==
        IF i = 0 THEN [has |-> {}, all |-> <<>>]
        ELSE Gathered(pages, topics[i - 1], i)
  IN  topics[Len(pages)].all

(* Topical authority: one topic for each keyphrase, its words whatever they*)
(* are; its first page is the cornerstone, the others support it.          *)
Phrased(pages) == {k \in DOMAIN pages : pages[k] # ""}
TopicGraph(pages) ==
  {[pillar |-> Min(like), support |-> like \ {Min(like)}] :
     like \in {{j \in DOMAIN pages : pages[j] = pages[i]} :
                 i \in Phrased(pages)}}
CoverageScore(pages) ==
  IF pages = <<>> THEN 0
  ELSE (100 * Cardinality(Phrased(pages))) \div Len(pages)

(* Site architecture's score: links, pages in clusters (one of two counts  *)
(* for each, up to all pages), and no page too deep.                       *)
StructureScore(pages, clusters, links, deep) ==
  LET n == Len(pages)
      members == SumFunction([c \in DOMAIN clusters |->
                                Cardinality(clusters[c])])
  IN  IF n = 0 THEN 0
      ELSE (40 * AtMost(links, 3 * n)) \div (3 * n)
           + (40 * AtMost(members, n)) \div n + (20 * (n - deep)) \div n

-----------------------------------------------------------------------------
(* The engines that look at one page's content, or outside the site.       *)

(* A readability of zero counts as one that is not known.                  *)
Richness(ko) ==
  IF ko.words = 0 THEN Unknown
  ELSE (40 * AtMost(ko.words, 1000)) \div 1000 + 6 * AtMost(ko.headings, 5)
       + (30 * (IF ko.readability \in {Unknown, 0} THEN 50
                ELSE Clip(ko.readability))) \div 100

ContentDepth(ko) ==
  LET half == IF ko.shares = <<>> THEN 50
              ELSE SumFunction(ko.shares) \div Len(ko.shares)
  IN  IF ko.shares = <<>> /\ ko.words = 0 THEN Unknown
      ELSE (50 * AtMost(ko.words, 1500)) \div 1500 + half \div 2

(* The providers wired in; one that fails would be one that has nothing.   *)
FakeCompetitor == {[keyword |-> "competitor keyword", ours |-> Unknown]}
FakeBacklinks == <<55>>

KeywordGaps == {k \in FakeCompetitor : k.ours = Unknown}
BacklinkAuthority ==
  LET scores == SelectSeq(FakeBacklinks, LAMBDA d : d # Unknown)
  IN  IF scores = <<>> THEN Unknown
      ELSE FoldSeq(LAMBDA d, sum : d + sum, 0, scores) \div Len(scores)

-----------------------------------------------------------------------------
VARIABLES
  epages,   \* SiteContext: the keyphrases of its pages
  erow,     \* report rows, with what they were computed from
  emet,     \* two reports of one engine and scope were saved at once
  epc,      \* [Thread -> next call]
  edraft    \* [Thread -> the row it is about to insert]

evars == <<epages, erow, emet, epc, edraft>>

NoRow == [engine |-> "none", scope |-> 0, version |-> 0, input |-> {},
          options |-> NoOptions]

EInit ==
  /\ epages \in Sites
  /\ erow = <<>> /\ emet = FALSE
  /\ epc = [t \in Thread |-> "idle"]
  /\ edraft = [t \in Thread |-> NoRow]

(* The outputs of earlier engines that reach a service: the orchestrator  *)
(* puts them in the options, the engine hands the options on, and no       *)
(* service looks for them there.                                           *)
Upstream == {}

(* analyze() of the ten engines: the report on a page (its position) or on *)
(* the site (0), and none, an error, for a target of the other kind.       *)
PageOf(scope) == {scope} \ {0}
SiteOf(scope) == {scope} \cap {0}
TechnicalSeoEngine(scope, kos) ==
  {TechnicalSeoReport(kos) : s \in PageOf(scope)}
KeywordIntelligenceEngine(scope, kos) ==
  {[clusters |-> UNION {KeywordClusters(ko.keywords) : ko \in kos},
    competing |-> UNION {Cannibalization(epages, s, ko.focus) : ko \in kos}] :
     s \in PageOf(scope)}
ContentIntelligenceEngine(scope, kos) ==
  {[richness |-> {Richness(ko) : ko \in kos},
    depth |-> {ContentDepth(ko) : ko \in kos}] :
     s \in PageOf(scope)}
SeoScoringEngine(scope, kos, options) ==
  {[components |-> Components(kos, Upstream, Unknown, options),
    overall |-> SeoScoring(kos, Upstream, Unknown, options)] :
     s \in PageOf(scope)}
SiteArchitectureEngine(scope) ==
  LET clusters == TopicClusters(epages)
  IN  {[clusters |-> clusters,
        score |-> StructureScore(epages, clusters, 0, 0)] : s \in SiteOf(scope)}
TopicalAuthorityEngine(scope) ==
  {[topics |-> TopicGraph(epages), coverage |-> CoverageScore(epages)] :
     s \in SiteOf(scope)}
CompetitorIntelligenceEngine(scope) ==
  {[gaps |-> KeywordGaps] : s \in SiteOf(scope)}
BacklinkIntelligenceEngine(scope) ==
  {[authority |-> BacklinkAuthority] : s \in SiteOf(scope)}
OpportunityEngine(scope) ==
  {[opportunities |-> Opportunities(Upstream)] : s \in SiteOf(scope)}
RecommendationEngine(scope) ==
  {[recommendations |-> Recommendations(Opportunities(Upstream))]}

Report(engine, scope, kos, options) ==
  CASE engine = "technical_seo" -> TechnicalSeoEngine(scope, kos)
    [] engine = "keyword_intelligence" -> KeywordIntelligenceEngine(scope, kos)
    [] engine = "content_intelligence" -> ContentIntelligenceEngine(scope, kos)
    [] engine = "seo_scoring" -> SeoScoringEngine(scope, kos, options)
    [] engine = "site_architecture" -> SiteArchitectureEngine(scope)
    [] engine = "topical_authority" -> TopicalAuthorityEngine(scope)
    [] engine = "competitor_intelligence" -> CompetitorIntelligenceEngine(scope)
    [] engine = "backlink_intelligence" -> BacklinkIntelligenceEngine(scope)
    [] engine = "opportunity" -> OpportunityEngine(scope)
    [] engine = "recommendation" -> RecommendationEngine(scope)

(* An engine is run; one that answers with an error leaves nothing.        *)
Analyze(t, engine, scope, kos, options) ==
  /\ epc[t] = "idle"
  /\ Report(engine, scope, kos, options) # {}
  /\ Len(erow) + Cardinality({u \in Thread : epc[u] # "idle"}) < MaxReport
  /\ edraft' = [edraft EXCEPT ![t] = [engine |-> engine, scope |-> scope,
                                     version |-> 0, input |-> kos,
                                     options |-> options]]
  /\ emet' = (emet \/ \E u \in Thread : /\ edraft[u].engine = engine
                                        /\ edraft[u].scope = scope)
  /\ epc' = [epc EXCEPT ![t] = "number"]
  /\ UNCHANGED <<epages, erow>>

RowsLike(row) ==
  {i \in DOMAIN erow : erow[i].engine = row.engine /\ erow[i].scope = row.scope}

(* Mutant: the versions of all of an engine's reports are counted as one.  *)
NextOfEngine(t) ==
  /\ epc[t] = "number"
  /\ edraft' = [edraft EXCEPT ![t].version =
       1 + Max({0} \cup {erow[i].version : i \in {j \in DOMAIN erow :
                          erow[j].engine = edraft[t].engine}})]
  /\ epc' = [epc EXCEPT ![t] = "insert"]
  /\ UNCHANGED <<epages, erow, emet>>

(* The repository asks for the latest version of the scope.                *)
NextReport(t) ==
  /\ epc[t] = "number"
  /\ edraft' = [edraft EXCEPT ![t].version =
       1 + Max({0} \cup {erow[i].version : i \in RowsLike(edraft[t])})]
  /\ epc' = [epc EXCEPT ![t] = "insert"]
  /\ UNCHANGED <<epages, erow, emet>>

EndReport(t) ==
  /\ epc' = [epc EXCEPT ![t] = "idle"]
  /\ edraft' = [edraft EXCEPT ![t] = NoRow]

InsertReport(t) ==
  /\ epc[t] = "insert"
  /\ erow' = Append(erow, edraft[t])
  /\ EndReport(t)
  /\ UNCHANGED <<epages, emet>>

LoseReport(t) ==
  /\ Lossy /\ epc[t] # "idle"
  /\ EndReport(t)
  /\ UNCHANGED <<epages, erow, emet>>

ENext ==
  \E t \in Thread :
    \/ \E target \in Targets, kos \in {{}} \cup {{m} : m \in Measures},
          options \in {NoOptions} \cup Options :
         Analyze(t, target[1], target[2], kos, options)
    \/ NextReport(t) \/ InsertReport(t) \/ LoseReport(t)

ESpec == EInit /\ [][ENext]_evars
-----------------------------------------------------------------------------
ReportRow ==
  [engine : {target[1] : target \in Targets} \cup {"none"},
   scope : Nat, version : Nat, input : SUBSET Measures,
   options : {NoOptions} \cup Options]

ETypeOK ==
  /\ epages \in Sites
  /\ erow \in Seq(ReportRow) /\ emet \in BOOLEAN
  /\ epc \in [Thread -> {"idle", "number", "insert"}]
  /\ edraft \in [Thread -> ReportRow]

(* A stored score lies between the lowest and the highest component it has *)
(* evidence for: placeholders for what no engine or provider has measured  *)
(* neither raise nor lower it, and with no evidence at all it is zero; but *)
(* for a request that claims a negative completeness.  Of a page's content,*)
(* the richness is a percentage whatever was measured, the depth when a    *)
(* model answered percentages, as its prompt asks.                         *)
Share == {Unknown} \cup 0 .. 100
ScoresAverageEvidence ==
  \A i \in DOMAIN erow :
    LET row == erow[i]
        answers == Report(row.engine, row.scope, row.input, row.options)
    IN  /\ row.engine = "seo_scoring" /\ row.options.complete >= 0 =>
             \A report \in answers :
               LET c == report.components
                   evidence == {c[n].value :
                                  n \in {m \in DOMAIN c : c[m].complete > 0}}
               IN  IF evidence = {} THEN report.overall = 0
                   ELSE report.overall \in Min(evidence) .. Max(evidence)
        /\ row.engine = "content_intelligence" =>
             \A report \in answers :
               /\ report.richness \subseteq Share
               /\ (\A ko \in row.input : ToSet(ko.shares) \subseteq 0 .. 100)
                    => report.depth \subseteq Share

(* Each keyword of a page is in one group, each page with a keyphrase is   *)
(* in one topic, and in a cluster of the site's architecture at least; it  *)
(* competes with all others of its topic, unless the keyphrase is made of  *)
(* short words: then the page competes with none, its topic all the same.  *)
GroupsPartition ==
  /\ \A i \in DOMAIN erow : \A ko \in erow[i].input :
       LET groups == KeywordClusters(ko.keywords)
       IN  \A k \in ToSet(ko.keywords) :
             Cardinality({g \in groups : k \in g}) = 1
  /\ LET topics == {{g.pillar} \cup g.support : g \in TopicGraph(epages)}
         clusters == TopicClusters(epages)
     IN  /\ \A links \in 0 .. 4 * Len(epages), deep \in 0 .. Len(epages) :
              StructureScore(epages, clusters, links, deep) \in 0 .. 100
         /\ \A p \in Phrased(epages) :
              LET competing == Cannibalization(epages, p, epages[p])
              IN  /\ Cardinality({g \in topics : p \in g}) = 1
                  /\ p \in UNION ToSet(clusters)
                  /\ IF Tok[epages[p]] = {} THEN competing = {}
                     ELSE \A g \in {h \in topics : p \in h} :
                            g \ {p} \subseteq competing

(* As long as no two reports of one engine on one scope are under way at   *)
(* once, its versions count its rows in the order of their insertion.      *)
ReportVersions ==
  ~emet => \A i \in DOMAIN erow :
    erow[i].version = Cardinality({j \in RowsLike(erow[i]) : j <= i})
=============================================================================
