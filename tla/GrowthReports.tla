--------------------------- MODULE GrowthReports ---------------------------
(***************************************************************************)
(* The growth reports that are versioned like the engines': local SEO,     *)
(* reputation, content optimisation and outreach.  A request computes the  *)
(* report, the repository takes the next version of its scope, and inserts *)
(* it in another transaction.                                              *)
(*                                                                         *)
(* Abstractions: names, addresses and phone numbers are values up to what  *)
(* normalize() makes equal; a review's text is how bad the words in it are;*)
(* shares of one are in thousandths.                                       *)
(***************************************************************************)
EXTENDS Service, Ordering, FiniteSetsExt, SequencesExt

CONSTANTS
  Pages,       \* sequences of pages: their LocalBusiness blocks, contact info
  Reviews,     \* sequences of reviews: rating, words, what the model says
  Contents,    \* what content optimisation is told of a page
  DraftLimit,  \* responses drafted for one report
  SnippetLimit, PaaLimit,   \* questions looked at
  MaxGrowthReport   \* bound on the rows

Empty == ""
DraftsAllowed == {"critical", "high"}

(* What a page says of a business; what a review is, its rating in tenths  *)
(* of a star, which nothing bounds, and what the model says of it: an      *)
(* error, some words, or a label and a score of its own in JSON; and what  *)
(* is known of a content.                                                  *)
Nap == [name : STRING, phone : STRING, address : STRING]
Opinion ==
  [how : {"error", "words", "json"},
   label : {"positive", "neutral", "negative", "other"}, score : Int]
Review ==
  [rating : Int, words : {"none", "high", "critical"}, model : Opinion,
   answers : BOOLEAN]
Content ==
  [questions : Seq(STRING), headings : SUBSET STRING, covered : SUBSET STRING,
   intent : {"none", "unknown", "matching", "other"}, lacks : SUBSET STRING]

ASSUME GrowthReportAssumption ==
  /\ {DraftLimit, SnippetLimit, PaaLimit, MaxGrowthReport} \subseteq Nat
  /\ Pages \subseteq Seq([schema : Seq(Nap), contact : Seq(Nap)])
  /\ Reviews \subseteq Seq(Review) /\ Contents \subseteq Content
  /\ \A c \in Contents : IsFiniteSet(c.lacks)

-----------------------------------------------------------------------------
(* Local SEO.  The blocks of a page come before its contact information.   *)
NapData(pages) ==
  FlattenSeq([i \in DOMAIN pages |-> pages[i].schema \o pages[i].contact])

Match(a, b, field) == a[field] = b[field]
SameBusiness(a, b) ==
  \E f \in {"name", "phone"} : a[f] # Empty /\ Match(a, b, f)

Disagreements(a, b) ==
  IF ~SameBusiness(a, b) THEN {}
  ELSE {f \in {"name", "phone", "address"} :
          a[f] # Empty /\ b[f] # Empty /\ ~Match(a, b, f)}

NapConsistency(records) ==
  UNION {Disagreements(records[i], records[j]) :
           i \in DOMAIN records, j \in DOMAIN records}

Locations(records) == {<<r.name, r.phone>> : r \in ToSet(records)}

(* What the location profiles say of categories, photographs, posts and    *)
(* citations is the same for every location.                               *)
LocalSeoScore(records) ==
  LET some == Locations(records) # {}
  IN  (400 * (IF NapConsistency(records) = {} THEN 1000 ELSE 500)
       + 300 * (IF some THEN 865 ELSE 0)
       + 200 * (IF some THEN 920 ELSE 0)
       + 100 * 1000) \div 1000

-----------------------------------------------------------------------------
(* Reputation.  The model answers with a label, or in words that have one  *)
(* in them, or fails, which leaves the rating.                             *)
Heuristic(rating) ==
  CASE rating >= 40 -> "positive"
    [] rating >= 30 /\ rating < 40 -> "neutral"
    [] OTHER -> "negative"
Sentiment(review) ==
  CASE review.model.how = "error" -> Heuristic(review.rating)
    [] review.model.how # "error" /\ review.model.label = "other" -> "neutral"
    [] OTHER -> review.model.label

(* How good the mood is: a score in JSON need not agree with the label.    *)
Polarity(review) ==
  LET sign == [positive |-> 1, neutral |-> 0, negative |-> -1]
      score == review.model.score
  IN  CASE review.model.how = "error" -> 800 * sign[Sentiment(review)]
        [] review.model.how = "words" -> 700 * sign[Sentiment(review)]
        [] OTHER -> IF score < -1000 THEN -1000
                    ELSE IF score > 1000 THEN 1000 ELSE score

Urgency(review) ==
  IF review.words \in DraftsAllowed THEN review.words ELSE "medium"

NegativeFlags(reviews) ==
  {i \in DOMAIN reviews : Sentiment(reviews[i]) = "negative"}
Pressing(reviews) ==
  {i \in NegativeFlags(reviews) : Urgency(reviews[i]) \in DraftsAllowed}

(* ResponseDrafts: for the first of the pressing flags, but for those the  *)
(* model does not answer.                                                  *)
ResponseDrafts(reviews) ==
  LET first == InOrder(Pressing(reviews))
  IN  {first[k] : k \in {l \in 1 .. Min({DraftLimit, Len(first)}) :
         reviews[first[l]].answers}}

Mean(s) == SumFunction(s) \div Len(s)

(* 250 for each star after the first; the half of one and a mean mood.     *)
Stars(reviews) == [i \in DOMAIN reviews |-> 25 * (reviews[i].rating - 10)]
RatingScore(reviews) == IF reviews = <<>> THEN 500 ELSE Mean(Stars(reviews))
Moods(reviews) == [i \in DOMAIN reviews |-> Polarity(reviews[i])]
SentimentScore(reviews) ==
  (1000 + IF reviews = <<>> THEN 0 ELSE Mean(Moods(reviews))) \div 2
HasCritical(reviews) ==
  \E i \in NegativeFlags(reviews) : Urgency(reviews[i]) = "critical"
ReputationScore(reviews) ==
  (350 * RatingScore(reviews) + 300 * SentimentScore(reviews)
   + 150 * 10 * Min({Len(reviews), 100})
   + 200 * (IF HasCritical(reviews) THEN 500 ELSE 1000)) \div 1000

(* What the provider of the container answers, if the model fails or not:  *)
(* the one it has gives no label.                                          *)
Failing == [how |-> "error", label |-> "other", score |-> 0]
Unlabelled == [how |-> "json", label |-> "neutral", score |-> 0]
FakeReviews(model, answers) ==
  LET Rated(rating, words) == [rating |-> rating, words |-> words,
                               model |-> model, answers |-> answers]
  IN  <<Rated(50, "none"), Rated(10, "critical"), Rated(40, "none")>>

-----------------------------------------------------------------------------
(* Content optimisation.  A page that needs nothing is told to go on so,   *)
(* which counts as one recommendation.                                     *)
SnippetOpportunities(c) ==
  [i \in 1 .. Min({SnippetLimit, Len(c.questions)}) |->
     IF c.questions[i] \in c.headings THEN 720 ELSE 580]
PaaOpportunities(c) ==
  [i \in 1 .. Min({PaaLimit, Len(c.questions)}) |->
     IF c.questions[i] \in c.covered THEN 800 ELSE 350]
IntentMatch(c) ==
  [none |-> 750, unknown |-> 750, matching |-> 900, other |-> 550][c.intent]
EeatRecommendations(c) == IF c.lacks = {} THEN {"maintain"} ELSE c.lacks

MeanIfAny(s) == IF s = <<>> THEN 1000 ELSE Mean(s)
OptimizationScore(c) ==
  (MeanIfAny(SnippetOpportunities(c)) + MeanIfAny(PaaOpportunities(c))
   + IntentMatch(c)
   + Max({300, 1000 - 180 * Cardinality(EeatRecommendations(c))})) \div 4

-----------------------------------------------------------------------------
VARIABLES
  grow,    \* rows, with what they were computed from
  gmet,    \* two reports of one kind and scope were saved at once
  grpc,    \* [Thread -> next call]
  gdraft   \* [Thread -> the row it is about to insert]

grvars == <<grow, gmet, grpc, gdraft>>

NoReport == [kind |-> "none", scope |-> 0, version |-> 0, input |-> <<>>]
Inputs(kind) == CASE kind = "local_seo" -> {NapData(p) : p \in Pages}
                  [] kind = "reputation" -> Reviews \cup
                         {FakeReviews(Failing, FALSE),
                          FakeReviews(Unlabelled, TRUE)}
                  [] kind = "content_optimization" -> {<<c>> : c \in Contents}
                  [] OTHER -> {<<>>}
Kind == {"local_seo", "reputation", "content_optimization", "outreach"}

GrInit ==
  /\ grow = <<>> /\ gmet = FALSE
  /\ grpc = [t \in Thread |-> "idle"]
  /\ gdraft = [t \in Thread |-> NoReport]

(* analyze(); that of reputation may fail, when reviews cannot be fetched. *)
AnalyzeGrowth(t, kind, scope, input) ==
  /\ grpc[t] = "idle"
  /\ Len(grow) + Cardinality({u \in Thread : grpc[u] # "idle"})
       < MaxGrowthReport
  /\ gdraft' = [gdraft EXCEPT ![t] =
       [kind |-> kind, scope |-> scope, version |-> 0, input |-> input]]
  /\ gmet' = (gmet \/ \E u \in Thread : /\ gdraft[u].kind = kind
                                        /\ gdraft[u].scope = scope)
  /\ grpc' = [grpc EXCEPT ![t] = "number"]
  /\ UNCHANGED grow

Alike(row) ==
  {i \in DOMAIN grow : grow[i].kind = row.kind /\ grow[i].scope = row.scope}

NumberGrowth(t) ==
  /\ grpc[t] = "number"
  /\ gdraft' = [gdraft EXCEPT ![t].version =
       1 + Max({0} \cup {grow[i].version : i \in Alike(gdraft[t])})]
  /\ grpc' = [grpc EXCEPT ![t] = "insert"]
  /\ UNCHANGED <<grow, gmet>>

GrEnd(t) ==
  /\ grpc' = [grpc EXCEPT ![t] = "idle"]
  /\ gdraft' = [gdraft EXCEPT ![t] = NoReport]

InsertGrowth(t) ==
  /\ grpc[t] = "insert"
  /\ grow' = Append(grow, gdraft[t])
  /\ GrEnd(t)
  /\ UNCHANGED gmet

LoseGrowth(t) ==
  /\ Lossy /\ grpc[t] # "idle"
  /\ GrEnd(t)
  /\ UNCHANGED <<grow, gmet>>

GrNext ==
  \E t \in Thread :
    \/ \E kind \in Kind, scope \in {1, 2} : \E input \in Inputs(kind) :
         AnalyzeGrowth(t, kind, scope, input)
    \/ NumberGrowth(t) \/ InsertGrowth(t) \/ LoseGrowth(t)

GrSpec == GrInit /\ [][GrNext]_grvars

-----------------------------------------------------------------------------
Row ==
  {row \in [kind : Kind \cup {"none"}, scope : Nat, version : Nat,
           input : UNION {Inputs(kind) : kind \in Kind}] :
     row.input \in Inputs(row.kind)}
GrTypeOK ==
  /\ grow \in Seq(Row) /\ gmet \in BOOLEAN
  /\ grpc \in [Thread -> {"idle", "number", "insert"}]
  /\ gdraft \in [Thread -> Row]

Scale == 0 .. 1000
Stored(kind) == {grow[i] : i \in {j \in DOMAIN grow : grow[j].kind = kind}}

(* A report does not depend on the order the pages or reviews came in: two *)
(* records of one business that differ are found wherever they stand, and  *)
(* each score stays within its scale; that of reviews if they are rated    *)
(* from one star to five, whatever the model scores them.                  *)
ReportsIgnoreOrder ==
  /\ \A row \in Stored("local_seo") :
       LET back == Reverse(row.input)
       IN  /\ NapConsistency(row.input) = NapConsistency(back)
           /\ (NapConsistency(row.input) = {}) =
                \A a, b \in ToSet(row.input) : Disagreements(a, b) = {}
           /\ LocalSeoScore(row.input) \in Scale
  /\ \A row \in Stored("reputation") :
       /\ ReputationScore(row.input) = ReputationScore(Reverse(row.input))
       /\ (\A review \in ToSet(row.input) : review.rating \in 10 .. 50)
            => ReputationScore(row.input) \in Scale
  /\ \A row \in Stored("content_optimization") :
       OptimizationScore(row.input[1]) \in Scale

(* A response is drafted for pressing negative reviews only, and for each  *)
(* of them the model answered, those before the limit.                     *)
DraftsAnswerReviews ==
  \A row \in Stored("reputation") :
    LET drafts == ResponseDrafts(row.input)
        owed == {i \in DOMAIN row.input :
                   Sentiment(row.input[i]) = "negative" /\ row.input[i].answers
                     /\ row.input[i].words \in DraftsAllowed}
        earlier(i) ==
          {j \in 1 .. i - 1 : /\ Sentiment(row.input[j]) = "negative"
                              /\ row.input[j].words \in DraftsAllowed}
    IN  drafts = {i \in owed : Cardinality(earlier(i)) < DraftLimit}

(* As long as no two reports of one kind on one scope are under way at     *)
(* once, its versions count its rows in the order of their insertion.      *)
GrowthVersions ==
  ~gmet => \A i \in DOMAIN grow :
    grow[i].version = Cardinality({j \in Alike(grow[i]) : j <= i})
=============================================================================
