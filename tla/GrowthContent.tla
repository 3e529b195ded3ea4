--------------------------- MODULE GrowthContent ---------------------------
(***************************************************************************)
(* Content assets of the growth layer: one is generated as a draft, then   *)
(* submitted, decided, published and verified.  Every operation reads the  *)
(* asset, makes a changed copy with one more history entry, and writes the *)
(* whole copy back in another transaction, so that the copy of one request *)
(* may be written over another's.                                          *)
(*                                                                         *)
(* Abstractions: a payload is whether the model wrote it; actors, notes    *)
(* and dates are left out, the dates but for whether they are set.         *)
(***************************************************************************)
EXTENDS Service, SequencesExt

CONSTANTS
  AssetType,    \* [asset -> its type]; its domain are the assets
  MaxHistory    \* bound on an asset's history

(* ASSET_TYPES_REQUIRING_REVIEW; the argument that would override it for   *)
(* an organisation is never passed.                                        *)
RequiringReview == {"blog_post", "landing_page", "service_page",
                    "pillar_page", "location_page", "comparison_page"}
ContentAssetType == RequiringReview \cup
  {"product_page", "category_page", "faq_page", "cluster_page"}
ContentAssetStatus == {"draft", "pending", "in_review", "approved", "published",
                       "verified", "closed", "rejected", "failed"}

ASSUME ContentAssumption ==
  /\ MaxHistory \in Nat
  /\ AssetType \in [DOMAIN AssetType -> ContentAssetType]

Asset == DOMAIN AssetType

VARIABLES
  casset,    \* [Asset -> its row]
  canswered, \* [Asset -> decisions whose caller got the asset back]
  cmet,      \* assets two requests worked on at once
  cpc,       \* [Thread -> next call]
  cwork,     \* [Thread -> the asset and the operation on it]
  ccopy      \* [Thread -> the copy it is about to save]

cvars == <<casset, canswered, cmet, cpc, cwork, ccopy>>

HistoryEntry == [from : ContentAssetStatus, to : ContentAssetStatus]
ContentAsset == [status : ContentAssetStatus, history : Seq(HistoryEntry),
                 written : BOOLEAN, dated : SUBSET ContentAssetStatus]
NoAsset ==
  [status |-> "none", history |-> <<>>, written |-> FALSE, dated |-> {}]
NoTask == [asset |-> "none", operation |-> "none"]
Operation == {"submit", "approve", "reject", "publish", "verify"}

CInit ==
  /\ casset = [a \in Asset |-> NoAsset]
  /\ canswered = [a \in Asset |-> 0]
  /\ cmet = {}
  /\ cpc = [t \in Thread |-> "idle"]
  /\ cwork = [t \in Thread |-> NoTask]
  /\ ccopy = [t \in Thread |-> NoAsset]

-----------------------------------------------------------------------------
(* Where an operation takes an asset: from any status.                     *)
Target(a, operation) ==
  CASE operation = "submit" ->
         IF AssetType[a] \in RequiringReview THEN "in_review" ELSE "pending"
    [] operation = "approve" -> "approved"
    [] operation = "reject" -> "rejected"
    [] operation = "publish" -> "published"
    [] operation = "verify" -> "verified"

Dated == {"approved", "published", "verified"}
Transition(asset, status) ==
  [asset EXCEPT !.status = status,
                !.history = Append(@, [from |-> asset.status, to |-> status]),
                !.dated = @ \cup ({status} \cap Dated)]

(* The model answers, or its error is the text of the draft.               *)
Generate(a, answers) ==
  /\ casset[a] = NoAsset
  /\ casset' = [casset EXCEPT ![a] = [status |-> "draft", history |-> <<>>,
                                      written |-> answers, dated |-> {}]]
  /\ UNCHANGED <<canswered, cmet, cpc, cwork, ccopy>>

Decide(t, a, operation) ==
  /\ cpc[t] = "idle" /\ casset[a] # NoAsset
  /\ Len(casset[a].history) +
       Cardinality({u \in Thread : cwork[u].asset = a}) < MaxHistory
  /\ cwork' = [cwork EXCEPT ![t] = [asset |-> a, operation |-> operation]]
  /\ cmet' = cmet \cup {b \in {a} : \E u \in Thread : cwork[u].asset = b}
  /\ cpc' = [cpc EXCEPT ![t] = "get"]
  /\ UNCHANGED <<casset, canswered, ccopy>>

CEnd(t) ==
  /\ cpc' = [cpc EXCEPT ![t] = "idle"]
  /\ cwork' = [cwork EXCEPT ![t] = NoTask]
  /\ ccopy' = [ccopy EXCEPT ![t] = NoAsset]

Copy(t) ==
  /\ ccopy' = [ccopy EXCEPT ![t] =
       Transition(casset[cwork[t].asset],
                  Target(cwork[t].asset, cwork[t].operation))]
  /\ cpc' = [cpc EXCEPT ![t] = "save"]
  /\ UNCHANGED cwork

(* Mutant: any asset can be published.                                     *)
GetAnyStatus(t) ==
  /\ cpc[t] = "get"
  /\ Copy(t)
  /\ UNCHANGED <<casset, canswered, cmet>>

(* The asset is read, and only an approved one can be published.           *)
Get(t) ==
  /\ cpc[t] = "get"
  /\ IF /\ cwork[t].operation = "publish"
        /\ casset[cwork[t].asset].status # "approved"
       THEN CEnd(t)
       ELSE Copy(t)
  /\ UNCHANGED <<casset, canswered, cmet>>

SaveAsset(t) ==
  /\ cpc[t] = "save"
  /\ casset' = [casset EXCEPT ![cwork[t].asset] = ccopy[t]]
  /\ canswered' = [canswered EXCEPT ![cwork[t].asset] = @ + 1]
  /\ CEnd(t)
  /\ UNCHANGED cmet

LoseAsset(t) ==
  /\ Lossy /\ cpc[t] # "idle"
  /\ CEnd(t)
  /\ UNCHANGED <<casset, canswered, cmet>>

(* list_review_queue.                                                      *)
ReviewQueue == {a \in Asset : casset[a].status \in {"in_review", "pending"}}

CNext ==
  \/ \E a \in Asset, answers \in BOOLEAN : Generate(a, answers)
  \/ \E t \in Thread : \/ \E a \in Asset, o \in Operation : Decide(t, a, o)
                       \/ Get(t) \/ SaveAsset(t) \/ LoseAsset(t)

CSpec == CInit /\ [][CNext]_cvars

-----------------------------------------------------------------------------
CTypeOK ==
  /\ casset \in [Asset -> ContentAsset \cup {NoAsset}]
  /\ canswered \in [Asset -> Nat] /\ cmet \subseteq Asset
  /\ cpc \in [Thread -> {"idle", "get", "save"}]
  /\ cwork \in [Thread -> [asset : Asset, operation : Operation] \cup {NoTask}]
  /\ ccopy \in [Thread -> ContentAsset \cup {NoAsset}]

(* An asset's history is a chain that starts with the draft and ends with  *)
(* its status; it was never published but out of approved.                 *)
Chained(asset) ==
  \A i \in DOMAIN asset.history :
    /\ asset.history[i].from =
         IF i = 1 THEN "draft" ELSE asset.history[i - 1].to
    /\ asset.history[i].to = "published" => asset.history[i].from = "approved"
    /\ i = Len(asset.history) => asset.status = asset.history[i].to

(* Whatever order the copies are written in, the asset that is stored has  *)
(* such a history, with a date for each approval, publication and check;   *)
(* and as long as no two requests worked on it at once, every decision     *)
(* that was answered is in it.                                             *)
ContentHistoryHolds ==
  \A a \in Asset :
    /\ Chained(casset[a])
    /\ {casset[a].history[i].to : i \in DOMAIN casset[a].history}
         \cap Dated = casset[a].dated
    /\ a \notin cmet => Len(casset[a].history) = canswered[a]

(* The invariant of content assets: a status is the end of a legal history.*)
ContentHolds == CTypeOK /\ ContentHistoryHolds
=============================================================================
