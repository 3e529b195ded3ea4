-------------------------- MODULE KnowledgeVersions --------------------------
(***************************************************************************)
(* Intelligence: the knowledge object of a page, kept as versions.  An     *)
(* analysis numbers the version, lets each service fill its section and    *)
(* ask the model for proposals, carries over what people have edited in    *)
(* the latest version, and inserts the row; a PATCH copies the latest      *)
(* version, sets fields in it and inserts the copy.  Number, latest        *)
(* version and insert are transactions of their own.                       *)
(*                                                                         *)
(* Abstractions: one page; of a version, the value at the paths people may *)
(* edit, the registry of overrides, the capabilities whose proposals it    *)
(* holds and those with an accepted invocation on record (ai_invocations,  *)
(* kept with the version); of an answer, the verdict of the validation.    *)
(***************************************************************************)
EXTENDS Service, FiniteSetsExt

CONSTANTS
  FreePath, LockedPath, UnknownPath,  \* paths a PATCH may name
  Subset,     \* the sets of sections analyses are asked for
  ProviderName, \* the model that is configured, "none" for none
  BareImages, \* whether the page has images without alt text
  Retries,    \* max_retries
  MaxRow, MaxEdit  \* bounds: rows of the page, edits

Computed == 0       \* the value an analysis gives a path
Cleared == MaxEdit + 1   \* None

ASSUME KnowledgeAssumption ==
  /\ BareImages \in BOOLEAN
  /\ {Retries, MaxRow, MaxEdit} \subseteq Nat

-----------------------------------------------------------------------------
(* The services in the order of the pipeline: the section each fills and   *)
(* the capabilities it asks for.                                           *)
Serves(section, asks) == [section |-> section, asks |-> asks]
TechnicalSeo == Serves("technical_seo", <<>>)
KeywordAnalysis == Serves("keyword_intelligence", <<"keyword_analysis">>)
ContentAnalysis == Serves("content_intelligence", <<"content_analysis">>)
MetadataGeneration ==
  Serves("metadata", <<"meta_generator", "title_generator", "slug_generator">>)
InternalLinking == Serves("internal_seo", <<"internal_linking">>)
ImageIntelligence ==
  Serves("image_intelligence", IF BareImages THEN <<"image_alt">> ELSE <<>>)
SchemaIntelligence == Serves("schema_intelligence", <<"schema_generator">>)
EeatAnalysis == Serves("eeat", <<>>)
ContentScore == Serves("content_score", <<>>)
SeoAudit == Serves("ai_summary", <<"seo_audit">>)

Pipeline ==
  <<TechnicalSeo, KeywordAnalysis, ContentAnalysis, MetadataGeneration,
    InternalLinking, ImageIntelligence, SchemaIntelligence, EeatAnalysis,
    ContentScore, SeoAudit>>

(* The capabilities of the prompt registry.                                *)
Capability ==
  {"keyword_analysis", "content_analysis", "meta_generator", "title_generator",
   "slug_generator", "internal_linking", "image_alt", "schema_generator",
   "seo_audit"}

(* The adapters: whatever goes wrong between the request and a text, even  *)
(* an answer of another shape, is the provider's failure.                  *)
Transport == {"answer", "timeout", "unreachable", "status", "shape"}
Completed(came) == IF came = "answer" THEN "answered" ELSE "provider failed"
OpenAICompatibleProvider == {Completed(came) : came \in Transport}
ClaudeProvider == {Completed(came) : came \in Transport}
GeminiProvider == {Completed(came) : came \in Transport}
FakeProvider == {"answered"}

BuildProvider ==
  [fake |-> FakeProvider, claude |-> ClaudeProvider, gemini |-> GeminiProvider,
   openai |-> OpenAICompatibleProvider, openrouter |-> OpenAICompatibleProvider,
   ollama |-> OpenAICompatibleProvider, local |-> OpenAICompatibleProvider]

(* What an analysis of some sections asks the model, in order.             *)
Asks(sections) ==
  LET Of(i) == IF Pipeline[i].section \in sections THEN Pipeline[i].asks
                                                    ELSE <<>>
  IN  IF ProviderName \in DOMAIN BuildProvider
        THEN Of(1) \o Of(2) \o Of(3) \o Of(4) \o Of(5) \o Of(6) \o Of(7)
               \o Of(8) \o Of(9) \o Of(10)
        ELSE <<>>

(* The forms of an answer that hold a payload: JSON, even fenced, among    *)
(* other text, or cut off where closing what is open completes it.         *)
AnswerForm == {"json", "fenced", "embedded", "cut after a value",
               "cut in a string", "prose", "empty"}
ExtractJson(form) == form \notin {"cut in a string", "prose", "empty"}

(* What a validator may do with a payload.                                 *)
JsonSchemaValidator == {"passed", "failed"}
KeywordSanityValidator == {"passed", "failed"}
HallucinationGuard == {"passed", "failed"}
UrlSlugValidator == {"passed", "failed"}
SchemaOrgValidator == {"passed", "failed"}
ExternalLinkValidator == {"passed", "corrected"}

(* The validators that follow the schema's, for each capability.           *)
CapabilityValidator ==
  [c \in Capability |->
     CASE c = "keyword_analysis" -> KeywordSanityValidator
       [] c = "meta_generator" -> HallucinationGuard
       [] c = "slug_generator" -> UrlSlugValidator
       [] c = "schema_generator" -> SchemaOrgValidator
       [] c = "internal_linking" -> ExternalLinkValidator
       [] OTHER -> {"passed"}]

(* The verdicts of the chain: an answer without a payload fails; then the  *)
(* first failure ends it, and a correction by any makes it a corrected one.*)
Verdict(c) ==
  LET Chain(s, v) == IF s = "failed" THEN "failed"
                     ELSE IF v = "passed" THEN s ELSE v
  IN  UNION {IF ExtractJson(form)
               THEN {Chain(s, v) : s \in JsonSchemaValidator,
                                   v \in CapabilityValidator[c]}
               ELSE {"failed"} : form \in AnswerForm}

(* What one attempt at a capability comes to.                              *)
Attempt(c) == (BuildProvider[ProviderName] \ {"answered"}) \cup Verdict(c)

-----------------------------------------------------------------------------
VARIABLES
  krow,      \* rows of knowledge_objects in the order of their insertion
  ksnapshot, \* whether the page's snapshot is stored
  kwanted,   \* what people last set each path to, unless forced since
  kmet,      \* two requests have been under way at once
  kpc,       \* [Thread -> next call]
  kreq,      \* [Thread -> the request]
  kdraft,    \* [Thread -> ko]
  ktodo,     \* [Thread -> capabilities still to ask]
  ktry       \* [Thread -> attempts made for the first of them]

krows == <<krow, ksnapshot, kwanted, kmet>>
klocal == <<kpc, kreq, kdraft, ktodo, ktry>>
kvars == <<krows, klocal>>

Path == FreePath \cup LockedPath

(* _base_knowledge_object: nothing is left of the versions before.         *)
BaseObject == [version |-> 0, proposed |-> {}, audited |-> {}, human |-> {},
               values |-> [p \in Path |-> Computed]]

NoRequest == [kind |-> "none", force |-> FALSE, fields |-> {}, value |-> 0]

KInit ==
  /\ krow = <<>>
  /\ ksnapshot = FALSE
  /\ kwanted = [p \in FreePath |-> Computed]
  /\ kmet = FALSE
  /\ kpc = [t \in Thread |-> "idle"]
  /\ kreq = [t \in Thread |-> NoRequest]
  /\ kdraft = [t \in Thread |-> BaseObject]
  /\ ktodo = [t \in Thread |-> <<>>]
  /\ ktry = [t \in Thread |-> 0]

(* get_latest: a row of the highest version, any of those that share it.   *)
Latest == {krow[i] : i \in {j \in DOMAIN krow :
             \A k \in DOMAIN krow : krow[k].version <= krow[j].version}}

NextVersion == 1 + Max({0} \cup {krow[i].version : i \in DOMAIN krow})

KGo(t, step) == kpc' = [kpc EXCEPT ![t] = step]
KMeet(t) == kmet' = (kmet \/ \E u \in Thread \ {t} : kpc[u] # "idle")

(* The request is over, and what it held is dropped.                       *)
KEnd(t) ==
  /\ KGo(t, "idle")
  /\ kreq' = [kreq EXCEPT ![t] = NoRequest]
  /\ kdraft' = [kdraft EXCEPT ![t] = BaseObject]
  /\ ktodo' = [ktodo EXCEPT ![t] = <<>>]
  /\ ktry' = [ktry EXCEPT ![t] = 0]

(* The page's one snapshot is written, or written over.                    *)
StoreSnapshot == ksnapshot' = TRUE

(* An analysis of a page just crawled, or of the stored snapshot, which    *)
(* must exist; either way the snapshot is written first.                   *)
RunAnalysis(t) ==
  /\ kpc[t] = "idle" /\ Len(krow) < MaxRow
  /\ \E crawled, force \in BOOLEAN, sections \in Subset :
       /\ crawled \/ ksnapshot
       /\ kreq' = [kreq EXCEPT ![t] = [NoRequest EXCEPT !.kind = "analysis",
                                                        !.force = force]]
       /\ ktodo' = [ktodo EXCEPT ![t] = Asks(sections)]
  /\ StoreSnapshot
  /\ KMeet(t) /\ KGo(t, "number")
  /\ UNCHANGED <<krow, kwanted, kdraft, ktry>>

(* PATCH of some fields: there is a version, none of the fields is locked. *)
PatchFields(t) ==
  /\ kpc[t] = "idle" /\ Len(krow) < MaxRow
  /\ \E latest \in Latest, value \in 1 .. MaxEdit \cup {Cleared},
        fields \in SUBSET (Path \cup UnknownPath) \ {{}} :
       /\ fields \cap LockedPath = {}
       /\ kdraft' = [kdraft EXCEPT ![t] = latest]
       /\ kreq' = [kreq EXCEPT ![t] = [NoRequest EXCEPT !.kind = "patch",
                                         !.fields = fields, !.value = value]]
  /\ KMeet(t) /\ KGo(t, "number")
  /\ UNCHANGED <<krow, ksnapshot, kwanted, ktodo, ktry>>

(* next_version; a PATCH then sets its fields, and fails at a field the    *)
(* object does not have.                                                   *)
TakeNumber(t) ==
  /\ kpc[t] = "number"
  /\ IF kreq[t].fields \cap UnknownPath # {} THEN KEnd(t)
     ELSE
     /\ LET set == kreq[t].fields
        IN  kdraft' = [kdraft EXCEPT
              ![t].version = NextVersion,
              ![t].human = @ \cup set,
              ![t].values = [p \in Path |->
                               IF p \in set THEN kreq[t].value ELSE @[p]]]
     /\ KGo(t, IF kreq[t].kind = "patch" THEN "save" ELSE "ask")
     /\ UNCHANGED <<kreq, ktodo, ktry>>
  /\ UNCHANGED krows

(* One attempt at a capability.  It is recorded whatever comes of it; a    *)
(* provider's error ends the capability, a failed validation does when the *)
(* attempts are used up, and only an accepted answer leaves a proposal.    *)
Invoke(t) ==
  /\ kpc[t] = "ask" /\ ktodo[t] # <<>>
  /\ \E verdict \in Attempt(Head(ktodo[t])) :
       LET c == Head(ktodo[t])
           accepted == verdict \in {"passed", "corrected"}
           again == verdict = "failed" /\ ktry[t] < Retries
           gains == IF accepted THEN {c} ELSE {}
       IN  /\ kdraft' = [kdraft EXCEPT ![t].proposed = @ \cup gains,
                                       ![t].audited = @ \cup gains]
           /\ ktodo' = [ktodo EXCEPT ![t] = IF again THEN @ ELSE Tail(@)]
           /\ ktry' = [ktry EXCEPT ![t] = IF again THEN @ + 1 ELSE 0]
  /\ UNCHANGED <<krows, kpc, kreq>>

(* Mutant: the overrides are copied from the oldest version.               *)
CarryForwardOldest(t) ==
  /\ kpc[t] = "ask" /\ ktodo[t] = <<>>
  /\ kdraft' = [kdraft EXCEPT ![t] =
                  IF kreq[t].force \/ krow = <<>> THEN @
                  ELSE [@ EXCEPT !.values = krow[1].values,
                                 !.human = krow[1].human]]
  /\ KGo(t, "save")
  /\ UNCHANGED <<krows, kreq, ktodo, ktry>>

(* _carry_forward_overrides: each overridden path of the latest version    *)
(* keeps its value, unless that is None or the analysis is forced.         *)
CarryForward(t) ==
  /\ kpc[t] = "ask" /\ ktodo[t] = <<>>
  /\ \E prior \in Latest \cup {BaseObject} :
       /\ prior = BaseObject => kreq[t].force \/ krow = <<>>
       /\ prior # BaseObject => ~kreq[t].force
       /\ LET kept == {p \in prior.human : prior.values[p] # Cleared}
          IN  kdraft' = [kdraft EXCEPT
                ![t].human = kept,
                ![t].values = [p \in Path |->
                                 IF p \in kept THEN prior.values[p]
                                               ELSE @[p]]]
  /\ KGo(t, "save")
  /\ UNCHANGED <<krows, kreq, ktodo, ktry>>

SaveVersion(t) ==
  /\ kpc[t] = "save"
  /\ krow' = Append(krow, kdraft[t])
  /\ kwanted' = [p \in FreePath |->
                   IF p \in kreq[t].fields THEN kreq[t].value
                   ELSE IF kreq[t].force THEN Computed ELSE kwanted[p]]
  /\ KEnd(t)
  /\ UNCHANGED <<ksnapshot, kmet>>

KLose(t) ==
  /\ Lossy /\ kpc[t] # "idle"
  /\ KEnd(t)
  /\ UNCHANGED krows

KNext ==
  \E t \in Thread :
    \/ RunAnalysis(t) \/ PatchFields(t) \/ TakeNumber(t) \/ Invoke(t)
    \/ CarryForward(t) \/ SaveVersion(t) \/ KLose(t)

KSpec == KInit /\ [][KNext]_kvars

-----------------------------------------------------------------------------
Object == [version : Nat, proposed : SUBSET Capability,
           audited : SUBSET Capability, human : SUBSET Path,
           values : [Path -> 0 .. Cleared]]

KTypeOK ==
  /\ krow \in Seq(Object)
  /\ ksnapshot \in BOOLEAN /\ kmet \in BOOLEAN
  /\ kwanted \in [FreePath -> 0 .. Cleared]
  /\ kpc \in [Thread -> {"idle", "number", "ask", "save"}]
  /\ kdraft \in [Thread -> Object]
  /\ ktodo \in [Thread -> Seq(Capability)]
  /\ ktry \in [Thread -> 0 .. Retries]
  /\ krow # <<>> => ksnapshot

(* A proposal that a version holds was accepted by the validation, and the *)
(* audit of the invocations has recorded so: however often a capability is *)
(* tried, fails or is lost, and whoever copied the version since.          *)
ProposalsAreAudited ==
  \A i \in DOMAIN krow : krow[i].proposed \subseteq krow[i].audited

(* As long as requests do not overlap, the versions count the rows, and    *)
(* the latest holds at each path what people last set there, unless a      *)
(* forced analysis has replaced it since: no analysis of any sections, no  *)
(* refused PATCH and no lost call undoes an edit.                          *)
EditsSurvive ==
  ~kmet =>
    /\ \A i \in DOMAIN krow : krow[i].version = i
    /\ krow # <<>> =>
         \A p \in FreePath : kwanted[p] # Cleared =>
           krow[Len(krow)].values[p] = kwanted[p]

(* The invariant of a page's knowledge objects: what is proposed is        *)
(* audited, and what people edited survives.                               *)
KnowledgeHolds == KTypeOK /\ ProposalsAreAudited /\ EditsSurvive
=============================================================================
