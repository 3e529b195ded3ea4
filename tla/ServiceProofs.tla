---------------------------- MODULE ServiceProofs ----------------------------
(***************************************************************************)
(* What the services beside the crawl keep, for any number of threads and  *)
(* rows, with and without lost calls: what people edited in the knowledge  *)
(* of a page survives, content assets have a legal history, the tenants of *)
(* the agency keep apart, due rules fire once, the records of the SaaS     *)
(* services keep their turns and their last writes, the reports of the     *)
(* engines and of the growth modules are numbered one after the other and  *)
(* agree with what they are computed from, what a capture of rankings      *)
(* stores is complete, and an audit of the engines ends with the status it *)
(* deserves.                                                               *)
(***************************************************************************)
EXTENDS KnowledgeVersions, GrowthContent, Agency, GrowthAutomation,
        SaasRecords, Reports, RankTracking, EngineAudit, DataLemmas

-----------------------------------------------------------------------------
(* Knowledge objects.                                                      *)

Request == [kind : {"none", "analysis", "patch"}, force : BOOLEAN,
            fields : SUBSET (Path \cup UnknownPath), value : 0 .. Cleared]

(* A request under way has a snapshot to work on; the version it holds has *)
(* its proposals on record, and numbers grow no faster than rows.          *)
Held ==
  /\ kreq \in [Thread -> Request]
  /\ \A i \in DOMAIN krow : krow[i].version <= Len(krow)
  /\ \A t \in Thread :
       /\ kpc[t] = "idle" => kdraft[t] = BaseObject
       /\ kpc[t] # "idle" => ksnapshot
       /\ kpc[t] = "number" => kreq[t].kind \in {"analysis", "patch"}
       /\ kpc[t] \in {"ask", "save"} => kdraft[t].version <= Len(krow) + 1
       /\ kdraft[t].proposed \subseteq kdraft[t].audited

(* What people want at each path is there, and known to be theirs.         *)
Carries(object, wishes) ==
  \A p \in FreePath : wishes[p] # Cleared =>
    object.values[p] = wishes[p] /\ (wishes[p] # Computed => p \in object.human)

(* What people will have asked for once the request is saved.              *)
WantedAfter(t) == [p \in FreePath |->
                     IF p \in kreq[t].fields THEN kreq[t].value
                     ELSE IF kreq[t].force THEN Computed ELSE kwanted[p]]

(* Requests one at a time: the last row is the latest version, and the     *)
(* request under way starts from it.                                       *)
OneAtATime ==
  /\ \A t, u \in Thread : kpc[t] # "idle" /\ kpc[u] # "idle" => t = u
  /\ \A i \in DOMAIN krow : krow[i].version = i
  /\ krow = <<>> => \A p \in FreePath : kwanted[p] = Computed
  /\ krow # <<>> => Carries(krow[Len(krow)], kwanted)
  /\ \A t \in Thread :
       /\ kpc[t] = "number" /\ kreq[t].kind = "patch" =>
            krow # <<>> /\ kdraft[t] = krow[Len(krow)] /\ ~ kreq[t].force
       /\ kpc[t] = "number" /\ kreq[t].kind = "analysis" =>
            kdraft[t] = BaseObject /\ kreq[t].fields = {}
       /\ kpc[t] = "ask" => /\ kreq[t].fields = {}
                            /\ kdraft[t].version = Len(krow) + 1
                            /\ kdraft[t].human = {}
                            /\ \A p \in Path : kdraft[t].values[p] = Computed
       /\ kpc[t] = "save" => /\ kdraft[t].version = Len(krow) + 1
                             /\ Carries(kdraft[t], WantedAfter(t))

KInv ==
  KTypeOK /\ Held /\ ProposalsAreAudited /\ (~ kmet => OneAtATime)

-----------------------------------------------------------------------------
(* A bounded set of numbers has its maximum: the least of its bounds.      *)
LEMMA MaxOfBounded ==
  ASSUME NEW n \in Nat, NEW S, S \subseteq 0 .. n, S # {}
  PROVE  Max(S) \in S /\ \A x \in S : x <= Max(S)
<1> DEFINE T == {m \in Nat : \A x \in S : x <= m}
<1>1. n \in T
  OBVIOUS
<1>2. PICK m \in T : \A y \in T : m <= y
  <2> HIDE DEF T
  <2>1. T \subseteq Nat
    BY DEF T
  <2> QED BY <1>1, <2>1, SmallestNumber
<1>3. m \in S
  <2> SUFFICES ASSUME m \notin S PROVE FALSE
    OBVIOUS
  <2>1. \A x \in S : x \in Nat /\ x < m
    OBVIOUS
  <2>2. m # 0
    <3>1. PICK x \in S : TRUE
      OBVIOUS
    <3> QED BY <2>1, <3>1
  <2>3. m - 1 \in Nat /\ \A x \in S : x <= m - 1
    BY <2>1, <2>2
  <2>4. m - 1 \in T
    BY <2>3
  <2> QED BY <1>2, <2>4
<1>4. \E x \in S : \A y \in S : x >= y
  BY <1>2, <1>3
<1>5. Max(S) \in S /\ \A y \in S : Max(S) >= y
  BY <1>4 DEF Max
<1> QED BY <1>5

(* The number a version gets; without overlap, the next one.               *)
LEMMA NextVersionType ==
  ASSUME KTypeOK, Held
  PROVE  /\ NextVersion \in Nat /\ NextVersion <= Len(krow) + 1
         /\ OneAtATime => NextVersion = Len(krow) + 1
<1> DEFINE S == {0} \cup {krow[i].version : i \in DOMAIN krow}
<1>1. /\ Len(krow) \in Nat /\ DOMAIN krow = 1 .. Len(krow)
      /\ \A i \in DOMAIN krow : krow[i].version \in Nat
  <2>1. krow \in Seq(Object) /\ \A o \in Object : o.version \in Nat
    BY DEF KTypeOK, Object
  <2> HIDE DEF S
  <2> QED BY <2>1
<1>2. S \subseteq 0 .. Len(krow) /\ S # {}
  BY <1>1 DEF Held
<1>3. OneAtATime => Len(krow) \in S
  BY <1>1 DEF OneAtATime
<1>4. NextVersion = 1 + Max(S)
  BY DEF NextVersion
<1> HIDE DEF S
<1>5. Max(S) \in S /\ \A x \in S : x <= Max(S)
  BY <1>1, <1>2, MaxOfBounded
<1>6. Max(S) \in 0 .. Len(krow)
  BY <1>2, <1>5
<1>7. OneAtATime => Max(S) = Len(krow)
  BY <1>1, <1>3, <1>5, <1>6
<1> QED BY <1>1, <1>4, <1>6, <1>7

(* The latest version is a row; without overlap, the last.                 *)
LEMMA LatestRow ==
  ASSUME KTypeOK
  PROVE  /\ \A r \in Latest : r \in Object /\ krow # <<>>
         /\ \A r \in Latest : \E i \in DOMAIN krow : r = krow[i]
         /\ OneAtATime => \A r \in Latest : r = krow[Len(krow)]
<1>1. /\ Len(krow) \in Nat /\ DOMAIN krow = 1 .. Len(krow)
      /\ \A i \in DOMAIN krow : krow[i] \in Object
      /\ krow = <<>> => DOMAIN krow = {}
  BY DEF KTypeOK
<1>2. \A r \in Latest :
        \E i \in DOMAIN krow : /\ r = krow[i]
                               /\ \A k \in DOMAIN krow :
                                    krow[k].version <= krow[i].version
  BY DEF Latest
<1>3. OneAtATime => \A r \in Latest : r = krow[Len(krow)]
  <2> SUFFICES ASSUME OneAtATime, NEW r \in Latest PROVE r = krow[Len(krow)]
    OBVIOUS
  <2>1. PICK i \in DOMAIN krow : /\ r = krow[i]
                                 /\ \A k \in DOMAIN krow :
                                      krow[k].version <= krow[i].version
    BY <1>2
  <2>2. Len(krow) \in DOMAIN krow
    BY <1>1, <2>1
  <2>3. Len(krow) <= i
    BY <2>1, <2>2 DEF OneAtATime
  <2> QED BY <1>1, <2>1, <2>3
<1> QED BY <1>1, <1>2, <1>3

(* The request for the ten services: any sections, any provider.           *)
LEMMA AsksType == \A sections : Asks(sections) \in Seq(Capability)
<1> SUFFICES ASSUME NEW sections PROVE Asks(sections) \in Seq(Capability)
  OBVIOUS
<1> DEFINE Of(i) == IF Pipeline[i].section \in sections THEN Pipeline[i].asks
                                                        ELSE <<>>
<1>1. /\ \A c \in Capability : <<c>> \in Seq(Capability)
      /\ <<>> \in Seq(Capability)
      /\ \A c, d, e \in Capability : <<c, d, e>> \in Seq(Capability)
  OBVIOUS
<1>2. /\ Pipeline[1].asks = <<>> /\ Pipeline[2].asks = <<"keyword_analysis">>
      /\ Pipeline[3].asks = <<"content_analysis">>
      /\ Pipeline[4].asks =
           <<"meta_generator", "title_generator", "slug_generator">>
      /\ Pipeline[5].asks = <<"internal_linking">>
      /\ Pipeline[6].asks = IF BareImages THEN <<"image_alt">> ELSE <<>>
      /\ Pipeline[7].asks = <<"schema_generator">> /\ Pipeline[8].asks = <<>>
      /\ Pipeline[9].asks = <<>> /\ Pipeline[10].asks = <<"seo_audit">>
  BY DEF Pipeline, Serves, TechnicalSeo, KeywordAnalysis, ContentAnalysis,
         MetadataGeneration, InternalLinking, ImageIntelligence,
         SchemaIntelligence, EeatAnalysis, ContentScore, SeoAudit
<1>3. \A i \in 1 .. 10 : Pipeline[i].asks \in Seq(Capability)
  <2>1. {"keyword_analysis", "content_analysis", "meta_generator",
         "title_generator", "slug_generator", "internal_linking", "image_alt",
         "schema_generator", "seo_audit"} \subseteq Capability
    BY DEF Capability
  <2>2. ASSUME NEW i \in 1 .. 10
        PROVE  i \in {1, 2, 3, 4, 5, 6, 7, 8, 9, 10}
    OBVIOUS
  <2> QED BY <1>1, <1>2, <2>1, <2>2
<1>4. \A i \in 1 .. 10 : Of(i) \in Seq(Capability)
  BY <1>1, <1>3
<1> HIDE DEF Of
<1>5. \A s, t \in Seq(Capability) : s \o t \in Seq(Capability)
  BY ConcatProperties
<1>6. Of(1) \o Of(2) \in Seq(Capability)
  BY <1>4, <1>5
<1>7. Of(1) \o Of(2) \o Of(3) \in Seq(Capability)
  BY <1>4, <1>5, <1>6
<1>8. Of(1) \o Of(2) \o Of(3) \o Of(4) \in Seq(Capability)
  BY <1>4, <1>5, <1>7
<1>9. Of(1) \o Of(2) \o Of(3) \o Of(4) \o Of(5) \in Seq(Capability)
  BY <1>4, <1>5, <1>8
<1>10. Of(1) \o Of(2) \o Of(3) \o Of(4) \o Of(5) \o Of(6) \in Seq(Capability)
  BY <1>4, <1>5, <1>9
<1>11. Of(1) \o Of(2) \o Of(3) \o Of(4) \o Of(5) \o Of(6) \o Of(7)
         \in Seq(Capability)
  BY <1>4, <1>5, <1>10
<1>12. Of(1) \o Of(2) \o Of(3) \o Of(4) \o Of(5) \o Of(6) \o Of(7) \o Of(8)
         \in Seq(Capability)
  BY <1>4, <1>5, <1>11
<1>13. Of(1) \o Of(2) \o Of(3) \o Of(4) \o Of(5) \o Of(6) \o Of(7) \o Of(8)
         \o Of(9) \in Seq(Capability)
  BY <1>4, <1>5, <1>12
<1>14. Of(1) \o Of(2) \o Of(3) \o Of(4) \o Of(5) \o Of(6) \o Of(7) \o Of(8)
         \o Of(9) \o Of(10) \in Seq(Capability)
  BY <1>4, <1>5, <1>13
<1> QED BY <1>1, <1>14 DEF Asks, Of

LEMMA BaseObjectType ==
  BaseObject \in Object /\ Computed \in 0 .. Cleared /\ Cleared \in 0 .. Cleared
    /\ Cleared # Computed /\ 1 .. MaxEdit \subseteq 0 .. Cleared
    /\ \A v \in 1 .. MaxEdit : v \notin {Computed, Cleared}
<1>1. MaxEdit \in Nat
  BY KnowledgeAssumption
<1>2. /\ Computed \in 0 .. Cleared /\ Cleared \in 0 .. Cleared
      /\ Cleared # Computed /\ 1 .. MaxEdit \subseteq 0 .. Cleared
      /\ \A v \in 1 .. MaxEdit : v \notin {Computed, Cleared}
  BY <1>1 DEF Computed, Cleared
<1>3. BaseObject \in Object
  BY <1>2 DEF BaseObject, Object
<1> QED BY <1>2, <1>3

LEMMA KnowledgeInit == KInit => KInv
<1> SUFFICES ASSUME KInit PROVE KInv
  OBVIOUS
<1>1. KTypeOK
  <2>1. <<>> \in Seq(Object) /\ <<>> \in Seq(Capability)
    OBVIOUS
  <2>2. ktry \in [Thread -> 0 .. Retries]
    <3>1. Retries \in Nat
      BY KnowledgeAssumption
    <3>2. 0 \in 0 .. Retries
      BY <3>1
    <3> QED BY <3>2 DEF KInit
  <2>3. kdraft \in [Thread -> Object] /\ kwanted \in [FreePath -> 0 .. Cleared]
    BY BaseObjectType DEF KInit
  <2>4. ktodo \in [Thread -> Seq(Capability)] /\ krow \in Seq(Object)
    BY <2>1 DEF KInit
  <2> QED BY <2>2, <2>3, <2>4 DEF KInit, KTypeOK
<1>2. Held
  <2>1. NoRequest \in Request
    BY BaseObjectType DEF NoRequest, Request, Computed
  <2> QED BY <2>1 DEF KInit, Held, BaseObject
<1>3. ProposalsAreAudited
  BY DEF KInit, ProposalsAreAudited
<1>4. OneAtATime
  BY DEF KInit, OneAtATime
<1> QED BY <1>1, <1>2, <1>3, <1>4 DEF KInv

-----------------------------------------------------------------------------
(* A request that is over leaves the rows to the others.                   *)
LEMMA KEndKeeps ==
  ASSUME KInv, NEW t \in Thread, KEnd(t), UNCHANGED krows
  PROVE  KInv'
<1> USE DEF KEnd, KGo, krows
<1>1. KTypeOK'
  <2>1. <<>> \in Seq(Capability) /\ Retries \in Nat
    BY KnowledgeAssumption
  <2> QED BY <2>1, BaseObjectType DEF KInv, KTypeOK
<1>2. /\ kpc'[t] = "idle"
      /\ \A u \in Thread \ {t} : /\ kpc'[u] = kpc[u] /\ kreq'[u] = kreq[u]
                                 /\ kdraft'[u] = kdraft[u]
  BY DEF KInv, KTypeOK, Held
<1>3. Held'
  <2>1. NoRequest \in Request
    BY BaseObjectType DEF NoRequest, Request, Computed
  <2>2. /\ kdraft'[t] = BaseObject
        /\ kdraft'[t].proposed = {} /\ kdraft'[t].audited = {}
    BY DEF KInv, KTypeOK, BaseObject
  <2>3. kreq' \in [Thread -> Request]
    BY <2>1 DEF KInv, Held
  <2> QED BY <1>2, <2>2, <2>3 DEF KInv, Held
<1>4. ProposalsAreAudited'
  BY DEF KInv, ProposalsAreAudited
<1>5. ~ kmet' => OneAtATime'
  BY <1>2 DEF KInv, OneAtATime, WantedAfter
<1> QED BY <1>1, <1>3, <1>4, <1>5 DEF KInv

(* What one request changes of its own; the others stay as they are.       *)
OthersKeep(t) ==
  \A u \in Thread \ {t} : /\ kpc'[u] = kpc[u] /\ kreq'[u] = kreq[u]
                          /\ kdraft'[u] = kdraft[u]

LEMMA RunAnalysisKeeps ==
  ASSUME KInv, NEW t \in Thread, RunAnalysis(t)
  PROVE  KInv'
<1>1. PICK force \in BOOLEAN, sections \in Subset :
        /\ kreq' = [kreq EXCEPT ![t] = [NoRequest EXCEPT !.kind = "analysis",
                                                         !.force = force]]
        /\ ktodo' = [ktodo EXCEPT ![t] = Asks(sections)]
  BY DEF RunAnalysis
<1>2. /\ kpc[t] = "idle" /\ ksnapshot' = TRUE
      /\ kmet' = (kmet \/ \E u \in Thread \ {t} : kpc[u] # "idle")
      /\ kpc' = [kpc EXCEPT ![t] = "number"]
      /\ UNCHANGED <<krow, kwanted, kdraft, ktry>>
  BY DEF RunAnalysis, StoreSnapshot, KMeet, KGo
<1> DEFINE new == [NoRequest EXCEPT !.kind = "analysis", !.force = force]
<1>3. /\ new \in Request /\ new.kind = "analysis" /\ new.fields = {}
      /\ new.force = force
  BY BaseObjectType DEF NoRequest, Request, Computed
<1> HIDE DEF new
<1>4. /\ kpc'[t] = "number" /\ kreq'[t] = new /\ OthersKeep(t)
      /\ kreq' \in [Thread -> Request]
  BY <1>1, <1>2, <1>3 DEF new, KInv, KTypeOK, Held, OthersKeep
<1>5. KTypeOK'
  <2>1. ktodo' \in [Thread -> Seq(Capability)]
    BY <1>1, AsksType DEF KInv, KTypeOK
  <2>2. kpc' \in [Thread -> {"idle", "number", "ask", "save"}]
    BY <1>2 DEF KInv, KTypeOK
  <2> QED BY <1>2, <2>1, <2>2 DEF KInv, KTypeOK
<1>6. Held'
  BY <1>2, <1>3, <1>4 DEF KInv, Held, OthersKeep
<1>7. ProposalsAreAudited'
  BY <1>2 DEF KInv, ProposalsAreAudited
<1>8. ~ kmet' => OneAtATime'
  <2> SUFFICES ASSUME ~ kmet' PROVE OneAtATime'
    OBVIOUS
  <2>1. OneAtATime /\ \A u \in Thread \ {t} : kpc[u] = "idle"
    BY <1>2 DEF KInv
  <2>2. \A u \in Thread \ {t} : kpc'[u] = "idle"
    BY <1>4, <2>1 DEF OthersKeep
  <2>3. kdraft[t] = BaseObject
    BY <1>2 DEF KInv, Held
  <2> QED BY <1>2, <1>3, <1>4, <2>1, <2>2, <2>3 DEF OneAtATime
<1> QED BY <1>5, <1>6, <1>7, <1>8 DEF KInv

LEMMA PatchFieldsKeeps ==
  ASSUME KInv, NEW t \in Thread, PatchFields(t)
  PROVE  KInv'
<1>1. PICK latest \in Latest, value \in 1 .. MaxEdit \cup {Cleared},
           fields \in SUBSET (Path \cup UnknownPath) \ {{}} :
        /\ kdraft' = [kdraft EXCEPT ![t] = latest]
        /\ kreq' = [kreq EXCEPT ![t] = [NoRequest EXCEPT !.kind = "patch",
                                          !.fields = fields, !.value = value]]
  BY DEF PatchFields
<1>2. /\ kpc[t] = "idle"
      /\ kmet' = (kmet \/ \E u \in Thread \ {t} : kpc[u] # "idle")
      /\ kpc' = [kpc EXCEPT ![t] = "number"]
      /\ UNCHANGED <<krow, ksnapshot, kwanted, ktodo, ktry>>
  BY DEF PatchFields, KMeet, KGo
<1> DEFINE new == [NoRequest EXCEPT !.kind = "patch", !.fields = fields,
                                    !.value = value]
<1>3. /\ new \in Request /\ new.kind = "patch" /\ ~ new.force
  BY BaseObjectType DEF NoRequest, Request, Computed
<1> HIDE DEF new
<1>4. /\ latest \in Object /\ krow # <<>>
      /\ \E i \in DOMAIN krow : latest = krow[i]
      /\ OneAtATime => latest = krow[Len(krow)]
  BY LatestRow DEF KInv
<1>5. /\ kpc'[t] = "number" /\ kreq'[t] = new /\ kdraft'[t] = latest
      /\ OthersKeep(t) /\ kreq' \in [Thread -> Request]
  BY <1>1, <1>2, <1>3 DEF new, KInv, KTypeOK, Held, OthersKeep
<1>6. KTypeOK'
  <2>1. kdraft' \in [Thread -> Object]
    BY <1>1, <1>4 DEF KInv, KTypeOK
  <2>2. kpc' \in [Thread -> {"idle", "number", "ask", "save"}]
    BY <1>2 DEF KInv, KTypeOK
  <2> QED BY <1>2, <2>1, <2>2 DEF KInv, KTypeOK
<1>7. Held'
  <2>1. ksnapshot
    BY <1>4 DEF KInv, KTypeOK
  <2>2. latest.proposed \subseteq latest.audited
    BY <1>4 DEF KInv, ProposalsAreAudited
  <2> QED BY <1>2, <1>3, <1>5, <2>1, <2>2 DEF KInv, Held, OthersKeep
<1>8. ProposalsAreAudited'
  BY <1>2 DEF KInv, ProposalsAreAudited
<1>9. ~ kmet' => OneAtATime'
  <2> SUFFICES ASSUME ~ kmet' PROVE OneAtATime'
    OBVIOUS
  <2>1. OneAtATime /\ \A u \in Thread \ {t} : kpc[u] = "idle"
    BY <1>2 DEF KInv
  <2>2. \A u \in Thread \ {t} : kpc'[u] = "idle"
    BY <1>5, <2>1 DEF OthersKeep
  <2> QED BY <1>2, <1>3, <1>4, <1>5, <2>1, <2>2 DEF OneAtATime
<1> QED BY <1>6, <1>7, <1>8, <1>9 DEF KInv

(* The number is the next one if nothing overlaps, and the fields of a     *)
(* PATCH are set in a copy of what was latest.                             *)
LEMMA TakeNumberKeeps ==
  ASSUME KInv, NEW t \in Thread, TakeNumber(t)
  PROVE  KInv'
<1>1. CASE KEnd(t)
  BY <1>1, KEndKeeps DEF TakeNumber
<1>2. CASE ~ (kreq[t].fields \cap UnknownPath # {})
  <2> DEFINE set == kreq[t].fields
             new == [kdraft[t] EXCEPT !.version = NextVersion,
                       !.human = @ \cup set,
                       !.values = [p \in Path |->
                                     IF p \in set THEN kreq[t].value ELSE @[p]]]
             step == IF kreq[t].kind = "patch" THEN "save" ELSE "ask"
  <2>0. kdraft[t] \in Object /\ kdraft \in [Thread -> Object]
    BY DEF KInv, KTypeOK
  <2>1. /\ kpc[t] = "number" /\ kdraft' = [kdraft EXCEPT ![t] = new]
        /\ kpc' = [kpc EXCEPT ![t] = step]
        /\ UNCHANGED <<kreq, ktodo, ktry, krow, ksnapshot, kwanted, kmet>>
    BY <1>2, <2>0 DEF TakeNumber, KGo, krows, Object
  <2>2. /\ kdraft[t] \in Object /\ kreq[t] \in Request
        /\ set \subseteq Path /\ kreq[t].value \in 0 .. Cleared
        /\ kreq[t].kind \in {"analysis", "patch"}
    BY <1>2, <2>1 DEF KInv, KTypeOK, Held, Request
  <2>3. /\ NextVersion \in Nat /\ NextVersion <= Len(krow) + 1
        /\ OneAtATime => NextVersion = Len(krow) + 1
    BY NextVersionType DEF KInv
  <2>4. /\ new.version = NextVersion /\ new.human = kdraft[t].human \cup set
        /\ new.proposed = kdraft[t].proposed
        /\ new.audited = kdraft[t].audited
        /\ \A p \in Path : new.values[p] = IF p \in set THEN kreq[t].value
                                           ELSE kdraft[t].values[p]
        /\ new \in Object
    BY <2>2, <2>3 DEF Object
  <2> HIDE DEF new
  <2>5. /\ kpc'[t] = step /\ kdraft'[t] = new /\ OthersKeep(t)
    BY <2>1 DEF KInv, KTypeOK, OthersKeep
  <2>6. KTypeOK'
    <3>1. kdraft' \in [Thread -> Object]
      BY <2>1, <2>4 DEF KInv, KTypeOK
    <3>2. kpc' \in [Thread -> {"idle", "number", "ask", "save"}]
      BY <2>1 DEF KInv, KTypeOK
    <3> QED BY <2>1, <3>1, <3>2 DEF KInv, KTypeOK
  <2>7. Held'
    BY <2>1, <2>3, <2>4, <2>5 DEF KInv, Held, OthersKeep
  <2>8. ProposalsAreAudited'
    BY <2>1 DEF KInv, ProposalsAreAudited
  <2>9. ~ kmet' => OneAtATime'
    <3> SUFFICES ASSUME ~ kmet' PROVE OneAtATime'
      OBVIOUS
    <3>1. OneAtATime /\ \A u \in Thread \ {t} : kpc'[u] = "idle"
      BY <2>1, <2>5 DEF KInv, OneAtATime, OthersKeep
    <3>2. FreePath \subseteq Path
      BY DEF Path
    <3>3. CASE kreq[t].kind = "analysis"
      <4>1. /\ kpc'[t] = "ask" /\ set = {} /\ kdraft[t] = BaseObject
        BY <2>1, <2>5, <3>1, <3>3 DEF OneAtATime
      <4>2. /\ new.human = {} /\ \A p \in Path : new.values[p] = Computed
        BY <2>4, <4>1 DEF BaseObject
      <4> QED BY <2>1, <2>3, <2>4, <2>5, <3>1, <4>1, <4>2 DEF OneAtATime
    <3>4. CASE kreq[t].kind = "patch"
      <4>1. /\ kpc'[t] = "save" /\ krow # <<>> /\ ~ kreq[t].force
            /\ kdraft[t] = krow[Len(krow)] /\ Carries(kdraft[t], kwanted)
        BY <2>1, <2>5, <3>1, <3>4 DEF OneAtATime
      <4>2. WantedAfter(t)' = WantedAfter(t)
        BY <2>1 DEF WantedAfter
      <4>3. Carries(new, WantedAfter(t))
        BY <2>4, <3>2, <4>1 DEF Carries, WantedAfter
      <4>4. Carries(kdraft'[t], WantedAfter(t)')
        BY <2>5, <4>2, <4>3
      <4> QED BY <2>1, <2>3, <2>4, <2>5, <3>1, <4>1, <4>4 DEF OneAtATime
    <3> QED BY <2>2, <3>3, <3>4
  <2> QED BY <2>6, <2>7, <2>8, <2>9 DEF KInv
<1> QED BY <1>1, <1>2 DEF TakeNumber

(* An answer is on record before it is a proposal, accepted or not.        *)
LEMMA InvokeKeeps ==
  ASSUME KInv, NEW t \in Thread, Invoke(t)
  PROVE  KInv'
<1>1. PICK verdict \in Attempt(Head(ktodo[t])) :
        LET c == Head(ktodo[t])
            accepted == verdict \in {"passed", "corrected"}
            again == verdict = "failed" /\ ktry[t] < Retries
            gains == IF accepted THEN {c} ELSE {}
        IN  /\ kdraft' = [kdraft EXCEPT ![t].proposed = @ \cup gains,
                                        ![t].audited = @ \cup gains]
            /\ ktodo' = [ktodo EXCEPT ![t] = IF again THEN @ ELSE Tail(@)]
            /\ ktry' = [ktry EXCEPT ![t] = IF again THEN @ + 1 ELSE 0]
  BY DEF Invoke
<1> DEFINE again == verdict = "failed" /\ ktry[t] < Retries
           gains == IF verdict \in {"passed", "corrected"}
                      THEN {Head(ktodo[t])} ELSE {}
           new == [kdraft[t] EXCEPT !.proposed = @ \cup gains,
                                    !.audited = @ \cup gains]
<1>2. /\ kpc[t] = "ask" /\ ktodo[t] # <<>>
      /\ UNCHANGED <<kpc, kreq, krow, ksnapshot, kwanted, kmet>>
  BY DEF Invoke, krows
<1>3. /\ ktodo[t] \in Seq(Capability) /\ Head(ktodo[t]) \in Capability
      /\ Tail(ktodo[t]) \in Seq(Capability) /\ kdraft[t] \in Object
  BY <1>2 DEF KInv, KTypeOK
<1>4. gains \subseteq Capability
  BY <1>3
<1>5. /\ kdraft' = [kdraft EXCEPT ![t] = new]
      /\ ktodo' = [ktodo EXCEPT ![t] = IF again THEN @ ELSE Tail(@)]
      /\ ktry' = [ktry EXCEPT ![t] = IF again THEN @ + 1 ELSE 0]
  <2> HIDE DEF gains
  <2> QED BY <1>1 DEF KInv, KTypeOK, Object, gains
<1> HIDE DEF gains
<1>6. /\ new \in Object /\ new.version = kdraft[t].version
      /\ new.human = kdraft[t].human /\ new.values = kdraft[t].values
      /\ new.proposed = kdraft[t].proposed \cup gains
      /\ new.audited = kdraft[t].audited \cup gains
  BY <1>3, <1>4 DEF Object
<1> HIDE DEF new
<1>7. kdraft'[t] = new /\ OthersKeep(t)
  BY <1>2, <1>5 DEF KInv, KTypeOK, OthersKeep
<1>8. KTypeOK'
  <2>1. kdraft' \in [Thread -> Object]
    BY <1>5, <1>6 DEF KInv, KTypeOK
  <2>2. ktodo' \in [Thread -> Seq(Capability)]
    BY <1>3, <1>5 DEF KInv, KTypeOK
  <2>3. ktry' \in [Thread -> 0 .. Retries]
    <3>1. Retries \in Nat
      BY KnowledgeAssumption
    <3>2. ktry[t] \in 0 .. Retries
      BY DEF KInv, KTypeOK
    <3>3. (IF again THEN ktry[t] + 1 ELSE 0) \in 0 .. Retries
      BY <3>1, <3>2
    <3> QED BY <1>5, <3>3 DEF KInv, KTypeOK
  <2> QED BY <1>2, <2>1, <2>2, <2>3 DEF KInv, KTypeOK
<1>9. Held'
  BY <1>2, <1>6, <1>7 DEF KInv, Held, OthersKeep
<1>10. ProposalsAreAudited'
  BY <1>2 DEF KInv, ProposalsAreAudited
<1>11. ~ kmet' => OneAtATime'
  <2> SUFFICES ASSUME ~ kmet, OneAtATime PROVE OneAtATime'
    BY <1>2 DEF KInv
  <2>1. \A u \in Thread : WantedAfter(u)' = WantedAfter(u)
    BY <1>2 DEF WantedAfter
  <2> QED BY <1>2, <1>6, <1>7, <2>1 DEF OneAtATime, OthersKeep
<1> QED BY <1>8, <1>9, <1>10, <1>11 DEF KInv

(* What people edited in the latest version goes into the new one, unless  *)
(* the analysis is forced.                                                 *)
LEMMA CarryForwardKeeps ==
  ASSUME KInv, NEW t \in Thread, CarryForward(t)
  PROVE  KInv'
<1>1. PICK prior \in Latest \cup {BaseObject} :
        /\ prior = BaseObject => kreq[t].force \/ krow = <<>>
        /\ prior # BaseObject => ~ kreq[t].force
        /\ LET kept == {p \in prior.human : prior.values[p] # Cleared}
           IN  kdraft' = [kdraft EXCEPT
                 ![t].human = kept,
                 ![t].values = [p \in Path |->
                                  IF p \in kept THEN prior.values[p]
                                                ELSE @[p]]]
  BY DEF CarryForward
<1>2. /\ kpc[t] = "ask" /\ kpc' = [kpc EXCEPT ![t] = "save"]
      /\ UNCHANGED <<krow, ksnapshot, kwanted, kmet, kreq, ktodo, ktry>>
  BY DEF CarryForward, KGo, krows
<1>3. /\ prior \in Object
      /\ prior = BaseObject \/ krow # <<>>
      /\ prior # BaseObject /\ OneAtATime => prior = krow[Len(krow)]
  BY LatestRow, BaseObjectType DEF KInv
<1> DEFINE kept == {p \in prior.human : prior.values[p] # Cleared}
           new == [kdraft[t] EXCEPT
                     !.human = kept,
                     !.values = [p \in Path |-> IF p \in kept
                                                  THEN prior.values[p]
                                                  ELSE @[p]]]
<1>4. kdraft[t] \in Object /\ kdraft \in [Thread -> Object]
  BY DEF KInv, KTypeOK
<1>5. kdraft' = [kdraft EXCEPT ![t] = new]
  <2> HIDE DEF kept
  <2> QED BY <1>1, <1>4 DEF Object, kept
<1>6. kept \subseteq Path /\ \A p \in kept : prior.values[p] \in 0 .. Cleared
  BY <1>3 DEF Object
<1>7. /\ new \in Object /\ new.version = kdraft[t].version
      /\ new.human = kept /\ new.proposed = kdraft[t].proposed
      /\ new.audited = kdraft[t].audited
      /\ \A p \in Path : new.values[p] = IF p \in kept THEN prior.values[p]
                                         ELSE kdraft[t].values[p]
  <2> HIDE DEF kept
  <2> QED BY <1>4, <1>6 DEF Object
<1> HIDE DEF new
<1>8. kpc'[t] = "save" /\ kdraft'[t] = new /\ OthersKeep(t)
  BY <1>2, <1>5 DEF KInv, KTypeOK, OthersKeep
<1>9. KTypeOK'
  <2>1. kdraft' \in [Thread -> Object]
    BY <1>4, <1>5, <1>7
  <2>2. kpc' \in [Thread -> {"idle", "number", "ask", "save"}]
    BY <1>2 DEF KInv, KTypeOK
  <2> QED BY <1>2, <2>1, <2>2 DEF KInv, KTypeOK
<1>10. Held'
  BY <1>2, <1>7, <1>8 DEF KInv, Held, OthersKeep
<1>11. ProposalsAreAudited'
  BY <1>2 DEF KInv, ProposalsAreAudited
<1>12. ~ kmet' => OneAtATime'
  <2> SUFFICES ASSUME ~ kmet, OneAtATime PROVE OneAtATime'
    BY <1>2 DEF KInv
  <2>1. \A u \in Thread \ {t} : kpc'[u] = "idle"
    BY <1>2, <1>8 DEF OneAtATime, OthersKeep
  <2>2. FreePath \subseteq Path
    BY DEF Path
  <2>3. /\ kreq[t].fields = {} /\ kdraft[t].version = Len(krow) + 1
        /\ \A p \in Path : kdraft[t].values[p] = Computed
    BY <1>2 DEF OneAtATime
  <2>4. Carries(new, WantedAfter(t))
    <3>1. \A p \in FreePath : WantedAfter(t)[p] =
            IF kreq[t].force THEN Computed ELSE kwanted[p]
      BY <2>3 DEF WantedAfter
    <3>2. CASE prior = BaseObject
      <4>1. kept = {} /\ \A p \in FreePath : WantedAfter(t)[p] = Computed
        BY <1>1, <3>1, <3>2 DEF BaseObject, OneAtATime
      <4> QED BY <1>7, <2>2, <2>3, <4>1 DEF Carries
    <3>3. CASE prior # BaseObject
      <4>1. /\ Carries(prior, kwanted)
            /\ \A p \in FreePath : WantedAfter(t)[p] = kwanted[p]
        BY <1>1, <1>3, <3>1, <3>3 DEF OneAtATime
      <4> QED BY <1>7, <2>2, <2>3, <4>1 DEF Carries
    <3> QED BY <3>2, <3>3
  <2>5. WantedAfter(t)' = WantedAfter(t)
    BY <1>2 DEF WantedAfter
  <2>6. Carries(kdraft'[t], WantedAfter(t)')
    BY <1>8, <2>4, <2>5
  <2> QED BY <1>2, <1>7, <1>8, <2>1, <2>3, <2>6 DEF OneAtATime
<1> QED BY <1>9, <1>10, <1>11, <1>12 DEF KInv

(* The version is a row of its own; nothing stored is written over.        *)
LEMMA SaveVersionKeeps ==
  ASSUME KInv, NEW t \in Thread, SaveVersion(t)
  PROVE  KInv'
<1> DEFINE new == kdraft[t]
<1>1. /\ kpc[t] = "save" /\ krow' = Append(krow, new)
      /\ kwanted' = WantedAfter(t)
      /\ KEnd(t) /\ UNCHANGED <<ksnapshot, kmet>>
  BY DEF SaveVersion, WantedAfter
<1>2. /\ new \in Object /\ krow \in Seq(Object) /\ ksnapshot
      /\ new.version <= Len(krow) + 1 /\ new.proposed \subseteq new.audited
      /\ kreq[t] \in Request
  BY <1>1 DEF KInv, KTypeOK, Held
<1> HIDE DEF new
<1>3. /\ krow' \in Seq(Object) /\ Len(krow) \in Nat
      /\ Len(krow') = Len(krow) + 1 /\ DOMAIN krow = 1 .. Len(krow)
      /\ DOMAIN krow' = 1 .. Len(krow) + 1
      /\ krow'[Len(krow) + 1] = new
      /\ \A i \in 1 .. Len(krow) : krow'[i] = krow[i]
      /\ krow' # <<>>
  BY <1>1, <1>2
<1>4. /\ kpc'[t] = "idle" /\ OthersKeep(t) /\ kdraft'[t] = BaseObject
      /\ kreq'[t] = NoRequest
  BY <1>1 DEF KEnd, KGo, KInv, KTypeOK, Held, OthersKeep
<1>5. KTypeOK'
  <2>1. kwanted' \in [FreePath -> 0 .. Cleared]
    BY <1>1, <1>2, BaseObjectType DEF WantedAfter, KInv, KTypeOK, Request
  <2>2. <<>> \in Seq(Capability) /\ Retries \in Nat
    BY KnowledgeAssumption
  <2>3. /\ kpc' \in [Thread -> {"idle", "number", "ask", "save"}]
        /\ kdraft' \in [Thread -> Object]
        /\ ktodo' \in [Thread -> Seq(Capability)]
        /\ ktry' \in [Thread -> 0 .. Retries]
    BY <1>1, <2>2, BaseObjectType DEF KEnd, KGo, KInv, KTypeOK
  <2> QED BY <1>1, <1>2, <1>3, <2>1, <2>3 DEF KInv, KTypeOK
<1>6. Held'
  <2>1. NoRequest \in Request
    BY BaseObjectType DEF NoRequest, Request, Computed
  <2>2. kreq' \in [Thread -> Request]
    BY <1>1, <2>1 DEF KEnd, KInv, Held
  <2>3. \A i \in DOMAIN krow' : krow'[i].version <= Len(krow')
    <3>1. \A i \in 1 .. Len(krow) : krow[i].version <= Len(krow)
                                    /\ krow[i].version \in Nat
      <4>1. \A o \in Object : o.version \in Nat
        BY DEF Object
      <4> QED BY <1>2, <1>3, <4>1 DEF KInv, Held
    <3>2. new.version \in Nat
      BY <1>2 DEF Object
    <3> QED BY <1>2, <1>3, <3>1, <3>2
  <2>4. \A u \in Thread : kpc[u] \in {"ask", "save"} =>
          kdraft[u].version <= Len(krow') + 1
    <3>1. \A u \in Thread : kdraft[u].version \in Nat
      BY DEF KInv, KTypeOK, Object
    <3> QED BY <1>3, <3>1 DEF KInv, Held
  <2>5. BaseObject.proposed \subseteq BaseObject.audited
    BY DEF BaseObject
  <2> QED BY <1>1, <1>4, <2>2, <2>3, <2>4, <2>5 DEF KInv, Held, OthersKeep
<1>7. ProposalsAreAudited'
  <2>1. \A i \in 1 .. Len(krow) : krow[i].proposed \subseteq krow[i].audited
    BY <1>3 DEF KInv, ProposalsAreAudited
  <2> QED BY <1>2, <1>3, <2>1 DEF ProposalsAreAudited
<1>8. ~ kmet' => OneAtATime'
  <2> SUFFICES ASSUME ~ kmet, OneAtATime PROVE OneAtATime'
    BY <1>1 DEF KInv
  <2>1. \A u \in Thread : kpc'[u] = "idle"
    BY <1>1, <1>4 DEF OneAtATime, OthersKeep
  <2>2. \A i \in DOMAIN krow' : krow'[i].version = i
    BY <1>1, <1>3 DEF OneAtATime, new
  <2>3. Carries(new, WantedAfter(t))
    BY <1>1 DEF OneAtATime, new
  <2>4. Carries(krow'[Len(krow')], kwanted')
    BY <1>1, <1>3, <2>3
  <2> QED BY <1>3, <2>1, <2>2, <2>4 DEF OneAtATime
<1> QED BY <1>5, <1>6, <1>7, <1>8 DEF KInv

-----------------------------------------------------------------------------
LEMMA KnowledgeStep == KInv /\ [KNext]_kvars => KInv'
<1> SUFFICES ASSUME KInv, [KNext]_kvars PROVE KInv'
  OBVIOUS
<1>1. ASSUME NEW t \in Thread, KLose(t) PROVE KInv'
  BY <1>1, KEndKeeps DEF KLose
<1>2. CASE UNCHANGED kvars
  <2>1. UNCHANGED <<krow, ksnapshot, kwanted, kmet, kpc, kreq, kdraft, ktodo,
                    ktry>>
    BY <1>2 DEF kvars, krows, klocal
  <2>2. KTypeOK' /\ Held' /\ ProposalsAreAudited'
    BY <2>1 DEF KInv, KTypeOK, Held, ProposalsAreAudited
  <2>3. ~ kmet' => OneAtATime'
    BY <2>1 DEF KInv, OneAtATime, WantedAfter, Carries
  <2> QED BY <2>2, <2>3 DEF KInv
<1> QED
  BY <1>1, <1>2, RunAnalysisKeeps, PatchFieldsKeeps, TakeNumberKeeps,
     InvokeKeeps, CarryForwardKeeps, SaveVersionKeeps DEF KNext

LEMMA KnowledgeInvHolds == KInv => KnowledgeHolds
<1> SUFFICES ASSUME KInv, ~ kmet
             PROVE  /\ \A i \in DOMAIN krow : krow[i].version = i
                    /\ krow # <<>> =>
                         \A p \in FreePath : kwanted[p] # Cleared =>
                           krow[Len(krow)].values[p] = kwanted[p]
  BY DEF KInv, KnowledgeHolds, EditsSurvive
<1> QED BY DEF KInv, OneAtATime, Carries

(* Whatever sections are analysed, whatever the model answers, is refused  *)
(* or lost: what a version proposes is audited, and while requests do not  *)
(* overlap the latest version holds what people last set.                  *)
THEOREM KnowledgeSurvives == KSpec => []KnowledgeHolds
<1> QED BY KnowledgeInit, KnowledgeStep, KnowledgeInvHolds, PTL DEF KSpec

-----------------------------------------------------------------------------
(* Content assets and the agency.                                          *)

(* What every copy of an asset is, whenever it was made.                   *)
Whole(asset) ==
  /\ Chained(asset)
  /\ {asset.history[i].to : i \in DOMAIN asset.history} \cap Dated = asset.dated
  /\ asset.history = <<>> => asset.status = "draft"

Works(t) == cpc[t] # "idle"

StoredWhole == \A a \in Asset : casset[a] # NoAsset => Whole(casset[a])

(* A thread works on an asset there is, and what it is about to save is    *)
(* whole; alone with the asset, it has added one entry to its history.     *)
CopiesWhole ==
  \A t \in Thread : Works(t) =>
    /\ cwork[t].asset \in Asset /\ cwork[t].operation \in Operation
    /\ casset[cwork[t].asset] \in ContentAsset
    /\ cpc[t] = "save" =>
         /\ ccopy[t] \in ContentAsset /\ Whole(ccopy[t])
         /\ ccopy[t].history # <<>>
         /\ cwork[t].asset \notin cmet =>
              Len(ccopy[t].history) = Len(casset[cwork[t].asset].history) + 1

(* Two threads that work on one asset have met; unless they have, its      *)
(* history has what was answered.                                          *)
MeetingsKnown ==
  /\ \A t, u \in Thread :
       /\ Works(t) /\ Works(u) /\ cwork[t].asset = cwork[u].asset
       /\ cwork[t].asset \notin cmet
       => t = u
  /\ \A a \in Asset : a \notin cmet => Len(casset[a].history) = canswered[a]

CInv == CTypeOK /\ StoredWhole /\ CopiesWhole /\ MeetingsKnown

-----------------------------------------------------------------------------
(* A transition from a whole asset is whole, and adds one entry.           *)
LEMMA TransitionWhole ==
  ASSUME NEW asset \in ContentAsset, Whole(asset),
         NEW status \in ContentAssetStatus,
         status = "published" => asset.status = "approved"
  PROVE  /\ Transition(asset, status) \in ContentAsset
         /\ Whole(Transition(asset, status))
         /\ Len(Transition(asset, status).history) = Len(asset.history) + 1
         /\ Transition(asset, status).history # <<>>
<1> DEFINE new == Transition(asset, status)
           h == asset.history
           e == [from |-> asset.status, to |-> status]
<1>1. /\ h \in Seq(HistoryEntry) /\ Len(h) \in Nat /\ DOMAIN h = 1 .. Len(h)
      /\ asset.status \in ContentAssetStatus
      /\ asset.dated \in SUBSET ContentAssetStatus /\ e \in HistoryEntry
  BY DEF ContentAsset, HistoryEntry
<1>2. /\ new.history = Append(h, e) /\ new.status = status
      /\ new.dated = asset.dated \cup ({status} \cap Dated)
      /\ new \in ContentAsset
  <2>1. Append(h, e) \in Seq(HistoryEntry)
    BY <1>1
  <2> QED BY <1>1, <2>1 DEF Transition, ContentAsset, Dated
<1> HIDE DEF new
<1>3. /\ DOMAIN new.history = 1 .. Len(h) + 1 /\ Len(new.history) = Len(h) + 1
      /\ \A i \in 1 .. Len(h) : new.history[i] = h[i]
      /\ new.history[Len(h) + 1] = e
  BY <1>1, <1>2
<1>4. new.history # <<>>
  BY <1>1, <1>3
<1>5. ASSUME NEW i \in DOMAIN new.history
      PROVE  /\ new.history[i].from =
                  IF i = 1 THEN "draft" ELSE new.history[i - 1].to
             /\ new.history[i].to = "published" =>
                  new.history[i].from = "approved"
             /\ i = Len(new.history) => new.status = new.history[i].to
  <2>1. CASE i \in 1 .. Len(h)
    <3>1. /\ h[i].from = IF i = 1 THEN "draft" ELSE h[i - 1].to
          /\ h[i].to = "published" => h[i].from = "approved"
      BY <1>1, <2>1 DEF Whole, Chained
    <3>2. i # 1 => i - 1 \in 1 .. Len(h)
      BY <1>1, <2>1
    <3> QED BY <1>1, <1>3, <2>1, <3>1, <3>2
  <2>2. CASE i = Len(h) + 1
    <3>1. new.history[i].from = asset.status /\ new.history[i].to = status
      BY <1>3, <2>2
    <3>2. CASE Len(h) = 0
      BY <1>1, <1>2, <2>2, <3>1, <3>2 DEF Whole
    <3>3. CASE Len(h) # 0
      <4>1. Len(h) \in DOMAIN h /\ i - 1 = Len(h) /\ i # 1
        BY <1>1, <2>2, <3>3
      <4>2. asset.status = h[Len(h)].to
        BY <4>1 DEF Whole, Chained
      <4> QED BY <1>2, <1>3, <3>1, <4>1, <4>2
    <3> QED BY <3>2, <3>3
  <2> QED BY <1>1, <1>3, <2>1, <2>2
<1>6. {new.history[i].to : i \in DOMAIN new.history} =
        {h[i].to : i \in DOMAIN h} \cup {status}
  <2>1. DOMAIN new.history = DOMAIN h \cup {Len(h) + 1}
    BY <1>1, <1>3
  <2>2. new.history[Len(h) + 1].to = status
    BY <1>3
  <2> QED BY <1>1, <1>3, <2>1, <2>2, SMTT(30)
<1>7. {new.history[i].to : i \in DOMAIN new.history} \cap Dated = new.dated
  BY <1>2, <1>6 DEF Whole
<1>8. Whole(new)
  BY <1>4, <1>5, <1>7 DEF Whole, Chained
<1> QED BY <1>2, <1>3, <1>4, <1>8 DEF new

(* The status an operation leads to is one, and only publishing publishes. *)
LEMMA TargetStatus ==
  ASSUME NEW a \in Asset, NEW operation \in Operation
  PROVE  /\ Target(a, operation) \in ContentAssetStatus
         /\ Target(a, operation) = "published" => operation = "publish"
BY DEF Target, Operation, ContentAssetStatus

-----------------------------------------------------------------------------
LEMMA ContentInit == CInit => CInv
<1> SUFFICES ASSUME CInit PROVE CInv
  OBVIOUS
<1>1. CTypeOK
  BY DEF CInit, CTypeOK
<1>2. StoredWhole
  BY DEF CInit, StoredWhole
<1>3. \A t \in Thread : ~ Works(t)
  BY DEF CInit, Works
<1>4. \A a \in Asset : Len(casset[a].history) = canswered[a]
  <2>1. \A a \in Asset : casset[a].history = <<>> /\ canswered[a] = 0
    BY DEF CInit, NoAsset
  <2> QED BY <2>1
<1> QED BY <1>1, <1>2, <1>3, <1>4 DEF CInv, CopiesWhole, MeetingsKnown

(* A thread that ends leaves the others as they were.                      *)
LEMMA EndKeepsContent ==
  ASSUME CInv, NEW t \in Thread, CEnd(t),
         UNCHANGED <<casset, canswered, cmet>>
  PROVE  CInv'
<1>1. CTypeOK'
  <2>1. cpc' \in [Thread -> {"idle", "get", "save"}]
    BY DEF CInv, CTypeOK, CEnd
  <2>2. cwork' \in
          [Thread -> [asset : Asset, operation : Operation] \cup {NoTask}]
    BY DEF CInv, CTypeOK, CEnd
  <2>3. ccopy' \in [Thread -> ContentAsset \cup {NoAsset}]
    BY DEF CInv, CTypeOK, CEnd
  <2> QED BY <2>1, <2>2, <2>3 DEF CInv, CTypeOK
<1>2. ~ Works(t)'
  BY DEF CInv, CTypeOK, CEnd, Works
<1>3. \A u \in Thread \ {t} :
        cpc'[u] = cpc[u] /\ cwork'[u] = cwork[u] /\ ccopy'[u] = ccopy[u]
  BY DEF CInv, CTypeOK, CEnd
<1>4. \A u \in Thread : Works(u)' => u # t /\ Works(u)
  BY <1>2, <1>3 DEF Works
<1>5. StoredWhole'
  BY DEF CInv, StoredWhole
<1>6. CopiesWhole'
  BY <1>3, <1>4 DEF CInv, CopiesWhole
<1>7. MeetingsKnown'
  BY <1>3, <1>4 DEF CInv, MeetingsKnown
<1> QED BY <1>1, <1>5, <1>6, <1>7 DEF CInv

(* A draft has no history.                                                 *)
LEMMA GenerateKeeps ==
  ASSUME CInv, NEW a \in Asset, NEW answers \in BOOLEAN, Generate(a, answers)
  PROVE  CInv'
<1> DEFINE draft == [status |-> "draft", history |-> <<>>,
                     written |-> answers, dated |-> {}]
<1>1. draft \in ContentAsset /\ draft.history = <<>>
  <2>1. <<>> \in Seq(HistoryEntry)
    OBVIOUS
  <2> QED BY <2>1 DEF ContentAsset, ContentAssetStatus
<1>2. Whole(draft)
  BY DEF Whole, Chained
<1>3. /\ casset[a] = NoAsset /\ casset' = [casset EXCEPT ![a] = draft]
      /\ UNCHANGED <<canswered, cmet, cpc, cwork, ccopy>>
  BY DEF Generate
<1> HIDE DEF draft
<1>4. CTypeOK'
  BY <1>1, <1>3 DEF CInv, CTypeOK
<1>5. /\ casset'[a] = draft /\ \A b \in Asset \ {a} : casset'[b] = casset[b]
  BY <1>3 DEF CInv, CTypeOK
<1>6. StoredWhole'
  BY <1>2, <1>5 DEF CInv, StoredWhole
<1>7. NoAsset \notin ContentAsset
  BY DEF NoAsset, ContentAsset, ContentAssetStatus
<1>8. CopiesWhole'
  <2> SUFFICES ASSUME NEW t \in Thread, Works(t)'
               PROVE  /\ cwork[t].asset \in Asset \ {a}
                      /\ Works(t)
    BY <1>3, <1>5 DEF CInv, CopiesWhole, Works
  <2> QED BY <1>3, <1>7 DEF CInv, CopiesWhole, Works
<1>9. MeetingsKnown'
  <2>1. casset[a].history = <<>>
    BY <1>3 DEF NoAsset
  <2>2. casset'[a].history = casset[a].history
    BY <1>1, <1>5, <2>1
  <2> QED BY <1>3, <1>5, <2>2 DEF CInv, MeetingsKnown, Works
<1> QED BY <1>4, <1>6, <1>8, <1>9 DEF CInv

(* A request that starts on an asset another works on has met it.          *)
LEMMA DecideKeeps ==
  ASSUME CInv, NEW t \in Thread, NEW a \in Asset, NEW operation \in Operation,
         Decide(t, a, operation)
  PROVE  CInv'
<1>1. /\ cpc[t] = "idle" /\ casset[a] # NoAsset
      /\ cwork' = [cwork EXCEPT ![t] = [asset |-> a, operation |-> operation]]
      /\ cmet' = cmet \cup {b \in {a} : \E u \in Thread : cwork[u].asset = b}
      /\ cpc' = [cpc EXCEPT ![t] = "get"]
      /\ UNCHANGED <<casset, canswered, ccopy>>
  BY DEF Decide
<1>2. CTypeOK'
  <2>1. cwork' \in
          [Thread -> [asset : Asset, operation : Operation] \cup {NoTask}]
    BY <1>1 DEF CInv, CTypeOK
  <2>2. cpc' \in [Thread -> {"idle", "get", "save"}]
    BY <1>1 DEF CInv, CTypeOK
  <2>3. cmet' \subseteq Asset
    BY <1>1 DEF CInv, CTypeOK
  <2> QED BY <1>1, <2>1, <2>2, <2>3 DEF CInv, CTypeOK
<1>3. /\ cpc'[t] = "get" /\ cwork'[t].asset = a
      /\ cwork'[t].operation = operation
      /\ \A u \in Thread \ {t} : cpc'[u] = cpc[u] /\ cwork'[u] = cwork[u]
  BY <1>1 DEF CInv, CTypeOK
<1>4. \A u \in Thread \ {t} : Works(u)' <=> Works(u)
  BY <1>3 DEF Works
<1>5. StoredWhole'
  BY <1>1 DEF CInv, StoredWhole
<1>6. CopiesWhole'
  <2>1. casset[a] \in ContentAsset
    BY <1>1 DEF CInv, CTypeOK
  <2>2. cmet \subseteq cmet'
    BY <1>1
  <2> QED BY <1>1, <1>3, <1>4, <2>1, <2>2 DEF CInv, CopiesWhole
<1>7. MeetingsKnown'
  <2>1. \A u \in Thread \ {t} : Works(u) /\ cwork[u].asset = a => a \in cmet'
    BY <1>1
  <2>2. cmet \subseteq cmet'
    BY <1>1
  <2>3. ASSUME NEW u \in Thread, NEW v \in Thread, Works(u)', Works(v)',
               cwork'[u].asset = cwork'[v].asset, cwork'[u].asset \notin cmet'
        PROVE  u = v
    <3>1. CASE u # t /\ v # t
      BY <1>3, <1>4, <2>2, <2>3, <3>1 DEF CInv, MeetingsKnown
    <3>2. CASE u = t
      BY <1>3, <1>4, <2>1, <2>3, <3>2
    <3>3. CASE v = t
      BY <1>3, <1>4, <2>1, <2>3, <3>3
    <3> QED BY <3>1, <3>2, <3>3
  <2>4. \A b \in Asset :
          b \notin cmet' => Len(casset'[b].history) = canswered'[b]
    BY <1>1, <2>2 DEF CInv, MeetingsKnown
  <2> QED BY <2>3, <2>4 DEF MeetingsKnown
<1> QED BY <1>2, <1>5, <1>6, <1>7 DEF CInv

(* The copy is one legal step further than the asset that was read.        *)
LEMMA GetKeeps ==
  ASSUME CInv, NEW t \in Thread, Get(t)
  PROVE  CInv'
<1> DEFINE a == cwork[t].asset
           new == Transition(casset[a], Target(a, cwork[t].operation))
<1>1. CASE CEnd(t)
  BY <1>1, EndKeepsContent DEF Get
<1>2. CASE /\ cwork[t].operation = "publish" => casset[a].status = "approved"
           /\ Copy(t)
  <2>1. /\ cpc[t] = "get" /\ Works(t)
        /\ ccopy' = [ccopy EXCEPT ![t] = new]
        /\ cpc' = [cpc EXCEPT ![t] = "save"]
        /\ UNCHANGED <<casset, canswered, cmet, cwork>>
    BY <1>2 DEF Get, Copy, Works
  <2>2. /\ a \in Asset /\ cwork[t].operation \in Operation
        /\ casset[a] \in ContentAsset
    BY <2>1 DEF CInv, CopiesWhole
  <2>3. casset[a] # NoAsset
    BY <2>2 DEF NoAsset, ContentAsset, ContentAssetStatus
  <2>4. Whole(casset[a])
    BY <2>2, <2>3 DEF CInv, StoredWhole
  <2>5. /\ Target(a, cwork[t].operation) \in ContentAssetStatus
        /\ Target(a, cwork[t].operation) = "published"
             => casset[a].status = "approved"
    BY <1>2, <2>2, TargetStatus
  <2>6. /\ new \in ContentAsset /\ Whole(new) /\ new.history # <<>>
        /\ Len(new.history) = Len(casset[a].history) + 1
    BY <2>2, <2>4, <2>5, TransitionWhole
  <2> HIDE DEF new
  <2>7. CTypeOK'
    <3>1. ccopy' \in [Thread -> ContentAsset \cup {NoAsset}]
      BY <2>1, <2>6 DEF CInv, CTypeOK
    <3>2. cpc' \in [Thread -> {"idle", "get", "save"}]
      BY <2>1 DEF CInv, CTypeOK
    <3> QED BY <2>1, <3>1, <3>2 DEF CInv, CTypeOK
  <2>8. /\ ccopy'[t] = new /\ cpc'[t] = "save"
        /\ \A u \in Thread \ {t} : cpc'[u] = cpc[u] /\ ccopy'[u] = ccopy[u]
    BY <2>1 DEF CInv, CTypeOK
  <2>9. \A u \in Thread : Works(u)' <=> Works(u)
    BY <2>1, <2>8 DEF Works
  <2>10. StoredWhole'
    BY <2>1 DEF CInv, StoredWhole
  <2>11. CopiesWhole'
    BY <2>1, <2>2, <2>6, <2>8, <2>9 DEF CInv, CopiesWhole
  <2>12. MeetingsKnown'
    BY <2>1, <2>9 DEF CInv, MeetingsKnown
  <2> QED BY <2>7, <2>10, <2>11, <2>12 DEF CInv
<1> QED BY <1>1, <1>2 DEF Get

(* Whatever another request wrote since, a whole copy is written over it.  *)
LEMMA SaveKeeps ==
  ASSUME CInv, NEW t \in Thread, SaveAsset(t)
  PROVE  CInv'
<1> DEFINE a == cwork[t].asset
<1>1. /\ cpc[t] = "save" /\ Works(t) /\ CEnd(t) /\ cmet' = cmet
      /\ casset' = [casset EXCEPT ![a] = ccopy[t]]
      /\ canswered' = [canswered EXCEPT ![a] = @ + 1]
  BY DEF SaveAsset, Works
<1>2. /\ a \in Asset /\ ccopy[t] \in ContentAsset /\ Whole(ccopy[t])
      /\ casset[a] \in ContentAsset
      /\ a \notin cmet => Len(ccopy[t].history) = Len(casset[a].history) + 1
  BY <1>1 DEF CInv, CopiesWhole
<1>3. CTypeOK'
  <2>1. cpc' \in [Thread -> {"idle", "get", "save"}]
    BY <1>1 DEF CInv, CTypeOK, CEnd
  <2>2. cwork' \in
          [Thread -> [asset : Asset, operation : Operation] \cup {NoTask}]
    BY <1>1 DEF CInv, CTypeOK, CEnd
  <2>3. ccopy' \in [Thread -> ContentAsset \cup {NoAsset}]
    BY <1>1 DEF CInv, CTypeOK, CEnd
  <2>4. casset' \in [Asset -> ContentAsset \cup {NoAsset}]
    BY <1>1, <1>2 DEF CInv, CTypeOK
  <2>5. canswered[a] + 1 \in Nat /\ canswered \in [Asset -> Nat]
    BY <1>2 DEF CInv, CTypeOK
  <2>6. canswered' \in [Asset -> Nat]
    BY <1>1, <2>5
  <2> QED BY <1>1, <2>1, <2>2, <2>3, <2>4, <2>6 DEF CInv, CTypeOK
<1>4. /\ casset'[a] = ccopy[t] /\ canswered'[a] = canswered[a] + 1
      /\ \A b \in Asset \ {a} :
           casset'[b] = casset[b] /\ canswered'[b] = canswered[b]
  BY <1>1, <1>2 DEF CInv, CTypeOK
<1>5. /\ cpc'[t] = "idle"
      /\ \A u \in Thread \ {t} :
           cpc'[u] = cpc[u] /\ cwork'[u] = cwork[u] /\ ccopy'[u] = ccopy[u]
  BY <1>1 DEF CInv, CTypeOK, CEnd
<1>6. \A u \in Thread : Works(u)' => u # t /\ Works(u)
  BY <1>5 DEF Works
<1>7. StoredWhole'
  BY <1>2, <1>4 DEF CInv, StoredWhole
<1>8. CopiesWhole'
  <2> SUFFICES ASSUME NEW u \in Thread, Works(u)'
               PROVE  /\ cwork[u].asset \in Asset
                      /\ cwork[u].operation \in Operation
                      /\ casset'[cwork[u].asset] \in ContentAsset
                      /\ cpc[u] = "save" =>
                           /\ ccopy[u] \in ContentAsset /\ Whole(ccopy[u])
                           /\ ccopy[u].history # <<>>
                           /\ cwork[u].asset \notin cmet =>
                                Len(ccopy[u].history) =
                                  Len(casset'[cwork[u].asset].history) + 1
    BY <1>1, <1>5, <1>6 DEF CopiesWhole
  <2>1. u # t /\ Works(u)
    BY <1>6
  <2>2. CASE cwork[u].asset = a
    <3>1. a \in cmet
      BY <1>1, <2>1, <2>2 DEF CInv, MeetingsKnown
    <3> QED BY <1>2, <1>4, <2>1, <2>2, <3>1 DEF CInv, CopiesWhole
  <2>3. CASE cwork[u].asset # a
    BY <1>4, <2>1, <2>3 DEF CInv, CopiesWhole
  <2> QED BY <2>2, <2>3
<1>9. MeetingsKnown'
  <2>1. \A b \in Asset :
          b \notin cmet' => Len(casset'[b].history) = canswered'[b]
    BY <1>1, <1>2, <1>4 DEF CInv, MeetingsKnown
  <2> QED BY <1>1, <1>5, <1>6, <2>1 DEF CInv, MeetingsKnown
<1> QED BY <1>3, <1>7, <1>8, <1>9 DEF CInv

LEMMA ContentStep == CInv /\ [CNext]_cvars => CInv'
<1> SUFFICES ASSUME CInv, [CNext]_cvars PROVE CInv'
  OBVIOUS
<1>1. CASE \E a \in Asset, answers \in BOOLEAN : Generate(a, answers)
  BY <1>1, GenerateKeeps
<1>2. ASSUME NEW t \in Thread,
             \E a \in Asset, o \in Operation : Decide(t, a, o)
      PROVE  CInv'
  BY <1>2, DecideKeeps
<1>3. ASSUME NEW t \in Thread, Get(t) PROVE CInv'
  BY <1>3, GetKeeps
<1>4. ASSUME NEW t \in Thread, SaveAsset(t) PROVE CInv'
  BY <1>4, SaveKeeps
<1>5. ASSUME NEW t \in Thread, LoseAsset(t) PROVE CInv'
  BY <1>5, EndKeepsContent DEF LoseAsset
<1>6. CASE UNCHANGED cvars
  BY <1>6 DEF cvars, CInv, CTypeOK, StoredWhole, CopiesWhole, MeetingsKnown,
              Works
<1> QED BY <1>1, <1>2, <1>3, <1>4, <1>5, <1>6 DEF CNext

LEMMA ContentInvHolds == CInv => ContentHolds
<1> SUFFICES ASSUME CInv PROVE ContentHistoryHolds
  BY DEF CInv, ContentHolds
<1> SUFFICES ASSUME NEW a \in Asset
             PROVE  /\ Chained(casset[a])
                    /\ {casset[a].history[i].to :
                          i \in DOMAIN casset[a].history} \cap Dated
                         = casset[a].dated
                    /\ a \notin cmet =>
                         Len(casset[a].history) = canswered[a]
  BY DEF ContentHistoryHolds
<1>1. CASE casset[a] = NoAsset
  BY <1>1 DEF NoAsset, Chained, CInv, MeetingsKnown
<1>2. CASE casset[a] # NoAsset
  BY <1>2 DEF CInv, StoredWhole, Whole, MeetingsKnown
<1> QED BY <1>1, <1>2

(* However many requests interleave on one content asset, and whichever    *)
(* copy is written over which, what is stored has a legal history with its *)
(* dates, and has all that was answered unless two of them met.            *)
THEOREM ContentGovernance == CSpec => []ContentHolds
<1> QED BY ContentInit, ContentStep, ContentInvHolds, PTL DEF CSpec

-----------------------------------------------------------------------------
LEMMA AgencyInit == AgInit => AgencyHolds
<1> SUFFICES ASSUME AgInit PROVE AgencyHolds
  OBVIOUS
<1>1. AgTypeOK
  BY DEF AgInit, AgTypeOK, NoWorkspace
<1>2. TenantsKeepApart
  BY DEF AgInit, TenantsKeepApart, ListNotifications, NoAgencyTask, NoNotice
<1> QED BY <1>1, <1>2 DEF AgencyHolds

(* Organisations, clients, teams and workspaces have no tenant.            *)
LEMMA ActorsKeep ==
  ASSUME AgencyHolds, AgTypeOK', UNCHANGED <<gtask, gnotice>>
  PROVE  AgencyHolds'
BY DEF AgencyHolds, TenantsKeepApart, ListNotifications

LEMMA SaveTaskKeeps ==
  ASSUME AgencyHolds, NEW i \in Id, NEW j \in Id, NEW tenant \in Party,
         NEW status \in TaskStatus, SaveTask(i, tenant, j, status)
  PROVE  AgencyHolds'
<1> DEFINE record == IF gtask[i].tenant \in {"none", tenant}
                    THEN [tenant |-> tenant, organization |-> j,
                          status |-> status, by |-> tenant]
                    ELSE gtask[i]
<1>1. /\ gtask' = [gtask EXCEPT ![i] = record]
      /\ UNCHANGED <<gorg, gclient, gteam, gworkspace, gnotice>>
  BY DEF SaveTask, gactors
<1>2. /\ record \in [tenant : Party, organization : Id, status : TaskStatus,
                  by : Party] \cup {NoAgencyTask}
      /\ record.by = record.tenant
  BY DEF AgencyHolds, AgTypeOK, TenantsKeepApart
<1> HIDE DEF record
<1>3. AgTypeOK'
  BY <1>1, <1>2 DEF AgencyHolds, AgTypeOK
<1>4. \A k \in Id : gtask'[k] = IF k = i THEN record ELSE gtask[k]
  BY <1>1 DEF AgencyHolds, AgTypeOK
<1>5. \A k \in Id : /\ gtask'[k].by = gtask'[k].tenant
                    /\ gnotice'[k].by = gnotice'[k].tenant
  BY <1>1, <1>2, <1>4 DEF AgencyHolds, TenantsKeepApart
<1>6. TenantsKeepApart'
  BY <1>5 DEF TenantsKeepApart, ListNotifications
<1> QED BY <1>3, <1>6 DEF AgencyHolds

LEMMA UpdateTaskKeeps ==
  ASSUME AgencyHolds, NEW i \in Id, NEW tenant \in Party,
         NEW status \in TaskStatus, UpdateTaskStatus(i, tenant, status)
  PROVE  AgencyHolds'
<1> DEFINE record == [gtask[i] EXCEPT !.status = status, !.by = tenant]
<1>1. /\ gtask[i].tenant = tenant
      /\ gtask' = [gtask EXCEPT ![i] = record]
      /\ UNCHANGED <<gorg, gclient, gteam, gworkspace, gnotice>>
  BY DEF UpdateTaskStatus, gactors
<1>2. gtask[i] \in [tenant : Party, organization : Id, status : TaskStatus,
                    by : Party]
  BY <1>1, AgencyAssumption DEF AgencyHolds, AgTypeOK, NoAgencyTask
<1>3. /\ record \in [tenant : Party, organization : Id, status : TaskStatus,
                  by : Party]
      /\ record.by = record.tenant
  BY <1>1, <1>2
<1> HIDE DEF record
<1>4. AgTypeOK'
  BY <1>1, <1>3 DEF AgencyHolds, AgTypeOK
<1>5. \A k \in Id : gtask'[k] = IF k = i THEN record ELSE gtask[k]
  BY <1>1 DEF AgencyHolds, AgTypeOK
<1>6. \A k \in Id : /\ gtask'[k].by = gtask'[k].tenant
                    /\ gnotice'[k].by = gnotice'[k].tenant
  BY <1>1, <1>3, <1>5 DEF AgencyHolds, TenantsKeepApart
<1>7. TenantsKeepApart'
  BY <1>6 DEF TenantsKeepApart, ListNotifications
<1> QED BY <1>4, <1>7 DEF AgencyHolds

LEMMA SaveNotificationKeeps ==
  ASSUME AgencyHolds, NEW i \in Id, NEW j \in Id, NEW tenant \in Party,
         SaveNotification(i, tenant, j)
  PROVE  AgencyHolds'
<1> DEFINE record == IF gnotice[i].tenant \in {"none", tenant}
                    THEN [tenant |-> tenant, recipient |-> j, by |-> tenant]
                    ELSE gnotice[i]
<1>1. /\ gnotice' = [gnotice EXCEPT ![i] = record]
      /\ UNCHANGED <<gorg, gclient, gteam, gworkspace, gtask>>
  BY DEF SaveNotification, gactors
<1>2. /\ record \in [tenant : Party, recipient : Id, by : Party] \cup {NoNotice}
      /\ record.by = record.tenant
  BY DEF AgencyHolds, AgTypeOK, TenantsKeepApart
<1> HIDE DEF record
<1>3. AgTypeOK'
  BY <1>1, <1>2 DEF AgencyHolds, AgTypeOK
<1>4. \A k \in Id : gnotice'[k] = IF k = i THEN record ELSE gnotice[k]
  BY <1>1 DEF AgencyHolds, AgTypeOK
<1>5. \A k \in Id : /\ gtask'[k].by = gtask'[k].tenant
                    /\ gnotice'[k].by = gnotice'[k].tenant
  BY <1>1, <1>2, <1>4 DEF AgencyHolds, TenantsKeepApart
<1>6. TenantsKeepApart'
  BY <1>5 DEF TenantsKeepApart, ListNotifications
<1> QED BY <1>3, <1>6 DEF AgencyHolds

LEMMA AgencyStep == AgencyHolds /\ [AgNext]_agvars => AgencyHolds'
<1> SUFFICES ASSUME AgencyHolds, [AgNext]_agvars PROVE AgencyHolds'
  OBVIOUS
<1>1. ASSUME NEW i \in Id, NEW j \in Id,
             \/ SaveOrganization(i) \/ SaveClient(i, j) \/ SaveTeam(i, j)
             \/ \E clients \in {<<>>, <<j>>} : SaveWorkspace(i, j, clients)
      PROVE  AgencyHolds'
  <2>1. UNCHANGED <<gtask, gnotice>>
    BY <1>1 DEF SaveOrganization, SaveClient, SaveTeam, SaveWorkspace
  <2>2. ASSUME SaveOrganization(i) PROVE AgTypeOK'
    BY <2>2 DEF AgencyHolds, AgTypeOK, SaveOrganization
  <2>3. ASSUME SaveClient(i, j) PROVE AgTypeOK'
    BY <2>3 DEF AgencyHolds, AgTypeOK, SaveClient
  <2>4. ASSUME SaveTeam(i, j) PROVE AgTypeOK'
    BY <2>4 DEF AgencyHolds, AgTypeOK, SaveTeam
  <2>5. ASSUME NEW clients \in {<<>>, <<j>>}, SaveWorkspace(i, j, clients)
        PROVE  AgTypeOK'
    <3>1. (IF clients = <<>> THEN "none" ELSE clients[1]) \in Id \cup {"none"}
      OBVIOUS
    <3> QED BY <2>5, <3>1 DEF AgencyHolds, AgTypeOK, SaveWorkspace
  <2>6. AgTypeOK'
    BY <1>1, <2>2, <2>3, <2>4, <2>5
  <2> QED BY <2>1, <2>6, ActorsKeep
<1>2. CASE UNCHANGED agvars
  BY <1>2 DEF agvars, gactors, AgencyHolds, AgTypeOK, TenantsKeepApart,
              ListNotifications
<1> QED
  BY <1>1, <1>2, SaveTaskKeeps, UpdateTaskKeeps, SaveNotificationKeeps
  DEF AgNext

(* Any number of tenants, and any sequence of calls: no task and no        *)
(* notification is written by a tenant it does not belong to.              *)
THEOREM AgencyApart == AgSpec => []AgencyHolds
<1> QED BY AgencyInit, AgencyStep, PTL DEF AgSpec

-----------------------------------------------------------------------------
(* The rules of growth automation.                                         *)

(* One thread handles an event, and only while it does has it any work.    *)
Handling ==
  /\ Len(aevent) <= MaxEvent
  /\ \A t \in Thread : awork[t] <= Len(aevent)
  /\ \A t \in Thread : awork[t] = 0 <=> apc[t] = "idle"
  /\ \A t, u \in Thread : awork[t] = awork[u] /\ awork[t] # 0 => t = u
  /\ \A t \in Thread :
       apc[t] # "dispatch" => atodo[t] = {} /\ apending[t] = {}

(* A rule that was off all the time is off, and is not due.                *)
StaysOff ==
  \A n \in Event : \A r \in aoff[n] : arule[r] # "enabled" /\ r \notin adue[n]

Untouched(n, r) ==
  afired[n][r] = 0 /\ alog[n][r]["success"] = 0 /\ alog[n][r]["failed"] = 0
Logged(n, r) ==
  /\ alog[n][r]["success"] = afired[n][r]
  /\ alog[n][r]["success"] + alog[n][r]["failed"] =
       IF r \in adue[n] THEN 1 ELSE 0

(* What the engine's loop still has to do for an event.                    *)
Looping(t, n) ==
  /\ atodo[t] \subseteq adue[n]
  /\ \A r \in atodo[t] : Untouched(n, r)
  /\ \A log \in apending[t] :
       /\ log.rule \in adue[n] \ atodo[t]
       /\ \A s \in Result : alog[n][log.rule][s] = 0
       /\ afired[n][log.rule] = IF log.result = "success" THEN 1 ELSE 0
  /\ n \notin alost => \A r \in Rule \ atodo[t] :
       (\A log \in apending[t] : log.rule # r) => Logged(n, r)

Exact(n) ==
  /\ \A r \in Rule : /\ alog[n][r]["success"] <= afired[n][r]
                     /\ afired[n][r] <= 1
                     /\ r \notin adue[n] => Untouched(n, r)
  /\ n > Len(aevent) \/ (\E t \in Thread : apc[t] = "read" /\ awork[t] = n) =>
       adue[n] = {}
  /\ n > Len(aevent) => n \notin alost
  /\ \A t \in Thread : apc[t] = "dispatch" /\ awork[t] = n => Looping(t, n)
  /\ n <= Len(aevent) /\ n \notin alost /\ (\A t \in Thread : awork[t] # n) =>
       \A r \in Rule : Logged(n, r)

RulesInv == ATypeOK /\ Handling /\ StaysOff /\ \A n \in Event : Exact(n)

(* What a step says of one event only leaves the others as they are.       *)
LEMMA EventKept ==
  ASSUME NEW n \in Event, Exact(n),
         adue'[n] = adue[n], afired'[n] = afired[n], alog'[n] = alog[n],
         n \in alost' <=> n \in alost,
         n > Len(aevent') <=> n > Len(aevent),
         n <= Len(aevent') <=> n <= Len(aevent),
         \A t \in Thread : awork'[t] = n <=> awork[t] = n,
         \A t \in Thread : awork[t] = n =>
           /\ apc'[t] = apc[t] /\ atodo'[t] = atodo[t]
           /\ apending'[t] = apending[t]
  PROVE  Exact(n)'
<1>1. \A r : /\ Untouched(n, r)' <=> Untouched(n, r)
             /\ Logged(n, r)' <=> Logged(n, r)
  BY DEF Untouched, Logged
<1>2. \A t \in Thread : awork[t] = n => (Looping(t, n)' <=> Looping(t, n))
  BY <1>1 DEF Looping
<1> QED BY <1>1, <1>2 DEF Exact

LEMMA RulesInit == AInit => RulesInv
<1> SUFFICES ASSUME AInit PROVE RulesInv
  OBVIOUS
<1>1. Len(aevent) = 0 /\ MaxEvent \in Nat
  BY AutomationAssumption DEF AInit
<1>2. ATypeOK
  BY DEF AInit, ATypeOK
<1>3. Handling /\ StaysOff
  BY <1>1 DEF AInit, Handling, StaysOff
<1>4. ASSUME NEW n \in Event PROVE Exact(n)
  BY <1>1, <1>4 DEF AInit, Exact, Untouched, Event, Result
<1> QED BY <1>2, <1>3, <1>4 DEF RulesInv

LEMMA RuleKeeps ==
  ASSUME RulesInv, NEW r \in Rule, NEW on \in BOOLEAN,
         CreateRule(r, on) \/ DisableRule(r)
  PROVE  RulesInv'
<1>1. UNCHANGED <<aevent, adue, afired, alog, alost, apc, awork, atodo,
                  apending>>
  BY DEF CreateRule, DisableRule
<1>2. ATypeOK'
  <2>1. arule' \in [Rule -> {"none", "enabled", "disabled"}]
    BY DEF RulesInv, ATypeOK, CreateRule, DisableRule
  <2>2. aoff' \in [Event -> SUBSET Rule]
    <3>1. CASE DisableRule(r)
      BY <3>1 DEF RulesInv, ATypeOK, DisableRule
    <3>2. CASE CreateRule(r, on)
      <4>1. \A n \in Event : aoff[n] \subseteq Rule
        BY DEF RulesInv, ATypeOK
      <4> QED BY <3>2, <4>1 DEF CreateRule
    <3> QED BY <3>1, <3>2
  <2> QED BY <1>1, <2>1, <2>2 DEF RulesInv, ATypeOK
<1>3. Handling'
  BY <1>1 DEF RulesInv, Handling
<1>4. StaysOff'
  BY <1>1 DEF RulesInv, ATypeOK, StaysOff, CreateRule, DisableRule
<1>5. \A n \in Event : Exact(n)'
  BY <1>1, EventKept DEF RulesInv
<1> QED BY <1>2, <1>3, <1>4, <1>5 DEF RulesInv

LEMMA PublishKeeps ==
  ASSUME RulesInv, NEW t \in Thread, Publish(t) PROVE RulesInv'
<1>0. PICK k : k = Len(aevent) + 1
  OBVIOUS
<1>1. PICK type \in EventType, value \in Payload \cup {Absent} :
        aevent' = Append(aevent, [type |-> type, value |-> value])
  BY DEF Publish
<1>2. /\ apc[t] = "idle" /\ awork[t] = 0
      /\ Len(aevent) \in Nat /\ Len(aevent) < MaxEvent /\ Len(aevent') = k
      /\ UNCHANGED <<arule, adue, afired, alog, alost, atodo, apending>>
  BY <1>0, <1>1 DEF Publish, RulesInv, ATypeOK, Handling
<1>3. k \in Event /\ k # 0 /\ MaxEvent \in Nat
  BY <1>0, <1>2, AutomationAssumption DEF Event
<1>4. /\ awork' = [awork EXCEPT ![t] = k]
      /\ apc' = [apc EXCEPT ![t] = "read"]
      /\ aoff' = [aoff EXCEPT ![k] = {r \in Rule : arule[r] # "enabled"}]
  BY <1>2 DEF Publish
<1>5. /\ awork'[t] = k /\ apc'[t] = "read"
      /\ \A u \in Thread \ {t} : awork'[u] = awork[u] /\ apc'[u] = apc[u]
      /\ \A u \in Thread \ {t} : awork[u] # k
      /\ \A u \in Thread : awork[u] \in Nat
  BY <1>0, <1>2, <1>4 DEF RulesInv, ATypeOK, Handling, Event
<1>6. ATypeOK'
  <2>1. aevent' \in Seq([type : EventType, value : Payload \cup {Absent}])
    BY <1>1 DEF RulesInv, ATypeOK
  <2> QED BY <1>2, <1>3, <1>4, <2>1 DEF RulesInv, ATypeOK
<1>7. adue[k] = {} /\ k \notin alost
  BY <1>0, <1>2, <1>3 DEF RulesInv, Exact
<1>8. Handling'
  <2>1. \A u \in Thread : awork'[u] <= k
    BY <1>0, <1>2, <1>5 DEF RulesInv, Handling
  <2>2. \A u \in Thread : awork'[u] = 0 <=> apc'[u] = "idle"
    BY <1>3, <1>5 DEF RulesInv, Handling
  <2>3. \A u, v \in Thread : awork'[u] = awork'[v] /\ awork'[u] # 0 => u = v
    BY <1>5 DEF RulesInv, Handling
  <2>4. \A u \in Thread :
          apc'[u] # "dispatch" => atodo'[u] = {} /\ apending'[u] = {}
    BY <1>2, <1>5 DEF RulesInv, Handling
  <2> QED BY <1>0, <1>2, <1>3, <2>1, <2>2, <2>3, <2>4 DEF Handling
<1>9. StaysOff'
  <2>1. \A n \in Event : n # k => aoff'[n] = aoff[n]
    BY <1>4 DEF RulesInv, ATypeOK
  <2>2. aoff'[k] = {r \in Rule : arule[r] # "enabled"}
    BY <1>3, <1>4 DEF RulesInv, ATypeOK
  <2> QED BY <1>2, <1>7, <2>1, <2>2 DEF RulesInv, StaysOff
<1>10. ASSUME NEW n \in Event PROVE Exact(n)'
  <2>1. CASE n = k
    <3>1. \A r \in Rule : r \notin adue[k] => Untouched(k, r)
      BY <1>3 DEF RulesInv, Exact
    <3>2. \A r \in Rule : Untouched(k, r)'
      BY <1>2, <1>7, <3>1 DEF Untouched
    <3>3. \A u \in Thread : apc'[u] = "dispatch" => awork'[u] # k
      BY <1>5
    <3> QED
      BY <1>0, <1>2, <1>3, <1>5, <1>7, <2>1, <3>2, <3>3 DEF Exact, Untouched
  <2>2. CASE n # k
    <3>1. n \in Nat /\ n # 0
      BY AutomationAssumption DEF Event
    <3>2. \A u \in Thread : awork'[u] = n <=> awork[u] = n
      BY <1>2, <1>5, <2>2, <3>1
    <3>3. \A u \in Thread : awork[u] = n => apc'[u] = apc[u]
      BY <1>2, <1>5, <3>1
    <3>4. Exact(n)
      BY DEF RulesInv
    <3> QED
      BY <1>0, <1>2, <2>2, <3>1, <3>2, <3>3, <3>4, EventKept
  <2> QED BY <2>1, <2>2
<1> QED BY <1>6, <1>8, <1>9, <1>10 DEF RulesInv

(* The event a thread handles, and what a step for it leaves alone.        *)
LEMMA Handles ==
  ASSUME RulesInv, NEW t \in Thread, apc[t] # "idle"
  PROVE  /\ awork[t] \in Event /\ awork[t] <= Len(aevent)
         /\ Len(aevent) \in Nat /\ ~ (awork[t] > Len(aevent))
         /\ Exact(awork[t])
         /\ \A u \in Thread \ {t} : awork[u] # awork[t]
BY DEF RulesInv, ATypeOK, Handling, Event

LEMMA ReadRulesKeeps ==
  ASSUME RulesInv, NEW t \in Thread, ReadRules(t) PROVE RulesInv'
<1>0. PICK n : n = awork[t]
  OBVIOUS
<1>1. apc[t] = "read" /\ UNCHANGED <<arule, aevent, aoff, afired, alog, alost,
                                     awork, apending>>
  BY DEF ReadRules
<1>2. /\ n \in Event /\ n <= Len(aevent) /\ ~ (n > Len(aevent)) /\ Exact(n)
      /\ \A u \in Thread \ {t} : awork[u] # n
  BY <1>0, <1>1, Handles
<1>3. PICK due \in SUBSET Rule :
        /\ \A r \in due : arule[r] = "enabled"
        /\ adue' = [adue EXCEPT ![n] = due]
        /\ atodo' = [atodo EXCEPT ![t] = due]
        /\ apc' = [apc EXCEPT ![t] = "dispatch"]
  <2> DEFINE due == {r \in RulesForEvent(aevent[n]) : Matches(r, aevent[n])}
  <2>1. due \in SUBSET Rule /\ \A r \in due : arule[r] = "enabled"
    BY DEF RulesForEvent
  <2>2. /\ adue' = [adue EXCEPT ![n] = due]
        /\ atodo' = [atodo EXCEPT ![t] = due]
        /\ apc' = [apc EXCEPT ![t] = "dispatch"]
    BY <1>0 DEF ReadRules
  <2> HIDE DEF due
  <2> QED BY <2>1, <2>2
<1>4. /\ adue'[n] = due /\ atodo'[t] = due /\ apc'[t] = "dispatch"
      /\ \A u \in Thread \ {t} : atodo'[u] = atodo[u] /\ apc'[u] = apc[u]
      /\ \A m \in Event : m # n => adue'[m] = adue[m]
      /\ apending[t] = {}
  BY <1>1, <1>2, <1>3 DEF RulesInv, ATypeOK, Handling
<1>5. ATypeOK'
  BY <1>1, <1>3 DEF RulesInv, ATypeOK
<1>6. Handling'
  BY <1>0, <1>1, <1>4 DEF RulesInv, Handling
<1>7. StaysOff'
  BY <1>1, <1>3, <1>4 DEF RulesInv, StaysOff
<1>8. Exact(n)'
  <2>1. \A r \in Rule : Untouched(n, r)
    BY <1>0, <1>1, <1>2 DEF Exact
  <2>2. \A r \in Rule : Untouched(n, r)'
    BY <1>1, <2>1 DEF Untouched
  <2>3. \A r \in Rule \ due : Logged(n, r)'
    BY <1>4, <2>2 DEF Logged, Untouched
  <2>4. Looping(t, n)'
    BY <1>1, <1>4, <2>2, <2>3 DEF Looping
  <2>5. \A u \in Thread : awork'[u] = n => u = t
    BY <1>1, <1>2
  <2> QED
    BY <1>0, <1>1, <1>2, <1>4, <2>2, <2>4, <2>5 DEF Exact, Untouched
<1>9. ASSUME NEW m \in Event, m # n PROVE Exact(m)'
  <2>1. \A u \in Thread : awork[u] = m => u # t
    BY <1>0, <1>9
  <2> QED BY <1>1, <1>4, <1>9, <2>1, EventKept DEF RulesInv
<1> QED BY <1>5, <1>6, <1>7, <1>8, <1>9 DEF RulesInv

LEMMA DispatchKeeps ==
  ASSUME RulesInv, NEW t \in Thread, Dispatch(t) PROVE RulesInv'
<1>0. PICK n : n = awork[t]
  OBVIOUS
<1>1. apc[t] = "dispatch" /\ UNCHANGED <<arule, aevent, adue, aoff, alog,
                                         alost, apc, awork>>
  BY DEF Dispatch
<1>2. /\ n \in Event /\ n <= Len(aevent) /\ ~ (n > Len(aevent)) /\ Exact(n)
      /\ \A u \in Thread \ {t} : awork[u] # n
  BY <1>0, <1>1, Handles
<1>3. PICK r \in atodo[t], acts \in BOOLEAN :
        /\ afired' = [afired EXCEPT ![n][r] = IF acts THEN @ + 1 ELSE @]
        /\ atodo' = [atodo EXCEPT ![t] = @ \ {r}]
        /\ apending' = [apending EXCEPT ![t] = @ \cup
             {[rule |-> r, result |-> IF acts THEN "success" ELSE "failed"]}]
  BY <1>0 DEF Dispatch
<1> DEFINE new ==
             [rule |-> r, result |-> IF acts THEN "success" ELSE "failed"]
<1>4. /\ new.rule = r
      /\ new.result = IF acts THEN "success" ELSE "failed"
      /\ apending' = [apending EXCEPT ![t] = @ \cup {new}]
  BY <1>3
<1>5. r \in Rule /\ new \in [rule : Rule, result : Result]
  BY <1>3 DEF RulesInv, ATypeOK, Result
<1>6. Looping(t, n)
  BY <1>0, <1>1, <1>2 DEF Exact
<1>7. Untouched(n, r) /\ r \in adue[n]
  BY <1>3, <1>6 DEF Looping
<1> HIDE DEF new
<1>8. /\ atodo'[t] = atodo[t] \ {r} /\ apending'[t] = apending[t] \cup {new}
      /\ \A u \in Thread \ {t} : /\ atodo'[u] = atodo[u]
                                 /\ apending'[u] = apending[u]
      /\ \A m \in Event : m # n => afired'[m] = afired[m]
      /\ \A q \in Rule : q # r => afired'[n][q] = afired[n][q]
      /\ afired'[n][r] = IF acts THEN 1 ELSE 0
  BY <1>2, <1>3, <1>4, <1>5, <1>7 DEF RulesInv, ATypeOK, Untouched
<1>9. ATypeOK'
  <2>1. afired' \in [Event -> [Rule -> Nat]]
    <3>1. afired \in [Event -> [Rule -> Nat]] /\ afired[n] \in [Rule -> Nat]
      BY <1>2 DEF RulesInv, ATypeOK
    <3>2. (IF acts THEN afired[n][r] + 1 ELSE afired[n][r]) \in Nat
      BY <1>5, <3>1
    <3> QED BY <1>2, <1>3, <1>5, <3>1, <3>2
  <2>2. apending' \in [Thread -> SUBSET [rule : Rule, result : Result]]
    BY <1>4, <1>5 DEF RulesInv, ATypeOK
  <2> QED BY <1>1, <1>3, <2>1, <2>2 DEF RulesInv, ATypeOK
<1>10. Handling'
  BY <1>1, <1>8 DEF RulesInv, Handling
<1>11. StaysOff'
  BY <1>1 DEF RulesInv, StaysOff
<1>12. Exact(n)'
  <2>1. \A q \in Rule : q # r => /\ Untouched(n, q)' <=> Untouched(n, q)
                                 /\ Logged(n, q)' <=> Logged(n, q)
    BY <1>1, <1>8 DEF Untouched, Logged
  <2>2. \A log \in apending[t] : log.rule # r /\ log.rule \in Rule
    BY <1>3, <1>6 DEF Looping, RulesInv, ATypeOK
  <2>3. ASSUME NEW log \in apending'[t]
        PROVE  /\ log.rule \in adue[n] \ atodo'[t]
               /\ \A s \in Result : alog[n][log.rule][s] = 0
               /\ afired'[n][log.rule] = IF log.result = "success" THEN 1 ELSE 0
    <3>1. CASE log = new
      BY <1>4, <1>7, <1>8, <3>1 DEF Untouched, Result
    <3>2. CASE log \in apending[t]
      BY <1>6, <1>8, <2>2, <3>2 DEF Looping
    <3> QED BY <1>8, <3>1, <3>2
  <2>4. Looping(t, n)'
    <3>1. \A q \in atodo'[t] : Untouched(n, q)'
      BY <1>6, <1>8, <2>1 DEF Looping, RulesInv, ATypeOK
    <3>2. ASSUME n \notin alost, NEW q \in Rule \ atodo'[t],
                 \A log \in apending'[t] : log.rule # q
          PROVE  Logged(n, q)'
      <4>1. q # r
        BY <1>4, <1>8, <3>2
      <4>2. Logged(n, q)
        BY <1>6, <1>8, <3>2, <4>1 DEF Looping
      <4> QED BY <2>1, <4>1, <4>2
    <3> QED BY <1>1, <1>6, <1>8, <2>3, <3>1, <3>2 DEF Looping
  <2>5. \A q \in Rule : /\ alog'[n][q]["success"] <= afired'[n][q]
                        /\ afired'[n][q] <= 1
                        /\ q \notin adue'[n] => Untouched(n, q)'
    BY <1>1, <1>2, <1>7, <1>8, <2>1 DEF Exact, Untouched
  <2>6. \A u \in Thread : awork'[u] = n => u = t
    BY <1>1, <1>2
  <2> QED
    BY <1>0, <1>1, <1>2, <2>4, <2>5, <2>6 DEF Exact
<1>13. ASSUME NEW m \in Event, m # n PROVE Exact(m)'
  <2>1. \A u \in Thread : awork[u] = m => u # t
    BY <1>0, <1>13
  <2> QED BY <1>1, <1>8, <1>13, <2>1, EventKept DEF RulesInv
<1> QED BY <1>9, <1>10, <1>11, <1>12, <1>13 DEF RulesInv

LEMMA SaveLogKeeps ==
  ASSUME RulesInv, NEW t \in Thread, SaveLog(t) PROVE RulesInv'
<1>0. PICK n : n = awork[t]
  OBVIOUS
<1>1. /\ apc[t] = "dispatch" /\ atodo[t] = {}
      /\ UNCHANGED <<arule, aevent, adue, aoff, afired, apc, awork, atodo>>
  BY DEF SaveLog
<1>2. /\ n \in Event /\ n <= Len(aevent) /\ ~ (n > Len(aevent)) /\ Exact(n)
      /\ \A u \in Thread \ {t} : awork[u] # n
  BY <1>0, <1>1, Handles
<1>3. PICK log \in apending[t], saved \in BOOLEAN :
        /\ alog' = [alog EXCEPT ![n][log.rule][log.result] =
                      IF saved THEN @ + 1 ELSE @]
        /\ alost' = IF saved THEN alost ELSE alost \cup {n}
        /\ apending' = [apending EXCEPT ![t] = @ \ {log}]
  BY <1>0 DEF SaveLog
<1>4. /\ log \in [rule : Rule, result : Result]
      /\ log.rule \in Rule /\ log.result \in Result
  BY <1>3 DEF RulesInv, ATypeOK
<1>5. Looping(t, n)
  BY <1>0, <1>1, <1>2 DEF Exact
<1>6. PICK r \in Rule, s \in Result : r = log.rule /\ s = log.result
  BY <1>4
<1>7. /\ r \in adue[n] /\ alog[n][r]["success"] = 0 /\ alog[n][r]["failed"] = 0
      /\ afired[n][r] = IF s = "success" THEN 1 ELSE 0
  BY <1>3, <1>5, <1>6 DEF Looping, Result
<1>8. /\ alog \in [Event -> [Rule -> [Result -> Nat]]]
      /\ alog[n] \in [Rule -> [Result -> Nat]]
      /\ alog[n][r] \in [Result -> Nat]
  BY <1>2 DEF RulesInv, ATypeOK
<1>9. /\ \A m \in Event : m # n => alog'[m] = alog[m]
      /\ \A q \in Rule : q # r => alog'[n][q] = alog[n][q]
      /\ \A o \in Result : alog'[n][r][o] = IF o = s /\ saved THEN 1 ELSE 0
      /\ alog' \in [Event -> [Rule -> [Result -> Nat]]]
  <2> DEFINE record == [alog[n][r] EXCEPT ![s] = IF saved THEN @ + 1 ELSE @]
  <2>1. record \in [Result -> Nat]
    BY <1>8
  <2>2. \A o \in Result : record[o] = IF o = s /\ saved THEN 1 ELSE 0
    BY <1>7, <1>8 DEF Result
  <2>3. alog' = [alog EXCEPT ![n] = [alog[n] EXCEPT ![r] = record]]
    BY <1>3, <1>6, <1>8
  <2> HIDE DEF record
  <2> QED BY <1>2, <1>8, <2>1, <2>2, <2>3
<1>10. /\ apending'[t] = apending[t] \ {log}
       /\ \A u \in Thread \ {t} : apending'[u] = apending[u]
       /\ apending' \in [Thread -> SUBSET [rule : Rule, result : Result]]
       /\ alost' \subseteq Event
       /\ \A m \in Event : m # n => (m \in alost' <=> m \in alost)
       /\ n \notin alost' => saved /\ n \notin alost
  BY <1>2, <1>3 DEF RulesInv, ATypeOK
<1>11. ATypeOK'
  BY <1>1, <1>9, <1>10 DEF RulesInv, ATypeOK
<1>12. Handling'
  BY <1>1, <1>10 DEF RulesInv, Handling
<1>13. StaysOff'
  BY <1>1 DEF RulesInv, StaysOff
<1>14. Exact(n)'
  <2>1. \A q \in Rule : q # r => /\ Untouched(n, q)' <=> Untouched(n, q)
                                 /\ Logged(n, q)' <=> Logged(n, q)
    BY <1>1, <1>9 DEF Untouched, Logged
  <2>2. "success" \in Result /\ "failed" \in Result
    BY DEF Result
  <2>3. s = "success" \/ s = "failed"
    BY DEF Result
  <2>4. n \notin alost' => Logged(n, r)'
    BY <1>1, <1>7, <1>9, <1>10, <2>2, <2>3 DEF Logged
  <2>5. \A other \in apending'[t] : other.rule # r
    <3>1. SUFFICES ASSUME NEW other \in apending[t], other.rule = r
                   PROVE  other = log
      BY <1>10
    <3>2. afired[n][r] = IF other.result = "success" THEN 1 ELSE 0
      BY <1>5, <3>1 DEF Looping
    <3>3. other \in [rule : Rule, result : Result]
      BY <3>1 DEF RulesInv, ATypeOK
    <3>4. other.result = s
      BY <1>7, <2>3, <3>2, <3>3 DEF Result
    <3> QED BY <1>4, <1>6, <3>1, <3>3, <3>4
  <2>6. Looping(t, n)'
    <3>1. ASSUME NEW other \in apending'[t]
          PROVE  /\ other.rule \in adue[n]
                 /\ \A o \in Result : alog'[n][other.rule][o] = 0
                 /\ afired[n][other.rule] =
                      IF other.result = "success" THEN 1 ELSE 0
      <4>1. other \in apending[t] /\ other.rule # r /\ other.rule \in Rule
        BY <1>10, <2>5 DEF RulesInv, ATypeOK
      <4> QED BY <1>5, <1>9, <4>1 DEF Looping
    <3>2. ASSUME n \notin alost', NEW q \in Rule,
                 \A other \in apending'[t] : other.rule # q
          PROVE  Logged(n, q)'
      <4>1. CASE q = r
        BY <2>4, <3>2, <4>1
      <4>2. CASE q # r
        <5>1. \A other \in apending[t] : other.rule # q
          BY <1>6, <1>10, <3>2, <4>2
        <5> QED BY <1>1, <1>5, <1>10, <2>1, <3>2, <4>2, <5>1 DEF Looping
      <4> QED BY <4>1, <4>2
    <3> QED BY <1>1, <3>1, <3>2 DEF Looping
  <2>7. \A q \in Rule : /\ alog'[n][q]["success"] <= afired[n][q]
                        /\ afired[n][q] <= 1
                        /\ q \notin adue[n] => Untouched(n, q)'
    BY <1>2, <1>7, <1>9, <2>1, <2>2, <2>3 DEF Exact
  <2>8. \A u \in Thread : awork'[u] = n => u = t
    BY <1>1, <1>2
  <2> QED BY <1>0, <1>1, <1>2, <2>6, <2>7, <2>8 DEF Exact
<1>15. ASSUME NEW m \in Event, m # n PROVE Exact(m)'
  <2>1. \A u \in Thread : awork[u] = m => u # t
    BY <1>0, <1>15
  <2> QED BY <1>1, <1>9, <1>10, <1>15, <2>1, EventKept DEF RulesInv
<1> QED BY <1>11, <1>12, <1>13, <1>14, <1>15 DEF RulesInv

(* The thread is done with its event, or loses it.                         *)
LEMMA EndKeeps ==
  ASSUME RulesInv, NEW t \in Thread, Handled(t) \/ ALose(t) PROVE RulesInv'
<1>0. PICK n : n = awork[t]
  OBVIOUS
<1>1. /\ apc[t] # "idle" /\ AEnd(t)
      /\ UNCHANGED <<arule, aevent, adue, aoff, afired, alog>>
      /\ \/ alost' = alost \cup {n}
         \/ /\ alost' = alost /\ apc[t] = "dispatch"
            /\ atodo[t] = {} /\ apending[t] = {}
  BY <1>0 DEF Handled, ALose, arows
<1>2. /\ n \in Event /\ n <= Len(aevent) /\ ~ (n > Len(aevent)) /\ Exact(n)
      /\ \A u \in Thread \ {t} : awork[u] # n
      /\ Len(aevent) \in Nat
  BY <1>0, <1>1, Handles
<1>3. /\ apc'[t] = "idle" /\ awork'[t] = 0 /\ atodo'[t] = {}
      /\ apending'[t] = {}
      /\ \A u \in Thread \ {t} :
           /\ apc'[u] = apc[u] /\ awork'[u] = awork[u]
           /\ atodo'[u] = atodo[u] /\ apending'[u] = apending[u]
  BY <1>1 DEF AEnd, RulesInv, ATypeOK
<1>4. ATypeOK'
  BY <1>1, <1>2 DEF AEnd, RulesInv, ATypeOK
<1>5. Handling'
  BY <1>1, <1>2, <1>3 DEF RulesInv, Handling
<1>6. StaysOff'
  BY <1>1 DEF RulesInv, StaysOff
<1>7. Exact(n)'
  <2>1. \A r : /\ Untouched(n, r)' <=> Untouched(n, r)
               /\ Logged(n, r)' <=> Logged(n, r)
    BY <1>1 DEF Untouched, Logged
  <2>2. ASSUME n \notin alost' PROVE \A r \in Rule : Logged(n, r)
    <3>1. /\ n \notin alost /\ apc[t] = "dispatch"
          /\ atodo[t] = {} /\ apending[t] = {}
      BY <1>1, <2>2
    <3>2. Looping(t, n)
      BY <1>0, <1>2, <3>1 DEF Exact
    <3> QED BY <3>1, <3>2 DEF Looping
  <2>3. n # 0
    BY <1>2, AutomationAssumption DEF Event
  <2>4. \A u \in Thread : awork'[u] # n
    BY <1>2, <1>3, <2>3
  <2> QED BY <1>1, <1>2, <2>1, <2>2, <2>4 DEF Exact
<1>8. ASSUME NEW m \in Event, m # n PROVE Exact(m)'
  <2>1. \A u \in Thread : awork[u] = m => u # t
    BY <1>0, <1>8
  <2>2. m # 0 /\ Exact(m)
    BY AutomationAssumption DEF Event, RulesInv
  <2>3. m \in alost' <=> m \in alost
    BY <1>1, <1>8
  <2>4. \A u \in Thread : awork'[u] = m <=> awork[u] = m
    BY <1>3, <2>1, <2>2
  <2> QED BY <1>1, <1>3, <2>1, <2>2, <2>3, <2>4, EventKept
<1> QED BY <1>4, <1>5, <1>6, <1>7, <1>8 DEF RulesInv

(* A rule fires at most once on an event and never if it was off all the   *)
(* while; its log says what happened, and once an event is handled without *)
(* a loss, each due rule has one log row, whatever failed beside it        *)
(* (AutomationService._handle_event).                                      *)
THEOREM RulesFireExactly == ASpec => []AutomationHolds
<1>1. ASSUME RulesInv, [ANext]_avars PROVE RulesInv'
  <2>1. CASE ANext
    BY <1>1, <2>1, RuleKeeps, PublishKeeps, ReadRulesKeeps, DispatchKeeps,
       SaveLogKeeps, EndKeeps DEF ANext
  <2>2. CASE UNCHANGED avars
    <3>1. UNCHANGED <<arule, aevent, adue, aoff, afired, alog, alost, apc,
                      awork, atodo, apending>>
      BY <2>2 DEF avars, arows
    <3>2. ATypeOK' /\ Handling' /\ StaysOff'
      BY <1>1, <3>1 DEF RulesInv, ATypeOK, Handling, StaysOff
    <3>3. \A n \in Event : Exact(n)'
      BY <1>1, <3>1, EventKept DEF RulesInv
    <3> QED BY <3>2, <3>3 DEF RulesInv
  <2> QED BY <1>1, <2>1, <2>2
<1>2. RulesInv => AutomationHolds
  <2> SUFFICES ASSUME RulesInv, NEW n \in DOMAIN aevent, NEW r \in Rule
               PROVE
        /\ afired[n][r] > 0 => r \in adue[n] \ aoff[n]
        /\ alog[n][r]["success"] <= afired[n][r] /\ afired[n][r] <= 1
        /\ n \notin alost /\ (\A t \in Thread : awork[t] # n) => Logged(n, r)
    BY DEF AutomationHolds, FiringsAreExact, RulesInv, Logged
  <2>1. n \in Event /\ n <= Len(aevent)
    BY AutomationAssumption DEF RulesInv, ATypeOK, Handling, Event
  <2>2. Exact(n)
    BY <2>1 DEF RulesInv
  <2>3. afired[n][r] > 0 => r \in adue[n] \ aoff[n]
    BY <2>1, <2>2 DEF Exact, Untouched, RulesInv, StaysOff
  <2> QED BY <2>1, <2>2, <2>3 DEF Exact
<1> QED BY <1>1, <1>2, RulesInit, PTL DEF ASpec

-----------------------------------------------------------------------------
(* The records of the SaaS services.                                       *)

ChatTopic == {<<"chat", c>> : c \in Chat}
CommentTopic == {<<"comment", n>> : n \in Nat}
CodeTopic == {<<"code", n>> : n \in Nat}
OtherTopic == {<<"app", a>> : a \in App} \cup {<<"node", n>> : n \in Nat}
Topic == ChatTopic \cup CommentTopic \cup CodeTopic \cup OtherTopic \cup Keys
Step == {"complete", "save_chat", "look_up", "write", "notify", "mark_used",
         "answer"}

(* What each step works on; requests on one topic have met.                *)
Serving ==
  /\ sserved \in Ids
  /\ spc \in [Thread -> Step \cup {"idle"}]
  /\ sreq \in [Thread -> [id : Ids, on : Topic \cup {<<"nothing">>},
                          draft : Seq(Message), found : BOOLEAN]]
  /\ \A t \in Thread :
       /\ spc[t] = "idle" => sreq[t] = NoWork
       /\ spc[t] # "idle" => sreq[t].on \in Topic
       /\ spc[t] # "idle" => sreq[t].id # 0 /\ sreq[t].id <= sserved
       /\ spc[t] \in {"complete", "save_chat"} => sreq[t].on \in ChatTopic
       /\ spc[t] \in {"look_up", "write"} => sreq[t].on \in Keys
       /\ spc[t] = "mark_used" => sreq[t].on \in CodeTopic
       /\ spc[t] = "notify" => sreq[t].on = <<"comment", sreq[t].id>>
       /\ sreq[t].on \in CommentTopic => spc[t] = "notify"
  /\ \A t, u \in Thread :
       spc[t] # "idle" /\ sreq[t].on = sreq[u].on =>
         t = u \/ sreq[t].on \in smet

(* Chats.  What a request will write back is a conversation that was       *)
(* stored, and its own exchange: the one stored now, if nobody met it.     *)
Taken(said) ==
  /\ said \in Seq(Message) /\ Len(said) % 2 = 0
  /\ \A i \in DOMAIN said :
       /\ said[i].by = "user" <=> i % 2 = 1
       /\ i % 2 = 0 => said[i].of = said[i - 1].of
Answers(said) == [i \in 1 .. Len(said) \div 2 |-> said[2 * i].of]
Asking(old, id) == Append(old, Said(id, "user"))
Exchange(old, id, by) == Append(Asking(old, id), Said(id, by))

Drafted(t) ==
  \E old \in Seq(Message) :
    /\ Taken(old)
    /\ sreq[t].on \notin smet => old = schat[sreq[t].on[2]]
    /\ spc[t] = "complete" => sreq[t].draft = Asking(old, sreq[t].id)
    /\ spc[t] = "save_chat" => \E by \in {"assistant", "apology"} :
         sreq[t].draft = Exchange(old, sreq[t].id, by)

ChatsInv ==
  /\ schat \in [Chat -> Seq(Message)] /\ sreplied \in [Chat -> Seq(Ids)]
  /\ \A c \in Chat :
       /\ Taken(schat[c])
       /\ <<"chat", c>> \notin smet => Answers(schat[c]) = sreplied[c]
  /\ \A t \in Thread : spc[t] \in {"complete", "save_chat"} => Drafted(t)

(* Keyed records.  What was looked up is still so, if nobody met it.       *)
LastSaved(k) == IF swritten[k] = 0 THEN <<>> ELSE <<swritten[k]>>
RowsInv ==
  /\ srow \in [Keys -> Seq(Ids)] /\ swritten \in [Keys -> Ids]
  /\ \A k \in Keys : /\ k[1] \in UniqueTable => Len(srow[k]) <= 1
                     /\ k \notin smet => srow[k] = LastSaved(k)
  /\ \A t \in Thread : spc[t] = "write" =>
       /\ sreq[t].found => srow[sreq[t].on] # <<>>
       /\ sreq[t].on \notin smet =>
            (sreq[t].found <=> srow[sreq[t].on] # <<>>)

(* Codes.  A code that gave tokens is used, and one that is about to be    *)
(* marked is not, if nobody met it.                                        *)
CodesInv ==
  /\ scode \in Seq({"issued", "used"}) /\ stoken \in Seq(DOMAIN scode)
  /\ \A i \in DOMAIN stoken : scode[stoken[i]] = "used"
  /\ \A i, j \in DOMAIN stoken :
       stoken[i] = stoken[j] => i = j \/ <<"code", stoken[i]>> \in smet
  /\ \A t \in Thread : spc[t] = "mark_used" =>
       /\ sreq[t].on[2] \in DOMAIN scode
       /\ sreq[t].on \notin smet => scode[sreq[t].on[2]] = "issued"

(* Comments.  Each has its own number, and its request if any mention is   *)
(* left.                                                                   *)
CommentsInv ==
  /\ sthread \subseteq [id : Ids, to : SUBSET Person]
  /\ \A c, d \in sthread : c.id = d.id => c = d
  /\ \A c \in sthread :
       /\ c.id <= sserved
       /\ \/ c.to = {} \/ <<"comment", c.id>> \in smet
          \/ \E t \in Thread : sreq[t].on = <<"comment", c.id>>

RecordsInv ==
  /\ Serving /\ ChatsInv /\ RowsInv /\ CodesInv /\ CommentsInv
  /\ sapp \subseteq App /\ snode \subseteq Ids

(* A step of one thread leaves the others, and forgets no meeting.         *)
Moves(t) ==
  /\ smet \subseteq smet' /\ sserved <= sserved'
  /\ \A u \in Thread \ {t} : spc'[u] = spc[u] /\ sreq'[u] = sreq[u]

LEMMA Topics ==
  /\ \A c \in Chat : <<"chat", c>> \in ChatTopic
                     /\ <<"chat", c>> \notin CommentTopic
  /\ \A k \in Keys : k \notin CommentTopic
  /\ \A n \in Nat : /\ <<"comment", n>> \in CommentTopic
                    /\ <<"code", n>> \in CodeTopic
                    /\ <<"code", n>> \notin CommentTopic
                    /\ <<"node", n>> \in OtherTopic
                    /\ <<"node", n>> \notin CommentTopic
  /\ \A a \in App : /\ <<"app", a>> \in OtherTopic
                    /\ <<"app", a>> \notin CommentTopic
  /\ <<"nothing">> \notin Topic
BY DEF ChatTopic, CommentTopic, CodeTopic, OtherTopic, Keys, Table,
       UniqueTable, Topic

LEMMA ServeKeeps ==
  ASSUME Serving, NEW t \in Thread, NEW step \in Step, NEW on \in Topic,
         NEW draft \in Seq(Message), Serve(t, step, on, draft),
         step \in {"complete", "save_chat"} => on \in ChatTopic,
         step \in {"look_up", "write"} => on \in Keys,
         step = "mark_used" => on \in CodeTopic,
         step = "notify" => on = <<"comment", sserved + 1>>,
         on \in CommentTopic => step = "notify"
  PROVE  /\ Serving' /\ Moves(t)
         /\ spc[t] = "idle" /\ spc'[t] = step
         /\ sserved' = sserved + 1 /\ sserved + 1 \in Ids /\ sserved \in Nat
         /\ sreq'[t] = [id |-> sserved + 1, on |-> on, draft |-> draft,
                        found |-> FALSE]
<1>1. /\ spc[t] = "idle" /\ sserved < MaxServed /\ sserved' = sserved + 1
      /\ spc' = [spc EXCEPT ![t] = step]
      /\ smet \subseteq smet'
      /\ (\E u \in Thread : sreq[u].on = on) => on \in smet'
  BY DEF Serve
<1>2. /\ sserved \in Nat /\ MaxServed \in Nat /\ sserved + 1 \in Ids
      /\ "idle" \notin Step
  BY <1>1, SaasAssumption DEF Serving, Ids, Step
<1>3. PICK new : new = [id |-> sserved + 1, on |-> on, draft |-> draft,
                        found |-> FALSE]
  OBVIOUS
<1>4. sreq' = [sreq EXCEPT ![t] = new]
  BY <1>1, <1>3 DEF Serve
<1>5. /\ new \in [id : Ids, on : Topic \cup {<<"nothing">>},
                  draft : Seq(Message), found : BOOLEAN]
      /\ new.id = sserved + 1 /\ new.on = on
  BY <1>2, <1>3
<1>6. /\ spc'[t] = step /\ sreq'[t] = new
      /\ \A u \in Thread \ {t} : spc'[u] = spc[u] /\ sreq'[u] = sreq[u]
  BY <1>1, <1>4 DEF Serving
<1>7. /\ sserved' \in Ids /\ spc' \in [Thread -> Step \cup {"idle"}]
      /\ sreq' \in [Thread -> [id : Ids, on : Topic \cup {<<"nothing">>},
                               draft : Seq(Message), found : BOOLEAN]]
  BY <1>1, <1>2, <1>4, <1>5 DEF Serving
<1>8. ASSUME NEW u \in Thread
      PROVE  /\ spc'[u] = "idle" => sreq'[u] = NoWork
             /\ spc'[u] # "idle" => sreq'[u].on \in Topic
             /\ spc'[u] # "idle" => sreq'[u].id # 0 /\ sreq'[u].id <= sserved'
             /\ spc'[u] \in {"complete", "save_chat"} =>
                  sreq'[u].on \in ChatTopic
             /\ spc'[u] \in {"look_up", "write"} => sreq'[u].on \in Keys
             /\ spc'[u] = "mark_used" => sreq'[u].on \in CodeTopic
             /\ spc'[u] = "notify" => sreq'[u].on = <<"comment", sreq'[u].id>>
             /\ sreq'[u].on \in CommentTopic => spc'[u] = "notify"
  <2>1. CASE u = t
    BY <1>1, <1>2, <1>5, <1>6, <2>1
  <2>2. CASE u # t
    <3>1. spc[u] # "idle" => sreq[u].id # 0 /\ sreq[u].id <= sserved
                             /\ sreq[u].id \in Nat
      BY DEF Serving, Ids
    <3> QED BY <1>1, <1>2, <1>6, <2>2, <3>1 DEF Serving
  <2> QED BY <2>1, <2>2
<1>9. ASSUME NEW u \in Thread, NEW v \in Thread, u # v, spc'[u] # "idle",
             sreq'[u].on = sreq'[v].on
      PROVE  sreq'[u].on \in smet'
  <2>1. CASE u # t /\ v # t
    BY <1>1, <1>6, <1>9, <2>1 DEF Serving
  <2>2. CASE u = t \/ v = t
    BY <1>1, <1>5, <1>6, <1>9, <2>2
  <2> QED BY <2>1, <2>2
<1>10. Serving'
  BY <1>7, <1>8, <1>9 DEF Serving
<1> QED BY <1>1, <1>2, <1>3, <1>6, <1>10 DEF Moves

LEMMA ContinueKeeps ==
  ASSUME Serving, NEW t \in Thread, NEW step \in Step, Continue(t, step),
         \/ spc[t] = "complete" /\ step = "save_chat"
         \/ spc[t] = "look_up" /\ step = "write",
         sreq' \in [Thread -> [id : Ids, on : Topic \cup {<<"nothing">>},
                               draft : Seq(Message), found : BOOLEAN]],
         sreq'[t].id = sreq[t].id, sreq'[t].on = sreq[t].on,
         \A u \in Thread \ {t} : sreq'[u] = sreq[u]
  PROVE  Serving' /\ Moves(t) /\ spc'[t] = step
<1>1. /\ spc' = [spc EXCEPT ![t] = step] /\ UNCHANGED <<sserved, smet>>
  BY DEF Continue
<1>2. /\ spc'[t] = step
      /\ \A u \in Thread \ {t} : spc'[u] = spc[u] /\ sreq'[u] = sreq[u]
  BY <1>1 DEF Serving
<1>3. /\ spc' \in [Thread -> Step \cup {"idle"}] /\ sserved' \in Ids
  BY <1>1 DEF Serving
<1>4. ASSUME NEW u \in Thread
      PROVE  /\ spc'[u] = "idle" => sreq'[u] = NoWork
             /\ spc'[u] # "idle" => sreq'[u].on \in Topic
             /\ spc'[u] # "idle" => sreq'[u].id # 0 /\ sreq'[u].id <= sserved'
             /\ spc'[u] \in {"complete", "save_chat"} =>
                  sreq'[u].on \in ChatTopic
             /\ spc'[u] \in {"look_up", "write"} => sreq'[u].on \in Keys
             /\ spc'[u] = "mark_used" => sreq'[u].on \in CodeTopic
             /\ spc'[u] = "notify" => sreq'[u].on = <<"comment", sreq'[u].id>>
             /\ sreq'[u].on \in CommentTopic => spc'[u] = "notify"
  <2>1. CASE u = t
    BY <1>1, <1>2, <2>1 DEF Serving
  <2>2. CASE u # t
    BY <1>1, <1>2, <2>2 DEF Serving
  <2> QED BY <2>1, <2>2
<1>5. ASSUME NEW u \in Thread, NEW v \in Thread, spc'[u] # "idle",
             sreq'[u].on = sreq'[v].on, u # v
      PROVE  sreq'[u].on \in smet'
  <2>1. spc[t] # "idle"
    OBVIOUS
  <2>2. sreq'[u].on = sreq[u].on /\ sreq'[v].on = sreq[v].on
    BY <1>2
  <2>3. spc[u] # "idle"
    BY <1>2, <1>5, <2>1
  <2>4. sreq[u].on = sreq[v].on
    BY <1>5, <2>2
  <2>5. sreq[u].on \in smet
    BY <1>5, <2>3, <2>4 DEF Serving
  <2> QED BY <1>1, <2>2, <2>5
<1>6. Serving'
  BY <1>3, <1>4, <1>5 DEF Serving
<1>7. sserved <= sserved'
  BY <1>1 DEF Serving, Ids
<1> QED BY <1>1, <1>2, <1>6, <1>7 DEF Moves

LEMMA ReplyKeeps ==
  ASSUME Serving, NEW t \in Thread, spc[t] # "idle",
         Reply(t) \/ LoseRecord(t)
  PROVE  /\ Serving' /\ Moves(t) /\ spc'[t] = "idle" /\ sreq'[t] = NoWork
         /\ sserved' = sserved
<1>1. /\ spc' = [spc EXCEPT ![t] = "idle"]
      /\ sreq' = [sreq EXCEPT ![t] = NoWork]
      /\ sserved' = sserved /\ smet \subseteq smet'
  BY DEF Reply, LoseRecord
<1>2. /\ NoWork \in [id : Ids, on : Topic \cup {<<"nothing">>},
                     draft : Seq(Message), found : BOOLEAN]
      /\ NoWork.on = <<"nothing">>
  BY SaasAssumption DEF NoWork, Ids
<1>3. /\ spc'[t] = "idle" /\ sreq'[t] = NoWork
      /\ \A u \in Thread \ {t} : spc'[u] = spc[u] /\ sreq'[u] = sreq[u]
  BY <1>1 DEF Serving
<1>4. /\ spc' \in [Thread -> Step \cup {"idle"}] /\ sserved' \in Ids
      /\ sreq' \in [Thread -> [id : Ids, on : Topic \cup {<<"nothing">>},
                               draft : Seq(Message), found : BOOLEAN]]
  BY <1>1, <1>2 DEF Serving
<1>5. NoWork.on \notin CommentTopic /\ NoWork.on \notin Topic
  BY <1>2, Topics DEF Topic
<1>6. ASSUME NEW u \in Thread
      PROVE  /\ spc'[u] = "idle" => sreq'[u] = NoWork
             /\ spc'[u] # "idle" => sreq'[u].on \in Topic
             /\ spc'[u] # "idle" => sreq'[u].id # 0 /\ sreq'[u].id <= sserved'
             /\ spc'[u] \in {"complete", "save_chat"} =>
                  sreq'[u].on \in ChatTopic
             /\ spc'[u] \in {"look_up", "write"} => sreq'[u].on \in Keys
             /\ spc'[u] = "mark_used" => sreq'[u].on \in CodeTopic
             /\ spc'[u] = "notify" => sreq'[u].on = <<"comment", sreq'[u].id>>
             /\ sreq'[u].on \in CommentTopic => spc'[u] = "notify"
  <2>1. CASE u = t
    BY <1>3, <1>5, <2>1
  <2>2. CASE u # t
    BY <1>1, <1>3, <2>2 DEF Serving
  <2> QED BY <2>1, <2>2
<1>7. ASSUME NEW u \in Thread, NEW v \in Thread, spc'[u] # "idle",
             sreq'[u].on = sreq'[v].on, u # v
      PROVE  sreq'[u].on \in smet'
  <2>1. u # t /\ sreq'[u].on \in Topic
    BY <1>3, <1>6, <1>7
  <2>2. v # t
    BY <1>3, <1>5, <1>7, <2>1
  <2> QED BY <1>1, <1>3, <1>7, <2>1, <2>2 DEF Serving
<1>8. Serving'
  BY <1>4, <1>6, <1>7 DEF Serving
<1>9. sserved <= sserved'
  BY <1>1 DEF Serving, Ids
<1> QED BY <1>1, <1>3, <1>8, <1>9 DEF Moves

(* Chats.                                                                  *)
LEMMA ExchangeTakes ==
  ASSUME NEW old \in Seq(Message), Taken(old), NEW id \in Ids,
         NEW by \in {"assistant", "apology"}
  PROVE  /\ Exchange(old, id, by) \in Seq(Message)
         /\ Asking(old, id) \in Seq(Message)
         /\ Taken(Exchange(old, id, by))
         /\ Answers(Exchange(old, id, by)) = Append(Answers(old), id)
<1>1. PICK n \in Nat : n = Len(old)
  OBVIOUS
<1>2. PICK m \in Nat : n = 2 * m
  <2>1. n % 2 = 0
    BY <1>1 DEF Taken
  <2>2. n = 2 * (n \div 2) /\ n \div 2 \in Nat
    BY <2>1
  <2> QED BY <2>2
<1>3. /\ Said(id, "user") \in Message /\ Said(id, by) \in Message
      /\ DOMAIN old = 1 .. n /\ \A i \in 1 .. n : old[i] \in Message
  <2>1. Said(id, "user") \in Message /\ Said(id, by) \in Message
    BY DEF Said, Message
  <2> QED BY <1>1, <2>1
<1>4. PICK new : new = Exchange(old, id, by)
  OBVIOUS
<1>5. /\ Asking(old, id) \in Seq(Message) /\ new \in Seq(Message)
      /\ Len(new) = n + 2 /\ DOMAIN new = 1 .. n + 2
      /\ new[n + 1] = Said(id, "user") /\ new[n + 2] = Said(id, by)
      /\ \A i \in 1 .. n : new[i] = old[i]
  <2>1. PICK query \in Seq(Message) : query = Asking(old, id)
    <3>1. PICK said \in Message : said = Said(id, "user")
      BY <1>3
    <3>2. Append(old, said) \in Seq(Message)
      OBVIOUS
    <3> QED BY <3>1, <3>2 DEF Asking
  <2>2. /\ Len(query) = n + 1 /\ query[n + 1] = Said(id, "user")
        /\ \A i \in 1 .. n : query[i] = old[i]
    BY <1>1, <1>3, <2>1 DEF Asking
  <2>3. new = Append(query, Said(id, by))
    BY <1>4, <2>1 DEF Exchange
  <2>4. /\ new \in Seq(Message) /\ Len(new) = n + 2 /\ DOMAIN new = 1 .. n + 2
        /\ new[n + 2] = Said(id, by)
        /\ \A i \in 1 .. n + 1 : new[i] = query[i]
    BY <1>3, <2>2, <2>3
  <2> QED BY <2>1, <2>2, <2>4
<1>6. Taken(new)
  <2>1. (n + 1) % 2 = 1 /\ (n + 2) % 2 = 0 /\ (n + 2) % 2 # 1 /\ (n + 1) % 2 # 0
    BY <1>2
  <2>2. /\ new[n + 1].by = "user" /\ new[n + 2].by # "user"
        /\ new[n + 2].of = id /\ new[n + 1].of = id
    BY <1>5 DEF Said
  <2>3. ASSUME NEW i \in 1 .. n
        PROVE  /\ new[i].by = "user" <=> i % 2 = 1
               /\ i % 2 = 0 => new[i].of = new[i - 1].of
    <3>1. /\ old[i].by = "user" <=> i % 2 = 1
          /\ i % 2 = 0 => old[i].of = old[i - 1].of
      BY <1>3, <2>3 DEF Taken
    <3>2. i % 2 = 0 => i - 1 \in 1 .. n
      OBVIOUS
    <3> QED BY <1>5, <2>3, <3>1, <3>2
  <2>4. ASSUME NEW i \in 1 .. n + 2
        PROVE  /\ new[i].by = "user" <=> i % 2 = 1
               /\ i % 2 = 0 => new[i].of = new[i - 1].of
    <3>1. CASE i = n + 1
      BY <2>1, <2>2, <3>1
    <3>2. CASE i = n + 2
      <4>1. i - 1 = n + 1
        BY <3>2
      <4> QED BY <2>1, <2>2, <3>2, <4>1
    <3>3. CASE i \in 1 .. n
      BY <2>3, <3>3
    <3> QED BY <3>1, <3>2, <3>3
  <2> QED BY <1>5, <2>1, <2>4 DEF Taken
<1>7. Answers(new) = Append(Answers(old), id)
  <2>1. n \div 2 = m /\ (n + 2) \div 2 = m + 1
    BY <1>2
  <2>2. PICK a : a = Answers(old)
    OBVIOUS
  <2>3. a = [i \in 1 .. m |-> old[2 * i].of]
    BY <1>1, <2>1, <2>2 DEF Answers
  <2>4. \A i \in 1 .. m : 2 * i \in 1 .. n /\ old[2 * i].of \in Ids
    <3>1. \A i \in 1 .. m : 2 * i \in 1 .. n
      BY <1>2
    <3> QED BY <1>3, <3>1 DEF Message
  <2>5. a \in Seq(Ids) /\ Len(a) = m
    BY <2>3, <2>4
  <2>6. PICK b : b = Answers(new)
    OBVIOUS
  <2>7. b = [i \in 1 .. m + 1 |-> new[2 * i].of]
    BY <1>5, <2>1, <2>6 DEF Answers
  <2>8. new[2 * (m + 1)].of = id
    BY <1>2, <1>5 DEF Said
  <2>9. /\ \A i \in 1 .. m : b[i] = a[i]
        /\ b[m + 1] = id
    BY <1>5, <2>3, <2>4, <2>7, <2>8
  <2>10. b \in Seq(Ids) /\ Len(b) = m + 1
    <3>1. \A i \in 1 .. m + 1 : 2 * i \in 1 .. n + 2
      BY <1>2
    <3>2. \A i \in 1 .. n + 2 : new[i] \in Message
      BY <1>5
    <3>3. \A i \in 1 .. m + 1 : new[2 * i].of \in Ids
      BY <3>1, <3>2 DEF Message
    <3> QED BY <2>7, <3>3
  <2>11. /\ Append(a, id) \in Seq(Ids) /\ Len(Append(a, id)) = m + 1
         /\ \A i \in 1 .. m : Append(a, id)[i] = a[i]
         /\ Append(a, id)[m + 1] = id
    BY <2>5
  <2>12. \A i \in 1 .. m + 1 : Append(a, id)[i] = b[i]
    BY <2>9, <2>11
  <2>13. Append(a, id) = b
    BY <2>10, <2>11, <2>12, SeqEqual
  <2> QED BY <2>2, <2>6, <2>13
<1> QED BY <1>4, <1>5, <1>6, <1>7

LEMMA ChatsKept ==
  ASSUME Serving, ChatsInv, NEW t \in Thread, Moves(t),
         UNCHANGED <<schat, sreplied>>,
         spc'[t] \notin {"complete", "save_chat"}
  PROVE  ChatsInv'
<1>1. ASSUME NEW c \in Chat
      PROVE  /\ Taken(schat'[c])
             /\ <<"chat", c>> \notin smet' => Answers(schat'[c]) = sreplied'[c]
  <2>1. schat' = schat /\ sreplied' = sreplied /\ smet \subseteq smet'
    BY DEF Moves
  <2>2. /\ Taken(schat[c])
        /\ <<"chat", c>> \notin smet => Answers(schat[c]) = sreplied[c]
    BY DEF ChatsInv
  <2> QED BY <2>1, <2>2
<1>2. ASSUME NEW u \in Thread, spc'[u] \in {"complete", "save_chat"}
      PROVE  Drafted(u)'
  <2>1. /\ u # t /\ spc'[u] = spc[u] /\ sreq'[u] = sreq[u]
        /\ smet \subseteq smet'
    BY <1>2 DEF Moves
  <2>2. Drafted(u)
    BY <1>2, <2>1 DEF ChatsInv
  <2> QED BY <2>1, <2>2 DEF Drafted
<1> QED BY <1>1, <1>2 DEF ChatsInv

LEMMA AskKeeps ==
  ASSUME Serving, ChatsInv, NEW t \in Thread, GetSession(t)
  PROVE  Serving' /\ ChatsInv' /\ Moves(t) /\ spc'[t] = "complete"
<1>1. PICK c \in Chat : Serve(t, "complete", <<"chat", c>>,
                              Append(schat[c], Said(sserved + 1, "user")))
  BY DEF GetSession
<1>2. UNCHANGED <<schat, sreplied>> /\ schat[c] \in Seq(Message)
      /\ Taken(schat[c])
  BY DEF GetSession, sdata, ChatsInv
<1>3. PICK draft : draft = Append(schat[c], Said(sserved + 1, "user"))
  OBVIOUS
<1>4. sserved + 1 \in Ids
  BY <1>1, SaasAssumption DEF Serve, Serving, Ids
<1>5. draft \in Seq(Message) /\ draft = Asking(schat[c], sserved + 1)
  BY <1>2, <1>3, <1>4 DEF Said, Message, Asking
<1>6. /\ <<"chat", c>> \in Topic /\ <<"chat", c>> \in ChatTopic
      /\ <<"chat", c>> \notin CommentTopic
      /\ "complete" \in Step
  BY Topics DEF Topic, Step
<1>7. /\ Serving' /\ Moves(t) /\ spc'[t] = "complete"
      /\ sreq'[t] = [id |-> sserved + 1, on |-> <<"chat", c>>,
                     draft |-> draft, found |-> FALSE]
  <2>1. Serve(t, "complete", <<"chat", c>>, draft)
    BY <1>1, <1>3
  <2> QED BY <1>5, <1>6, <2>1, ServeKeeps
<1>8. ASSUME NEW d \in Chat
      PROVE  /\ Taken(schat'[d])
             /\ <<"chat", d>> \notin smet' => Answers(schat'[d]) = sreplied'[d]
  <2>1. schat' = schat /\ sreplied' = sreplied /\ smet \subseteq smet'
    BY <1>2, <1>7 DEF Moves
  <2>2. /\ Taken(schat[d])
        /\ <<"chat", d>> \notin smet => Answers(schat[d]) = sreplied[d]
    BY DEF ChatsInv
  <2> QED BY <2>1, <2>2
<1>9. ASSUME NEW u \in Thread, spc'[u] \in {"complete", "save_chat"}
      PROVE  Drafted(u)'
  <2>1. CASE u = t
    <3>1. /\ sreq'[t].on[2] = c /\ sreq'[t].draft = draft
          /\ sreq'[t].id = sserved + 1
      BY <1>7
    <3>2. sreq'[t].draft = Asking(schat'[c], sreq'[t].id)
      BY <1>2, <1>5, <3>1
    <3> QED BY <1>2, <1>7, <2>1, <3>1, <3>2 DEF Drafted
  <2>2. CASE u # t
    <3>1. /\ spc'[u] = spc[u] /\ sreq'[u] = sreq[u] /\ smet \subseteq smet'
      BY <1>7, <2>2 DEF Moves
    <3>2. Drafted(u)
      BY <1>9, <3>1 DEF ChatsInv
    <3> QED BY <1>2, <3>1, <3>2 DEF Drafted
  <2> QED BY <2>1, <2>2
<1> QED BY <1>2, <1>7, <1>8, <1>9 DEF ChatsInv

LEMMA AnswerKeeps ==
  ASSUME Serving, ChatsInv, NEW t \in Thread, CompleteChat(t)
  PROVE  Serving' /\ ChatsInv' /\ Moves(t) /\ spc'[t] = "save_chat"
<1>1. PICK by \in {"assistant", "apology"} :
        sreq' = [sreq EXCEPT ![t].draft = Append(@, Said(sreq[t].id, by))]
  BY DEF CompleteChat
<1>2. /\ spc[t] = "complete" /\ Continue(t, "save_chat")
      /\ UNCHANGED <<schat, sreplied, smet>>
  BY DEF CompleteChat, Continue, sdata
<1>3. PICK old \in Seq(Message) :
        /\ Taken(old)
        /\ sreq[t].on \notin smet => old = schat[sreq[t].on[2]]
        /\ sreq[t].draft = Asking(old, sreq[t].id)
  BY <1>2 DEF ChatsInv, Drafted
<1>4. PICK draft : draft = Exchange(old, sreq[t].id, by)
  OBVIOUS
<1>5. /\ sreq \in [Thread -> [id : Ids, on : Topic \cup {<<"nothing">>},
                              draft : Seq(Message), found : BOOLEAN]]
      /\ sreq[t].id \in Ids
  BY DEF Serving
<1>6. draft \in Seq(Message)
  BY <1>3, <1>4, <1>5, ExchangeTakes
<1>7. sreq' = [sreq EXCEPT ![t].draft = draft]
  BY <1>1, <1>3, <1>4 DEF Exchange
<1>8. /\ sreq' \in [Thread -> [id : Ids, on : Topic \cup {<<"nothing">>},
                               draft : Seq(Message), found : BOOLEAN]]
      /\ sreq'[t].id = sreq[t].id /\ sreq'[t].on = sreq[t].on
      /\ sreq'[t].draft = draft
      /\ \A u \in Thread \ {t} : sreq'[u] = sreq[u]
  BY <1>5, <1>6, <1>7
<1>9. Serving' /\ Moves(t) /\ spc'[t] = "save_chat"
  <2>1. "save_chat" \in Step
    BY DEF Step
  <2> QED BY <1>2, <1>8, <2>1, ContinueKeeps
<1>10. ASSUME NEW u \in Thread, spc'[u] \in {"complete", "save_chat"}
       PROVE  Drafted(u)'
  <2>1. CASE u = t
    BY <1>2, <1>3, <1>4, <1>8, <1>9, <2>1 DEF Drafted
  <2>2. CASE u # t
    <3>1. spc'[u] = spc[u] /\ sreq'[u] = sreq[u]
      BY <1>9, <2>2 DEF Moves
    <3>2. Drafted(u)
      BY <1>10, <3>1 DEF ChatsInv
    <3> QED BY <1>2, <3>1, <3>2 DEF Drafted
  <2> QED BY <2>1, <2>2
<1> QED BY <1>2, <1>9, <1>10 DEF ChatsInv

LEMMA SaveChatKeeps ==
  ASSUME Serving, ChatsInv, NEW t \in Thread, SaveSession(t)
  PROVE  Serving' /\ ChatsInv' /\ Moves(t) /\ spc'[t] = "idle"
<1>0. PICK k : k = sreq[t].on[2]
  OBVIOUS
<1>1. /\ spc[t] = "save_chat" /\ Reply(t) /\ smet' = smet
      /\ schat' = [schat EXCEPT ![k] = sreq[t].draft]
      /\ sreplied' = [sreplied EXCEPT ![k] = Append(@, sreq[t].id)]
  BY <1>0 DEF SaveSession, Reply
<1>2. PICK c \in Chat : sreq[t].on = <<"chat", c>>
  BY <1>1 DEF Serving, ChatTopic
<1>3. PICK old \in Seq(Message), by \in {"assistant", "apology"} :
        /\ Taken(old)
        /\ sreq[t].on \notin smet => old = schat[c]
        /\ sreq[t].draft = Exchange(old, sreq[t].id, by)
  <2>1. sreq[t].on[2] = c
    BY <1>2
  <2> QED BY <1>1, <2>1 DEF ChatsInv, Drafted
<1>4. PICK id \in Ids : id = sreq[t].id
  BY DEF Serving
<1>5. PICK draft : draft = Exchange(old, id, by)
  OBVIOUS
<1>6. /\ draft \in Seq(Message) /\ Taken(draft)
      /\ Answers(draft) = Append(Answers(old), id)
  BY <1>3, <1>5, ExchangeTakes
<1>7. /\ schat' = [schat EXCEPT ![c] = draft]
      /\ sreplied' = [sreplied EXCEPT ![c] = Append(@, id)]
  BY <1>0, <1>1, <1>2, <1>3, <1>4, <1>5
<1>8. /\ schat'[c] = draft /\ sreplied'[c] = Append(sreplied[c], id)
      /\ \A d \in Chat \ {c} : schat'[d] = schat[d]
                               /\ sreplied'[d] = sreplied[d]
      /\ schat' \in [Chat -> Seq(Message)] /\ sreplied' \in [Chat -> Seq(Ids)]
  BY <1>6, <1>7 DEF ChatsInv
<1>9. Serving' /\ Moves(t) /\ spc'[t] = "idle"
  BY <1>1, ReplyKeeps
<1>10. ASSUME NEW d \in Chat
       PROVE  /\ Taken(schat'[d])
              /\ <<"chat", d>> \notin smet' => Answers(schat'[d]) = sreplied'[d]
  <2>1. CASE d = c
    BY <1>1, <1>2, <1>3, <1>6, <1>8, <2>1 DEF ChatsInv
  <2>2. CASE d # c
    BY <1>1, <1>8, <2>2 DEF ChatsInv
  <2> QED BY <2>1, <2>2
<1>11. ASSUME NEW u \in Thread, spc'[u] \in {"complete", "save_chat"}
       PROVE  Drafted(u)'
  <2>1. /\ u # t /\ spc'[u] = spc[u] /\ sreq'[u] = sreq[u]
    BY <1>9, <1>11 DEF Moves
  <2>2. Drafted(u)
    BY <1>11, <2>1 DEF ChatsInv
  <2>3. PICK d \in Chat : sreq[u].on = <<"chat", d>>
    BY <1>11, <2>1 DEF Serving, ChatTopic
  <2>4. d = c => sreq[u].on \in smet
    BY <1>1, <1>2, <2>1, <2>3 DEF Serving
  <2>5. sreq[u].on[2] = d
    BY <2>3
  <2>6. sreq[u].on \notin smet => schat'[sreq[u].on[2]] = schat[sreq[u].on[2]]
    BY <1>8, <2>4, <2>5
  <2> QED BY <1>1, <2>1, <2>2, <2>6 DEF Drafted
<1> QED BY <1>8, <1>9, <1>10, <1>11 DEF ChatsInv

(* Keyed records.                                                          *)
LEMMA RowsKept ==
  ASSUME RowsInv, NEW t \in Thread, Moves(t),
         UNCHANGED <<srow, swritten>>, spc'[t] # "write"
  PROVE  RowsInv'
<1>1. srow' = srow /\ swritten' = swritten /\ smet \subseteq smet'
  BY DEF Moves
<1>2. ASSUME NEW k \in Keys
      PROVE  /\ k[1] \in UniqueTable => Len(srow'[k]) <= 1
             /\ k \notin smet' => srow'[k] = LastSaved(k)'
  BY <1>1 DEF RowsInv, LastSaved
<1>3. ASSUME NEW u \in Thread, spc'[u] = "write"
      PROVE  /\ sreq'[u].found => srow'[sreq'[u].on] # <<>>
             /\ sreq'[u].on \notin smet' =>
                  (sreq'[u].found <=> srow'[sreq'[u].on] # <<>>)
  <2>1. spc[u] = "write" /\ sreq'[u] = sreq[u]
    BY <1>3 DEF Moves
  <2> QED BY <1>1, <2>1 DEF RowsInv
<1> QED BY <1>1, <1>2, <1>3 DEF RowsInv

LEMMA LookUpKeeps ==
  ASSUME Serving, RowsInv, NEW t \in Thread, LookUp(t)
  PROVE  /\ Serving' /\ RowsInv' /\ Moves(t)
         /\ spc[t] = "look_up" /\ spc'[t] \in {"write", "idle"}
<1>1. spc[t] = "look_up" /\ UNCHANGED <<srow, swritten>>
  BY DEF LookUp, sdata
<1>2. CASE Reply(t)
  BY <1>1, <1>2, ReplyKeeps, RowsKept
<1>3. CASE ~Reply(t)
  <2>1. PICK k \in Keys : k = sreq[t].on
    BY <1>1 DEF Serving
  <2>2. PICK found \in BOOLEAN : found <=> srow[k] # <<>>
    OBVIOUS
  <2>3. Continue(t, "write")
    BY <1>3 DEF LookUp
  <2>4. sreq' = [sreq EXCEPT ![t].found = srow[k] # <<>>]
    BY <1>3, <2>1 DEF LookUp
  <2>5. found = (srow[k] # <<>>)
    BY <2>2
  <2>6. sreq' = [sreq EXCEPT ![t].found = found]
    BY <2>4, <2>5
  <2>7. sreq \in [Thread -> [id : Ids, on : Topic \cup {<<"nothing">>},
                             draft : Seq(Message), found : BOOLEAN]]
    BY DEF Serving
  <2>8. /\ sreq' \in [Thread -> [id : Ids, on : Topic \cup {<<"nothing">>},
                                 draft : Seq(Message), found : BOOLEAN]]
        /\ sreq'[t].id = sreq[t].id /\ sreq'[t].on = sreq[t].on
        /\ sreq'[t].found = found
        /\ \A u \in Thread \ {t} : sreq'[u] = sreq[u]
    BY <2>6, <2>7
  <2>9. Serving' /\ Moves(t) /\ spc'[t] = "write"
    <3>1. "write" \in Step
      BY DEF Step
    <3> QED BY <1>1, <2>3, <2>8, <3>1, ContinueKeeps
  <2>10. smet' = smet /\ srow' = srow /\ swritten' = swritten
    BY <1>1, <2>3 DEF Continue
  <2>11. ASSUME NEW u \in Thread, spc'[u] = "write"
         PROVE  /\ sreq'[u].found => srow'[sreq'[u].on] # <<>>
                /\ sreq'[u].on \notin smet' =>
                     (sreq'[u].found <=> srow'[sreq'[u].on] # <<>>)
    <3>1. CASE u = t
      BY <2>1, <2>2, <2>8, <2>10, <3>1
    <3>2. CASE u # t
      <4>1. spc[u] = "write" /\ sreq'[u] = sreq[u]
        BY <2>9, <2>11, <3>2 DEF Moves
      <4> QED BY <2>10, <4>1 DEF RowsInv
    <3> QED BY <3>1, <3>2
  <2>12. ASSUME NEW i \in Keys
         PROVE  /\ i[1] \in UniqueTable => Len(srow'[i]) <= 1
                /\ i \notin smet' => srow'[i] = LastSaved(i)'
    BY <2>10 DEF RowsInv, LastSaved
  <2>13. RowsInv'
    BY <2>10, <2>11, <2>12 DEF RowsInv
  <2> QED BY <1>1, <2>9, <2>13
<1> QED BY <1>2, <1>3

LEMMA AtMostOne == \A n \in Nat \ {0} : n <= 1 => n = 1
OBVIOUS

LEMMA WriteKeeps ==
  ASSUME Serving, RowsInv, NEW t \in Thread, WriteRecord(t)
  PROVE  Serving' /\ RowsInv' /\ Moves(t) /\ spc[t] = "write"
         /\ spc'[t] = "idle"
<1>1. spc[t] = "write" /\ Reply(t) /\ smet' = smet
  BY DEF WriteRecord, Reply
<1>2. PICK k \in Keys : k = sreq[t].on
  BY <1>1 DEF Serving
<1>3. PICK id \in Ids : id = sreq[t].id /\ id # 0
  BY <1>1 DEF Serving
<1>4. Serving' /\ Moves(t) /\ spc'[t] = "idle"
  BY <1>1, ReplyKeeps
<1>5. CASE UNCHANGED <<srow, swritten>>
  BY <1>1, <1>4, <1>5, RowsKept
<1>6. CASE ~UNCHANGED <<srow, swritten>>
  <2>1. PICK new : new = IF sreq[t].found THEN [srow[k] EXCEPT ![1] = id]
                                          ELSE Append(srow[k], id)
    OBVIOUS
  <2>2. /\ ~(k[1] \in UniqueTable /\ ~sreq[t].found /\ srow[k] # <<>>)
        /\ srow' = [srow EXCEPT ![k] = new]
        /\ swritten' = [swritten EXCEPT ![k] = id]
    BY <1>2, <1>3, <1>6, <2>1 DEF WriteRecord, RowsInv
  <2>3. /\ srow[k] \in Seq(Ids)
        /\ sreq[t].found => srow[k] # <<>>
        /\ k \notin smet => (sreq[t].found <=> srow[k] # <<>>)
        /\ k \notin smet => srow[k] = LastSaved(k)
        /\ k[1] \in UniqueTable => Len(srow[k]) <= 1
    BY <1>1, <1>2 DEF RowsInv
  <2>4. k \notin smet => Len(srow[k]) <= 1
    <3>1. LastSaved(k) = <<>> \/ LastSaved(k) = <<swritten[k]>>
      BY DEF LastSaved
    <3>2. Len(<<>>) <= 1 /\ Len(<<swritten[k]>>) <= 1
      OBVIOUS
    <3> QED BY <2>3, <3>1, <3>2
  <2>5. /\ new \in Seq(Ids) /\ new # <<>>
        /\ sreq[t].found => Len(new) = Len(srow[k]) /\ new[1] = id
        /\ ~sreq[t].found => Len(new) = Len(srow[k]) + 1
        /\ ~sreq[t].found /\ srow[k] = <<>> => new = <<id>>
    <3>1. CASE sreq[t].found
      <4>1. new = [srow[k] EXCEPT ![1] = id] /\ srow[k] # <<>>
        BY <2>1, <2>3, <3>1
      <4>2. 1 \in 1 .. Len(srow[k])
        BY <2>3, <4>1, EmptySeq
      <4>3. new \in Seq(Ids) /\ Len(new) = Len(srow[k]) /\ new[1] = id
        BY <2>3, <4>1, <4>2, ExceptSeq
      <4> QED BY <3>1, <4>2, <4>3
    <3>2. CASE ~sreq[t].found
      <4>1. new = Append(srow[k], id)
        BY <2>1, <3>2
      <4>2. new \in Seq(Ids) /\ Len(new) = Len(srow[k]) + 1
        BY <2>3, <4>1
      <4>3. new # <<>>
        BY <2>3, <4>2
      <4>4. srow[k] = <<>> => new = <<id>>
        BY <4>1
      <4> QED BY <3>2, <4>2, <4>3, <4>4
    <3> QED BY <3>1, <3>2
  <2>6. k \notin smet => new = <<id>>
    <3>1. ASSUME k \notin smet, sreq[t].found PROVE new = <<id>>
      <4>1. Len(new) = 1 /\ new[1] = id
        <5>1. PICK l \in Nat \ {0} : l = Len(srow[k])
          BY <2>3, <3>1, EmptySeq
        <5>2. l <= 1
          BY <2>4, <3>1, <5>1
        <5>3. l = 1
          BY <5>2, AtMostOne
        <5>4. Len(new) = Len(srow[k]) /\ new[1] = id
          BY <2>5, <3>1
        <5> QED BY <5>1, <5>3, <5>4
      <4> QED BY <2>5, <4>1
    <3> QED BY <2>3, <2>5, <3>1
  <2>7. k[1] \in UniqueTable => Len(new) <= 1
    <3>1. CASE sreq[t].found
      BY <2>3, <2>5, <3>1
    <3>2. ASSUME ~sreq[t].found, k[1] \in UniqueTable PROVE Len(new) <= 1
      BY <2>2, <2>5, <3>2
    <3> QED BY <3>1, <3>2
  <2>8. /\ srow' \in [Keys -> Seq(Ids)] /\ swritten' \in [Keys -> Ids]
        /\ srow'[k] = new /\ swritten'[k] = id
        /\ \A i \in Keys \ {k} : srow'[i] = srow[i]
                                 /\ swritten'[i] = swritten[i]
    BY <2>2, <2>5 DEF RowsInv
  <2>9. ASSUME NEW i \in Keys
        PROVE  /\ i[1] \in UniqueTable => Len(srow'[i]) <= 1
               /\ i \notin smet' => srow'[i] = LastSaved(i)'
    <3>1. CASE i = k
      BY <1>1, <1>3, <2>6, <2>7, <2>8, <3>1 DEF LastSaved
    <3>2. CASE i # k
      BY <1>1, <2>8, <3>2 DEF LastSaved, RowsInv
    <3> QED BY <3>1, <3>2
  <2>10. ASSUME NEW u \in Thread, spc'[u] = "write"
         PROVE  /\ sreq'[u].found => srow'[sreq'[u].on] # <<>>
                /\ sreq'[u].on \notin smet' =>
                     (sreq'[u].found <=> srow'[sreq'[u].on] # <<>>)
    <3>1. u # t /\ spc[u] = "write" /\ sreq'[u] = sreq[u]
      BY <1>4, <2>10 DEF Moves
    <3>2. sreq[u].on \in Keys
      BY <3>1 DEF Serving
    <3>3. CASE sreq[u].on = k
      <4>1. sreq[u].on \in smet
        BY <1>1, <1>2, <3>1, <3>3 DEF Serving
      <4> QED BY <1>1, <2>5, <2>8, <3>1, <3>3, <4>1
    <3>4. CASE sreq[u].on # k
      <4>1. srow'[sreq[u].on] = srow[sreq[u].on]
        BY <2>8, <3>2, <3>4
      <4> QED BY <1>1, <3>1, <4>1 DEF RowsInv
    <3> QED BY <3>3, <3>4
  <2>11. RowsInv'
    BY <2>8, <2>9, <2>10 DEF RowsInv
  <2> QED BY <1>1, <1>4, <2>11
<1> QED BY <1>5, <1>6

(* Authorization codes.                                                    *)
LEMMA CodesKept ==
  ASSUME CodesInv, NEW t \in Thread, Moves(t),
         UNCHANGED <<scode, stoken>>, spc'[t] # "mark_used"
  PROVE  CodesInv'
<1>1. scode' = scode /\ stoken' = stoken /\ smet \subseteq smet'
  BY DEF Moves
<1>2. ASSUME NEW u \in Thread, spc'[u] = "mark_used"
      PROVE  /\ sreq'[u].on[2] \in DOMAIN scode'
             /\ sreq'[u].on \notin smet' => scode'[sreq'[u].on[2]] = "issued"
  <2>1. spc[u] = "mark_used" /\ sreq'[u] = sreq[u]
    BY <1>2 DEF Moves
  <2> QED BY <1>1, <2>1 DEF CodesInv
<1> QED BY <1>1, <1>2 DEF CodesInv

LEMMA AuthorizeKeeps ==
  ASSUME Serving, CodesInv, NEW t \in Thread, Authorize(t)
  PROVE  Serving' /\ CodesInv' /\ Moves(t) /\ spc'[t] = "answer"
         /\ spc[t] = "idle"
<1>1. PICK n \in Nat : n = Len(scode)
  BY DEF CodesInv
<1>2. /\ Serve(t, "answer", <<"code", n + 1>>, <<>>)
      /\ scode' = Append(scode, "issued") /\ stoken' = stoken
  BY <1>1 DEF Authorize
<1>3. Serving' /\ Moves(t) /\ spc'[t] = "answer" /\ spc[t] = "idle"
  <2>1. "answer" \in Step /\ <<>> \in Seq(Message)
    BY DEF Step
  <2>2. PICK on : on = <<"code", n + 1>>
    OBVIOUS
  <2>3. on \in CodeTopic /\ on \notin CommentTopic
    <3>1. n + 1 \in Nat
      OBVIOUS
    <3> QED BY <2>2, <3>1, Topics
  <2>4. on \in Topic
    BY <2>3 DEF Topic
  <2>5. Serve(t, "answer", on, <<>>)
    BY <1>2, <2>2
  <2> QED BY <2>1, <2>3, <2>4, <2>5, ServeKeeps
<1>4. /\ scode \in Seq({"issued", "used"}) /\ stoken \in Seq(1 .. n)
      /\ DOMAIN scode = 1 .. n
  BY <1>1 DEF CodesInv
<1>5. /\ scode' \in Seq({"issued", "used"}) /\ DOMAIN scode' = 1 .. n + 1
      /\ \A i \in 1 .. n : scode'[i] = scode[i]
  BY <1>1, <1>2, <1>4
<1>6. stoken' \in Seq(DOMAIN scode')
  <2>1. 1 .. n \subseteq 1 .. n + 1
    OBVIOUS
  <2> QED BY <1>2, <1>4, <1>5, <2>1, SeqMonotonic
<1>7. \A i \in DOMAIN stoken : stoken[i] \in 1 .. n
  BY <1>4
<1>8. \A i \in DOMAIN stoken' : scode'[stoken'[i]] = "used"
  BY <1>2, <1>5, <1>7 DEF CodesInv
<1>9. smet \subseteq smet'
  BY <1>3 DEF Moves
<1>10. ASSUME NEW u \in Thread, spc'[u] = "mark_used"
       PROVE  /\ sreq'[u].on[2] \in DOMAIN scode'
              /\ sreq'[u].on \notin smet' =>
                   scode'[sreq'[u].on[2]] = "issued"
  <2>1. spc[u] = "mark_used" /\ sreq'[u] = sreq[u]
    BY <1>3, <1>10 DEF Moves
  <2>2. /\ sreq[u].on[2] \in 1 .. n
        /\ sreq[u].on \notin smet => scode[sreq[u].on[2]] = "issued"
    BY <1>4, <2>1 DEF CodesInv
  <2> QED BY <1>5, <1>9, <2>1, <2>2
<1>11. \A i, j \in DOMAIN stoken' :
         stoken'[i] = stoken'[j] => i = j \/ <<"code", stoken'[i]>> \in smet'
  BY <1>2, <1>9 DEF CodesInv
<1> QED BY <1>3, <1>5, <1>6, <1>8, <1>10, <1>11 DEF CodesInv

LEMMA ExchangeKeeps ==
  ASSUME Serving, CodesInv, NEW t \in Thread, NEW code \in DOMAIN scode,
         ExchangeCode(t, code)
  PROVE  Serving' /\ CodesInv' /\ Moves(t) /\ spc'[t] = "mark_used"
         /\ spc[t] = "idle"
<1>1. /\ scode[code] = "issued" /\ UNCHANGED <<scode, stoken>>
      /\ Serve(t, "mark_used", <<"code", code>>, <<>>)
  BY DEF ExchangeCode, sdata
<1>2. code \in Nat
  BY DEF CodesInv
<1>3. /\ Serving' /\ Moves(t) /\ spc'[t] = "mark_used" /\ spc[t] = "idle"
      /\ sreq'[t] = [id |-> sserved + 1, on |-> <<"code", code>>,
                     draft |-> <<>>, found |-> FALSE]
  <2>1. "mark_used" \in Step /\ <<>> \in Seq(Message)
    BY DEF Step
  <2>2. PICK on : on = <<"code", code>>
    OBVIOUS
  <2>3. on \in CodeTopic /\ on \notin CommentTopic
    BY <1>2, <2>2, Topics
  <2>4. on \in Topic
    BY <2>3 DEF Topic
  <2>5. Serve(t, "mark_used", on, <<>>)
    BY <1>1, <2>2
  <2> QED BY <2>1, <2>2, <2>3, <2>4, <2>5, ServeKeeps
<1>4. sreq'[t].on[2] = code
  BY <1>3
<1>5. smet \subseteq smet'
  BY <1>3 DEF Moves
<1>6. ASSUME NEW u \in Thread, spc'[u] = "mark_used"
      PROVE  /\ sreq'[u].on[2] \in DOMAIN scode'
             /\ sreq'[u].on \notin smet' => scode'[sreq'[u].on[2]] = "issued"
  <2>1. CASE u = t
    BY <1>1, <1>4, <2>1
  <2>2. CASE u # t
    <3>1. spc[u] = "mark_used" /\ sreq'[u] = sreq[u]
      BY <1>3, <1>6, <2>2 DEF Moves
    <3> QED BY <1>1, <1>5, <3>1 DEF CodesInv
  <2> QED BY <2>1, <2>2
<1> QED BY <1>1, <1>3, <1>5, <1>6 DEF CodesInv

LEMMA MarkKeeps ==
  ASSUME Serving, CodesInv, NEW t \in Thread, MarkUsed(t)
  PROVE  Serving' /\ CodesInv' /\ Moves(t) /\ spc'[t] = "idle"
         /\ spc[t] = "mark_used"
<1>1. PICK n \in Nat : sreq[t].on = <<"code", n>>
  BY DEF MarkUsed, Serving, CodeTopic
<1>2. sreq[t].on[2] = n
  BY <1>1
<1>3. /\ spc[t] = "mark_used" /\ Reply(t) /\ smet' = smet
      /\ scode' = [scode EXCEPT ![n] = "used"] /\ stoken' = Append(stoken, n)
  BY <1>2 DEF MarkUsed, Reply
<1>4. Serving' /\ Moves(t) /\ spc'[t] = "idle"
  BY <1>3, ReplyKeeps
<1>5. /\ n \in DOMAIN scode
      /\ <<"code", n>> \notin smet => scode[n] = "issued"
  BY <1>1, <1>2, <1>3 DEF CodesInv
<1>6. PICK m \in Nat : m = Len(scode) /\ DOMAIN scode = 1 .. m
  BY DEF CodesInv
<1>7. /\ scode' \in Seq({"issued", "used"}) /\ DOMAIN scode' = 1 .. m
      /\ scode'[n] = "used" /\ \A i \in 1 .. m : i # n => scode'[i] = scode[i]
  <2>1. n \in 1 .. Len(scode)
    BY <1>5, <1>6
  <2>2. /\ scode' \in Seq({"issued", "used"}) /\ Len(scode') = m
        /\ \A i \in 1 .. m : scode'[i] = IF i = n THEN "used" ELSE scode[i]
    BY <1>3, <1>6, <2>1, ExceptSeq DEF CodesInv
  <2> QED BY <1>6, <2>1, <2>2
<1>8. PICK l \in Nat : l = Len(stoken) /\ DOMAIN stoken = 1 .. l
  BY DEF CodesInv
<1>9. /\ stoken' \in Seq(1 .. m) /\ DOMAIN stoken' = 1 .. l + 1
      /\ stoken'[l + 1] = n /\ \A i \in 1 .. l : stoken'[i] = stoken[i]
      /\ \A i \in 1 .. l : stoken[i] \in 1 .. m
  <2>1. stoken \in Seq(1 .. m) /\ n \in 1 .. m
    BY <1>5, <1>6 DEF CodesInv
  <2>2. /\ Append(stoken, n) \in Seq(1 .. m)
        /\ Len(Append(stoken, n)) = l + 1
        /\ Append(stoken, n)[l + 1] = n
        /\ \A i \in 1 .. l : Append(stoken, n)[i] = stoken[i]
    BY <1>8, <2>1, AppendProperties
  <2>3. \A i \in 1 .. l : stoken[i] \in 1 .. m
    BY <1>8, <2>1
  <2> QED BY <1>3, <2>2, <2>3
<1>10. ASSUME NEW i \in DOMAIN stoken'
       PROVE  scode'[stoken'[i]] = "used"
  <2>1. CASE i = l + 1
    BY <1>7, <1>9, <2>1
  <2>2. CASE i \in 1 .. l
    <3>1. scode[stoken[i]] = "used"
      BY <1>8, <2>2 DEF CodesInv
    <3>2. stoken'[i] \in 1 .. m /\ stoken'[i] = stoken[i]
      BY <1>9, <2>2
    <3> QED BY <1>7, <3>1, <3>2
  <2>3. i \in 1 .. l + 1
    BY <1>9
  <2> QED BY <1>8, <2>1, <2>2, <2>3
<1>11. \A i \in 1 .. l : stoken[i] = n => <<"code", n>> \in smet
  <2>1. \A i \in 1 .. l : scode[stoken[i]] = "used"
    BY <1>8 DEF CodesInv
  <2> QED BY <1>5, <2>1
<1>12. ASSUME NEW i \in DOMAIN stoken', NEW j \in DOMAIN stoken',
              stoken'[i] = stoken'[j], i # j
       PROVE  <<"code", stoken'[i]>> \in smet'
  <2>1. CASE i \in 1 .. l /\ j \in 1 .. l
    BY <1>3, <1>8, <1>9, <1>12, <2>1 DEF CodesInv
  <2>2. CASE i = l + 1 /\ j \in 1 .. l
    BY <1>3, <1>9, <1>11, <1>12, <2>2
  <2>3. CASE j = l + 1 /\ i \in 1 .. l
    BY <1>3, <1>9, <1>11, <1>12, <2>3
  <2>4. i \in 1 .. l + 1 /\ j \in 1 .. l + 1
    BY <1>9
  <2> QED BY <1>12, <2>1, <2>2, <2>3, <2>4
<1>13. ASSUME NEW u \in Thread, spc'[u] = "mark_used"
       PROVE  /\ sreq'[u].on[2] \in DOMAIN scode'
              /\ sreq'[u].on \notin smet' =>
                   scode'[sreq'[u].on[2]] = "issued"
  <2>1. u # t /\ spc[u] = "mark_used" /\ sreq'[u] = sreq[u]
    BY <1>4, <1>13 DEF Moves
  <2>2. PICK i \in Nat : sreq[u].on = <<"code", i>>
    BY <2>1 DEF Serving, CodeTopic
  <2>3. /\ sreq[u].on[2] = i /\ i \in 1 .. m
        /\ sreq[u].on \notin smet => scode[i] = "issued"
    <3>1. sreq[u].on[2] = i
      BY <2>2
    <3> QED BY <1>6, <2>1, <3>1 DEF CodesInv
  <2>4. i = n => sreq[u].on \in smet
    BY <1>1, <1>3, <2>1, <2>2 DEF Serving
  <2> QED BY <1>3, <1>7, <2>1, <2>3, <2>4
<1> QED
  BY <1>3, <1>4, <1>7, <1>9, <1>10, <1>12, <1>13 DEF CodesInv

(* Comments.                                                               *)
LEMMA CommentsKept ==
  ASSUME Serving, Serving', CommentsInv, NEW t \in Thread, Moves(t),
         sthread' = sthread,
         spc[t] = "notify" => sreq[t].on \in smet'
  PROVE  CommentsInv'
<1>1. ASSUME NEW c \in sthread
      PROVE  /\ c.id <= sserved'
             /\ \/ c.to = {} \/ <<"comment", c.id>> \in smet'
                \/ \E u \in Thread : sreq'[u].on = <<"comment", c.id>>
  <2>1. c.id \in Nat /\ c.id <= sserved
    <3>1. c \in [id : Ids, to : SUBSET Person] /\ c.id <= sserved
      BY DEF CommentsInv
    <3>2. c.id \in Ids
      BY <3>1
    <3> QED BY <3>1, <3>2 DEF Ids
  <2>2. c.id <= sserved'
    <3>1. sserved <= sserved' /\ sserved \in Nat /\ sserved' \in Nat
      BY DEF Moves, Serving, Ids
    <3> QED BY <2>1, <3>1
  <2>3. smet \subseteq smet'
    BY DEF Moves
  <2>4. CASE \E u \in Thread : sreq[u].on = <<"comment", c.id>>
    <3>1. PICK u \in Thread : sreq[u].on = <<"comment", c.id>>
      BY <2>4
    <3>2. CASE u = t
      <4>1. spc[t] = "notify"
        BY <2>1, <3>1, <3>2, Topics DEF Serving
      <4> QED BY <2>2, <3>1, <3>2, <4>1
    <3>3. CASE u # t
      BY <2>2, <3>1, <3>3 DEF Moves
    <3> QED BY <3>2, <3>3
  <2>5. CASE c.to = {} \/ <<"comment", c.id>> \in smet
    BY <2>2, <2>3, <2>5
  <2> QED BY <2>4, <2>5 DEF CommentsInv
<1> QED BY <1>1 DEF CommentsInv

LEMMA AddCommentKeeps ==
  ASSUME Serving, CommentsInv, NEW t \in Thread, AddComment(t)
  PROVE  Serving' /\ CommentsInv' /\ Moves(t) /\ spc'[t] = "notify"
         /\ spc[t] = "idle"
<1>1. PICK n : n = sserved + 1
  OBVIOUS
<1>2. PICK mentions \in SUBSET Person :
        /\ Serve(t, "notify", <<"comment", n>>, <<>>)
        /\ sthread' = sthread \cup {[id |-> n, to |-> mentions]}
  BY <1>1 DEF AddComment
<1>3. PICK on : on = <<"comment", n>>
  OBVIOUS
<1>4. sserved \in Nat /\ n \in Nat
  BY <1>1 DEF Serving, Ids
<1>5. on \in CommentTopic /\ on \in Topic
  <2>1. on \in CommentTopic
    BY <1>3, <1>4, Topics
  <2> QED BY <2>1 DEF Topic
<1>6. on \notin ChatTopic /\ on \notin Keys /\ on \notin CodeTopic
  BY <1>3 DEF ChatTopic, Keys, CodeTopic, Table, UniqueTable
<1>7. "notify" \in Step /\ <<>> \in Seq(Message)
  BY DEF Step
<1>8. Serve(t, "notify", on, <<>>)
  BY <1>2, <1>3
<1>9. /\ Serving' /\ Moves(t) /\ spc'[t] = "notify" /\ spc[t] = "idle"
      /\ sserved' = n /\ n \in Ids
      /\ sreq'[t] = [id |-> n, on |-> on, draft |-> <<>>, found |-> FALSE]
  <2>1. on = <<"comment", sserved + 1>>
    BY <1>1, <1>3
  <2>2. /\ Serving' /\ Moves(t) /\ spc'[t] = "notify" /\ spc[t] = "idle"
        /\ sserved' = sserved + 1 /\ sserved + 1 \in Ids
        /\ sreq'[t] = [id |-> sserved + 1, on |-> on, draft |-> <<>>,
                       found |-> FALSE]
    BY <1>5, <1>7, <1>8, <2>1, ServeKeeps
  <2> QED BY <1>1, <2>2
<1>10. PICK new : new = [id |-> n, to |-> mentions]
  OBVIOUS
<1>11. /\ new \in [id : Ids, to : SUBSET Person] /\ new.id = n
       /\ sthread' = sthread \cup {new}
  BY <1>2, <1>9, <1>10
<1>12. ASSUME NEW c \in sthread PROVE c.id \in Nat /\ c.id <= sserved
  <2>1. c \in [id : Ids, to : SUBSET Person] /\ c.id <= sserved
    BY DEF CommentsInv
  <2>2. c.id \in Ids
    BY <2>1
  <2> QED BY <2>1, <2>2 DEF Ids
<1>13. \A c \in sthread : c.id # n /\ c.id <= n
  BY <1>1, <1>4, <1>12
<1>14. sthread' \subseteq [id : Ids, to : SUBSET Person]
  BY <1>11 DEF CommentsInv
<1>15. \A c, d \in sthread' : c.id = d.id => c = d
  BY <1>11, <1>13 DEF CommentsInv
<1>16. ASSUME NEW c \in sthread'
       PROVE  /\ c.id <= sserved'
              /\ \/ c.to = {} \/ <<"comment", c.id>> \in smet'
                 \/ \E u \in Thread : sreq'[u].on = <<"comment", c.id>>
  <2>1. CASE c = new
    <3>1. sreq'[t].on = <<"comment", c.id>>
      BY <1>3, <1>9, <1>11, <2>1
    <3>2. c.id <= sserved'
      BY <1>4, <1>9, <1>11, <2>1
    <3> QED BY <3>1, <3>2
  <2>2. CASE c \in sthread
    <3>1. c.id <= sserved' /\ c.id \in Nat
      BY <1>9, <1>12, <1>13, <2>2
    <3>2. sreq[t].on = <<"nothing">>
      BY <1>9 DEF Serving, NoWork
    <3>3. \/ c.to = {} \/ <<"comment", c.id>> \in smet
          \/ \E u \in Thread : sreq[u].on = <<"comment", c.id>>
      BY <2>2 DEF CommentsInv
    <3>4. ASSUME NEW u \in Thread, sreq[u].on = <<"comment", c.id>>
          PROVE  sreq'[u].on = <<"comment", c.id>>
      <4>1. u # t
        BY <3>2, <3>4
      <4> QED BY <1>9, <3>4, <4>1 DEF Moves
    <3>5. smet \subseteq smet'
      BY <1>9 DEF Moves
    <3> QED BY <3>1, <3>3, <3>4, <3>5
  <2> QED BY <1>11, <2>1, <2>2
<1> QED BY <1>9, <1>14, <1>15, <1>16 DEF CommentsInv

LEMMA NotifyKeeps ==
  ASSUME Serving, CommentsInv, NEW t \in Thread, NotifyMention(t)
  PROVE  Serving' /\ CommentsInv' /\ Moves(t) /\ spc'[t] \in {"notify", "idle"}
         /\ spc[t] = "notify"
<1>1. PICK c \in sthread :
        /\ c.id = sreq[t].id
        /\ \/ c.to = {} /\ Reply(t) /\ sthread' = sthread
           \/ \E p \in c.to :
                /\ sthread' = (sthread \ {c}) \cup {[c EXCEPT !.to = @ \ {p}]}
                /\ UNCHANGED <<sserved, smet, spc, sreq>>
  BY DEF NotifyMention
<1>2. spc[t] = "notify" /\ sreq[t].on = <<"comment", c.id>>
  BY <1>1 DEF NotifyMention, Serving
<1>3. CASE c.to = {} /\ Reply(t) /\ sthread' = sthread
  <2>1. Serving' /\ Moves(t) /\ spc'[t] = "idle" /\ sserved' = sserved
    BY <1>2, <1>3, ReplyKeeps
  <2>2. ASSUME NEW d \in sthread
        PROVE  \/ d.to = {} \/ <<"comment", d.id>> \in smet'
               \/ \E u \in Thread : sreq'[u].on = <<"comment", d.id>>
    <3>1. CASE d = c
      BY <1>3, <3>1
    <3>2. CASE d # c
      <4>1. d.id # c.id
        BY <3>2 DEF CommentsInv
      <4>2. \A u \in Thread : sreq[u].on = <<"comment", d.id>> => u # t
        BY <1>2, <4>1
      <4>3. \/ d.to = {} \/ <<"comment", d.id>> \in smet
            \/ \E u \in Thread : sreq[u].on = <<"comment", d.id>>
        BY DEF CommentsInv
      <4> QED BY <2>1, <4>2, <4>3 DEF Moves
    <3> QED BY <3>1, <3>2
  <2>3. CommentsInv'
    BY <1>3, <2>1, <2>2 DEF CommentsInv
  <2> QED BY <1>2, <2>1, <2>3
<1>4. CASE ~(c.to = {} /\ Reply(t) /\ sthread' = sthread)
  <2>1. PICK p \in c.to :
          /\ sthread' = (sthread \ {c}) \cup {[c EXCEPT !.to = @ \ {p}]}
          /\ UNCHANGED <<sserved, smet, spc, sreq>>
    BY <1>1, <1>4
  <2>2. PICK new : new = [c EXCEPT !.to = @ \ {p}]
    OBVIOUS
  <2>3. c \in [id : Ids, to : SUBSET Person]
    BY DEF CommentsInv
  <2>4. new \in [id : Ids, to : SUBSET Person] /\ new.id = c.id
    BY <2>2, <2>3
  <2>5. sthread' = (sthread \ {c}) \cup {new}
    BY <2>1, <2>2
  <2>6. Serving' /\ Moves(t) /\ spc'[t] = "notify"
    BY <1>2, <2>1 DEF Serving, Moves, Ids
  <2>7. sthread' \subseteq [id : Ids, to : SUBSET Person]
    BY <2>4, <2>5 DEF CommentsInv
  <2>8. \A d, e \in sthread' : d.id = e.id => d = e
    BY <2>4, <2>5 DEF CommentsInv
  <2>9. ASSUME NEW d \in sthread'
        PROVE  /\ d.id <= sserved
               /\ \/ d.to = {} \/ <<"comment", d.id>> \in smet
                  \/ \E u \in Thread : sreq[u].on = <<"comment", d.id>>
    <3>1. CASE d = new
      BY <1>2, <2>4, <3>1 DEF CommentsInv
    <3>2. CASE d \in sthread
      BY <3>2 DEF CommentsInv
    <3> QED BY <2>5, <3>1, <3>2
  <2>10. CommentsInv'
    BY <2>1, <2>7, <2>8, <2>9 DEF CommentsInv
  <2> QED BY <1>2, <2>6, <2>10
<1> QED BY <1>3, <1>4

(* Requests that only begin something, and those that end.                 *)
LEMMA BeginKeeps ==
  ASSUME Serving, sapp \subseteq App, snode \subseteq Ids,
         NEW t \in Thread,
         \/ \E a \in App : RegisterApp(t, a) \/ InstallApp(t, a)
         \/ \E x \in Subject : AssignRole(t, x) \/ CompileReasoning(t, x)
         \/ AddNode(t) \/ \E n \in snode : DeleteNode(t, n)
  PROVE  /\ Serving' /\ Moves(t) /\ spc[t] = "idle"
         /\ spc'[t] \in {"answer", "look_up"}
         /\ UNCHANGED <<schat, sreplied, srow, swritten, sthread, scode,
                        stoken>>
         /\ sapp' \subseteq App /\ snode' \subseteq Ids
<1> DEFINE Began ==
      /\ Serving' /\ Moves(t) /\ spc[t] = "idle"
      /\ spc'[t] \in {"answer", "look_up"}
      /\ UNCHANGED <<schat, sreplied, srow, swritten, sthread, scode, stoken>>
      /\ sapp' \subseteq App /\ snode' \subseteq Ids
<1>1. "answer" \in Step /\ "look_up" \in Step /\ <<>> \in Seq(Message)
  BY DEF Step
<1>2. ASSUME NEW on \in OtherTopic, on \notin CommentTopic,
             Serve(t, "answer", on, <<>>)
      PROVE  /\ Serving' /\ Moves(t) /\ spc[t] = "idle" /\ spc'[t] = "answer"
             /\ sserved + 1 \in Ids
  <2>1. on \in Topic
    BY DEF Topic
  <2> QED BY <1>1, <1>2, <2>1, ServeKeeps
<1>3. ASSUME NEW on \in Keys, Serve(t, "look_up", on, <<>>)
      PROVE  Serving' /\ Moves(t) /\ spc[t] = "idle" /\ spc'[t] = "look_up"
  <2>1. on \in Topic /\ on \notin CommentTopic
    BY Topics DEF Topic
  <2> QED BY <1>1, <1>3, <2>1, ServeKeeps
<1>4. ASSUME NEW a \in App, RegisterApp(t, a) PROVE Began
  BY <1>2, <1>4, Topics DEF RegisterApp
<1>5. ASSUME NEW a \in App, InstallApp(t, a) PROVE Began
  <2>1. <<"installation", a>> \in Keys
    BY DEF Keys, Table
  <2> QED BY <1>3, <1>5, <2>1 DEF InstallApp, sdata
<1>6. ASSUME NEW x \in Subject, AssignRole(t, x) PROVE Began
  <2>1. <<"role", x>> \in Keys
    BY DEF Keys, Table
  <2> QED BY <1>3, <1>6, <2>1 DEF AssignRole, sdata
<1>7. ASSUME NEW x \in Subject, CompileReasoning(t, x) PROVE Began
  <2>1. <<"explanation", x>> \in Keys
    BY DEF Keys, Table, UniqueTable
  <2> QED BY <1>3, <1>7, <2>1 DEF CompileReasoning, sdata
<1>8. ASSUME AddNode(t) PROVE Began
  <2>1. PICK n \in Nat : n = sserved + 1
    BY DEF Serving, Ids
  <2>2. /\ Serve(t, "answer", <<"node", n>>, <<>>)
        /\ snode' = snode \cup {n}
        /\ UNCHANGED <<schat, sreplied, srow, swritten, sapp, sthread, scode,
                       stoken>>
    BY <1>8, <2>1 DEF AddNode
  <2>3. /\ Serving' /\ Moves(t) /\ spc[t] = "idle" /\ spc'[t] = "answer"
        /\ n \in Ids
    BY <1>2, <2>1, <2>2, Topics
  <2> QED BY <2>2, <2>3
<1>9. ASSUME NEW n \in snode, DeleteNode(t, n) PROVE Began
  <2>1. n \in Nat
    BY DEF Ids
  <2>2. Serving' /\ Moves(t) /\ spc[t] = "idle" /\ spc'[t] = "answer"
    BY <1>2, <1>9, <2>1, Topics DEF DeleteNode
  <2> QED BY <1>9, <2>2 DEF DeleteNode
<1> QED BY <1>4, <1>5, <1>6, <1>7, <1>8, <1>9

LEMMA RecordsInit == SInit => RecordsInv
<1> SUFFICES ASSUME SInit PROVE RecordsInv
  OBVIOUS
<1>1. /\ 0 \in Ids /\ NoWork.on = <<"nothing">>
      /\ NoWork \in [id : Ids, on : Topic \cup {<<"nothing">>},
                     draft : Seq(Message), found : BOOLEAN]
  BY SaasAssumption DEF NoWork, Ids
<1>2. Serving
  <2>1. NoWork.on \notin CommentTopic
    BY <1>1, Topics DEF Topic
  <2> QED BY <1>1, <2>1 DEF SInit, Serving
<1>3. ChatsInv
  <2>1. Taken(<<>>)
    BY DEF Taken
  <2>2. Answers(<<>>) = <<>>
    <3>1. Len(<<>>) \div 2 = 0
      OBVIOUS
    <3>2. Answers(<<>>) \in Seq(Nat) /\ Len(Answers(<<>>)) = 0
      BY <3>1 DEF Answers
    <3> QED BY <3>2, EmptySeq
  <2> QED BY <2>1, <2>2 DEF SInit, ChatsInv
<1>4. RowsInv
  BY <1>1 DEF SInit, RowsInv, LastSaved
<1>5. CodesInv
  BY DEF SInit, CodesInv
<1>6. CommentsInv
  BY DEF SInit, CommentsInv
<1> QED BY <1>2, <1>3, <1>4, <1>5, <1>6 DEF SInit, RecordsInv

LEMMA RecordsStep == RecordsInv /\ [SNext]_svars => RecordsInv'
<1> SUFFICES ASSUME RecordsInv, [SNext]_svars PROVE RecordsInv'
  OBVIOUS
<1> USE DEF RecordsInv
<1>1. ASSUME NEW t \in Thread,
             GetSession(t) \/ CompleteChat(t) \/ SaveSession(t)
      PROVE  RecordsInv'
  <2>1. UNCHANGED <<srow, swritten, sapp, sthread, snode, scode, stoken>>
    BY <1>1 DEF GetSession, CompleteChat, SaveSession, sdata
  <2>2. /\ Serving' /\ ChatsInv' /\ Moves(t)
        /\ spc'[t] \in {"complete", "save_chat", "idle"}
    BY <1>1, AskKeeps, AnswerKeeps, SaveChatKeeps
  <2>3. spc[t] # "notify"
    BY <1>1 DEF GetSession, Serve, CompleteChat, SaveSession
  <2> QED BY <2>1, <2>2, <2>3, RowsKept, CodesKept, CommentsKept
<1>2. ASSUME NEW t \in Thread, LookUp(t) \/ WriteRecord(t)
      PROVE  RecordsInv'
  <2>1. UNCHANGED <<schat, sreplied, sapp, sthread, snode, scode, stoken>>
    BY <1>2 DEF LookUp, WriteRecord, sdata
  <2>2. /\ Serving' /\ RowsInv' /\ Moves(t) /\ spc'[t] \in {"write", "idle"}
        /\ spc[t] # "notify"
    BY <1>2, LookUpKeeps, WriteKeeps
  <2> QED BY <2>1, <2>2, ChatsKept, CodesKept, CommentsKept
<1>3. ASSUME NEW t \in Thread, AddComment(t) \/ NotifyMention(t)
      PROVE  RecordsInv'
  <2>1. UNCHANGED <<schat, sreplied, srow, swritten, sapp, snode, scode,
                    stoken>>
    BY <1>3 DEF AddComment, NotifyMention
  <2>2. Serving' /\ CommentsInv' /\ Moves(t) /\ spc'[t] \in {"notify", "idle"}
    BY <1>3, AddCommentKeeps, NotifyKeeps
  <2> QED BY <2>1, <2>2, ChatsKept, RowsKept, CodesKept
<1>4. ASSUME NEW t \in Thread,
             \/ Authorize(t) \/ MarkUsed(t)
             \/ \E c \in DOMAIN scode : ExchangeCode(t, c)
      PROVE  RecordsInv'
  <2>1. UNCHANGED <<schat, sreplied, srow, swritten, sapp, sthread, snode>>
    BY <1>4 DEF Authorize, MarkUsed, ExchangeCode, sdata
  <2>2. /\ Serving' /\ CodesInv' /\ Moves(t) /\ spc[t] # "notify"
        /\ spc'[t] \in {"answer", "mark_used", "idle"}
    BY <1>4, AuthorizeKeeps, MarkKeeps, ExchangeKeeps
  <2> QED BY <2>1, <2>2, ChatsKept, RowsKept, CommentsKept
<1>5. ASSUME NEW t \in Thread,
             \/ \E a \in App : RegisterApp(t, a) \/ InstallApp(t, a)
             \/ \E x \in Subject : AssignRole(t, x) \/ CompileReasoning(t, x)
             \/ AddNode(t) \/ \E n \in snode : DeleteNode(t, n)
      PROVE  RecordsInv'
  <2>1. /\ Serving' /\ Moves(t) /\ spc[t] = "idle"
        /\ spc'[t] \in {"answer", "look_up"}
        /\ UNCHANGED <<schat, sreplied, srow, swritten, sthread, scode, stoken>>
        /\ sapp' \subseteq App /\ snode' \subseteq Ids
    BY <1>5, BeginKeeps
  <2> QED BY <2>1, ChatsKept, RowsKept, CodesKept, CommentsKept
<1>6. ASSUME NEW t \in Thread, Answer(t) \/ LoseRecord(t)
      PROVE  RecordsInv'
  <2>1. /\ UNCHANGED sdata /\ spc[t] # "idle" /\ (Reply(t) \/ LoseRecord(t))
        /\ spc[t] = "notify" => sreq[t].on \in smet'
    BY <1>6 DEF Answer, LoseRecord
  <2>2. UNCHANGED <<schat, sreplied, srow, swritten, sapp, sthread, snode,
                    scode, stoken>>
    BY <2>1 DEF sdata
  <2>3. Serving' /\ Moves(t) /\ spc'[t] = "idle"
    BY <2>1, ReplyKeeps
  <2> QED BY <2>1, <2>2, <2>3, ChatsKept, RowsKept, CodesKept, CommentsKept
<1>7. CASE UNCHANGED svars
  <2>1. UNCHANGED <<sserved, smet, spc, sreq, sapp, snode>>
    BY <1>7 DEF svars, sdata
  <2>2. UNCHANGED <<schat, sreplied, srow, swritten, sthread, scode, stoken>>
    BY <1>7 DEF svars, sdata
  <2>3. Serving'
    BY <2>1 DEF Serving
  <2>4. ChatsInv' /\ RowsInv'
    BY <2>1, <2>2 DEF ChatsInv, Drafted, RowsInv, LastSaved
  <2>5. CodesInv' /\ CommentsInv'
    BY <2>1, <2>2 DEF CodesInv, CommentsInv
  <2> QED BY <2>1, <2>3, <2>4, <2>5
<1> QED BY <1>1, <1>2, <1>3, <1>4, <1>5, <1>6, <1>7 DEF SNext

(* A conversation alternates prompts with their own answers, holds all     *)
(* that was answered if no two chats met on it; a goal has one             *)
(* explanation, a key one row with the value saved last, a code gave one   *)
(* token, and mentions are notified, unless requests met or a call was     *)
(* lost (CopilotService.process_message, the repositories' upserts,        *)
(* exchange_code and add_comment).                                         *)
THEOREM RecordsSurvive == SSpec => []RecordsHold
<1>1. ASSUME RecordsInv PROVE STypeOK
  <2> USE <1>1 DEF RecordsInv
  <2>1. ASSUME NEW t \in Thread
        PROVE  sreq[t].id \in Ids /\ sreq[t].draft \in Seq(Message)
    BY DEF Serving
  <2>2. spc \in [Thread -> {"idle", "complete", "save_chat", "look_up",
                            "write", "notify", "mark_used", "answer"}]
    BY DEF Serving, Step
  <2>3. sserved \in Ids
    BY DEF Serving
  <2> QED
    BY <2>1, <2>2, <2>3
    DEF STypeOK, ChatsInv, RowsInv, CodesInv, CommentsInv
<1>2. ASSUME RecordsInv PROVE ConversationsKeepTurns
  <2>1. ASSUME NEW c \in Chat, NEW said, said = schat[c]
        PROVE  /\ \A i \in DOMAIN said :
                    /\ said[i].by = "user" <=> i % 2 = 1
                    /\ i % 2 = 0 => said[i].of = said[i - 1].of
               /\ <<"chat", c>> \notin smet =>
                    [i \in 1 .. Len(said) \div 2 |-> said[2 * i].of]
                      = sreplied[c]
    <3>1. /\ Taken(said)
          /\ <<"chat", c>> \notin smet => Answers(said) = sreplied[c]
      BY <1>2, <2>1 DEF RecordsInv, ChatsInv
    <3> QED BY <3>1 DEF Taken, Answers
  <2> QED BY <2>1 DEF ConversationsKeepTurns
<1>3. ASSUME RecordsInv PROVE RecordsKeepLastWrite
  BY <1>3 DEF RecordsInv, RowsInv, LastSaved, CodesInv, CommentsInv,
              RecordsKeepLastWrite
<1>4. RecordsInv => RecordsHold
  BY <1>1, <1>2, <1>3 DEF RecordsHold
<1> QED BY <1>4, RecordsInit, RecordsStep, PTL DEF SSpec

-----------------------------------------------------------------------------
(* Reports of the engines: their version numbers.                          *)

(* A number more in a set of numbers is counted once.                      *)
LEMMA OneMoreCounted ==
  ASSUME NEW n \in Nat, NEW S \in SUBSET (1 .. n)
  PROVE  /\ Cardinality(S) \in 0 .. n
         /\ Cardinality(S \cup {n + 1}) = Cardinality(S) + 1
         /\ {j \in S \cup {n + 1} : j <= n + 1} = S \cup {n + 1}
         /\ \A i \in 1 .. n :
              {j \in S \cup {n + 1} : j <= i} = {j \in S : j <= i}
<1>1. IsFiniteSet(1 .. n) /\ Cardinality(1 .. n) = n
  BY FS_Interval
<1>2. IsFiniteSet(S) /\ Cardinality(S) <= n /\ Cardinality(S) \in Nat
  BY <1>1, FS_Subset, FS_CardinalityType
<1>3. n + 1 \notin S /\ \A j \in S : j \in 1 .. n
  OBVIOUS
<1>4. Cardinality(S \cup {n + 1}) = Cardinality(S) + 1
  BY <1>2, <1>3, FS_AddElement
<1>5. Cardinality(S) \in 0 .. n
  <2>1. PICK c : c = Cardinality(S)
    OBVIOUS
  <2> QED BY <1>1, <1>2, <2>1
<1>6. {j \in S \cup {n + 1} : j <= n + 1} = S \cup {n + 1}
  <2>1. \A j \in S \cup {n + 1} : j <= n + 1
    BY <1>3
  <2> QED BY <2>1
<1>7. ASSUME NEW i \in 1 .. n
      PROVE  {j \in S \cup {n + 1} : j <= i} = {j \in S : j <= i}
  <2>1. ~(n + 1 <= i)
    OBVIOUS
  <2> QED BY <2>1
<1> QED BY <1>4, <1>5, <1>6, <1>7

(* If each counts those up to itself, the greatest counts them all.        *)
LEMMA GreatestCountsAll ==
  ASSUME NEW n \in Nat, NEW S \in SUBSET (1 .. n), NEW v,
         \A i \in S : v[i] = Cardinality({j \in S : j <= i})
  PROVE  Max({0} \cup {v[i] : i \in S}) = Cardinality(S)
<1> DEFINE T == {0} \cup {v[i] : i \in S}
<1>1. /\ IsFiniteSet(S) /\ Cardinality(S) \in 0 .. n
      /\ \A i \in S : Cardinality({j \in S : j <= i}) \in 0 .. Cardinality(S)
  <2>1. IsFiniteSet(S) /\ Cardinality(S) \in 0 .. n
    <3>1. IsFiniteSet(1 .. n)
      BY FS_Interval
    <3>2. IsFiniteSet(S)
      BY <3>1, FS_Subset
    <3> QED BY <3>2, OneMoreCounted
  <2>2. ASSUME NEW i \in S
        PROVE  Cardinality({j \in S : j <= i}) \in 0 .. Cardinality(S)
    <3>1. {j \in S : j <= i} \subseteq S
      OBVIOUS
    <3>2. /\ IsFiniteSet({j \in S : j <= i})
          /\ Cardinality({j \in S : j <= i}) <= Cardinality(S)
      BY <2>1, <3>1, FS_Subset
    <3>3. Cardinality({j \in S : j <= i}) \in Nat
      BY <3>2, FS_CardinalityType
    <3> QED BY <2>1, <3>2, <3>3
  <2> QED BY <2>1, <2>2
<1>2. PICK c : c = Cardinality(S)
  OBVIOUS
<1>3. c \in Nat /\ T \subseteq 0 .. c /\ T # {}
  <2>1. c \in Nat
    BY <1>1, <1>2
  <2>2. \A i \in S : v[i] \in 0 .. c
    BY <1>1, <1>2
  <2>3. 0 \in 0 .. c
    BY <2>1
  <2> QED BY <2>1, <2>2, <2>3
<1>4. c \in T
  <2>1. CASE S = {}
    BY <1>2, <2>1, FS_EmptySet
  <2>2. CASE S # {}
    <3>1. S \subseteq 0 .. n
      OBVIOUS
    <3>2. PICK m \in S : \A j \in S : j <= m
      BY <2>2, <3>1, MaxOfBounded
    <3>3. {j \in S : j <= m} = S
      BY <3>2
    <3>4. v[m] = c
      BY <1>2, <3>3
    <3> QED BY <3>4
  <2> QED BY <2>1, <2>2
<1> HIDE DEF T
<1>5. Max(T) \in T /\ \A x \in T : x <= Max(T)
  BY <1>3, MaxOfBounded
<1>6. PICK m : m = Max(T)
  OBVIOUS
<1>7. m \in 0 .. c /\ c <= m
  BY <1>3, <1>4, <1>5, <1>6
<1>8. m = c
  BY <1>3, <1>7
<1> QED BY <1>2, <1>6, <1>8 DEF T

(* A number taken while nobody else is at work on the scope is the next.   *)
Numbering ==
  /\ erow \in Seq(ReportRow) /\ emet \in BOOLEAN
  /\ epc \in [Thread -> {"idle", "number", "insert"}]
  /\ edraft \in [Thread -> ReportRow]
  /\ \A i \in 1 .. Len(erow) : erow[i].version <= Len(erow)
  /\ \A t \in Thread : edraft[t].version <= Len(erow) + 1
SameReport(a, b) == a.engine = b.engine /\ a.scope = b.scope
ReportsOf(rows, entry) == {i \in DOMAIN rows : SameReport(rows[i], entry)}
ReportsCounted(rows) == \A i \in DOMAIN rows :
  rows[i].version = Cardinality({j \in ReportsOf(rows, rows[i]) : j <= i})
NumbersKnown ==
  ~emet =>
    /\ \A t, u \in Thread :
         epc[t] # "idle" /\ epc[u] # "idle"
           /\ SameReport(edraft[t], edraft[u]) => t = u
    /\ \A t \in Thread : epc[t] = "insert" =>
         edraft[t].version = Cardinality(ReportsOf(erow, edraft[t])) + 1
VersionsInv == Numbering /\ NumbersKnown /\ (~emet => ReportsCounted(erow))

(* The rows are counted by scope.                                          *)
LEMMA ReportVersionsFollow ==
  /\ \A r : RowsLike(r) = ReportsOf(erow, r)
  /\ VersionsInv => ReportVersions
<1>1. \A r : RowsLike(r) = ReportsOf(erow, r)
  BY DEF RowsLike, ReportsOf, SameReport
<1>2. ASSUME VersionsInv, ~emet, NEW i \in DOMAIN erow
      PROVE  erow[i].version = Cardinality({j \in RowsLike(erow[i]) : j <= i})
  <2>1. erow[i].version = Cardinality({j \in ReportsOf(erow, erow[i]) : j <= i})
    BY <1>2 DEF VersionsInv, ReportsCounted
  <2> QED BY <1>1, <2>1
<1> QED BY <1>1, <1>2 DEF ReportVersions

(* There are finitely many of them.                                        *)
LEMMA ReportsOfBounded ==
  ASSUME Numbering, NEW r
  PROVE  /\ Len(erow) \in Nat /\ DOMAIN erow = 1 .. Len(erow)
         /\ ReportsOf(erow, r) \in SUBSET (1 .. Len(erow))
         /\ Cardinality(ReportsOf(erow, r)) \in Nat
<1>1. Len(erow) \in Nat /\ DOMAIN erow = 1 .. Len(erow)
  BY DEF Numbering
<1>2. PICK S : S = ReportsOf(erow, r)
  OBVIOUS
<1>3. S \in SUBSET (1 .. Len(erow))
  BY <1>1, <1>2 DEF ReportsOf
<1>4. Cardinality(S) \in Nat
  <2>1. IsFiniteSet(1 .. Len(erow))
    BY <1>1, FS_Interval
  <2> QED BY <1>3, <2>1, FS_Subset, FS_CardinalityType
<1> QED BY <1>1, <1>2, <1>3, <1>4

(* An analysis begins, or meets another.                                   *)
LEMMA AnalysisKeeps ==
  ASSUME VersionsInv, NEW t \in Thread, NEW r \in ReportRow, r.version = 0,
         epc[t] = "idle", epc' = [epc EXCEPT ![t] = "number"],
         edraft' = [edraft EXCEPT ![t] = r],
         emet' = (emet \/ \E u \in Thread : /\ edraft[u].engine = r.engine
                                            /\ edraft[u].scope = r.scope),
         erow' = erow
  PROVE  VersionsInv'
<1>1. Numbering'
  <2>1. Len(erow) \in Nat
    BY DEF VersionsInv, Numbering
  <2> QED BY <2>1 DEF VersionsInv, Numbering
<1>2. /\ epc'[t] = "number" /\ edraft'[t] = r
      /\ \A u \in Thread \ {t} : epc'[u] = epc[u] /\ edraft'[u] = edraft[u]
  BY DEF VersionsInv, Numbering
<1>3. emet' = FALSE => ~emet /\ \A u \in Thread : ~SameReport(edraft[u], r)
  BY DEF SameReport, VersionsInv, Numbering
<1>4. NumbersKnown'
  <2> SUFFICES ASSUME ~emet' PROVE NumbersKnown'
    BY DEF NumbersKnown
  <2>1. ~emet /\ \A u \in Thread :
          ~SameReport(edraft[u], r) /\ ~SameReport(r, edraft[u])
    BY <1>3 DEF SameReport
  <2>2. ASSUME NEW v \in Thread, NEW u \in Thread, epc'[v] # "idle",
               epc'[u] # "idle", SameReport(edraft'[v], edraft'[u])
        PROVE  v = u
    <3>1. CASE v # t /\ u # t
      BY <1>2, <2>1, <2>2, <3>1 DEF VersionsInv, NumbersKnown
    <3>2. CASE v = t /\ u # t
      BY <1>2, <2>1, <2>2, <3>2
    <3>3. CASE v # t /\ u = t
      BY <1>2, <2>1, <2>2, <3>3
    <3> QED BY <3>1, <3>2, <3>3
  <2>3. ASSUME NEW u \in Thread, epc'[u] = "insert"
        PROVE  edraft'[u].version
                 = Cardinality(ReportsOf(erow', edraft'[u])) + 1
    <3>1. u # t
      BY <1>2, <2>3
    <3> QED BY <1>2, <2>1, <2>3, <3>1 DEF VersionsInv, NumbersKnown
  <2> QED BY <2>2, <2>3 DEF NumbersKnown, SameReport
<1>5. (~emet' => ReportsCounted(erow'))
  BY <1>3 DEF VersionsInv, ReportsCounted
<1> QED BY <1>1, <1>4, <1>5 DEF VersionsInv

(* The number is one more than the greatest, and so one more than there    *)
(* are rows.                                                               *)
LEMMA NextReportKeeps ==
  ASSUME VersionsInv, NEW t \in Thread, NextReport(t)
  PROVE  VersionsInv'
<1>1. PICK n : n =
        1 + Max({0} \cup {erow[i].version : i \in ReportsOf(erow, edraft[t])})
  OBVIOUS
<1>2. /\ epc[t] = "number" /\ epc' = [epc EXCEPT ![t] = "insert"]
      /\ edraft' = [edraft EXCEPT ![t].version = n]
      /\ UNCHANGED <<erow, emet>>
  <2>1. RowsLike(edraft[t]) = ReportsOf(erow, edraft[t])
    BY ReportVersionsFollow
  <2> QED BY <1>1, <2>1 DEF NextReport
<1>3. PICK r : r = edraft[t] /\ r \in ReportRow
  BY DEF VersionsInv, Numbering
<1>4. PICK s : s = [r EXCEPT !.version = n]
  OBVIOUS
<1>5. edraft' = [edraft EXCEPT ![t] = s]
  BY <1>2, <1>3, <1>4
<1>6. n \in Nat /\ n <= Len(erow) + 1
  <2> DEFINE T == {0} \cup {erow[i].version : i \in ReportsOf(erow, edraft[t])}
  <2>1. PICK m \in Nat : m = Len(erow)
    BY DEF VersionsInv, Numbering
  <2>2. \A i \in 1 .. m : erow[i].version \in 0 .. m
    <3>1. \A i \in 1 .. m : erow[i] \in ReportRow /\ erow[i].version <= m
      BY <2>1 DEF VersionsInv, Numbering
    <3> QED BY <2>1, <3>1 DEF ReportRow
  <2>3. ReportsOf(erow, edraft[t]) \in SUBSET (1 .. m)
    BY <2>1, ReportsOfBounded DEF VersionsInv
  <2>4. T \subseteq 0 .. m /\ 0 \in T
    BY <2>1, <2>2, <2>3
  <2>5. n = 1 + Max(T)
    BY <1>1
  <2> HIDE DEF T
  <2>6. Max(T) \in 0 .. m
    BY <2>1, <2>4, MaxOfBounded
  <2> QED BY <2>1, <2>5, <2>6
<1>7. s \in ReportRow /\ SameReport(s, r) /\ s.version = n
  BY <1>3, <1>4, <1>6 DEF ReportRow, SameReport
<1>8. Numbering'
  <2>1. PICK m \in Nat : m = Len(erow)
    BY DEF VersionsInv, Numbering
  <2> QED BY <1>2, <1>5, <1>6, <1>7, <2>1 DEF VersionsInv, Numbering
<1>9. /\ epc'[t] = "insert" /\ edraft'[t] = s
      /\ \A u \in Thread \ {t} : epc'[u] = epc[u] /\ edraft'[u] = edraft[u]
  BY <1>2, <1>5 DEF VersionsInv, Numbering
<1>10. ReportsOf(erow, s) = ReportsOf(erow, r)
  BY <1>7 DEF ReportsOf, SameReport
<1>11. ~emet => n = Cardinality(ReportsOf(erow, r)) + 1
  <2> SUFFICES ASSUME ~emet PROVE n = Cardinality(ReportsOf(erow, r)) + 1
    OBVIOUS
  <2> DEFINE S == ReportsOf(erow, r)
             v == [i \in S |-> erow[i].version]
  <2>1. S \in SUBSET (1 .. Len(erow)) /\ Len(erow) \in Nat
        /\ DOMAIN erow = 1 .. Len(erow) /\ Cardinality(S) \in Nat
    BY ReportsOfBounded DEF VersionsInv
  <2>2. \A i \in S : ReportsOf(erow, erow[i]) = S
    BY DEF ReportsOf, SameReport
  <2>3. \A i \in S : v[i] = Cardinality({j \in S : j <= i})
    BY <2>1, <2>2 DEF VersionsInv, ReportsCounted
  <2>4. Max({0} \cup {v[i] : i \in S}) = Cardinality(S)
    <3> HIDE DEF S, v
    <3> QED BY <2>1, <2>3, GreatestCountsAll
  <2>5. {v[i] : i \in S} = {erow[i].version : i \in ReportsOf(erow, edraft[t])}
    BY <1>3
  <2>6. n = 1 + Cardinality(S)
    <3> HIDE DEF S, v
    <3> QED BY <1>1, <2>4, <2>5
  <2> QED BY <2>1, <2>6
<1>12. NumbersKnown'
  <2> SUFFICES ASSUME ~emet PROVE NumbersKnown'
    BY <1>2 DEF NumbersKnown
  <2>1. ASSUME NEW v \in Thread, NEW u \in Thread, epc'[v] # "idle",
               epc'[u] # "idle", SameReport(edraft'[v], edraft'[u])
        PROVE  v = u
    <3>1. epc[v] # "idle" /\ epc[u] # "idle"
      BY <1>2, <1>9, <2>1
    <3>2. SameReport(edraft[v], edraft[u])
      BY <1>3, <1>7, <1>9, <2>1 DEF SameReport
    <3> QED BY <3>1, <3>2 DEF VersionsInv, NumbersKnown
  <2>2. ASSUME NEW u \in Thread, epc'[u] = "insert"
        PROVE  edraft'[u].version
                 = Cardinality(ReportsOf(erow', edraft'[u])) + 1
    <3>1. CASE u = t
      <4>1. ReportsOf(erow', s) = ReportsOf(erow, r)
        BY <1>2, <1>10
      <4> QED BY <1>7, <1>9, <1>11, <3>1, <4>1
    <3>2. CASE u # t
      BY <1>2, <1>9, <2>2, <3>2 DEF VersionsInv, NumbersKnown
    <3> QED BY <3>1, <3>2
  <2> QED BY <2>1, <2>2 DEF NumbersKnown, SameReport
<1>13. (~emet' => ReportsCounted(erow'))
  BY <1>2 DEF VersionsInv, ReportsCounted
<1> QED BY <1>8, <1>12, <1>13 DEF VersionsInv

(* A request that ends leaves the others where they are.                   *)
LEMMA EndReportLeaves ==
  ASSUME Numbering, NEW t \in Thread, EndReport(t)
  PROVE  /\ epc' \in [Thread -> {"idle", "number", "insert"}]
         /\ edraft' \in [Thread -> ReportRow] /\ epc'[t] = "idle"
         /\ edraft'[t].version = 0
         /\ \A u \in Thread \ {t} : epc'[u] = epc[u] /\ edraft'[u] = edraft[u]
<1>1. NoRow \in ReportRow /\ NoRow.version = 0
  BY ReportAssumption DEF NoRow, ReportRow
<1> QED BY <1>1 DEF Numbering, EndReport

(* A row more: it is the last of its own, and the others count on.         *)
LEMMA InsertReportKeeps ==
  ASSUME VersionsInv, NEW t \in Thread, InsertReport(t)
  PROVE  VersionsInv'
<1>1. PICK r : r = edraft[t] /\ r \in ReportRow
  BY DEF VersionsInv, Numbering
<1>2. PICK n \in Nat : n = Len(erow)
  BY DEF VersionsInv, Numbering
<1>3. /\ epc[t] = "insert" /\ erow' = Append(erow, r) /\ EndReport(t)
      /\ emet' = emet
  BY <1>1 DEF InsertReport
<1>4. /\ erow' \in Seq(ReportRow) /\ Len(erow') = n + 1 /\ erow'[n + 1] = r
      /\ \A i \in 1 .. n : erow'[i] = erow[i]
      /\ DOMAIN erow = 1 .. n /\ DOMAIN erow' = 1 .. n + 1
  BY <1>1, <1>2, <1>3, AppendProperties DEF VersionsInv, Numbering
<1>5. /\ epc' \in [Thread -> {"idle", "number", "insert"}]
      /\ edraft' \in [Thread -> ReportRow] /\ epc'[t] = "idle"
      /\ edraft'[t].version = 0
      /\ \A u \in Thread \ {t} : epc'[u] = epc[u] /\ edraft'[u] = edraft[u]
  BY <1>3, EndReportLeaves DEF VersionsInv
<1>6. Numbering'
  <2>1. \A i \in 1 .. n : erow[i].version <= n
    BY <1>2 DEF VersionsInv, Numbering
  <2>2. \A u \in Thread : edraft[u].version <= n + 1
    BY <1>2 DEF VersionsInv, Numbering
  <2>3. \A i \in 1 .. n : erow'[i].version <= n + 1
    <3>1. \A i \in 1 .. n : erow[i] \in ReportRow
      BY <1>2 DEF VersionsInv, Numbering
    <3>2. \A i \in 1 .. n : erow[i].version \in Nat
      BY <3>1 DEF ReportRow
    <3>3. ASSUME NEW i \in 1 .. n PROVE erow'[i].version <= n + 1
      <4>1. PICK v \in Nat : v = erow[i].version /\ v = erow'[i].version
        BY <1>4, <3>2
      <4>2. v <= n
        BY <2>1, <4>1
      <4>3. n \in Nat
        BY <1>2
      <4>4. v <= n + 1
        BY <4>2, <4>3
      <4> QED BY <4>1, <4>4
    <3> QED BY <3>3
  <2>4. r.version \in Nat /\ r.version <= n + 1
    BY <1>1, <2>2 DEF ReportRow
  <2>5. \A i \in 1 .. n + 1 : erow'[i].version <= n + 1
    <3>1. \A i \in 1 .. n + 1 : i \in 1 .. n \/ i = n + 1
      BY <1>2
    <3> QED BY <1>4, <2>3, <2>4, <3>1
  <2>6. \A u \in Thread : edraft'[u].version <= n + 1 + 1
    <3>1. \A u \in Thread : edraft[u].version \in Nat
      BY DEF VersionsInv, Numbering, ReportRow
    <3>2. \A u \in Thread : edraft[u].version <= n + 1 + 1
      BY <1>2, <2>2, <3>1
    <3> QED BY <1>2, <1>5, <3>2
  <2> QED BY <1>3, <1>4, <1>5, <2>5, <2>6 DEF VersionsInv, Numbering
<1>7. \A q : ReportsOf(erow', q) =
        IF SameReport(r, q) THEN ReportsOf(erow, q) \cup {n + 1}
                        ELSE ReportsOf(erow, q)
  <2> SUFFICES ASSUME NEW q
               PROVE  ReportsOf(erow', q) =
                        IF SameReport(r, q) THEN ReportsOf(erow, q) \cup {n + 1}
                                        ELSE ReportsOf(erow, q)
    OBVIOUS
  <2>1. ReportsOf(erow', q) = {i \in 1 .. n + 1 : SameReport(erow'[i], q)}
    BY <1>4 DEF ReportsOf, SameReport
  <2>2. ReportsOf(erow, q) = {i \in 1 .. n : SameReport(erow[i], q)}
    BY <1>4 DEF ReportsOf, SameReport
  <2>3. \A i \in 1 .. n : SameReport(erow'[i], q) <=> SameReport(erow[i], q)
    BY <1>4
  <2>4. SameReport(erow'[n + 1], q) <=> SameReport(r, q)
    BY <1>4
  <2>5. \A i : i \in 1 .. n + 1 <=> i \in 1 .. n \/ i = n + 1
    BY <1>2
  <2> HIDE DEF SameReport
  <2> QED BY <2>1, <2>2, <2>3, <2>4, <2>5
<1>8. ~emet => \A u \in Thread : epc'[u] # "idle" =>
        u # t /\ epc[u] # "idle" /\ ~SameReport(r, edraft[u])
  BY <1>1, <1>3, <1>5 DEF VersionsInv, NumbersKnown
<1>9. NumbersKnown'
  <2> SUFFICES ASSUME ~emet PROVE NumbersKnown'
    BY <1>3 DEF NumbersKnown
  <2>1. ASSUME NEW v \in Thread, NEW u \in Thread, epc'[v] # "idle",
               epc'[u] # "idle", SameReport(edraft'[v], edraft'[u])
        PROVE  v = u
    BY <1>5, <1>8, <2>1 DEF VersionsInv, NumbersKnown
  <2>2. ASSUME NEW u \in Thread, epc'[u] = "insert"
        PROVE  edraft'[u].version
                 = Cardinality(ReportsOf(erow', edraft'[u])) + 1
    <3>1. u # t /\ edraft'[u] = edraft[u] /\ ~SameReport(r, edraft[u])
          /\ epc[u] = "insert"
      BY <1>5, <1>8, <2>2
    <3>2. ReportsOf(erow', edraft'[u]) = ReportsOf(erow, edraft[u])
      BY <1>7, <3>1
    <3> QED BY <3>1, <3>2 DEF VersionsInv, NumbersKnown
  <2> QED BY <2>1, <2>2 DEF NumbersKnown, SameReport
<1>10. (~emet' => ReportsCounted(erow'))
  <2> SUFFICES ASSUME ~emet, NEW i \in 1 .. n + 1
               PROVE  erow'[i].version =
                        Cardinality({j \in ReportsOf(erow', erow'[i]) : j <= i})
    BY <1>3, <1>4 DEF ReportsCounted
  <2>1. \A q : ReportsOf(erow, q) \in SUBSET (1 .. n)
    BY <1>2, ReportsOfBounded DEF VersionsInv
  <2>2. CASE i = n + 1
    <3>1. ReportsOf(erow', erow'[i]) = ReportsOf(erow, r) \cup {n + 1}
      BY <1>4, <1>7, <2>2 DEF SameReport
    <3>2. {j \in ReportsOf(erow, r) \cup {n + 1} : j <= n + 1}
            = ReportsOf(erow, r) \cup {n + 1}
      BY <1>2, <2>1, OneMoreCounted
    <3>3. Cardinality(ReportsOf(erow, r) \cup {n + 1})
            = Cardinality(ReportsOf(erow, r)) + 1
      BY <1>2, <2>1, OneMoreCounted
    <3>4. r.version = Cardinality(ReportsOf(erow, r)) + 1
      BY <1>1, <1>3 DEF VersionsInv, NumbersKnown
    <3> QED BY <1>4, <2>2, <3>1, <3>2, <3>3, <3>4
  <2>3. CASE i \in 1 .. n
    <3>1. PICK q : q = erow[i] /\ q = erow'[i]
      BY <1>4, <2>3
    <3>2. q.version = Cardinality({j \in ReportsOf(erow, q) : j <= i})
      BY <1>4, <2>3, <3>1 DEF VersionsInv, ReportsCounted
    <3>3. {j \in ReportsOf(erow, q) \cup {n + 1} : j <= i}
            = {j \in ReportsOf(erow, q) : j <= i}
      BY <1>2, <2>1, <2>3, OneMoreCounted
    <3>4. {j \in ReportsOf(erow', q) : j <= i}
            = {j \in ReportsOf(erow, q) : j <= i}
      BY <1>7, <3>3
    <3> QED BY <3>1, <3>2, <3>4
  <2> QED BY <1>2, <2>2, <2>3
<1> QED BY <1>6, <1>9, <1>10 DEF VersionsInv

(* A request that is lost had nothing stored.                              *)
LEMMA LoseReportKeeps ==
  ASSUME VersionsInv, NEW t \in Thread, LoseReport(t)
  PROVE  VersionsInv'
<1>1. EndReport(t) /\ UNCHANGED <<erow, emet>>
  BY DEF LoseReport
<1>2. /\ epc' \in [Thread -> {"idle", "number", "insert"}]
      /\ edraft' \in [Thread -> ReportRow] /\ epc'[t] = "idle"
      /\ edraft'[t].version = 0
      /\ \A u \in Thread \ {t} : epc'[u] = epc[u] /\ edraft'[u] = edraft[u]
  BY <1>1, EndReportLeaves DEF VersionsInv
<1>3. Numbering'
  <2>1. Len(erow) \in Nat
    BY DEF VersionsInv, Numbering
  <2> QED BY <1>1, <1>2, <2>1 DEF VersionsInv, Numbering
<1>4. NumbersKnown'
  <2> SUFFICES ASSUME ~emet PROVE NumbersKnown'
    BY <1>1 DEF NumbersKnown
  <2>1. ASSUME NEW v \in Thread, NEW u \in Thread, epc'[v] # "idle",
               epc'[u] # "idle", SameReport(edraft'[v], edraft'[u])
        PROVE  v = u
    BY <1>2, <2>1 DEF VersionsInv, NumbersKnown
  <2>2. ASSUME NEW u \in Thread, epc'[u] = "insert"
        PROVE  edraft'[u].version
                 = Cardinality(ReportsOf(erow', edraft'[u])) + 1
    BY <1>1, <1>2, <2>2 DEF VersionsInv, NumbersKnown
  <2> QED BY <2>1, <2>2 DEF NumbersKnown, SameReport
<1>5. (~emet' => ReportsCounted(erow'))
  BY <1>1 DEF VersionsInv, ReportsCounted
<1> QED BY <1>3, <1>4, <1>5 DEF VersionsInv

(* There are no reports at first.                                          *)
LEMMA ReportsStart == EInit => VersionsInv
<1> SUFFICES ASSUME EInit PROVE VersionsInv
  OBVIOUS
<1>1. NoRow \in ReportRow /\ NoRow.version = 0
  BY ReportAssumption DEF NoRow, ReportRow
<1>2. erow = <<>> /\ erow \in Seq(ReportRow) /\ Len(erow) = 0 /\ 1 .. 0 = {}
      /\ DOMAIN erow = {}
  BY DEF EInit
<1>3. Numbering
  <2>1. /\ emet \in BOOLEAN
        /\ epc \in [Thread -> {"idle", "number", "insert"}]
        /\ edraft \in [Thread -> ReportRow]
        /\ \A t \in Thread : edraft[t].version = 0
    BY <1>1 DEF EInit
  <2> QED BY <1>2, <2>1 DEF Numbering
<1>4. NumbersKnown /\ ReportsCounted(erow)
  BY <1>2 DEF EInit, NumbersKnown, ReportsCounted
<1> QED BY <1>3, <1>4 DEF VersionsInv

(* Every request keeps the numbers, or has met another.                    *)
LEMMA ReportsStep == VersionsInv /\ [ENext]_evars => VersionsInv'
<1> SUFFICES ASSUME VersionsInv, [ENext]_evars PROVE VersionsInv'
  OBVIOUS
<1>1. ASSUME NEW t \in Thread, NEW target \in Targets,
             NEW kos \in {{}} \cup {{m} : m \in Measures},
             NEW options \in {NoOptions} \cup Options,
             Analyze(t, target[1], target[2], kos, options)
      PROVE  VersionsInv'
  <2>1. PICK r : r = [engine |-> target[1], scope |-> target[2],
                      version |-> 0, input |-> kos, options |-> options]
    OBVIOUS
  <2>2. target[2] \in Nat /\ kos \subseteq Measures
    BY ReportAssumption
  <2>3. /\ r \in ReportRow /\ r.version = 0
        /\ r.engine = target[1] /\ r.scope = target[2]
    BY <2>1, <2>2 DEF ReportRow
  <2>4. /\ epc[t] = "idle" /\ epc' = [epc EXCEPT ![t] = "number"]
        /\ edraft' = [edraft EXCEPT ![t] = r] /\ erow' = erow
        /\ emet' = (emet \/ \E u \in Thread : /\ edraft[u].engine = r.engine
                                              /\ edraft[u].scope = r.scope)
    BY <1>1, <2>1, <2>3 DEF Analyze
  <2> QED BY <2>3, <2>4, AnalysisKeeps
<1>2. ASSUME NEW t \in Thread, NextReport(t) PROVE VersionsInv'
  BY <1>2, NextReportKeeps
<1>3. ASSUME NEW t \in Thread, InsertReport(t) PROVE VersionsInv'
  BY <1>3, InsertReportKeeps
<1>4. ASSUME NEW t \in Thread, LoseReport(t) PROVE VersionsInv'
  BY <1>4, LoseReportKeeps
<1>5. CASE UNCHANGED evars
  BY <1>5
    DEF evars, VersionsInv, Numbering, NumbersKnown, SameReport,
        ReportsCounted
<1> QED BY <1>1, <1>2, <1>3, <1>4, <1>5 DEF ENext

(* Whatever requests overlap or are lost, as long as no two of an engine   *)
(* and scope were under way at once, the version of each row counts the    *)
(* rows of its own up to itself.                                           *)
THEOREM ReportVersionsCount == ESpec => []ReportVersions
BY ReportsStart, ReportsStep, ReportVersionsFollow, PTL DEF ESpec

-----------------------------------------------------------------------------
(* Reports of the growth modules.                                          *)

(* A number taken while nobody else is at work on the scope is the next.   *)
GrowthNumbering ==
  /\ grow \in Seq(Row) /\ gmet \in BOOLEAN
  /\ grpc \in [Thread -> {"idle", "number", "insert"}]
  /\ gdraft \in [Thread -> Row]
  /\ \A i \in 1 .. Len(grow) : grow[i].version <= Len(grow)
  /\ \A t \in Thread : gdraft[t].version <= Len(grow) + 1
SameGrowth(a, b) == a.kind = b.kind /\ a.scope = b.scope
GrowthOf(rows, entry) == {i \in DOMAIN rows : SameGrowth(rows[i], entry)}
GrowthCounted(rows) == \A i \in DOMAIN rows :
  rows[i].version = Cardinality({j \in GrowthOf(rows, rows[i]) : j <= i})
GrowthKnown ==
  ~gmet =>
    /\ \A t, u \in Thread :
         grpc[t] # "idle" /\ grpc[u] # "idle"
           /\ SameGrowth(gdraft[t], gdraft[u]) => t = u
    /\ \A t \in Thread : grpc[t] = "insert" =>
         gdraft[t].version = Cardinality(GrowthOf(grow, gdraft[t])) + 1
GrowthInv == GrowthNumbering /\ GrowthKnown /\ (~gmet => GrowthCounted(grow))

(* The rows are counted by scope.                                          *)
LEMMA GrowthVersionsFollow ==
  /\ \A r : Alike(r) = GrowthOf(grow, r)
  /\ GrowthInv => GrowthVersions
<1>1. \A r : Alike(r) = GrowthOf(grow, r)
  BY DEF Alike, GrowthOf, SameGrowth
<1>2. ASSUME GrowthInv, ~gmet, NEW i \in DOMAIN grow
      PROVE  grow[i].version = Cardinality({j \in Alike(grow[i]) : j <= i})
  <2>1. grow[i].version = Cardinality({j \in GrowthOf(grow, grow[i]) : j <= i})
    BY <1>2 DEF GrowthInv, GrowthCounted
  <2> QED BY <1>1, <2>1
<1> QED BY <1>1, <1>2 DEF GrowthVersions

(* There are finitely many of them.                                        *)
LEMMA GrowthOfBounded ==
  ASSUME GrowthNumbering, NEW r
  PROVE  /\ Len(grow) \in Nat /\ DOMAIN grow = 1 .. Len(grow)
         /\ GrowthOf(grow, r) \in SUBSET (1 .. Len(grow))
         /\ Cardinality(GrowthOf(grow, r)) \in Nat
<1>1. Len(grow) \in Nat /\ DOMAIN grow = 1 .. Len(grow)
  BY DEF GrowthNumbering
<1>2. PICK S : S = GrowthOf(grow, r)
  OBVIOUS
<1>3. S \in SUBSET (1 .. Len(grow))
  BY <1>1, <1>2 DEF GrowthOf
<1>4. Cardinality(S) \in Nat
  <2>1. IsFiniteSet(1 .. Len(grow))
    BY <1>1, FS_Interval
  <2> QED BY <1>3, <2>1, FS_Subset, FS_CardinalityType
<1> QED BY <1>1, <1>2, <1>3, <1>4

(* An analysis begins, or meets another.                                   *)
LEMMA GrowthAnalysisKeeps ==
  ASSUME GrowthInv, NEW t \in Thread, NEW r \in Row, r.version = 0,
         grpc[t] = "idle", grpc' = [grpc EXCEPT ![t] = "number"],
         gdraft' = [gdraft EXCEPT ![t] = r],
         gmet' = (gmet \/ \E u \in Thread : /\ gdraft[u].kind = r.kind
                                            /\ gdraft[u].scope = r.scope),
         grow' = grow
  PROVE  GrowthInv'
<1>1. GrowthNumbering'
  <2>1. Len(grow) \in Nat
    BY DEF GrowthInv, GrowthNumbering
  <2> QED BY <2>1 DEF GrowthInv, GrowthNumbering
<1>2. /\ grpc'[t] = "number" /\ gdraft'[t] = r
      /\ \A u \in Thread \ {t} : grpc'[u] = grpc[u] /\ gdraft'[u] = gdraft[u]
  BY DEF GrowthInv, GrowthNumbering
<1>3. gmet' = FALSE => ~gmet /\ \A u \in Thread : ~SameGrowth(gdraft[u], r)
  BY DEF SameGrowth, GrowthInv, GrowthNumbering
<1>4. GrowthKnown'
  <2> SUFFICES ASSUME ~gmet' PROVE GrowthKnown'
    BY DEF GrowthKnown
  <2>1. ~gmet /\ \A u \in Thread :
          ~SameGrowth(gdraft[u], r) /\ ~SameGrowth(r, gdraft[u])
    BY <1>3 DEF SameGrowth
  <2>2. ASSUME NEW v \in Thread, NEW u \in Thread, grpc'[v] # "idle",
               grpc'[u] # "idle", SameGrowth(gdraft'[v], gdraft'[u])
        PROVE  v = u
    <3>1. CASE v # t /\ u # t
      BY <1>2, <2>1, <2>2, <3>1 DEF GrowthInv, GrowthKnown
    <3>2. CASE v = t /\ u # t
      BY <1>2, <2>1, <2>2, <3>2
    <3>3. CASE v # t /\ u = t
      BY <1>2, <2>1, <2>2, <3>3
    <3> QED BY <3>1, <3>2, <3>3
  <2>3. ASSUME NEW u \in Thread, grpc'[u] = "insert"
        PROVE  gdraft'[u].version
                 = Cardinality(GrowthOf(grow', gdraft'[u])) + 1
    <3>1. u # t
      BY <1>2, <2>3
    <3> QED BY <1>2, <2>1, <2>3, <3>1 DEF GrowthInv, GrowthKnown
  <2> QED BY <2>2, <2>3 DEF GrowthKnown, SameGrowth
<1>5. (~gmet' => GrowthCounted(grow'))
  BY <1>3 DEF GrowthInv, GrowthCounted
<1> QED BY <1>1, <1>4, <1>5 DEF GrowthInv

(* The number is one more than the greatest, and so one more than there    *)
(* are rows.                                                               *)
LEMMA NumberGrowthKeeps ==
  ASSUME GrowthInv, NEW t \in Thread, NumberGrowth(t)
  PROVE  GrowthInv'
<1>1. PICK n : n =
        1 + Max({0} \cup {grow[i].version : i \in GrowthOf(grow, gdraft[t])})
  OBVIOUS
<1>2. /\ grpc[t] = "number" /\ grpc' = [grpc EXCEPT ![t] = "insert"]
      /\ gdraft' = [gdraft EXCEPT ![t].version = n]
      /\ UNCHANGED <<grow, gmet>>
  <2>1. Alike(gdraft[t]) = GrowthOf(grow, gdraft[t])
    BY GrowthVersionsFollow
  <2> QED BY <1>1, <2>1 DEF NumberGrowth
<1>3. PICK r : r = gdraft[t] /\ r \in Row
  BY DEF GrowthInv, GrowthNumbering
<1>4. PICK s : s = [r EXCEPT !.version = n]
  OBVIOUS
<1>5. gdraft' = [gdraft EXCEPT ![t] = s]
  BY <1>2, <1>3, <1>4
<1>6. n \in Nat /\ n <= Len(grow) + 1
  <2> DEFINE T == {0} \cup {grow[i].version : i \in GrowthOf(grow, gdraft[t])}
  <2>1. PICK m \in Nat : m = Len(grow)
    BY DEF GrowthInv, GrowthNumbering
  <2>2. \A i \in 1 .. m : grow[i].version \in 0 .. m
    <3>1. \A i \in 1 .. m : grow[i] \in Row /\ grow[i].version <= m
      BY <2>1 DEF GrowthInv, GrowthNumbering
    <3> QED BY <2>1, <3>1 DEF Row
  <2>3. GrowthOf(grow, gdraft[t]) \in SUBSET (1 .. m)
    BY <2>1, GrowthOfBounded DEF GrowthInv
  <2>4. T \subseteq 0 .. m /\ 0 \in T
    BY <2>1, <2>2, <2>3
  <2>5. n = 1 + Max(T)
    BY <1>1
  <2> HIDE DEF T
  <2>6. Max(T) \in 0 .. m
    BY <2>1, <2>4, MaxOfBounded
  <2> QED BY <2>1, <2>5, <2>6
<1>7. s \in Row /\ SameGrowth(s, r) /\ s.version = n
  BY <1>3, <1>4, <1>6 DEF Row, SameGrowth
<1>8. GrowthNumbering'
  <2>1. PICK m \in Nat : m = Len(grow)
    BY DEF GrowthInv, GrowthNumbering
  <2> QED BY <1>2, <1>5, <1>6, <1>7, <2>1 DEF GrowthInv, GrowthNumbering
<1>9. /\ grpc'[t] = "insert" /\ gdraft'[t] = s
      /\ \A u \in Thread \ {t} : grpc'[u] = grpc[u] /\ gdraft'[u] = gdraft[u]
  BY <1>2, <1>5 DEF GrowthInv, GrowthNumbering
<1>10. GrowthOf(grow, s) = GrowthOf(grow, r)
  BY <1>7 DEF GrowthOf, SameGrowth
<1>11. ~gmet => n = Cardinality(GrowthOf(grow, r)) + 1
  <2> SUFFICES ASSUME ~gmet PROVE n = Cardinality(GrowthOf(grow, r)) + 1
    OBVIOUS
  <2> DEFINE S == GrowthOf(grow, r)
             v == [i \in S |-> grow[i].version]
  <2>1. S \in SUBSET (1 .. Len(grow)) /\ Len(grow) \in Nat
        /\ DOMAIN grow = 1 .. Len(grow) /\ Cardinality(S) \in Nat
    BY GrowthOfBounded DEF GrowthInv
  <2>2. \A i \in S : GrowthOf(grow, grow[i]) = S
    BY DEF GrowthOf, SameGrowth
  <2>3. \A i \in S : v[i] = Cardinality({j \in S : j <= i})
    BY <2>1, <2>2 DEF GrowthInv, GrowthCounted
  <2>4. Max({0} \cup {v[i] : i \in S}) = Cardinality(S)
    <3> HIDE DEF S, v
    <3> QED BY <2>1, <2>3, GreatestCountsAll
  <2>5. {v[i] : i \in S} = {grow[i].version : i \in GrowthOf(grow, gdraft[t])}
    BY <1>3
  <2>6. n = 1 + Cardinality(S)
    <3> HIDE DEF S, v
    <3> QED BY <1>1, <2>4, <2>5
  <2> QED BY <2>1, <2>6
<1>12. GrowthKnown'
  <2> SUFFICES ASSUME ~gmet PROVE GrowthKnown'
    BY <1>2 DEF GrowthKnown
  <2>1. ASSUME NEW v \in Thread, NEW u \in Thread, grpc'[v] # "idle",
               grpc'[u] # "idle", SameGrowth(gdraft'[v], gdraft'[u])
        PROVE  v = u
    <3>1. grpc[v] # "idle" /\ grpc[u] # "idle"
      BY <1>2, <1>9, <2>1
    <3>2. SameGrowth(gdraft[v], gdraft[u])
      BY <1>3, <1>7, <1>9, <2>1 DEF SameGrowth
    <3> QED BY <3>1, <3>2 DEF GrowthInv, GrowthKnown
  <2>2. ASSUME NEW u \in Thread, grpc'[u] = "insert"
        PROVE  gdraft'[u].version
                 = Cardinality(GrowthOf(grow', gdraft'[u])) + 1
    <3>1. CASE u = t
      <4>1. GrowthOf(grow', s) = GrowthOf(grow, r)
        BY <1>2, <1>10
      <4> QED BY <1>7, <1>9, <1>11, <3>1, <4>1
    <3>2. CASE u # t
      BY <1>2, <1>9, <2>2, <3>2 DEF GrowthInv, GrowthKnown
    <3> QED BY <3>1, <3>2
  <2> QED BY <2>1, <2>2 DEF GrowthKnown, SameGrowth
<1>13. (~gmet' => GrowthCounted(grow'))
  BY <1>2 DEF GrowthInv, GrowthCounted
<1> QED BY <1>8, <1>12, <1>13 DEF GrowthInv

(* A request that ends leaves the others where they are.                   *)
LEMMA GrEndLeaves ==
  ASSUME GrowthNumbering, NEW t \in Thread, GrEnd(t)
  PROVE  /\ grpc' \in [Thread -> {"idle", "number", "insert"}]
         /\ gdraft' \in [Thread -> Row] /\ grpc'[t] = "idle"
         /\ gdraft'[t].version = 0
         /\ \A u \in Thread \ {t} : grpc'[u] = grpc[u] /\ gdraft'[u] = gdraft[u]
<1>1. NoReport \in Row /\ NoReport.version = 0
  BY DEF NoReport, Row, Inputs, Kind
<1> QED BY <1>1 DEF GrowthNumbering, GrEnd

(* A row more: it is the last of its own, and the others count on.         *)
LEMMA InsertGrowthKeeps ==
  ASSUME GrowthInv, NEW t \in Thread, InsertGrowth(t)
  PROVE  GrowthInv'
<1>1. PICK r : r = gdraft[t] /\ r \in Row
  BY DEF GrowthInv, GrowthNumbering
<1>2. PICK n \in Nat : n = Len(grow)
  BY DEF GrowthInv, GrowthNumbering
<1>3. /\ grpc[t] = "insert" /\ grow' = Append(grow, r) /\ GrEnd(t)
      /\ gmet' = gmet
  BY <1>1 DEF InsertGrowth
<1>4. /\ grow' \in Seq(Row) /\ Len(grow') = n + 1 /\ grow'[n + 1] = r
      /\ \A i \in 1 .. n : grow'[i] = grow[i]
      /\ DOMAIN grow = 1 .. n /\ DOMAIN grow' = 1 .. n + 1
  BY <1>1, <1>2, <1>3, AppendProperties DEF GrowthInv, GrowthNumbering
<1>5. /\ grpc' \in [Thread -> {"idle", "number", "insert"}]
      /\ gdraft' \in [Thread -> Row] /\ grpc'[t] = "idle"
      /\ gdraft'[t].version = 0
      /\ \A u \in Thread \ {t} : grpc'[u] = grpc[u] /\ gdraft'[u] = gdraft[u]
  BY <1>3, GrEndLeaves DEF GrowthInv
<1>6. GrowthNumbering'
  <2>1. \A i \in 1 .. n : grow[i].version <= n
    BY <1>2 DEF GrowthInv, GrowthNumbering
  <2>2. \A u \in Thread : gdraft[u].version <= n + 1
    BY <1>2 DEF GrowthInv, GrowthNumbering
  <2>3. \A i \in 1 .. n : grow'[i].version <= n + 1
    <3>1. \A i \in 1 .. n : grow[i] \in Row
      BY <1>2 DEF GrowthInv, GrowthNumbering
    <3>2. \A i \in 1 .. n : grow[i].version \in Nat
      BY <3>1 DEF Row
    <3>3. ASSUME NEW i \in 1 .. n PROVE grow'[i].version <= n + 1
      <4>1. PICK v \in Nat : v = grow[i].version /\ v = grow'[i].version
        BY <1>4, <3>2
      <4>2. v <= n
        BY <2>1, <4>1
      <4>3. n \in Nat
        BY <1>2
      <4>4. v <= n + 1
        BY <4>2, <4>3
      <4> QED BY <4>1, <4>4
    <3> QED BY <3>3
  <2>4. r.version \in Nat /\ r.version <= n + 1
    BY <1>1, <2>2 DEF Row
  <2>5. \A i \in 1 .. n + 1 : grow'[i].version <= n + 1
    <3>1. \A i \in 1 .. n + 1 : i \in 1 .. n \/ i = n + 1
      BY <1>2
    <3> QED BY <1>4, <2>3, <2>4, <3>1
  <2>6. \A u \in Thread : gdraft'[u].version <= n + 1 + 1
    <3>1. \A u \in Thread : gdraft[u].version \in Nat
      BY DEF GrowthInv, GrowthNumbering, Row
    <3>2. \A u \in Thread : gdraft[u].version <= n + 1 + 1
      BY <1>2, <2>2, <3>1
    <3> QED BY <1>2, <1>5, <3>2
  <2> QED BY <1>3, <1>4, <1>5, <2>5, <2>6 DEF GrowthInv, GrowthNumbering
<1>7. \A q : GrowthOf(grow', q) =
        IF SameGrowth(r, q) THEN GrowthOf(grow, q) \cup {n + 1}
                        ELSE GrowthOf(grow, q)
  <2> SUFFICES ASSUME NEW q
               PROVE  GrowthOf(grow', q) =
                        IF SameGrowth(r, q) THEN GrowthOf(grow, q) \cup {n + 1}
                                        ELSE GrowthOf(grow, q)
    OBVIOUS
  <2>1. GrowthOf(grow', q) = {i \in 1 .. n + 1 : SameGrowth(grow'[i], q)}
    BY <1>4 DEF GrowthOf, SameGrowth
  <2>2. GrowthOf(grow, q) = {i \in 1 .. n : SameGrowth(grow[i], q)}
    BY <1>4 DEF GrowthOf, SameGrowth
  <2>3. \A i \in 1 .. n : SameGrowth(grow'[i], q) <=> SameGrowth(grow[i], q)
    BY <1>4
  <2>4. SameGrowth(grow'[n + 1], q) <=> SameGrowth(r, q)
    BY <1>4
  <2>5. \A i : i \in 1 .. n + 1 <=> i \in 1 .. n \/ i = n + 1
    BY <1>2
  <2> HIDE DEF SameGrowth
  <2> QED BY <2>1, <2>2, <2>3, <2>4, <2>5
<1>8. ~gmet => \A u \in Thread : grpc'[u] # "idle" =>
        u # t /\ grpc[u] # "idle" /\ ~SameGrowth(r, gdraft[u])
  BY <1>1, <1>3, <1>5 DEF GrowthInv, GrowthKnown
<1>9. GrowthKnown'
  <2> SUFFICES ASSUME ~gmet PROVE GrowthKnown'
    BY <1>3 DEF GrowthKnown
  <2>1. ASSUME NEW v \in Thread, NEW u \in Thread, grpc'[v] # "idle",
               grpc'[u] # "idle", SameGrowth(gdraft'[v], gdraft'[u])
        PROVE  v = u
    BY <1>5, <1>8, <2>1 DEF GrowthInv, GrowthKnown
  <2>2. ASSUME NEW u \in Thread, grpc'[u] = "insert"
        PROVE  gdraft'[u].version
                 = Cardinality(GrowthOf(grow', gdraft'[u])) + 1
    <3>1. u # t /\ gdraft'[u] = gdraft[u] /\ ~SameGrowth(r, gdraft[u])
          /\ grpc[u] = "insert"
      BY <1>5, <1>8, <2>2
    <3>2. GrowthOf(grow', gdraft'[u]) = GrowthOf(grow, gdraft[u])
      BY <1>7, <3>1
    <3> QED BY <3>1, <3>2 DEF GrowthInv, GrowthKnown
  <2> QED BY <2>1, <2>2 DEF GrowthKnown, SameGrowth
<1>10. (~gmet' => GrowthCounted(grow'))
  <2> SUFFICES ASSUME ~gmet, NEW i \in 1 .. n + 1
               PROVE  grow'[i].version =
                        Cardinality({j \in GrowthOf(grow', grow'[i]) : j <= i})
    BY <1>3, <1>4 DEF GrowthCounted
  <2>1. \A q : GrowthOf(grow, q) \in SUBSET (1 .. n)
    BY <1>2, GrowthOfBounded DEF GrowthInv
  <2>2. CASE i = n + 1
    <3>1. GrowthOf(grow', grow'[i]) = GrowthOf(grow, r) \cup {n + 1}
      BY <1>4, <1>7, <2>2 DEF SameGrowth
    <3>2. {j \in GrowthOf(grow, r) \cup {n + 1} : j <= n + 1}
            = GrowthOf(grow, r) \cup {n + 1}
      BY <1>2, <2>1, OneMoreCounted
    <3>3. Cardinality(GrowthOf(grow, r) \cup {n + 1})
            = Cardinality(GrowthOf(grow, r)) + 1
      BY <1>2, <2>1, OneMoreCounted
    <3>4. r.version = Cardinality(GrowthOf(grow, r)) + 1
      BY <1>1, <1>3 DEF GrowthInv, GrowthKnown
    <3> QED BY <1>4, <2>2, <3>1, <3>2, <3>3, <3>4
  <2>3. CASE i \in 1 .. n
    <3>1. PICK q : q = grow[i] /\ q = grow'[i]
      BY <1>4, <2>3
    <3>2. q.version = Cardinality({j \in GrowthOf(grow, q) : j <= i})
      BY <1>4, <2>3, <3>1 DEF GrowthInv, GrowthCounted
    <3>3. {j \in GrowthOf(grow, q) \cup {n + 1} : j <= i}
            = {j \in GrowthOf(grow, q) : j <= i}
      BY <1>2, <2>1, <2>3, OneMoreCounted
    <3>4. {j \in GrowthOf(grow', q) : j <= i}
            = {j \in GrowthOf(grow, q) : j <= i}
      BY <1>7, <3>3
    <3> QED BY <3>1, <3>2, <3>4
  <2> QED BY <1>2, <2>2, <2>3
<1> QED BY <1>6, <1>9, <1>10 DEF GrowthInv

(* A request that is lost had nothing stored.                              *)
LEMMA LoseGrowthKeeps ==
  ASSUME GrowthInv, NEW t \in Thread, LoseGrowth(t)
  PROVE  GrowthInv'
<1>1. GrEnd(t) /\ UNCHANGED <<grow, gmet>>
  BY DEF LoseGrowth
<1>2. /\ grpc' \in [Thread -> {"idle", "number", "insert"}]
      /\ gdraft' \in [Thread -> Row] /\ grpc'[t] = "idle"
      /\ gdraft'[t].version = 0
      /\ \A u \in Thread \ {t} : grpc'[u] = grpc[u] /\ gdraft'[u] = gdraft[u]
  BY <1>1, GrEndLeaves DEF GrowthInv
<1>3. GrowthNumbering'
  <2>1. Len(grow) \in Nat
    BY DEF GrowthInv, GrowthNumbering
  <2> QED BY <1>1, <1>2, <2>1 DEF GrowthInv, GrowthNumbering
<1>4. GrowthKnown'
  <2> SUFFICES ASSUME ~gmet PROVE GrowthKnown'
    BY <1>1 DEF GrowthKnown
  <2>1. ASSUME NEW v \in Thread, NEW u \in Thread, grpc'[v] # "idle",
               grpc'[u] # "idle", SameGrowth(gdraft'[v], gdraft'[u])
        PROVE  v = u
    BY <1>2, <2>1 DEF GrowthInv, GrowthKnown
  <2>2. ASSUME NEW u \in Thread, grpc'[u] = "insert"
        PROVE  gdraft'[u].version
                 = Cardinality(GrowthOf(grow', gdraft'[u])) + 1
    BY <1>1, <1>2, <2>2 DEF GrowthInv, GrowthKnown
  <2> QED BY <2>1, <2>2 DEF GrowthKnown, SameGrowth
<1>5. (~gmet' => GrowthCounted(grow'))
  BY <1>1 DEF GrowthInv, GrowthCounted
<1> QED BY <1>3, <1>4, <1>5 DEF GrowthInv

(* There are no growth reports at first.                                   *)
LEMMA GrowthStart == GrInit => GrowthInv
<1> SUFFICES ASSUME GrInit PROVE GrowthInv
  OBVIOUS
<1>1. NoReport \in Row /\ NoReport.version = 0
  BY DEF NoReport, Row, Inputs, Kind
<1>2. grow = <<>> /\ grow \in Seq(Row) /\ Len(grow) = 0 /\ 1 .. 0 = {}
      /\ DOMAIN grow = {}
  BY DEF GrInit
<1>3. GrowthNumbering
  <2>1. /\ gmet \in BOOLEAN
        /\ grpc \in [Thread -> {"idle", "number", "insert"}]
        /\ gdraft \in [Thread -> Row]
        /\ \A t \in Thread : gdraft[t].version = 0
    BY <1>1 DEF GrInit
  <2> QED BY <1>2, <2>1 DEF GrowthNumbering
<1>4. GrowthKnown /\ GrowthCounted(grow)
  BY <1>2 DEF GrInit, GrowthKnown, GrowthCounted
<1> QED BY <1>3, <1>4 DEF GrowthInv

(* Every request keeps the numbers, or has met another.                    *)
LEMMA GrowthStep == GrowthInv /\ [GrNext]_grvars => GrowthInv'
<1> SUFFICES ASSUME GrowthInv, [GrNext]_grvars PROVE GrowthInv'
  OBVIOUS
<1>1. ASSUME NEW t \in Thread, NEW sort \in Kind, NEW scope \in {1, 2},
             NEW input \in Inputs(sort), AnalyzeGrowth(t, sort, scope, input)
      PROVE  GrowthInv'
  <2>1. PICK r : r = [kind |-> sort, scope |-> scope,
                      version |-> 0, input |-> input]
    OBVIOUS
  <2>2. /\ r \in Row /\ r.version = 0
        /\ r.kind = sort /\ r.scope = scope
    BY <2>1 DEF Row
  <2>3. /\ grpc[t] = "idle" /\ grpc' = [grpc EXCEPT ![t] = "number"]
        /\ gdraft' = [gdraft EXCEPT ![t] = r] /\ grow' = grow
        /\ gmet' = (gmet \/ \E u \in Thread : /\ gdraft[u].kind = r.kind
                                              /\ gdraft[u].scope = r.scope)
    BY <1>1, <2>1, <2>2 DEF AnalyzeGrowth
  <2> QED BY <2>2, <2>3, GrowthAnalysisKeeps
<1>2. ASSUME NEW t \in Thread, NumberGrowth(t) PROVE GrowthInv'
  BY <1>2, NumberGrowthKeeps
<1>3. ASSUME NEW t \in Thread, InsertGrowth(t) PROVE GrowthInv'
  BY <1>3, InsertGrowthKeeps
<1>4. ASSUME NEW t \in Thread, LoseGrowth(t) PROVE GrowthInv'
  BY <1>4, LoseGrowthKeeps
<1>5. CASE UNCHANGED grvars
  BY <1>5
    DEF grvars, GrowthInv, GrowthNumbering, GrowthKnown, SameGrowth,
        GrowthCounted
<1> QED BY <1>1, <1>2, <1>3, <1>4, <1>5 DEF GrNext

(* Whatever requests overlap or are lost, as long as no two of a kind      *)
(* and scope were under way at once, the version of each row counts the    *)
(* rows of its own up to itself.                                           *)
THEOREM GrowthVersionsCount == GrSpec => []GrowthVersions
BY GrowthStart, GrowthStep, GrowthVersionsFollow, PTL DEF GrSpec

-----------------------------------------------------------------------------
(* What the reports say.                                                   *)

(* The mean by weight is zero without evidence, and within it otherwise.   *)
Evidence(c) == {c[n].value : n \in {m \in DOMAIN c : c[m].complete > 0}}
Scored(c) ==
  /\ IsFiniteSet(DOMAIN c)
  /\ \A n \in DOMAIN c : /\ c[n].value \in Int /\ c[n].complete \in Nat
                         /\ c[n].weight \in Nat \ {0}

(* The overall score is between those of the components with evidence.     *)
LEMMA OverallAverages ==
  ASSUME NEW c, Scored(c)
  PROVE  IF Evidence(c) = {} THEN WeightedOverall(c) = 0
         ELSE WeightedOverall(c) \in Min(Evidence(c)) .. Max(Evidence(c))
<1> DEFINE D == DOMAIN c
           weight == [n \in D |-> c[n].weight * c[n].complete]
           worth == [n \in D |-> weight[n] * c[n].value]
           total == SumFunctionOnSet(weight, D)
           sum == SumFunctionOnSet(worth, D)
           E == Evidence(c)
<1>1. IsFiniteSet(D)
  BY DEF Scored
<1>2. ASSUME NEW n \in D
      PROVE  /\ c[n].value \in Int /\ c[n].complete \in Nat
             /\ weight[n] \in Nat /\ worth[n] \in Int
             /\ worth[n] = weight[n] * c[n].value
             /\ (weight[n] = 0) <=> ~(c[n].complete > 0)
  <2>1. PICK v \in Int, k \in Nat, w \in Nat \ {0} :
          v = c[n].value /\ k = c[n].complete /\ w = c[n].weight
    BY DEF Scored
  <2>2. weight[n] = w * k /\ worth[n] = (w * k) * v
    BY <2>1
  <2>3. w * k \in Nat /\ (w * k) * v \in Int
    BY <2>1
  <2>4. (w * k = 0) <=> ~(k > 0)
    <3>1. k > 0 => w * k > 0
      BY <2>1
    <3>2. k = 0 => w * k = 0
      BY <2>1
    <3> QED BY <2>1, <3>1, <3>2
  <2> QED BY <2>1, <2>2, <2>3, <2>4
<1>3. weight \in [D -> Nat] /\ weight \in [D -> Int] /\ worth \in [D -> Int]
  BY <1>2
<1>4. /\ total = 0 => WeightedOverall(c) = 0
      /\ total \in Int /\ total > 0 => WeightedOverall(c) = sum \div total
  <2>1. DOMAIN weight = D /\ DOMAIN worth = D
    OBVIOUS
  <2>2. WeightedOverall(c) = CASE total = 0 -> 0
                               [] total > 0 -> sum \div total
                               [] total < 0 -> (-sum) \div (-total)
    <3> HIDE DEF D
    <3> QED BY <2>1 DEF WeightedOverall, SumFunction, D
  <2> HIDE DEF total, sum
  <2> QED BY <2>2
<1>5. \A n \in D : c[n].complete > 0 => c[n].value \in E
  BY DEF Evidence
<1>6. E \subseteq Int
  BY <1>2 DEF Evidence
<1>7. IsFiniteSet(E)
  <2> DEFINE A == {m \in D : c[m].complete > 0}
             v == [n \in A |-> c[n].value]
  <2>1. IsFiniteSet(A)
    BY <1>1, FS_Subset
  <2>2. E = {c[n].value : n \in A}
    BY DEF Evidence
  <2> HIDE DEF A, D
  <2>3. v \in Surjection(A, E)
    BY <2>2 DEF Surjection
  <2> QED BY <2>1, <2>3, FS_Surjection
<1> HIDE DEF E, weight, worth, D
<1>8. CASE E = {}
  <2> DEFINE zero == [n \in D |-> 0]
  <2>1. \A n \in D : weight[n] = 0
    BY <1>2, <1>5, <1>8
  <2>2. total = 0
    <3>1. weight \in [D -> 0 .. 0]
      BY <1>3, <2>1
    <3>2. /\ total \in Int /\ Cardinality(D) \in Nat
          /\ 0 * Cardinality(D) <= total /\ total <= 0 * Cardinality(D)
      BY <1>1, <3>1, SumWithin
    <3> HIDE DEF total
    <3> QED BY <3>2
  <2> QED BY <1>4, <1>8, <2>2 DEF E
<1>9. CASE E # {}
  <2>1. PICK lo \in Int, hi \in Int :
          /\ lo = Min(E) /\ hi = Max(E)
          /\ \A x \in E : lo <= x /\ x <= hi
    BY <1>6, <1>7, <1>9, ExtremesAreIn
  <2>2. PICK n \in D : c[n].complete > 0
    BY <1>9 DEF E, Evidence, D
  <2>3. total \in Nat /\ total > 0
    <3>1. total \in Nat /\ total >= weight[n]
      BY <1>1, <1>3, SumReaches
    <3>2. weight[n] \in Nat /\ weight[n] # 0
      BY <1>2, <2>2
    <3> HIDE DEF total
    <3> QED BY <3>1, <3>2
  <2> DEFINE low == [m \in D |-> lo * weight[m]]
             high == [m \in D |-> hi * weight[m]]
  <2>4. low \in [D -> Int] /\ high \in [D -> Int]
    BY <1>2
  <2>5. ASSUME NEW m \in D
        PROVE  low[m] <= worth[m] /\ worth[m] <= high[m]
    <3>1. PICK w \in Nat, v \in Int :
            w = weight[m] /\ v = c[m].value /\ worth[m] = w * v
      BY <1>2
    <3>2. low[m] = lo * w /\ high[m] = hi * w
      BY <3>1
    <3>3. CASE w = 0
      BY <3>1, <3>2, <3>3
    <3>4. CASE w # 0
      <4>1. lo <= v /\ v <= hi
        BY <1>2, <1>5, <2>1, <3>1, <3>4
      <4>2. lo * w <= w * v /\ w * v <= hi * w
        BY <3>1, <4>1
      <4> QED BY <3>1, <3>2, <4>2
    <3> QED BY <3>3, <3>4
  <2>6. SumFunctionOnSet(low, D) <= sum /\ sum <= SumFunctionOnSet(high, D)
    <3> HIDE DEF low, high
    <3> QED BY <1>1, <1>3, <2>4, <2>5, SumIsMonotone
  <2>7. SumFunctionOnSet(low, D) = lo * total
    <3>1. \A m \in D : low[m] = lo * weight[m] + 0 * weight[m] + 0
      BY <1>2
    <3>2. 0 \in Int
      OBVIOUS
    <3> HIDE DEF low
    <3>3. Linear(low, D, lo, weight, 0, weight, 0)
      BY <1>1, <1>3, <2>4, <3>1, <3>2 DEF Linear
    <3>4. SumFunctionOnSet(low, D) =
            lo * total + 0 * total + 0 * Cardinality(D)
      BY <3>3, SumIsLinear
    <3>5. Cardinality(D) \in Nat
      BY <1>1, FS_CardinalityType
    <3> HIDE DEF total
    <3> QED BY <2>3, <3>4, <3>5
  <2>8. SumFunctionOnSet(high, D) = hi * total
    <3>1. \A m \in D : high[m] = hi * weight[m] + 0 * weight[m] + 0
      BY <1>2
    <3>2. 0 \in Int
      OBVIOUS
    <3> HIDE DEF high
    <3>3. Linear(high, D, hi, weight, 0, weight, 0)
      BY <1>1, <1>3, <2>4, <3>1, <3>2 DEF Linear
    <3>4. SumFunctionOnSet(high, D) =
            hi * total + 0 * total + 0 * Cardinality(D)
      BY <3>3, SumIsLinear
    <3>5. Cardinality(D) \in Nat
      BY <1>1, FS_CardinalityType
    <3> HIDE DEF total
    <3> QED BY <2>3, <3>4, <3>5
  <2>9. sum \in Int
    BY <1>1, <1>3, IntegerSums
  <2> HIDE DEF low, high, sum, total
  <2>10. sum \div total \in lo .. hi
    <3>1. total \in Int /\ lo * total <= sum /\ sum <= hi * total
      BY <2>3, <2>6, <2>7, <2>8
    <3> QED BY <2>3, <2>9, <3>1, QuotientWithin
  <2> QED BY <1>4, <1>9, <2>1, <2>3, <2>10 DEF E
<1> QED BY <1>8, <1>9 DEF E

(* A set with few names is finite.                                         *)
LEMMA FewNames ==
  ASSUME NEW a, NEW b, NEW c, NEW d, NEW S,
         S \subseteq {a, b, c} \cup {d}
  PROVE  IsFiniteSet(S)
<1>1. /\ IsFiniteSet({a}) /\ IsFiniteSet({b})
      /\ IsFiniteSet({c}) /\ IsFiniteSet({d})
  BY FS_Singleton
<1> DEFINE A == {a}
           B == {b}
           C == {c}
           E == {d}
           T == ((A \cup B) \cup C) \cup E
<1>2. S \subseteq T
  OBVIOUS
<1>3. IsFiniteSet(T)
  <2> HIDE DEF A, B, C, E
  <2>1. IsFiniteSet(A) /\ IsFiniteSet(B) /\ IsFiniteSet(C) /\ IsFiniteSet(E)
    BY <1>1 DEF A, B, C, E
  <2>2. IsFiniteSet(A \cup B)
    BY <2>1, FS_Union
  <2>3. IsFiniteSet((A \cup B) \cup C)
    BY <2>1, <2>2, FS_Union
  <2> QED BY <2>1, <2>3, FS_Union
<1> HIDE DEF T
<1> QED BY <1>2, <1>3, FS_Subset

(* What each component of a page's score has.                              *)
Sound(x) ==
  x.value \in Int /\ x.complete \in Nat /\ x.weight \in Nat \ {0}

(* The components of a page score are sound, whatever the page is like.    *)
LEMMA ComponentsSound ==
  /\ \A w \in Nat \ {0} : Sound(NoScore(w))
  /\ \A options \in Option :
       options.complete >= 0 => Sound(AuthorityComponent(options))
  /\ \A ko \in Measure :
       /\ Sound(ContentComponent(ko)) /\ Sound(KeywordComponent(ko))
       /\ Sound(LinkComponent(ko, Unknown))
       /\ Sound(AccessibilityComponent(ko)) /\ Sound(TrustComponent(ko))
<1>c. \A n \in Int : Clip(n) \in Int
  BY DEF Clip
<1>s. \A v, k, w : v \in Int /\ k \in Nat /\ w \in Nat \ {0} =>
                     Sound(Component(v, k, w))
  BY DEF Sound, Component
<1>0. \A w \in Nat \ {0} : Sound(NoScore(w))
  BY <1>s DEF NoScore
<1>1. ASSUME NEW options \in Option, options.complete >= 0
      PROVE  Sound(AuthorityComponent(options))
  <2>1. options.authority \in Seq(Int) /\ options.complete \in Nat
    BY <1>1 DEF Option
  <2>2. CASE options.authority = <<>>
    BY <1>0, <2>2 DEF AuthorityComponent
  <2>3. CASE options.authority # <<>>
    <3>1. options.authority[1] \in Int
      BY <2>1, <2>3
    <3> QED BY <1>s, <2>1, <2>3, <3>1 DEF AuthorityComponent
  <2> QED BY <2>2, <2>3
<1>2. ASSUME NEW ko \in Measure
      PROVE  /\ Sound(ContentComponent(ko)) /\ Sound(KeywordComponent(ko))
             /\ Sound(LinkComponent(ko, Unknown))
             /\ Sound(AccessibilityComponent(ko)) /\ Sound(TrustComponent(ko))
  <2>1. /\ ko.score \in Int /\ ko.words \in Nat /\ ko.placed \in Int
        /\ ko.inlinks \in Nat /\ ko.images \in Nat /\ ko.alts \in Nat
        /\ ko.trust \in Int
    BY DEF Measure
  <2>2. Sound(ContentComponent(ko))
    <3>1. Clip(ko.words \div 10) \in Int
      BY <1>c, <2>1
    <3> QED BY <1>s, <2>1, <3>1 DEF ContentComponent
  <2>3. Sound(KeywordComponent(ko))
    <3>1. Sound(Component(0, 100, 15)) /\ Sound(Component(50, 50, 15))
      BY <1>s
    <3>2. Sound(Component(20 * ko.placed, 100, 15))
      BY <1>s, <2>1
    <3> QED BY <3>1, <3>2 DEF KeywordComponent
  <2>4. Sound(LinkComponent(ko, Unknown))
    <3>1. Clip(20 * ko.inlinks) \in Int
      BY <1>c, <2>1
    <3> QED BY <1>s, <3>1 DEF LinkComponent
  <2>5. Sound(AccessibilityComponent(ko))
    <3>1. (IF ko.images = 0 THEN 100
           ELSE (100 * ko.alts) \div ko.images) \in Int
      BY <2>1
    <3> QED BY <1>s, <3>1 DEF AccessibilityComponent
  <2>6. Sound(TrustComponent(ko))
    <3>1. Clip(ko.trust) \in Int
      BY <1>c, <2>1
    <3> QED BY <1>s, <3>1 DEF TrustComponent
  <2> QED BY <2>2, <2>3, <2>4, <2>5, <2>6
<1> QED BY <1>0, <1>1, <1>2

(* The score of a page averages the evidence there is for it.              *)
LEMMA PageScoreAverages ==
  ASSUME NEW kos, kos \subseteq Measure, NEW options \in Option,
         options.complete >= 0
  PROVE  LET c == Components(kos, {}, Unknown, options)
         IN  IF Evidence(c) = {} THEN SeoScoring(kos, {}, Unknown, options) = 0
             ELSE SeoScoring(kos, {}, Unknown, options)
                    \in Min(Evidence(c)) .. Max(Evidence(c))
<1> DEFINE c == Components(kos, {}, Unknown, options)
<1>1. Scored(c)
  <2>1. /\ TechnicalComponent({}) = NoScore(20)
        /\ Sound(NoScore(20)) /\ Sound(NoScore(5))
        /\ Sound(AuthorityComponent(options))
    BY ComponentsSound DEF TechnicalComponent
  <2>2. CASE kos = {}
    <3>1. \A n \in DOMAIN c : Sound(c[n])
      BY <2>1, <2>2 DEF Components, PerformanceComponent
    <3>2. DOMAIN c \subseteq
            {"technical_score", "authority_score", "performance_score"}
              \cup {"performance_score"}
      BY <2>2 DEF Components
    <3> HIDE DEF c
    <3> QED BY <3>1, <3>2, FewNames DEF Scored, Sound
  <2>3. CASE kos # {}
    <3>1. PICK ko \in Measure : ko = CHOOSE x \in kos : TRUE
      BY <2>3
    <3>2. c = [technical_score |-> NoScore(20),
               content_score |-> ContentComponent(ko),
               keyword_score |-> KeywordComponent(ko),
               internal_link_score |-> LinkComponent(ko, Unknown),
               authority_score |-> AuthorityComponent(options),
               performance_score |-> NoScore(5),
               accessibility_score |-> AccessibilityComponent(ko),
               trust_score |-> TrustComponent(ko)]
      BY <2>1, <2>3, <3>1 DEF Components, PerformanceComponent
    <3> HIDE DEF c
    <3>3. \A n \in DOMAIN c : Sound(c[n])
      BY <2>1, <3>2, ComponentsSound
    <3> DEFINE d == DOMAIN c
               A == d \cap ({"content_score", "keyword_score", "trust_score"}
                              \cup {"internal_link_score"})
               B == d \cap ({"technical_score", "authority_score",
                             "performance_score"} \cup {"accessibility_score"})
    <3>4. IsFiniteSet(A) /\ IsFiniteSet(B)
      <4>1. A \subseteq {"content_score", "keyword_score", "trust_score"}
                           \cup {"internal_link_score"}
        OBVIOUS
      <4>2. B \subseteq {"technical_score", "authority_score",
                         "performance_score"} \cup {"accessibility_score"}
        OBVIOUS
      <4> HIDE DEF A, B
      <4>3. IsFiniteSet(A)
        BY <4>1, FewNames
      <4>4. IsFiniteSet(B)
        BY <4>2, FewNames
      <4> QED BY <4>3, <4>4
    <3>5. d = A \cup B
      BY <3>2
    <3>6. IsFiniteSet(d)
      <4> HIDE DEF d, A, B
      <4> QED BY <3>4, <3>5, FS_Union
    <3> QED BY <3>3, <3>6 DEF Scored, Sound
  <2> QED BY <2>2, <2>3
<1> HIDE DEF c
<1> QED BY <1>1, OverallAverages DEF SeoScoring, c

(* What is capped is within the cap.                                       *)
LEMMA LesserIn ==
  ASSUME NEW a \in Nat, NEW b \in Nat
  PROVE  AtMost(a, b) \in 0 .. b
<1>1. /\ Min({a, b}) \in Int /\ Min({a, b}) \in {a, b}
      /\ Min({a, b}) <= a /\ Min({a, b}) <= b
  BY ExtremesOfTwo
<1>2. PICK m \in Int : m = Min({a, b})
  BY <1>1
<1> QED BY <1>1, <1>2 DEF AtMost

(* The shares that a page's content is rated by.                           *)
Percent == 0 .. 100
ToThousand == 0 .. 1000
ToMore == 0 .. 1500
ToFive == 0 .. 5
Rich(m, h, r) == (40 * m) \div 1000 + 6 * h + (30 * r) \div 100
Deep(m, h) == (50 * m) \div 1500 + h \div 2

(* What is cut to at most a bound is in the range up to the bound.         *)
LEMMA Capped ==
  ASSUME NEW n \in Nat
  PROVE  /\ AtMost(n, 1000) \in ToThousand /\ AtMost(n, 1500) \in ToMore
         /\ AtMost(n, 5) \in ToFive
<1>1. PICK a \in Nat, b \in Nat, c \in Nat : a = 1000 /\ b = 1500 /\ c = 5
  BY SMT
<1>2. ToThousand = 0 .. a /\ ToMore = 0 .. b /\ ToFive = 0 .. c
  BY SMT, <1>1 DEF ToThousand, ToMore, ToFive
<1>3. /\ AtMost(n, a) \in ToThousand /\ AtMost(n, b) \in ToMore
      /\ AtMost(n, c) \in ToFive
  BY <1>2, LesserIn
<1> QED BY SMT, <1>1, <1>3

(* The richness of a page is a percentage.                                 *)
LEMMA RichWithin ==
  \A m \in ToThousand : \A h \in ToFive : \A r \in Percent :
    Rich(m, h, r) \in Percent
BY SMT DEF Rich, Percent, ToThousand, ToFive

(* So is its depth.                                                        *)
LEMMA DeepWithin == \A m \in ToMore : \A h \in Percent : Deep(m, h) \in Percent
BY SMT DEF Deep, Percent, ToMore

(* Clipped counts are percentages, and half of what is not known is one.   *)
LEMMA ContentRated ==
  /\ \A n \in Int : Clip(n) \in Percent
  /\ 50 \in Percent /\ Percent \subseteq Int
<1>1. \A n \in Int : Clip(n) \in Percent
  BY SMT DEF Clip, Percent
<1>2. 50 \in Percent /\ Percent \subseteq Int
  BY SMT DEF Percent
<1> QED BY <1>1, <1>2

(* The mean of the shares that a model answered is one, if they are.       *)
LEMMA SharesMeet ==
  ASSUME NEW shares \in Seq(Int), shares # <<>>, ToSet(shares) \subseteq Percent
  PROVE  SumFunction(shares) \div Len(shares) \in Percent
<1> DEFINE n == Len(shares)
           D == 1 .. n
           total == SumFunctionOnSet(shares, D)
<1>1. n \in Nat /\ n # 0 /\ DOMAIN shares = D
  BY EmptySeq
<1>2. IsFiniteSet(D) /\ Cardinality(D) = n
  <2>1. 1 \in Int /\ n \in Int /\ n >= 1
    BY <1>1
  <2> QED BY <2>1, FS_Interval
<1>3. PICK lo \in Int, hi \in Int : lo = 0 /\ hi = 100
  BY SMT
<1>4. Percent = lo .. hi
  BY <1>3 DEF Percent
<1> HIDE DEF n, D
<1>5. shares \in [D -> lo .. hi]
  <2>1. \A i \in D : shares[i] \in lo .. hi
    BY <1>1, <1>4 DEF ToSet
  <2>2. shares = [i \in DOMAIN shares |-> shares[i]]
    OBVIOUS
  <2> QED BY <1>1, <2>1, <2>2
<1>6. total \in Int /\ lo * n <= total /\ total <= hi * n
  BY <1>2, <1>3, <1>5, SumWithin
<1>7. SumFunction(shares) = total
  BY <1>1 DEF SumFunction
<1> HIDE DEF total
<1>8. total \div n \in lo .. hi
  BY <1>1, <1>3, <1>6, QuotientWithin
<1> QED BY <1>4, <1>7, <1>8 DEF n

(* The scores of a page for its content are percentages.                   *)
LEMMA ContentWithin ==
  ASSUME NEW ko \in Measure
  PROVE  /\ Richness(ko) \in Share
         /\ ToSet(ko.shares) \subseteq 0 .. 100 => ContentDepth(ko) \in Share
<1>1. /\ ko.words \in Nat /\ ko.headings \in Nat /\ ko.readability \in Int
      /\ ko.shares \in Seq(Int)
  BY DEF Measure
<1>2. Share = {Unknown} \cup Percent
  BY DEF Share, Percent
<1>3. Richness(ko) \in Share
  <2>1. CASE ko.words = 0
    BY <1>2, <2>1 DEF Richness
  <2>2. CASE ko.words # 0
    <3>1. PICK m \in ToThousand : m = AtMost(ko.words, 1000)
      BY <1>1, Capped
    <3>2. PICK h \in ToFive : h = AtMost(ko.headings, 5)
      BY <1>1, Capped
    <3>3. PICK r \in Percent :
            r = IF ko.readability \in {Unknown, 0} THEN 50
                ELSE Clip(ko.readability)
      BY <1>1, ContentRated
    <3>4. Richness(ko) = Rich(m, h, r)
      BY <2>2, <3>1, <3>2, <3>3 DEF Richness, Rich
    <3> QED BY <1>2, <3>4, RichWithin
  <2> QED BY <2>1, <2>2
<1>4. ASSUME ToSet(ko.shares) \subseteq Percent PROVE ContentDepth(ko) \in Share
  <2> DEFINE half == IF ko.shares = <<>> THEN 50
                     ELSE SumFunction(ko.shares) \div Len(ko.shares)
  <2>1. half \in Percent
    <3>1. CASE ko.shares = <<>>
      BY <3>1, ContentRated
    <3>2. CASE ko.shares # <<>>
      <4>1. SumFunction(ko.shares) \div Len(ko.shares) \in Percent
        BY <1>1, <1>4, <3>2, SharesMeet
      <4> QED BY <3>2, <4>1
    <3> QED BY <3>1, <3>2
  <2>2. PICK m \in ToMore : m = AtMost(ko.words, 1500)
    BY <1>1, Capped
  <2>3. ContentDepth(ko) = IF ko.shares = <<>> /\ ko.words = 0 THEN Unknown
                           ELSE Deep(m, half)
    BY <2>2 DEF ContentDepth, Deep
  <2> HIDE DEF half
  <2> QED BY <1>2, <2>1, <2>3, DeepWithin
<1> QED BY <1>3, <1>4 DEF Percent

(* What the stored reports score averages the evidence it is computed from.*)
LEMMA ScoresAgree == ETypeOK => ScoresAverageEvidence
<1> SUFFICES ASSUME ETypeOK, NEW i \in DOMAIN erow, NEW entry, entry = erow[i],
                    NEW report \in Report(entry.engine, entry.scope,
                                          entry.input, entry.options)
             PROVE  /\ entry.engine = "seo_scoring"
                         /\ entry.options.complete >= 0 =>
                           LET c == report.components
                               evidence ==
                                 {c[n].value : n \in {m \in DOMAIN c :
                                                        c[m].complete > 0}}
                           IN  IF evidence = {} THEN report.overall = 0
                               ELSE report.overall
                                      \in Min(evidence) .. Max(evidence)
                    /\ entry.engine = "content_intelligence" =>
                         /\ report.richness \subseteq Share
                         /\ (\A ko \in entry.input :
                               ToSet(ko.shares) \subseteq 0 .. 100)
                              => report.depth \subseteq Share
  BY Zenon DEF ScoresAverageEvidence
<1>1. PICK scope, kos, options :
        /\ scope = entry.scope /\ kos = entry.input /\ options = entry.options
        /\ kos \subseteq Measure /\ options \in Option
  <2>1. entry \in ReportRow
    BY DEF ETypeOK
  <2>2. NoOptions \in Option
    BY DEF NoOptions, Option
  <2> QED BY <2>1, <2>2, ReportAssumption DEF ReportRow
<1>2. ASSUME entry.engine = "seo_scoring", options.complete >= 0
      PROVE  LET c == report.components
                 evidence ==
                   {c[n].value : n \in {m \in DOMAIN c : c[m].complete > 0}}
             IN  IF evidence = {} THEN report.overall = 0
                 ELSE report.overall \in Min(evidence) .. Max(evidence)
  <2>1. report \in SeoScoringEngine(scope, kos, options)
    BY <1>1, <1>2 DEF Report
  <2>2. /\ report.components = Components(kos, {}, Unknown, options)
        /\ report.overall = SeoScoring(kos, {}, Unknown, options)
    BY <2>1 DEF SeoScoringEngine, Upstream
  <2>3. {report.components[n].value :
           n \in {m \in DOMAIN report.components :
                    report.components[m].complete > 0}}
          = Evidence(report.components)
    BY DEF Evidence
  <2>4. LET c == Components(kos, {}, Unknown, options)
        IN  IF Evidence(c) = {} THEN SeoScoring(kos, {}, Unknown, options) = 0
            ELSE SeoScoring(kos, {}, Unknown, options)
                   \in Min(Evidence(c)) .. Max(Evidence(c))
    BY <1>1, <1>2, PageScoreAverages
  <2> QED BY Zenon, <2>2, <2>3, <2>4
<1>3. ASSUME entry.engine = "content_intelligence"
      PROVE  /\ report.richness \subseteq Share
             /\ (\A ko \in kos : ToSet(ko.shares) \subseteq 0 .. 100)
                  => report.depth \subseteq Share
  <2>1. report \in ContentIntelligenceEngine(scope, kos)
    BY <1>1, <1>3 DEF Report
  <2>2. /\ report.richness = {Richness(ko) : ko \in kos}
        /\ report.depth = {ContentDepth(ko) : ko \in kos}
    BY <2>1 DEF ContentIntelligenceEngine
  <2> QED BY <1>1, <2>2, ContentWithin
<1> QED BY Zenon, <1>1, <1>2, <1>3

(* Groups that have the first k keywords, each in one of them.             *)
Parted(keywords, groups, k) ==
  /\ \A g, h \in groups : g = h \/ g \cap h = {}
  /\ \A j \in 1 .. k : keywords[j] \in UNION groups

(* One keyword more opens a group, or is in one.                           *)
LEMMA ClusteredParts ==
  ASSUME NEW keywords, NEW groups, NEW k \in Nat, Parted(keywords, groups, k)
  PROVE  Parted(keywords, Clustered(keywords, groups, k + 1), k + 1)
<1> DEFINE i == k + 1
           used == UNION groups
           group == {keywords[i]} \cup
                      {j \in ToSet(keywords) \ used : Related(j, keywords[i])}
           new == Clustered(keywords, groups, i)
<1>1. \A j \in 1 .. i : j \in 1 .. k \/ j = i
  OBVIOUS
<1>2. /\ \A g, h \in groups : g = h \/ g \cap h = {}
      /\ \A j \in 1 .. k : keywords[j] \in used
  BY DEF Parted
<1>3. CASE keywords[i] \in used
  <2>1. new = groups
    BY <1>3 DEF Clustered
  <2>2. \A j \in 1 .. i : keywords[j] \in used
    BY <1>1, <1>2, <1>3
  <2> QED BY <1>2, <2>1, <2>2 DEF Parted
<1>4. CASE keywords[i] \notin used
  <2>1. new = groups \cup {group}
    BY <1>4 DEF Clustered
  <2>2. \A g \in groups : g \cap group = {}
    BY <1>4
  <2>3. keywords[i] \in group
    OBVIOUS
  <2> HIDE DEF group, new, i
  <2>4. \A g, h \in groups \cup {group} : g = h \/ g \cap h = {}
    BY <1>2, <2>2
  <2>5. \A j \in 1 .. i : keywords[j] \in UNION (groups \cup {group})
    BY <1>1, <1>2, <2>3
  <2> QED BY <2>1, <2>4, <2>5 DEF Parted, i, new
<1> QED BY <1>3, <1>4

(* So each keyword is in one group when all were looked at.                *)
LEMMA KeywordsParted ==
  ASSUME NEW keywords, Len(keywords) \in Nat,
         DOMAIN keywords = 1 .. Len(keywords)
  PROVE  Parted(keywords, KeywordClusters(keywords), Len(keywords))
<1> DEFINE n == Len(keywords)
           K == ToSet(keywords)
           S == SUBSET SUBSET K
           g == [i \in 1 .. n |-> [v \in S |-> Clustered(keywords, v, i)]]
<1>1. ASSUME NEW v \in S, NEW i \in 1 .. n
      PROVE  Clustered(keywords, v, i) \in S
  <2> DEFINE used == UNION v
             group == {keywords[i]} \cup
                        {j \in K \ used : Related(j, keywords[i])}
  <2>1. group \subseteq K
    BY DEF ToSet
  <2>2. Clustered(keywords, v, i) =
          IF keywords[i] \in used THEN v ELSE v \cup {group}
    BY DEF Clustered
  <2> HIDE DEF group, used, n, K
  <2> QED BY <2>1, <2>2
<1> HIDE DEF K
<1>2. Stepping(n, S, {}, g)
  <2>1. g \in [1 .. n -> [S -> S]]
    BY <1>1
  <2> HIDE DEF g, S
  <2>2. {} \in S
    BY DEF S
  <2> QED BY <2>1, <2>2 DEF Stepping
<1>3. PICK h : Stepped(h, n, S, {}, g)
  <2> HIDE DEF g, S, n
  <2> QED BY <1>2, RecursionExists
<1>4. h = [i \in 0 .. n |->
             IF i = 0 THEN {} ELSE Clustered(keywords, h[i - 1], i)]
  <2>1. h \in [0 .. n -> S] /\ h[0] = {}
    BY <1>3 DEF Stepped
  <2>2. ASSUME NEW i \in 1 .. n PROVE h[i] = Clustered(keywords, h[i - 1], i)
    <3>1. h[i] = g[i][h[i - 1]]
      <4> HIDE DEF g, S
      <4> QED BY <1>3 DEF Stepped
    <3>2. i - 1 \in 0 .. n
      OBVIOUS
    <3>3. h[i - 1] \in S
      <4> HIDE DEF S, n
      <4> QED BY <2>1, <3>2
    <3> HIDE DEF S
    <3> QED BY <3>1, <3>3
  <2>3. ASSUME NEW i \in 0 .. n
        PROVE  h[i] = IF i = 0 THEN {} ELSE Clustered(keywords, h[i - 1], i)
    BY <2>1, <2>2
  <2> HIDE DEF S, n
  <2> QED BY <2>1, <2>3
<1> HIDE DEF g, S
<1>5. PICK e :
        /\ e = [i \in 0 .. n |->
                  IF i = 0 THEN {} ELSE Clustered(keywords, e[i - 1], i)]
        /\ KeywordClusters(keywords) = e[n]
  BY <1>4 DEF KeywordClusters
<1> DEFINE P == {i \in 0 .. n : Parted(keywords, e[i], i)}
<1>6. 0 \in P
  <2>1. e[0] = {} /\ 1 .. 0 = {}
    BY <1>5
  <2> QED BY <2>1 DEF Parted
<1>7. ASSUME NEW k \in 0 .. n - 1, k \in P PROVE k + 1 \in P
  <2>1. k + 1 \in 1 .. n /\ k + 1 \in 0 .. n /\ (k + 1) - 1 = k /\ k + 1 # 0
    OBVIOUS
  <2>2. e[k + 1] = Clustered(keywords, e[k], k + 1)
    <3> HIDE DEF n
    <3> QED BY <2>1, <1>5
  <2>3. Parted(keywords, e[k], k) /\ k \in Nat
    BY <1>7
  <2>4. Parted(keywords, Clustered(keywords, e[k], k + 1), k + 1)
    BY <2>3, ClusteredParts
  <2> QED BY <2>1, <2>2, <2>4
<1>8. n \in P
  <2>1. \A k \in 0 .. n - 1 : k \in P => k + 1 \in P
    BY <1>7
  <2>2. n \in Nat
    OBVIOUS
  <2> HIDE DEF P, n
  <2>3. \A k \in 0 .. n : k \in P
    BY <1>6, <2>1, <2>2, AllNumbers
  <2> QED BY <2>2, <2>3
<1> QED BY <1>5, <1>8

(* What is in one set of a family only, counted.                           *)
LEMMA InOneOnly ==
  ASSUME NEW F, NEW x, NEW g \in F, x \in g,
         \A h \in F : x \in h => h = g
  PROVE  Cardinality({h \in F : x \in h}) = 1
<1>1. {h \in F : x \in h} = {g}
  OBVIOUS
<1> QED BY <1>1, FS_Singleton

(* Clusters of a site's pages have each of the first k with a keyphrase.   *)
Covering(pages, topics, k) ==
  /\ topics.has \subseteq DOMAIN pages
  /\ topics.all \in Seq(SUBSET DOMAIN pages)
  /\ \A p \in 1 .. k : pages[p] # "" =>
       \E c \in 1 .. Len(topics.all) : p \in topics.all[c]

(* One page more opens a cluster, if it has a keyphrase.                   *)
LEMMA GatheredCovers ==
  ASSUME NEW pages, NEW topics, NEW k \in Nat, Covering(pages, topics, k),
         k + 1 \in DOMAIN pages
  PROVE  Covering(pages, Gathered(pages, topics, k + 1), k + 1)
<1> DEFINE i == k + 1
           has == topics.has \cup {i}
           members == {j \in DOMAIN pages \ has : Related(pages[j], pages[i])}
           new == Gathered(pages, topics, i)
<1>1. \A j \in 1 .. i : j \in 1 .. k \/ j = i
  OBVIOUS
<1>2. /\ topics.has \subseteq DOMAIN pages
      /\ topics.all \in Seq(SUBSET DOMAIN pages)
      /\ \A p \in 1 .. k : pages[p] # "" =>
           \E c \in 1 .. Len(topics.all) : p \in topics.all[c]
  BY DEF Covering
<1>3. CASE pages[i] = ""
  <2>1. new = topics
    BY <1>3 DEF Gathered
  <2>2. \A p \in 1 .. i : pages[p] # "" =>
          \E c \in 1 .. Len(topics.all) : p \in topics.all[c]
    BY <1>1, <1>2, <1>3
  <2> HIDE DEF new
  <2> QED BY <1>2, <2>1, <2>2 DEF Covering, new
<1>4. CASE pages[i] # ""
  <2> DEFINE last == members \cup {i}
             all == topics.all
             D == DOMAIN pages
  <2>1. new.has = has \cup members /\ new.all = Append(all, last)
    BY <1>4 DEF Gathered
  <2>2. new.has \subseteq D /\ last \subseteq D /\ i \in last
    BY <1>2, <2>1
  <2>3. all \in Seq(SUBSET D)
    BY <1>2
  <2> HIDE DEF D, all, last, new
  <2>4. /\ Len(all) \in Nat /\ Append(all, last) \in Seq(SUBSET D)
        /\ Len(Append(all, last)) = Len(all) + 1
        /\ Append(all, last)[Len(all) + 1] = last
        /\ \A c \in 1 .. Len(all) : Append(all, last)[c] = all[c]
    BY <2>2, <2>3, AppendProperties
  <2>5. ASSUME NEW p \in 1 .. i, pages[p] # ""
        PROVE  \E c \in 1 .. Len(new.all) : p \in new.all[c]
    <3>1. CASE p = i
      <4>1. Len(all) + 1 \in 1 .. Len(new.all)
        BY <2>1, <2>4
      <4> QED BY <2>1, <2>2, <2>4, <3>1, <4>1
    <3>2. CASE p # i
      <4>1. PICK c \in 1 .. Len(all) : p \in all[c]
        BY <1>1, <1>2, <2>5, <3>2 DEF all
      <4>2. c \in 1 .. Len(new.all)
        BY <2>1, <2>4
      <4> QED BY <2>1, <2>4, <4>1, <4>2
    <3> QED BY <3>1, <3>2
  <2> QED BY <2>1, <2>2, <2>4, <2>5 DEF Covering, new, D
<1> QED BY <1>3, <1>4

(* So each page with a keyphrase is in a cluster.                          *)
LEMMA TopicsCover ==
  ASSUME NEW pages, Len(pages) \in Nat, DOMAIN pages = 1 .. Len(pages)
  PROVE  /\ TopicClusters(pages) \in Seq(SUBSET (1 .. Len(pages)))
         /\ \A p \in 1 .. Len(pages) : pages[p] # "" =>
              p \in UNION ToSet(TopicClusters(pages))
<1> DEFINE n == Len(pages)
           S == [has : SUBSET (1 .. n), all : Seq(SUBSET (1 .. n))]
           none == [has |-> {}, all |-> <<>>]
           g == [i \in 1 .. n |-> [v \in S |-> Gathered(pages, v, i)]]
<1>1. ASSUME NEW v \in S, NEW i \in 1 .. n PROVE Gathered(pages, v, i) \in S
  <2> DEFINE has == v.has \cup {i}
             members == {j \in 1 .. n \ has : Related(pages[j], pages[i])}
  <2>1. v.has \subseteq 1 .. n /\ v.all \in Seq(SUBSET (1 .. n))
    OBVIOUS
  <2>2. has \subseteq 1 .. n /\ members \subseteq 1 .. n
    BY <2>1
  <2>3. Gathered(pages, v, i) =
          IF pages[i] = "" THEN v
          ELSE [has |-> has \cup members,
                all |-> Append(v.all, members \cup {i})]
    BY DEF Gathered
  <2> HIDE DEF has, members
  <2>4. Append(v.all, members \cup {i}) \in Seq(SUBSET (1 .. n))
    BY <2>1, <2>2
  <2>5. [has |-> has \cup members, all |-> Append(v.all, members \cup {i})]
          \in S
    BY <2>2, <2>4
  <2> HIDE DEF S
  <2> QED BY <2>3, <2>5
<1>2. Stepping(n, S, none, g)
  <2>1. g \in [1 .. n -> [S -> S]]
    <3> HIDE DEF S
    <3> QED BY <1>1
  <2>2. none \in S
    OBVIOUS
  <2> HIDE DEF g, S, none
  <2> QED BY <2>1, <2>2 DEF Stepping
<1> HIDE DEF S
<1>3. PICK h : Stepped(h, n, S, none, g)
  <2> HIDE DEF g, n, none
  <2> QED BY <1>2, RecursionExists
<1>4. h = [i \in 0 .. n |->
             IF i = 0 THEN none ELSE Gathered(pages, h[i - 1], i)]
  <2>1. h \in [0 .. n -> S] /\ h[0] = none
    <3> HIDE DEF g, n, none
    <3> QED BY <1>3 DEF Stepped
  <2>2. ASSUME NEW i \in 1 .. n PROVE h[i] = Gathered(pages, h[i - 1], i)
    <3>1. h[i] = g[i][h[i - 1]]
      <4> HIDE DEF g, n, none
      <4> QED BY <1>3 DEF Stepped
    <3>2. i - 1 \in 0 .. n
      OBVIOUS
    <3>3. h[i - 1] \in S
      <4> HIDE DEF n, none
      <4> QED BY <2>1, <3>2
    <3> QED BY <3>1, <3>3
  <2>3. ASSUME NEW i \in 0 .. n
        PROVE  h[i] = IF i = 0 THEN none ELSE Gathered(pages, h[i - 1], i)
    <3> HIDE DEF none
    <3> QED BY <2>1, <2>2
  <2> HIDE DEF n, none
  <2> QED BY <2>1, <2>3
<1> HIDE DEF g
<1>5. PICK e :
        /\ e = [i \in 0 .. n |->
                  IF i = 0 THEN [has |-> {}, all |-> <<>>]
                  ELSE Gathered(pages, e[i - 1], i)]
        /\ TopicClusters(pages) = e[n].all
  BY <1>4 DEF TopicClusters
<1> DEFINE P == {i \in 0 .. n : Covering(pages, e[i], i)}
<1>6. 0 \in P
  <2>1. e[0].has = {} /\ e[0].all = <<>> /\ 1 .. 0 = {}
    BY <1>5
  <2>2. <<>> \in Seq(SUBSET DOMAIN pages) /\ {} \subseteq DOMAIN pages
    OBVIOUS
  <2>3. \A p \in 1 .. 0 : pages[p] # "" =>
          \E c \in 1 .. Len(e[0].all) : p \in e[0].all[c]
    BY <2>1
  <2>4. Covering(pages, e[0], 0)
    BY Zenon, <2>1, <2>2, <2>3 DEF Covering
  <2> QED BY <2>4
<1>7. ASSUME NEW k \in 0 .. n - 1, k \in P PROVE k + 1 \in P
  <2>1. k + 1 \in 1 .. n /\ k + 1 \in 0 .. n /\ (k + 1) - 1 = k /\ k + 1 # 0
    OBVIOUS
  <2>2. e[k + 1] = Gathered(pages, e[k], k + 1)
    <3> HIDE DEF n
    <3> QED BY <2>1, <1>5
  <2>3. Covering(pages, e[k], k) /\ k \in Nat
    BY <1>7
  <2>4. Covering(pages, Gathered(pages, e[k], k + 1), k + 1)
    BY <2>1, <2>3, GatheredCovers
  <2> QED BY <2>1, <2>2, <2>4
<1>8. n \in P
  <2>1. \A k \in 0 .. n - 1 : k \in P => k + 1 \in P
    BY <1>7
  <2>2. n \in Nat
    OBVIOUS
  <2> HIDE DEF P, n
  <2>3. \A k \in 0 .. n : k \in P
    BY <1>6, <2>1, <2>2, AllNumbers
  <2> QED BY <2>2, <2>3
<1>9. Covering(pages, e[n], n)
  BY <1>8
<1> DEFINE all == TopicClusters(pages)
<1>10. /\ all \in Seq(SUBSET (1 .. n))
       /\ \A p \in 1 .. n : pages[p] # "" =>
            \E c \in 1 .. Len(all) : p \in all[c]
  BY <1>5, <1>9 DEF Covering
<1> HIDE DEF all
<1>11. DOMAIN all = 1 .. Len(all)
  <2>1. all \in Seq(SUBSET (1 .. n))
    BY <1>10
  <2> HIDE DEF n
  <2> QED BY <2>1
<1>12. \A p \in 1 .. n : pages[p] # "" => p \in UNION ToSet(all)
  BY <1>10, <1>11 DEF ToSet
<1> QED BY <1>10, <1>12 DEF all

(* The pages with the keyphrase of a page, and the topics they make.       *)
Like(pages, p) == {j \in DOMAIN pages : pages[j] = pages[p]}
SiteTopics(pages) == {{g.pillar} \cup g.support : g \in TopicGraph(pages)}

(* Each topic is the pages with one keyphrase.                             *)
LEMMA TopicsAre ==
  ASSUME NEW pages, Len(pages) \in Nat, DOMAIN pages = 1 .. Len(pages)
  PROVE  SiteTopics(pages) = {Like(pages, i) : i \in Phrased(pages)}
<1> DEFINE n == Len(pages)
           L == {Like(pages, i) : i \in Phrased(pages)}
           topic(s) == [pillar |-> Min(s), support |-> s \ {Min(s)}]
<1>1. TopicGraph(pages) = {topic(s) : s \in L}
  BY DEF TopicGraph, Like, Phrased
<1>2. ASSUME NEW s \in L PROVE {topic(s).pillar} \cup topic(s).support = s
  <2>1. PICK i \in 1 .. n : s = Like(pages, i)
    BY DEF Phrased
  <2>2. s \subseteq 1 .. n /\ i \in s
    BY <2>1 DEF Like
  <2>3. IsFiniteSet(s) /\ s \subseteq Int
    <3>1. 1 \in Int /\ n \in Int
      OBVIOUS
    <3>2. IsFiniteSet(1 .. n)
      BY <3>1, FS_Interval
    <3>3. \A x \in 1 .. n : x \in Int
      OBVIOUS
    <3> HIDE DEF n, L
    <3>4. IsFiniteSet(s)
      BY <2>2, <3>2, FS_Subset
    <3>5. \A x \in s : x \in Int
      BY <2>2, <3>3
    <3> QED BY <3>4, <3>5
  <2>4. Min(s) \in s
    <3> HIDE DEF L
    <3> QED BY <2>2, <2>3, ExtremesAreIn
  <2> QED BY <2>4
<1> HIDE DEF L
<1>3. SiteTopics(pages) = {{topic(s).pillar} \cup topic(s).support : s \in L}
  BY <1>1 DEF SiteTopics
<1> HIDE DEF topic
<1> DEFINE whole(s) == {topic(s).pillar} \cup topic(s).support
<1>a. \A s \in L : whole(s) = s
  BY <1>2
<1>b. SiteTopics(pages) = {whole(s) : s \in L}
  BY <1>3
<1> HIDE DEF whole
<1>4. \A t : t \in SiteTopics(pages) <=> t \in L
  <2>1. ASSUME NEW t \in SiteTopics(pages) PROVE t \in L
    <3>1. PICK s \in L : t = whole(s)
      BY <1>b
    <3> QED BY <3>1, <1>a
  <2>2. ASSUME NEW t \in L PROVE t \in SiteTopics(pages)
    BY <1>a, <1>b
  <2> QED BY <2>1, <2>2
<1>5. SiteTopics(pages) = L
  BY <1>4
<1> QED BY <1>5 DEF L

(* Pages of one topic compete for its keyphrase, if it has words.          *)
LEMMA TopicsCompete ==
  ASSUME NEW pages, NEW p \in DOMAIN pages, IsFiniteSet(Tok[pages[p]])
  PROVE  IF Tok[pages[p]] = {} THEN Cannibalization(pages, p, pages[p]) = {}
         ELSE Like(pages, p) \ {p} \subseteq Cannibalization(pages, p, pages[p])
<1> DEFINE own == Tok[pages[p]]
           c == Cardinality(own)
           m == Max({1, c})
<1>1. c \in Nat /\ (c = 0 <=> own = {})
  BY FS_CardinalityType, FS_EmptySet
<1>2. m \in Int /\ m \in {1, c} /\ 1 <= m
  <2>1. 1 \in Int /\ c \in Int
    BY <1>1
  <2> HIDE DEF c
  <2> QED BY <2>1, ExtremesOfTwo
<1>3. Cannibalization(pages, p, pages[p]) =
        {j \in DOMAIN pages \ {p} :
           10 * Cardinality(own \cap Tok[pages[j]]) >= 6 * m}
  BY DEF Cannibalization
<1> HIDE DEF m
<1>4. CASE own = {}
  <2>1. \A j \in DOMAIN pages : own \cap Tok[pages[j]] = {}
    BY <1>4
  <2>2. Cardinality({}) = 0
    BY FS_EmptySet
  <2>3. \A j \in DOMAIN pages :
          ~(10 * Cardinality(own \cap Tok[pages[j]]) >= 6 * m)
    BY <1>2, <2>1, <2>2
  <2> HIDE DEF own
  <2> QED BY <1>3, <1>4, <2>3 DEF own
<1>5. CASE own # {}
  <2>1. m <= c /\ 10 * c >= 6 * m
    BY <1>1, <1>2, <1>5
  <2>2. ASSUME NEW j \in Like(pages, p) \ {p}
        PROVE  /\ j \in DOMAIN pages \ {p}
               /\ 10 * Cardinality(own \cap Tok[pages[j]]) >= 6 * m
    <3>1. j \in DOMAIN pages \ {p} /\ own \cap Tok[pages[j]] = own
      BY <2>2 DEF Like
    <3> QED BY <2>1, <3>1
  <2> HIDE DEF own, c
  <2> QED BY <1>3, <1>5, <2>2 DEF own
<1> QED BY <1>4, <1>5

(* The score of a site's structure is within its scale.                    *)
LEMMA StructureWithin ==
  ASSUME NEW pages, Len(pages) \in Nat, DOMAIN pages = 1 .. Len(pages),
         NEW links \in Nat, NEW deep \in 0 .. Len(pages)
  PROVE  StructureScore(pages, TopicClusters(pages), links, deep) \in 0 .. 100
<1> DEFINE n == Len(pages)
           clusters == TopicClusters(pages)
           size == [c \in DOMAIN clusters |-> Cardinality(clusters[c])]
           members == SumFunction(size)
<1>0. CASE n = 0
  BY <1>0 DEF StructureScore
<1>1. CASE n # 0
  <2>1. members \in Nat
    <3> DEFINE m == Len(clusters)
    <3>1. clusters \in Seq(SUBSET (1 .. n))
      BY TopicsCover
    <3> HIDE DEF clusters
    <3>2. m \in Nat /\ DOMAIN clusters = 1 .. m
      BY <3>1
    <3>3. \A c \in 1 .. m : clusters[c] \subseteq 1 .. n
      <4>1. \A c \in 1 .. m : clusters[c] \in SUBSET (1 .. n)
        BY <3>1, ElementOfSeq
      <4> QED BY <4>1
    <3>4. IsFiniteSet(1 .. n) /\ IsFiniteSet(1 .. m)
      <4>1. 1 \in Int /\ n \in Int /\ m \in Int
        BY <3>2
      <4> QED BY <4>1, FS_Interval
    <3>5. \A c \in 1 .. m : Cardinality(clusters[c]) \in Nat
      <4> HIDE DEF n, m
      <4> QED BY <3>3, <3>4, FS_Subset, FS_CardinalityType
    <3> DEFINE D == 1 .. m
    <3>6. size \in [D -> Nat] /\ DOMAIN size = D
      BY <3>2, <3>5
    <3> HIDE DEF D, size
    <3>7. SumFunctionOnSet(size, D) \in Nat
      BY <3>4, <3>6, SumsAgree DEF D
    <3> QED BY <3>6, <3>7 DEF SumFunction
  <2>2. PICK a \in Int : a = AtMost(links, 3 * n) /\ 0 <= a /\ a <= 3 * n
    <3> DEFINE k == 3 * n
               x == links
    <3>1. k \in Int /\ x \in Int
      OBVIOUS
    <3>2. Min({x, k}) \in Int /\ Min({x, k}) \in {x, k} /\ Min({x, k}) <= k
      <4> HIDE DEF k, x
      <4> QED BY <3>1, ExtremesOfTwo
    <3> QED BY <3>2 DEF AtMost
  <2>3. PICK b \in Int : b = AtMost(members, n) /\ 0 <= b /\ b <= n
    <3>1. members \in Int /\ n \in Int
      BY <2>1
    <3> HIDE DEF members
    <3>2. /\ Min({members, n}) \in Int /\ Min({members, n}) \in {members, n}
          /\ Min({members, n}) <= n
      <4> HIDE DEF n
      <4> QED BY <3>1, ExtremesOfTwo
    <3> QED BY <2>1, <3>2 DEF AtMost
  <2>4. StructureScore(pages, clusters, links, deep) =
          (40 * a) \div (3 * n) + (40 * b) \div n + (20 * (n - deep)) \div n
    BY <1>1, <2>2, <2>3 DEF StructureScore
  <2> HIDE DEF members
  <2>5. n \in Nat /\ n # 0 /\ deep \in 0 .. n
    BY <1>1
  <2> HIDE DEF n
  <2>6. PICK x \in 0 .. 40 : x = (40 * a) \div (3 * n)
    <3>1. PICK d \in Int : d = 40 * a
      BY <2>2
    <3>2. PICK e \in Int : e = 3 * n /\ e > 0
      BY <2>5
    <3>3. /\ d \in Int /\ e \in Int /\ e > 0
          /\ 0 * e <= d /\ d <= 40 * e
      BY <2>2, <2>5, <3>1, <3>2
    <3>4. d \div e \in 0 .. 40
      BY <3>3, QuotientWithin
    <3>5. d \div e = (40 * a) \div (3 * n)
      BY <3>1, <3>2, Zenon
    <3> QED BY <3>4, <3>5, Zenon
  <2>7. PICK y \in 0 .. 40 : y = (40 * b) \div n
    <3>1. PICK d \in Int : d = 40 * b
      BY <2>3
    <3>2. d \in Int /\ n \in Int /\ n > 0 /\ 0 * n <= d /\ d <= 40 * n
      BY <2>3, <2>5, <3>1
    <3>3. d \div n \in 0 .. 40
      BY <3>2, QuotientWithin
    <3> QED BY <3>1, <3>3
  <2>8. PICK z \in 0 .. 20 : z = (20 * (n - deep)) \div n
    <3>1. PICK d \in Int : /\ d = 20 * (n - deep)
                         /\ 0 <= d /\ d <= 20 * n
      BY <2>5
    <3>2. d \in Int /\ n \in Int /\ n > 0 /\ 0 * n <= d /\ d <= 20 * n
      BY <2>5, <3>1
    <3>3. d \div n \in 0 .. 20
      BY <3>2, QuotientWithin
    <3> QED BY <3>1, <3>3
  <2>9. x + y + z \in 0 .. 100
    OBVIOUS
  <2> QED BY <2>4, <2>6, <2>7, <2>8, <2>9
<1> QED BY <1>0, <1>1

(* The groups in the stored reports and of the site are as they should be. *)
LEMMA GroupsAgree == ETypeOK => GroupsPartition
<1> SUFFICES ASSUME ETypeOK PROVE GroupsPartition
  OBVIOUS
<1>1. ASSUME NEW i \in DOMAIN erow, NEW ko \in erow[i].input,
             NEW k \in ToSet(ko.keywords)
      PROVE  Cardinality({g \in KeywordClusters(ko.keywords) : k \in g}) = 1
  <2> DEFINE keywords == ko.keywords
             groups == KeywordClusters(keywords)
  <2>1. erow[i] \in ReportRow
    BY DEF ETypeOK
  <2>2. ko \in Measure
    BY <2>1, ReportAssumption DEF ReportRow
  <2>3. keywords \in Seq(Keyphrase)
    BY <2>2 DEF Measure
  <2>4. Len(keywords) \in Nat /\ DOMAIN keywords = 1 .. Len(keywords)
    <3> HIDE DEF keywords
    <3> QED BY <2>3
  <2>5. PICK l \in DOMAIN keywords : k = keywords[l]
    BY <1>1 DEF ToSet
  <2> HIDE DEF keywords
  <2>6. Parted(keywords, groups, Len(keywords))
    BY <2>4, KeywordsParted
  <2> HIDE DEF groups
  <2>7. /\ \A g, h \in groups : g = h \/ g \cap h = {}
        /\ k \in UNION groups
    BY <2>4, <2>5, <2>6 DEF Parted
  <2>8. PICK g \in groups : k \in g
    BY <2>7
  <2>9. \A h \in groups : k \in h => h = g
    BY <2>7, <2>8
  <2>10. Cardinality({h \in groups : k \in h}) = 1
    BY <2>8, <2>9, InOneOnly
  <2> QED BY <2>10 DEF groups, keywords
<1> DEFINE pages == epages
<1>2. /\ Len(pages) \in Nat /\ DOMAIN pages = 1 .. Len(pages)
      /\ \A p \in DOMAIN pages : IsFiniteSet(Tok[pages[p]])
  <2>1. pages \in Seq(Keyphrase)
    BY ReportAssumption DEF ETypeOK
  <2> HIDE DEF pages
  <2>2. Len(pages) \in Nat /\ DOMAIN pages = 1 .. Len(pages)
    BY <2>1
  <2>3. \A p \in DOMAIN pages : pages[p] \in Keyphrase
    BY <2>1, <2>2, ElementOfSeq
  <2> QED BY <2>2, <2>3, ReportAssumption
<1> HIDE DEF pages
<1>3. SiteTopics(pages) = {Like(pages, q) : q \in Phrased(pages)}
  BY <1>2, TopicsAre
<1>4. ASSUME NEW p \in Phrased(pages)
      PROVE  LET competing == Cannibalization(pages, p, pages[p])
             IN  /\ Cardinality({g \in SiteTopics(pages) : p \in g}) = 1
                 /\ p \in UNION ToSet(TopicClusters(pages))
                 /\ IF Tok[pages[p]] = {} THEN competing = {}
                    ELSE \A g \in {h \in SiteTopics(pages) : p \in h} :
                           g \ {p} \subseteq competing
  <2>1. p \in DOMAIN pages /\ pages[p] # ""
    BY DEF Phrased
  <2>2. Like(pages, p) \in SiteTopics(pages) /\ p \in Like(pages, p)
    BY <1>3, <2>1 DEF Like
  <2>3. \A g \in SiteTopics(pages) : p \in g => g = Like(pages, p)
    <3>1. ASSUME NEW q \in Phrased(pages), p \in Like(pages, q)
          PROVE  Like(pages, q) = Like(pages, p)
      <4>1. pages[p] = pages[q]
        BY <3>1 DEF Like
      <4> QED BY <4>1 DEF Like
    <3> QED BY <1>3, <3>1
  <2>4. Cardinality({g \in SiteTopics(pages) : p \in g}) = 1
    BY <2>2, <2>3, InOneOnly
  <2>5. p \in UNION ToSet(TopicClusters(pages))
    BY <1>2, <2>1, TopicsCover
  <2>6. IF Tok[pages[p]] = {} THEN Cannibalization(pages, p, pages[p]) = {}
        ELSE Like(pages, p) \ {p} \subseteq Cannibalization(pages, p, pages[p])
    BY <1>2, <2>1, TopicsCompete
  <2> QED BY <2>3, <2>4, <2>5, <2>6
<1>5. ASSUME NEW links \in 0 .. 4 * Len(pages), NEW deep \in 0 .. Len(pages)
      PROVE  StructureScore(pages, TopicClusters(pages), links, deep)
               \in 0 .. 100
  <2>1. links \in Nat
    OBVIOUS
  <2> QED BY <1>2, <2>1, StructureWithin
<1> QED BY Zenon, <1>1, <1>4, <1>5 DEF GroupsPartition, pages, SiteTopics

(* The reviews that are owed a draft, and those before one of them.        *)
Worrying(review) ==
  Sentiment(review) = "negative" /\ review.words \in DraftsAllowed
Earlier(reviews, i) == {j \in 1 .. i - 1 : Worrying(reviews[j])}
Owed(reviews) ==
  {i \in DOMAIN reviews : Worrying(reviews[i]) /\ reviews[i].answers}

(* A draft answers the pressing reviews before the limit, and no other.    *)
LEMMA DraftsAreOwed ==
  ASSUME NEW reviews \in Seq(Review)
  PROVE  ResponseDrafts(reviews) =
           {i \in Owed(reviews) : Cardinality(Earlier(reviews, i)) < DraftLimit}
<1> DEFINE n == Len(reviews)
           P == Pressing(reviews)
           key == [i \in P |-> i]
           q == Ordered(P, key)
           c == Cardinality(P)
           m == Min({DraftLimit, c})
<1>1. n \in Nat /\ reviews \in [1 .. n -> Review] /\ DraftLimit \in Nat
  BY GrowthReportAssumption
<1>2. P = {i \in 1 .. n : Worrying(reviews[i])}
  <2>1. \A i \in 1 .. n : (Urgency(reviews[i]) \in DraftsAllowed)
                             = (reviews[i].words \in DraftsAllowed)
    BY <1>1 DEF Urgency, DraftsAllowed
  <2> HIDE DEF n
  <2> QED BY <1>1, <2>1 DEF Pressing, NegativeFlags, Worrying
<1>3. IsFiniteSet(P) /\ P \subseteq Int /\ c \in Nat
  <2>1. 1 \in Int /\ n \in Int /\ P \subseteq 1 .. n
    BY <1>1, <1>2
  <2>2. IsFiniteSet(1 .. n)
    BY <2>1, FS_Interval
  <2> HIDE DEF P, n
  <2>3. IsFiniteSet(P)
    BY <2>1, <2>2, FS_Subset
  <2> QED BY <2>1, <2>3, FS_CardinalityType
<1>4. key \in [P -> Int] /\ \A i \in P : key[i] = i
  BY <1>3
<1>5. Orders(q, P, key)
  <2> HIDE DEF P, key
  <2> QED BY <1>3, <1>4, OrderedSorts
<1>6. /\ q \in [1 .. c -> P]
      /\ \A i \in P : /\ Cardinality(UpTo(P, key, i)) \in 1 .. c
                      /\ q[Cardinality(UpTo(P, key, i))] = i
      /\ \A k \in 1 .. c : Cardinality(UpTo(P, key, q[k])) = k
  <2> HIDE DEF P, key, q
  <2> QED BY <1>5 DEF Orders
<1>7. ASSUME NEW i \in P
      PROVE  /\ Cardinality(Earlier(reviews, i)) \in Nat
             /\ Cardinality(UpTo(P, key, i)) =
                  Cardinality(Earlier(reviews, i)) + 1
  <2> DEFINE A == Earlier(reviews, i)
             u == {i}
             U == UpTo(P, key, i)
  <2>1. A = {j \in P : j < i}
    BY <1>1, <1>2 DEF Earlier
  <2>2. U = {j \in P : j <= i}
    <3>1. \A j \in P : (key[j] < key[i] \/ (key[j] = key[i] /\ j <= i))
                          = (j <= i)
      BY <1>3, <1>4
    <3> HIDE DEF P, key
    <3> QED BY <3>1 DEF UpTo
  <2>3. U = A \cup u /\ i \notin A /\ A \subseteq P
    <3> HIDE DEF P, U, A
    <3>1. \A j \in P : (j <= i) = (j < i \/ j = i)
      BY <1>3
    <3>2. ~(i < i) /\ i <= i
      BY <1>3
    <3> QED BY <2>1, <2>2, <3>1, <3>2
  <2>4. IsFiniteSet(A)
    <3> HIDE DEF P, A
    <3> QED BY <1>3, <2>3, FS_Subset
  <2> HIDE DEF P, U, A
  <2>5. Cardinality(A \cup u) = Cardinality(A) + 1
    BY <2>3, <2>4, FS_AddElement
  <2> QED BY <2>3, <2>4, <2>5, FS_CardinalityType DEF A, U
<1>8. m \in Int /\ m \in {DraftLimit, c} /\ m <= DraftLimit /\ m <= c
  <2> HIDE DEF c
  <2>1. DraftLimit \in Int /\ c \in Int
    BY <1>1, <1>3
  <2> QED BY <2>1, ExtremesOfTwo
<1>9. ResponseDrafts(reviews) =
        {q[k] : k \in {l \in 1 .. m : reviews[q[l]].answers}}
  <2>1. InOrder(P) = q
    BY DEF InOrder
  <2>2. Len(q) = c
    <3> HIDE DEF P, key, q
    <3>1. q \in Seq(P)
      BY <1>3, <1>6
    <3> QED BY <1>3, <1>6, <3>1
  <2> HIDE DEF P, q, c
  <2> QED BY <2>1, <2>2 DEF ResponseDrafts, P
<1>10. \A i : i \in Owed(reviews) <=> i \in P /\ reviews[i].answers
  BY <1>1, <1>2 DEF Owed
<1> HIDE DEF P, key, q, c, m, n
<1>11. ASSUME NEW k \in 1 .. m, reviews[q[k]].answers
       PROVE  /\ q[k] \in Owed(reviews)
              /\ Cardinality(Earlier(reviews, q[k])) < DraftLimit
  <2>1. k \in 1 .. c /\ q[k] \in P
    BY <1>3, <1>6, <1>8
  <2>2. Cardinality(Earlier(reviews, q[k])) + 1 = k
    BY <1>6, <1>7, <2>1
  <2>3. Cardinality(Earlier(reviews, q[k])) \in Nat
    BY <1>7, <2>1
  <2>4. k <= DraftLimit
    BY <1>1, <1>8
  <2> QED BY <1>1, <1>10, <1>11, <2>1, <2>2, <2>3, <2>4
<1>12. ASSUME NEW i \in Owed(reviews),
              Cardinality(Earlier(reviews, i)) < DraftLimit
       PROVE  \E k \in {l \in 1 .. m : reviews[q[l]].answers} : i = q[k]
  <2>1. i \in P /\ reviews[i].answers
    BY <1>10
  <2>2. PICK k \in 1 .. c : /\ k = Cardinality(Earlier(reviews, i)) + 1
                            /\ q[k] = i
    BY <1>6, <1>7, <2>1
  <2>3. k <= DraftLimit
    BY <1>1, <1>7, <1>12, <2>1, <2>2
  <2>4. k \in 1 .. m
    BY <1>3, <1>8, <2>2, <2>3
  <2> QED BY <2>1, <2>2, <2>4
<1> QED BY <1>9, <1>11, <1>12

(* The mean of numbers within bounds is within them.                       *)
LEMMA MeanWithin ==
  ASSUME NEW n \in Nat, n # 0, NEW lo \in Int, NEW hi \in Int,
         NEW s \in [1 .. n -> lo .. hi]
  PROVE  Mean(s) \in lo .. hi
<1> DEFINE D == 1 .. n
           total == SumFunctionOnSet(s, D)
<1>1. IsFiniteSet(D) /\ Cardinality(D) = n
  <2>1. 1 \in Int /\ n \in Int /\ n >= 1
    OBVIOUS
  <2> QED BY <2>1, FS_Interval
<1>2. DOMAIN s = D /\ s \in [D -> lo .. hi]
  OBVIOUS
<1> HIDE DEF D
<1>3. total \in Int /\ lo * n <= total /\ total <= hi * n
  BY <1>1, <1>2, SumWithin
<1>4. s \in Seq(lo .. hi) /\ Len(s) = n
  BY DEF D
<1>5. Mean(s) = total \div n
  BY <1>2, <1>4 DEF Mean, SumFunction
<1> HIDE DEF total
<1>6. total \div n \in lo .. hi
  BY <1>3, QuotientWithin
<1> QED BY <1>5, <1>6

(* The mean of whole numbers is one.                                       *)
LEMMA MeanIsWhole ==
  ASSUME NEW n \in Nat, n # 0, NEW s \in [1 .. n -> Int]
  PROVE  Mean(s) \in Int
<1> DEFINE D == 1 .. n
           total == SumFunctionOnSet(s, D)
<1>1. IsFiniteSet(D)
  <2>1. 1 \in Int /\ n \in Int
    OBVIOUS
  <2> QED BY <2>1, FS_Interval
<1>2. DOMAIN s = D /\ s \in [D -> Int]
  OBVIOUS
<1>3. s \in Seq(Int) /\ Len(s) = n
  OBVIOUS
<1> HIDE DEF D
<1>4. total \in Int
  BY <1>1, <1>2, IntegerSums
<1>5. Mean(s) = total \div n
  BY <1>2, <1>3 DEF Mean, SumFunction
<1> HIDE DEF total
<1> QED BY <1>4, <1>5

(* Nor does it depend on the order they come in.                           *)
LEMMA MeanIgnoresOrder ==
  ASSUME NEW n \in Nat, NEW s \in [1 .. n -> Int], NEW t \in [1 .. n -> Int],
         \A i \in 1 .. n : t[i] = s[n - i + 1]
  PROVE  Mean(t) = Mean(s)
<1> DEFINE D == 1 .. n
           p == [i \in D |-> n - i + 1]
<1>1. IsFiniteSet(D)
  <2>1. 1 \in Int /\ n \in Int
    OBVIOUS
  <2> QED BY <2>1, FS_Interval
<1>2. p \in [D -> D] /\ \A i \in D : p[p[i]] = i /\ t[i] = s[p[i]]
  OBVIOUS
<1>3. DOMAIN s = D /\ DOMAIN t = D /\ s \in [D -> Int] /\ t \in [D -> Int]
  OBVIOUS
<1>4. Len(s) = n /\ Len(t) = n
  <2>1. s \in Seq(Int) /\ t \in Seq(Int)
    OBVIOUS
  <2> QED BY <2>1
<1> HIDE DEF D, p
<1>5. Mirrors(t, D, s, p)
  BY <1>1, <1>2, <1>3 DEF Mirrors
<1>6. SumFunctionOnSet(t, D) = SumFunctionOnSet(s, D)
  BY <1>5, SumReindexed
<1> QED BY <1>3, <1>4, <1>6 DEF Mean, SumFunction

(* A function on 1 .. n, and the same the other way round.                 *)
Backward(t, s, n, S) ==
  /\ n \in Nat /\ n # 0 /\ s \in [1 .. n -> S] /\ t \in [1 .. n -> S]
  /\ \A i \in 1 .. n : t[i] = s[n - i + 1]

(* The mean of a list is that of the list read backward.                   *)
LEMMA MeanOfBackward ==
  ASSUME NEW t, NEW s, NEW n, NEW lo \in Int, NEW hi \in Int,
         Backward(t, s, n, lo .. hi)
  PROVE  Mean(s) \in lo .. hi /\ Mean(t) = Mean(s)
<1>1. /\ n \in Nat /\ n # 0
      /\ s \in [1 .. n -> lo .. hi] /\ t \in [1 .. n -> lo .. hi]
  BY DEF Backward
<1>2. s \in [1 .. n -> Int] /\ t \in [1 .. n -> Int]
  BY <1>1
<1>3. \A i \in 1 .. n : t[i] = s[n - i + 1]
  BY DEF Backward
<1> QED BY <1>1, <1>2, <1>3, MeanWithin, MeanIgnoresOrder

(* What a sequence of reviews backwards is.                                *)
LEMMA Backwards ==
  ASSUME NEW S, NEW s \in Seq(S)
  PROVE  /\ Reverse(s) \in Seq(S) /\ Len(Reverse(s)) = Len(s)
         /\ \A i \in 1 .. Len(s) : Reverse(s)[i] = s[Len(s) - i + 1]
<1>1. Reverse(s) = [i \in 1 .. Len(s) |-> s[(Len(s) - i) + 1]]
  BY DEF Reverse
<1>2. \A i \in 1 .. Len(s) : (Len(s) - i) + 1 \in 1 .. Len(s)
  OBVIOUS
<1>3. \A i \in 1 .. Len(s) : s[(Len(s) - i) + 1] \in S
  BY <1>2, ElementOfSeq
<1>4. Reverse(s) \in [1 .. Len(s) -> S]
  BY <1>1, <1>3
<1>5. Reverse(s) \in Seq(S) /\ Len(Reverse(s)) = Len(s)
  BY <1>4, LenProperties
<1> QED BY <1>1, <1>5

(* The lesser of two numbers is within either.                             *)
LEMMA LesserWithin ==
  ASSUME NEW a \in Nat, NEW b \in Nat
  PROVE  Min({a, b}) \in 0 .. b /\ Min({a, b}) \in 0 .. a
<1>1. /\ Min({a, b}) \in Int /\ Min({a, b}) \in {a, b}
      /\ Min({a, b}) <= a /\ Min({a, b}) <= b
  BY ExtremesOfTwo
<1>2. PICK m \in Int : m = Min({a, b})
  BY <1>1
<1> QED BY <1>1, <1>2

(* The scales of the score of reviews.                                     *)
MoodScale == (0 - 1000) .. 1000
Half(m) == (1000 + m) \div 2
Weighed(r, s, m, z) ==
  (350 * r + 300 * s + 150 * 10 * m + 200 * z) \div 1000

(* The weighed scores stay on the scale.                                   *)
LEMMA ScalesKept ==
  /\ 500 \in Scale /\ Half(0) \in Scale /\ 100 \in Nat /\ Scale \subseteq Int
  /\ \A m \in MoodScale : Half(m) \in Scale
  /\ \A r, s \in Scale : \A m \in 0 .. 100 : \A z \in {500, 1000} :
       Weighed(r, s, m, z) \in Scale
<1>1. 500 \in Scale /\ Half(0) \in Scale /\ 100 \in Nat /\ Scale \subseteq Int
  BY SMT DEF Scale, Half
<1>2. \A m \in MoodScale : Half(m) \in Scale
  BY SMT DEF Scale, MoodScale, Half
<1>3. \A r, s \in Scale : \A m \in 0 .. 100 : \A z \in {500, 1000} :
        Weighed(r, s, m, z) \in Scale
  BY SMT DEF Scale, Weighed
<1> QED BY <1>1, <1>2, <1>3

(* One to five stars, as most reviews carry.                               *)
Starred(review) == review.rating \in 10 .. 50

(* What a review says of itself: its stars, and its mood.                  *)
LEMMA ReviewValues ==
  ASSUME NEW review \in Review
  PROVE  /\ 25 * (review.rating - 10) \in Int
         /\ Starred(review) => 25 * (review.rating - 10) \in Scale
         /\ Polarity(review) \in MoodScale
<1>1. /\ review.rating \in Int /\ review.model.score \in Int
      /\ Sentiment(review) \in {"positive", "neutral", "negative"}
  <2>1. review.rating \in Int /\ review.model \in Opinion
    BY DEF Review
  <2>2. /\ review.model.score \in Int
        /\ review.model.label \in {"positive", "neutral", "negative", "other"}
    BY <2>1 DEF Opinion
  <2> QED BY <2>1, <2>2 DEF Sentiment, Heuristic
<1>2. /\ 25 * (review.rating - 10) \in Int
      /\ Starred(review) => 25 * (review.rating - 10) \in Scale
  BY SMT, <1>1 DEF Scale, Starred
<1>3. PICK score \in Int : score = review.model.score
  BY <1>1
<1>4. (IF score < -1000 THEN -1000 ELSE IF score > 1000 THEN 1000 ELSE score)
        \in MoodScale
  BY SMT DEF MoodScale
<1>5. \A x \in {1, 0, -1} : 800 * x \in MoodScale /\ 700 * x \in MoodScale
  BY SMT DEF MoodScale
<1>6. [positive |-> 1, neutral |-> 0, negative |-> -1][Sentiment(review)]
        \in {1, 0, -1}
  BY <1>1
<1>7. Polarity(review) \in MoodScale
  <2> DEFINE x == [positive |-> 1, neutral |-> 0, negative |-> -1]
                    [Sentiment(review)]
  <2>1. Polarity(review) =
          CASE review.model.how = "error" -> 800 * x
            [] review.model.how = "words" -> 700 * x
            [] OTHER -> IF score < -1000 THEN -1000
                        ELSE IF score > 1000 THEN 1000 ELSE score
    BY <1>3 DEF Polarity
  <2>2. x \in {1, 0, -1}
    BY <1>6
  <2> HIDE DEF x
  <2> QED BY <1>4, <1>5, <2>1, <2>2
<1> QED BY <1>2, <1>7

(* Reviews of one to five stars each.                                      *)
Rating(reviews) == \A i \in DOMAIN reviews : Starred(reviews[i])

(* What reviews say, and what the same say in the other order.             *)
LEMMA ReviewsBackward ==
  ASSUME NEW reviews \in Seq(Review), Len(reviews) # 0
  PROVE  LET back == Reverse(reviews)
         IN  /\ Backward(Stars(back), Stars(reviews), Len(reviews), Int)
             /\ Rating(reviews) =>
                  Backward(Stars(back), Stars(reviews), Len(reviews), Scale)
             /\ Backward(Moods(back), Moods(reviews), Len(reviews), MoodScale)
<1> DEFINE n == Len(reviews)
           back == Reverse(reviews)
           N == 1 .. n
<1>1. /\ n \in Nat /\ n # 0 /\ back \in Seq(Review) /\ Len(back) = n
      /\ DOMAIN reviews = N /\ DOMAIN back = N
      /\ \A i \in N : back[i] = reviews[n - i + 1]
  BY Backwards
<1>2. \A i \in N : reviews[i] \in Review /\ back[i] \in Review
  BY <1>1, ElementOfSeq
<1>3. \A i \in N : n - i + 1 \in N
  BY <1>1
<1>4. ASSUME NEW s, DOMAIN s = N, \A i \in N : s[i] \in Review
      PROVE  /\ Stars(s) \in [N -> Int] /\ Moods(s) \in [N -> MoodScale]
             /\ Rating(s) => Stars(s) \in [N -> Scale]
  <2>1. ASSUME NEW i \in N
        PROVE  /\ 25 * (s[i].rating - 10) \in Int
               /\ Starred(s[i]) => 25 * (s[i].rating - 10) \in Scale
               /\ Polarity(s[i]) \in MoodScale
    <3>1. s[i] \in Review
      BY <1>4
    <3> QED BY <3>1, ReviewValues
  <2> HIDE DEF N
  <2>2. Stars(s) \in [N -> Int]
    BY <1>4, <2>1 DEF Stars
  <2>3. Moods(s) \in [N -> MoodScale]
    BY <1>4, <2>1 DEF Moods
  <2>4. Rating(s) => Stars(s) \in [N -> Scale]
    <3> SUFFICES ASSUME Rating(s) PROVE Stars(s) \in [N -> Scale]
      OBVIOUS
    <3>1. \A i \in N : 25 * (s[i].rating - 10) \in Scale
      BY <1>4, <2>1 DEF Rating
    <3> QED BY <1>4, <3>1 DEF Stars
  <2> QED BY <2>2, <2>3, <2>4
<1> HIDE DEF back
<1>5. ASSUME NEW i \in N
      PROVE  /\ Stars(back)[i] = Stars(reviews)[n - i + 1]
             /\ Moods(back)[i] = Moods(reviews)[n - i + 1]
  <2> DEFINE j == n - i + 1
  <2>1. j \in N /\ back[i] = reviews[j]
    BY <1>1, <1>3
  <2> HIDE DEF j, N
  <2>2. Stars(back)[i] = 25 * (back[i].rating - 10)
    BY <1>1 DEF Stars
  <2>3. Stars(reviews)[j] = 25 * (reviews[j].rating - 10)
    BY <1>1, <2>1 DEF Stars
  <2>4. Moods(back)[i] = Moods(reviews)[j]
    BY <1>1, <2>1 DEF Moods
  <2> QED BY <2>1, <2>2, <2>3, <2>4 DEF j
<1>6. Rating(reviews) => Rating(back)
  BY <1>1, <1>3 DEF Rating
<1>7. /\ Stars(reviews) \in [N -> Int] /\ Moods(reviews) \in [N -> MoodScale]
      /\ Stars(back) \in [N -> Int] /\ Moods(back) \in [N -> MoodScale]
      /\ Rating(reviews) =>
           Stars(reviews) \in [N -> Scale] /\ Stars(back) \in [N -> Scale]
  <2> HIDE DEF N
  <2> QED BY <1>1, <1>2, <1>4, <1>6
<1> HIDE DEF n
<1>8. Backward(Stars(back), Stars(reviews), n, Int)
  BY <1>1, <1>5, <1>7 DEF Backward
<1>9. Rating(reviews) => Backward(Stars(back), Stars(reviews), n, Scale)
  BY <1>1, <1>5, <1>7 DEF Backward
<1>10. Backward(Moods(back), Moods(reviews), n, MoodScale)
  BY <1>1, <1>5, <1>7 DEF Backward
<1> QED BY <1>8, <1>9, <1>10 DEF n, back

(* The means of ratings and of moods are on their scales.                  *)
LEMMA MeansWithin ==
  ASSUME NEW t, NEW s, NEW n
  PROVE  /\ Backward(t, s, n, Int) => Mean(s) \in Int /\ Mean(t) = Mean(s)
         /\ Backward(t, s, n, Scale) => Mean(s) \in Scale
         /\ Backward(t, s, n, MoodScale) =>
              Mean(s) \in MoodScale /\ Mean(t) = Mean(s)
<1>1. PICK l \in Int, h \in Int : l = 0 - 1000 /\ h = 1000
  BY SMT
<1>2. PICK z \in Int, k \in Int : z = 0 /\ k = 1000
  BY SMT
<1>3. Scale = z .. k /\ MoodScale = l .. h
  BY SMT, <1>1, <1>2 DEF Scale, MoodScale
<1>4. ASSUME Backward(t, s, n, Int)
      PROVE  Mean(s) \in Int /\ Mean(t) = Mean(s)
  <2>1. /\ n \in Nat /\ n # 0 /\ s \in [1 .. n -> Int] /\ t \in [1 .. n -> Int]
        /\ \A i \in 1 .. n : t[i] = s[n - i + 1]
    BY <1>4 DEF Backward
  <2>2. Mean(s) \in Int
    BY <2>1, MeanIsWhole
  <2> QED BY <2>1, <2>2, MeanIgnoresOrder
<1> QED BY <1>3, <1>4, MeanOfBackward

(* The score of reviews is that of the same reviews in the other order, and*)
(* within its scale if the ratings are.                                    *)
LEMMA ReviewsScored ==
  ASSUME NEW reviews \in Seq(Review)
  PROVE  /\ ReputationScore(reviews) = ReputationScore(Reverse(reviews))
         /\ Rating(reviews) => ReputationScore(reviews) \in Scale
<1> DEFINE n == Len(reviews)
           back == Reverse(reviews)
<1>1. /\ n \in Nat /\ back \in Seq(Review) /\ Len(back) = n
      /\ DOMAIN reviews = 1 .. n /\ DOMAIN back = 1 .. n
      /\ \A i \in 1 .. n : back[i] = reviews[n - i + 1]
  BY Backwards
<1> HIDE DEF back
<1>5. (reviews = <<>>) = (n = 0) /\ (back = <<>>) = (n = 0)
  BY <1>1, EmptySeq
<1> HIDE DEF n
<1>6. HasCritical(back) = HasCritical(reviews)
  <2>1. ASSUME NEW i \in 1 .. n
        PROVE  /\ n - i + 1 \in 1 .. n /\ n - (n - i + 1) + 1 = i
    BY <1>1
  <2>2. \A i \in 1 .. n : reviews[i] = back[n - i + 1]
    BY <1>1, <2>1
  <2>3. \A i : i \in NegativeFlags(reviews)
                 <=> i \in 1 .. n /\ Sentiment(reviews[i]) = "negative"
    BY <1>1 DEF NegativeFlags
  <2>4. \A i : i \in NegativeFlags(back)
                 <=> i \in 1 .. n /\ Sentiment(back[i]) = "negative"
    BY <1>1 DEF NegativeFlags
  <2>5. HasCritical(back) => HasCritical(reviews)
    BY <1>1, <2>1, <2>3, <2>4 DEF HasCritical
  <2>6. HasCritical(reviews) => HasCritical(back)
    BY <2>1, <2>2, <2>3, <2>4 DEF HasCritical
  <2>7. HasCritical(reviews) \in BOOLEAN /\ HasCritical(back) \in BOOLEAN
    BY DEF HasCritical
  <2> QED BY <2>5, <2>6, <2>7
<1>7. n # 0 => /\ Mean(Stars(reviews)) \in Int
               /\ Rating(reviews) => Mean(Stars(reviews)) \in Scale
               /\ Mean(Moods(reviews)) \in MoodScale
               /\ Mean(Stars(back)) = Mean(Stars(reviews))
               /\ Mean(Moods(back)) = Mean(Moods(reviews))
  <2> SUFFICES ASSUME n # 0
               PROVE  /\ Mean(Stars(reviews)) \in Int
                      /\ Rating(reviews) => Mean(Stars(reviews)) \in Scale
                      /\ Mean(Moods(reviews)) \in MoodScale
                      /\ Mean(Stars(back)) = Mean(Stars(reviews))
                      /\ Mean(Moods(back)) = Mean(Moods(reviews))
    OBVIOUS
  <2>1. /\ Backward(Stars(back), Stars(reviews), n, Int)
        /\ Rating(reviews) => Backward(Stars(back), Stars(reviews), n, Scale)
        /\ Backward(Moods(back), Moods(reviews), n, MoodScale)
    BY ReviewsBackward DEF n, back
  <2> QED BY <2>1, MeansWithin
<1>8. PICK r \in Int : /\ r = RatingScore(reviews) /\ r = RatingScore(back)
                       /\ Rating(reviews) => r \in Scale
  <2>1. CASE n = 0
    <3>1. RatingScore(reviews) = 500 /\ RatingScore(back) = 500
      BY <1>5, <2>1 DEF RatingScore
    <3>2. 500 \in Scale /\ 500 \in Int
      BY ScalesKept
    <3> QED BY Zenon, <3>1, <3>2
  <2>2. CASE n # 0
    BY <1>5, <1>7, <2>2 DEF RatingScore
  <2> QED BY <2>1, <2>2
<1>9. PICK s \in Scale :
        s = SentimentScore(reviews) /\ s = SentimentScore(back)
  <2>1. CASE n = 0
    <3>1. SentimentScore(reviews) = Half(0)
      BY <1>5, <2>1 DEF SentimentScore, Half
    <3>2. SentimentScore(back) = Half(0)
      BY <1>5, <2>1 DEF SentimentScore, Half
    <3> QED BY <3>1, <3>2, ScalesKept
  <2>2. CASE n # 0
    <3>1. PICK m \in MoodScale : m = Mean(Moods(reviews))
      BY <1>7, <2>2
    <3>2. SentimentScore(reviews) = Half(m)
      BY <1>5, <2>2, <3>1 DEF SentimentScore, Half
    <3>3. SentimentScore(back) = Half(m)
      BY <1>5, <1>7, <2>2, <3>1 DEF SentimentScore, Half
    <3> QED BY <3>1, <3>2, <3>3, ScalesKept
  <2> QED BY <2>1, <2>2
<1>10. PICK m \in 0 .. 100 : m = Min({n, 100})
  <2>1. n \in Nat /\ 100 \in Nat
    BY <1>1, ScalesKept
  <2>2. Min({n, 100}) \in 0 .. 100
    BY <2>1, LesserWithin
  <2> QED BY <2>2
<1>11. PICK z \in {500, 1000} :
         z = IF HasCritical(reviews) THEN 500 ELSE 1000
  OBVIOUS
<1>12. ReputationScore(reviews) = Weighed(r, s, m, z)
  BY <1>8, <1>9, <1>10, <1>11 DEF ReputationScore, n, Weighed
<1>13. ReputationScore(back) = Weighed(r, s, m, z)
  BY <1>1, <1>6, <1>8, <1>9, <1>10, <1>11 DEF ReputationScore, Weighed
<1>14. Rating(reviews) => Weighed(r, s, m, z) \in Scale
  <2>1. \A x, y \in Scale : \A v \in 0 .. 100 : \A w \in {500, 1000} :
          Weighed(x, y, v, w) \in Scale
    BY ScalesKept
  <2>2. \A x \in Scale : Weighed(x, s, m, z) \in Scale
    BY SMT, <2>1
  <2> QED BY Zenon, <1>8, <2>2
<1> QED BY <1>12, <1>13, <1>14 DEF back

(* What disagrees in a list of records is what disagrees in the set of them*)
(* and in the list backwards, and their score is within its scale.         *)
Conflicts(T) == UNION {Disagreements(a, b) : a \in T, b \in T}
Located(x, y, z) == (400 * x + 300 * y + 200 * z + 100 * 1000) \div 1000

(* The weighed local scores stay on the scale.                             *)
LEMMA LocatedWithin ==
  \A x \in {500, 1000} : \A y \in {0, 865} : \A z \in {0, 920} :
    Located(x, y, z) \in Scale
BY SMT DEF Located, Scale

(* Consistency of the records and their score ignore their order.          *)
LEMMA RecordsScored ==
  ASSUME NEW S, NEW records \in Seq(S)
  PROVE  /\ NapConsistency(records) = NapConsistency(Reverse(records))
         /\ (NapConsistency(records) = {}) =
              \A a, b \in ToSet(records) : Disagreements(a, b) = {}
         /\ LocalSeoScore(records) \in Scale
<1> DEFINE n == Len(records)
           back == Reverse(records)
<1>1. /\ n \in Nat /\ DOMAIN records = 1 .. n /\ DOMAIN back = 1 .. n
      /\ \A i \in 1 .. n : back[i] = records[n - i + 1]
  BY Backwards
<1> HIDE DEF back, n
<1>2. ToSet(back) = ToSet(records)
  <2>1. ASSUME NEW i \in 1 .. n
        PROVE  /\ n - i + 1 \in 1 .. n /\ n - (n - i + 1) + 1 = i
    BY <1>1
  <2>2. \A i \in 1 .. n : records[i] = back[n - i + 1]
    BY <1>1, <2>1
  <2>3. ToSet(back) \subseteq ToSet(records)
    BY <1>1, <2>1 DEF ToSet
  <2>4. ToSet(records) \subseteq ToSet(back)
    BY <1>1, <2>1, <2>2 DEF ToSet
  <2> QED BY <2>3, <2>4
<1>3. \A s : NapConsistency(s) = Conflicts(ToSet(s))
  BY DEF NapConsistency, ToSet, Conflicts
<1>4. NapConsistency(records) = NapConsistency(back)
  BY <1>2, <1>3
<1>5. (NapConsistency(records) = {}) =
        \A a, b \in ToSet(records) : Disagreements(a, b) = {}
  <2> DEFINE T == ToSet(records)
  <2> HIDE DEF T
  <2>1. \A f : f \in Conflicts(T) <=>
                 \E a \in T, b \in T : f \in Disagreements(a, b)
    BY DEF Conflicts
  <2>2. (Conflicts(T) = {}) <=> \A a \in T, b \in T : Disagreements(a, b) = {}
    BY <2>1
  <2>3. NapConsistency(records) = Conflicts(T)
    BY <1>3 DEF T
  <2>4. (NapConsistency(records) = {}) <=>
           \A a, b \in ToSet(records) : Disagreements(a, b) = {}
    BY <2>2, <2>3 DEF T
  <2> QED BY <2>4
<1>6. LocalSeoScore(records) \in Scale
  <2>1. PICK x \in {500, 1000} :
          x = IF NapConsistency(records) = {} THEN 1000 ELSE 500
    OBVIOUS
  <2>2. PICK y \in {0, 865} :
          y = IF Locations(records) # {} THEN 865 ELSE 0
    OBVIOUS
  <2>3. PICK z \in {0, 920} :
          z = IF Locations(records) # {} THEN 920 ELSE 0
    OBVIOUS
  <2>4. LocalSeoScore(records) = Located(x, y, z)
    BY <2>1, <2>2, <2>3 DEF LocalSeoScore, Located
  <2>5. Located(x, y, z) \in Scale
    BY LocatedWithin
  <2> QED BY <2>4, <2>5
<1>7. NapConsistency(records) = NapConsistency(Reverse(records))
  BY <1>4 DEF back
<1> QED BY Zenon, <1>5, <1>6, <1>7

(* The means of what a content offers are within their scale.              *)
LEMMA MeanIfAnyWithin ==
  ASSUME NEW n \in Nat, NEW s \in [1 .. n -> Scale]
  PROVE  MeanIfAny(s) \in Scale
<1>1. PICK z \in Int, k \in Int : z = 0 /\ k = 1000
  BY SMT
<1>2. Scale = z .. k
  BY SMT, <1>1 DEF Scale
<1>3. CASE n = 0
  <2>1. s = <<>>
    BY <1>3
  <2>2. 1000 \in Scale
    BY SMT DEF Scale
  <2> QED BY <2>1, <2>2 DEF MeanIfAny
<1>4. CASE n # 0
  <2>1. s # <<>>
    <3>1. DOMAIN s = 1 .. n /\ 1 \in 1 .. n
      BY <1>4
    <3>2. DOMAIN <<>> = {}
      OBVIOUS
    <3> QED BY <3>1, <3>2
  <2>2. Mean(s) \in Scale
    BY <1>2, <1>4, MeanWithin
  <2> QED BY <2>1, <2>2 DEF MeanIfAny
<1> QED BY <1>3, <1>4

(* The score of a content is within its scale.                             *)
Optimal(a, b, i, e) == (a + b + i + e) \div 4

(* The mean of four scores is on their scale.                              *)
LEMMA OptimalWithin ==
  /\ \A a, b, i, e \in Scale : Optimal(a, b, i, e) \in Scale
  /\ \A c \in Nat : 300 \in Int /\ 1000 - 180 * c \in Int
  /\ \A x \in Int : x <= 1000 /\ 300 <= x => x \in Scale
  /\ \A c \in Nat : 1000 - 180 * c <= 1000
  /\ {580, 720, 350, 800, 750, 900, 550} \subseteq Scale
  /\ 300 <= 1000
<1>1. \A a, b, i, e \in Scale : Optimal(a, b, i, e) \in Scale
  BY SMT DEF Scale, Optimal
<1>2. /\ \A c \in Nat : 300 \in Int /\ 1000 - 180 * c \in Int
      /\ \A c \in Nat : 1000 - 180 * c <= 1000
      /\ 300 <= 1000
  BY SMT
<1>3. /\ \A x \in Int : x <= 1000 /\ 300 <= x => x \in Scale
      /\ {580, 720, 350, 800, 750, 900, 550} \subseteq Scale
  BY SMT DEF Scale
<1> QED BY <1>1, <1>2, <1>3

(* The optimization score of a content is on the scale.                    *)
LEMMA ContentScored ==
  ASSUME NEW c \in Content, IsFiniteSet(c.lacks)
  PROVE  OptimizationScore(c) \in Scale
<1>1. /\ Len(c.questions) \in Nat /\ SnippetLimit \in Nat /\ PaaLimit \in Nat
      /\ c.intent \in {"none", "unknown", "matching", "other"}
  BY GrowthReportAssumption DEF Content
<1>2. PICK m \in Nat, n \in Nat : /\ m = Min({SnippetLimit, Len(c.questions)})
                                  /\ n = Min({PaaLimit, Len(c.questions)})
  <2>1. /\ Min({SnippetLimit, Len(c.questions)}) \in 0 .. SnippetLimit
        /\ Min({PaaLimit, Len(c.questions)}) \in 0 .. PaaLimit
    BY <1>1, LesserWithin
  <2> QED BY <1>1, <2>1
<1>3. SnippetOpportunities(c) \in [1 .. m -> Scale]
  BY <1>2, OptimalWithin DEF SnippetOpportunities
<1>4. PaaOpportunities(c) \in [1 .. n -> Scale]
  BY <1>2, OptimalWithin DEF PaaOpportunities
<1>5. PICK a \in Scale, b \in Scale :
        /\ a = MeanIfAny(SnippetOpportunities(c))
        /\ b = MeanIfAny(PaaOpportunities(c))
  BY <1>3, <1>4, MeanIfAnyWithin
<1>6. PICK i \in Scale : i = IntentMatch(c)
  BY <1>1, OptimalWithin DEF IntentMatch
<1>7. PICK k \in Nat : k = Cardinality(EeatRecommendations(c))
  BY FS_Singleton, FS_CardinalityType DEF EeatRecommendations
<1>8. PICK e \in Scale : e = Max({300, 1000 - 180 * k})
  <2> DEFINE x == 300
             y == 1000 - 180 * k
             g == Max({x, y})
  <2>1. y <= 1000 /\ x <= 1000
    BY OptimalWithin
  <2>2. g \in Int /\ g \in {x, y} /\ x <= g
    <3>1. x \in Int /\ y \in Int
      BY OptimalWithin
    <3> HIDE DEF x, y
    <3> QED BY <3>1, ExtremesOfTwo
  <2>3. g <= 1000
    <3> HIDE DEF x, y, g
    <3> QED BY <2>1, <2>2
  <2>4. g \in Scale
    <3> HIDE DEF g
    <3> QED BY <2>2, <2>3, OptimalWithin
  <2> QED BY <2>4
<1>9. OptimizationScore(c) = Optimal(a, b, i, e)
  BY <1>5, <1>6, <1>7, <1>8 DEF OptimizationScore, Optimal
<1>10. Optimal(a, b, i, e) \in Scale
  BY OptimalWithin
<1> QED BY <1>9, <1>10

(* What a report on pages or reviews is computed from.                     *)
LEMMA InputsAre ==
  /\ \A s \in Inputs("local_seo") : s \in Seq(Nap)
  /\ \A s \in Inputs("reputation") : s \in Seq(Review)
  /\ \A s \in Inputs("content_optimization") : s[1] \in Contents
<1>1. ASSUME NEW s \in Inputs("local_seo") PROVE s \in Seq(Nap)
  <2>1. PICK p \in Pages : s = NapData(p)
    BY <1>1 DEF Inputs
  <2> DEFINE n == Len(p)
             q == [i \in DOMAIN p |-> p[i].schema \o p[i].contact]
  <2>2. /\ n \in Nat /\ DOMAIN p = 1 .. n
        /\ \A i \in 1 .. n :
             p[i].schema \in Seq(Nap) /\ p[i].contact \in Seq(Nap)
    <3> DEFINE R == [schema : Seq(Nap), contact : Seq(Nap)]
    <3>1. p \in Seq(R)
      BY GrowthReportAssumption
    <3>2. \A r \in R : r.schema \in Seq(Nap) /\ r.contact \in Seq(Nap)
      OBVIOUS
    <3> HIDE DEF R
    <3>3. \A i \in 1 .. n : p[i] \in R
      BY <3>1, ElementOfSeq
    <3>4. n \in Nat /\ DOMAIN p = 1 .. n
      BY <3>1
    <3> QED BY <3>2, <3>3, <3>4
  <2>3. q \in [1 .. n -> Seq(Nap)]
    <3>1. \A i \in 1 .. n : p[i].schema \o p[i].contact \in Seq(Nap)
      BY <2>2, ConcatProperties
    <3> HIDE DEF n
    <3> QED BY <2>2, <3>1
  <2>4. q \in Seq(Seq(Nap))
    <3> HIDE DEF n, q
    <3> QED BY <2>2, <2>3
  <2> HIDE DEF q
  <2>5. FlattenSeq(q) \in Seq(Nap)
    BY <2>4, FlattenIs
  <2> QED BY <2>1, <2>5 DEF NapData, q
<1>2. ASSUME NEW s \in Inputs("reputation") PROVE s \in Seq(Review)
  <2>1. ASSUME NEW model \in Opinion, NEW answers \in BOOLEAN
        PROVE  FakeReviews(model, answers) \in Seq(Review)
    <3> DEFINE made(rating, words) ==
                 [rating |-> rating, words |-> words, model |-> model,
                  answers |-> answers]
               x == made(50, "none")
               y == made(10, "critical")
               z == made(40, "none")
    <3>1. x \in Review /\ y \in Review /\ z \in Review
      <4> HIDE DEF x, y, z
      <4>1. x \in Review
        BY SMT DEF Review, x
      <4>2. y \in Review
        BY SMT DEF Review, y
      <4>3. z \in Review
        BY SMT DEF Review, z
      <4> QED BY <4>1, <4>2, <4>3
    <3>2. FakeReviews(model, answers) = <<x, y, z>>
      BY DEF FakeReviews
    <3> HIDE DEF x, y, z
    <3> QED BY <3>1, <3>2
  <2>2. Failing \in Opinion /\ Unlabelled \in Opinion
    BY DEF Failing, Unlabelled, Opinion
  <2>3. s \in Reviews \/ s \in {FakeReviews(Failing, FALSE),
                                FakeReviews(Unlabelled, TRUE)}
    BY <1>2 DEF Inputs
  <2> QED BY <2>1, <2>2, <2>3, GrowthReportAssumption
<1>3. ASSUME NEW s \in Inputs("content_optimization") PROVE s[1] \in Contents
  BY <1>3 DEF Inputs
<1> QED BY <1>1, <1>2, <1>3

(* What the stored growth reports say agrees with what it is about.        *)
LEMMA GrowthAgrees ==
  GrTypeOK => ReportsIgnoreOrder /\ DraftsAnswerReviews
<1> SUFFICES ASSUME GrTypeOK PROVE ReportsIgnoreOrder /\ DraftsAnswerReviews
  OBVIOUS
<1>1. ASSUME NEW about, NEW entry \in Stored(about)
      PROVE  entry.input \in Inputs(about)
  <2>1. \A i \in DOMAIN grow : grow[i] \in Row
    BY DEF GrTypeOK
  <2> QED BY <1>1, <2>1 DEF Stored, Row
<1>2. ASSUME NEW entry \in Stored("local_seo")
      PROVE  /\ NapConsistency(entry.input) =
                  NapConsistency(Reverse(entry.input))
             /\ (NapConsistency(entry.input) = {}) =
                  \A a, b \in ToSet(entry.input) : Disagreements(a, b) = {}
             /\ LocalSeoScore(entry.input) \in Scale
  <2>1. entry.input \in Seq(Nap)
    BY <1>1, InputsAre
  <2> QED BY Zenon, <2>1, RecordsScored
<1>3. ASSUME NEW entry \in Stored("reputation")
      PROVE  /\ ReputationScore(entry.input) =
                  ReputationScore(Reverse(entry.input))
             /\ (\A review \in ToSet(entry.input) :
                   review.rating \in 10 .. 50)
                  => ReputationScore(entry.input) \in Scale
  <2>1. entry.input \in Seq(Review)
    BY <1>1, InputsAre
  <2>2. (\A review \in ToSet(entry.input) : review.rating \in 10 .. 50)
          => Rating(entry.input)
    BY DEF ToSet, Rating, Starred
  <2> QED BY <2>1, <2>2, ReviewsScored
<1>4. ASSUME NEW entry \in Stored("content_optimization")
      PROVE  OptimizationScore(entry.input[1]) \in Scale
  <2>1. entry.input[1] \in Contents
    BY <1>1, InputsAre
  <2>2. entry.input[1] \in Content /\ IsFiniteSet(entry.input[1].lacks)
    BY <2>1, GrowthReportAssumption
  <2> QED BY <2>2, ContentScored
<1>5. ReportsIgnoreOrder
  BY Zenon, <1>2, <1>3, <1>4 DEF ReportsIgnoreOrder
<1>6. DraftsAnswerReviews
  <2>1. ASSUME NEW entry \in Stored("reputation")
        PROVE  ResponseDrafts(entry.input) =
                 {i \in Owed(entry.input) :
                    Cardinality(Earlier(entry.input, i)) < DraftLimit}
    <3>1. entry.input \in Seq(Review)
      BY <1>1, InputsAre
    <3> QED BY <3>1, DraftsAreOwed
  <2> QED BY <2>1 DEF DraftsAnswerReviews, Owed, Earlier, Worrying
<1> QED BY <1>5, <1>6

-----------------------------------------------------------------------------
(* Both families of reports.                                               *)

(* The numbering of both families, for a site that was read.               *)
ReportsInv == VersionsInv /\ GrowthInv /\ epages \in Sites

(* It holds however requests for both meet.                                *)
LEMMA ReportsInvariance == ReportsSpec => []ReportsInv
<1>1. ReportsInit => ReportsInv
  BY ReportsStart, GrowthStart DEF ReportsInit, EInit, ReportsInv
<1>2. ReportsInv /\ [ReportsNext]_<<evars, grvars>> => ReportsInv'
  <2> SUFFICES ASSUME ReportsInv, [ReportsNext]_<<evars, grvars>>
               PROVE  ReportsInv'
    OBVIOUS
  <2>1. ENext => epages' = epages
    BY DEF ENext, Analyze, NextReport, InsertReport, LoseReport
  <2>2. UNCHANGED evars => epages' = epages
    BY DEF evars
  <2>3. [ENext]_evars /\ [GrNext]_grvars
    BY DEF ReportsNext
  <2> QED BY <2>1, <2>2, <2>3, ReportsStep, GrowthStep DEF ReportsInv
<1> QED BY <1>1, <1>2, PTL DEF ReportsSpec

(* It bounds what is stored to rows of reports.                            *)
LEMMA ReportsTyped == ReportsInv => ETypeOK /\ GrTypeOK
<1> SUFFICES ASSUME ReportsInv PROVE ETypeOK /\ GrTypeOK
  OBVIOUS
<1>1. ETypeOK
  BY DEF ReportsInv, VersionsInv, Numbering, ETypeOK
<1>2. GrTypeOK
  BY DEF ReportsInv, GrowthInv, GrowthNumbering, GrTypeOK
<1> QED BY <1>1, <1>2

(* The versions of the engines' reports and of the growth modules' count   *)
(* their rows (next_version of both mixins), served beside each other, as  *)
(* long as no two requests on one scope are under way at once.             *)
THEOREM VersionsStayTrue == ReportsSpec => []VersionsHold
<1>1. ReportsInv => VersionsHold
  BY ReportsTyped, ReportVersionsFollow, GrowthVersionsFollow
     DEF ReportsInv, VersionsHold
<1> QED BY <1>1, ReportsInvariance, PTL

(* Whatever is stored and whatever is computed from it: scores stay on     *)
(* their scales and between the evidence they average, keywords and topics *)
(* are parted into groups, scores of records and of reviews ignore the     *)
(* order those were read in, and drafts answer the first negative reviews  *)
(* that wait (the generators of the engines and the growth modules).       *)
THEOREM ReportsStayTrue == ReportsSpec => []ReportsAgree
<1>1. ReportsInv => ReportsAgree
  BY ReportsTyped, ScoresAgree, GroupsAgree, GrowthAgrees DEF ReportsAgree
<1> QED BY <1>1, ReportsInvariance, PTL

-----------------------------------------------------------------------------
(* Rankings.                                                               *)

(* The keywords of a device among the first n.                             *)
TrackedOn(kws, d, n) == {k \in 1 .. n : kws[k].device = d}

(* The rows at D are a whole capture of the keywords in A.                 *)
WholeRows(rows, D, kws, A) ==
  /\ \A i \in D : /\ rows[i].keyword \in A
                 /\ kws[rows[i].keyword].text = rows[i].text
  /\ \A i, j \in D : rows[i].keyword = rows[j].keyword => i = j
  /\ \A k \in A : \E i \in D : rows[i].keyword = k
RowsOf(rows, at) == {i \in DOMAIN rows : rows[i].at = at}

(* What is tracked is tracked once; and the types.                         *)
Distinct(kws) == \A j, k \in DOMAIN kws : kws[j] = kws[k] => j = k
RankingTyped ==
  /\ Distinct(rkeyword)
  /\ rkeyword \in Seq(TrackedKeyword) /\ rsnapshot \in Seq(Snapshot)
  /\ rclock \in Nat /\ rjob \subseteq JobId
  /\ rartifact \in Seq({"summarised", "unsummarised"})
  /\ rpc \in [Thread -> {"idle", "fetch", "save", "summarised", "unsummarised"}]
  /\ rasked \in [Thread -> SUBSET Nat]
  /\ rfound \in [Thread -> Seq(Snapshot)]

(* What a capture has read is what was tracked on its device at some time, *)
(* and what it found is whole, and of a date of its own.                   *)
CaptureHolds(to, picked, found, kws) ==
  /\ to \notin {"fetch", "save"} => picked = {}
  /\ to \in {"fetch", "save"} =>
       \E d \in Device, n \in 0 .. Len(kws) : picked = TrackedOn(kws, d, n)
  /\ to # "save" => found = <<>>
  /\ to = "save" => WholeRows(found, DOMAIN found, kws, picked)
Capturing ==
  \A t \in Thread : CaptureHolds(rpc[t], rasked[t], rfound[t], rkeyword)
Dates ==
  /\ \A i \in DOMAIN rsnapshot : rsnapshot[i].at <= rclock
  /\ \A t \in Thread : \A i \in DOMAIN rfound[t] :
       /\ rfound[t][i].at <= rclock
       /\ \A j \in DOMAIN rfound[t] : rfound[t][i].at = rfound[t][j].at
       /\ \A j \in DOMAIN rsnapshot : rfound[t][i].at # rsnapshot[j].at
       /\ \A u \in Thread \ {t} : \A j \in DOMAIN rfound[u] :
            rfound[t][i].at # rfound[u][j].at
StoredCaptures ==
  \A i \in DOMAIN rsnapshot : \E d \in Device, n \in 0 .. Len(rkeyword) :
    WholeRows(rsnapshot, RowsOf(rsnapshot, rsnapshot[i].at), rkeyword,
              TrackedOn(rkeyword, d, n))
RankingInv == RankingTyped /\ Capturing /\ Dates /\ StoredCaptures

(* More keywords do not change what was tracked.                           *)
LEMMA TrackingGrows ==
  ASSUME NEW n \in Nat, NEW kws, NEW kws2, \A k \in 1 .. n : kws2[k] = kws[k],
         NEW d, NEW m \in 0 .. n
  PROVE  TrackedOn(kws2, d, m) = TrackedOn(kws, d, m)
BY DEF TrackedOn

(* What is whole of the keywords read is so whichever come after them.     *)
LEMMA WholeGrows ==
  ASSUME NEW n \in Nat, NEW kws, NEW kws2, \A k \in 1 .. n : kws2[k] = kws[k],
         NEW A \in SUBSET (1 .. n), NEW rows, NEW D,
         WholeRows(rows, D, kws, A)
  PROVE  WholeRows(rows, D, kws2, A)
<1>1. \A k \in A : kws2[k] = kws[k]
  OBVIOUS
<1> QED BY <1>1 DEF WholeRows

(* Rows that stand elsewhere in another sequence are as whole there.       *)
LEMMA MovedWhole ==
  ASSUME NEW rows, NEW D, NEW rows2, NEW D2, NEW kws, NEW A,
         NEW f \in [D2 -> D], \A i \in D2 : rows2[i] = rows[f[i]],
         \A i, j \in D2 : f[i] = f[j] => i = j,
         \A i \in D : \E j \in D2 : f[j] = i,
         WholeRows(rows, D, kws, A)
  PROVE  WholeRows(rows2, D2, kws, A)
<1>1. \A i \in D2 : f[i] \in D /\ rows2[i] = rows[f[i]]
  OBVIOUS
<1>2. \A i \in D2 : /\ rows2[i].keyword \in A
                    /\ kws[rows2[i].keyword].text = rows2[i].text
  BY <1>1 DEF WholeRows
<1>3. \A i, j \in D2 : rows2[i].keyword = rows2[j].keyword => i = j
  BY <1>1 DEF WholeRows
<1>4. \A k \in A : \E i \in D2 : rows2[i].keyword = k
  BY <1>1 DEF WholeRows
<1> QED BY <1>2, <1>3, <1>4 DEF WholeRows

(* What the provider answers, filed by text, is whole: of different        *)
(* keywords of one device the texts differ.                                *)
LEMMA AnswersWhole ==
  ASSUME NEW n \in Nat, NEW A \in SUBSET (1 .. n), NEW kws,
         \A j, k \in A : kws[j].text = kws[k].text => j = k,
         NEW order \in InAnyOrder(A), NEW rows, DOMAIN rows = DOMAIN order,
         \A i \in DOMAIN order :
           /\ rows[i].text = kws[order[i]].text
           /\ rows[i].keyword = Max({k \in A : kws[k].text = rows[i].text})
  PROVE  WholeRows(rows, DOMAIN rows, kws, A)
<1>1. IsFiniteSet(A) /\ Cardinality(A) \in Nat
  <2>1. IsFiniteSet(1 .. n)
    BY FS_Interval
  <2>2. IsFiniteSet(A)
    BY <2>1, FS_Subset
  <2> QED BY <2>2, FS_CardinalityType
<1>2. PICK c \in Nat : c = Cardinality(A)
  BY <1>1
<1>3. /\ DOMAIN order = 1 .. c /\ order \in [1 .. c -> A]
      /\ \A i, j \in 1 .. c : order[i] = order[j] => i = j
  BY <1>2 DEF InAnyOrder, IsInjective
<1>4. IsFiniteSet(1 .. c) /\ Cardinality(1 .. c) = c
  BY FS_Interval
<1>5. \A k \in A : \E i \in 1 .. c : order[i] = k
  <2>1. order \in Injection(1 .. c, A)
    BY <1>3 DEF Injection, IsInjective
  <2>2. order \in Surjection(1 .. c, A)
    BY <1>1, <1>2, <1>4, <2>1, FS_Injection
  <2> QED BY <2>2 DEF Surjection
<1>6. \A i \in 1 .. c :
        /\ rows[i].text = kws[order[i]].text
        /\ rows[i].keyword = Max({k \in A : kws[k].text = rows[i].text})
  BY <1>3
<1>7. DOMAIN rows = 1 .. c
  BY <1>3
<1>8. ASSUME NEW i \in 1 .. c PROVE rows[i].keyword = order[i]
  <2> DEFINE K == {k \in A : kws[k].text = rows[i].text}
  <2>1. K \subseteq 0 .. n
    <3>1. \A k \in A : k \in 0 .. n
      OBVIOUS
    <3> QED BY <3>1
  <2>2. order[i] \in A /\ order[i] \in K
    BY <1>3, <1>6
  <2>3. \A k \in K : k = order[i]
    BY <1>6, <2>2
  <2>4. Max(K) \in K
    <3> HIDE DEF K
    <3> QED BY <2>1, <2>2, MaxOfBounded
  <2>5. rows[i].keyword = Max(K)
    BY <1>6
  <2> QED BY <2>3, <2>4, <2>5
<1>9. \A i \in 1 .. c : /\ rows[i].keyword \in A
                        /\ kws[rows[i].keyword].text = rows[i].text
  BY <1>3, <1>6, <1>8
<1>10. \A i, j \in 1 .. c : rows[i].keyword = rows[j].keyword => i = j
  BY <1>3, <1>8
<1>11. \A k \in A : \E i \in 1 .. c : rows[i].keyword = k
  BY <1>5, <1>8
<1> QED BY <1>7, <1>9, <1>10, <1>11 DEF WholeRows

(* Snapshots have times, and of one time a keyword has no two.             *)
Timed(n) ==
  /\ \A i \in DOMAIN rsnapshot : rsnapshot[i].at \in 0 .. n
  /\ \A i, j \in DOMAIN rsnapshot :
       rsnapshot[i].keyword = rsnapshot[j].keyword
         /\ rsnapshot[i].at = rsnapshot[j].at => i = j

(* Of some of them there is a latest.                                      *)
LEMMA LatestIs ==
  ASSUME NEW n \in Nat, Timed(n), NEW S \in SUBSET DOMAIN rsnapshot, S # {}
  PROVE  /\ LastOf(S) \in S
         /\ \A j \in S : rsnapshot[j].at <= rsnapshot[LastOf(S)].at
<1> DEFINE T == {rsnapshot[i].at : i \in S}
<1>1. T \subseteq 0 .. n /\ T # {}
  BY DEF Timed
<1>2. Max(T) \in T /\ \A x \in T : x <= Max(T)
  <2> HIDE DEF T
  <2> QED BY <1>1, MaxOfBounded
<1>3. PICK i \in S : Max(T) = rsnapshot[i].at
  BY <1>2
<1>4. \A j \in S : rsnapshot[j].at <= rsnapshot[i].at
  BY <1>2, <1>3
<1> QED BY <1>4 DEF LastOf

(* Where no change is between two times, a keyword stands where it stood.  *)
LEMMA SteadySince ==
  ASSUME NEW n \in Nat, Timed(n), NEW x \in DOMAIN rsnapshot, NEW top \in Nat,
         \A i \in Changes : rsnapshot[i].keyword = rsnapshot[x].keyword =>
           ~ (rsnapshot[x].at < rsnapshot[i].at /\ rsnapshot[i].at < top)
  PROVE  \A i \in DOMAIN rsnapshot :
           /\ rsnapshot[i].keyword = rsnapshot[x].keyword
           /\ rsnapshot[x].at <= rsnapshot[i].at /\ rsnapshot[i].at < top
           => Is(i) = Is(x)
<1> DEFINE B == {i \in DOMAIN rsnapshot :
                   /\ rsnapshot[i].keyword = rsnapshot[x].keyword
                   /\ rsnapshot[x].at <= rsnapshot[i].at
                   /\ rsnapshot[i].at < top
                   /\ Is(i) # Is(x)}
           T == {rsnapshot[i].at : i \in B}
<1>1. SUFFICES ASSUME B # {} PROVE FALSE
  BY <1>1
<1>2. \A i \in DOMAIN rsnapshot : rsnapshot[i].at \in Nat
  BY DEF Timed
<1>3. PICK b \in B : \A i \in B : rsnapshot[b].at <= rsnapshot[i].at
  <2>1. T \subseteq Nat /\ T # {}
    BY <1>1, <1>2
  <2>2. PICK m \in T : \A y \in T : m <= y
    <3> HIDE DEF T
    <3> QED BY <2>1, SmallestNumber
  <2> QED BY <2>2
<1>4. /\ b \in DOMAIN rsnapshot /\ rsnapshot[b].keyword = rsnapshot[x].keyword
      /\ rsnapshot[x].at <= rsnapshot[b].at /\ rsnapshot[b].at < top
      /\ Is(b) # Is(x)
  OBVIOUS
<1>5. rsnapshot[x].at < rsnapshot[b].at
  <2>1. rsnapshot[x].at # rsnapshot[b].at
    BY <1>4 DEF Timed
  <2> QED BY <1>2, <1>4, <2>1
<1>6. PICK e : e = LastOf(Before(b))
  OBVIOUS
<1>7. /\ e \in DOMAIN rsnapshot /\ rsnapshot[e].keyword = rsnapshot[x].keyword
      /\ rsnapshot[e].at < rsnapshot[b].at /\ rsnapshot[x].at <= rsnapshot[e].at
      /\ Before(b) # {}
  <2>1. Before(b) \in SUBSET DOMAIN rsnapshot /\ x \in Before(b)
    BY <1>4, <1>5 DEF Before
  <2>2. e \in Before(b) /\ \A j \in Before(b) :
                              rsnapshot[j].at <= rsnapshot[e].at
    BY <1>6, <2>1, LatestIs
  <2> QED BY <1>4, <2>1, <2>2 DEF Before
<1>8. e \notin B
  BY <1>2, <1>3, <1>4, <1>7
<1>9. Is(e) = Is(x)
  BY <1>2, <1>4, <1>7, <1>8
<1>10. Was(b) = Is(e)
  BY <1>6 DEF Was, Is
<1>11. b \in Changes
  BY <1>4, <1>7, <1>9, <1>10 DEF Changes
<1> QED BY <1>4, <1>5, <1>11

(* So what a report shows of a keyword follows, and ends where it stands.  *)
LEMMA RankingsFollow ==
  ASSUME rsnapshot \in Seq(Snapshot), NEW top \in Nat, Timed(top),
         ChangeLimit \in Nat
  PROVE  ChangesFollow
<1> SUFFICES ASSUME NEW list \in DetectRankingChanges
             PROVE  /\ Len(list) <= ChangeLimit
                    /\ Len(list) < ChangeLimit =>
                         \A i \in Changes : \E n \in DOMAIN list : list[n] = i
                    /\ \A n \in DOMAIN list :
                         LET k == rsnapshot[list[n]].keyword
                             newer == Shown(list, n, k)
                         IN  Is(list[n]) = IF newer = {}
                                           THEN Is(GetLatestSnapshot(k))
                                           ELSE Was(list[Max(newer)])
  BY DEF ChangesFollow
<1>1. PICK l \in InAnyOrder(Changes) :
        NewestFirst(l) /\ list = SubSeq(l, 1, Min({ChangeLimit, Len(l)}))
  BY DEF DetectRankingChanges
<1>2. Changes \in SUBSET DOMAIN rsnapshot
  BY DEF Changes
<1>3. IsFiniteSet(Changes) /\ Cardinality(Changes) \in Nat
  <2>1. /\ IsFiniteSet(1 .. Len(rsnapshot))
        /\ DOMAIN rsnapshot = 1 .. Len(rsnapshot)
    BY LenProperties, FS_Interval
  <2>2. IsFiniteSet(Changes)
    BY <1>2, <2>1, FS_Subset
  <2> QED BY <2>2, FS_CardinalityType
<1>4. PICK c \in Nat : c = Cardinality(Changes)
  BY <1>3
<1>5. /\ DOMAIN l = 1 .. c /\ l \in [1 .. c -> Changes]
      /\ \A i, j \in 1 .. c : l[i] = l[j] => i = j
  BY <1>4 DEF InAnyOrder, IsInjective
<1>6. \A i \in Changes : \E n \in 1 .. c : l[n] = i
  <2>1. IsFiniteSet(1 .. c) /\ Cardinality(1 .. c) = c
    BY FS_Interval
  <2>2. l \in Injection(1 .. c, Changes)
    BY <1>5 DEF Injection, IsInjective
  <2>3. l \in Surjection(1 .. c, Changes)
    BY <1>3, <1>4, <2>1, <2>2, FS_Injection
  <2> QED BY <2>3 DEF Surjection
<1>7. Len(l) = c /\ l \in Seq(Changes)
  BY <1>5
<1>8. PICK d \in Nat : /\ d = Min({ChangeLimit, Len(l)})
                       /\ d <= ChangeLimit /\ d <= c
                       /\ (d = ChangeLimit \/ d = c)
  <2> DEFINE m == Min({ChangeLimit, c})
  <2>1. \E x \in {ChangeLimit, c} : \A y \in {ChangeLimit, c} : x <= y
    OBVIOUS
  <2>2. m \in {ChangeLimit, c} /\ \A y \in {ChangeLimit, c} : m <= y
    BY <2>1 DEF Min
  <2> HIDE DEF m
  <2>3. m \in Nat /\ m <= ChangeLimit /\ m <= c /\ (m = ChangeLimit \/ m = c)
    BY <2>2
  <2> QED BY <1>7, <2>3 DEF m
<1>9. Len(list) = d /\ DOMAIN list = 1 .. d /\ \A i \in 1 .. d : list[i] = l[i]
  <2>1. list = SubSeq(l, 1, d)
    BY <1>1, <1>8
  <2>2. \A i \in 1 .. d : i \in 1 .. Len(l) /\ (1 + i) - 1 = i
    BY <1>7, <1>8
  <2>3. list = [i \in 1 .. d |-> l[i]]
    BY <1>7, <1>8, <2>1, <2>2
  <2> QED BY <2>3
<1>10. Len(list) < ChangeLimit =>
         \A i \in Changes : \E n \in DOMAIN list : list[n] = i
  <2>1. Len(list) < ChangeLimit => d = c
    BY <1>8, <1>9
  <2> QED BY <1>6, <1>9, <2>1
<1>11. \A m, n \in 1 .. c : m < n => rsnapshot[l[m]].at >= rsnapshot[l[n]].at
  BY <1>1, <1>5 DEF NewestFirst
<1>12. \A i \in DOMAIN rsnapshot : rsnapshot[i].at \in Nat
                                   /\ rsnapshot[i].at < top + 1
  BY DEF Timed
<1>13. ASSUME NEW n \in 1 .. d, NEW x, x = l[n],
              NEW k, k = rsnapshot[x].keyword,
              NEW newer, newer = Shown(list, n, k)
       PROVE  Is(x) = IF newer = {} THEN Is(GetLatestSnapshot(k))
                                    ELSE Was(list[Max(newer)])
  <2>1. n \in 1 .. c /\ n \in Int /\ c \in Int
    BY <1>8
  <2>2. x \in Changes /\ x \in DOMAIN rsnapshot
    BY <1>2, <1>5, <1>13, <2>1
  <2>3. newer = {m \in 1 .. n - 1 : rsnapshot[l[m]].keyword = k}
    <3>1. ASSUME NEW m \in 1 .. n - 1 PROVE list[m] = l[m]
      <4>1. m \in 1 .. d
        BY <1>8
      <4> QED BY <1>9, <4>1
    <3> QED BY <1>13, <3>1 DEF Shown
  <2>4. ASSUME NEW i \in Changes, rsnapshot[i].keyword = k,
               rsnapshot[x].at < rsnapshot[i].at
        PROVE  \E p \in newer : l[p] = i
    <3>1. PICK p \in 1 .. c : l[p] = i
      BY <1>6
    <3>2. p # n
      BY <1>12, <1>13, <2>2, <2>4, <3>1
    <3>3. ~ (n < p)
      <4>1. n < p => rsnapshot[x].at >= rsnapshot[i].at
        BY <1>11, <1>13, <2>1, <3>1
      <4>2. rsnapshot[x].at \in Nat /\ rsnapshot[i].at \in Nat
        BY <1>2, <1>12, <2>2
      <4> QED BY <2>4, <4>1, <4>2
    <3>4. p \in 1 .. n - 1
      BY <2>1, <3>2, <3>3
    <3> QED BY <2>3, <2>4, <3>1, <3>4
  <2>5. CASE newer = {}
    <3>1. \A i \in DOMAIN rsnapshot :
            /\ rsnapshot[i].keyword = k
            /\ rsnapshot[x].at <= rsnapshot[i].at /\ rsnapshot[i].at < top + 1
            => Is(i) = Is(x)
      BY <1>13, <2>2, <2>4, <2>5, SteadySince
    <3> DEFINE S == {i \in DOMAIN rsnapshot : rsnapshot[i].keyword = k}
    <3>2. x \in S /\ S \in SUBSET DOMAIN rsnapshot
      BY <1>13, <2>2
    <3>3. LastOf(S) \in S /\ rsnapshot[x].at <= rsnapshot[LastOf(S)].at
      <4> HIDE DEF S
      <4> QED BY <3>2, LatestIs
    <3>4. Is(LastOf(S)) = Is(x)
      BY <1>12, <3>1, <3>3
    <3> QED BY <2>5, <3>4 DEF GetLatestSnapshot
  <2>6. CASE newer # {}
    <3>1. Max(newer) \in newer /\ \A p \in newer : p <= Max(newer)
      <4>1. newer \subseteq 0 .. c
        BY <2>1, <2>3
      <4> QED BY <2>6, <4>1, MaxOfBounded
    <3>2. PICK m \in 1 .. n - 1 : m = Max(newer) /\ rsnapshot[l[m]].keyword = k
      BY <2>3, <3>1
    <3>12. m \in 1 .. d /\ m \in 1 .. c /\ m < n
      BY <1>8, <2>1
    <3>3. PICK y : y = l[m] /\ y = list[m]
      BY <1>9, <3>12
    <3>4. m \in 1 .. c /\ m < n /\ y \in Changes /\ y \in DOMAIN rsnapshot
      BY <1>2, <1>5, <3>3, <3>12
    <3>5. rsnapshot[x].at < rsnapshot[y].at
      <4>4. m # n
        BY <2>1, <3>12
      <4>1. x # y
        BY <1>5, <1>13, <2>1, <3>3, <3>12, <4>4
      <4>2. rsnapshot[x].at # rsnapshot[y].at
        BY <1>13, <2>2, <3>2, <3>3, <3>4, <4>1 DEF Timed
      <4>3. rsnapshot[y].at >= rsnapshot[x].at
        BY <1>11, <1>13, <2>1, <3>3, <3>4
      <4> QED BY <1>12, <2>2, <3>4, <4>2, <4>3
    <3>6. ASSUME NEW i \in Changes, rsnapshot[i].keyword = k,
                 rsnapshot[x].at < rsnapshot[i].at
          PROVE  ~ (rsnapshot[i].at < rsnapshot[y].at)
      <4>1. PICK p \in newer : l[p] = i
        BY <2>4, <3>6
      <4>2. p \in 1 .. c /\ p \in Int /\ m \in Int
        BY <2>1, <2>3
      <4>3. p = m \/ p < m
        BY <3>1, <3>2, <4>2
      <4>4. p < m => rsnapshot[i].at >= rsnapshot[y].at
        BY <1>11, <3>3, <3>4, <4>1, <4>2
      <4>5. p = m => rsnapshot[i].at = rsnapshot[y].at
        BY <3>3, <4>1
      <4>6. rsnapshot[i].at \in Nat /\ rsnapshot[y].at \in Nat
        BY <1>2, <1>12, <3>4
      <4> QED BY <4>3, <4>4, <4>5, <4>6
    <3>7. \A i \in DOMAIN rsnapshot :
            /\ rsnapshot[i].keyword = k
            /\ rsnapshot[x].at <= rsnapshot[i].at
            /\ rsnapshot[i].at < rsnapshot[y].at
            => Is(i) = Is(x)
      <4>1. rsnapshot[y].at \in Nat
        BY <1>12, <3>4
      <4> QED BY <1>13, <2>2, <3>6, <4>1, SteadySince
    <3>8. PICK e : e = LastOf(Before(y))
      OBVIOUS
    <3>9. /\ e \in DOMAIN rsnapshot /\ rsnapshot[e].keyword = k
          /\ rsnapshot[e].at < rsnapshot[y].at
          /\ rsnapshot[x].at <= rsnapshot[e].at
      <4>1. Before(y) \in SUBSET DOMAIN rsnapshot /\ x \in Before(y)
        BY <1>13, <2>2, <3>2, <3>3, <3>5 DEF Before
      <4>2. e \in Before(y) /\ rsnapshot[x].at <= rsnapshot[e].at
        BY <3>8, <4>1, LatestIs
      <4> QED BY <3>2, <3>3, <4>2 DEF Before
    <3>10. Is(e) = Is(x)
      BY <3>7, <3>9
    <3>11. Was(y) = Is(e)
      BY <3>8 DEF Was, Is
    <3> QED BY <2>6, <3>2, <3>3, <3>10, <3>11
  <2> QED BY <2>5, <2>6
<1>14. \A n \in DOMAIN list :
         LET k == rsnapshot[list[n]].keyword
             newer == Shown(list, n, k)
         IN  Is(list[n]) = IF newer = {} THEN Is(GetLatestSnapshot(k))
                                         ELSE Was(list[Max(newer)])
  <2> TAKE n \in DOMAIN list
  <2>1. n \in 1 .. d /\ list[n] = l[n]
    BY <1>9
  <2> QED BY <1>13, <2>1
<1> QED BY <1>8, <1>9, <1>10, <1>14

(* Captures that are whole have the snapshots of every keyword.            *)
LEMMA RankingInvImplies == RankingInv => RankingsHold
<1> SUFFICES ASSUME RankingInv PROVE RankingsHold
  OBVIOUS
<1>1. RankingTyped /\ Capturing /\ Dates /\ StoredCaptures
  BY DEF RankingInv
<1>2. PICK l \in Nat : l = Len(rkeyword) /\ DOMAIN rkeyword = 1 .. l
  BY <1>1, LenProperties DEF RankingTyped
<1>3. ASSUME NEW t \in Thread PROVE rasked[t] \in SUBSET DOMAIN rkeyword
  <2>1. rasked[t] = {} \/ \E d \in Device, n \in 0 .. Len(rkeyword) :
                           rasked[t] = TrackedOn(rkeyword, d, n)
    BY <1>1 DEF Capturing, CaptureHolds
  <2> QED BY <1>2, <2>1 DEF TrackedOn
<1>4. RTypeOK
  BY <1>1, <1>3 DEF RankingTyped, RTypeOK
<1>5. ASSUME NEW i \in DOMAIN rsnapshot, NEW s, s = rsnapshot[i],
             NEW device, device = rkeyword[s.keyword].device
      PROVE  /\ s.keyword \in DOMAIN rkeyword
             /\ rkeyword[s.keyword].text = s.text
             /\ \A j \in Captured(s.at) :
                  /\ rkeyword[rsnapshot[j].keyword].device = device
                  /\ rsnapshot[j].keyword = s.keyword => j = i
             /\ \A k \in 1 .. s.keyword : rkeyword[k].device = device =>
                  \E j \in Captured(s.at) : rsnapshot[j].keyword = k
  <2> DEFINE D == RowsOf(rsnapshot, s.at)
  <2>1. PICK d \in Device, n \in 0 .. l :
          WholeRows(rsnapshot, D, rkeyword, TrackedOn(rkeyword, d, n))
    BY <1>1, <1>2, <1>5 DEF StoredCaptures
  <2>2. Captured(s.at) = D /\ i \in D
    BY <1>5 DEF Captured, RowsOf
  <2>3. PICK A : A = TrackedOn(rkeyword, d, n)
    OBVIOUS
  <2>4. \A j \in D : /\ rsnapshot[j].keyword \in A
                     /\ rkeyword[rsnapshot[j].keyword].text = rsnapshot[j].text
    BY <2>1, <2>3 DEF WholeRows
  <2>5. s.keyword \in 1 .. n /\ rkeyword[s.keyword].text = s.text /\ device = d
    BY <1>5, <2>2, <2>3, <2>4 DEF TrackedOn
  <2>6. \A j \in D : /\ rkeyword[rsnapshot[j].keyword].device = d
                     /\ rsnapshot[j].keyword = s.keyword => j = i
    BY <1>5, <2>1, <2>2, <2>3, <2>4 DEF WholeRows, TrackedOn
  <2>7. ASSUME NEW k \in 1 .. s.keyword, rkeyword[k].device = d
        PROVE  \E j \in D : rsnapshot[j].keyword = k
    <3>1. k \in A
      BY <2>3, <2>5, <2>7 DEF TrackedOn
    <3> QED BY <2>1, <2>3, <3>1 DEF WholeRows
  <2>8. s.keyword \in DOMAIN rkeyword
    BY <1>2, <2>5
  <2> HIDE DEF D
  <2> QED BY <2>2, <2>5, <2>6, <2>7, <2>8
<1>6. CapturesAreWhole
  BY <1>5 DEF CapturesAreWhole
<1>7. PICK top \in Nat : top = rclock /\ Timed(top)
  <2>4. \A s \in Seq(Snapshot) : \A i \in DOMAIN s : s[i] \in Snapshot
    BY ElementOfSeq, LenProperties
  <2>1. \A i \in DOMAIN rsnapshot : rsnapshot[i].at \in Nat
    BY <1>1, <2>4 DEF RankingTyped, Snapshot
  <2>2. \A i \in DOMAIN rsnapshot : rsnapshot[i].at \in 0 .. rclock
    BY <1>1, <2>1 DEF Dates, RankingTyped
  <2>3. \A i, j \in DOMAIN rsnapshot :
          rsnapshot[i].keyword = rsnapshot[j].keyword
            /\ rsnapshot[i].at = rsnapshot[j].at => i = j
    BY <1>5 DEF Captured
  <2> QED BY <1>1, <2>2, <2>3 DEF Timed, RankingTyped
<1>8. ChangesFollow
  BY <1>1, <1>7, RankAssumption, RankingsFollow DEF RankingTyped
<1> QED BY <1>4, <1>6, <1>8 DEF RankingsHold

(* Nothing is tracked or captured at first.                                *)
LEMMA RankingInit == RInit => RankingInv
<1> SUFFICES ASSUME RInit PROVE RankingInv
  OBVIOUS
<1>1. RankingTyped
  BY DEF RInit, RankingTyped, Distinct
<1>2. Capturing
  BY DEF RInit, Capturing, CaptureHolds
<1>3. Dates /\ StoredCaptures
  BY DEF RInit, Dates, StoredCaptures
<1> QED BY <1>1, <1>2, <1>3 DEF RankingInv

(* A capture ends, lost or done, and keeps nothing.                        *)
LEMMA CaptureEnds ==
  ASSUME RankingInv, NEW t \in Thread, REnd(t),
         UNCHANGED <<rkeyword, rsnapshot, rclock, rjob>>,
         rartifact' \in Seq({"summarised", "unsummarised"})
  PROVE  RankingInv'
<1>1. RankingTyped /\ Capturing /\ Dates /\ StoredCaptures
  BY DEF RankingInv
<1>2. RankingTyped'
  BY <1>1 DEF RankingTyped, REnd
<1>3. /\ rpc'[t] = "idle" /\ rasked'[t] = {} /\ rfound'[t] = <<>>
      /\ \A u \in Thread \ {t} : /\ rpc'[u] = rpc[u] /\ rasked'[u] = rasked[u]
                                 /\ rfound'[u] = rfound[u]
  BY <1>1 DEF RankingTyped, REnd
<1>4. Capturing'
  <2> SUFFICES ASSUME NEW u \in Thread
               PROVE  CaptureHolds(rpc'[u], rasked'[u], rfound'[u], rkeyword')
    BY DEF Capturing
  <2>1. CASE u = t
    BY <1>3, <2>1 DEF CaptureHolds
  <2>2. CASE u # t
    BY <1>1, <1>3, <2>2 DEF Capturing
  <2> QED BY <2>1, <2>2
<1>5. Dates'
  BY <1>1, <1>3 DEF Dates
<1>6. StoredCaptures'
  BY <1>1 DEF StoredCaptures
<1> QED BY <1>2, <1>4, <1>5, <1>6 DEF RankingInv

(* A keyword is added behind those that were tracked.                      *)
LEMMA AddKeywordKeeps ==
  ASSUME RankingInv, NEW text \in Text, NEW device \in Device,
         AddKeyword(text, device)
  PROVE  RankingInv'
<1>1. RankingTyped /\ Capturing /\ Dates /\ StoredCaptures
  BY DEF RankingInv
<1>2. PICK kw \in TrackedKeyword :
        /\ rkeyword' = Append(rkeyword, kw)
        /\ \A k \in DOMAIN rkeyword : rkeyword[k] # kw
  BY DEF AddKeyword, TrackedKeyword
<1>3. UNCHANGED <<rsnapshot, rclock, rjob, rartifact, rpc, rasked, rfound>>
  BY DEF AddKeyword
<1>4. PICK l \in Nat : l = Len(rkeyword)
  BY <1>1, LenProperties DEF RankingTyped
<1>5. /\ rkeyword' \in Seq(TrackedKeyword) /\ Len(rkeyword') = l + 1
      /\ \A k \in 1 .. l : rkeyword'[k] = rkeyword[k]
  BY <1>1, <1>2, <1>4, AppendProperties DEF RankingTyped
<1>6. RankingTyped'
  <2>1. /\ DOMAIN rkeyword = 1 .. l /\ DOMAIN rkeyword' = 1 .. l + 1
        /\ rkeyword'[l + 1] = kw
    BY <1>1, <1>2, <1>4, <1>5, AppendProperties, LenProperties
      DEF RankingTyped
  <2>2. \A k \in 1 .. l : rkeyword[k] # kw
    BY <1>2, <2>1
  <2>3. \A k \in 1 .. l + 1 : k \in 1 .. l \/ k = l + 1
    OBVIOUS
  <2>4. Distinct(rkeyword')
    BY <1>1, <1>5, <2>1, <2>2, <2>3 DEF RankingTyped, Distinct
  <2> QED BY <1>1, <1>3, <1>5, <2>4 DEF RankingTyped
<1>7. ASSUME NEW d \in Device, NEW n \in 0 .. l
      PROVE  /\ TrackedOn(rkeyword', d, n) = TrackedOn(rkeyword, d, n)
             /\ n \in 0 .. Len(rkeyword')
  BY <1>5, TrackingGrows
<1>11. ASSUME NEW d \in Device, NEW n \in 0 .. l, NEW rows, NEW D,
              WholeRows(rows, D, rkeyword, TrackedOn(rkeyword, d, n))
       PROVE  WholeRows(rows, D, rkeyword', TrackedOn(rkeyword', d, n))
  <2>1. PICK A : A = TrackedOn(rkeyword, d, n)
    OBVIOUS
  <2>2. A \in SUBSET (1 .. l) /\ WholeRows(rows, D, rkeyword, A)
    BY <1>11, <2>1 DEF TrackedOn
  <2>3. WholeRows(rows, D, rkeyword', A)
    BY <1>5, <2>2, WholeGrows
  <2> QED BY <1>7, <2>1, <2>3
<1>8. Capturing'
  <2> SUFFICES ASSUME NEW t \in Thread
               PROVE  CaptureHolds(rpc[t], rasked[t], rfound[t], rkeyword')
    BY <1>3 DEF Capturing
  <2>1. CaptureHolds(rpc[t], rasked[t], rfound[t], rkeyword)
    BY <1>1 DEF Capturing
  <2>2. CASE rpc[t] \in {"fetch", "save"}
    <3>1. PICK d \in Device, n \in 0 .. l :
            rasked[t] = TrackedOn(rkeyword, d, n)
      BY <1>4, <2>1, <2>2 DEF CaptureHolds
    <3> QED BY <1>7, <1>11, <2>1, <2>2, <3>1 DEF CaptureHolds
  <2>3. CASE rpc[t] \notin {"fetch", "save"}
    BY <2>1, <2>3 DEF CaptureHolds
  <2> QED BY <2>2, <2>3
<1>9. Dates'
  BY <1>1, <1>3 DEF Dates
<1>10. StoredCaptures'
  <2> SUFFICES ASSUME NEW i \in DOMAIN rsnapshot
               PROVE  \E d \in Device, n \in 0 .. Len(rkeyword') :
                        WholeRows(rsnapshot, RowsOf(rsnapshot, rsnapshot[i].at),
                                  rkeyword', TrackedOn(rkeyword', d, n))
    BY <1>3 DEF StoredCaptures
  <2>1. PICK d \in Device, n \in 0 .. l :
          WholeRows(rsnapshot, RowsOf(rsnapshot, rsnapshot[i].at),
                    rkeyword, TrackedOn(rkeyword, d, n))
    BY <1>1, <1>4 DEF StoredCaptures
  <2> QED BY <1>7, <1>11, <2>1
<1> QED BY <1>6, <1>8, <1>9, <1>10 DEF RankingInv

(* A capture reads what is tracked on its device.                          *)
LEMMA ReadKeywordsKeeps ==
  ASSUME RankingInv, NEW t \in Thread, NEW device \in Device,
         ReadKeywords(t, device)
  PROVE  RankingInv'
<1>1. RankingTyped /\ Capturing /\ Dates /\ StoredCaptures
  BY DEF RankingInv
<1>2. PICK l \in Nat : l = Len(rkeyword) /\ DOMAIN rkeyword = 1 .. l
  BY <1>1, LenProperties DEF RankingTyped
<1>3. /\ rpc[t] = "idle" /\ rpc' = [rpc EXCEPT ![t] = "fetch"]
      /\ rasked' = [rasked EXCEPT ![t] = TrackedOn(rkeyword, device, l)]
      /\ UNCHANGED <<rkeyword, rsnapshot, rclock, rjob, rartifact, rfound>>
  BY <1>2 DEF ReadKeywords, TrackedOn
<1>4. /\ rpc'[t] = "fetch" /\ rasked'[t] = TrackedOn(rkeyword, device, l)
      /\ \A u \in Thread \ {t} : rpc'[u] = rpc[u] /\ rasked'[u] = rasked[u]
  BY <1>1, <1>3 DEF RankingTyped
<1>5. RankingTyped'
  <2>1. TrackedOn(rkeyword, device, l) \in SUBSET Nat
    BY DEF TrackedOn
  <2> QED BY <1>1, <1>3, <2>1 DEF RankingTyped
<1>6. Capturing'
  <2> SUFFICES ASSUME NEW u \in Thread
               PROVE  CaptureHolds(rpc'[u], rasked'[u], rfound[u], rkeyword)
    BY <1>3 DEF Capturing
  <2>1. CaptureHolds(rpc[u], rasked[u], rfound[u], rkeyword)
    BY <1>1 DEF Capturing
  <2>2. CASE u = t
    <3>1. rfound[t] = <<>>
      BY <1>3, <2>1, <2>2 DEF CaptureHolds
    <3>2. l \in 0 .. Len(rkeyword)
      BY <1>2
    <3> QED BY <1>4, <2>2, <3>1, <3>2 DEF CaptureHolds
  <2>3. CASE u # t
    BY <1>4, <2>1, <2>3
  <2> QED BY <2>2, <2>3
<1>7. Dates' /\ StoredCaptures'
  BY <1>1, <1>3 DEF Dates, StoredCaptures
<1> QED BY <1>5, <1>6, <1>7 DEF RankingInv

(* Jobs are of no capture.                                                 *)
LEMMA ScheduleKeeps ==
  ASSUME RankingInv, NEW cadence \in Cadence, Schedule(cadence)
  PROVE  RankingInv'
<1>1. RankingTyped /\ Capturing /\ Dates /\ StoredCaptures
  BY DEF RankingInv
<1>2. /\ rjob' = rjob \cup {[job |-> "rank-capture", cadence |-> cadence]}
      /\ UNCHANGED <<rkeyword, rsnapshot, rclock, rartifact>>
      /\ UNCHANGED <<rpc, rasked, rfound>>
  BY DEF Schedule
<1>3. RankingTyped'
  BY <1>1, <1>2 DEF RankingTyped, JobId
<1>4. Capturing' /\ Dates' /\ StoredCaptures'
  BY <1>1, <1>2 DEF Capturing, Dates, StoredCaptures
<1> QED BY <1>3, <1>4 DEF RankingInv

(* A report that is asked for is of no capture either.                     *)
LEMMA GenerateReportKeeps ==
  ASSUME RankingInv, NEW t \in Thread, NEW format \in Format,
         NEW answers \in BOOLEAN, GenerateReport(t, format, answers)
  PROVE  RankingInv'
<1>1. RankingTyped /\ Capturing /\ Dates /\ StoredCaptures
  BY DEF RankingInv
<1>2. PICK to \in {"summarised", "unsummarised"} :
        rpc[t] = "idle" /\ rpc' = [rpc EXCEPT ![t] = to]
  BY DEF GenerateReport, Narrative
<1>3. UNCHANGED <<rkeyword, rsnapshot, rclock, rjob, rartifact, rasked, rfound>>
  BY DEF GenerateReport
<1>4. rpc'[t] = to /\ \A u \in Thread \ {t} : rpc'[u] = rpc[u]
  BY <1>1, <1>2 DEF RankingTyped
<1>5. RankingTyped'
  BY <1>1, <1>2, <1>3 DEF RankingTyped
<1>6. Capturing'
  <2> SUFFICES ASSUME NEW u \in Thread
               PROVE  CaptureHolds(rpc'[u], rasked[u], rfound[u], rkeyword)
    BY <1>3 DEF Capturing
  <2>1. CaptureHolds(rpc[u], rasked[u], rfound[u], rkeyword)
    BY <1>1 DEF Capturing
  <2>2. CASE u = t
    BY <1>2, <1>4, <2>1, <2>2 DEF CaptureHolds
  <2>3. CASE u # t
    BY <1>4, <2>1, <2>3
  <2> QED BY <2>2, <2>3
<1>7. Dates' /\ StoredCaptures'
  BY <1>1, <1>3 DEF Dates, StoredCaptures
<1> QED BY <1>5, <1>6, <1>7 DEF RankingInv

(* The report is saved or lost, beside whatever is captured.               *)
LEMMA SaveArtifactKeeps ==
  ASSUME RankingInv, NEW t \in Thread, SaveArtifact(t)
  PROVE  RankingInv'
<1>1. RankingTyped
  BY DEF RankingInv
<1>2. PICK saved \in BOOLEAN :
        rartifact' = IF saved THEN Append(rartifact, rpc[t]) ELSE rartifact
  BY DEF SaveArtifact
<1>3. /\ rpc[t] \in {"summarised", "unsummarised"} /\ REnd(t)
      /\ UNCHANGED <<rkeyword, rsnapshot, rclock, rjob>>
  BY DEF SaveArtifact
<1>4. rartifact' \in Seq({"summarised", "unsummarised"})
  <2>1. CASE saved
    BY <1>1, <1>2, <1>3, <2>1, AppendProperties DEF RankingTyped
  <2>2. CASE ~ saved
    BY <1>1, <1>2, <2>2 DEF RankingTyped
  <2> QED BY <2>1, <2>2
<1> QED BY <1>3, <1>4, CaptureEnds

(* What a capture found is saved in one transaction or not at all.         *)
LEMMA FailCaptureKeeps ==
  ASSUME RankingInv, NEW t \in Thread, FailCapture(t)
  PROVE  RankingInv'
<1>1. REnd(t) /\ UNCHANGED <<rkeyword, rsnapshot, rclock, rjob, rartifact>>
  BY DEF FailCapture
<1>2. rartifact' \in Seq({"summarised", "unsummarised"})
  BY <1>1 DEF RankingInv, RankingTyped
<1> QED BY <1>1, <1>2, CaptureEnds

(* What is answered is filed under what was read, at a date of its own.    *)
LEMMA FetchKeeps ==
  ASSUME RankingInv, NEW t \in Thread, Fetch(t)
  PROVE  RankingInv'
<1>1. RankingTyped /\ Capturing /\ Dates /\ StoredCaptures
  BY DEF RankingInv
<1>2. PICK l \in Nat : l = Len(rkeyword) /\ DOMAIN rkeyword = 1 .. l
  BY <1>1, LenProperties DEF RankingTyped
<1>3. PICK A \in SUBSET (1 .. l) : A = rasked[t]
  <2>1. rpc[t] = "fetch" /\ CaptureHolds(rpc[t], rasked[t], rfound[t], rkeyword)
    BY <1>1 DEF Capturing, Fetch
  <2>2. PICK d \in Device, n \in 0 .. l : rasked[t] = TrackedOn(rkeyword, d, n)
    BY <1>2, <2>1 DEF CaptureHolds
  <2> QED BY <2>2 DEF TrackedOn
<1>4. PICK answer \in [A -> Position \cup {Unranked}], order \in InAnyOrder(A) :
        rfound' = [rfound EXCEPT ![t] =
          [i \in DOMAIN order |->
            [at |-> rclock',
             keyword |-> ByKeyword(A, rkeyword[order[i]].text),
             text |-> rkeyword[order[i]].text,
             position |-> answer[order[i]]]]]
  <2> DEFINE Answered(picked) ==
               \E answer \in [picked -> Position \cup {Unranked}],
                  order \in InAnyOrder(picked) :
                 rfound' = [rfound EXCEPT ![t] =
                   [i \in DOMAIN order |->
                     [at |-> rclock',
                      keyword |-> ByKeyword(picked, rkeyword[order[i]].text),
                      text |-> rkeyword[order[i]].text,
                      position |-> answer[order[i]]]]]
  <2>1. Answered(rasked[t])
    BY DEF Fetch
  <2>2. Answered(A)
    <3> HIDE DEF Answered
    <3> QED BY <1>3, <2>1
  <2> QED BY <2>2
<1>5. /\ rpc[t] = "fetch" /\ rclock' = rclock + 1
      /\ rpc' = [rpc EXCEPT ![t] = "save"]
      /\ UNCHANGED <<rkeyword, rsnapshot, rjob, rartifact, rasked>>
  BY DEF Fetch
<1>6. PICK now \in Nat : now = rclock + 1
  BY <1>1 DEF RankingTyped
<1>7. PICK rows : rows = [i \in DOMAIN order |->
            [at |-> now,
             keyword |-> ByKeyword(A, rkeyword[order[i]].text),
             text |-> rkeyword[order[i]].text,
             position |-> answer[order[i]]]]
  OBVIOUS
<1>8. rfound' = [rfound EXCEPT ![t] = rows]
  BY <1>4, <1>5, <1>6, <1>7
<1>9. /\ DOMAIN rows = DOMAIN order
      /\ \A i \in DOMAIN order :
           /\ rows[i].at = now
           /\ rows[i].text = rkeyword[order[i]].text
           /\ rows[i].keyword = ByKeyword(A, rkeyword[order[i]].text)
           /\ rows[i] = [at |-> now, keyword |-> rows[i].keyword,
                         text |-> rows[i].text, position |-> answer[order[i]]]
  BY <1>7
<1>10. \A i \in DOMAIN order :
         /\ rows[i].text = rkeyword[order[i]].text
         /\ rows[i].keyword = Max({k \in A : rkeyword[k].text = rows[i].text})
  <2>1. ASSUME NEW i \in DOMAIN order
        PROVE  rows[i].keyword = ByKeyword(A, rows[i].text)
    BY <1>9
  <2> QED BY <1>9, <2>1 DEF ByKeyword
<1>11. WholeRows(rows, DOMAIN rows, rkeyword, A)
  <2>1. rpc[t] = "fetch" /\ CaptureHolds(rpc[t], rasked[t], rfound[t], rkeyword)
    BY <1>1, <1>5 DEF Capturing
  <2>2. PICK d \in Device, n \in 0 .. l : A = TrackedOn(rkeyword, d, n)
    BY <1>2, <1>3, <2>1 DEF CaptureHolds
  <2>3. ASSUME NEW j \in A, NEW k \in A, rkeyword[j].text = rkeyword[k].text
        PROVE  j = k
    <3>1. /\ j \in DOMAIN rkeyword /\ rkeyword[j].device = d
          /\ k \in DOMAIN rkeyword /\ rkeyword[k].device = d
      BY <1>2, <2>2 DEF TrackedOn
    <3>2. rkeyword[j] \in TrackedKeyword /\ rkeyword[k] \in TrackedKeyword
      BY <1>1, <1>2, <3>1, ElementOfSeq DEF RankingTyped
    <3>3. rkeyword[j] = rkeyword[k]
      BY <2>3, <3>1, <3>2 DEF TrackedKeyword
    <3> QED BY <1>1, <3>1, <3>3 DEF RankingTyped, Distinct
  <2> QED BY <1>9, <1>10, <2>3, AnswersWhole
<1>12. rows \in Seq(Snapshot)
  <2>1. PICK c : DOMAIN order = 1 .. c /\ order \in [1 .. c -> A] /\ c \in Nat
    <3>1. IsFiniteSet(1 .. l)
      BY FS_Interval
    <3>2. IsFiniteSet(A)
      BY <3>1, FS_Subset
    <3>3. Cardinality(A) \in Nat
      BY <3>2, FS_CardinalityType
    <3>4. order \in [1 .. Cardinality(A) -> A]
      BY DEF InAnyOrder
    <3> QED BY <3>3, <3>4
  <2>2. ASSUME NEW i \in 1 .. c PROVE rows[i] \in Snapshot
    <3>1. order[i] \in A /\ order[i] \in 1 .. l
      BY <2>1
    <3>2. rkeyword[order[i]] \in TrackedKeyword
      BY <1>1, <1>2, <3>1, ElementOfSeq DEF RankingTyped
    <3>3. rows[i].text \in Text
      BY <1>9, <2>1, <3>2 DEF TrackedKeyword
    <3>4. rows[i].keyword \in A
      BY <1>9, <1>11, <2>1 DEF WholeRows
    <3>5. rows[i].keyword \in Nat
      BY <1>3, <3>4
    <3>6. answer[order[i]] \in Position \cup {Unranked}
      BY <3>1
    <3>7. rows[i] = [at |-> now, keyword |-> rows[i].keyword,
                     text |-> rows[i].text, position |-> answer[order[i]]]
      BY <1>9, <2>1
    <3> QED BY <3>3, <3>5, <3>6, <3>7 DEF Snapshot
  <2>3. rows \in [1 .. c -> Snapshot]
    BY <1>7, <2>1, <2>2
  <2> QED BY <2>1, <2>3, SeqDef
<1>13. RankingTyped'
  BY <1>1, <1>5, <1>6, <1>8, <1>12 DEF RankingTyped
<1>14. /\ rpc'[t] = "save" /\ rfound'[t] = rows
       /\ \A u \in Thread \ {t} : rpc'[u] = rpc[u] /\ rfound'[u] = rfound[u]
  BY <1>1, <1>5, <1>8 DEF RankingTyped
<1>15. Capturing'
  <2> SUFFICES ASSUME NEW u \in Thread
               PROVE  CaptureHolds(rpc'[u], rasked[u], rfound'[u], rkeyword)
    BY <1>5 DEF Capturing
  <2>1. CaptureHolds(rpc[u], rasked[u], rfound[u], rkeyword)
    BY <1>1 DEF Capturing
  <2>2. CASE u = t
    BY <1>3, <1>5, <1>11, <1>14, <2>1, <2>2 DEF CaptureHolds
  <2>3. CASE u # t
    BY <1>14, <2>1, <2>3
  <2> QED BY <2>2, <2>3
<1>16. /\ \A i \in DOMAIN rsnapshot : rsnapshot[i].at \in Nat
       /\ \A u \in Thread : \A i \in DOMAIN rfound[u] : rfound[u][i].at \in Nat
  <2>1. \A s \in Seq(Snapshot) : \A i \in DOMAIN s : s[i] \in Snapshot
    BY ElementOfSeq, LenProperties
  <2> QED BY <1>1, <2>1 DEF RankingTyped, Snapshot
<1>17. Dates'
  <2>1. \A i \in DOMAIN rsnapshot : rsnapshot[i].at < now
    BY <1>1, <1>6, <1>16 DEF Dates, RankingTyped
  <2>2. \A u \in Thread : \A i \in DOMAIN rfound[u] : rfound[u][i].at < now
    BY <1>1, <1>6, <1>16 DEF Dates, RankingTyped
  <2>3. \A i \in DOMAIN rows : rows[i].at = now
    BY <1>9
  <2>4. \A i \in DOMAIN rsnapshot' : rsnapshot'[i].at <= rclock'
    BY <1>5, <1>6, <1>16, <2>1
  <2>5. ASSUME NEW u \in Thread, NEW i \in DOMAIN rfound'[u]
        PROVE  /\ rfound'[u][i].at <= rclock'
               /\ \A j \in DOMAIN rfound'[u] :
                    rfound'[u][i].at = rfound'[u][j].at
               /\ \A j \in DOMAIN rsnapshot : rfound'[u][i].at # rsnapshot[j].at
               /\ \A v \in Thread \ {u} : \A j \in DOMAIN rfound'[v] :
                    rfound'[u][i].at # rfound'[v][j].at
    <3>1. CASE u = t
      <4>1. rfound'[u] = rows /\ rfound'[u][i].at = now
        BY <1>14, <2>3, <2>5, <3>1
      <4>2. \A j \in DOMAIN rsnapshot : now # rsnapshot[j].at
        BY <1>6, <1>16, <2>1
      <4>3. \A v \in Thread \ {u} : \A j \in DOMAIN rfound'[v] :
              now # rfound'[v][j].at
        BY <1>6, <1>14, <1>16, <2>2, <3>1
      <4>4. now <= rclock'
        BY <1>5, <1>6
      <4> QED BY <2>3, <4>1, <4>2, <4>3, <4>4
    <3>2. CASE u # t
      <4>1. rfound'[u] = rfound[u] /\ i \in DOMAIN rfound[u]
        BY <1>14, <2>5, <3>2
      <4>2. rfound[u][i].at < now /\ rfound[u][i].at \in Nat
        BY <1>16, <2>2, <4>1
      <4>3. rfound[u][i].at <= rclock'
        BY <1>5, <1>6, <4>2
      <4>4. /\ \A j \in DOMAIN rfound[u] : rfound[u][i].at = rfound[u][j].at
            /\ \A j \in DOMAIN rsnapshot : rfound[u][i].at # rsnapshot[j].at
        BY <1>1, <4>1 DEF Dates
      <4>5. ASSUME NEW v \in Thread \ {u}, NEW j \in DOMAIN rfound'[v]
            PROVE  rfound[u][i].at # rfound'[v][j].at
        <5>1. CASE v = t
          <6>1. rfound'[v][j].at = now
            BY <1>14, <2>3, <4>5, <5>1
          <6> QED BY <4>2, <6>1, <1>6
        <5>2. CASE v # t
          BY <1>1, <1>14, <4>1, <5>2 DEF Dates
        <5> QED BY <5>1, <5>2
      <4> QED BY <4>1, <4>3, <4>4, <4>5
    <3> QED BY <3>1, <3>2
  <2> QED BY <1>5, <2>4, <2>5 DEF Dates
<1>18. StoredCaptures'
  BY <1>1, <1>5 DEF StoredCaptures
<1> QED BY <1>13, <1>15, <1>17, <1>18 DEF RankingInv

(* What is saved beside what stands leaves both whole.                     *)
LEMMA SaveSnapshotsKeeps ==
  ASSUME RankingInv, NEW t \in Thread, SaveSnapshots(t)
  PROVE  RankingInv'
<1>1. RankingTyped /\ Capturing /\ Dates /\ StoredCaptures
  BY DEF RankingInv
<1>2. PICK found \in Seq(Snapshot) : found = rfound[t]
  BY <1>1 DEF RankingTyped
<1>3. PICK l \in Nat, m \in Nat :
        /\ l = Len(rsnapshot) /\ DOMAIN rsnapshot = 1 .. l
        /\ m = Len(found) /\ DOMAIN found = 1 .. m
  BY <1>1, LenProperties DEF RankingTyped
<1>4. /\ rpc[t] = "save" /\ rsnapshot' = rsnapshot \o found /\ REnd(t)
      /\ UNCHANGED <<rkeyword, rclock, rjob, rartifact>>
  BY <1>2 DEF SaveSnapshots
<1>5. /\ rsnapshot' \in Seq(Snapshot) /\ DOMAIN rsnapshot' = 1 .. l + m
      /\ \A i \in 1 .. l : rsnapshot'[i] = rsnapshot[i]
      /\ \A i \in 1 .. m : rsnapshot'[l + i] = found[i]
  <2>1. rsnapshot \in Seq(Snapshot)
    BY <1>1 DEF RankingTyped
  <2>2. /\ rsnapshot' \in Seq(Snapshot) /\ Len(rsnapshot') = l + m
        /\ \A i \in 1 .. l + m :
             rsnapshot'[i] = IF i <= l THEN rsnapshot[i] ELSE found[i - l]
    BY <1>3, <1>4, <2>1, ConcatProperties
  <2>3. DOMAIN rsnapshot' = 1 .. l + m
    BY <2>2, LenProperties
  <2>4. ASSUME NEW i \in 1 .. m PROVE rsnapshot'[l + i] = found[i]
    <3>1. l + i \in 1 .. l + m /\ ~ (l + i <= l) /\ (l + i) - l = i
      OBVIOUS
    <3>2. rsnapshot'[l + i] = found[(l + i) - l]
      BY <2>2, <3>1
    <3> QED BY <3>1, <3>2
  <2> QED BY <2>2, <2>3, <2>4
<1>6. RankingTyped'
  BY <1>1, <1>4, <1>5 DEF RankingTyped, REnd
<1>7. /\ rpc'[t] = "idle" /\ rasked'[t] = {} /\ rfound'[t] = <<>>
      /\ \A u \in Thread \ {t} : /\ rpc'[u] = rpc[u] /\ rasked'[u] = rasked[u]
                                 /\ rfound'[u] = rfound[u]
  BY <1>1, <1>4 DEF RankingTyped, REnd
<1>8. Capturing'
  <2> SUFFICES ASSUME NEW u \in Thread
               PROVE  CaptureHolds(rpc'[u], rasked'[u], rfound'[u], rkeyword')
    BY DEF Capturing
  <2>1. CASE u = t
    BY <1>7, <2>1 DEF CaptureHolds
  <2>2. CASE u # t
    BY <1>1, <1>4, <1>7, <2>2 DEF Capturing
  <2> QED BY <2>1, <2>2
<1>9. /\ \A i, j \in 1 .. m : found[i].at = found[j].at
      /\ \A i \in 1 .. m : found[i].at <= rclock
      /\ \A i \in 1 .. m : \A j \in 1 .. l : found[i].at # rsnapshot[j].at
      /\ \A i \in 1 .. m : \A u \in Thread \ {t} : \A j \in DOMAIN rfound[u] :
           found[i].at # rfound[u][j].at
  BY <1>1, <1>2, <1>3 DEF Dates
<1>10. \A i \in 1 .. l + m : i \in 1 .. l \/ \E x \in 1 .. m : i = l + x
  <2> TAKE i \in 1 .. l + m
  <2>1. CASE i <= l
    BY <2>1
  <2>2. CASE i > l
    <3>1. i - l \in 1 .. m /\ i = l + (i - l)
      BY <2>2
    <3> QED BY <3>1
  <2> QED BY <2>1, <2>2
<1>11. Dates'
  <2>1. ASSUME NEW i \in DOMAIN rsnapshot'
        PROVE  /\ rsnapshot'[i].at <= rclock
               /\ \A u \in Thread \ {t} : \A j \in DOMAIN rfound[u] :
                    rfound[u][j].at # rsnapshot'[i].at
    <3>1. CASE i \in 1 .. l
      <4>1. rsnapshot'[i] = rsnapshot[i] /\ i \in DOMAIN rsnapshot
        BY <1>3, <1>5, <3>1
      <4> QED BY <1>1, <4>1 DEF Dates
    <3>2. CASE \E x \in 1 .. m : i = l + x
      <4>1. PICK x \in 1 .. m : i = l + x
        BY <3>2
      <4>2. rsnapshot'[i] = found[x]
        BY <1>5, <4>1
      <4> QED BY <1>9, <4>2
    <3> QED BY <1>5, <1>10, <3>1, <3>2
  <2>2. ASSUME NEW u \in Thread, NEW i \in DOMAIN rfound'[u]
        PROVE  /\ rfound'[u][i].at <= rclock
               /\ \A j \in DOMAIN rfound'[u] :
                    rfound'[u][i].at = rfound'[u][j].at
               /\ \A j \in DOMAIN rsnapshot' :
                    rfound'[u][i].at # rsnapshot'[j].at
               /\ \A v \in Thread \ {u} : \A j \in DOMAIN rfound'[v] :
                    rfound'[u][i].at # rfound'[v][j].at
    <3>1. u # t /\ rfound'[u] = rfound[u]
      BY <1>7, <2>2
    <3>2. \A v \in Thread : \A j \in DOMAIN rfound'[v] :
            rfound'[v] = rfound[v] /\ j \in DOMAIN rfound[v]
      BY <1>7
    <3>3. \A j \in DOMAIN rsnapshot' : rfound[u][i].at # rsnapshot'[j].at
      BY <2>1, <2>2, <3>1
    <3>4. \A v \in Thread \ {u} : \A j \in DOMAIN rfound'[v] :
            rfound[u][i].at # rfound'[v][j].at
      BY <1>1, <2>2, <3>1, <3>2 DEF Dates
    <3>5. /\ rfound[u][i].at <= rclock
          /\ \A j \in DOMAIN rfound[u] : rfound[u][i].at = rfound[u][j].at
      BY <1>1, <2>2, <3>1 DEF Dates
    <3> QED BY <3>1, <3>3, <3>4, <3>5
  <2>3. \A i \in DOMAIN rsnapshot' : rsnapshot'[i].at <= rclock
    BY <2>1
  <2> QED BY <1>4, <2>2, <2>3 DEF Dates
<1>13. ASSUME NEW i \in 1 .. l
       PROVE  \E d \in Device, n \in 0 .. Len(rkeyword) :
                WholeRows(rsnapshot', RowsOf(rsnapshot', rsnapshot[i].at),
                          rkeyword, TrackedOn(rkeyword, d, n))
  <2>1. PICK D : D = RowsOf(rsnapshot, rsnapshot[i].at)
    OBVIOUS
  <2>2. PICK d \in Device, n \in 0 .. Len(rkeyword) :
          WholeRows(rsnapshot, D, rkeyword, TrackedOn(rkeyword, d, n))
    BY <1>1, <1>3, <2>1 DEF StoredCaptures
  <2>3. RowsOf(rsnapshot', rsnapshot[i].at) = D
    <3>1. ASSUME NEW j \in 1 .. m
          PROVE  rsnapshot'[l + j].at # rsnapshot[i].at
      <4>1. rsnapshot'[l + j] = found[j] /\ found[j].at # rsnapshot[i].at
        BY <1>5, <1>9
      <4> QED BY <4>1
    <3>2. ASSUME NEW j \in RowsOf(rsnapshot', rsnapshot[i].at) PROVE j \in D
      <4>1. j \in 1 .. l + m /\ rsnapshot'[j].at = rsnapshot[i].at
        BY <1>5, <3>2 DEF RowsOf
      <4>2. j \in 1 .. l
        BY <1>10, <3>1, <4>1
      <4> QED BY <1>3, <1>5, <2>1, <4>1, <4>2 DEF RowsOf
    <3>3. ASSUME NEW j \in D PROVE j \in RowsOf(rsnapshot', rsnapshot[i].at)
      <4>1. j \in 1 .. l /\ rsnapshot[j].at = rsnapshot[i].at
        BY <1>3, <2>1, <3>3 DEF RowsOf
      <4>2. j \in 1 .. l + m /\ rsnapshot'[j].at = rsnapshot[i].at
        BY <1>5, <4>1
      <4> QED BY <1>5, <4>2 DEF RowsOf
    <3> QED BY <3>2, <3>3
  <2>4. D \in SUBSET (1 .. l)
    BY <1>3, <2>1 DEF RowsOf
  <2>6. PICK f \in [D -> D] : \A j \in D : f[j] = j
    <3>1. [j \in D |-> j] \in [D -> D]
      OBVIOUS
    <3> QED BY <3>1
  <2>7. /\ \A j \in D : rsnapshot'[j] = rsnapshot[f[j]]
        /\ \A j, k \in D : f[j] = f[k] => j = k
        /\ \A j \in D : \E k \in D : f[k] = j
    BY <1>5, <2>4, <2>6
  <2>8. WholeRows(rsnapshot', D, rkeyword, TrackedOn(rkeyword, d, n))
    BY <2>2, <2>7, MovedWhole
  <2> QED BY <2>3, <2>8
<1>14. ASSUME NEW x \in 1 .. m
       PROVE  \E d \in Device, n \in 0 .. Len(rkeyword) :
                WholeRows(rsnapshot', RowsOf(rsnapshot', found[x].at),
                          rkeyword, TrackedOn(rkeyword, d, n))
  <2>1. CaptureHolds("save", rasked[t], found, rkeyword)
    BY <1>1, <1>2, <1>4 DEF Capturing
  <2>2. PICK d \in Device, n \in 0 .. Len(rkeyword) :
          rasked[t] = TrackedOn(rkeyword, d, n)
    BY <2>1 DEF CaptureHolds
  <2>3. WholeRows(found, 1 .. m, rkeyword, TrackedOn(rkeyword, d, n))
    BY <1>3, <2>1, <2>2 DEF CaptureHolds
  <2>4. PICK D : D = {l + j : j \in 1 .. m}
    OBVIOUS
  <2>5. RowsOf(rsnapshot', found[x].at) = D
    <3>1. ASSUME NEW j \in 1 .. m PROVE rsnapshot'[l + j].at = found[x].at
      <4>1. rsnapshot'[l + j] = found[j] /\ found[j].at = found[x].at
        BY <1>5, <1>9
      <4> QED BY <4>1
    <3>2. ASSUME NEW j \in 1 .. l PROVE rsnapshot'[j].at # found[x].at
      <4>1. rsnapshot'[j] = rsnapshot[j] /\ found[x].at # rsnapshot[j].at
        BY <1>5, <1>9
      <4> QED BY <4>1
    <3>3. \A j \in 1 .. m : l + j \in 1 .. l + m
      OBVIOUS
    <3>4. ASSUME NEW j \in RowsOf(rsnapshot', found[x].at) PROVE j \in D
      <4>1. j \in 1 .. l + m /\ rsnapshot'[j].at = found[x].at
        BY <1>5, <3>4 DEF RowsOf
      <4> QED BY <1>10, <2>4, <3>2, <4>1
    <3>5. ASSUME NEW j \in D PROVE j \in RowsOf(rsnapshot', found[x].at)
      <4>1. PICK k \in 1 .. m : j = l + k
        BY <2>4
      <4> QED BY <1>5, <3>1, <3>3, <4>1 DEF RowsOf
    <3> QED BY <3>4, <3>5
  <2>6. \A j \in D : j - l \in 1 .. m /\ l + (j - l) = j
    BY <2>4
  <2>7. PICK f \in [D -> 1 .. m] : \A j \in D : f[j] = j - l
    <3>1. [j \in D |-> j - l] \in [D -> 1 .. m]
      BY <2>6
    <3> QED BY <3>1
  <2>8. \A j \in D : rsnapshot'[j] = found[f[j]]
    <3> TAKE j \in D
    <3>1. rsnapshot'[l + (j - l)] = found[j - l]
      BY <1>5, <2>6
    <3> QED BY <2>6, <2>7, <3>1
  <2>9. \A j, k \in D : f[j] = f[k] => j = k
    <3> SUFFICES ASSUME NEW j \in D, NEW k \in D, f[j] = f[k] PROVE j = k
      OBVIOUS
    <3>1. j - l = k - l
      BY <2>7
    <3> QED BY <2>6, <3>1
  <2>10. \A j \in 1 .. m : \E k \in D : f[k] = j
    <3> TAKE j \in 1 .. m
    <3>1. l + j \in D /\ (l + j) - l = j
      BY <2>4
    <3> QED BY <2>7, <3>1
  <2>11. WholeRows(rsnapshot', D, rkeyword, TrackedOn(rkeyword, d, n))
    BY <2>3, <2>8, <2>9, <2>10, MovedWhole
  <2> QED BY <2>5, <2>11
<1>15. StoredCaptures'
  <2> SUFFICES ASSUME NEW i \in 1 .. l + m
               PROVE  \E d \in Device, n \in 0 .. Len(rkeyword) :
                        WholeRows(rsnapshot',
                                  RowsOf(rsnapshot', rsnapshot'[i].at),
                                  rkeyword, TrackedOn(rkeyword, d, n))
    BY <1>4, <1>5 DEF StoredCaptures
  <2>1. CASE i \in 1 .. l
    <3>1. rsnapshot'[i].at = rsnapshot[i].at
      BY <1>5, <2>1
    <3> QED BY <1>13, <2>1, <3>1
  <2>2. CASE \E x \in 1 .. m : i = l + x
    <3>1. PICK x \in 1 .. m : i = l + x
      BY <2>2
    <3>2. rsnapshot'[i].at = found[x].at
      BY <1>5, <3>1
    <3> QED BY <1>14, <3>2
  <2> QED BY <1>10, <2>1, <2>2
<1> QED BY <1>6, <1>8, <1>11, <1>15 DEF RankingInv

(* What one capture stores is complete for its device, once for each       *)
(* keyword (capture_rankings_now), whatever keywords are added and         *)
(* whichever other captures come in between, fail or are lost; and the     *)
(* changes that a report shows of a keyword follow one another and end     *)
(* where it stands, whatever the limit on all of them cuts                 *)
(* (detect_ranking_changes).                                               *)
THEOREM CapturesStayWhole == RSpec => []RankingsHold
<1>1. RankingInv /\ [RNext]_rvars => RankingInv'
  <2> SUFFICES ASSUME RankingInv, [RNext]_rvars PROVE RankingInv'
    OBVIOUS
  <2>1. CASE UNCHANGED rvars
    BY <2>1
      DEF rvars, RankingInv, RankingTyped, Capturing, Dates, StoredCaptures
  <2> QED
    BY <2>1, AddKeywordKeeps, ReadKeywordsKeeps, ScheduleKeeps,
       GenerateReportKeeps, FetchKeeps, SaveSnapshotsKeeps, FailCaptureKeeps,
       SaveArtifactKeeps DEF RNext
<1> QED BY <1>1, RankingInit, RankingInvImplies, PTL DEF RSpec

-----------------------------------------------------------------------------
(* The audit job: its final status is right although the lists in its row  *)
(* may lose entries, for every set of engines asked for, every number of   *)
(* threads and every fault.                                                *)
Outcomes(what) == IF what = "done" THEN completed ELSE failed
Recording(e) == pc[e] \in {"read", "write"}

(* What a list may hold: outcomes of engines that were asked for, also in  *)
(* the copies that engines are about to write back.                        *)
ListsHoldOutcomes ==
  /\ RowClaimsOnlyOutcomes
  /\ \A e \in Engine :
       /\ Recording(e) => e \in wanted /\ e \in Outcomes(mark[e])
       /\ pc[e] = "write" => seen[e] \subseteq Outcomes(mark[e])
       /\ stage # "run" => ~Recording(e)
  /\ completed \cup failed \subseteq wanted

(* As long as the database answers, an outcome is on its way to its list,  *)
(* or the list is not empty.                                               *)
NoListIsEmptied ==
  ~lost => \A e \in Engine :
    /\ e \in completed => \/ Recording(e) /\ mark[e] = "done"
                          \/ row.done # {}
    /\ e \in failed => \/ Recording(e) /\ mark[e] # "done"
                       \/ row.failed # {}

FinalIsRight == row.status \in Finished => stage = "over"

IInv == /\ TypeOK /\ ListsHoldOutcomes /\ NoListIsEmptied
        /\ FinalIsRight /\ StatusesAgree

USE AuditAssumption

LEMMA AuditTypeStep == TypeOK /\ [Next]_vars => TypeOK'
<1> SUFFICES ASSUME TypeOK, [Next]_vars PROVE TypeOK'
  OBVIOUS
<1> USE DEF TypeOK
<1>1. CASE UNCHANGED vars
  BY <1>1 DEF vars, asked, lists, tasks
<1>2. CASE Create
  BY <1>2 DEF Create, asked, lists, tasks, Status
<1>3. CASE MarkRunning
  BY <1>3 DEF MarkRunning, asked, lists, tasks, Status
<1>4. CASE Finish
  BY <1>4 DEF Finish, asked, lists, tasks, Status
<1>5. CASE Abort
  BY <1>5 DEF Abort, asked, lists, tasks
<1>6. ASSUME NEW e \in Engine, Skip(e) PROVE TypeOK'
  BY <1>6 DEF Skip, MayStart, Records, asked, lists, tasks
<1>7. ASSUME NEW e \in Engine, Succeed(e) PROVE TypeOK'
  BY <1>7 DEF Succeed, MayStart, Records, asked, lists, tasks
<1>8. ASSUME NEW e \in Engine, Fail(e) PROVE TypeOK'
  BY <1>8 DEF Fail, MayStart, Records, asked, lists, tasks
<1>9. ASSUME NEW e \in Engine, ReadList(e) PROVE TypeOK'
  BY <1>9 DEF ReadList, MayStart, Records, asked, lists, tasks
<1>10. ASSUME NEW e \in Engine, WriteList(e) PROVE TypeOK'
  BY <1>10 DEF WriteList, MayStart, Records, asked, lists, tasks
<1>11. ASSUME NEW e \in Engine, DatabaseFails(e) PROVE TypeOK'
  BY <1>11 DEF DatabaseFails, MayStart, Records, asked, lists, tasks
<1> QED BY <1>1, <1>2, <1>3, <1>4, <1>5, <1>6, <1>7, <1>8, <1>9, <1>10,
              <1>11 DEF Next, EngineStep

LEMMA ListsStep == IInv /\ [Next]_vars => ListsHoldOutcomes'
<1> SUFFICES ASSUME IInv, [Next]_vars PROVE ListsHoldOutcomes'
  OBVIOUS
<1> USE DEF IInv, TypeOK, ListsHoldOutcomes, RowClaimsOnlyOutcomes, Outcomes,
            Recording
<1>1. CASE UNCHANGED vars
  BY <1>1 DEF vars, asked, lists, tasks
<1>2. CASE Create
  BY <1>2 DEF Create, asked, lists, tasks
<1>3. CASE MarkRunning
  BY <1>3 DEF MarkRunning, asked, lists, tasks
<1>4. CASE Finish
  BY <1>4 DEF Finish, asked, lists, tasks, AllOver
<1>5. CASE Abort
  BY <1>5 DEF Abort, asked, lists, tasks, AllOver
<1>6. ASSUME NEW e \in Engine, Skip(e) PROVE ListsHoldOutcomes'
  BY <1>6 DEF Skip, MayStart, Records, asked, lists, tasks
<1>7. ASSUME NEW e \in Engine, Succeed(e) PROVE ListsHoldOutcomes'
  BY <1>7 DEF Succeed, MayStart, Records, asked, lists, tasks
<1>8. ASSUME NEW e \in Engine, Fail(e) PROVE ListsHoldOutcomes'
  BY <1>8 DEF Fail, MayStart, Records, asked, lists, tasks
<1>9. ASSUME NEW e \in Engine, ReadList(e) PROVE ListsHoldOutcomes'
  BY <1>9 DEF ReadList, MayStart, Records, asked, lists, tasks
<1>10. ASSUME NEW e \in Engine, WriteList(e) PROVE ListsHoldOutcomes'
  BY <1>10 DEF WriteList, MayStart, Records, asked, lists, tasks
<1>11. ASSUME NEW e \in Engine, DatabaseFails(e) PROVE ListsHoldOutcomes'
  BY <1>11 DEF DatabaseFails, MayStart, Records, asked, lists, tasks
<1> QED BY <1>1, <1>2, <1>3, <1>4, <1>5, <1>6, <1>7, <1>8, <1>9, <1>10,
              <1>11 DEF Next, EngineStep

LEMMA EmptyStep == IInv /\ [Next]_vars => NoListIsEmptied'
<1> SUFFICES ASSUME IInv, [Next]_vars PROVE NoListIsEmptied'
  OBVIOUS
<1> USE DEF IInv, TypeOK, ListsHoldOutcomes, NoListIsEmptied, Recording
<1>1. CASE UNCHANGED vars
  BY <1>1 DEF vars, asked, lists, tasks
<1>2. CASE Create
  BY <1>2 DEF Create, asked, lists, tasks
<1>3. CASE MarkRunning
  BY <1>3 DEF MarkRunning, asked, lists, tasks
<1>4. CASE Finish
  BY <1>4 DEF Finish, asked, lists, tasks
<1>5. CASE Abort
  BY <1>5 DEF Abort, asked, lists, tasks
<1>6. ASSUME NEW e \in Engine, Skip(e) PROVE NoListIsEmptied'
  BY <1>6 DEF Skip, MayStart, Records, asked, lists, tasks
<1>7. ASSUME NEW e \in Engine, Succeed(e) PROVE NoListIsEmptied'
  BY <1>7 DEF Succeed, MayStart, Records, asked, lists, tasks
<1>8. ASSUME NEW e \in Engine, Fail(e) PROVE NoListIsEmptied'
  BY <1>8 DEF Fail, MayStart, Records, asked, lists, tasks
<1>9. ASSUME NEW e \in Engine, ReadList(e) PROVE NoListIsEmptied'
  BY <1>9 DEF ReadList, MayStart, Records, asked, lists, tasks
<1>10. ASSUME NEW e \in Engine, WriteList(e) PROVE NoListIsEmptied'
  BY <1>10 DEF WriteList, MayStart, Records, asked, lists, tasks
<1>11. ASSUME NEW e \in Engine, DatabaseFails(e) PROVE NoListIsEmptied'
  BY <1>11 DEF DatabaseFails, MayStart, Records, asked, lists, tasks
<1> QED BY <1>1, <1>2, <1>3, <1>4, <1>5, <1>6, <1>7, <1>8, <1>9, <1>10,
              <1>11 DEF Next, EngineStep

(* When the last engine is over, a list of the row is empty exactly when   *)
(* the orchestrator's list is.                                             *)
LEMMA EmptyTogether ==
  IInv /\ AllOver /\ ~lost =>
    (row.done = {} <=> completed = {}) /\ (row.failed = {} <=> failed = {})
  BY DEF IInv, TypeOK, ListsHoldOutcomes, RowClaimsOnlyOutcomes,
         NoListIsEmptied, AllOver, Recording

LEMMA FinalStep == IInv /\ [Next]_vars => (FinalIsRight /\ StatusesAgree)'
<1> SUFFICES ASSUME IInv, [Next]_vars PROVE (FinalIsRight /\ StatusesAgree)'
  OBVIOUS
<1> DEFINE Goal == (FinalIsRight /\ StatusesAgree)'
<1> USE DEF IInv, TypeOK, FinalIsRight, StatusesAgree, ResultStatus, Finished,
            ListsHoldOutcomes, Recording
<1>1. CASE UNCHANGED vars
  BY <1>1 DEF vars, asked, lists, tasks
<1>2. CASE Create
  BY <1>2 DEF Create, asked, lists, tasks
<1>3. CASE MarkRunning
  BY <1>3 DEF MarkRunning, asked, lists, tasks
<1>4. CASE Finish
  BY <1>4, EmptyTogether DEF Finish, asked, lists, tasks
<1>5. CASE Abort
  BY <1>5 DEF Abort, asked, lists, tasks
<1>6. ASSUME NEW e \in Engine, Skip(e) PROVE Goal
  BY <1>6 DEF Skip, MayStart, Records, asked, lists, tasks
<1>7. ASSUME NEW e \in Engine, Succeed(e) PROVE Goal
  BY <1>7 DEF Succeed, MayStart, Records, asked, lists, tasks
<1>8. ASSUME NEW e \in Engine, Fail(e) PROVE Goal
  BY <1>8 DEF Fail, MayStart, Records, asked, lists, tasks
<1>9. ASSUME NEW e \in Engine, ReadList(e) PROVE Goal
  BY <1>9 DEF ReadList, MayStart, Records, asked, lists, tasks
<1>10. ASSUME NEW e \in Engine, WriteList(e) PROVE Goal
  BY <1>10 DEF WriteList, MayStart, Records, asked, lists, tasks
<1>11. ASSUME NEW e \in Engine, DatabaseFails(e) PROVE Goal
  BY <1>11 DEF DatabaseFails, MayStart, Records, asked, lists, tasks
<1> QED BY <1>1, <1>2, <1>3, <1>4, <1>5, <1>6, <1>7, <1>8, <1>9, <1>10,
              <1>11 DEF Next, EngineStep

LEMMA AuditInit == Init => IInv
<1> SUFFICES ASSUME Init PROVE IInv
  OBVIOUS
<1>1. TypeOK
  BY DEF Init, TypeOK, Status
<1>2. /\ row.status = "none" /\ row.done = {} /\ row.failed = {}
      /\ completed = {} /\ failed = {}
      /\ \A e \in Engine : pc[e] = "waiting"
  BY DEF Init
<1> QED BY <1>1, <1>2 DEF IInv, ListsHoldOutcomes, RowClaimsOnlyOutcomes,
           Recording, NoListIsEmptied, FinalIsRight, StatusesAgree, Finished

(* The inductive invariant holds in every reachable state.                 *)
THEOREM AuditInvariance == Spec => []IInv
<1>1. IInv /\ [Next]_vars => IInv'
  BY AuditTypeStep, ListsStep, EmptyStep, FinalStep DEF IInv
<1> QED BY AuditInit, <1>1, PTL DEF Spec

(* Type correctness of the audit, for any engines and number of threads.   *)
THEOREM AuditTyping == Spec => []TypeOK
<1>1. IInv => TypeOK
  BY DEF IInv
<1> QED BY AuditInvariance, <1>1, PTL

(* The status in the row and the one run_audit returns agree, although     *)
(* threads overwrite each other's entries in the row.                      *)
THEOREM AuditStatus == Spec => []StatusesAgree
<1>1. IInv => StatusesAgree
  BY DEF IInv
<1> QED BY AuditInvariance, <1>1, PTL

(* The row never claims an outcome that the orchestrator did not see.      *)
THEOREM AuditClaims == Spec => []RowClaimsOnlyOutcomes
<1>1. IInv => RowClaimsOnlyOutcomes
  BY DEF IInv, ListsHoldOutcomes
<1> QED BY AuditInvariance, <1>1, PTL

-----------------------------------------------------------------------------
(* An engine that started and fits the target has an outcome from its first *)
(* step on, whatever becomes of its entry in the row.                       *)
StartedHasOutcome ==
  \A e \in wanted :
    pc[e] # "waiting" /\ Supported(e) => e \in completed \cup failed

FinalAfterAll == row.status \in Finished => AllOver

AccountsInv == StartedHasOutcome /\ FinalAfterAll

LEMMA AccountsStep == IInv /\ AccountsInv /\ [Next]_vars => AccountsInv'
<1> SUFFICES ASSUME IInv, AccountsInv, [Next]_vars PROVE AccountsInv'
  OBVIOUS
<1> USE DEF IInv, TypeOK, AccountsInv, StartedHasOutcome, FinalAfterAll,
            FinalIsRight, AllOver, Supported, Finished
<1>1. CASE UNCHANGED vars
  BY <1>1 DEF vars, asked, lists, tasks
<1>2. CASE Create
  BY <1>2 DEF Create, asked, lists, tasks
<1>3. CASE MarkRunning
  BY <1>3 DEF MarkRunning, asked, lists, tasks
<1>4. CASE Finish
  BY <1>4 DEF Finish, asked, lists, tasks
<1>5. CASE Abort
  BY <1>5 DEF Abort, asked, lists, tasks
<1>6. ASSUME NEW e \in Engine, Skip(e) PROVE AccountsInv'
  BY <1>6 DEF Skip, MayStart, asked, lists
<1>7. ASSUME NEW e \in Engine, Succeed(e) PROVE AccountsInv'
  BY <1>7 DEF Succeed, MayStart, Records, asked
<1>8. ASSUME NEW e \in Engine, Fail(e) PROVE AccountsInv'
  BY <1>8 DEF Fail, MayStart, Records, asked
<1>9. ASSUME NEW e \in Engine, ReadList(e) PROVE AccountsInv'
  BY <1>9 DEF ReadList, asked, lists
<1>10. ASSUME NEW e \in Engine, WriteList(e) PROVE AccountsInv'
  BY <1>10 DEF WriteList, asked, lists
<1>11. ASSUME NEW e \in Engine, DatabaseFails(e) PROVE AccountsInv'
  BY <1>11 DEF DatabaseFails, Records, asked
<1> QED BY <1>1, <1>2, <1>3, <1>4, <1>5, <1>6, <1>7, <1>8, <1>9, <1>10,
              <1>11 DEF Next, EngineStep

(* A finished audit leaves no engine that fits unanswered, and its row     *)
(* claims no outcome that the orchestrator did not see.                    *)
THEOREM AuditAccounts == Spec => []OutcomesAccountedFor
<1>1. Init => AccountsInv
  BY DEF Init, AccountsInv, StartedHasOutcome, FinalAfterAll, Finished
<1>2. IInv /\ AccountsInv => OutcomesAccountedFor
  BY DEF IInv, ListsHoldOutcomes, AccountsInv, StartedHasOutcome,
         FinalAfterAll, AllOver, OutcomesAccountedFor, EveryEngineAnswers
<1> QED BY AuditInvariance, <1>1, <1>2, AccountsStep, PTL DEF Spec
=============================================================================
