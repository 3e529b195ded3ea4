------------------------ MODULE CrawlPipelineProofs ------------------------
(***************************************************************************)
(* What POST /crawl keeps, for any number of requests, any site and any    *)
(* failing transaction: the rows refer to rows, an answered request stored *)
(* what it counts, fixes write to the right image, and requests one at a   *)
(* time leave the twin a mirror of the last crawl.                         *)
(***************************************************************************)
EXTENDS CrawlPipeline, FiniteSetTheorems, WellFoundedInduction, TLAPS

FixesBy(c) == {f \in fixes : f.by = c}

(* What a request holds at each stage.                                     *)
Shaped ==
  /\ seen = [c \in Crawl |-> seen[c]]
  /\ summary = [c \in Crawl |-> summary[c]]
  /\ \A c \in Crawl : pc[c] = "idle" => Selected(c) = {}
  /\ \A r \in Row : r \notin rows => linked[r] = {}

(* A crawl's issues appear together, one for each candidate, and once.     *)
Abouts(c) == {i.about : i \in IssuesBy(c)}
IssuesStaged ==
  /\ \A i \in issues : i.page \in rows /\ i.page[1] = i.about.url
  /\ \A i, j \in issues : i.by = j.by /\ i.about = j.about => i = j
  /\ \A c \in Crawl :
       /\ pc[c] \in {"idle", "rejected", "upsert", "issues"} =>
            IssuesBy(c) = {}
       /\ pc[c] \in {"fixes", "answered"} => Abouts(c) = Raised(c)
       /\ Abouts(c) \in {{}, Raised(c)}

(* Fixes come with the answer, which counts them.                          *)
RightImage(f) ==
  LET image == PageOf(f.by, f.about.url).images[f.about.image]
  IN Asks(f.about) /\ image.blank /\ image.media = f.is.target
FixRight(f) == /\ pc[f.by] = "answered" /\ f.about \in Raised(f.by)
               /\ NamesApart /\ f.is.auto => RightImage(f)
Counted(c) == /\ IsFiniteSet(FixesBy(c))
              /\ NamesApart => {f.about : f \in FixesBy(c)} = Raised(c)
              /\ summary[c] = Summary(c, FixesBy(c))
FixesStaged ==
  /\ \A f \in fixes : FixRight(f)
  /\ \A c \in Crawl : pc[c] = "answered" => Counted(c)

PagesStored ==
  \A c \in Crawl : pc[c] \in {"issues", "fixes", "answered"} =>
    \A u \in UrlsOf(c) : RowsOf(u) # {}

(* Requests one at a time: what the upsert selected is still there.        *)
Mirrored(u) ==
  IF latest[u] = None THEN RowsOf(u) = {}
  ELSE \E r \in rows : RowsOf(u) = {r} /\ linked[r] = {latest[u]}
LinksOf(u) == UNION {linked[r] : r \in RowsOf(u)}
Undisturbed ==
  /\ \A c, d \in Crawl : Busy(c) /\ Busy(d) => c = d
  /\ \A u \in Url : Mirrored(u)
  /\ \A c \in Crawl : At(c, "upsert") => \A u \in Selected(c) :
       seen[c][u].row = RowsOf(u) /\ seen[c][u].links = LinksOf(u)

PInv == /\ TypeOK /\ Shaped /\ IssuesStaged /\ FixesStaged /\ PagesStored
        /\ (~met => Undisturbed)

-----------------------------------------------------------------------------
(* There is a least number in every set of them.                           *)
LEMMA FirstIsLeast ==
  ASSUME NEW S, S \subseteq Nat, S # {}
  PROVE  First(S) \in S /\ \A j \in S : First(S) <= j
<1> DEFINE R == {ss \in Nat \X Nat : ss[1] < ss[2]}
<1>1. IsWellFoundedOn(R, Nat)
  BY NatLessThanWellFounded DEF OpToRel
<1>2. PICK x \in S : \A y \in S : <<y, x>> \notin R
  <2> HIDE DEF R
  <2> QED BY <1>1, WFMin
<1>3. ASSUME NEW y \in S PROVE x <= y
  <2>1. y < x => <<y, x>> \in R
    OBVIOUS
  <2>2. ~ (y < x)
    BY <1>2, <2>1
  <2> HIDE DEF R
  <2> QED BY <2>2
<1> QED BY <1>3 DEF First

(* The image of a finite set, and the union of finitely many finite sets,  *)
(* are finite.                                                             *)
LEMMA FiniteImage ==
  ASSUME NEW S, IsFiniteSet(S), NEW F
  PROVE  IsFiniteSet({F[x] : x \in S})
<1> DEFINE T == {F[x] : x \in S}
           g == [x \in S |-> F[x]]
<1>1. g \in Surjection(S, T)
  BY DEF Surjection
<1> HIDE DEF g, T
<1> QED BY <1>1, FS_Surjection DEF T

LEMMA FiniteUnion ==
  ASSUME NEW S, IsFiniteSet(S), NEW F, \A x \in S : IsFiniteSet(F[x])
  PROVE  IsFiniteSet(UNION {F[x] : x \in S})
<1> DEFINE Sum(U) == UNION {F[x] : x \in U}
           Bad == {U \in FiniteSubsetsOf(S) : ~ IsFiniteSet(Sum(U))}
           R == StrictSubsetOrdering(S)
<1> SUFFICES ASSUME ~ IsFiniteSet(Sum(S)) PROVE FALSE
  OBVIOUS
<1>1. Bad \subseteq FiniteSubsetsOf(S) /\ S \in Bad
  BY DEF FiniteSubsetsOf
<1>2. IsWellFoundedOn(R, FiniteSubsetsOf(S))
  BY FS_StrictSubsetOrderingWellFounded
<1>3. PICK U \in Bad : \A V \in Bad : <<V, U>> \notin R
  <2> HIDE DEF R, Bad
  <2> QED BY <1>1, <1>2, WFMin
<1>4. U \subseteq S /\ IsFiniteSet(U) /\ ~ IsFiniteSet(Sum(U))
  BY <1>3 DEF FiniteSubsetsOf
<1>5. U # {}
  <2>1. Sum({}) = {}
    OBVIOUS
  <2> QED BY <1>4, <2>1, FS_EmptySet
<1>6. PICK x : x \in U
  BY <1>5
<1> DEFINE V == U \ {x}
<1>7. V \subseteq S /\ IsFiniteSet(V)
  BY <1>4, FS_RemoveElement
<1>8. IsFiniteSet(Sum(V))
  <2>1. <<V, U>> \in R
    BY <1>4, <1>6, <1>7 DEF StrictSubsetOrdering
  <2>2. V \notin Bad
    <3> HIDE DEF V, Bad, R
    <3> QED BY <1>3, <2>1
  <2> QED BY <1>7, <2>2 DEF FiniteSubsetsOf
<1>9. Sum(U) = Sum(V) \cup F[x]
  BY <1>6
<1>10. IsFiniteSet(F[x])
  BY <1>4, <1>6
<1> HIDE DEF V, Sum
<1> QED BY <1>4, <1>8, <1>9, <1>10, FS_Union

-----------------------------------------------------------------------------
(* Candidates and fixes.                                                   *)

LEMMA KindFinite == IsFiniteSet(Kind)
<1> DEFINE A == {"missing_meta"} \cup {"thin_content"}
           B == A \cup {"redirect_chain"}
           C == B \cup {"missing_schema"}
           D == C \cup {"missing_title"}
           E == D \cup {"missing_alt_text"}
           G == E \cup {"duplicate_title"}
<1>1. IsFiniteSet(A)
  BY FS_Singleton, FS_AddElement
<1>2. IsFiniteSet(B)
  BY <1>1, FS_AddElement
<1>3. IsFiniteSet(C)
  BY <1>2, FS_AddElement
<1>4. IsFiniteSet(D)
  BY <1>3, FS_AddElement
<1>5. IsFiniteSet(E)
  BY <1>4, FS_AddElement
<1>6. IsFiniteSet(G)
  BY <1>5, FS_AddElement
<1>7. Kind = G
  BY DEF Kind, Flaw
<1> QED BY <1>6, <1>7

(* What a candidate is about.                                              *)
LEMMA RaisedWell ==
  ASSUME NEW pages \in Results \cup {{}}, NEW k \in RaisedBy[pages]
  PROVE  /\ k \in Candidate
         /\ \E p \in pages :
              /\ p \in PageRecord /\ k.url = p.url
              /\ Asks(k) => k.image \in DOMAIN p.images /\
                            p.images[k.image].blank
<1>1. k \in RaisedOn(pages) /\ pages \subseteq PageRecord
  BY ResultsAssumption DEF RaisedBy
<1>2. CASE \E p \in pages : k \in PageIssues(p)
  <2>1. PICK p \in pages : k \in PageIssues(p)
    BY <1>2
  <2>2. PICK kind \in Flaw \cup {"missing_title"} : k = On(p, kind)
    BY <1>1, <2>1 DEF PageIssues, PageRecord
  <2>3. p.url \in Url /\ p \in PageRecord
    BY <1>1 DEF PageRecord
  <2> QED
    BY <2>2, <2>3 DEF On, Candidate, Kind, Asks, Flaw
<1>3. CASE \E p \in pages : k \in AltIssues(p)
  <2>1. PICK p \in pages : k \in AltIssues(p)
    BY <1>3
  <2>2. PICK i \in DOMAIN p.images :
          /\ p.images[i].blank
          /\ k = [kind |-> "missing_alt_text", url |-> p.url, image |-> i]
    BY <2>1 DEF AltIssues
  <2>3. p.url \in Url /\ p \in PageRecord /\ DOMAIN p.images \subseteq Nat
    BY <1>1 DEF PageRecord
  <2> QED
    BY <2>2, <2>3 DEF Candidate, Kind, Asks
<1>4. CASE \E p \in pages : k = On(p, "duplicate_title")
  <2>1. PICK p \in pages : k = On(p, "duplicate_title")
    BY <1>4
  <2>2. p.url \in Url /\ p \in PageRecord
    BY <1>1 DEF PageRecord
  <2> QED
    BY <2>1, <2>2 DEF On, Candidate, Kind, Asks
<1> DEFINE Of(p) == PageIssues(p) \cup AltIssues(p)
           all == UNION {Of(p) : p \in pages}
           same == {On(p, "duplicate_title") :
                      p \in {q \in pages : SharesTitle(q, pages)}}
<1>5. k \in all \/ k \in same
  BY <1>1 DEF RaisedOn
<1>6. k \in all => \E p \in pages : k \in PageIssues(p) \/ k \in AltIssues(p)
  OBVIOUS
<1>7. k \in same => \E p \in pages : k = On(p, "duplicate_title")
  OBVIOUS
<1> QED
  BY <1>2, <1>3, <1>4, <1>5, <1>6, <1>7

LEMMA RaisedFinite ==
  ASSUME NEW pages \in Results \cup {{}} PROVE IsFiniteSet(RaisedBy[pages])
<1>1. IsFiniteSet(pages) /\ pages \subseteq PageRecord
  BY ResultsAssumption, FS_EmptySet
<1> DEFINE Of(p) == PageIssues(p) \cup AltIssues(p)
           F == [p \in pages |-> Of(p)]
           twice == {q \in pages : SharesTitle(q, pages)}
           G == [p \in pages |-> On(p, "duplicate_title")]
<1>2. ASSUME NEW p \in pages PROVE IsFiniteSet(Of(p))
  <2>1. p.flaws \subseteq Flaw /\ p.images \in Seq(Image)
    BY <1>1 DEF PageRecord
  <2> DEFINE kinds == p.flaws \cup
                (IF p.title = None THEN {"missing_title"} ELSE {})
             H == [kind \in kinds |-> On(p, kind)]
             blank == {j \in DOMAIN p.images : p.images[j].blank}
             I == [i \in blank |->
                     [kind |-> "missing_alt_text", url |-> p.url, image |-> i]]
  <2>2. IsFiniteSet(kinds)
    <3>1. kinds \subseteq Kind
      BY <2>1 DEF Kind
    <3> QED BY <3>1, KindFinite, FS_Subset
  <2>3. IsFiniteSet(PageIssues(p))
    <3>1. PageIssues(p) = {H[kind] : kind \in kinds}
      BY DEF PageIssues
    <3> HIDE DEF H, kinds
    <3> QED BY <2>2, <3>1, FiniteImage
  <2>4. IsFiniteSet(blank)
    <3>1. IsFiniteSet(1 .. Len(p.images))
      BY <2>1, FS_Interval
    <3>2. blank \in SUBSET (1 .. Len(p.images))
      BY <2>1
    <3> QED BY <3>1, <3>2, FS_Subset
  <2>5. IsFiniteSet(AltIssues(p))
    <3>1. AltIssues(p) = {I[i] : i \in blank}
      BY DEF AltIssues
    <3> HIDE DEF I, blank
    <3> QED BY <2>4, <3>1, FiniteImage
  <2> QED BY <2>3, <2>5, FS_Union
<1>3. IsFiniteSet(UNION {F[p] : p \in pages})
  <2>1. \A p \in pages : IsFiniteSet(F[p])
    BY <1>2
  <2> HIDE DEF F
  <2> QED BY <1>1, <2>1, FiniteUnion
<1>4. IsFiniteSet({G[p] : p \in twice})
  <2>1. IsFiniteSet(twice)
    BY <1>1, FS_Subset
  <2> HIDE DEF G, twice
  <2> QED BY <2>1, FiniteImage
<1> DEFINE all == UNION {F[p] : p \in pages}
           same == {G[p] : p \in twice}
<1>5. RaisedBy[pages] = all \cup same
  <2>1. all = UNION {Of(p) : p \in pages}
    <3>1. \A p \in pages : F[p] = Of(p)
      OBVIOUS
    <3> HIDE DEF F, Of
    <3> QED BY <3>1
  <2>2. same = {On(p, "duplicate_title") : p \in twice}
    OBVIOUS
  <2>3. RaisedBy[pages] = RaisedOn(pages)
    BY DEF RaisedBy
  <2> HIDE DEF all, same
  <2> QED BY <2>1, <2>2, <2>3 DEF RaisedOn
<1>6. IsFiniteSet(all) /\ IsFiniteSet(same)
  BY <1>3, <1>4
<1> HIDE DEF all, same
<1> QED BY <1>5, <1>6, FS_Union

LEMMA ImageTyped ==
  ASSUME NEW p \in PageRecord, NEW i \in DOMAIN p.images
  PROVE  /\ i \in Nat /\ p.images[i].file \in File
         /\ p.images[i].media \in Media \cup {None}
<1>1. p.images \in Seq(Image)
  BY DEF PageRecord
<1>2. i \in Nat /\ p.images[i] \in Image
  BY <1>1
<1> QED
  BY <1>2 DEF Image

(* _resolve_image finds an image, and under NamesApart the one asked for.  *)
LEMMA ResolvedImage ==
  ASSUME NEW p \in PageRecord, NEW i \in DOMAIN p.images
  PROVE  ResolveImage(p, i) \in DOMAIN p.images
<1> DEFINE byMedia == {j \in DOMAIN p.images :
                /\ p.images[i].media # None /\ p.images[j].media # None
                /\ <<p.images[j].media, p.images[i].media>> \in Prefixed}
           byFile == {j \in DOMAIN p.images :
                <<p.images[j].file, p.images[i].file>> \in Inside}
<1>1. /\ DOMAIN p.images \subseteq Nat
      /\ p.images[i].file \in File
  BY ImageTyped
<1>2. i \in byFile
  BY <1>1, NamesAssumption
<1>3. ResolveImage(p, i) = First(IF byMedia # {} THEN byMedia ELSE byFile)
  BY DEF ResolveImage
<1>4. byMedia \subseteq DOMAIN p.images /\ byFile \subseteq DOMAIN p.images
  OBVIOUS
<1> HIDE DEF byMedia, byFile
<1> QED
  BY <1>1, <1>2, <1>3, <1>4, FirstIsLeast

LEMMA ResolvedRight ==
  ASSUME NamesApart, NEW pages \in Results, NEW p \in pages,
         NEW i \in DOMAIN p.images
  PROVE  ResolveImage(p, i) = i
<1> DEFINE byMedia == {j \in DOMAIN p.images :
                /\ p.images[i].media # None /\ p.images[j].media # None
                /\ <<p.images[j].media, p.images[i].media>> \in Prefixed}
           byFile == {j \in DOMAIN p.images :
                <<p.images[j].file, p.images[i].file>> \in Inside}
<1>1. p \in PageRecord
  BY ResultsAssumption
<1>2. \A j \in DOMAIN p.images : /\ p.images[j].file \in File
                                 /\ p.images[j].media \in Media \cup {None}
  BY <1>1, ImageTyped
<1>3. \A j \in DOMAIN p.images :
        \/ p.images[i].file = p.images[j].file
        \/ /\ p.images[i].media # None
           /\ p.images[i].media = p.images[j].media
        => i = j
  BY DEF NamesApart
<1>4. byMedia = {} \/ byMedia = {i}
  <2>1. \A j \in byMedia : p.images[j].media = p.images[i].media
    BY <1>2 DEF NamesApart
  <2> QED
    BY <1>3, <2>1
<1>5. byFile = {i}
  <2>1. \A j \in byFile : p.images[j].file = p.images[i].file
    BY <1>2 DEF NamesApart
  <2>2. i \in byFile
    BY <1>2, NamesAssumption
  <2> QED
    BY <1>3, <2>1, <2>2
<1>6. First({i}) = i
  BY DEF First
<1>7. ResolveImage(p, i) = First(IF byMedia # {} THEN byMedia ELSE byFile)
  BY DEF ResolveImage
<1> HIDE DEF byMedia, byFile
<1> QED
  BY <1>4, <1>5, <1>6, <1>7

(* A page is found by its URL.                                             *)
LEMMA PageFound ==
  ASSUME NEW c, result[c] \in Results \cup {{}}, NEW p \in result[c]
  PROVE  PageOf(c, p.url) = p
<1>1. \A q \in result[c] : q.url = p.url <=> q = p
  BY ResultsAssumption
<1> QED
  BY <1>1 DEF PageOf

(* The fixes a request makes.                                              *)
LEMMA FixesMade ==
  ASSUME TypeOK, NEW c \in Crawl, NEW answers, NEW f \in FixesOf(c, answers)
  PROVE  /\ f \in FixRow /\ f.by = c /\ f.about \in Raised(c)
         /\ f.is.auto <=> f.is.target # None
         /\ NamesApart /\ f.is.auto => RightImage(f)
<1>0. PICK k \in Raised(c) : \E answer :
        f = [by |-> c, about |-> k, is |-> FixFor(PageOf(c, k.url), k, answer)]
  BY DEF FixesOf
<1>1. PICK answer :
        f = [by |-> c, about |-> k, is |-> FixFor(PageOf(c, k.url), k, answer)]
  BY <1>0
<1>2. result[c] \in Results \cup {{}}
  BY DEF TypeOK
<1>3. k \in Candidate
  BY <1>2, RaisedWell DEF Raised
<1>4. PICK p \in result[c] :
        /\ p \in PageRecord /\ k.url = p.url
        /\ Asks(k) => k.image \in DOMAIN p.images /\ p.images[k.image].blank
  BY <1>2, RaisedWell DEF Raised
<1>5. PageOf(c, k.url) = p
  BY <1>2, <1>4, PageFound
<1> DEFINE writes == Asks(k) /\ answer # "error" /\ Target(p, k) # None
<1>6. /\ f.by = c /\ f.about = k
      /\ f.is = [target |-> IF writes THEN Target(p, k) ELSE None,
                 auto |-> writes]
      /\ f = [by |-> c, about |-> k, is |-> f.is]
  BY <1>1, <1>5 DEF FixFor
<1>7. /\ f.is.target = (IF writes THEN Target(p, k) ELSE None)
      /\ f.is.auto = writes
  <2> HIDE DEF writes
  <2> QED
    BY <1>6
<1>8. Asks(k) => Target(p, k) \in Media \cup {None}
  BY <1>4, ResolvedImage, ImageTyped DEF Target
<1>9. f.is \in [target : Media \cup {None}, auto : BOOLEAN]
  <2>1. writes \in BOOLEAN
    OBVIOUS
  <2>2. (IF writes THEN Target(p, k) ELSE None) \in Media \cup {None}
    BY <1>8
  <2> HIDE DEF writes
  <2> QED
    BY <1>6, <2>1, <2>2
<1>10. f \in FixRow
  BY <1>1, <1>3, <1>6, <1>9 DEF FixRow
<1>11. f.is.auto <=> f.is.target # None
  BY <1>7
<1>12. ASSUME NamesApart, f.is.auto PROVE RightImage(f)
  <2>1. Asks(k) /\ f.is.target = Target(p, k)
    BY <1>12, <1>7
  <2>2. ResolveImage(p, k.image) = k.image
    BY <1>2, <1>4, <1>12, <2>1, ResolvedRight
  <2> QED
    BY <1>4, <1>5, <1>6, <2>1, <2>2 DEF RightImage, Target
<1> QED
  BY <1>6, <1>10, <1>11, <1>12

LEMMA FixesMadeComplete ==
  ASSUME TypeOK, NEW c \in Crawl, NEW answers
  PROVE  /\ IsFiniteSet(FixesOf(c, answers))
         /\ NamesApart => {f.about : f \in FixesOf(c, answers)} = Raised(c)
<1> DEFINE answer(k) == IF Asks(k) THEN answers[k] ELSE "error"
           kept == {k \in Raised(c) :
                      ~ Skipped(PageOf(c, k.url), k, answer(k))}
           F == [k \in kept |->
                   [by |-> c, about |-> k,
                    is |-> FixFor(PageOf(c, k.url), k, answer(k))]]
<1>1. result[c] \in Results \cup {{}}
  BY DEF TypeOK
<1>2. FixesOf(c, answers) = {F[k] : k \in kept}
  BY DEF FixesOf
<1>3. IsFiniteSet(kept)
  <2>1. IsFiniteSet(Raised(c))
    BY <1>1, RaisedFinite DEF Raised
  <2> QED
    BY <2>1, FS_Subset
<1>4. ASSUME NamesApart PROVE kept = Raised(c)
  <2> SUFFICES ASSUME NEW k \in Raised(c)
               PROVE  ~ Skipped(PageOf(c, k.url), k, answer(k))
    OBVIOUS
  <2>1. PICK p \in result[c] :
          /\ p \in PageRecord /\ k.url = p.url
          /\ Asks(k) => k.image \in DOMAIN p.images /\ p.images[k.image].blank
    BY <1>1, RaisedWell DEF Raised
  <2>2. PageOf(c, k.url) = p
    BY <1>1, <2>1, PageFound
  <2>3. Asks(k) => ResolveImage(p, k.image) = k.image
    BY <1>1, <1>4, <2>1, ResolvedRight
  <2> QED
    BY <2>1, <2>2, <2>3 DEF Skipped
<1>5. {f.about : f \in {F[k] : k \in kept}} = kept
  <2>1. \A k \in kept : F[k].about = k
    OBVIOUS
  <2> HIDE DEF F, kept
  <2> QED
    BY <2>1
<1> HIDE DEF F, kept
<1> QED
  BY <1>2, <1>3, <1>4, <1>5, FiniteImage

-----------------------------------------------------------------------------
(* The steps.  What was crawled stays what it was.                         *)
LEMMA SameResult ==
  ASSUME NEW d, result'[d] = result[d]
  PROVE  /\ Raised(d)' = Raised(d) /\ UrlsOf(d)' = UrlsOf(d)
         /\ \A u : PageOf(d, u)' = PageOf(d, u)
         /\ \A S : Summary(d, S)' = Summary(d, S)
<1>1. Raised(d)' = Raised(d) /\ UrlsOf(d)' = UrlsOf(d)
  BY DEF Raised, UrlsOf
<1>2. \A u : PageOf(d, u)' = PageOf(d, u)
  BY DEF PageOf
<1>3. \A S : Summary(d, S)' = Summary(d, S)
  BY <1>1 DEF Summary
<1> QED
  BY <1>1, <1>2, <1>3

LEMMA SameFixes ==
  ASSUME FixesStaged, UNCHANGED <<fixes, summary>>,
         \A d \in Crawl : pc[d] = "answered" =>
           pc'[d] = "answered" /\ result'[d] = result[d],
         \A d \in Crawl : pc'[d] = "answered" => pc[d] = "answered",
         \A f \in fixes : f.by \in Crawl
  PROVE  FixesStaged'
<1>1. ASSUME NEW f \in fixes PROVE FixRight(f)'
  <2>1. FixRight(f)
    BY DEF FixesStaged
  <2>2. result'[f.by] = result[f.by] /\ pc'[f.by] = "answered"
    BY <2>1 DEF FixRight
  <2>3. Raised(f.by)' = Raised(f.by) /\
        PageOf(f.by, f.about.url)' = PageOf(f.by, f.about.url)
    BY <2>2, SameResult
  <2> QED
    BY <2>1, <2>2, <2>3 DEF FixRight, RightImage
<1>2. ASSUME NEW d \in Crawl, pc'[d] = "answered" PROVE Counted(d)'
  <2>1. Counted(d) /\ result'[d] = result[d]
    BY <1>2 DEF FixesStaged
  <2>2. FixesBy(d)' = FixesBy(d) /\ summary'[d] = summary[d]
    BY DEF FixesBy
  <2>3. Raised(d)' = Raised(d)
    BY <2>1, SameResult
  <2> QED
    BY <2>1, <2>2, <2>3 DEF Counted, Summary
<1> QED
  BY <1>1, <1>2 DEF FixesStaged

LEMMA CrawledKeeps ==
  ASSUME PInv, NEW c \in Crawl, Crawled(c) PROVE PInv'
<1>1. /\ pc[c] = "idle"
      /\ \/ pc' = [pc EXCEPT ![c] = "rejected"] /\ result' = result
         \/ /\ pc' = [pc EXCEPT ![c] = "upsert"]
            /\ \E pages \in Results : result' = [result EXCEPT ![c] = pages]
      /\ met' = (met \/ \E d \in Crawl : Busy(d))
      /\ UNCHANGED <<seen, rows, linked, issues, fixes, summary, latest>>
  BY DEF Crawled, At, Goto, twin
<1>2. /\ pc'[c] \in {"rejected", "upsert"}
      /\ \A d \in Crawl : d # c => pc'[d] = pc[d] /\ result'[d] = result[d]
      /\ result' \in [Crawl -> Results \cup {{}}]
      /\ pc' \in [Crawl -> {"idle", "rejected", "upsert", "issues", "fixes",
                            "answered", "failed"}]
  BY <1>1 DEF PInv, TypeOK
<1>3. \A u : RowsOf(u)' = RowsOf(u)
  BY <1>1 DEF RowsOf
<1>4. \A d \in Crawl : d # c => Raised(d)' = Raised(d) /\
                                UrlsOf(d)' = UrlsOf(d)
  BY <1>2, SameResult
<1>5. \A d \in Crawl : Selected(d)' = Selected(d)
  BY <1>1 DEF Selected
<1>6. Selected(c) = {}
  BY <1>1 DEF PInv, Shaped
<1>7. TypeOK'
  <2>1. met' \in BOOLEAN
    BY <1>1
  <2>2. ASSUME NEW d \in Crawl
        PROVE  /\ Selected(d)' \subseteq UrlsOf(d)'
               /\ \A u \in Selected(d)' :
                    /\ seen'[d][u].row \subseteq RowsOf(u)'
                    /\ seen'[d][u].links \subseteq Crawl
    <3>1. CASE d = c
      BY <1>5, <1>6, <3>1
    <3>2. CASE d # c
      BY <1>1, <1>3, <1>4, <1>5, <3>2 DEF PInv, TypeOK
    <3> QED
      BY <3>1, <3>2
  <2> QED
    BY <1>1, <1>2, <2>1, <2>2 DEF PInv, TypeOK
<1>8. Shaped'
  BY <1>1, <1>2, <1>5 DEF PInv, Shaped
<1>9. IssuesStaged'
  <2>1. \A d : IssuesBy(d)' = IssuesBy(d) /\ Abouts(d)' = Abouts(d)
    BY <1>1 DEF IssuesBy, Abouts
  <2>2. IssuesBy(c) = {} /\ Abouts(c) = {}
    BY <1>1 DEF PInv, IssuesStaged, Abouts
  <2>3. ASSUME NEW d \in Crawl
        PROVE  /\ pc'[d] \in {"idle", "rejected", "upsert", "issues"} =>
                    IssuesBy(d)' = {}
               /\ pc'[d] \in {"fixes", "answered"} => Abouts(d)' = Raised(d)'
               /\ Abouts(d)' \in {{}, Raised(d)'}
    <3>1. CASE d = c
      BY <1>2, <2>1, <2>2, <3>1
    <3>2. CASE d # c
      BY <1>2, <1>4, <2>1, <3>2 DEF PInv, IssuesStaged
    <3> QED
      BY <3>1, <3>2
  <2> QED
    BY <1>1, <2>3 DEF PInv, IssuesStaged
<1>10. FixesStaged'
  <2>1. \A f \in fixes : f.by \in Crawl
    BY DEF PInv, TypeOK, FixRow
  <2>2. \A d \in Crawl : /\ pc[d] = "answered" => d # c
                         /\ pc'[d] = "answered" => d # c
    BY <1>1, <1>2
  <2> QED
    BY <1>1, <1>2, <2>1, <2>2, SameFixes DEF PInv
<1>11. PagesStored'
  BY <1>2, <1>3, <1>4 DEF PInv, PagesStored
<1>12. ASSUME ~met' PROVE Undisturbed'
  <2>1. Undisturbed /\ \A d \in Crawl : ~Busy(d)
    BY <1>1, <1>12 DEF PInv
  <2>2. \A d \in Crawl : d # c => ~Busy(d)'
    BY <1>2, <2>1 DEF Busy
  <2>3. \A d \in Crawl : At(d, "upsert")' => d = c
    BY <1>2, <2>1 DEF Busy, At
  <2>4. \A u \in Url : Mirrored(u)'
    BY <1>1, <1>3, <2>1 DEF Undisturbed, Mirrored
  <2> QED
    BY <1>5, <1>6, <2>2, <2>3, <2>4 DEF Undisturbed
<1> QED
  BY <1>7, <1>8, <1>9, <1>10, <1>11, <1>12 DEF PInv

LEMMA SelectKeeps ==
  ASSUME PInv, NEW c \in Crawl, SelectPage(c) PROVE PInv'
<1>1. PICK u \in UrlsOf(c) \ Selected(c) :
        \/ pc' = [pc EXCEPT ![c] = "failed"] /\ seen' = seen
        \/ /\ seen' = [seen EXCEPT ![c] =
                [v \in Selected(c) \cup {u} |->
                   IF v = u THEN [row |-> RowsOf(u), links |-> LinksOf(u)]
                   ELSE seen[c][v]]]
           /\ pc' = pc
  BY DEF SelectPage, Goto, LinksOf
<1>2. /\ pc[c] = "upsert"
      /\ UNCHANGED <<result, rows, linked, issues, fixes, summary, met, latest>>
  BY DEF SelectPage, At, twin, aux
<1>3. /\ \A d \in Crawl : pc'[d] # pc[d] => d = c /\ pc'[d] = "failed"
      /\ pc' \in [Crawl -> {"idle", "rejected", "upsert", "issues", "fixes",
                            "answered", "failed"}]
      /\ \A d \in Crawl : d # c => seen'[d] = seen[d]
      /\ seen' = [d \in Crawl |-> seen'[d]]
  BY <1>1, <1>2 DEF PInv, TypeOK, Shaped
<1>4. \/ seen'[c] = seen[c]
      \/ seen'[c] = [v \in Selected(c) \cup {u} |->
                       IF v = u THEN [row |-> RowsOf(u), links |-> LinksOf(u)]
                       ELSE seen[c][v]]
  BY <1>1, <1>2 DEF PInv, Shaped
<1>5. /\ \A v : RowsOf(v)' = RowsOf(v)
      /\ \A v : LinksOf(v)' = LinksOf(v)
      /\ \A d : UrlsOf(d)' = UrlsOf(d) /\ Raised(d)' = Raised(d)
      /\ \A d : IssuesBy(d)' = IssuesBy(d) /\ Abouts(d)' = Abouts(d)
  BY <1>2 DEF RowsOf, LinksOf, UrlsOf, Raised, IssuesBy, Abouts
<1>6. TypeOK'
  <2>1. LinksOf(u) \subseteq Crawl
    BY DEF LinksOf, RowsOf, PInv, TypeOK
  <2>2. ASSUME NEW d \in Crawl
        PROVE  /\ Selected(d)' \subseteq UrlsOf(d)
               /\ \A v \in Selected(d)' : /\ seen'[d][v].row \subseteq RowsOf(v)
                                          /\ seen'[d][v].links \subseteq Crawl
    <3>1. CASE seen'[d] = seen[d]
      BY <3>1 DEF PInv, TypeOK, Selected
    <3>2. CASE d = c /\ seen'[c] # seen[c]
      <4>1. Selected(d)' = Selected(c) \cup {u}
        BY <1>4, <3>2 DEF Selected
      <4> QED
        BY <1>4, <2>1, <3>2, <4>1 DEF PInv, TypeOK
    <3> QED
      BY <1>3, <3>1, <3>2
  <2> QED
    BY <1>2, <1>3, <1>5, <2>2 DEF PInv, TypeOK
<1>7. Shaped'
  <2>1. \A d \in Crawl : pc'[d] = "idle" => Selected(d)' = {}
    BY <1>2, <1>3 DEF PInv, Shaped, Selected
  <2> QED
    BY <1>2, <1>3, <2>1 DEF PInv, Shaped
<1>8. IssuesStaged'
  BY <1>2, <1>3, <1>5 DEF PInv, IssuesStaged
<1>9. FixesStaged'
  <2>1. \A f \in fixes : f.by \in Crawl
    BY DEF PInv, TypeOK, FixRow
  <2> QED
    BY <1>2, <1>3, <2>1, SameFixes DEF PInv
<1>10. PagesStored'
  BY <1>3, <1>5 DEF PInv, PagesStored
<1>11. ASSUME ~met' PROVE Undisturbed'
  <2>1. Undisturbed
    BY <1>2, <1>11 DEF PInv
  <2>2. \A d, e \in Crawl : Busy(d)' /\ Busy(e)' => d = e
    BY <1>3, <2>1 DEF Busy, Undisturbed
  <2>3. \A v \in Url : Mirrored(v)'
    BY <1>2, <1>5, <2>1 DEF Undisturbed, Mirrored
  <2>4. ASSUME NEW d \in Crawl, At(d, "upsert")', NEW v \in Selected(d)'
        PROVE  seen'[d][v].row = RowsOf(v) /\ seen'[d][v].links = LinksOf(v)
    <3>1. At(d, "upsert")
      BY <1>3, <2>4 DEF At
    <3>2. CASE seen'[d] = seen[d]
      BY <2>1, <2>4, <3>1, <3>2 DEF Undisturbed, Selected
    <3>3. CASE d = c /\ seen'[c] # seen[c]
      <4>1. Selected(d)' = Selected(c) \cup {u}
        BY <1>4, <3>3 DEF Selected
      <4> QED
        BY <1>4, <2>1, <2>4, <3>1, <3>3, <4>1 DEF Undisturbed
    <3> QED
      BY <1>3, <3>2, <3>3
  <2> QED
    BY <1>5, <2>2, <2>3, <2>4 DEF Undisturbed
<1> QED
  BY <1>6, <1>7, <1>8, <1>9, <1>10, <1>11 DEF PInv

LEMMA FailKeeps ==
  ASSUME PInv, NEW c \in Crawl, Fail(c) PROVE PInv'
<1>1. /\ Busy(c) /\ pc' = [pc EXCEPT ![c] = "failed"]
      /\ UNCHANGED <<result, seen, rows, linked, issues, fixes, summary, met,
                     latest>>
  BY DEF Fail, Goto, twin, aux
<1>2. /\ \A d \in Crawl : pc'[d] # pc[d] => d = c /\ pc'[d] = "failed"
      /\ pc' \in [Crawl -> {"idle", "rejected", "upsert", "issues", "fixes",
                            "answered", "failed"}]
      /\ pc[c] \in {"upsert", "issues", "fixes"}
  BY <1>1 DEF PInv, TypeOK, Busy
<1>3. /\ \A v : RowsOf(v)' = RowsOf(v)
      /\ \A v : LinksOf(v)' = LinksOf(v)
      /\ \A d : UrlsOf(d)' = UrlsOf(d) /\ Raised(d)' = Raised(d)
      /\ \A d : IssuesBy(d)' = IssuesBy(d) /\ Abouts(d)' = Abouts(d)
      /\ \A d : Selected(d)' = Selected(d)
  BY <1>1 DEF RowsOf, LinksOf, UrlsOf, Raised, IssuesBy, Abouts, Selected
<1>4. TypeOK' /\ Shaped'
  BY <1>1, <1>2, <1>3 DEF PInv, TypeOK, Shaped
<1>5. IssuesStaged'
  BY <1>1, <1>2, <1>3 DEF PInv, IssuesStaged
<1>6. FixesStaged'
  <2>1. \A f \in fixes : f.by \in Crawl
    BY DEF PInv, TypeOK, FixRow
  <2> QED
    BY <1>1, <1>2, <2>1, SameFixes DEF PInv
<1>7. PagesStored'
  BY <1>2, <1>3 DEF PInv, PagesStored
<1>8. ASSUME ~met' PROVE Undisturbed'
  <2>1. Undisturbed
    BY <1>1, <1>8 DEF PInv
  <2> QED
    BY <1>1, <1>2, <1>3, <2>1 DEF Undisturbed, Busy, Mirrored, At
<1> QED
  BY <1>4, <1>5, <1>6, <1>7, <1>8 DEF PInv

LEMMA IgnoreKeeps ==
  ASSUME PInv, NEW i \in issues, Ignore(i) PROVE PInv'
<1> DEFINE new == [i EXCEPT !.ignored = TRUE]
<1>1. /\ issues' = (issues \ {i}) \cup {new}
      /\ UNCHANGED <<pc, result, seen, rows, linked, fixes, summary, met,
                     latest>>
  BY DEF Ignore, aux
<1>2. i \in Issue
  BY DEF PInv, TypeOK
<1>3. new \in Issue /\ new.by = i.by /\ new.about = i.about /\ new.page = i.page
  BY <1>2 DEF Issue
<1> HIDE DEF new
<1>4. /\ \A v : RowsOf(v)' = RowsOf(v)
      /\ \A v : LinksOf(v)' = LinksOf(v)
      /\ \A d : UrlsOf(d)' = UrlsOf(d) /\ Raised(d)' = Raised(d)
      /\ \A d : Selected(d)' = Selected(d)
  BY <1>1 DEF RowsOf, LinksOf, UrlsOf, Raised, Selected
<1>5. \A d : /\ Abouts(d)' = Abouts(d)
             /\ IssuesBy(d) = {} => IssuesBy(d)' = {}
  <2> SUFFICES ASSUME NEW d
               PROVE  /\ Abouts(d)' = Abouts(d)
                      /\ IssuesBy(d) = {} => IssuesBy(d)' = {}
    OBVIOUS
  <2>1. \A j \in issues : j.by = d => j.about \in Abouts(d)'
    BY <1>1, <1>3 DEF Abouts, IssuesBy
  <2>2. \A j \in issues' : j.by = d =>
          j.about \in Abouts(d) /\ IssuesBy(d) # {}
    BY <1>1, <1>3 DEF Abouts, IssuesBy
  <2> QED
    BY <2>1, <2>2 DEF Abouts, IssuesBy
<1>6. TypeOK' /\ Shaped'
  BY <1>1, <1>3, <1>4 DEF PInv, TypeOK, Shaped
<1>7. IssuesStaged'
  <2>1. \A j \in issues' : j.page \in rows /\ j.page[1] = j.about.url
    BY <1>1, <1>3 DEF PInv, IssuesStaged
  <2>2. \A j, k \in issues' : j.by = k.by /\ j.about = k.about => j = k
    BY <1>1, <1>3 DEF PInv, IssuesStaged
  <2> QED
    BY <1>1, <1>4, <1>5, <2>1, <2>2 DEF PInv, IssuesStaged
<1>8. FixesStaged'
  <2>1. \A f \in fixes : f.by \in Crawl
    BY DEF PInv, TypeOK, FixRow
  <2> QED
    BY <1>1, <2>1, SameFixes DEF PInv
<1>9. PagesStored'
  BY <1>1, <1>4 DEF PInv, PagesStored
<1>10. ASSUME ~met' PROVE Undisturbed'
  <2>1. Undisturbed
    BY <1>1, <1>10 DEF PInv
  <2> QED
    BY <1>1, <1>4, <2>1 DEF Undisturbed, Busy, Mirrored, At
<1> QED
  BY <1>6, <1>7, <1>8, <1>9, <1>10 DEF PInv

(* The row a commit writes is of its URL, and the selected one if there is *)
(* any.                                                                    *)
LEMMA RowForUrl ==
  ASSUME PInv, NEW c \in Crawl, NEW u \in UrlsOf(c), Selected(c) = UrlsOf(c)
  PROVE  /\ u \in Url
         /\ RowFor(c, u) \in Row /\ RowFor(c, u)[1] = u
         /\ seen[c][u].row = {} => RowFor(c, u) = <<u, c>>
         /\ seen[c][u].row # {} => RowFor(c, u) \in seen[c][u].row
<1>1. u \in Url
  <2>1. result[c] \subseteq PageRecord
    BY ResultsAssumption DEF PInv, TypeOK
  <2> QED
    BY <2>1 DEF UrlsOf, PageRecord
<1>2. seen[c][u].row \subseteq RowsOf(u) /\ rows \subseteq Row
  BY DEF PInv, TypeOK
<1>3. CASE seen[c][u].row = {}
  BY <1>1, <1>3 DEF RowFor, Row
<1>4. CASE seen[c][u].row # {}
  <2>1. RowFor(c, u) \in seen[c][u].row
    BY <1>4 DEF RowFor
  <2> QED
    BY <1>1, <1>2, <1>4, <2>1 DEF RowsOf
<1> QED
  BY <1>3, <1>4

LEMMA CommitKeeps ==
  ASSUME PInv, NEW c \in Crawl, CommitPages(c) PROVE PInv'
<1> DEFINE written == {RowFor(c, u) : u \in UrlsOf(c)}
<1>1. /\ pc[c] = "upsert" /\ Selected(c) = UrlsOf(c)
      /\ rows' = rows \cup written
      /\ linked' = [r \in Row |->
           IF r \in written THEN LinksReplaced(c, r) ELSE linked[r]]
      /\ latest' = [u \in Url |-> IF u \in UrlsOf(c) THEN c ELSE latest[u]]
      /\ pc' = [pc EXCEPT ![c] = "issues"]
      /\ UNCHANGED <<result, seen, issues, fixes, summary, met>>
  BY DEF CommitPages, At, Goto
<1>2. /\ \A d \in Crawl : d # c => pc'[d] = pc[d]
      /\ pc'[c] = "issues"
      /\ pc' \in [Crawl -> {"idle", "rejected", "upsert", "issues", "fixes",
                            "answered", "failed"}]
  BY <1>1 DEF PInv, TypeOK
<1>3. /\ \A d : UrlsOf(d)' = UrlsOf(d) /\ Raised(d)' = Raised(d)
      /\ \A d : IssuesBy(d)' = IssuesBy(d) /\ Abouts(d)' = Abouts(d)
      /\ \A d : Selected(d)' = Selected(d)
  BY <1>1 DEF UrlsOf, Raised, IssuesBy, Abouts, Selected
<1>4. \A u \in UrlsOf(c) :
        /\ u \in Url
        /\ RowFor(c, u) \in Row /\ RowFor(c, u)[1] = u
        /\ seen[c][u].row = {} => RowFor(c, u) = <<u, c>>
        /\ seen[c][u].row # {} => RowFor(c, u) \in seen[c][u].row
  BY <1>1, RowForUrl
<1>5. /\ written \subseteq Row
      /\ \A u \in UrlsOf(c) : {r \in written : r[1] = u} = {RowFor(c, u)}
      /\ \A u : u \notin UrlsOf(c) => {r \in written : r[1] = u} = {}
  BY <1>4
<1>6. \A u : RowsOf(u)' = RowsOf(u) \cup {r \in written : r[1] = u}
  BY <1>1 DEF RowsOf
<1>7. \A r \in Row : /\ r \in written => linked'[r] = LinksReplaced(c, r)
                     /\ r \notin written => linked'[r] = linked[r]
  BY <1>1
<1> HIDE DEF written
<1>8. TypeOK'
  <2>1. rows' \subseteq Row
    BY <1>1, <1>5 DEF PInv, TypeOK
  <2>2. \A r \in Row : LinksReplaced(c, r) \subseteq Crawl
    BY DEF LinksReplaced, PInv, TypeOK
  <2>3. linked' \in [Row -> SUBSET Crawl]
    BY <1>1, <2>2 DEF PInv, TypeOK
  <2>4. latest' \in [Url -> Crawl \cup {None}]
    BY <1>1 DEF PInv, TypeOK
  <2> QED
    BY <1>1, <1>2, <1>3, <1>6, <2>1, <2>3, <2>4 DEF PInv, TypeOK
<1>9. Shaped'
  BY <1>1, <1>2, <1>3, <1>7 DEF PInv, Shaped
<1>10. IssuesStaged'
  BY <1>1, <1>2, <1>3 DEF PInv, IssuesStaged
<1>11. FixesStaged'
  <2>1. \A f \in fixes : f.by \in Crawl
    BY DEF PInv, TypeOK, FixRow
  <2> QED
    BY <1>1, <1>2, <2>1, SameFixes DEF PInv
<1>12. PagesStored'
  <2>1. \A u \in UrlsOf(c) : RowsOf(u)' # {}
    BY <1>5, <1>6
  <2> QED
    BY <1>2, <1>3, <1>6, <2>1 DEF PInv, PagesStored
<1>13. ASSUME ~met' PROVE Undisturbed'
  <2>1. Undisturbed
    BY <1>1, <1>13 DEF PInv
  <2>2. \A d, e \in Crawl : Busy(d)' /\ Busy(e)' => d = e
    BY <1>1, <1>2, <2>1 DEF Busy, Undisturbed
  <2>3. \A d \in Crawl : ~At(d, "upsert")'
    BY <1>1, <1>2, <2>1 DEF Busy, Undisturbed, At
  <2>4. ASSUME NEW u \in Url PROVE Mirrored(u)'
    <3>1. Mirrored(u)
      BY <2>1 DEF Undisturbed
    <3>2. CASE u \notin UrlsOf(c)
      <4>1. RowsOf(u)' = RowsOf(u) /\ latest'[u] = latest[u]
        BY <1>1, <1>5, <1>6, <3>2
      <4>2. \A r \in RowsOf(u) : linked'[r] = linked[r] /\ r \in rows'
        BY <1>1, <1>5, <1>7, <3>2 DEF RowsOf, PInv, TypeOK
      <4> QED
        BY <3>1, <4>1, <4>2 DEF Mirrored
    <3>3. CASE u \in UrlsOf(c)
      <4> DEFINE w == RowFor(c, u)
      <4>1. /\ RowsOf(u)' = RowsOf(u) \cup {w} /\ w \in written /\ w \in Row
            /\ latest'[u] = c /\ w[1] = u
        BY <1>1, <1>4, <1>5, <1>6, <3>3
      <4>2. seen[c][u].row = RowsOf(u) /\ seen[c][u].links = LinksOf(u)
        BY <1>1, <2>1, <3>3 DEF Undisturbed, At
      <4>3. linked'[w] = (linked[w] \ LinksOf(u)) \cup {c}
        BY <1>7, <4>1, <4>2 DEF LinksReplaced
      <4>4. CASE RowsOf(u) = {}
        <5>1. linked[w] = {}
          <6>1. w \notin rows
            BY <4>1, <4>4 DEF RowsOf
          <6> QED
            BY <4>1, <6>1 DEF PInv, Shaped
        <5> QED
          BY <1>1, <4>1, <4>3, <4>4, <5>1, NoneAssumption DEF Mirrored
      <4>5. CASE RowsOf(u) # {}
        <5>1. PICK r : RowsOf(u) = {r}
          BY <3>1, <4>5 DEF Mirrored
        <5>2. w = r
          BY <1>4, <3>3, <4>2, <5>1
        <5>3. LinksOf(u) = linked[r]
          BY <5>1 DEF LinksOf
        <5> HIDE DEF w
        <5>4. RowsOf(u)' = {w} /\ linked'[w] = {c} /\ w \in rows'
          BY <1>1, <4>1, <4>3, <5>1, <5>2, <5>3
        <5> QED
          BY <4>1, <5>4, NoneAssumption DEF Mirrored
      <4> QED
        BY <4>4, <4>5
    <3> QED
      BY <3>2, <3>3
  <2> QED
    BY <2>2, <2>3, <2>4 DEF Undisturbed
<1> QED
  BY <1>8, <1>9, <1>10, <1>11, <1>12, <1>13 DEF PInv

LEMMA PersistIssuesKeeps ==
  ASSUME PInv, NEW c \in Crawl, PersistIssues(c) PROVE PInv'
<1> DEFINE G == [k \in Stored(c) |-> IssueOf(c, k)]
           new == {G[k] : k \in Stored(c)}
<1>1. /\ pc[c] = "issues" /\ issues' = issues \cup new
      /\ pc' = [pc EXCEPT ![c] =
           IF Stored(c) = Raised(c) THEN "fixes" ELSE "failed"]
      /\ UNCHANGED <<result, seen, rows, linked, fixes, summary, met, latest>>
  BY DEF PersistIssues, At, Goto, aux
<1>2. /\ \A d \in Crawl : d # c => pc'[d] = pc[d]
      /\ pc'[c] = IF Stored(c) = Raised(c) THEN "fixes" ELSE "failed"
      /\ pc' \in [Crawl -> {"idle", "rejected", "upsert", "issues", "fixes",
                            "answered", "failed"}]
  BY <1>1 DEF PInv, TypeOK
<1>3. /\ \A v : RowsOf(v)' = RowsOf(v)
      /\ \A v : LinksOf(v)' = LinksOf(v)
      /\ \A d : UrlsOf(d)' = UrlsOf(d) /\ Raised(d)' = Raised(d)
      /\ \A d : Selected(d)' = Selected(d)
  BY <1>1 DEF RowsOf, LinksOf, UrlsOf, Raised, Selected
<1>4. Stored(c) \in {{}, Raised(c)}
  BY DEF Stored
<1>5. ASSUME NEW k \in Stored(c)
      PROVE  /\ G[k] \in Issue /\ G[k].by = c /\ G[k].about = k
             /\ G[k].page \in rows /\ G[k].page[1] = k.url
  <2>1. k \in Raised(c) /\ Cardinality(RowsOf(k.url)) = 1
    BY <1>5 DEF Stored
  <2>2. k \in Candidate
    <3>1. result[c] \in Results \cup {{}}
      BY DEF PInv, TypeOK
    <3> QED
      BY <2>1, <3>1, RaisedWell DEF Raised
  <2>3. RowsOf(k.url) # {}
    BY <2>1, FS_EmptySet
  <2> DEFINE page == CHOOSE r \in RowsOf(k.url) : TRUE
  <2>4. page \in RowsOf(k.url)
    BY <2>3
  <2>5. page \in rows /\ page \in Row /\ page[1] = k.url
    BY <2>4 DEF RowsOf, PInv, TypeOK
  <2>6. G[k] = [by |-> c, about |-> k, page |-> page, ignored |-> FALSE]
    BY DEF IssueOf
  <2> HIDE DEF G, page
  <2> QED
    BY <2>2, <2>5, <2>6 DEF Issue
<1> HIDE DEF G
<1>6. IssuesBy(c) = {}
  BY <1>1 DEF PInv, IssuesStaged
<1>7. IssuesBy(c)' = new /\ Abouts(c)' = Stored(c)
  <2>1. IssuesBy(c)' = new
    BY <1>1, <1>5, <1>6 DEF IssuesBy
  <2> HIDE DEF new
  <2>2. Abouts(c)' = {i.about : i \in new}
    BY <2>1 DEF Abouts
  <2> QED
    BY <1>5, <2>1, <2>2 DEF new
<1>8. \A d : d # c => IssuesBy(d)' = IssuesBy(d) /\ Abouts(d)' = Abouts(d)
  <2>1. \A d : d # c => IssuesBy(d)' = IssuesBy(d)
    BY <1>1, <1>5 DEF IssuesBy
  <2> QED
    BY <2>1 DEF Abouts
<1>9. TypeOK'
  <2>1. issues' \subseteq Issue
    BY <1>1, <1>5 DEF PInv, TypeOK
  <2> QED
    BY <1>1, <1>2, <1>3, <2>1 DEF PInv, TypeOK
<1>10. Shaped'
  BY <1>1, <1>2, <1>3 DEF PInv, Shaped
<1>11. IssuesStaged'
  <2>1. ASSUME NEW i \in issues'
        PROVE  i.page \in rows' /\ i.page[1] = i.about.url
    BY <1>1, <1>5 DEF PInv, IssuesStaged
  <2>2. ASSUME NEW i \in issues', NEW j \in issues',
               i.by = j.by, i.about = j.about
        PROVE  i = j
    <3>1. CASE i.by = c
      <4>1. i \in new /\ j \in new
        BY <1>7, <2>2, <3>1 DEF IssuesBy
      <4> QED
        BY <1>5, <2>2, <4>1
    <3>2. CASE i.by # c
      <4>1. i \in issues /\ j \in issues
        BY <1>1, <1>5, <2>2, <3>2
      <4> QED
        BY <2>2, <4>1 DEF PInv, IssuesStaged
    <3> QED
      BY <3>1, <3>2
  <2>3. ASSUME NEW d \in Crawl
        PROVE  /\ pc'[d] \in {"idle", "rejected", "upsert", "issues"} =>
                    IssuesBy(d)' = {}
               /\ pc'[d] \in {"fixes", "answered"} => Abouts(d)' = Raised(d)'
               /\ Abouts(d)' \in {{}, Raised(d)'}
    <3>1. CASE d = c
      BY <1>2, <1>3, <1>4, <1>7, <3>1
    <3>2. CASE d # c
      BY <1>2, <1>3, <1>8, <3>2 DEF PInv, IssuesStaged
    <3> QED
      BY <3>1, <3>2
  <2> QED
    BY <2>1, <2>2, <2>3 DEF IssuesStaged
<1>12. FixesStaged'
  <2>1. \A f \in fixes : f.by \in Crawl
    BY DEF PInv, TypeOK, FixRow
  <2> QED
    BY <1>1, <1>2, <2>1, SameFixes DEF PInv
<1>13. PagesStored'
  BY <1>1, <1>2, <1>3 DEF PInv, PagesStored
<1>14. ASSUME ~met' PROVE Undisturbed'
  <2>1. Undisturbed
    BY <1>1, <1>14 DEF PInv
  <2>2. \A d \in Crawl : /\ Busy(d)' => Busy(d)
                         /\ At(d, "upsert")' => At(d, "upsert")
    BY <1>1, <1>2 DEF Busy, At
  <2> QED
    BY <1>1, <1>3, <2>1, <2>2 DEF Undisturbed, Mirrored
<1> QED
  BY <1>9, <1>10, <1>11, <1>12, <1>13, <1>14 DEF PInv

LEMMA PersistFixesKeeps ==
  ASSUME PInv, NEW c \in Crawl, PersistFixes(c) PROVE PInv'
<1>1. PICK answers \in AnswersFor(Raised(c)) :
        /\ fixes' = fixes \cup FixesOf(c, answers)
        /\ summary' = [summary EXCEPT ![c] = Summary(c, FixesOf(c, answers))]
  BY DEF PersistFixes
<1> DEFINE made == FixesOf(c, answers)
<1>2. /\ pc[c] = "fixes" /\ pc' = [pc EXCEPT ![c] = "answered"]
      /\ UNCHANGED <<result, seen, rows, linked, issues, met, latest>>
  BY DEF PersistFixes, At, Goto, aux
<1>3. /\ \A d \in Crawl : d # c => pc'[d] = pc[d] /\ summary'[d] = summary[d]
      /\ pc'[c] = "answered" /\ summary'[c] = Summary(c, made)
      /\ pc' \in [Crawl -> {"idle", "rejected", "upsert", "issues", "fixes",
                            "answered", "failed"}]
      /\ summary' = [d \in Crawl |-> summary'[d]]
  BY <1>1, <1>2 DEF PInv, TypeOK, Shaped
<1>4. /\ \A v : RowsOf(v)' = RowsOf(v)
      /\ \A v : LinksOf(v)' = LinksOf(v)
      /\ \A d : UrlsOf(d)' = UrlsOf(d) /\ Raised(d)' = Raised(d)
      /\ \A d : IssuesBy(d)' = IssuesBy(d) /\ Abouts(d)' = Abouts(d)
      /\ \A d : Selected(d)' = Selected(d)
  BY <1>2 DEF RowsOf, LinksOf, UrlsOf, Raised, IssuesBy, Abouts, Selected
<1>5. \A f \in made :
        /\ f \in FixRow /\ f.by = c /\ f.about \in Raised(c)
        /\ f.is.auto <=> f.is.target # None
        /\ NamesApart /\ f.is.auto => RightImage(f)
  BY FixesMade DEF PInv
<1>6. /\ IsFiniteSet(made)
      /\ NamesApart => {f.about : f \in made} = Raised(c)
  BY FixesMadeComplete DEF PInv
<1>7. fixes' = fixes \cup made /\ summary'[c] = Summary(c, made)
  BY <1>1, <1>3
<1> HIDE DEF made
<1>8. FixesBy(c) = {}
  BY <1>2 DEF FixesBy, PInv, FixesStaged, FixRight
<1>9. FixesBy(c)' = made
  BY <1>5, <1>7, <1>8 DEF FixesBy
<1>10. \A d : d # c => FixesBy(d)' = FixesBy(d)
  BY <1>5, <1>7 DEF FixesBy
<1>11. TypeOK'
  <2>1. fixes' \subseteq FixRow
    BY <1>5, <1>7 DEF PInv, TypeOK
  <2>2. \A f \in fixes' : f.is.auto <=> f.is.target # None
    BY <1>5, <1>7 DEF PInv, TypeOK
  <2> QED
    BY <1>2, <1>3, <1>4, <2>1, <2>2 DEF PInv, TypeOK
<1>12. Shaped'
  BY <1>2, <1>3, <1>4 DEF PInv, Shaped
<1>13. IssuesStaged'
  BY <1>2, <1>3, <1>4 DEF PInv, IssuesStaged
<1>14. FixesStaged'
  <2>1. ASSUME NEW f \in fixes' PROVE FixRight(f)'
    <3>1. f.by \in Crawl
      BY <1>5, <1>7 DEF PInv, TypeOK, FixRow
    <3>2. Raised(f.by)' = Raised(f.by) /\
          PageOf(f.by, f.about.url)' = PageOf(f.by, f.about.url)
      BY <1>2, SameResult
    <3>3. RightImage(f)' <=> RightImage(f)
      BY <3>2 DEF RightImage
    <3>4. CASE f \in made
      BY <1>3, <1>5, <3>2, <3>3, <3>4 DEF FixRight
    <3>5. CASE f \in fixes
      <4>1. FixRight(f)
        BY <3>5 DEF PInv, FixesStaged
      <4>2. pc'[f.by] = "answered"
        BY <1>3, <3>1, <4>1 DEF FixRight
      <4> QED
        BY <3>2, <3>3, <4>1, <4>2 DEF FixRight
    <3> QED
      BY <1>7, <3>4, <3>5
  <2>2. ASSUME NEW d \in Crawl, pc'[d] = "answered" PROVE Counted(d)'
    <3>1. /\ Raised(d)' = Raised(d)
          /\ \A S : Summary(d, S)' = Summary(d, S)
      BY <1>2, SameResult
    <3>2. CASE d = c
      <4>1. Summary(d, FixesBy(d))' = Summary(d, made)
        BY <1>9, <3>1, <3>2 DEF Summary
      <4> QED
        BY <1>3, <1>6, <1>9, <3>1, <3>2, <4>1 DEF Counted
    <3>3. CASE d # c
      <4>1. Counted(d)
        BY <1>3, <2>2, <3>3 DEF PInv, FixesStaged
      <4>2. Summary(d, FixesBy(d))' = Summary(d, FixesBy(d))
        BY <1>10, <3>1, <3>3 DEF Summary
      <4> QED
        BY <1>3, <1>10, <3>1, <3>3, <4>1, <4>2 DEF Counted
    <3> QED
      BY <3>2, <3>3
  <2> QED
    BY <2>1, <2>2 DEF FixesStaged
<1>15. PagesStored'
  BY <1>2, <1>3, <1>4 DEF PInv, PagesStored
<1>16. ASSUME ~met' PROVE Undisturbed'
  <2>1. Undisturbed
    BY <1>2, <1>16 DEF PInv
  <2>2. \A d \in Crawl : /\ Busy(d)' => Busy(d)
                         /\ At(d, "upsert")' => At(d, "upsert")
    BY <1>2, <1>3 DEF Busy, At
  <2> QED
    BY <1>2, <1>4, <2>1, <2>2 DEF Undisturbed, Mirrored
<1> QED
  BY <1>11, <1>12, <1>13, <1>14, <1>15, <1>16 DEF PInv

LEMMA InitPInv == Init => PInv
<1> SUFFICES ASSUME Init PROVE PInv
  OBVIOUS
<1>1. /\ \A c \in Crawl : /\ pc[c] = "idle" /\ result[c] = {}
                          /\ seen[c] = <<>>
      /\ rows = {} /\ issues = {} /\ fixes = {} /\ met = FALSE
      /\ \A r \in Row : linked[r] = {}
      /\ \A u \in Url : latest[u] = None
  BY DEF Init
<1>2. \A u : RowsOf(u) = {}
  BY <1>1 DEF RowsOf
<1>3. \A c \in Crawl : Selected(c) = {} /\ IssuesBy(c) = {} /\ Abouts(c) = {}
  BY <1>1 DEF Selected, IssuesBy, Abouts
<1>4. TypeOK
  BY <1>1, <1>3 DEF TypeOK, Init
<1>5. Shaped
  BY <1>1, <1>3 DEF Shaped, Init
<1>6. IssuesStaged
  BY <1>1, <1>3 DEF IssuesStaged
<1>7. FixesStaged /\ PagesStored
  BY <1>1 DEF FixesStaged, PagesStored
<1>8. Undisturbed
  BY <1>1, <1>2, <1>3 DEF Undisturbed, Busy, Mirrored
<1> QED
  BY <1>4, <1>5, <1>6, <1>7, <1>8 DEF PInv

LEMMA Invariance == Spec => []PInv
<1>1. ASSUME PInv, [Next]_vars PROVE PInv'
  <2>1. ASSUME NEW c \in Crawl, Crawled(c) \/ Step(c) \/ Fail(c) PROVE PInv'
    BY <1>1, <2>1, CrawledKeeps, SelectKeeps, CommitKeeps, PersistIssuesKeeps,
       PersistFixesKeeps, FailKeeps DEF Step
  <2>2. CASE UNCHANGED vars
    <3>1. UNCHANGED <<pc, result, seen, rows, linked, issues, fixes, summary,
                      met, latest>>
      BY <2>2 DEF vars, twin, aux
    <3>2. /\ \A v : RowsOf(v)' = RowsOf(v)
          /\ \A v : LinksOf(v)' = LinksOf(v)
          /\ \A d : UrlsOf(d)' = UrlsOf(d) /\ Raised(d)' = Raised(d)
          /\ \A d : IssuesBy(d)' = IssuesBy(d) /\ Abouts(d)' = Abouts(d)
          /\ \A d : Selected(d)' = Selected(d)
      BY <3>1
         DEF RowsOf, LinksOf, UrlsOf, Raised, IssuesBy, Abouts, Selected
    <3>3. TypeOK' /\ Shaped'
      BY <1>1, <3>1, <3>2 DEF PInv, TypeOK, Shaped
    <3>4. IssuesStaged' /\ PagesStored'
      BY <1>1, <3>1, <3>2 DEF PInv, IssuesStaged, PagesStored
    <3>5. FixesStaged'
      <4>1. \A f \in fixes : f.by \in Crawl
        BY <1>1 DEF PInv, TypeOK, FixRow
      <4> QED
        BY <1>1, <3>1, <4>1, SameFixes DEF PInv
    <3>6. ~met' => Undisturbed'
      BY <1>1, <3>1, <3>2 DEF PInv, Undisturbed, Busy, At, Mirrored
    <3> QED
      BY <3>3, <3>4, <3>5, <3>6 DEF PInv
  <2> QED
    BY <1>1, <2>1, <2>2, IgnoreKeeps DEF Next
<1> QED
  BY <1>1, InitPInv, PTL DEF Spec

-----------------------------------------------------------------------------
(* Every issue stands on a row of its page and every fix on an issue, and  *)
(* a crawl's issues are all there or none, whichever of the transactions   *)
(* of run_crawl fails and however many requests run beside it.             *)
THEOREM RowReferences == Spec => []RowsReferToRows
<1>1. PInv => RowsReferToRows
  <2> SUFFICES ASSUME PInv PROVE RowsReferToRows
    OBVIOUS
  <2>1. ASSUME NEW f \in fixes
        PROVE  \E i \in issues : i.by = f.by /\ i.about = f.about
    <3>1. /\ f.by \in Crawl /\ pc[f.by] = "answered"
          /\ f.about \in Raised(f.by)
      BY DEF PInv, TypeOK, FixRow, FixesStaged, FixRight
    <3>2. f.about \in Abouts(f.by)
      BY <3>1 DEF PInv, IssuesStaged
    <3> QED
      BY <3>2 DEF Abouts, IssuesBy
  <2> QED
    BY <2>1 DEF PInv, IssuesStaged, Abouts, RowsReferToRows
<1> QED
  BY <1>1, Invariance, PTL

(* While requests come one at a time, a URL that was ever stored has one   *)
(* row, with the links of the last crawl that committed it: upsert_pages   *)
(* finds the row it selected unchanged when it commits.                    *)
THEOREM TwinIsMirror == Spec => []TwinMirrorsLastCrawl
<1>1. PInv => TwinMirrorsLastCrawl
  BY DEF PInv, Undisturbed, Mirrored, TwinMirrorsLastCrawl
<1> QED
  BY <1>1, Invariance, PTL

(* A fix that may be applied by itself writes to the image whose alt text  *)
(* is missing, on every site whose names do not contain one another        *)
(* (_resolve_image).                                                       *)
THEOREM RightImages == Spec => []FixesTheRightImage
<1>1. PInv => FixesTheRightImage
  BY DEF PInv, FixesStaged, FixRight, RightImage, FixesTheRightImage
<1> QED
  BY <1>1, Invariance, PTL

(* A request that is answered has stored every page and every issue, and   *)
(* what the CrawlSummary says of issues and fixes is what the tables hold, *)
(* whatever the requests beside it did.                                    *)
THEOREM Answers == Spec => []AnsweredIsComplete
<1>1. PInv => AnsweredIsComplete
  <2> SUFFICES ASSUME PInv, NEW c \in Crawl, pc[c] = "answered"
               PROVE
      /\ \A u \in UrlsOf(c) : RowsOf(u) # {}
      /\ NamesApart => {f.about : f \in FixesBy(c)} = Raised(c)
      /\ \A kind \in Kind : summary[c].issues[kind] =
           Cardinality({i \in IssuesBy(c) : i.about.kind = kind})
      /\ summary[c].auto = Cardinality({f \in FixesBy(c) : f.is.auto})
      /\ summary[c].auto + summary[c].report = Cardinality(FixesBy(c))
    BY DEF AnsweredIsComplete, At, FixesBy
  <2>1. Counted(c) /\ Abouts(c) = Raised(c)
    BY DEF PInv, FixesStaged, IssuesStaged
  <2> DEFINE auto == {f \in FixesBy(c) : f.is.auto}
             report == ReportOnly(FixesBy(c))
  <2>2. /\ summary[c].auto = Cardinality(auto)
        /\ summary[c].report = Cardinality(report)
        /\ \A kind \in Kind : summary[c].issues[kind] =
             Cardinality({k \in Raised(c) : k.kind = kind})
    BY <2>1 DEF Counted, Summary
  <2>3. ASSUME NEW kind \in Kind
        PROVE  Cardinality({k \in Raised(c) : k.kind = kind}) =
               Cardinality({i \in IssuesBy(c) : i.about.kind = kind})
    <3> DEFINE S == {i \in IssuesBy(c) : i.about.kind = kind}
               T == {k \in Raised(c) : k.kind = kind}
               g == [k \in T |-> CHOOSE i \in S : i.about = k]
    <3>1. IsFiniteSet(T)
      <4>1. IsFiniteSet(Raised(c))
        BY RaisedFinite DEF Raised, PInv, TypeOK
      <4> QED
        BY <4>1, FS_Subset
    <3>2. g \in Bijection(T, S)
      <4>1. \A i \in S : i.about \in T
        BY <2>1 DEF Abouts
      <4>2. \A k \in T : \E i \in S : i.about = k
        BY <2>1 DEF Abouts
      <4>3. \A i, j \in S : i.about = j.about => i = j
        BY DEF PInv, IssuesStaged, IssuesBy
      <4> HIDE DEF S, T
      <4>4. \A k \in T : g[k] \in S /\ g[k].about = k
        BY <4>2
      <4>5. \A i \in S : g[i.about] = i
        BY <4>1, <4>3, <4>4
      <4>6. g \in [T -> S]
        BY <4>4
      <4> HIDE DEF g
      <4> QED
        BY <4>1, <4>4, <4>5, <4>6
           DEF Bijection, Injection, Surjection, IsInjective
    <3> HIDE DEF S, T, g
    <3>3. ExistsBijection(T, S)
      BY <3>2 DEF ExistsBijection
    <3>5. Cardinality(S) = Cardinality(T)
      BY <3>1, <3>3, FS_Bijection
    <3> QED
      BY <3>5 DEF S, T
  <2>4. Cardinality(auto) + Cardinality(report) = Cardinality(FixesBy(c))
    <3>1. IsFiniteSet(FixesBy(c))
      BY <2>1 DEF Counted
    <3>2. IsFiniteSet(auto) /\ IsFiniteSet(report)
      BY <3>1, FS_Subset DEF ReportOnly
    <3>3. auto \cup report = FixesBy(c) /\ auto \cap report = {}
      BY DEF ReportOnly
    <3> HIDE DEF auto, report
    <3>4. Cardinality(auto) \in Nat /\ Cardinality(report) \in Nat
      BY <3>2, FS_CardinalityType
    <3>5. Cardinality(auto \cup report) =
            Cardinality(auto) + Cardinality(report)
              - Cardinality(auto \cap report)
      BY <3>2, FS_Union
    <3>6. Cardinality(auto \cap report) = 0
      BY <3>3, FS_EmptySet
    <3>7. Cardinality(FixesBy(c)) = Cardinality(auto \cup report)
      BY <3>3
    <3> QED
      BY <3>4, <3>5, <3>6, <3>7
  <2>5. \A u \in UrlsOf(c) : RowsOf(u) # {}
    BY DEF PInv, PagesStored
  <2> HIDE DEF report
  <2> QED
    BY <2>1, <2>2, <2>3, <2>4, <2>5 DEF Counted
<1> QED
  BY <1>1, Invariance, PTL
=============================================================================
