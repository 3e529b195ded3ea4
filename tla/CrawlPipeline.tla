--------------------------- MODULE CrawlPipeline ---------------------------
(***************************************************************************)
(* POST /crawl (run_crawl): crawl, upsert the pages into the digital twin, *)
(* check them, persist the issues, generate a fix for each, persist the    *)
(* fixes.  Every stage that persists is a transaction of its own; requests *)
(* run at the same time, for one tenant.                                   *)
(*                                                                         *)
(* Crawler and Check_Engine are pure for this purpose: a crawl returns one *)
(* of Results, a set of pages with a URL each.  A page row is named by its *)
(* URL and the crawl that inserted it, an issue or a fix by its crawl and  *)
(* the candidate it stands for.                                            *)
(***************************************************************************)
EXTENDS Integers, Sequences, FiniteSets

CONSTANTS
  Crawl, Url, Title, File, Media, None,
  Results,   \* what a crawl can return
  Prefixed,  \* <<m, n>>: the digits of m are a prefix of those of n
  Inside,    \* <<f, g>>: the file name f occurs in g
  Ai,        \* whether an alt-text service is injected
  MaxIgnored, \* bound: issues marked ignored
  Faults     \* "database": a transaction may fail

Flaw == {"missing_meta", "thin_content", "redirect_chain", "missing_schema"}
Image == [file : File, blank : BOOLEAN, media : Media \cup {None}]
PageRecord == [url : Url, title : Title \cup {None}, flaws : SUBSET Flaw,
               images : Seq(Image)]

ASSUME NoneAssumption == None \notin Title \cup Media \cup Crawl
ASSUME ResultsAssumption ==
  \A pages \in Results :
    /\ pages \subseteq PageRecord /\ IsFiniteSet(pages)
    /\ \A p, q \in pages : p.url = q.url => p = q

(* Every name occurs in itself.                                            *)
ASSUME NamesAssumption ==
  /\ \A m \in Media : <<m, m>> \in Prefixed
  /\ \A f \in File : <<f, f>> \in Inside

(* What FixesTheRightImage and AnsweredIsComplete depend on: no file name  *)
(* of a page occurs in another one, no media id starts another one, and no *)
(* file name stands on a page twice.                                       *)
NamesApart ==
  /\ \A m, n \in Media : <<m, n>> \in Prefixed <=> m = n
  /\ \A f, g \in File : <<f, g>> \in Inside <=> f = g
  /\ \A pages \in Results : \A p \in pages :
       \A i, j \in DOMAIN p.images :
         \/ p.images[i].file = p.images[j].file
         \/ /\ p.images[i].media # None
            /\ p.images[i].media = p.images[j].media
         => i = j

VARIABLES
  pc,       \* where a request is
  result,   \* the pages it crawled
  seen,     \* the rows its upsert selected, and their links then
  rows,     \* pages: the rows there are
  linked,   \* links, page_metadata: the crawls a row has some from
  issues,   \* issues
  fixes,    \* suggested_fixes
  summary,  \* the CrawlSummary a request was answered with
  met,      \* whether two requests ever ran at once
  latest    \* the last crawl that committed a page for a URL

twin == <<rows, linked, issues, fixes>>
aux == <<met, latest>>
vars == <<pc, result, seen, twin, summary, aux>>

At(c, step) == pc[c] = step
Goto(c, step) == pc' = [pc EXCEPT ![c] = step]
Busy(c) == pc[c] \in {"upsert", "issues", "fixes"}

Row == Url \X Crawl
RowsOf(u) == {r \in rows : r[1] = u}
UrlsOf(c) == {p.url : p \in result[c]}
PageOf(c, u) == CHOOSE p \in result[c] : p.url = u

-----------------------------------------------------------------------------
(* Check_Engine.run_all_checks.  A candidate names the page, and the image *)
(* for missing alt text.  No link has a status after a crawl, so none is   *)
(* found broken.                                                           *)
Kind == Flaw \cup {"missing_title", "missing_alt_text", "duplicate_title"}
Candidate == [kind : Kind, url : Url, image : Nat]
On(p, kind) == [kind |-> kind, url |-> p.url, image |-> 0]

PageIssues(p) ==
  {On(p, kind) : kind \in p.flaws
                   \cup (IF p.title = None THEN {"missing_title"} ELSE {})}
AltIssues(p) ==
  {[kind |-> "missing_alt_text", url |-> p.url, image |-> i] :
     i \in {j \in DOMAIN p.images : p.images[j].blank}}
SharesTitle(p, pages) ==
  p.title # None /\ \E q \in pages : q # p /\ q.title = p.title

RaisedOn(pages) ==
  (UNION {PageIssues(p) \cup AltIssues(p) : p \in pages})
    \cup {On(p, "duplicate_title") :
            p \in {q \in pages : SharesTitle(q, pages)}}
RaisedBy == [pages \in Results \cup {{}} |-> RaisedOn(pages)]
Raised(c) == RaisedBy[result[c]]

-----------------------------------------------------------------------------
(* Fix_Generator.generate_fix.                                             *)

First(S) == CHOOSE i \in S : \A j \in S : i <= j

(* Mutant: the first image without alt text is taken.                      *)
FirstBlank(p, i) == First({j \in DOMAIN p.images : p.images[j].blank})

(* _resolve_image: which image the element of an issue about image i names;*)
(* the file name of i occurs in it, so the fallbacks are never needed.     *)
ResolveImage(p, i) ==
  LET byMedia == {j \in DOMAIN p.images :
                    /\ p.images[i].media # None /\ p.images[j].media # None
                    /\ <<p.images[j].media, p.images[i].media>> \in Prefixed}
      byFile == {j \in DOMAIN p.images :
                   <<p.images[j].file, p.images[i].file>> \in Inside}
  IN First(IF byMedia # {} THEN byMedia ELSE byFile)

(* What the service says of an image: an error, the text it has, or text.  *)
Answer == IF Ai THEN {"error", "same", "text"} ELSE {"heuristic"}

Asks(candidate) == candidate.kind = "missing_alt_text"
AnswersFor(cands) ==
  [{k \in cands : Asks(k)} -> Answer]

Target(p, k) == p.images[ResolveImage(p, k.image)].media

(* A fix is applied by itself only if it has a media id to write to.       *)
FixFor(p, k, answer) ==
  LET writes == Asks(k) /\ answer # "error" /\ Target(p, k) # None
  IN [target |-> IF writes THEN Target(p, k) ELSE None, auto |-> writes]

(* Mutant: no fix without a media id.                                      *)
SkippedUnresolved(p, k, answer) == Asks(k) /\ Target(p, k) = None

(* generate_fix returns None for the text the resolved image already has.  *)
Skipped(p, k, answer) ==
  /\ Asks(k) /\ answer = "same"
  /\ ~p.images[ResolveImage(p, k.image)].blank

-----------------------------------------------------------------------------
Init ==
  /\ pc = [c \in Crawl |-> "idle"]
  /\ result = [c \in Crawl |-> {}]
  /\ seen = [c \in Crawl |-> <<>>]
  /\ rows = {}
  /\ linked = [r \in Row |-> {}]
  /\ issues = {}
  /\ fixes = {}
  /\ summary = [c \in Crawl |-> None]
  /\ met = FALSE
  /\ latest = [u \in Url |-> None]

(* crawl_site: it returns pages, or rejects the request.                   *)
Crawled(c) ==
  /\ At(c, "idle")
  /\ \/ Goto(c, "rejected") /\ UNCHANGED result
     \/ /\ \E pages \in Results : result' = [result EXCEPT ![c] = pages]
        /\ Goto(c, "upsert")
  /\ met' = (met \/ \E d \in Crawl : Busy(d))
  /\ UNCHANGED <<seen, twin, summary, latest>>

(* upsert_pages selects the row of one page; the first URL with more than  *)
(* one row raises MultipleResultsFound.                                    *)
Selected(c) == DOMAIN seen[c]
SelectPage(c) ==
  /\ At(c, "upsert")
  /\ \E u \in UrlsOf(c) \ Selected(c) :
       \/ /\ Cardinality(RowsOf(u)) > 1
          /\ Goto(c, "failed")
          /\ UNCHANGED seen
       \/ /\ Cardinality(RowsOf(u)) <= 1
          /\ seen' = [seen EXCEPT ![c] =
               [v \in Selected(c) \cup {u} |->
                  IF v = u THEN [row |-> RowsOf(u),
                                 links |-> UNION {linked[r] : r \in RowsOf(u)}]
                  ELSE seen[c][v]]]
          /\ UNCHANGED pc
  /\ UNCHANGED <<result, twin, summary, aux>>

(* The row written for a URL: the one selected, or a new one.              *)
RowFor(c, u) ==
  IF seen[c][u].row = {} THEN <<u, c>> ELSE CHOOSE r \in seen[c][u].row : TRUE

(* Mutant: links are added to those the row had.                           *)
LinksAdded(c, r) == linked[r] \cup {c}

(* delete-orphan removes the links that were there when it was selected.   *)
LinksReplaced(c, r) == (linked[r] \ seen[c][r[1]].links) \cup {c}

CommitPages(c) ==
  /\ At(c, "upsert") /\ Selected(c) = UrlsOf(c)
  /\ LET written == {RowFor(c, u) : u \in UrlsOf(c)}
     IN /\ rows' = rows \cup written
        /\ linked' = [r \in Row |->
             IF r \in written THEN LinksReplaced(c, r) ELSE linked[r]]
  /\ latest' = [u \in Url |-> IF u \in UrlsOf(c) THEN c ELSE latest[u]]
  /\ Goto(c, "issues")
  /\ UNCHANGED <<result, seen, issues, fixes, summary, met>>

(* Mutant: the issues before the failing one are kept.                     *)
StoredUntilFailure(c) == {k \in Raised(c) :
                            Cardinality(RowsOf(k.url)) = 1}

Stored(c) ==
  IF \A k \in Raised(c) : Cardinality(RowsOf(k.url)) = 1
    THEN Raised(c) ELSE {}

IssueOf(c, k) ==
  [by |-> c, about |-> k, page |-> CHOOSE r \in RowsOf(k.url) : TRUE,
   ignored |-> FALSE]

(* All candidates in one transaction, or none: a URL with two rows raises. *)
PersistIssues(c) ==
  /\ At(c, "issues")
  /\ issues' = issues \cup {IssueOf(c, k) : k \in Stored(c)}
  /\ Goto(c, IF Stored(c) = Raised(c) THEN "fixes" ELSE "failed")
  /\ UNCHANGED <<result, seen, rows, linked, fixes, summary, aux>>

(* The issues are those persist_issues returned, never ignored ones, even  *)
(* when their rows have been marked since.                                 *)
FixesOf(c, answers) ==
  {[by |-> c, about |-> k, is |-> FixFor(PageOf(c, k.url), k,
      IF Asks(k) THEN answers[k] ELSE "error")] :
     k \in {j \in Raised(c) :
              ~Skipped(PageOf(c, j.url), j,
                 IF Asks(j) THEN answers[j] ELSE "error")}}

(* Mutant: every fix counts as report-only.                                *)
ReportOnlyAll(S) == S

ReportOnly(S) == {f \in S : ~f.is.auto}

Summary(c, S) ==
  [pages |-> Cardinality(result[c]),
   issues |-> [kind \in Kind |->
                 Cardinality({k \in Raised(c) : k.kind = kind})],
   auto |-> Cardinality({f \in S : f.is.auto}),
   report |-> Cardinality(ReportOnly(S))]

PersistFixes(c) ==
  /\ At(c, "fixes")
  /\ \E answers \in AnswersFor(Raised(c)) :
       LET made == FixesOf(c, answers)
       IN /\ fixes' = fixes \cup made
          /\ summary' = [summary EXCEPT ![c] = Summary(c, made)]
  /\ Goto(c, "answered")
  /\ UNCHANGED <<result, seen, rows, linked, issues, aux>>

(* A transaction fails, or the process dies: what was committed stays.     *)
Fail(c) ==
  /\ Busy(c) /\ "database" \in Faults
  /\ Goto(c, "failed")
  /\ UNCHANGED <<result, seen, twin, summary, aux>>

(* mark_issue_ignored.                                                     *)
Ignore(i) ==
  /\ ~i.ignored /\ Cardinality({j \in issues : j.ignored}) < MaxIgnored
  /\ issues' = (issues \ {i}) \cup {[i EXCEPT !.ignored = TRUE]}
  /\ UNCHANGED <<pc, result, seen, rows, linked, fixes, summary, aux>>

-----------------------------------------------------------------------------
Step(c) ==
  SelectPage(c) \/ CommitPages(c) \/ PersistIssues(c) \/ PersistFixes(c)

Next ==
  \/ \E c \in Crawl : Crawled(c) \/ Step(c) \/ Fail(c)
  \/ \E i \in issues : Ignore(i)

Spec == Init /\ [][Next]_vars

-----------------------------------------------------------------------------
(* Properties.                                                             *)

Issue == [by : Crawl, about : Candidate, page : Row, ignored : BOOLEAN]
FixRow == [by : Crawl, about : Candidate,
           is : [target : Media \cup {None}, auto : BOOLEAN]]

(* Types; a fix has a target exactly if it may be applied by itself.       *)
TypeOK ==
  /\ pc \in [Crawl -> {"idle", "rejected", "upsert", "issues", "fixes",
                       "answered", "failed"}]
  /\ result \in [Crawl -> Results \cup {{}}]
  /\ \A c \in Crawl :
       /\ Selected(c) \subseteq UrlsOf(c)
       /\ \A u \in Selected(c) : /\ seen[c][u].row \subseteq RowsOf(u)
                                 /\ seen[c][u].links \subseteq Crawl
  /\ rows \subseteq Row
  /\ linked \in [Row -> SUBSET Crawl]
  /\ issues \subseteq Issue
  /\ fixes \subseteq FixRow
  /\ \A f \in fixes : f.is.auto <=> f.is.target # None
  /\ met \in BOOLEAN
  /\ latest \in [Url -> Crawl \cup {None}]

(* Every issue stands on a row of its page, every fix on an issue of its   *)
(* crawl; a crawl's issues are all there or none, and its fixes come after *)
(* them, whichever stage failed (run_crawl, persist_issues).               *)
IssuesBy(c) == {i \in issues : i.by = c}
RowsReferToRows ==
  /\ TypeOK
  /\ \A i \in issues : i.page \in rows /\ i.page[1] = i.about.url
  /\ \A f \in fixes : \E i \in issues : i.by = f.by /\ i.about = f.about
  /\ \A c \in Crawl :
       {i.about : i \in IssuesBy(c)} \in {{}, Raised(c)}

(* While requests come one at a time, a URL that was ever stored has one   *)
(* row, and its links and metadata are those of the last crawl that        *)
(* committed it (_apply_page: they "always mirror the source").            *)
TwinMirrorsLastCrawl ==
  ~met => \A u \in Url : IF latest[u] = None THEN RowsOf(u) = {}
            ELSE \E r \in rows : RowsOf(u) = {r} /\ linked[r] = {latest[u]}

(* A fix that may be applied by itself writes to the image whose alt text  *)
(* is missing (_resolve_image), provided no name contains another one.     *)
FixesTheRightImage ==
  NamesApart => \A f \in fixes : f.is.auto =>
    LET image == PageOf(f.by, f.about.url).images[f.about.image]
    IN Asks(f.about) /\ image.blank /\ image.media = f.is.target

(* A request that is answered has stored every page and issue, one fix for *)
(* each, and told their numbers (Req 5.1, 10.1), whatever the requests     *)
(* beside it do.                                                           *)
AnsweredIsComplete ==
  \A c \in Crawl : At(c, "answered") =>
    LET mine == {f \in fixes : f.by = c}
        told == summary[c]
    IN /\ \A u \in UrlsOf(c) : RowsOf(u) # {}
       /\ NamesApart => {f.about : f \in mine} = Raised(c)
       /\ \A kind \in Kind : told.issues[kind] =
            Cardinality({i \in IssuesBy(c) : i.about.kind = kind})
       /\ told.auto = Cardinality({f \in mine : f.is.auto})
       /\ told.auto + told.report = Cardinality(mine)

(* upsert_pages: a page "is matched on (tenant_id, url): an existing row   *)
(* is updated in place".  Concurrent requests break it, and every later    *)
(* crawl that meets the URL fails.                                         *)
OneRowPerPage == \A u \in Url : Cardinality(RowsOf(u)) <= 1
=============================================================================
