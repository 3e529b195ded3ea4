------------------------------ MODULE Crawler ------------------------------
(***************************************************************************)
(* The polite same-domain crawler (packages/crawler): one Crawler object,  *)
(* shared by the requests that crawl through it, its robots.txt cache and  *)
(* its per-host pacing.                                                    *)
(*                                                                         *)
(* A URL is an element of Url in its normalised form, an origin is its     *)
(* host.  What a server answers is fixed for a URL that answers at all     *)
(* (Link, Redirect); whether and how fast it answers is not.  Time is      *)
(* counted in ticks; since[h] forgets what lies Far ticks back.            *)
(***************************************************************************)
EXTENDS Integers, Sequences, FiniteSets

CONSTANTS
  Crawl,        \* calls of crawl_site
  Url, Host, None,
  HostOf,       \* the host of a URL
  Domain,       \* the registrable domain of a host
  Link,         \* the links of the document a URL answers with, in order
  Redirect,     \* where a URL redirects to, or None
  Permitted,    \* the URLs robots.txt permits where it can be read
  StartUrl,     \* the start URLs the calls come with
  Asked,        \* the page counts they come with
  MaxPages,     \* MAX_PAGES
  Cap,          \* the redirect hard cap
  Rate,         \* Rate_Limit, in ticks
  Overlap,      \* whether calls run at the same time
  Failures      \* kinds of failing answers: "raised", "late", "robots"

ASSUME WebAssumption ==
  /\ HostOf \in [Url -> Host]
  /\ Link \in [Url -> Seq(Url)]
  /\ Redirect \in [Url -> Url \cup {None}]
  /\ None \notin Url
  /\ StartUrl \subseteq Url
  /\ Permitted \subseteq Url
ASSUME BoundAssumption ==
  /\ Asked \subseteq Int
  /\ MaxPages \in Nat
  /\ Cap \in Nat \ {0}
  /\ Rate \in Nat

VARIABLES
  pc,       \* where a crawl is
  limit,    \* its max_pages
  found,    \* every URL it ever queued, in order: seen, and queue's history
  taken,    \* how many of them it has taken from the queue
  walk,     \* the URLs traversed for the one taken, the current one last
  todo,     \* links of the last page still to be considered
  pages,    \* the pages it has retrieved
  delay,    \* what is left of its sleep
  robots,   \* RobotsGate._cache
  since,    \* ticks since _last_request_at of a host, None if there is none
  degraded  \* _host_degraded

loop == <<limit, found, taken, pages>>
pace == <<delay, since, degraded>>
vars == <<pc, loop, walk, todo, robots, pace>>

Far == 2 * Rate
Page == [url : Url, chain : Seq(Url), truncated : BOOLEAN]

At(c, step) == pc[c] = step
Goto(c, step) == pc' = [pc EXCEPT ![c] = step]
Running(c) == pc[c] \notin {"idle", "rejected", "done"}
Requested(c) == found[c][taken[c]]
Current(c) == walk[c][Len(walk[c])]
Final(page) == page.chain[Len(page.chain)]
SameDomain(u, v) == Domain[HostOf[u]] = Domain[HostOf[v]]
Queued(c, u) == \E i \in 1..Len(found[c]) : found[c][i] = u

Init ==
  /\ pc = [c \in Crawl |-> "idle"]
  /\ limit = [c \in Crawl |-> 0]
  /\ found = [c \in Crawl |-> <<>>]
  /\ taken = [c \in Crawl |-> 0]
  /\ walk = [c \in Crawl |-> <<>>]
  /\ todo = [c \in Crawl |-> <<>>]
  /\ pages = [c \in Crawl |-> <<>>]
  /\ delay = [c \in Crawl |-> 0]
  /\ robots = [h \in Host |-> "unknown"]
  /\ since = [h \in Host |-> None]
  /\ degraded = [h \in Host |-> FALSE]

-----------------------------------------------------------------------------
(* The breadth-first loop.                                                 *)

ValidCount(n) == n \in 1..MaxPages

Start(c) ==
  /\ At(c, "idle")
  /\ Overlap \/ \A d \in Crawl : ~Running(d)
  /\ \E u \in StartUrl, n \in Asked :
       /\ limit' = [limit EXCEPT ![c] = n]
       /\ IF ValidCount(n)
            THEN /\ found' = [found EXCEPT ![c] = <<u>>]
                 /\ Goto(c, "loop")
            ELSE /\ Goto(c, "rejected")
                 /\ UNCHANGED found
  /\ UNCHANGED <<taken, walk, todo, pages, robots, pace>>

HasRoom(c) == Len(pages[c]) < limit[c]

(* popleft, and the question to the robots gate.                           *)
Take(c) ==
  /\ At(c, "loop")
  /\ taken[c] < Len(found[c]) /\ HasRoom(c)
  /\ taken' = [taken EXCEPT ![c] = @ + 1]
  /\ Goto(c, "gate")
  /\ UNCHANGED <<limit, found, pages, walk, todo, robots, pace>>

Finish(c) ==
  /\ At(c, "loop")
  /\ taken[c] = Len(found[c]) \/ ~HasRoom(c)
  /\ Goto(c, "done")
  /\ UNCHANGED <<loop, walk, todo, robots, pace>>

(* An unreadable robots.txt excludes, a readable one decides.              *)
Allows(answer, u) == answer = "parsed" /\ u \in Permitted

Decide(c, answer) ==
  IF Allows(answer, Requested(c))
    THEN /\ walk' = [walk EXCEPT ![c] = <<Requested(c)>>]
         /\ Goto(c, "pace")
    ELSE /\ Goto(c, "loop")
         /\ UNCHANGED walk

GateCached(c) ==
  LET answer == robots[HostOf[Requested(c)]]
  IN /\ At(c, "gate") /\ answer # "unknown"
     /\ Decide(c, answer)
     /\ UNCHANGED <<loop, todo, robots, pace>>

GateMiss(c) ==
  /\ At(c, "gate") /\ robots[HostOf[Requested(c)]] = "unknown"
  /\ Goto(c, "robots")
  /\ UNCHANGED <<loop, walk, todo, robots, pace>>

(* The answer is cached, whatever a concurrent crawl cached in between.    *)
GateFetched(c) ==
  /\ At(c, "robots")
  /\ \E answer \in {"parsed"} \cup
         (IF "robots" \in Failures THEN {"unavailable"} ELSE {}) :
       /\ robots' = [robots EXCEPT ![HostOf[Requested(c)]] = answer]
       /\ Decide(c, answer)
  /\ UNCHANGED <<loop, todo, pace>>

(* Mutant: the domain compared with is that of the page the link stands on.*)
InDomainOfPage(c, u) == SameDomain(Final(pages[c][Len(pages[c])]), u)

(* One link of the page just built.                                        *)
InDomain(c, u) == SameDomain(found[c][1], u)

Consider(c) ==
  /\ At(c, "links") /\ todo[c] # <<>>
  /\ LET u == Head(todo[c])
     IN found' = [found EXCEPT ![c] =
          IF ~Queued(c, u) /\ InDomain(c, u) THEN Append(@, u) ELSE @]
  /\ todo' = [todo EXCEPT ![c] = Tail(@)]
  /\ UNCHANGED <<pc, limit, taken, pages, walk, robots, pace>>

NoMoreLinks(c) ==
  /\ At(c, "links") /\ todo[c] = <<>>
  /\ Goto(c, "loop")
  /\ UNCHANGED <<loop, walk, todo, robots, pace>>

-----------------------------------------------------------------------------
(* One paced request, and the redirects it leads along.                    *)

(* Mutant: the delay is not raised for a degraded host.                    *)
RequiredFloor(h) == Rate

Required(h) == IF degraded[h] THEN 2 * Rate ELSE Rate

Pace(c) ==
  LET h == HostOf[Current(c)]
      left == IF since[h] = None THEN 0 ELSE Required(h) - since[h]
  IN /\ At(c, "pace")
     /\ delay' = [delay EXCEPT ![c] = IF left > 0 THEN left ELSE 0]
     /\ Goto(c, "sleep")
     /\ UNCHANGED <<loop, walk, todo, robots, since, degraded>>

Send(c) ==
  /\ At(c, "sleep") /\ delay[c] = 0
  /\ Goto(c, "fetch")
  /\ UNCHANGED <<loop, walk, todo, robots, pace>>

Contacted(c) == since' = [since EXCEPT ![HostOf[Current(c)]] = 0]

(* The fetcher raises: the host counts as contacted, its state is kept.    *)
Raised(c) ==
  /\ At(c, "fetch") /\ "raised" \in Failures
  /\ Contacted(c)
  /\ Goto(c, "loop")
  /\ UNCHANGED <<loop, walk, todo, robots, delay, degraded>>

(* Mutant: a request that takes too long is tried again.                   *)
LateRetried(c) ==
  /\ At(c, "fetch") /\ "late" \in Failures
  /\ Contacted(c)
  /\ degraded' = [degraded EXCEPT ![HostOf[Current(c)]] = TRUE]
  /\ Goto(c, "pace")
  /\ UNCHANGED <<loop, walk, todo, robots, delay>>

(* The answer took longer than the timeout, and so than the threshold.     *)
Late(c) ==
  /\ At(c, "fetch") /\ "late" \in Failures
  /\ Contacted(c)
  /\ degraded' = [degraded EXCEPT ![HostOf[Current(c)]] = TRUE]
  /\ Goto(c, "loop")
  /\ UNCHANGED <<loop, walk, todo, robots, delay>>

(* Mutant: the cap is compared after one hop more.                         *)
AtCapLate(c) == Len(walk[c]) - 1 > Cap

AtCap(c) == Len(walk[c]) - 1 >= Cap

Answered(c) ==
  /\ Contacted(c)
  /\ \E slow \in BOOLEAN :
       degraded' = [degraded EXCEPT ![HostOf[Current(c)]] = slow]
  /\ UNCHANGED <<limit, found, taken, robots, delay>>

Follow(c) ==
  /\ At(c, "fetch") /\ Redirect[Current(c)] # None /\ ~AtCap(c)
  /\ Answered(c)
  /\ walk' = [walk EXCEPT ![c] = Append(@, Redirect[Current(c)])]
  /\ Goto(c, "pace")
  /\ UNCHANGED <<todo, pages>>

(* Mutant: the links are resolved on the URL asked for.                    *)
LinksOfRequested(page) == Link[page.url]

(* The links are those of the document the walk ended at.                  *)
LinksOf(page) == Link[Final(page)]

Record(c) ==
  LET page == [url |-> Requested(c), chain |-> walk[c],
               truncated |-> Redirect[Current(c)] # None]
  IN /\ At(c, "fetch") /\ (Redirect[Current(c)] = None \/ AtCap(c))
     /\ Answered(c)
     /\ pages' = [pages EXCEPT ![c] = Append(@, page)]
     /\ todo' = [todo EXCEPT ![c] = LinksOf(page)]
     /\ Goto(c, "links")
     /\ UNCHANGED walk

(* Time goes by while a crawl runs, and not beyond the end of a sleep.     *)
Tick ==
  /\ \E c \in Crawl : Running(c)
  /\ \E c \in Crawl : delay[c] > 0
       \/ \E h \in Host : since[h] # None /\ since[h] < Far
  /\ delay' = [c \in Crawl |-> IF delay[c] > 0 THEN delay[c] - 1 ELSE 0]
  /\ since' = [h \in Host |-> IF since[h] = None \/ since[h] >= Far
                                THEN since[h] ELSE since[h] + 1]
  /\ UNCHANGED <<pc, loop, walk, todo, robots, degraded>>

-----------------------------------------------------------------------------
Step(c) ==
  \/ Take(c) \/ Finish(c) \/ GateCached(c) \/ GateMiss(c) \/ GateFetched(c)
  \/ Consider(c) \/ NoMoreLinks(c)
  \/ Pace(c) \/ Send(c) \/ Raised(c) \/ Late(c) \/ Follow(c) \/ Record(c)

Next == Tick \/ \E c \in Crawl : Start(c) \/ Step(c)

Spec == Init /\ [][Next]_vars

(* A call that was made goes on, and time does.                            *)
FairSpec == Spec /\ WF_vars(Tick) /\ \A c \in Crawl : WF_vars(Step(c))

-----------------------------------------------------------------------------
(* Properties.                                                             *)

(* Types, and the bounds the code promises: no more pages than asked for,  *)
(* no walk beyond the cap.                                                 *)
LoopTyped ==
  /\ pc \in [Crawl -> {"idle", "rejected", "loop", "gate", "robots", "pace",
                       "sleep", "fetch", "links", "done"}]
  /\ limit \in [Crawl -> Int]
  /\ found \in [Crawl -> Seq(Url)]
  /\ taken \in [Crawl -> Nat]
  /\ walk \in [Crawl -> Seq(Url)]
  /\ todo \in [Crawl -> Seq(Url)]
  /\ pages \in [Crawl -> Seq(Page)]
PaceTyped ==
  /\ delay \in [Crawl -> 0..Far]
  /\ robots \in [Host -> {"unknown", "parsed", "unavailable"}]
  /\ since \in [Host -> 0..Far \cup {None}]
  /\ degraded \in [Host -> BOOLEAN]
WithinBounds(c) ==
  /\ taken[c] <= Len(found[c])
  /\ Running(c) => Len(pages[c]) <= limit[c]
  /\ Len(walk[c]) <= Cap + 1
TypeOK == LoopTyped /\ PaceTyped /\ \A c \in Crawl : WithinBounds(c)

(* A crawl retrieves no URL twice, and its pages come in the order their   *)
(* URLs were found, however links repeat and pages fail (crawl_site: seen  *)
(* "guards against re-queuing a URL (and thus loops)").                    *)
PageAt(c, k, i) == pages[c][k].url = found[c][i]
EachUrlOnce ==
  \A c \in Crawl :
    /\ \A i, j \in 1..Len(found[c]) : found[c][i] = found[c][j] => i = j
    /\ \A k, l \in 1..Len(pages[c]) : k < l =>
         \E i, j \in 1..taken[c] : i < j /\ PageAt(c, k, i) /\ PageAt(c, l, j)

(* Every page was asked for at a URL of the start URL's domain, one that   *)
(* robots.txt permits, even when links are found on a page a redirect led  *)
(* to outside the domain (Req 1.3, 1.8).  Hops of a redirect are not       *)
(* covered: the code asks neither question of them.                        *)
OnlyPermitted ==
  \A c \in Crawl : \A k \in 1..Len(pages[c]) :
    /\ pages[c][k].url \in Permitted
    /\ SameDomain(found[c][1], pages[c][k].url)

(* While calls do not overlap, the cache holds a readable robots.txt for   *)
(* the origin of every page: what was once unreadable stays excluded       *)
(* (Req 1.7).  Overlapping calls may fetch it twice with two outcomes.     *)
FailClosed ==
  \A c \in Crawl : \A k \in 1..Len(pages[c]) :
    robots[HostOf[pages[c][k].url]] = "parsed"

(* The chain of a page is a walk along the redirects from the URL asked    *)
(* for, it ends where the redirects or the cap end it, and says which, on  *)
(* cyclic redirects too (Req 2.1, 2.2).                                    *)
ChainsFaithful ==
  \A c \in Crawl : \A k \in 1..Len(pages[c]) :
    LET page == pages[c][k]
        n == Len(page.chain)
    IN /\ n \in 1..Cap + 1
       /\ page.chain[1] = page.url
       /\ \A i \in 1..n - 1 : page.chain[i + 1] = Redirect[page.chain[i]]
       /\ page.truncated <=> Redirect[Final(page)] # None
       /\ page.truncated => n = Cap + 1

(* A crawl that ends with pages to spare has tried the start URL and every *)
(* in-domain link of every page it retrieved, resolved on the document the *)
(* redirects led to, and nothing else (Req 1.1, 1.2): a URL that fails     *)
(* costs that URL only (Req 1.12).                                         *)
LinkedInDomain(c) ==
  {u \in Url : /\ SameDomain(found[c][1], u)
               /\ \E k \in 1..Len(pages[c]) :
                    \E i \in 1..Len(Link[Final(pages[c][k])]) :
                      Link[Final(pages[c][k])][i] = u}
Exhausted ==
  \A c \in Crawl : At(c, "done") /\ HasRoom(c) =>
    {found[c][i] : i \in 1..taken[c]} = {found[c][1]} \cup LinkedInDomain(c)

(* The pages of a crawl are the site as robots.txt shows it: none twice,   *)
(* none of an origin that did not answer for itself, none left out.        *)
CoversTheSite == EachUrlOnce /\ FailClosed /\ Exhausted

(* Calls that do not overlap leave a host at least Rate_Limit between the  *)
(* end of one request and the start of the next, twice that while it is    *)
(* degraded, across calls too (Req 1.9-1.11).                              *)
Paced ==
  [][\A c \in Crawl : At(c, "sleep") /\ pc'[c] = "fetch" =>
       LET h == HostOf[Current(c)]
       IN since[h] = None \/ since[h] >= (IF degraded[h] THEN 2 ELSE 1) * Rate
    ]_vars

(* Every call ends, on cyclic links and cyclic redirects, whatever fails.  *)
CrawlEnds == \A c \in Crawl : Running(c) ~> At(c, "done")

=============================================================================
