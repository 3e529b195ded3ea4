--------------------------- MODULE CrawlerProofs ----------------------------
(***************************************************************************)
(* What a crawl retrieves is permitted, in its domain, distinct, in order  *)
(* and recorded with the redirects that led there: proved for every web,   *)
(* every number of concurrent calls, every cap and page count.             *)
(***************************************************************************)
EXTENDS Crawler, TLAPS

Attempting(c) == pc[c] \in {"gate", "robots", "pace", "sleep", "fetch"}
Walking(c) == pc[c] \in {"pace", "sleep", "fetch"}

(* Before a call there is nothing; a call has its start URL; while it      *)
(* attempts a URL there is room for its page, and the gate has let it      *)
(* through once it walks.                                                  *)
CallInv(c) ==
  /\ At(c, "idle") => found[c] = <<>> /\ taken[c] = 0 /\ pages[c] = <<>>
  /\ Running(c) => found[c] # <<>>
  /\ Attempting(c) => taken[c] >= 1 /\ HasRoom(c)
  /\ Walking(c) => Requested(c) \in Permitted

(* The queue only ever gets new URLs of the start URL's domain.            *)
QueueInv(c) ==
  \A i \in 1..Len(found[c]) :
    /\ SameDomain(found[c][1], found[c][i])
    /\ \A j \in 1..Len(found[c]) : found[c][i] = found[c][j] => i = j

(* A walk follows the redirects from the URL taken.                        *)
IsWalk(w) == \A i \in 1..Len(w) - 1 : w[i + 1] = Redirect[w[i]]
WalkInv(c) ==
  Walking(c) => /\ walk[c] # <<>>
                /\ walk[c][1] = Requested(c)
                /\ IsWalk(walk[c])

(* The pages stand for URLs taken before the one being attempted.          *)
Behind(c) == IF Attempting(c) THEN taken[c] - 1 ELSE taken[c]
ChainOK(page) ==
  /\ Len(page.chain) \in 1..Cap + 1
  /\ page.chain[1] = page.url
  /\ IsWalk(page.chain)
  /\ page.truncated <=> Redirect[Final(page)] # None
  /\ page.truncated => Len(page.chain) = Cap + 1
PageInv(c) ==
  /\ \A k \in 1..Len(pages[c]) :
       /\ pages[c][k].url \in Permitted
       /\ ChainOK(pages[c][k])
       /\ \E i \in 1..Behind(c) : PageAt(c, k, i)
  /\ \A k, l \in 1..Len(pages[c]) : k < l =>
       \E i, j \in 1..Behind(c) : i < j /\ PageAt(c, k, i) /\ PageAt(c, l, j)

IInv == /\ TypeOK
        /\ \A c \in Crawl :
             CallInv(c) /\ QueueInv(c) /\ WalkInv(c) /\ PageInv(c)

LEMMA CrawlTypeInit == Init => TypeOK
<1> SUFFICES ASSUME Init PROVE TypeOK
  OBVIOUS
<1> USE BoundAssumption DEF Init
<1>1. LoopTyped
  BY DEF LoopTyped
<1>2. PaceTyped
  BY DEF PaceTyped, Far
<1>3. ASSUME NEW c \in Crawl PROVE WithinBounds(c)
  BY DEF WithinBounds, Running
<1> QED BY <1>1, <1>2, <1>3 DEF TypeOK

(* What the URL taken and the page built from it are.                      *)
LEMMA RequestedIsUrl ==
  ASSUME IInv, NEW c \in Crawl, Attempting(c)
  PROVE  Requested(c) \in Url
  BY DEF IInv, TypeOK, LoopTyped, WithinBounds, CallInv, Requested

LEMMA CurrentIsUrl ==
  ASSUME IInv, NEW c \in Crawl, Walking(c)
  PROVE  /\ walk[c] \in Seq(Url) /\ walk[c] # <<>>
         /\ Current(c) \in Url /\ HostOf[Current(c)] \in Host
  BY WebAssumption DEF IInv, TypeOK, LoopTyped, WalkInv, Current

PageBuilt(c) == [url |-> Requested(c), chain |-> walk[c],
                 truncated |-> Redirect[Current(c)] # None]

LEMMA PageBuiltIsPage ==
  ASSUME IInv, NEW c \in Crawl, At(c, "fetch")
  PROVE  PageBuilt(c) \in Page /\ LinksOf(PageBuilt(c)) \in Seq(Url)
<1>1. Requested(c) \in Url
  BY RequestedIsUrl DEF At, Attempting
<1>2. walk[c] \in Seq(Url) /\ Current(c) \in Url
  BY CurrentIsUrl DEF At, Walking
<1>3. PageBuilt(c) \in Page
  BY <1>1, <1>2 DEF PageBuilt, Page
<1>4. Final(PageBuilt(c)) = Current(c)
  BY DEF PageBuilt, Final, Current
<1> QED BY <1>2, <1>3, <1>4, WebAssumption DEF LinksOf

(* A call either starts with a URL and a count in range, or is rejected.   *)
LEMMA Started ==
  ASSUME NEW c \in Crawl, Start(c)
  PROVE  /\ At(c, "idle")
         /\ UNCHANGED <<taken, walk, todo, pages, robots, pace>>
         /\ \E u \in Url, n \in Int :
              /\ limit' = [limit EXCEPT ![c] = n]
              /\ \/ /\ n >= 1
                    /\ found' = [found EXCEPT ![c] = <<u>>]
                    /\ pc' = [pc EXCEPT ![c] = "loop"]
                 \/ /\ pc' = [pc EXCEPT ![c] = "rejected"]
                    /\ UNCHANGED found
<1>1. PICK u \in StartUrl, n \in Asked :
        /\ limit' = [limit EXCEPT ![c] = n]
        /\ IF ValidCount(n)
             THEN /\ found' = [found EXCEPT ![c] = <<u>>]
                  /\ Goto(c, "loop")
             ELSE /\ Goto(c, "rejected")
                  /\ UNCHANGED found
  BY DEF Start
<1>2. u \in Url /\ n \in Int /\ (ValidCount(n) => n >= 1)
  BY WebAssumption, BoundAssumption DEF ValidCount
<1>3. \/ /\ n >= 1
         /\ found' = [found EXCEPT ![c] = <<u>>]
         /\ pc' = [pc EXCEPT ![c] = "loop"]
      \/ /\ pc' = [pc EXCEPT ![c] = "rejected"]
         /\ UNCHANGED found
  BY <1>1, <1>2 DEF Goto
<1>4. At(c, "idle") /\ UNCHANGED <<taken, walk, todo, pages, robots, pace>>
  BY DEF Start
<1> QED BY <1>1, <1>2, <1>3, <1>4

(* A page is recorded with the links of the document it ends at.           *)
LEMMA Recorded ==
  ASSUME NEW c \in Crawl, Record(c)
  PROVE  /\ At(c, "fetch")
         /\ Redirect[Current(c)] = None \/ AtCap(c)
         /\ pages' = [pages EXCEPT ![c] = Append(@, PageBuilt(c))]
         /\ todo' = [todo EXCEPT ![c] = LinksOf(PageBuilt(c))]
         /\ pc' = [pc EXCEPT ![c] = "links"]
         /\ UNCHANGED <<limit, found, taken, walk>>
  BY DEF Record, Answered, PageBuilt, Goto

LEMMA LoopTypedStep ==
  ASSUME IInv, NEW c \in Crawl, Start(c) \/ Step(c)
  PROVE  LoopTyped'
<1>1. LoopTyped
  BY DEF IInv, TypeOK
<1>2. CASE Start(c)
  <2>1. PICK u \in Url, n \in Int :
          /\ limit' = [limit EXCEPT ![c] = n]
          /\ \/ /\ found' = [found EXCEPT ![c] = <<u>>]
                /\ pc' = [pc EXCEPT ![c] = "loop"]
             \/ /\ pc' = [pc EXCEPT ![c] = "rejected"]
                /\ UNCHANGED found
    BY <1>2, Started
  <2>2. <<u>> \in Seq(Url) /\ UNCHANGED <<taken, walk, todo, pages>>
    BY <1>2, Started
  <2> QED BY <1>1, <2>1, <2>2 DEF LoopTyped
<1>3. CASE Take(c)
  BY <1>1, <1>3 DEF LoopTyped, Goto, Take
<1>4. CASE Finish(c)
  BY <1>1, <1>4 DEF LoopTyped, Goto, loop, Finish
<1>5. CASE GateMiss(c)
  BY <1>1, <1>5 DEF LoopTyped, Goto, loop, GateMiss
<1>6. CASE GateCached(c) \/ GateFetched(c)
  <2>1. Requested(c) \in Url
    BY <1>6, RequestedIsUrl DEF GateCached, GateFetched, Attempting, At
  <2>2. <<Requested(c)>> \in Seq(Url)
    BY <2>1
  <2>3. /\ UNCHANGED <<limit, found, taken, pages, todo>>
        /\ \/ /\ walk' = [walk EXCEPT ![c] = <<Requested(c)>>]
              /\ pc' = [pc EXCEPT ![c] = "pace"]
           \/ /\ pc' = [pc EXCEPT ![c] = "loop"]
              /\ UNCHANGED walk
    BY <1>6 DEF GateCached, GateFetched, Decide, Goto, loop
  <2> QED BY <1>1, <2>2, <2>3 DEF LoopTyped
<1>7. CASE Consider(c)
  <2>1. Head(todo[c]) \in Url /\ Tail(todo[c]) \in Seq(Url)
    BY <1>1, <1>7 DEF LoopTyped, Consider
  <2> QED BY <1>1, <1>7, <2>1 DEF LoopTyped, Consider
<1>8. CASE NoMoreLinks(c)
  BY <1>1, <1>8 DEF LoopTyped, Goto, loop, NoMoreLinks
<1>9. CASE Pace(c)
  BY <1>1, <1>9 DEF LoopTyped, Goto, loop, Pace
<1>10. CASE Send(c)
  BY <1>1, <1>10 DEF LoopTyped, Goto, loop, Send
<1>11. CASE Raised(c)
  BY <1>1, <1>11 DEF LoopTyped, Goto, loop, Raised
<1>12. CASE Late(c)
  BY <1>1, <1>12 DEF LoopTyped, Goto, loop, Late
<1>13. CASE Follow(c)
  <2>1. Redirect[Current(c)] \in Url
    BY <1>13, CurrentIsUrl, WebAssumption DEF Follow, Walking, At
  <2> QED BY <1>1, <1>13, <2>1 DEF LoopTyped, Goto, Follow, Answered
<1>14. CASE Record(c)
  <2>1. PageBuilt(c) \in Page /\ LinksOf(PageBuilt(c)) \in Seq(Url)
    BY <1>14, PageBuiltIsPage, Recorded
  <2>2. /\ pages' = [pages EXCEPT ![c] = Append(@, PageBuilt(c))]
        /\ todo' = [todo EXCEPT ![c] = LinksOf(PageBuilt(c))]
        /\ pc' = [pc EXCEPT ![c] = "links"]
        /\ UNCHANGED <<limit, found, taken, walk>>
    BY <1>14, Recorded
  <2> QED BY <1>1, <2>1, <2>2 DEF LoopTyped
<1> QED BY <1>2, <1>3, <1>4, <1>5, <1>6, <1>7, <1>8, <1>9, <1>10, <1>11,
           <1>12, <1>13, <1>14 DEF Step

LEMMA PaceTypedStep ==
  ASSUME IInv, NEW c \in Crawl, Start(c) \/ Step(c)
  PROVE  PaceTyped'
<1>1. PaceTyped
  BY DEF IInv, TypeOK
<1>2. ASSUME UNCHANGED <<robots, pace>> PROVE PaceTyped'
  BY <1>1, <1>2 DEF PaceTyped, pace
<1>3. CASE Start(c) \/ Take(c) \/ Finish(c) \/ GateCached(c) \/ GateMiss(c)
  BY <1>2, <1>3 DEF Start, Take, Finish, GateCached, GateMiss
<1>4. CASE Consider(c) \/ NoMoreLinks(c) \/ Send(c)
  BY <1>2, <1>4 DEF Consider, NoMoreLinks, Send
<1>5. CASE GateFetched(c)
  BY <1>1, <1>5 DEF GateFetched, PaceTyped, pace
<1>6. CASE Pace(c)
  <2>1. HostOf[Current(c)] \in Host
    BY <1>6, CurrentIsUrl DEF Pace, Walking, At
  <2> QED BY <1>1, <1>6, <2>1, BoundAssumption
          DEF Pace, PaceTyped, Required, Far
<1> DEFINE h == HostOf[Current(c)]
<1>0. 0 \in 0..Far
  BY BoundAssumption DEF Far
<1>7. CASE Raised(c) \/ Late(c)
  <2>1. /\ since' = [since EXCEPT ![h] = 0] /\ UNCHANGED <<robots, delay>>
        /\ degraded' = degraded \/ degraded' = [degraded EXCEPT ![h] = TRUE]
    BY <1>7 DEF Raised, Late, Contacted
  <2> HIDE DEF h
  <2> QED BY <1>0, <1>1, <2>1 DEF PaceTyped
<1>8. CASE Follow(c) \/ Record(c)
  <2>1. PICK slow \in BOOLEAN :
          /\ since' = [since EXCEPT ![h] = 0] /\ UNCHANGED <<robots, delay>>
          /\ degraded' = [degraded EXCEPT ![h] = slow]
    BY <1>8 DEF Follow, Record, Answered, Contacted
  <2> HIDE DEF h
  <2> QED BY <1>0, <1>1, <2>1 DEF PaceTyped
<1> QED BY <1>3, <1>4, <1>5, <1>6, <1>7, <1>8 DEF Step

LEMMA BoundsStep ==
  ASSUME IInv, NEW c \in Crawl, Start(c) \/ Step(c)
  PROVE  WithinBounds(c)'
<1>1. LoopTyped /\ WithinBounds(c) /\ CallInv(c)
  BY DEF IInv, TypeOK
<1> USE DEF LoopTyped, WithinBounds, At, Goto, Running
<1>2. CASE Start(c)
  <2>1. PICK u \in Url, n \in Int :
          /\ limit' = [limit EXCEPT ![c] = n]
          /\ \/ /\ n >= 1
                /\ found' = [found EXCEPT ![c] = <<u>>]
                /\ pc' = [pc EXCEPT ![c] = "loop"]
             \/ /\ pc' = [pc EXCEPT ![c] = "rejected"]
                /\ UNCHANGED found
    BY <1>2, Started
  <2>2. /\ taken[c] = 0 /\ pages[c] = <<>>
        /\ UNCHANGED <<taken, walk, pages>>
    BY <1>1, <1>2, Started DEF CallInv
  <2> QED BY <1>1, <2>1, <2>2
<1>3. CASE Take(c)
  BY <1>1, <1>3 DEF Take
<1>4. CASE Finish(c)
  BY <1>1, <1>4 DEF Finish, loop
<1>5. CASE GateMiss(c)
  BY <1>1, <1>5 DEF GateMiss, loop
<1>6. CASE GateCached(c) \/ GateFetched(c)
  <2>1. /\ pc[c] \in {"gate", "robots"}
        /\ UNCHANGED <<limit, found, taken, pages>>
        /\ walk'[c] = walk[c] \/ walk'[c] = <<Requested(c)>>
    BY <1>1, <1>6 DEF GateCached, GateFetched, Decide, loop
  <2> DEFINE first == <<Requested(c)>>
  <2>0. Len(first) = 1 /\ 1 <= Cap + 1
    BY BoundAssumption
  <2> HIDE DEF first
  <2>2. Len(walk'[c]) <= Cap + 1
    <3>1. CASE walk'[c] = first
      BY <2>0, <3>1
    <3>2. CASE walk'[c] = walk[c]
      BY <1>1, <3>2
    <3> QED BY <2>1, <3>1, <3>2 DEF first
  <2>3. Running(c)
    BY <2>1
  <2>4. taken[c] <= Len(found[c]) /\ Len(pages[c]) <= limit[c]
    BY <1>1, <2>3
  <2> HIDE DEF Running, LoopTyped
  <2>5. taken'[c] <= Len(found'[c]) /\ Len(pages'[c]) <= limit'[c]
    BY <2>1, <2>4
  <2> QED BY <2>2, <2>5
<1>7. CASE Consider(c)
  BY <1>1, <1>7 DEF Consider
<1>8. CASE NoMoreLinks(c)
  BY <1>1, <1>8 DEF NoMoreLinks, loop
<1>9. CASE Pace(c)
  BY <1>1, <1>9 DEF Pace, loop
<1>10. CASE Send(c)
  BY <1>1, <1>10 DEF Send, loop
<1>11. CASE Raised(c)
  BY <1>1, <1>11 DEF Raised, loop
<1>12. CASE Late(c)
  BY <1>1, <1>12 DEF Late, loop
<1>13. CASE Follow(c)
  BY <1>1, <1>13, BoundAssumption DEF Follow, Answered, AtCap
<1>14. CASE Record(c)
  <2>1. Len(pages[c]) < limit[c]
    BY <1>1, <1>14, Recorded DEF CallInv, Attempting, HasRoom
  <2>2. Len(pages'[c]) = Len(pages[c]) + 1
    BY <1>1, <1>14, Recorded, PageBuiltIsPage
  <2> QED BY <1>1, <1>14, <2>1, <2>2, Recorded
<1> QED BY <1>2, <1>3, <1>4, <1>5, <1>6, <1>7, <1>8, <1>9, <1>10, <1>11,
           <1>12, <1>13, <1>14 DEF Step

-----------------------------------------------------------------------------
(* A step of one crawl leaves the others alone.                            *)
Same(d) ==
  /\ pc'[d] = pc[d] /\ limit'[d] = limit[d] /\ found'[d] = found[d]
  /\ taken'[d] = taken[d] /\ walk'[d] = walk[d] /\ pages'[d] = pages[d]

LEMMA OthersSame ==
  ASSUME TypeOK, NEW c \in Crawl, Start(c) \/ Step(c),
         NEW d \in Crawl, d # c
  PROVE  Same(d)
<1>1. LoopTyped
  BY DEF TypeOK
<1> USE <1>1 DEF LoopTyped, Same, Goto, loop
<1>2. CASE Start(c)
  BY <1>2 DEF Start
<1>3. CASE Take(c)
  BY <1>3 DEF Take
<1>4. CASE Finish(c)
  BY <1>4 DEF Finish
<1>5. CASE GateMiss(c)
  BY <1>5 DEF GateMiss
<1>6. CASE GateCached(c)
  BY <1>6 DEF GateCached, Decide
<1>7. CASE GateFetched(c)
  BY <1>7 DEF GateFetched, Decide
<1>8. CASE Consider(c)
  BY <1>8 DEF Consider
<1>9. CASE NoMoreLinks(c)
  BY <1>9 DEF NoMoreLinks
<1>10. CASE Pace(c)
  BY <1>10 DEF Pace
<1>11. CASE Send(c)
  BY <1>11 DEF Send
<1>12. CASE Raised(c)
  BY <1>12 DEF Raised
<1>13. CASE Late(c)
  BY <1>13 DEF Late
<1>14. CASE Follow(c)
  BY <1>14 DEF Follow, Answered
<1>15. CASE Record(c)
  BY <1>15 DEF Record, Answered
<1> QED BY <1>2, <1>3, <1>4, <1>5, <1>6, <1>7, <1>8, <1>9, <1>10, <1>11,
           <1>12, <1>13, <1>14, <1>15 DEF Step

LEMMA SameKeeps ==
  ASSUME NEW d \in Crawl, Same(d)
  PROVE  /\ CallInv(d) => CallInv(d)'
         /\ QueueInv(d) => QueueInv(d)'
         /\ WalkInv(d) => WalkInv(d)'
         /\ PageInv(d) => PageInv(d)'
         /\ WithinBounds(d) => WithinBounds(d)'
<1>1. CallInv(d) => CallInv(d)'
  BY DEF Same, CallInv, Attempting, Walking, At, Running, Requested, HasRoom
<1>2. QueueInv(d) => QueueInv(d)'
  BY DEF Same, QueueInv
<1>3. WalkInv(d) => WalkInv(d)'
  BY DEF Same, WalkInv, Walking, Requested
<1>4. Behind(d)' = Behind(d)
  BY DEF Same, Behind, Attempting
<1>5. PageInv(d) => PageInv(d)'
  <2>1. \A k, i : PageAt(d, k, i)' <=> PageAt(d, k, i)
    BY DEF Same, PageAt
  <2>2. pages'[d] = pages[d]
    BY DEF Same
  <2> QED BY <1>4, <2>1, <2>2 DEF PageInv
<1>6. WithinBounds(d) => WithinBounds(d)'
  BY DEF Same, WithinBounds, Running
<1> QED BY <1>1, <1>2, <1>3, <1>5, <1>6

(* What a step does to its own crawl.                                      *)
Kept(c) ==
  /\ limit'[c] = limit[c] /\ found'[c] = found[c]
  /\ taken'[c] = taken[c] /\ pages'[c] = pages[c]
From(c, here, there) == pc[c] = here /\ pc'[c] = there

StartEffect(c) ==
  /\ pc[c] = "idle" /\ taken'[c] = taken[c] /\ pages'[c] = pages[c]
  /\ \/ pc'[c] = "rejected" /\ found'[c] = found[c]
     \/ pc'[c] = "loop" /\ \E u \in Url : found'[c] = <<u>>
TakeEffect(c) ==
  /\ From(c, "loop", "gate") /\ HasRoom(c) /\ taken'[c] = taken[c] + 1
  /\ limit'[c] = limit[c] /\ found'[c] = found[c] /\ pages'[c] = pages[c]
MoveEffect(c) ==
  /\ Kept(c) /\ walk'[c] = walk[c]
  /\ \/ From(c, "loop", "done") \/ From(c, "links", "loop")
     \/ From(c, "gate", "robots")
     \/ pc[c] \in {"gate", "robots", "fetch"} /\ pc'[c] = "loop"
     \/ From(c, "pace", "sleep") \/ From(c, "sleep", "fetch")
AllowEffect(c) ==
  /\ Kept(c) /\ pc[c] \in {"gate", "robots"} /\ pc'[c] = "pace"
  /\ Requested(c) \in Permitted /\ walk'[c] = <<Requested(c)>>
ConsiderEffect(c) ==
  /\ From(c, "links", "links") /\ taken'[c] = taken[c]
  /\ limit'[c] = limit[c] /\ pages'[c] = pages[c]
  /\ \/ found'[c] = found[c]
     \/ \E u \in Url : /\ ~Queued(c, u) /\ InDomain(c, u)
                       /\ found'[c] = Append(found[c], u)
FollowEffect(c) ==
  /\ Kept(c) /\ From(c, "fetch", "pace") /\ Redirect[Current(c)] \in Url
  /\ walk'[c] = Append(walk[c], Redirect[Current(c)])
RecordEffect(c) ==
  /\ From(c, "fetch", "links")
  /\ Redirect[Current(c)] = None \/ AtCap(c)
  /\ limit'[c] = limit[c] /\ found'[c] = found[c] /\ taken'[c] = taken[c]
  /\ pages'[c] = Append(pages[c], PageBuilt(c))

LEMMA StepEffect ==
  ASSUME IInv, NEW c \in Crawl, Start(c) \/ Step(c)
  PROVE  \/ StartEffect(c) \/ TakeEffect(c) \/ MoveEffect(c)
         \/ AllowEffect(c) \/ ConsiderEffect(c) \/ FollowEffect(c)
         \/ RecordEffect(c)
<1>1. LoopTyped
  BY DEF IInv, TypeOK
<1>2. CASE Start(c)
  <2>1. StartEffect(c)
    BY <1>1, <1>2, Started DEF StartEffect, LoopTyped, At
  <2> QED BY <2>1
<1>3. CASE Take(c)
  BY <1>1, <1>3 DEF Take, TakeEffect, From, LoopTyped, At, Goto
<1> USE DEF MoveEffect, Kept, From, At, Goto, loop
<1>4. CASE Finish(c)
  BY <1>1, <1>4 DEF Finish, LoopTyped
<1>5. CASE GateMiss(c)
  BY <1>1, <1>5 DEF GateMiss, LoopTyped
<1>6. CASE GateCached(c) \/ GateFetched(c)
  <2>1. /\ pc[c] \in {"gate", "robots"}
        /\ UNCHANGED <<limit, found, taken, pages>>
        /\ \/ /\ Requested(c) \in Permitted
              /\ walk' = [walk EXCEPT ![c] = <<Requested(c)>>]
              /\ pc' = [pc EXCEPT ![c] = "pace"]
           \/ /\ pc' = [pc EXCEPT ![c] = "loop"]
              /\ UNCHANGED walk
    BY <1>6 DEF GateCached, GateFetched, Decide, Allows
  <2> QED BY <1>1, <2>1 DEF AllowEffect, LoopTyped
<1>7. CASE Consider(c)
  <2>1. Head(todo[c]) \in Url
    BY <1>1, <1>7 DEF LoopTyped, Consider
  <2>2. /\ UNCHANGED <<pc, limit, taken, pages>> /\ pc[c] = "links"
        /\ \/ found'[c] = found[c]
           \/ /\ ~Queued(c, Head(todo[c])) /\ InDomain(c, Head(todo[c]))
              /\ found'[c] = Append(found[c], Head(todo[c]))
    BY <1>1, <1>7 DEF Consider, LoopTyped
  <2> QED BY <2>1, <2>2 DEF ConsiderEffect
<1>8. CASE NoMoreLinks(c)
  BY <1>1, <1>8 DEF NoMoreLinks, LoopTyped
<1>9. CASE Pace(c)
  BY <1>1, <1>9 DEF Pace, LoopTyped
<1>10. CASE Send(c)
  BY <1>1, <1>10 DEF Send, LoopTyped
<1>11. CASE Raised(c)
  BY <1>1, <1>11 DEF Raised, LoopTyped
<1>12. CASE Late(c)
  BY <1>1, <1>12 DEF Late, LoopTyped
<1>13. CASE Follow(c)
  <2>1. Redirect[Current(c)] \in Url
    BY <1>13, CurrentIsUrl, WebAssumption DEF Follow, Walking
  <2> QED BY <1>1, <1>13, <2>1 DEF Follow, Answered, FollowEffect, LoopTyped
<1>14. CASE Record(c)
  BY <1>1, <1>14, Recorded DEF RecordEffect, LoopTyped
<1> QED BY <1>2, <1>3, <1>4, <1>5, <1>6, <1>7, <1>8, <1>9, <1>10, <1>11,
           <1>12, <1>13, <1>14 DEF Step

-----------------------------------------------------------------------------
(* One crawl, each part of the invariant.                                  *)

LEMMA CallStep ==
  ASSUME IInv, NEW c \in Crawl, Start(c) \/ Step(c)
  PROVE  CallInv(c)'
<1>1. LoopTyped /\ WithinBounds(c) /\ CallInv(c)
  BY DEF IInv, TypeOK
<1>2. pc'[c] # "idle"
  BY StepEffect DEF StartEffect, TakeEffect, MoveEffect, AllowEffect,
     ConsiderEffect, FollowEffect, RecordEffect, From
<1> USE DEF CallInv, Attempting, Walking, At, Running, Requested, HasRoom,
            Kept, From
<1>3. CASE StartEffect(c)
  <2>0. ASSUME NEW u \in Url, found'[c] = <<u>> PROVE found'[c] # <<>>
    <3>1. <<u>> # <<>>
      OBVIOUS
    <3> QED BY <2>0, <3>1
  <2>1. \/ pc'[c] = "rejected"
        \/ pc'[c] = "loop" /\ \E u \in Url : found'[c] = <<u>>
    BY <1>3 DEF StartEffect
  <2>2. ~Attempting(c)' /\ ~Walking(c)' /\ ~At(c, "idle")'
    BY <2>1
  <2>3. Running(c)' => found'[c] # <<>>
    BY <2>0, <2>1
  <2> HIDE DEF Attempting, Walking, At, Running
  <2> QED BY <2>2, <2>3
<1>4. CASE TakeEffect(c)
  BY <1>1, <1>4 DEF TakeEffect, LoopTyped
<1>5. CASE MoveEffect(c)
  BY <1>1, <1>5 DEF MoveEffect
<1>6. CASE AllowEffect(c)
  BY <1>1, <1>6 DEF AllowEffect
<1>7. CASE ConsiderEffect(c)
  BY <1>1, <1>7 DEF ConsiderEffect, LoopTyped
<1>8. CASE FollowEffect(c)
  BY <1>1, <1>8 DEF FollowEffect
<1>9. CASE RecordEffect(c)
  BY <1>1, <1>9 DEF RecordEffect
<1> QED BY <1>3, <1>4, <1>5, <1>6, <1>7, <1>8, <1>9, StepEffect

LEMMA QueueStep ==
  ASSUME IInv, NEW c \in Crawl, Start(c) \/ Step(c)
  PROVE  QueueInv(c)'
<1>1. LoopTyped /\ CallInv(c) /\ QueueInv(c)
  BY DEF IInv, TypeOK
<1>2. CASE found'[c] = found[c]
  BY <1>1, <1>2 DEF QueueInv
<1>3. CASE \E u \in Url : found'[c] = <<u>>
  BY <1>3 DEF QueueInv, SameDomain
<1>4. ASSUME NEW u \in Url, pc[c] = "links", ~Queued(c, u), InDomain(c, u),
             found'[c] = Append(found[c], u)
      PROVE  QueueInv(c)'
  <2>1. found[c] \in Seq(Url) /\ found[c] # <<>>
    BY <1>1, <1>4 DEF LoopTyped, CallInv, Running
  <2>2. Len(found'[c]) = Len(found[c]) + 1 /\ Len(found[c]) \in Nat
    BY <1>4, <2>1
  <2>3. \A i \in 1..Len(found[c]) :
          found'[c][i] = found[c][i] /\ found[c][i] # u
    BY <1>4, <2>1 DEF Queued
  <2>4. found'[c][Len(found[c]) + 1] = u /\ found'[c][1] = found[c][1]
    BY <1>4, <2>1
  <2>5. \A i \in 1..Len(found'[c]) : SameDomain(found'[c][1], found'[c][i])
    BY <1>1, <1>4, <2>2, <2>3, <2>4 DEF QueueInv, InDomain
  <2>6. \A i, j \in 1..Len(found'[c]) : found'[c][i] = found'[c][j] => i = j
    BY <1>1, <2>2, <2>3, <2>4 DEF QueueInv
  <2> QED BY <2>5, <2>6 DEF QueueInv
<1>5. \/ found'[c] = found[c]
      \/ \E u \in Url : found'[c] = <<u>>
      \/ pc[c] = "links" /\ \E u \in Url :
            /\ ~Queued(c, u) /\ InDomain(c, u)
            /\ found'[c] = Append(found[c], u)
  BY StepEffect DEF StartEffect, TakeEffect, MoveEffect, AllowEffect,
     ConsiderEffect, FollowEffect, RecordEffect, From, Kept
<1> QED BY <1>2, <1>3, <1>4, <1>5

LEMMA WalkStep ==
  ASSUME IInv, NEW c \in Crawl, Start(c) \/ Step(c)
  PROVE  WalkInv(c)'
<1>1. LoopTyped /\ CallInv(c) /\ WalkInv(c)
  BY DEF IInv, TypeOK
<1>2. CASE StartEffect(c) \/ TakeEffect(c) \/ ConsiderEffect(c)
           \/ RecordEffect(c)
  BY <1>2 DEF StartEffect, TakeEffect, ConsiderEffect, RecordEffect, From,
     WalkInv, Walking
<1>3. CASE MoveEffect(c)
  BY <1>1, <1>3 DEF MoveEffect, Kept, From, WalkInv, Walking, Requested
<1>4. CASE AllowEffect(c)
  <2>1. walk'[c] = <<Requested(c)>> /\ Requested(c)' = Requested(c)
    BY <1>4 DEF AllowEffect, Kept, Requested
  <2> QED BY <2>1 DEF WalkInv, IsWalk
<1>5. CASE FollowEffect(c)
  <2> DEFINE next == Redirect[Current(c)]
  <2>1. Walking(c) /\ walk[c] # <<>> /\ walk[c] \in Seq(Url) /\ next \in Url
    BY <1>1, <1>5 DEF FollowEffect, From, Walking, WalkInv, LoopTyped
  <2>2. walk'[c] = Append(walk[c], next) /\ Requested(c)' = Requested(c)
    BY <1>5 DEF FollowEffect, Kept, Requested
  <2>3. next = Redirect[walk[c][Len(walk[c])]]
    BY DEF Current
  <2> HIDE DEF next
  <2>4. /\ Len(walk'[c]) = Len(walk[c]) + 1 /\ Len(walk[c]) \in Nat \ {0}
        /\ walk'[c][Len(walk[c]) + 1] = next
        /\ \A i \in 1..Len(walk[c]) : walk'[c][i] = walk[c][i]
    BY <2>1, <2>2
  <2>5. IsWalk(walk[c]) /\ walk[c][1] = Requested(c)
    BY <1>1, <2>1 DEF WalkInv
  <2>6. IsWalk(walk'[c])
    BY <2>3, <2>4, <2>5, SMTT(30) DEF IsWalk
  <2>7. walk'[c] # <<>> /\ walk'[c][1] = Requested(c)'
    BY <2>2, <2>4, <2>5
  <2> QED BY <2>6, <2>7 DEF WalkInv
<1> QED BY <1>2, <1>3, <1>4, <1>5, StepEffect

LEMMA PageStep ==
  ASSUME IInv, NEW c \in Crawl, Start(c) \/ Step(c)
  PROVE  PageInv(c)'
<1>1. /\ LoopTyped /\ WithinBounds(c) /\ CallInv(c) /\ WalkInv(c)
      /\ PageInv(c)
  BY DEF IInv, TypeOK
<1>2. Behind(c) \in Int /\ pages[c] \in Seq(Page)
  BY <1>1 DEF LoopTyped, Behind
(* Pages that stay do so behind a queue that grows and a count that does.  *)
<1>3. ASSUME pages'[c] = pages[c], Behind(c)' \in Int, Behind(c)' >= Behind(c),
             \A i \in 1..Behind(c) : found'[c][i] = found[c][i]
      PROVE  PageInv(c)'
  <2>1. 1..Behind(c) \subseteq 1..Behind(c)'
    BY <1>2, <1>3
  <2>2. \A k : \A i \in 1..Behind(c) : PageAt(c, k, i) => PageAt(c, k, i)'
    BY <1>3 DEF PageAt
  <2> QED BY <1>1, <1>3, <2>1, <2>2 DEF PageInv
<1>4. CASE StartEffect(c)
  <2>1. pages'[c] = <<>>
    BY <1>1, <1>4 DEF StartEffect, CallInv, At
  <2> QED BY <2>1 DEF PageInv
<1>5. CASE TakeEffect(c) \/ MoveEffect(c) \/ AllowEffect(c) \/ FollowEffect(c)
  <2>1. found'[c] = found[c] /\ pages'[c] = pages[c]
    BY <1>5 DEF TakeEffect, MoveEffect, AllowEffect, FollowEffect, Kept
  <2>2. Behind(c)' \in Int /\ Behind(c)' >= Behind(c)
    BY <1>1, <1>5 DEF TakeEffect, MoveEffect, AllowEffect, FollowEffect, Kept,
       From, Behind, Attempting, LoopTyped
  <2> QED BY <1>3, <2>1, <2>2
<1>6. CASE ConsiderEffect(c)
  <2>1. pages'[c] = pages[c] /\ Behind(c)' = Behind(c)
    BY <1>6 DEF ConsiderEffect, From, Behind, Attempting
  <2>2. Behind(c) <= Len(found[c])
    BY <1>1, <1>6 DEF Behind, LoopTyped, WithinBounds
  <2>3. \A i \in 1..Behind(c) : found'[c][i] = found[c][i]
    BY <1>1, <1>2, <1>6, <2>2 DEF ConsiderEffect, LoopTyped
  <2> QED BY <1>2, <1>3, <2>1, <2>3
<1>7. CASE RecordEffect(c)
  <2> DEFINE page == PageBuilt(c)
             n == Len(pages[c])
  <2>1. pc[c] = "fetch" /\ Attempting(c) /\ Walking(c)
    BY <1>7 DEF RecordEffect, From, Attempting, Walking
  <2>2. page \in Page
    BY <2>1, PageBuiltIsPage DEF At
  <2>3. page.url = found[c][taken[c]] /\ page.url \in Permitted
    BY <1>1, <2>1 DEF PageBuilt, Requested, CallInv
  <2>4. ChainOK(page)
    <3>1. page.chain = walk[c] /\ page.url = Requested(c)
      BY DEF PageBuilt
    <3>2. Final(page) = Current(c)
      BY <3>1 DEF Final, Current
    <3>3. page.truncated <=> Redirect[Final(page)] # None
      BY <3>2 DEF PageBuilt
    <3>4. Len(walk[c]) \in 1..Cap + 1
      BY <1>1, <2>1, BoundAssumption DEF LoopTyped, WithinBounds, WalkInv
    <3>5. page.truncated => Len(walk[c]) = Cap + 1
      BY <1>7, <3>2, <3>3, <3>4, BoundAssumption DEF RecordEffect, AtCap
    <3>6. IsWalk(page.chain) /\ page.chain[1] = page.url
      BY <1>1, <2>1, <3>1 DEF WalkInv
    <3> HIDE DEF page
    <3> QED BY <3>1, <3>3, <3>4, <3>5, <3>6 DEF ChainOK
  <2>5. Behind(c) = taken[c] - 1 /\ Behind(c)' = taken[c]
    BY <1>7, <2>1 DEF RecordEffect, From, Behind, Attempting
  <2>6. taken[c] \in Nat /\ taken[c] >= 1
    BY <1>1, <2>1 DEF LoopTyped, CallInv
  <2>7. found'[c] = found[c] /\ pages'[c] = Append(pages[c], page)
    BY <1>7 DEF RecordEffect
  <2> HIDE DEF page
  <2>8. /\ Len(pages'[c]) = n + 1 /\ n \in Nat /\ pages'[c][n + 1] = page
        /\ \A k \in 1..n : pages'[c][k] = pages[c][k]
    BY <1>2, <2>2, <2>7
  <2> HIDE DEF n
  <2>9. \A k \in 1..n : \A i : PageAt(c, k, i) => PageAt(c, k, i)'
    BY <2>7, <2>8 DEF PageAt
  <2>10. \A k, i : k = n + 1 /\ i = taken[c] => PageAt(c, k, i)'
    BY <2>3, <2>7, <2>8 DEF PageAt
  <2>11. 1..Behind(c) \subseteq 1..Behind(c)' /\ taken[c] \in 1..Behind(c)'
    BY <2>5, <2>6
  <2>12. \A k \in 1..n + 1 : /\ pages'[c][k].url \in Permitted
                            /\ ChainOK(pages'[c][k])
                            /\ \E i \in 1..Behind(c)' : PageAt(c, k, i)'
    <3> SUFFICES ASSUME NEW k \in 1..n + 1
                 PROVE  /\ pages'[c][k].url \in Permitted
                        /\ ChainOK(pages'[c][k])
                        /\ \E i \in 1..Behind(c)' : PageAt(c, k, i)'
      OBVIOUS
    <3>1. CASE k \in 1..n
      BY <1>1, <2>8, <2>9, <2>11, <3>1 DEF PageInv, n
    <3>2. CASE k = n + 1
      BY <2>3, <2>4, <2>8, <2>10, <2>11, <3>2
    <3> QED BY <2>8, <3>1, <3>2
  <2>13. ASSUME NEW k \in 1..n + 1, NEW l \in 1..n + 1, k < l
         PROVE  \E i, j \in 1..Behind(c)' :
                   i < j /\ PageAt(c, k, i)' /\ PageAt(c, l, j)'
    <3>1. k \in 1..n
      BY <2>8, <2>13
    <3>2. CASE l \in 1..n
      BY <1>1, <2>9, <2>11, <2>13, <3>1, <3>2 DEF PageInv, n
    <3>3. CASE l = n + 1
      <4>1. PICK i \in 1..Behind(c) : PageAt(c, k, i)
        BY <1>1, <3>1 DEF PageInv, n
      <4>2. i < taken[c] /\ PageAt(c, k, i)'
        BY <2>5, <2>6, <2>9, <3>1, <4>1
      <4> QED BY <2>10, <2>11, <3>3, <4>2
    <3> QED BY <2>8, <3>2, <3>3
  <2> QED BY <2>8, <2>12, <2>13 DEF PageInv
<1> QED BY <1>4, <1>5, <1>6, <1>7, StepEffect

-----------------------------------------------------------------------------
LEMMA InitInvariant == Init => IInv
<1> SUFFICES ASSUME Init PROVE IInv
  OBVIOUS
<1>1. TypeOK
  BY CrawlTypeInit
<1>2. ASSUME NEW c \in Crawl
      PROVE  CallInv(c) /\ QueueInv(c) /\ WalkInv(c) /\ PageInv(c)
  <2>1. pc[c] = "idle" /\ found[c] = <<>> /\ taken[c] = 0 /\ pages[c] = <<>>
    BY DEF Init
  <2> QED BY <2>1 DEF CallInv, QueueInv, WalkInv, PageInv, At, Running,
             Attempting, Walking
<1> QED BY <1>1, <1>2 DEF IInv

LEMMA TickInvariant == IInv /\ Tick => IInv'
<1> SUFFICES ASSUME IInv, Tick PROVE IInv'
  OBVIOUS
<1>1. UNCHANGED <<pc, limit, found, taken, pages, walk, todo>>
  BY DEF Tick, loop
<1>2. LoopTyped'
  BY <1>1 DEF IInv, TypeOK, LoopTyped
<1>3. PaceTyped'
  <2>1. PaceTyped /\ Far \in Nat
    BY BoundAssumption DEF IInv, TypeOK, Far
  <2>2. delay' \in [Crawl -> 0..Far]
    BY <2>1 DEF Tick, PaceTyped
  <2>3. since' \in [Host -> 0..Far \cup {None}]
    BY <2>1 DEF Tick, PaceTyped
  <2> QED BY <2>1, <2>2, <2>3 DEF Tick, PaceTyped
<1>4. ASSUME NEW d \in Crawl
      PROVE  (/\ CallInv(d) /\ QueueInv(d) /\ WalkInv(d) /\ PageInv(d)
              /\ WithinBounds(d))'
  BY <1>1, SameKeeps DEF Same, IInv, TypeOK
<1> QED BY <1>2, <1>3, <1>4 DEF IInv, TypeOK

LEMMA StutterInvariant == IInv /\ UNCHANGED vars => IInv'
<1> SUFFICES ASSUME IInv, UNCHANGED vars PROVE IInv'
  OBVIOUS
<1>1. /\ UNCHANGED <<pc, limit, found, taken, pages, walk, todo>>
      /\ UNCHANGED <<robots, delay, since, degraded>>
  BY DEF vars, loop, pace
<1>2. LoopTyped' /\ PaceTyped'
  BY <1>1 DEF IInv, TypeOK, LoopTyped, PaceTyped
<1>3. ASSUME NEW d \in Crawl
      PROVE  (/\ CallInv(d) /\ QueueInv(d) /\ WalkInv(d) /\ PageInv(d)
              /\ WithinBounds(d))'
  BY <1>1, SameKeeps DEF Same, IInv, TypeOK
<1> QED BY <1>2, <1>3 DEF IInv, TypeOK

LEMMA CallInvariant ==
  ASSUME IInv, NEW c \in Crawl, Start(c) \/ Step(c)
  PROVE  IInv'
<1>1. LoopTyped' /\ PaceTyped'
  BY LoopTypedStep, PaceTypedStep
<1>2. ASSUME NEW d \in Crawl
      PROVE  (/\ CallInv(d) /\ QueueInv(d) /\ WalkInv(d) /\ PageInv(d)
              /\ WithinBounds(d))'
  <2>1. CASE d = c
    BY <2>1, CallStep, QueueStep, WalkStep, PageStep, BoundsStep
  <2>2. CASE d # c
    BY <2>2, OthersSame, SameKeeps DEF IInv, TypeOK
  <2> QED BY <2>1, <2>2
<1> QED BY <1>1, <1>2 DEF IInv, TypeOK

(* The inductive invariant holds of every crawl.                           *)
THEOREM CrawlInvariance == Spec => []IInv
<1>1. Init => IInv
  BY InitInvariant
<1>2. IInv /\ [Next]_vars => IInv'
  BY TickInvariant, StutterInvariant, CallInvariant DEF Next
<1> QED BY <1>1, <1>2, PTL DEF Spec

(* Types and bounds (crawl_site, _fetch_following_redirects): no call      *)
(* returns more pages than asked for, no walk exceeds the cap, whatever    *)
(* the web, the cap and the number of calls that overlap.                  *)
THEOREM CrawlTyping == Spec => []TypeOK
<1>1. IInv => TypeOK
  BY DEF IInv
<1> QED BY <1>1, CrawlInvariance, PTL

(* Every page was asked for at a permitted URL of the start's domain.      *)
THEOREM CrawlPermitted == Spec => []OnlyPermitted
<1>1. IInv => OnlyPermitted
  <2> SUFFICES ASSUME IInv, NEW c \in Crawl, NEW k \in 1..Len(pages[c])
               PROVE  /\ pages[c][k].url \in Permitted
                      /\ SameDomain(found[c][1], pages[c][k].url)
    BY DEF OnlyPermitted
  <2>1. /\ QueueInv(c) /\ PageInv(c) /\ WithinBounds(c)
        /\ taken[c] \in Nat /\ Len(found[c]) \in Nat
    BY DEF IInv, TypeOK, LoopTyped
  <2>2. PICK i \in 1..Behind(c) : PageAt(c, k, i)
    BY <2>1 DEF PageInv
  <2>3. i \in 1..Len(found[c])
    BY <2>1, <2>2 DEF Behind, WithinBounds
  <2> QED BY <2>1, <2>2, <2>3 DEF PageInv, QueueInv, PageAt
<1> QED BY <1>1, CrawlInvariance, PTL

(* No URL is retrieved twice, and pages come in the order of the queue.    *)
THEOREM CrawlOnce == Spec => []EachUrlOnce
<1>1. IInv => EachUrlOnce
  <2> SUFFICES ASSUME IInv, NEW c \in Crawl
               PROVE  /\ \A i, j \in 1..Len(found[c]) :
                            found[c][i] = found[c][j] => i = j
                      /\ \A k, l \in 1..Len(pages[c]) : k < l =>
                           \E i, j \in 1..taken[c] :
                             i < j /\ PageAt(c, k, i) /\ PageAt(c, l, j)
    BY DEF EachUrlOnce
  <2>1. QueueInv(c) /\ PageInv(c) /\ taken[c] \in Nat
    BY DEF IInv, TypeOK, LoopTyped
  <2>2. 1..Behind(c) \subseteq 1..taken[c]
    BY <2>1 DEF Behind
  <2> QED BY <2>1, <2>2 DEF QueueInv, PageInv
<1> QED BY <1>1, CrawlInvariance, PTL

(* The chain a page carries is the walk along the redirects from its URL,  *)
(* and it says truthfully whether the cap cut it.                          *)
THEOREM CrawlChains == Spec => []ChainsFaithful
<1>1. IInv => ChainsFaithful
  BY DEF IInv, PageInv, ChainOK, IsWalk, ChainsFaithful
<1> QED BY <1>1, CrawlInvariance, PTL
-----------------------------------------------------------------------------
(* Nothing is left out: the links of the pages are queued or still to be   *)
(* considered.                                                             *)
Linked(c, u) ==
  \E k \in 1..Len(pages[c]) : \E i \in 1..Len(Link[Final(pages[c][k])]) :
    Link[Final(pages[c][k])][i] = u
Pending(c, u) == \E i \in 1..Len(todo[c]) : todo[c][i] = u

SeenInv(c) ==
  /\ \A i \in 1..Len(found[c]) : i = 1 \/ Linked(c, found[c][i])
  /\ \A u \in Url : Linked(c, u) /\ SameDomain(found[c][1], u) =>
       Queued(c, u) \/ (At(c, "links") /\ Pending(c, u))
  /\ At(c, "links") => \A u \in Url : Pending(c, u) => Linked(c, u)
  /\ At(c, "done") =>
       found[c] # <<>> /\ (taken[c] = Len(found[c]) \/ ~HasRoom(c))

(* A step that neither queues, records nor ends.                           *)
Quiet(c) ==
  /\ found'[c] = found[c] /\ pages'[c] = pages[c]
  /\ pc[c] # "links" /\ pc'[c] \notin {"links", "done"}

LEMMA StepIsQuiet ==
  ASSUME LoopTyped, NEW c \in Crawl,
         \/ Take(c) \/ GateCached(c) \/ GateMiss(c) \/ GateFetched(c)
         \/ Pace(c) \/ Send(c) \/ Raised(c) \/ Late(c) \/ Follow(c)
  PROVE  Quiet(c)
<1> USE DEF Quiet, LoopTyped, At, Goto, loop
<1>1. CASE Take(c)
  BY <1>1 DEF Take
<1>2. CASE GateCached(c)
  BY <1>2 DEF GateCached, Decide
<1>3. CASE GateMiss(c)
  BY <1>3 DEF GateMiss
<1>4. CASE GateFetched(c)
  BY <1>4 DEF GateFetched, Decide
<1>5. CASE Pace(c)
  BY <1>5 DEF Pace
<1>6. CASE Send(c)
  BY <1>6 DEF Send
<1>7. CASE Raised(c)
  BY <1>7 DEF Raised
<1>8. CASE Late(c)
  BY <1>8 DEF Late
<1>9. CASE Follow(c)
  BY <1>9 DEF Follow, Answered
<1> QED BY <1>1, <1>2, <1>3, <1>4, <1>5, <1>6, <1>7, <1>8, <1>9

LEMMA OthersTodo ==
  ASSUME LoopTyped, NEW c \in Crawl, Start(c) \/ Step(c),
         NEW d \in Crawl, d # c
  PROVE  todo'[d] = todo[d]
  BY DEF Start, Step, Take, Finish, GateCached, GateMiss, GateFetched,
         Consider, NoMoreLinks, Pace, Send, Raised, Late, Follow, Record,
         Answered, LoopTyped

LEMMA SeenKept ==
  ASSUME NEW d \in Crawl, Same(d), todo'[d] = todo[d], SeenInv(d)
  PROVE  SeenInv(d)'
<1>1. \A u : Linked(d, u)' <=> Linked(d, u)
  BY DEF Same, Linked
<1>2. \A u : /\ Pending(d, u)' <=> Pending(d, u)
             /\ Queued(d, u)' <=> Queued(d, u)
  BY DEF Same, Pending, Queued
<1> QED BY <1>1, <1>2 DEF Same, SeenInv, At, HasRoom

LEMMA SeenQuiet ==
  ASSUME NEW c \in Crawl, Quiet(c), SeenInv(c)
  PROVE  SeenInv(c)'
<1>1. \A u : /\ Linked(c, u)' <=> Linked(c, u)
             /\ Queued(c, u)' <=> Queued(c, u)
  BY DEF Quiet, Linked, Queued
<1> QED BY <1>1 DEF Quiet, SeenInv, At

LEMMA SeenStart ==
  ASSUME IInv, NEW c \in Crawl, Start(c)
  PROVE  SeenInv(c)'
<1>1. pages'[c] = <<>> /\ pc'[c] \in {"loop", "rejected"}
  BY Started, StepEffect DEF IInv, CallInv, LoopTyped, TypeOK, At
<1>2. \A u : ~Linked(c, u)'
  BY <1>1 DEF Linked
<1>3. found'[c] = <<>> \/ \E u \in Url : found'[c] = <<u>>
  BY Started DEF IInv, TypeOK, LoopTyped, CallInv
<1>4. \A i \in 1..Len(found'[c]) : i = 1
  <2>1. CASE found'[c] = <<>>
    BY <2>1
  <2>2. ASSUME NEW u \in Url, found'[c] = <<u>>
        PROVE  \A i \in 1..Len(found'[c]) : i = 1
    <3>1. Len(<<u>>) = 1
      OBVIOUS
    <3> QED BY <2>2, <3>1
  <2> QED BY <1>3, <2>1, <2>2
<1> QED BY <1>1, <1>2, <1>4 DEF SeenInv, At

LEMMA SeenConsider ==
  ASSUME IInv, NEW c \in Crawl, Consider(c), SeenInv(c)
  PROVE  SeenInv(c)'
<1> DEFINE v == Head(todo[c])
<1>1. /\ pc'[c] = "links" /\ pc[c] = "links" /\ todo[c] # <<>>
      /\ pages'[c] = pages[c] /\ todo'[c] = Tail(todo[c])
      /\ todo[c] \in Seq(Url) /\ found[c] \in Seq(Url)
      /\ found'[c] = IF ~Queued(c, v) /\ InDomain(c, v)
                       THEN Append(found[c], v) ELSE found[c]
      /\ found[c] # <<>>
  BY DEF Consider, IInv, TypeOK, LoopTyped, At, CallInv, Running
<1>2. \A u : Linked(c, u)' <=> Linked(c, u)
  BY <1>1 DEF Linked
<1>3. v \in Url /\ Pending(c, v)
  BY <1>1 DEF Pending
<1>4. \A u : Pending(c, u) => u = v \/ Pending(c, u)'
  <2> SUFFICES ASSUME NEW u, NEW i \in 1..Len(todo[c]),
                      todo[c][i] = u, i # 1
               PROVE  Pending(c, u)'
    <3>1. todo[c][1] = v
      BY <1>1
    <3> QED BY <3>1 DEF Pending
  <2>1. i - 1 \in 1..Len(Tail(todo[c]))
        /\ Tail(todo[c])[i - 1] = todo[c][i]
    BY <1>1
  <2> QED BY <1>1, <2>1 DEF Pending
<1>5. \A u : Pending(c, u)' => Pending(c, u)
  <2> SUFFICES ASSUME NEW u, NEW i \in 1..Len(Tail(todo[c])),
                      Tail(todo[c])[i] = u
               PROVE  Pending(c, u)
    BY <1>1 DEF Pending
  <2>1. i + 1 \in 1..Len(todo[c]) /\ Tail(todo[c])[i] = todo[c][i + 1]
    BY <1>1
  <2> QED BY <2>1 DEF Pending
<1>6. CASE ~Queued(c, v) /\ InDomain(c, v)
  <2>1. /\ Len(found'[c]) = Len(found[c]) + 1
        /\ found'[c][Len(found[c]) + 1] = v
        /\ \A i \in 1..Len(found[c]) : found'[c][i] = found[c][i]
        /\ found'[c][1] = found[c][1] /\ Len(found[c]) \in Nat
    BY <1>1, <1>3, <1>6
  <2>2. \A u : Queued(c, u) => Queued(c, u)'
    BY <2>1 DEF Queued
  <2>3. \A u : u = v => Queued(c, u)'
    <3>1. Len(found[c]) + 1 \in 1..Len(found'[c])
      BY <2>1
    <3> HIDE DEF v
    <3> QED BY <2>1, <3>1 DEF Queued
  <2>4. Linked(c, v)
    BY <1>1, <1>3 DEF SeenInv, At
  <2>5. \A i \in 1..Len(found'[c]) :
          i \in 1..Len(found[c]) \/ i = Len(found[c]) + 1
    BY <2>1
  <2>6. \A i \in 1..Len(found'[c]) : i = 1 \/ Linked(c, found'[c][i])
    BY <2>1, <2>4, <2>5 DEF SeenInv
  <2> HIDE DEF v
  <2> QED BY <1>1, <1>2, <1>4, <1>5, <2>1, <2>2, <2>3, <2>6
          DEF SeenInv, At
<1>7. CASE ~(~Queued(c, v) /\ InDomain(c, v))
  <2>1. found'[c] = found[c]
    BY <1>1, <1>7
  <2>2. \A u : Queued(c, u)' <=> Queued(c, u)
    BY <2>1 DEF Queued
  <2> HIDE DEF v
  <2> QED BY <1>1, <1>2, <1>4, <1>5, <1>7, <2>1, <2>2
          DEF SeenInv, At, InDomain
<1> QED BY <1>6, <1>7

LEMMA SeenRecord ==
  ASSUME IInv, NEW c \in Crawl, Record(c), SeenInv(c)
  PROVE  SeenInv(c)'
<1> DEFINE p == PageBuilt(c)
           n == Len(pages[c])
<1>1. /\ pc[c] = "fetch" /\ pc'[c] = "links"
      /\ found'[c] = found[c]
      /\ pages'[c] = Append(pages[c], p) /\ todo'[c] = LinksOf(p)
  BY Recorded DEF IInv, TypeOK, LoopTyped, At
<1>2. p \in Page /\ pages[c] \in Seq(Page)
  BY PageBuiltIsPage, Recorded DEF IInv, TypeOK, LoopTyped
<1> HIDE DEF p
<1>3. /\ Len(pages'[c]) = n + 1 /\ n \in Nat
      /\ pages'[c][n + 1] = p
      /\ \A k \in 1..n : pages'[c][k] = pages[c][k]
  BY <1>1, <1>2
<1>4. \A u : Pending(c, u)' <=>
        \E i \in 1..Len(Link[Final(p)]) : Link[Final(p)][i] = u
  BY <1>1 DEF Pending, LinksOf
<1>5. \A u : Linked(c, u)' <=> Linked(c, u) \/ Pending(c, u)'
  <2>1. \A k \in 1..(n + 1) : k \in 1..n \/ k = n + 1
    BY <1>3
  <2>2. n + 1 \in 1..(n + 1) /\ \A k \in 1..n : k \in 1..(n + 1)
    BY <1>3
  <2>3. \A u : Linked(c, u) => Linked(c, u)'
    BY <1>3, <2>2 DEF Linked
  <2>4. \A u : Pending(c, u)' => Linked(c, u)'
    BY <1>3, <1>4, <2>2 DEF Linked
  <2>5. \A u : Linked(c, u)' => Linked(c, u) \/ Pending(c, u)'
    BY <1>3, <1>4, <2>1 DEF Linked
  <2> QED BY <2>3, <2>4, <2>5
<1>6. \A u : Queued(c, u)' <=> Queued(c, u)
  BY <1>1 DEF Queued
<1> QED BY <1>1, <1>5, <1>6 DEF SeenInv, At

LEMMA SeenStep ==
  ASSUME IInv, NEW c \in Crawl, Start(c) \/ Step(c), SeenInv(c)
  PROVE  SeenInv(c)'
<1>1. LoopTyped
  BY DEF IInv, TypeOK
<1>2. CASE Finish(c)
  <2>1. /\ Running(c) /\ pc'[c] = "done" /\ pc[c] = "loop"
        /\ UNCHANGED <<limit, found, taken, pages>>
        /\ taken[c] = Len(found[c]) \/ ~HasRoom(c)
    BY <1>1, <1>2 DEF Finish, At, Goto, Running, LoopTyped, loop
  <2>2. found[c] # <<>>
    BY <2>1 DEF IInv, CallInv
  <2>3. \A u : /\ Linked(c, u)' <=> Linked(c, u)
               /\ Queued(c, u)' <=> Queued(c, u)
    BY <2>1 DEF Linked, Queued
  <2> QED BY <2>1, <2>2, <2>3 DEF SeenInv, At, HasRoom
<1>3. CASE NoMoreLinks(c)
  <2>1. /\ pc[c] = "links" /\ pc'[c] = "loop" /\ todo[c] = <<>>
        /\ UNCHANGED <<found, pages>>
    BY <1>1, <1>3 DEF NoMoreLinks, At, Goto, LoopTyped, loop
  <2>2. \A u : ~Pending(c, u)
    BY <2>1 DEF Pending
  <2>3. \A u : /\ Linked(c, u)' <=> Linked(c, u)
               /\ Queued(c, u)' <=> Queued(c, u)
    BY <2>1 DEF Linked, Queued
  <2> QED BY <2>1, <2>2, <2>3 DEF SeenInv, At
<1> QED BY <1>1, <1>2, <1>3, SeenStart, SeenConsider, SeenRecord, SeenQuiet,
           StepIsQuiet DEF Step

(* A crawl with pages to spare has tried exactly the start URL and every   *)
(* link in its domain of every page it retrieved.                          *)
THEOREM CrawlExhausts == Spec => []Exhausted
<1> DEFINE AllSeen == \A c \in Crawl : SeenInv(c)
<1>1. Init => AllSeen
  <2> SUFFICES ASSUME Init, NEW c \in Crawl PROVE SeenInv(c)
    OBVIOUS
  <2>1. pc[c] = "idle" /\ found[c] = <<>> /\ pages[c] = <<>>
    BY DEF Init
  <2> QED BY <2>1 DEF SeenInv, Linked, At
<1>2. IInv /\ AllSeen /\ [Next]_vars => AllSeen'
  <2> SUFFICES ASSUME IInv, AllSeen, [Next]_vars, NEW d \in Crawl
               PROVE  SeenInv(d)'
    OBVIOUS
  <2>1. CASE Tick \/ UNCHANGED vars
    BY <2>1, SeenKept DEF Tick, vars, loop, Same
  <2>2. ASSUME NEW c \in Crawl, Start(c) \/ Step(c) PROVE SeenInv(d)'
    <3>1. CASE d = c
      BY <2>2, <3>1, SeenStep
    <3>2. CASE d # c
      BY <2>2, <3>2, OthersSame, OthersTodo, SeenKept DEF IInv, TypeOK
    <3> QED BY <3>1, <3>2
  <2> QED BY <2>1, <2>2 DEF Next
<1>3. IInv /\ AllSeen => Exhausted
  <2> SUFFICES ASSUME IInv, AllSeen, NEW c \in Crawl,
                      At(c, "done"), HasRoom(c)
               PROVE  {found[c][i] : i \in 1..taken[c]}
                        = {found[c][1]} \cup LinkedInDomain(c)
    BY DEF Exhausted
  <2>1. /\ taken[c] = Len(found[c]) /\ found[c] # <<>>
        /\ found[c] \in Seq(Url)
    BY DEF SeenInv, IInv, TypeOK, LoopTyped
  <2>2. 1 \in 1..taken[c] /\ \A i \in 1..taken[c] : found[c][i] \in Url
    BY <2>1
  <2>3. \A i \in 1..taken[c] : i = 1 \/ found[c][i] \in LinkedInDomain(c)
    BY <2>1, <2>2 DEF SeenInv, IInv, QueueInv, LinkedInDomain, Linked
  <2>4. \A u \in LinkedInDomain(c) :
          \E i \in 1..taken[c] : found[c][i] = u
    BY <2>1 DEF SeenInv, LinkedInDomain, Linked, Queued, At
  <2> QED BY <2>2, <2>3, <2>4
<1> HIDE DEF AllSeen
<1> QED BY CrawlInvariance, <1>1, <1>2, <1>3, PTL DEF Spec

-----------------------------------------------------------------------------
(* Calls one after the other: what the robots cache and the pacing promise.*)
Alone == \A c, d \in Crawl : Running(c) /\ Running(d) => c = d
RobotsInv(c) ==
  /\ At(c, "robots") => robots[HostOf[Requested(c)]] = "unknown"
  /\ Walking(c) => robots[HostOf[Requested(c)]] = "parsed"
  /\ \A k \in 1..Len(pages[c]) :
       robots[HostOf[pages[c][k].url]] = "parsed"
SleepInv(c) ==
  At(c, "sleep") =>
    LET h == HostOf[Current(c)]
    IN since[h] = None \/ since[h] + delay[c] >= Required(h)
SerialInv == Alone /\ \A c \in Crawl : RobotsInv(c) /\ SleepInv(c)

LEMMA StepRuns ==
  ASSUME NEW c \in Crawl, Step(c)
  PROVE  Running(c)
  BY DEF Step, Take, Finish, GateCached, GateMiss, GateFetched,
         Consider, NoMoreLinks, Pace, Send, Raised, Late, Follow, Record,
         At, Running

LEMMA AloneStep ==
  ASSUME ~Overlap, IInv, Alone, NEW c \in Crawl, Start(c) \/ Step(c)
  PROVE  /\ Alone'
         /\ \A d \in Crawl : d # c => ~Running(d)
<1>1. \A d \in Crawl : d # c => ~Running(d)
  BY StepRuns DEF Alone, Start
<1>2. \A d \in Crawl : d # c => ~Running(d)'
  BY <1>1, OthersSame DEF Same, Running, IInv
<1> QED BY <1>1, <1>2 DEF Alone

(* A robots.txt that was read stays read.                                  *)
LEMMA RobotsGrow ==
  ASSUME IInv, NEW c \in Crawl, Start(c) \/ Step(c), RobotsInv(c),
         NEW h \in Host, robots[h] = "parsed"
  PROVE  robots'[h] = "parsed"
<1>1. CASE GateFetched(c)
  BY <1>1 DEF GateFetched, RobotsInv, IInv, TypeOK, PaceTyped
<1>2. CASE ~GateFetched(c)
  <2>1. UNCHANGED robots
    BY <1>2 DEF Start, Step, Take, Finish, GateCached, GateMiss, Consider,
         NoMoreLinks, Pace, Send, Raised, Late, Follow, Record, Answered
  <2> QED BY <2>1
<1> QED BY <1>1, <1>2

(* Where a call asks for, and where its pages come from, has a host.       *)
LEMMA HostsKnown ==
  ASSUME IInv, NEW c \in Crawl
  PROVE  /\ Attempting(c) => HostOf[Requested(c)] \in Host
         /\ \A k \in 1..Len(pages[c]) : HostOf[pages[c][k].url] \in Host
<1>1. \A k \in 1..Len(pages[c]) : pages[c][k].url \in Url
  <2>1. pages[c] \in Seq(Page)
    BY DEF IInv, TypeOK, LoopTyped
  <2>2. \A k \in 1..Len(pages[c]) : pages[c][k] \in Page
    BY <2>1
  <2> QED BY <2>2 DEF Page
<1> QED BY <1>1, RequestedIsUrl, WebAssumption

LEMMA RobotsStep ==
  ASSUME IInv, NEW c \in Crawl, Start(c) \/ Step(c), RobotsInv(c)
  PROVE  RobotsInv(c)'
<1>1. LoopTyped /\ PaceTyped
  BY DEF IInv, TypeOK
<1>2. Attempting(c) => HostOf[Requested(c)] \in Host
  BY HostsKnown
<1>3. pages'[c] = pages[c] =>
        \A k \in 1..Len(pages'[c]) :
          robots'[HostOf[pages'[c][k].url]] = "parsed"
  BY HostsKnown, RobotsGrow DEF RobotsInv
<1>4. CASE GateFetched(c)
  <2>1. PICK answer \in {"parsed", "unavailable"} :
          /\ robots' = [robots EXCEPT ![HostOf[Requested(c)]] = answer]
          /\ Decide(c, answer)
    BY <1>4 DEF GateFetched
  <2>2. /\ pages'[c] = pages[c] /\ found' = found /\ taken' = taken
        /\ Requested(c)' = Requested(c) /\ Attempting(c)
    BY <1>4 DEF GateFetched, loop, Requested, Attempting, At
  <2>3. answer = "parsed" \/ pc'[c] = "loop"
    BY <1>1, <2>1 DEF Decide, Allows, Goto, LoopTyped
  <2>4. pc'[c] \in {"pace", "loop"}
    BY <1>1, <2>1 DEF Decide, Goto, LoopTyped
  <2>5. answer = "parsed" => robots'[HostOf[Requested(c)]] = "parsed"
    BY <1>1, <1>2, <2>1, <2>2 DEF PaceTyped
  <2> QED BY <1>3, <2>2, <2>3, <2>4, <2>5 DEF RobotsInv, At, Walking
<1>5. CASE Record(c)
  <2>1. /\ pages'[c] = Append(pages[c], PageBuilt(c)) /\ pc'[c] = "links"
        /\ PageBuilt(c) \in Page /\ pages[c] \in Seq(Page)
        /\ At(c, "fetch")
    BY <1>1, <1>5, Recorded, PageBuiltIsPage DEF LoopTyped
  <2>2. UNCHANGED robots
    BY <1>5 DEF Record, Answered
  <2>3. robots[HostOf[PageBuilt(c).url]] = "parsed"
    BY <2>1 DEF RobotsInv, Walking, At, PageBuilt
  <2>4. \A k \in 1..Len(pages'[c]) :
          \/ k \in 1..Len(pages[c]) /\ pages'[c][k] = pages[c][k]
          \/ pages'[c][k] = PageBuilt(c)
    BY <2>1
  <2>5. \A k \in 1..Len(pages'[c]) :
          robots'[HostOf[pages'[c][k].url]] = "parsed"
    BY <2>2, <2>3, <2>4 DEF RobotsInv
  <2> QED BY <2>1, <2>5 DEF RobotsInv, At, Walking
<1>6. CASE ~GateFetched(c) /\ ~Record(c)
  <2>1. UNCHANGED <<pages, robots>>
    BY <1>6 DEF Start, Step, Take, Finish, GateCached, GateMiss, Consider,
         NoMoreLinks, Pace, Send, Raised, Late, Follow, Answered, loop
  <2>2. /\ At(c, "robots")' => /\ robots[HostOf[Requested(c)]] = "unknown"
                               /\ Requested(c)' = Requested(c)
        /\ Walking(c)' => /\ robots[HostOf[Requested(c)]] = "parsed"
                          /\ Requested(c)' = Requested(c)
    <3> USE <1>1 DEF RobotsInv, At, Walking, Goto, LoopTyped, loop, Requested
    <3>1. CASE Start(c)
      BY <3>1, Started
    <3>2. CASE Take(c) \/ Finish(c)
      BY <3>2 DEF Take, Finish
    <3>3. CASE GateCached(c)
      BY <3>3 DEF GateCached, Decide, Allows
    <3>4. CASE GateMiss(c)
      BY <3>4 DEF GateMiss
    <3>5. CASE Consider(c) \/ NoMoreLinks(c)
      BY <3>5 DEF Consider, NoMoreLinks
    <3>6. CASE Pace(c) \/ Send(c)
      BY <3>6 DEF Pace, Send
    <3>7. CASE Raised(c) \/ Late(c)
      BY <3>7 DEF Raised, Late
    <3>8. CASE Follow(c)
      BY <3>8 DEF Follow, Answered
    <3> QED BY <1>6, <3>1, <3>2, <3>3, <3>4, <3>5, <3>6, <3>7, <3>8 DEF Step
  <2> QED BY <1>3, <2>1, <2>2 DEF RobotsInv
<1> QED BY <1>4, <1>5, <1>6

(* A call goes to sleep for what is left of the delay.                     *)
LEMMA SleepStep ==
  ASSUME IInv, NEW c \in Crawl, Start(c) \/ Step(c)
  PROVE  SleepInv(c)'
<1>1. LoopTyped /\ PaceTyped
  BY DEF IInv, TypeOK
<1>2. CASE Pace(c)
  <2> DEFINE h == HostOf[Current(c)]
  <2>1. h \in Host
    BY <1>2, CurrentIsUrl DEF Pace, Walking, At
  <2>2. UNCHANGED <<walk, since, degraded>> /\ HostOf[Current(c)]' = h
    BY <1>2 DEF Pace, Current
  <2>3. since[h] \in 0..Far \/ since[h] = None
    BY <1>1, <2>1 DEF PaceTyped
  <2>4. Required(h) \in Nat /\ Far \in Nat
    BY BoundAssumption DEF Required, Far
  <2>5. since[h] = None \/ since[h] + delay'[c] >= Required(h)
    <3>1. CASE since[h] = None
      BY <3>1
    <3>2. CASE since[h] # None
      <4> DEFINE left == Required(h) - since[h]
      <4>1. delay'[c] = IF left > 0 THEN left ELSE 0
        BY <1>1, <1>2, <3>2 DEF Pace, PaceTyped
      <4> QED BY <2>3, <2>4, <3>2, <4>1
    <3> QED BY <3>1, <3>2
  <2> QED BY <2>2, <2>5 DEF SleepInv, Required
<1>3. CASE ~Pace(c)
  <2>1. pc'[c] # "sleep"
    <3> USE <1>1 DEF LoopTyped, At, Goto
    <3>1. CASE Start(c)
      BY <3>1, Started
    <3>2. CASE Take(c) \/ Finish(c)
      BY <3>2 DEF Take, Finish
    <3>3. CASE GateCached(c) \/ GateMiss(c) \/ GateFetched(c)
      BY <3>3 DEF GateCached, GateMiss, GateFetched, Decide
    <3>4. CASE Consider(c) \/ NoMoreLinks(c)
      BY <3>4 DEF Consider, NoMoreLinks
    <3>5. CASE Send(c) \/ Raised(c) \/ Late(c)
      BY <3>5 DEF Send, Raised, Late
    <3>6. CASE Follow(c)
      BY <3>6 DEF Follow
    <3>7. CASE Record(c)
      BY <3>7, Recorded
    <3> QED BY <1>3, <3>1, <3>2, <3>3, <3>4, <3>5, <3>6, <3>7 DEF Step
  <2> QED BY <2>1 DEF SleepInv, At
<1> QED BY <1>2, <1>3

(* Time takes from the sleep what it adds to the distance.                 *)
LEMMA SleepTick ==
  ASSUME IInv, Tick, NEW c \in Crawl, SleepInv(c)
  PROVE  SleepInv(c)'
<1> SUFFICES ASSUME At(c, "sleep") PROVE SleepInv(c)'
  BY DEF SleepInv, At, Tick
<1> DEFINE h == HostOf[Current(c)]
<1>1. h \in Host /\ HostOf[Current(c)]' = h
  BY CurrentIsUrl DEF Walking, At, Tick, Current
<1>3. degraded' = degraded
  BY DEF Tick
<1>2. /\ since[h] \in 0..Far \cup {None} /\ delay[c] \in 0..Far
      /\ Required(h) \in Nat /\ Required(h) <= Far /\ Far \in Nat
  BY <1>1, BoundAssumption DEF IInv, TypeOK, PaceTyped, Required, Far
<1>4. /\ delay'[c] = IF delay[c] > 0 THEN delay[c] - 1 ELSE 0
      /\ since'[h] = IF since[h] = None \/ since[h] >= Far
                       THEN since[h] ELSE since[h] + 1
  BY <1>1 DEF Tick
<1>5. since[h] = None \/ since[h] + delay[c] >= Required(h)
  BY DEF SleepInv
<1> HIDE DEF h
<1>6. since'[h] = None \/ since'[h] + delay'[c] >= Required(h)
  BY <1>2, <1>4, <1>5
<1> QED BY <1>1, <1>3, <1>6 DEF SleepInv, Required, h

LEMMA SerialInvariance ==
  ASSUME ~Overlap
  PROVE  Spec => []SerialInv
<1>1. Init => SerialInv
  <2> SUFFICES ASSUME Init PROVE SerialInv
    OBVIOUS
  <2>1. \A c \in Crawl : pc[c] = "idle" /\ pages[c] = <<>>
    BY DEF Init
  <2> QED BY <2>1 DEF SerialInv, Alone, Running, RobotsInv, SleepInv, At,
             Walking
<1>2. IInv /\ SerialInv /\ [Next]_vars => SerialInv'
  <2> SUFFICES ASSUME IInv, SerialInv, [Next]_vars PROVE SerialInv'
    OBVIOUS
  <2>1. CASE UNCHANGED vars
    <3>1. /\ UNCHANGED <<pc, found, taken, pages, walk>>
          /\ UNCHANGED <<robots, delay, since, degraded>>
      BY <2>1 DEF vars, loop, pace
    <3> QED BY <3>1 DEF SerialInv, Alone, Running, RobotsInv, SleepInv, At,
               Walking, Requested, Current, Required
  <2>2. CASE Tick
    <3>1. UNCHANGED <<pc, found, taken, pages, walk, robots>>
      BY <2>2 DEF Tick, loop
    <3>2. Alone' /\ \A c \in Crawl : RobotsInv(c)'
      BY <3>1 DEF SerialInv, Alone, Running, RobotsInv, At, Walking,
                  Requested
    <3> QED BY <2>2, <3>2, SleepTick DEF SerialInv
  <2>3. ASSUME NEW c \in Crawl, Start(c) \/ Step(c) PROVE SerialInv'
    <3>1. Alone' /\ \A d \in Crawl : d # c => ~Running(d)
      BY <2>3, AloneStep DEF SerialInv
    <3>2. RobotsInv(c)' /\ SleepInv(c)'
      BY <2>3, RobotsStep, SleepStep DEF SerialInv
    <3>3. ASSUME NEW d \in Crawl, d # c
          PROVE  RobotsInv(d)' /\ SleepInv(d)'
      <4>1. Same(d)
        BY <2>3, <3>3, OthersSame DEF IInv
      <4>2. pc'[d] = pc[d] /\ pages'[d] = pages[d] /\ ~Running(d)
        BY <3>1, <3>3, <4>1 DEF Same
      <4>3. pc'[d] \in {"idle", "rejected", "done"}
        BY <4>2 DEF Running
      <4>4. \A k \in 1..Len(pages[d]) :
              robots'[HostOf[pages[d][k].url]] = "parsed"
        BY <2>3, HostsKnown, RobotsGrow DEF SerialInv, RobotsInv
      <4> QED BY <4>2, <4>3, <4>4 DEF RobotsInv, SleepInv, At, Walking
    <3> QED BY <3>1, <3>2, <3>3 DEF SerialInv
  <2> QED BY <2>1, <2>2, <2>3 DEF Next
<1> QED BY CrawlInvariance, <1>1, <1>2, PTL DEF Spec

(* Calls that do not overlap: the pages are the site as robots.txt shows   *)
(* it, none twice, none of an origin that did not answer, none left out.   *)
THEOREM CrawlCovers ==
  ASSUME ~Overlap
  PROVE  Spec => []CoversTheSite
<1>1. SerialInv => FailClosed
  BY DEF SerialInv, RobotsInv, FailClosed
<1>2. EachUrlOnce /\ FailClosed /\ Exhausted => CoversTheSite
  BY DEF CoversTheSite
<1> QED BY SerialInvariance, CrawlOnce, CrawlExhausts, <1>1, <1>2, PTL

(* Calls that do not overlap keep the distance the rate limit asks for,    *)
(* twice of it while a host is degraded.                                   *)
THEOREM CrawlPaced ==
  ASSUME ~Overlap
  PROVE  Spec => Paced
<1> DEFINE Distance ==
      \A c \in Crawl : At(c, "sleep") /\ pc'[c] = "fetch" =>
        LET h == HostOf[Current(c)]
        IN since[h] = None
           \/ since[h] >= (IF degraded[h] THEN 2 ELSE 1) * Rate
<1>1. IInv /\ SerialInv /\ [Next]_vars => [Distance]_vars
  <2> SUFFICES ASSUME IInv, SerialInv, Next, NEW c \in Crawl,
                      At(c, "sleep"), pc'[c] = "fetch"
               PROVE  LET h == HostOf[Current(c)]
                      IN since[h] = None
                         \/ since[h] >= (IF degraded[h] THEN 2 ELSE 1) * Rate
    OBVIOUS
  <2>1. Send(c)
    <3>1. ~Tick
      BY DEF Tick, At
    <3>2. PICK d \in Crawl : Start(d) \/ Step(d)
      BY <3>1 DEF Next
    <3>3. d = c
      BY <3>2, OthersSame DEF IInv, Same, At
    <3>4. CASE Pace(c)
      BY <3>4 DEF Pace, At
    <3> QED BY <3>2, <3>3 DEF Start, Step, Take, Finish, GateCached,
               GateMiss, GateFetched, Consider, NoMoreLinks, Pace, Raised,
               Late, Follow, Record, At
  <2> DEFINE h == HostOf[Current(c)]
  <2>2. h \in Host /\ delay[c] = 0
    BY <2>1, CurrentIsUrl DEF Send, Walking, At
  <2>3. since[h] \in 0..Far \cup {None}
    BY <2>2 DEF IInv, TypeOK, PaceTyped
  <2>4. since[h] = None \/ since[h] + delay[c] >= Required(h)
    BY DEF SerialInv, SleepInv
  <2>5. Rate \in Nat /\ Far \in Nat
    BY BoundAssumption DEF Far
  <2> HIDE DEF h
  <2>6. since[h] = None
        \/ since[h] >= (IF degraded[h] THEN 2 ELSE 1) * Rate
    BY <2>2, <2>3, <2>4, <2>5 DEF Required
  <2> QED BY <2>6 DEF h
<1> HIDE DEF Distance
<1>2. Spec => [][Distance]_vars
  BY CrawlInvariance, SerialInvariance, <1>1, PTL DEF Spec
<1> QED BY <1>2 DEF Paced, Distance
=============================================================================
