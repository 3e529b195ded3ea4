---------------------------- MODULE RankTracking ----------------------------
(***************************************************************************)
(* Rank tracking, reporting, analytics and the job queue of the growth     *)
(* layer.  A capture reads the tracked keywords of a site and device, asks *)
(* the provider for the positions of their texts, and saves the snapshots  *)
(* in one transaction; a report is computed from all snapshots of a site.  *)
(* The queue the container is built with records schedules and runs none.  *)
(*                                                                         *)
(* Abstractions: a device stands for device and place; the time of a       *)
(* snapshot is its number among the answers of the provider, PerDay of     *)
(* them a day; a position is a number or Unranked.                         *)
(***************************************************************************)
EXTENDS Service, FiniteSetsExt, SequencesExt

CONSTANTS
  Text, Device,     \* keyword texts, and where they are looked up
  Position,         \* positions the provider may answer
  ChangeLimit,      \* changes a report shows
  Cadence, Format,  \* cadences with a job, formats with a renderer
  PerDay,           \* answers of the provider on one day
  MaxKeyword, MaxCapture, MaxArtifact   \* bounds on the rows

Unranked == 0

ASSUME RankAssumption ==
  /\ Position \subseteq 1 .. 100
  /\ {ChangeLimit, MaxKeyword, MaxCapture, MaxArtifact} \subseteq Nat
  /\ PerDay \in Nat \ {0}

VARIABLES
  rkeyword,   \* tracked keywords, each with its text and device
  rsnapshot,  \* [capture -> [keyword -> position]], a row each
  rclock,     \* answers of the provider so far
  rjob,       \* jobs of the queue, and the events of schedule()
  rartifact,  \* report artifacts
  rpc,        \* [Thread -> next call]
  rasked,     \* [Thread -> keywords it read]
  rfound      \* [Thread -> snapshots it is about to save]

rvars == <<rkeyword, rsnapshot, rclock, rjob, rartifact, rpc, rasked, rfound>>

TrackedKeyword == [text : Text, device : Device]
Snapshot ==
  [at : Nat, keyword : Nat, text : Text, position : Position \cup {Unranked}]
JobId == [job : {"rank-capture", "scheduled-report"}, cadence : Cadence]
Busy == Cardinality({t \in Thread : rpc[t] # "idle"})

RInit ==
  /\ rkeyword = <<>> /\ rsnapshot = <<>> /\ rclock = 0
  /\ rjob = {} /\ rartifact = <<>>
  /\ rpc = [t \in Thread |-> "idle"]
  /\ rasked = [t \in Thread |-> {}]
  /\ rfound = [t \in Thread |-> <<>>]

-----------------------------------------------------------------------------
(* POST keywords: each gets an id of its own, so that none is updated; one *)
(* whose text is tracked on that device the database refuses.              *)
AddKeyword(text, device) ==
  /\ Len(rkeyword) < MaxKeyword
  /\ \A k \in DOMAIN rkeyword : rkeyword[k] # [text |-> text, device |-> device]
  /\ rkeyword' = Append(rkeyword, [text |-> text, device |-> device])
  /\ UNCHANGED <<rsnapshot, rclock, rjob, rartifact, rpc, rasked, rfound>>

(* capture_rankings_now: the keywords of the device; without any, it ends. *)
ReadKeywords(t, device) ==
  /\ rpc[t] = "idle"
  /\ rclock + Cardinality({u \in Thread : rpc[u] = "fetch"}) < MaxCapture
  /\ LET tracked == {k \in DOMAIN rkeyword : rkeyword[k].device = device}
     IN  /\ tracked # {}
         /\ rasked' = [rasked EXCEPT ![t] = tracked]
  /\ rpc' = [rpc EXCEPT ![t] = "fetch"]
  /\ UNCHANGED <<rkeyword, rsnapshot, rclock, rjob, rartifact, rfound>>

(* by_keyword: of the keywords with one text, the last.                    *)
ByKeyword(asked, text) == Max({k \in asked : rkeyword[k].text = text})

REnd(t) ==
  /\ rpc' = [rpc EXCEPT ![t] = "idle"]
  /\ rasked' = [rasked EXCEPT ![t] = {}]
  /\ rfound' = [rfound EXCEPT ![t] = <<>>]

InAnyOrder(S) == {f \in [1 .. Cardinality(S) -> S] : IsInjective(f)}

(* The provider answers each text it was asked for, in an order of its     *)
(* own; the answer is filed under the keyword by_keyword has for the text. *)
Fetch(t) ==
  /\ rpc[t] = "fetch"
  /\ rclock' = rclock + 1
  /\ \E answer \in [rasked[t] -> Position \cup {Unranked}],
        order \in InAnyOrder(rasked[t]) :
       rfound' = [rfound EXCEPT ![t] =
         [i \in DOMAIN order |->
           LET text == rkeyword[order[i]].text
           IN  [at |-> rclock', keyword |-> ByKeyword(rasked[t], text),
                text |-> text, position |-> answer[order[i]]]]]
  /\ rpc' = [rpc EXCEPT ![t] = "save"]
  /\ UNCHANGED <<rkeyword, rsnapshot, rjob, rartifact, rasked>>

(* Mutant: the snapshots are saved one by one, and a failure ends them.    *)
SaveFirstSnapshots(t) ==
  /\ rpc[t] = "save"
  /\ \E n \in 0 .. Len(rfound[t]) :
       rsnapshot' = rsnapshot \o SubSeq(rfound[t], 1, n)
  /\ REnd(t)
  /\ UNCHANGED <<rkeyword, rclock, rjob, rartifact>>

(* save_snapshots: all of a capture or none; the ids are fresh.            *)
SaveSnapshots(t) ==
  /\ rpc[t] = "save"
  /\ rsnapshot' = rsnapshot \o rfound[t]
  /\ REnd(t)
  /\ UNCHANGED <<rkeyword, rclock, rjob, rartifact>>

(* The provider or the database fails, or the process dies.                *)
FailCapture(t) ==
  /\ Lossy /\ rpc[t] \in {"fetch", "save"}
  /\ REnd(t)
  /\ UNCHANGED <<rkeyword, rsnapshot, rclock, rjob, rartifact>>

-----------------------------------------------------------------------------
(* The snapshots of a keyword that were captured before one of them, and   *)
(* the last of these; of one time a keyword has one snapshot.              *)
Before(i) ==
  {j \in DOMAIN rsnapshot : /\ rsnapshot[j].keyword = rsnapshot[i].keyword
                            /\ rsnapshot[j].at < rsnapshot[i].at}
LastOf(S) == CHOOSE i \in S : \A j \in S : rsnapshot[j].at <= rsnapshot[i].at

(* A change is a snapshot that differs from the one before it.             *)
Was(i) == rsnapshot[LastOf(Before(i))].position
Is(i) == rsnapshot[i].position
Changes == {i \in DOMAIN rsnapshot : Before(i) # {} /\ Was(i) # Is(i)}

Significance(i) ==
  LET by == IF Was(i) > Is(i) THEN Was(i) - Is(i) ELSE Is(i) - Was(i)
  IN  CASE Unranked \in {Was(i), Is(i)} \/ by >= 10 -> "major"
        [] by >= 5 -> "moderate"
        [] OTHER -> "minor"

(* The changes of all keywords, the newest first.  Those of one time may   *)
(* come in any order: the code has them in the order in which their        *)
(* keywords came out of the query.                                         *)
NewestFirst(list) ==
  \A m, n \in DOMAIN list :
    m < n => rsnapshot[list[m]].at >= rsnapshot[list[n]].at

(* The lists a report may show: one limit for all keywords together.       *)
DetectRankingChanges ==
  {SubSeq(list, 1, Min({ChangeLimit, Len(list)})) :
     list \in {l \in InAnyOrder(Changes) : NewestFirst(l)}}

(* get_latest_snapshot: the newest of a keyword.                           *)
GetLatestSnapshot(k) ==
  LastOf({i \in DOMAIN rsnapshot : rsnapshot[i].keyword = k})

(* compute_visibility_trend, for one date, in hundredths: of whatever was  *)
(* captured that day, a keyword captured twice counts twice.               *)
DateOf(snapshot) == snapshot.at \div PerDay
Visibility(date) ==
  LET found == SelectSeq(rsnapshot,
                 LAMBDA s : DateOf(s) = date /\ s.position # Unranked)
      total == FoldSeq(LAMBDA s, sum : sum + 101 - s.position, 0, found)
  IN  IF found = <<>> THEN 0 ELSE total \div Len(found)

-----------------------------------------------------------------------------
(* schedule(): a job of the same id is replaced.                           *)
Schedule(cadence) ==
  /\ rjob' = rjob \cup {[job |-> "rank-capture", cadence |-> cadence]}
  /\ UNCHANGED <<rkeyword, rsnapshot, rclock, rartifact, rpc, rasked, rfound>>

(* The model's summary of the report, or the text that says it has none.   *)
Narrative(answers) == IF answers THEN "summarised" ELSE "unsummarised"

(* generate_report: the summary is asked for first, and never fails the    *)
(* report; a format without a renderer does.                               *)
GenerateReport(t, format, answers) ==
  /\ rpc[t] = "idle" /\ format \in Format
  /\ Len(rartifact) + Busy < MaxArtifact
  /\ rpc' = [rpc EXCEPT ![t] = Narrative(answers)]
  /\ UNCHANGED <<rkeyword, rsnapshot, rclock, rjob, rartifact, rasked, rfound>>

SaveArtifact(t) ==
  /\ rpc[t] \in {"summarised", "unsummarised"}
  /\ \E saved \in BOOLEAN :
       /\ ~saved => Lossy
       /\ rartifact' = IF saved THEN Append(rartifact, rpc[t]) ELSE rartifact
  /\ REnd(t)
  /\ UNCHANGED <<rkeyword, rsnapshot, rclock, rjob>>

(* analyze() of the analytics service: of its three answers, the first     *)
(* error counts, and nothing is kept.                                      *)
Analytics(fails) ==
  CASE "snapshot" \in fails -> "no snapshot" [] "pages" \in fails -> "no pages"
    [] "keywords" \in fails -> "no keywords" [] OTHER -> "report"

RNext ==
  \/ \E text \in Text, device \in Device : AddKeyword(text, device)
  \/ \E cadence \in Cadence : Schedule(cadence)
  \/ \E t \in Thread :
       \/ \E device \in Device : ReadKeywords(t, device)
       \/ \E format \in Format, answers \in BOOLEAN :
            GenerateReport(t, format, answers)
       \/ Fetch(t) \/ SaveSnapshots(t) \/ FailCapture(t) \/ SaveArtifact(t)

RSpec == RInit /\ [][RNext]_rvars

-----------------------------------------------------------------------------
RTypeOK ==
  /\ rkeyword \in Seq(TrackedKeyword) /\ rsnapshot \in Seq(Snapshot)
  /\ rclock \in Nat /\ rjob \subseteq JobId
  /\ rartifact \in Seq({"summarised", "unsummarised"})
  /\ rpc \in [Thread -> {"idle", "fetch", "save", "summarised", "unsummarised"}]
  /\ rasked \in [Thread -> SUBSET DOMAIN rkeyword]
  /\ rfound \in [Thread -> Seq(Snapshot)]

(* What one capture stored is complete for the device, whatever other      *)
(* captures and additions came in between: each of the keywords that were  *)
(* tracked when it read them has a snapshot of its own text, and only one. *)
Captured(at) == {i \in DOMAIN rsnapshot : rsnapshot[i].at = at}
CapturesAreWhole ==
  \A i \in DOMAIN rsnapshot :
    LET s == rsnapshot[i]
        device == rkeyword[s.keyword].device
    IN  /\ s.keyword \in DOMAIN rkeyword /\ rkeyword[s.keyword].text = s.text
        /\ \A j \in Captured(s.at) :
             /\ rkeyword[rsnapshot[j].keyword].device = device
             /\ rsnapshot[j].keyword = s.keyword => j = i
        /\ \A k \in 1 .. s.keyword : rkeyword[k].device = device =>
             \E j \in Captured(s.at) : rsnapshot[j].keyword = k

(* What a report tells of a keyword follows, whatever the limit cuts: its  *)
(* newest change ends at the position of its latest snapshot, and each     *)
(* other ends where the next one shown begins.  Nothing is left out while  *)
(* there is room.                                                          *)
Shown(list, n, k) ==
  {m \in 1 .. n - 1 : rsnapshot[list[m]].keyword = k}
ChangesFollow ==
  \A list \in DetectRankingChanges :
    /\ Len(list) <= ChangeLimit
    /\ Len(list) < ChangeLimit =>
         \A i \in Changes : \E n \in DOMAIN list : list[n] = i
    /\ \A n \in DOMAIN list :
         LET k == rsnapshot[list[n]].keyword
             newer == Shown(list, n, k)
         IN  Is(list[n]) = IF newer = {} THEN Is(GetLatestSnapshot(k))
                                         ELSE Was(list[Max(newer)])

(* The invariant of rank tracking: captures are whole, and what changed is *)
(* told from them in order.                                                *)
RankingsHold == RTypeOK /\ CapturesAreWhole /\ ChangesFollow
=============================================================================
