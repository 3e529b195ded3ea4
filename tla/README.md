# Website Orchestrator: specifications and proofs

TLA+ specifications of the Website Orchestrator, the TLC configurations that
check them on small instances, and TLAPS proofs of what matters most for every
instance. Paths are relative to the repository; `governance/...` and the like
stand for `packages/governance/...`.

The orchestrator crawls a site, keeps a digital twin of it, raises issues,
generates fixes, and publishes approved fixes to WordPress with an audit trail
and a rollback. Later milestones add analysis engines, knowledge objects made
with language models, goals, plans and agents that execute them, growth tools
and a SaaS platform. Nearly all of it runs as synchronous FastAPI routes: every
request is a thread of its own, state is in a SQL database through short
transactions, and **no operation takes a lock across two of them**. Most of what
is hard here follows from that: an operation is a line of transactions and
outside calls, and another request, a failure or the end of the process can come
between any two.

All modules are written on this pattern: one action is one transaction or one
outside call, with the local computation up to the next one; `pc` says which
comes next; local variables of a request are what the code holds in memory, as
read, however stale. The service modules share `Service` (threads, lost calls).
What a part *computes* from its data is an operator, stated so that a property
can compare it with a definition that does not mention the code.

## Inventory

| Part | State | Operations | What makes it hard | Here |
| --- | --- | --- | --- | --- |
| Governance (`governance`) | status of each fix, audit trail, live value in WordPress | approve, reject, rollback | three stores, no transaction over them; races, crashes, timed-out writes that land later | `Governance` |
| Agent Runtime (`agentic/runtime`) | execution row, checkpoint row | start, pause, resume, cancel, step | two rows, checkpoints held in memory while a tool runs, retries, re-execution after a crash | `AgentRuntime` |
| Missions and supervisor (`agentic/agents`) | mission row, messages, the runtime's rows | execute, pause, resume, cancel, recover | validate on a row as read and write back all of it later; a loop that steps a plan others change | `Missions` |
| Engine orchestrator (`engines/shared`) | audit job row with JSON lists, outcome lists in memory | create, run four tiers on a thread pool, record outcomes, finish | lost updates of JSON lists, failures isolated per engine | `EngineAudit` |
| Ten analysis engines | a report table each | analyze, number, insert | scores from incomplete evidence, groups that overlap, two inserts with one number | `EngineReports` |
| Crawler (`crawler`) | queue, redirect walk, pages, robots cache, pacing per host | crawl_site | cyclic links and redirects, failures, one object shared by threads | `Crawler` |
| Crawl pipeline (`api/orchestration.py`) | none of its own | POST /crawl: crawl, upsert, check, persist issues, generate, persist fixes | five stages in separate transactions, concurrent requests | `CrawlPipeline` |
| Digital twin (`digital_twin`) | pages, links, metadata, issues, fixes, audit entries | upsert_pages, persist_issues, persist_fixes, mark_issue_ignored, update_fix_status, append_audit | select-then-insert without a unique key, delete-orphan | `CrawlPipeline`, `Governance` |
| Check engine, fix generator, AI generator | none | run_all_checks, generate_fix, alt-text service | which image an issue is about is found again by substring | `CrawlPipeline` |
| Publishing adapter | none | read and write one live value | refusals, timeouts, unparsable replies | environment of `Governance` |
| Knowledge objects (`intelligence`) | versions of a page's knowledge, invocation audit | analysis, forced analysis, PATCH | version numbers chosen long before they are used, overrides carried late, bounded retries | `KnowledgeVersions` |
| AI provider layer (`ai`) | registry, health, usage | choose, call with retries | awaits between probe, choice and use | `AiGateway` |
| Goals, planning (`agentic/planning`, `agentic/goals`) | goals, plans, graphs | understand, plan, validate, simulate | answers of a model nobody vouches for; plan and graph saved apart | `AgentPlanning` |
| Memory, reflection, tool selection (`agentic`) | facts, templates, episodes, lessons, scores, working memory | save, reflect, learn, expire | select-then-insert, expiry at the boundary, averages | `AgentMemory` |
| SaaS automation (`saas/automation`) | executions, suspensions | event, step, resume | two resumes, a call lost in the middle | `WorkflowExecution` |
| Other SaaS services (`saas`) | conversations, roles, installations, explanations, comments, codes | save, chat, comment, authorize | one row to a key without a constraint; copies written back | `SaasRecords` |
| Growth bus, rules (`growth/shared`) | rules, logs | publish, upsert, disable | failing actions, rules changed while an event is handled | `GrowthAutomation` |
| Growth modules (`growth`) | content assets; reports; keywords and snapshots; tasks | generate, submit, decide, publish; report; capture; assign | whole copies written back; order of inputs; tenants | `GrowthContent`, `GrowthReports`, `RankTracking`, `Agency` |
| Enterprise intelligence | events, goals | observe, trigger, merge, correlate | comparison with goals of the day before insertion; statistics | `AutonomousGoals` |
| Brain: knowledge graph, decisions, scheduler; API surface; core and observability; web applications | wiring, views, types | - | see "Not modelled" | - |

How they interact: POST /crawl calls crawler, digital twin, check engine, fix
generator and digital twin again, in one thread. The decision routes call
Governance, which calls the digital twin (status, trail) and the publishing
adapter. The supervisor of a mission calls the runtime, and so do the mission's
and the runtime's own endpoints, from other threads. The engine orchestrator is
called as a library and calls engines and their repositories. The service
packages are each wired by a container of their own, and share the database but
no table. There is no queue and no background worker: everything unfinished when
the process ends stays so.

## Modules

| Module | Contents |
| --- | --- |
| `Governance`, `MCGovernance` | decisions on fixes step by step, properties and the refinement mapping; instances |
| `GovernanceAtomic` | the abstract specification: decisions in one step each |
| `AgentRuntime`, `MCAgentRuntime` | the runtime of one plan, properties, the refinement mapping; instances |
| `PlanRun` | the abstract specification: nodes done in order, one ending |
| `Missions`, `MCMissions` | a mission composed with `AgentRuntime`, whose actions it calls |
| `EngineAudit`, `MCEngineAudit` | one audit; instances |
| `Crawler`, `MCCrawler` | crawl_site; a small web |
| `CrawlPipeline`, `MCCrawlPipeline` | POST /crawl over the twin, with checks and fix generation as operators |
| `Service` | threads and lost calls, for the thirteen modules below |
| `WorkflowExecution`, `KnowledgeVersions`, `EngineReports`, `AiGateway`, `GrowthAutomation`, `GrowthContent`, `GrowthReports`, `RankTracking`, `Agency`, `SaasRecords`, `AgentPlanning`, `AgentMemory`, `AutonomousGoals` | one service component each |
| `Reports` | both families of numbered reports, beside each other |
| `Ordering` | `sorted()` and filtering, as operators without an algorithm |
| `MCPlanning` | the graphs a model may answer |
| `MCPlatform` | one instance of all thirteen, and the behaviour that runs one of them |
| `GovernanceProofs`, `AgentRuntimeProofs`, `MissionProofs`, `CrawlerProofs`, `CrawlPipelineProofs` | theorems and their proofs, a module each |
| `AutomationProofs`, `ServiceProofs` | theorems about workflow runs, gateway, memory, goals and plans; about knowledge, content, agency, rules, SaaS records, reports, rankings and the audit of the engines |
| `DataLemmas` | lemmas about sums, folds, recursive functions, sorting and sequences, for both |

Operators marked *Mutant* in the modules are variants with a plausible bug;
each property was seen to fail when one of them takes the place of the original.

### Governance

`status`, `audit` and `site` are the three stores; `pc`, `op`, `fix` and
`before` are what a request's thread has in hand. `Load` is the only read of the
fix: `Admitted` is the guard on that record. Then each operation is a line of
actions named after the code's steps: `ReadBefore`, `AuditApplied`,
`WriteProposed`, `SetApplied` or `Park` for an automatic fix; `SetApproved`,
`AuditApproved` for a report-only one; `SetRejected`, `AuditRejected`;
`FindBefore`, `Restore`, `SetRolledBack`, `AuditRolledBack`. `Publish` has every
outcome the adapter tells apart, `LateWrite` is a timed-out write WordPress
performs afterwards, `EditSite` an editor's change, `Crash` a failing repository
call or the end of the process. Media alt text is the only live field, as no
other automatic fix is generated anywhere.

### Agent Runtime

`execution` and `checkpoint` are the rows, `held` the checkpoint object a
request works on, saved as a whole. A step is `LoadForStep` (choice of the node
and of the gate's answer), `SetRunning`, `RunNode` or `ToolFails` (with retries),
`SaveProgress` or `FailCheckpoint`, `FailExecution`; a blocked node and a finished
plan have their own two saves. Pause, resume and cancel are `ReadExecution`,
`SetExecution`, `LoadForState`, `SetCheckpoint`, guarded by `ValidTransitions`,
which steps do not ask. The graph is a constant, any graph.

### Missions

`mission` is the row (its state and the transitions it records), `mail` the last
message of each specialist's conversation; of a thread, `at` is its next call, `draft`
the row it read with its change, `answer` what the runtime last returned. Every change
of state is `Look` (read and validate) and `Save` (write back the whole row). Executing
a mission is `CreateMission`, `Consult`, `Evidence` or `SpecialistFails` by specialist, `Vote`,
and the loop of `Step`; `RuntimeCall` runs the actions of `AgentRuntime` in the same
thread, whose variables the module extends. Pause, resume and cancel change the mission
and then call the runtime; recovery (`Inspect`) starts a second loop on the checkpoint.

### Engine audit and engines

`row` is the job's row and `completed`, `failed`, `outputs` the orchestrator's own
lists. An engine in `_run_one` is skipped, succeeds or fails, then reads a JSON
list (`ReadList`) and writes it back with itself added (`WriteList`). Tiers
follow each other; tier 1 runs on `MaxWorkers` threads. `EngineReports` has what
the ten engines compute and how a report is numbered and inserted.

### Crawler

`found` is every URL ever queued in order (the code's `seen` and its queue's
history), `taken` how many of them were popped. A URL taken is asked of the gate
(`GateCached`, or `GateMiss` and `GateFetched`), then `Pace`, `Tick`, `Send` and one
of `Raised`, `Late`, `Follow`, `Record`; `Consider` and `NoMoreLinks` go through the
links of the page. Time is in ticks, and `since` the ticks since the last contact.

### Crawl pipeline

`rows`, `linked`, `issues` and `fixes` are the twin. A request is `Crawled`,
`SelectPage` per URL and `CommitPages` (one transaction whose selects see what was
committed before each), `PersistIssues`, `PersistFixes`; `Fail` is a transaction
that is rolled back. `Raised` is what the check engine raises on a crawl's pages,
`FixFor` what the generator makes of an issue, including `ResolveImage`'s substring
search.

### The service modules

Each has threads that go through the repository calls of a route, `LoseCall` (or an
action of that kind) between any two, and an invariant that names the promise; where part of
it is a computation, that part is a definition of its own, and a conjunct of the
invariant (of the reports: an invariant beside it, `ReportsAgree`):

| Module | State | Invariant, beside the types |
| --- | --- | --- |
| `WorkflowExecution` | `run`, `suspended`, copies in hand | `RunsAreGoverned`: no node before the approvals ahead of it; a paused run has its one suspension |
| `KnowledgeVersions` | `krow`, the version in the making, what people last set | `KnowledgeHolds`: what is proposed is audited; edits survive analyses, refusals and lost calls |
| `EngineReports` | `erow` | `ReportVersions`: versions count the rows of a scope. Computed: scores lie within their evidence, groups partition |
| `AiGateway` | registry, health, usage, calls in flight | `GatewayHolds`: healthy and highest priority first, attempts as configured, usage counts answers |
| `GrowthAutomation` | rules, events in hand, logs | `AutomationHolds`: a due rule fires once and is logged, whatever another's action does |
| `GrowthContent` | assets with history | `ContentHolds`: a status is the end of an unbroken history, published only after approved; decisions answered are in it |
| `GrowthReports` | `grow` | `GrowthVersions`: the same. Computed: independent of the order of inputs; drafts for pressing reviews and them alone |
| `Reports` | both of these, beside each other | `VersionsHold`: `ReportVersions` and `GrowthVersions`. `ReportsAgree`: what both compute |
| `RankTracking` | keywords, snapshots, artifacts, schedules | `RankingsHold`: a capture is whole. Computed: the changes a report shows of a keyword follow one another up to where it stands (`ChangesFollow`) |
| `Agency` | tasks, notifications, workspaces | `AgencyHolds`: tenants do not reach into each other |
| `SaasRecords` | chats, keyed records, codes, notices | `RecordsHold`: turns alternate; a key has its one row with the value last saved |
| `AgentPlanning` | goals, plans, graphs | `PlanningHolds`: a saved plan is governed, and so is what is saved beside it. Computed: plans can be executed (`PlansAreExecutable`); critique, risk and simulation agree (`EstimatesAgree`) |
| `AgentMemory` | keyed rows, scores, lessons, working memory | `MemoryHolds`: the value last set, until it expires; scores count attempts |
| `AutonomousGoals` | events, goals | `GoalsHold`: one goal a day and metric. Computed: groups, the order of importance, anomalies and trends are consistent (`ObservationsAgree`) |

Where a promise holds for requests in turn only, a history variable (`met`, `meddled`,
`kmet`, `cmet`, ...) records that two requests worked on one thing at once, and the
property says `~met =>`: one run then checks both worlds.

## Runs

| Run | Instance | Shows |
| --- | --- | --- |
| `gov_concurrent` | two automatic fixes on one media item and a report-only fix, 3 requests, 2 at once, one edit, all faults; 1.7M states | an applied fix has an audited BEFORE value; nothing unaudited is published; the trail accounts for answers |
| `gov_atomic` | an automatic and a report-only fix, 3 requests in turn, refused and timed-out calls, fairness; 39k states | implements `GovernanceAtomic`; the trail is the true history and names the value a rollback restores; a decision begun is reached |
| `gov_lost_original` | 1 fix, 3 requests, crashes | finding 1 |
| `rt_concurrent` | 3 nodes (a fork listed backwards), 2 threads, all operations, failing tools, crashes | no tool before its dependencies; completed means all tools ran |
| `rt_serial` | the same plan, 1 thread, 2 starts, failing tools, fairness | nodes once per start and rows that agree at rest; implements `PlanRun`; a plan settles |
| `mission_run` | 2 nodes, 2 threads, 2 specialists, 2 interventions, failing tools and specialists, crashes; 721k states | legal history whoever writes last; every specialist heard; completed means done; an undisturbed mission settles |
| `audit_run` | 4 sets of engines, page and site, 2 threads, failing engines and database, fairness | stored and returned status agree; outcomes are all there and none invented; jobs end |
| `audit_isolated` | the same, without database faults | finding 2 |
| `crawl_site` | 2 calls in turn on 6 URLs, 3 hosts, cyclic links and redirects, 3 kinds of failure, fairness | permission; faithful chains; the site is covered, each page once; pacing; termination |
| `pipe_run` | 3 requests, 2 URLs, two versions of the site, failing transactions, one ignored issue | references between rows; the twin mirrors the last crawl; the right image; a complete answer |
| `pipe_one_row` | the same instance | finding 3 |
| `platform_run` | the thirteen service modules, 2 threads, lost calls; 511k states | the invariant of each, and what they compute agrees with its definition |

### Why the bounds are enough

Each hazard needs two requests at once, and often a third afterwards that meets
what they left: the runs with concurrency have two threads and three requests
(`gov_concurrent`, `pipe_run`), or two threads that serve any number
(`rt_concurrent`, `mission_run`, `platform_run`). Two nodes that depend on a third,
which the dictionary lists last, make the search for the next node do work, and
leave an order open. The web has a link cycle, a repeated link, a redirect to
itself (longer than the cap), one out of the domain and back by links, a
disallowed page, two origins of one domain; the limits are reached and not reached
(`Asked`). A mission may be intervened in twice, so that a pause can be resumed and a
recovery meet the supervisor it replaces.

`platform_run` begins with the choice of a part, and then only this part moves: no two
of the thirteen share a variable (in the code: a table), so interleaving them would
multiply states and show nothing. Its inputs are chosen for the boundaries of the code:
all graphs of three steps with up to three edges, some that name a missing step, and
publications under names that are written otherwise; pages with every kind of defect
and with none, shares, keyphrases and an authority outside what is expected; reviews on
both sides of each threshold, whose score and label disagree; a workflow that asks twice
and one that never asks; a retry limit that is reached; a rule that is due and one
refused; one keyword on two devices, and two captures on one day; events of every
severity, sure and unsure, and all series of up to five values of four, so that both
tests for anomalies have the three or four past values they need; records with equal ids.

`SYMMETRY` is used for threads, requests, specialists and keyword texts, only in runs
without temporal properties. Bounds of the models alone: `MaxEdits`, `MaxStarts`,
`MaxActive`, `MaxAsked`, `MaxIgnored`, the cap `Often` on `ran`, and in the service
modules `MaxRow`, `MaxEdit`, `MaxReport`, `MaxGrowthReport`, `MaxCall`, `MaxEvent`,
`MaxHistory`, `MaxKeyword`, `MaxCapture`, `MaxArtifact`, `MaxServed`, `MaxGoal`,
`MaxPlan`, `MaxMemory`, `MaxClock`, `MaxObserved`, `MaxMade`. `CHECK_DEADLOCK` is off
everywhere since all these systems may stop: when every request was answered nothing
more happens.

`gov_atomic` and `rt_serial` have one request at a time because the promises they check
are broken by concurrent requests; the same promises for concurrent requests are
findings or are listed below. `gov_atomic` has one automatic fix: with two on one image
and writes that land late, decisions are not atomic any more. `TwinMirrorsLastCrawl`
says itself that it is about requests in turn, and `FailClosed` (in `CoversTheSite`) and
`Paced` need `Overlap = FALSE`.

### Fairness

A thread that serves a request is scheduled until it returns: weak fairness of a
request's steps (`FairSpec` of `Governance`, `Work` in `AgentRuntime`, `Next` in
`EngineAudit`, `Step` and `Tick` in `Crawler`). Nothing is assumed about which answer comes,
nor of crashes, edits and late writes. `PlanSettles` also assumes that the client
goes on asking for steps (strong fairness of that request, as other requests may
keep the single thread busy): the supervisor's loop does so until the plan is over.
Missions have no liveness property: with a recovery beside the supervisor, two loops can
overwrite each other's progress for ever.

## Findings

1. `gov_lost_original` - a request that dies between the write and the status leaves
   the fix pending with its value live; approved again, it captures its own value as
   BEFORE, and the rollback restores that.
2. `audit_isolated` - the opportunity engine fails whenever technical_seo has no output,
   where the orchestrator promises isolation.
3. `pipe_one_row` - two first crawls of a page leave two rows, and every later crawl of
   that URL fails.

`PROJECT.json` quotes the lines on both sides. Two more disagreements have no run of
their own; the models have them, and the properties say exactly what is true instead:

- Two captures on one day leave two snapshots of each keyword for its date. The docstring
  of the table (`growth/db.py`, lines 170 to 172) says that a unique constraint keeps one
  for each date; there is none. `CapturesAreWhole` is about one capture, not one date.
- A step whose action is named `Publish_page` is saved without asking for approval: the
  planner looks for "publish" as it is written (`planner.py`, line 145), the critic, who
  says that all publications pass through approval queues, in lower case (`critic.py`,
  line 35). `PlansAreGoverned` says which steps ask, `EstimatesAgree` that the critic
  misses an approval exactly where the two readings differ.

### Behaviours the models have that are not findings

- Governance: two approvals at once both publish; a parked fix can be live (its write
  timed out and landed); a crash between status and entry leaves a transition without
  one; an editor's change between BEFORE and write is overwritten and not captured.
- Runtime: two steps at once run the same node twice; a cancel is overwritten by a step
  that loaded its checkpoint before; a crash after a tool runs it again; a cyclic plan
  completes without its nodes; a paused or blocked plan is still stepped.
- Missions: a cancelled mission can come back to life, since a whole row read before is
  written after; a failure outside the vote leaves it in planning or executing.
- Crawler: redirect hops are asked neither of the gate nor of the domain; overlapping
  calls contact a host together and may disagree on its robots.txt; the robots cache
  is never renewed.
- Pipeline: concurrent upserts of one row leave the links of both; with file names or
  media ids contained in each other the wrong image is fixed (`NamesApart` excludes it);
  ignored issues get fixes in the request that ignores them and are raised again by the
  next crawl; in production nothing resolves media ids or link statuses, so that every
  fix is report-only.
- Knowledge: overlapping requests insert two rows of one version; a PATCH to null is not
  carried forward; an analysis of some sections drops the others; technical SEO is
  analysed before the keywords it would look at.
- Engines: options name the outputs of earlier tiers, which no engine reads;
  `_infer_fix_type` never answers `update_alt_text`; pages on a keyphrase of short words
  ("AI") share a topic and compete with nobody; nothing clips the shares a model answers
  of a content, nor an authority or its completeness in the options, so that scores leave
  their range, and a negative completeness turns the mean about.
- Gateway: failed attempts are not recorded in the usage; a retry may select the
  provider that has just failed; rate limiter and cache are called by nobody.
- Growth: a draft whose text generation failed can be approved and published; two
  decisions at once lose one; only publication asks for a status, every other operation
  is taken from any (the docstring of `content_asset.py` draws a chain); schedules are
  recorded and never run, as the production container has the fake queue; a keyword
  captured twice in a day counts twice in its visibility; changes of one moment are
  listed in any order; a model may score a review positive and label it negative; saving
  over another tenant's task answers success and saves nothing.
- Plans: `planner.plan` on a goal without a structured objective raises; `dependencies`
  is not validated, only `edges`, nor are durations, which may be negative; every plan
  has version 1; plan and graph are saved in two transactions.
- Memory: once a key has two rows every later access raises; an expired entry read by two
  threads removes a fresh one; learned penalties live in the process; all tools of a
  failed episode count as failed.
- Autonomy: a ranking that improved raises "ranking dropped"; a keyword gap fires two
  triggers; a merged goal takes its magnitude, context and constraints from whichever
  comes first; a warning a model is sure of may come before a critical event it is not;
  the comparison with earlier goals raises if one has no objective.
- SaaS: two resumes of one run execute its remaining nodes twice; a call lost between
  pause and suspension leaves a run nobody can find by its suspension.

## Proofs

All theorems hold for every value of the constants that satisfies the named
assumptions next to them (`GovernanceAssumption`, `RuntimeAssumption`,
`MissionsAssumption`, `AuditAssumption`, `WebAssumption`, `BoundAssumption`,
`ResultsAssumption`, `NamesAssumption`, `WorkflowAssumption`, `AgencyAssumption` and those
of the other service modules), every number of requests and every fault the modules
have; where a theorem is about requests in turn (`InTurn`, `OneByOne`, `~Overlap`) it says
so. Each rests on an inductive invariant that says what a request in the middle of its
line knows.

**Governance.** `Typing`, `Reversibility`, `WriteAheadRule`, `Accountability` from
`Invariance`. `AppliedIsReversible` is not inductive: whether `SetApplied` keeps it depends
on what the request did before. `IInv` adds what a request knows at each step
(`KnowsItsTask`), that a capture precedes every write, pending or in flight
(`WriteAhead`), and how many entries it has written (`Accounts`). Lemmas on `Append` say
that entries stay where they are, so that the latest capture can only be replaced by a
later one.

`InTurn` is the setting `gov_atomic` runs, for any number of fixes: one request at a
time, no crash, no edits, automatic fixes on media items of their own; calls may be
refused, and writes time out and land late. `TurnInv` says of each fix, at each call of the
request that works on it, which transitions are in the row (`RowMatches`) and which in the
trail (`TrailMatches`), and what the site shows against what was captured. From it
`History` proves `HistoryIsTrue`, and `Atomicity` that the service implements
`GovernanceAtomic`: a decision on an automatic fix takes effect where WordPress confirms
or fails the write, another where its status is set, and every other call is a stutter.

**Agent Runtime.** `RuntimeTyping`, `RuntimeOrder`, `RuntimeCompletion` from
`RuntimeInvariance`. The step that could break the order of tools is the one that works
on a stale checkpoint; `KnowsWhatRan` says that every copy of a checkpoint, in the row or
in a request's hands, lists only nodes that ran: stale copies forget, they never invent.
`EndsWhenDone` is for `Acyclic` graphs only: in one, a search that finds no node has
none left (`NothingLeft`). The lemmas are stated for any step of the runtime's variables
(`AnyStep`), so that `MissionProofs` uses them for the steps a mission makes. For one
worker without crashes (`OneByOne`) and an `Acyclic` plan, `RuntimeInTurn` proves
`ServedInOrder` and `RuntimeRefines` that the runtime implements `PlanRun`: `InTurn` says at
each call what the one request knows of the rows (`RowsKnown`), of the object it will save
(`HeldKnown`) and of the runs a node has left (`RunsKnown`); `PromiseStep` maps each save of
the checkpoint to a step of `PlanRun` and every other call to a stutter.

**Missions.** `MissionRecord`: a draft is always one legal transition further than some
row that was stored, so that whoever writes last writes a legal path. `MissionHearing`:
an assigned mission, stored or drafted, has its evidence. `MissionCompletion` (for `Acyclic`
plans) composes: a thread about to save "completed" has an answer the runtime gave
(`answer`), and the runtime's invariant says when it gives it.

`MissionSettles`: while nobody disturbs the mission only its supervisor has a thread at
work (`Alone`), so each row it read is still there when it writes, and the answer it acts
on is what the checkpoint says; hence an undisturbed mission whose thread is done has
ended as its plan did.

**Engine audit** (in `ServiceProofs`). `AuditTyping`, `AuditStatus`, `AuditClaims`,
`AuditAccounts`. The agreement of the two statuses rests on one fact: a list that once
had an entry is never written back empty, since each thread adds itself to whatever it
read. That nothing is unanswered rests on another: from its first step on an engine that
fits has an outcome in the orchestrator's own lists, which no copy overwrites.

**Crawler.** `CrawlTyping`, `CrawlPermitted`, `CrawlOnce`, `CrawlChains`, `CrawlExhausts` for
overlapping calls too, from `CrawlInvariance`: the start URL heads the queue and
everything queued shares its domain and is queued once (`QueueInv`), the walk follows the
redirects from the URL taken (`WalkInv`), and each page stands for a URL taken before the
one being tried (`PageInv`). One lemma for each action sums up what it does to its own
call, and a step of one call leaves the others' variables alone (`OthersSame`).
`CrawlExhausts` adds that a link of a page is queued, out of the domain, or still to be
considered (`SeenInv`). `CrawlCovers` and `CrawlPaced` assume `~Overlap`: then one call at
most is running (`Alone`), an answer of robots.txt that was read stays (`RobotsInv`), and
what is left of a sleep and the time since the last contact add up to the delay
(`SleepInv`), whatever ticks pass in between.

**Crawl pipeline.** `RowReferences`, `TwinIsMirror`, `RightImages`, `Answers`, all from one
invariant `PInv`. `IssuesStaged` and `FixesStaged` say at which stage of a request its rows
appear: a request's issues come in one transaction, one for each candidate, its fixes
with the answer that counts them. `RightImages` needs that the search of
`_resolve_image` returns the first match (`FirstIsLeast`) and that no other image matches
while names are apart. `Undisturbed` is about requests in turn: what `upsert_pages`
selected is what it overwrites, so a URL has one row with the links of its last crawl;
it holds until two requests were busy at once (`met`), and the theorem says no more.

**Workflows.** `WorkflowGovernance` from `WorkflowInvariance`: what a thread's copy says of
the approvals granted so far is true, however stale the copy is; with no two requests on
a run, its row is what the one thread that works on it says.

**Knowledge.** `KnowledgeSurvives`: between reading the latest version and inserting, a
request that met nobody holds exactly the latest row's edits; a forced analysis clears
what it replaces. Finding the latest version and the next number need a maximum; that
bounded sets of numbers have one, and that sets of numbers have a least element, are
lemmas proved from `NatLessThanWellFounded`, with no induction of the library.

**Growth.** `ContentGovernance`: a copy in hand is one step beyond an asset that was
stored; `AgencyApart`: who wrote a record last is the tenant it belongs to.
`RulesFireExactly`: for each event, `Exact` says what has fired, what is logged and what
the loop of its thread has still to do, and that these make up the rules that were due;
that an event without a thread and without a loss has nothing left to do is the
property. A step that handles one event leaves what is said of the others (`EventKept`).

**SaaS records.** `RecordsSurvive`: a draft in hand is the conversation stored plus one
exchange of its own, a request that found no row inserts the only one, as long as no two
requests met on the topic and no call of one was lost. `RecordsInv` is the conjunction of
what holds of chats, keyed rows, codes and comments, each with a lemma that steps on
another topic leave it alone.

**Gateway.** `CallsGoWhereTheyShould`: while a call goes through the list and health does
not change, every provider it has passed over was not healthy (`Routing`), and the list
has every enabled provider (`RegistryLists`, from the cardinality of the registry), so
that one is found if any is healthy. That the usage is the number of answers is a fact on
`Cardinality`: a new answer adds one index (`OneMoreAnswer`).

**Memory.** `MemoryAndLearning`: the row, score or calibration in the hands of a request
that met nobody is the one stored (`FactsInv`, `ScoresInv`); a thread about to drop the
working memory's entry has seen it expire, and whoever set a fresh one since has met it
(`SlotInv`); a report has its lesson or a request about to record it (`ReportsInv`).

**Goals.** `GoalsOnceADay`: a thread about to save a goal has compared it with every
goal of the day, and is the only one about to save one of its metric, unless the metric
is in `omet`, where two that compared theirs at once have met (`Compared`). What is
computed of the events (`ObservationsAgree`) follows from their types and from one more
invariant, that they are stored in the order of their times (`InTime`): a group is what
its earliest event gathers (`Belongs`), one event at a time; sorting by importance keeps
every event and puts none before a more important one, and the confidence, clipped to a
percentage, weighs less than the step from informative to critical (`ImpactGrows`);
goals of one metric merge into the same whichever comes first but for what the first one
gives (`MergingCommutes`). For any series, moving zero moves sums and quartiles alike
(`MovedAgrees`, `SortedMoves`); a series turned round spreads alike and slopes the other
way (`TurnedAgrees`), which is that a sum does not depend on the order of what it adds.

**Report versions.** `VersionsStayTrue`, from a step lemma of each family (`ReportsStep`,
`GrowthStep`): while nobody met, at most one request is at work on a scope and the number
it holds is one more than there are rows of the scope (`NumbersKnown`); the greatest
version is the number of rows because each row counts those up to itself
(`GreatestCountsAll`).

**What reports say.** `ReportsStayTrue`: the types that the same invariant keeps are all
that is needed of the state, the rest is about the operators. `ScoresAgree`: a weighted
mean of the components with evidence lies between the least and the greatest of them
(`OverallAverages`, from bounds on two sums) while no weight is negative, and a page's
richness is a percentage, its depth if the shares answered are (`SharesMeet`).
`GroupsAgree`: what is true of the groups of the first k keywords stays true with one
more (`ClusteredParts`), so that each keyword ends in one group (`KeywordsParted`);
likewise each page with a keyphrase is in a cluster (`TopicsCover`); pages of a topic
have one keyphrase and so compete if it has a word of more than two letters
(`TopicsCompete`). `GrowthAgrees`: read backward, reviews have the same mean
(`MeanIgnoresOrder`, from `SumReindexed`); the first drafts are those with few pressing
reviews before them (`DraftsAreOwed`, from `OrderedSorts`); and each score stays on its
scale, that of reviews if their ratings do, as nothing in the code clips a rating.

**Rankings.** `CapturesStayWhole`: what a capture holds is what was tracked on its
device when it read (`Capturing`), however many keywords were added since; its answers,
in any order, give each keyword one row, because keywords of one device have different
texts (`AnswersWhole`); its rows have a time no other capture has (`Dates`), so that
saving them moves them whole (`MovedWhole`) and touches no other capture's. Between two
changes of a keyword it stands where it stood (`SteadySince`: take the earliest snapshot
where it does not), and a list cut anywhere has all changes newer than the last it
shows; hence those shown of one keyword follow one another (`RankingsFollow`).

**Plans.** `PlansStayGoverned`: whatever graph is answered, `Planned` of it has edges
between its own steps, and a step asks for approval exactly if its name as written is
about publishing, its tool listed or not (`PublishingAsks`, `PlannedIsGoverned`), so
that the critic misses an approval exactly where a publication is written otherwise
(`CountsAgree`); what a request holds while it saves graph and simulation is the plan
that is stored, since no plan is changed. That a plan can be executed is the correctness
of two algorithms. The depth-first search of the validator is a recursive function on
nodes and marks: it has exactly one solution (`SearchExists`, `SearchIsUnique`), and
where it finds no cycle the nodes can be ranked above their successors
(`SearchedIsRanked`), so that no path returns (`RankedIsAcyclic`). Kahn's algorithm
keeps a set of done steps closed under dependencies (`RoundOrders`), and of a ranked
graph leaves none over (`AllOrdered`). Of steps that depend on nothing a chain has at
most one (`ChainHasOneFree`), which is why no chain outlasts the simulated hours
(`ChainsFit`).

**Data.** `DataLemmas` has the induction those proofs need. The library states
induction with an operator, which no prover here can instantiate; stated with a set (of the
numbers, or of the subsets of a finite set, for which something holds: `AllNumbers`,
`AllSubsets`) it can be, from well-foundedness. From it follow that a fold and a recursive
function exist (`FoldExists`, `RecursionExists`), and with them what sums are of: any
enumeration (`SumTakes`), a reindexing (`SumReindexed`), a linear combination (`SumIsLinear`);
that sorting puts in order and loses nothing (`OrderedSorts`); and what flattening returns.

Only model-checked: what needs fairness (`DecisionsDecide`, `PlanSettles`, `JobEnds`,
`CrawlEnds`), as the prover has no liveness and no ENABLED. Every other property of a
passing run is a theorem.

## Not modelled

- Texts, prompts, HTML, layouts: data nothing here depends on. HTTP and SQL are
  represented by their outcomes. Scores are modelled where a property is about them.
- Brain (knowledge graph, decisions, scheduler): pure construction of views from rows,
  with no state of its own that a later step reads; the scheduler has no caller.
- API surface, core and observability, web applications, design system, end-to-end
  tests, scripts: wiring, types, pages and counters. Tenants do not interact where each
  query names its tenant, and the modules have one (`Agency`, where it is the question,
  has several). The freshness check of `get_page` compares two dates.
- Missions: blackboard, decision history, registry and monitor are append-only logs and
  views that the mission does not read back. Runtime: metrics, episodes and lessons.
- SaaS: analytics, presence, usage meter, billing webhooks, command palette and dashboards
  keep counters of the process or compute one answer. Creating a workflow definition; no
  route edits one, so that definitions are constants. A run of a definition that was
  registered with the event router and never saved (its resume answers 404 after its
  suspension was removed) is outside the model, whose workflows are all saved.
- Enterprise intelligence: executive summaries, self-optimisation, operations, strategy
  prediction, arbitration of recommendations, enterprise graph, KPI monitor, predictive
  alerts, rollback planning and replanning return a value to callers that are not in the
  repository; nothing wires the package to the API.
- Intelligence: prompt texts, scores of answers and the conversion of proposals to fixes.
- Memory: retrieval by similarity, knowledge base, the ranking of the tool selector.
- Growth: provider adapters (fetching), texts of outreach.

## Plan

What would add most next, in order:

1. Liveness of missions under a supervisor that is alone, and of workflows whose approvals
   are answered.
2. The unsaved definition of a workflow, and the conversion of proposals to fixes.

## Running the checks

`tlc -config GovConcurrent.cfg MCGovernance` checks a run (`PROJECT.json` names module and
configuration of each), `tlapm GovernanceProofs.tla` the proofs of a module. The longest
runs take about three minutes on two workers, the longest proofs (`ServiceProofs` and
`AutomationProofs`) about fifteen.
