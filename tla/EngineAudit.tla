---------------------------- MODULE EngineAudit -----------------------------
(***************************************************************************)
(* One audit of the EngineOrchestrator: engines in four tiers, those of    *)
(* tier 1 on a thread pool, each recording its outcome in lists of the     *)
(* orchestrator and in the audit job's row.                                *)
(*                                                                         *)
(* The row keeps its engines in JSON lists, so that recording one is a     *)
(* read of the list and a later write of the whole list, and engines of    *)
(* one tier do this at the same time.                                      *)
(*                                                                         *)
(* Abstractions: what an engine computes is whether it succeeds; the       *)
(* lists hold no order, and an engine listed twice is listed; the          *)
(* persistence of outputs swallows its own failures and is left out; the   *)
(* orchestrator is a library object whose caller gives the target and the  *)
(* capabilities, and two audits share nothing.                             *)
(***************************************************************************)
EXTENDS Naturals, FiniteSets

CONSTANTS
  Requests,     \* sets of engines that may be asked for (capabilities)
  MaxWorkers,   \* threads of the pool
  Faults        \* which faults a run shows

(* _PIPELINE and what each engine's supports() accepts.                    *)
Tier == [technical_seo |-> 1, site_architecture |-> 1,
         keyword_intelligence |-> 1, content_intelligence |-> 1,
         competitor_intelligence |-> 1, backlink_intelligence |-> 1,
         topical_authority |-> 1,
         seo_scoring |-> 2, opportunity |-> 3, recommendation |-> 4]
Engine == DOMAIN Tier
PerPage == {"technical_seo", "keyword_intelligence", "content_intelligence",
            "seo_scoring"}

ASSUME AuditAssumption ==
  /\ Requests \subseteq SUBSET Engine
  /\ MaxWorkers \in Nat \ {0}
  /\ Faults \subseteq {"engine", "database"}

VARIABLES
  row,         \* the AuditJobRow: status, engines_completed, engines_failed
  stage,       \* "create", "start", "run" and "over"
  wanted,      \* the engines asked for
  kind,        \* the target: one page, or the site
  completed,   \* the orchestrator's own lists
  failed,
  outputs,     \* engines whose output is at hand for later tiers
  faulty,      \* history: engines whose own analysis went wrong
  lost,        \* history: a call to the database failed
  pc,          \* [Engine -> how far _run_one is]
  mark,        \* [Engine -> what it records in the row]
  seen         \* [Engine -> the list it read from the row]

vars == <<row, stage, wanted, kind, completed, failed, outputs, faulty, lost,
          pc, mark, seen>>
asked == <<wanted, kind>>
lists == <<completed, failed, outputs, faulty>>
tasks == <<pc, mark, seen>>

Status == {"none", "pending", "running", "completed", "partial", "failed"}
Finished == {"completed", "partial", "failed"}

(* Page engines need a page; every other engine can fall back on the site. *)
Supported(e) == e \in PerPage => kind = "page"

(* _engine_options looks technical_seo up before it asks whether it is     *)
(* there.                                                                  *)
OptionsFail(e) == e = "opportunity" /\ "technical_seo" \notin outputs

Init ==
  /\ row = [status |-> "none", done |-> {}, failed |-> {}]
  /\ stage = "create"
  /\ wanted \in Requests
  /\ kind \in {"page", "site"}
  /\ completed = {} /\ failed = {} /\ outputs = {}
  /\ faulty = {} /\ lost = FALSE
  /\ pc = [e \in Engine |-> "waiting"]
  /\ mark = [e \in Engine |-> "done"]
  /\ seen = [e \in Engine |-> {}]

Create ==
  /\ stage = "create"
  /\ row' = [row EXCEPT !.status = "pending"]
  /\ stage' = "start"
  /\ UNCHANGED <<asked, lists, tasks, lost>>

MarkRunning ==
  /\ stage = "start"
  /\ row' = [row EXCEPT !.status = "running"]
  /\ stage' = "run"
  /\ UNCHANGED <<asked, lists, tasks, lost>>

-----------------------------------------------------------------------------
(* _run_one                                                                *)

BusyEngines == {e \in Engine : pc[e] \in {"read", "write"}}

(* The tiers run one after the other; the pool takes tier 1's engines as   *)
(* threads become free.                                                    *)
MayStart(e) ==
  /\ stage = "run"
  /\ e \in wanted /\ pc[e] = "waiting"
  /\ \A d \in wanted : Tier[d] < Tier[e] => pc[d] = "over"
  /\ Cardinality(BusyEngines) < MaxWorkers

Records(e, what) ==
  /\ mark' = [mark EXCEPT ![e] = what]
  /\ pc' = [pc EXCEPT ![e] = "read"]

(* No target fits: the engine is neither completed nor failed.             *)
Skip(e) ==
  /\ MayStart(e)
  /\ ~Supported(e)
  /\ pc' = [pc EXCEPT ![e] = "over"]
  /\ UNCHANGED <<row, stage, asked, lists, mark, seen, lost>>

Succeed(e) ==
  /\ MayStart(e)
  /\ Supported(e) /\ ~OptionsFail(e)
  /\ outputs' = outputs \cup {e}
  /\ completed' = completed \cup {e}
  /\ Records(e, "done")
  /\ UNCHANGED <<row, stage, asked, failed, faulty, seen, lost>>

(* Mutant: an exception of the engine is not recorded.                     *)
FailUnrecorded(e) ==
  /\ MayStart(e) /\ Supported(e)
  /\ OptionsFail(e) \/ "engine" \in Faults
  /\ pc' = [pc EXCEPT ![e] = "over"]
  /\ UNCHANGED <<row, stage, asked, lists, mark, seen, lost>>

(* analyze() returns Err ("failed": one more exception handler follows) or *)
(* an exception reaches the last handler ("last").                         *)
Fail(e) ==
  /\ MayStart(e)
  /\ Supported(e)
  /\ \/ /\ OptionsFail(e)
        /\ Records(e, "last")
        /\ UNCHANGED faulty
     \/ /\ ~OptionsFail(e) /\ "engine" \in Faults
        /\ \E what \in {"failed", "last"} : Records(e, what)
        /\ faulty' = faulty \cup {e}
  /\ failed' = failed \cup {e}
  /\ UNCHANGED <<row, stage, asked, completed, outputs, seen, lost>>

(* mark_engine_complete / mark_engine_failed: the list is read ...         *)
ReadList(e) ==
  /\ pc[e] = "read"
  /\ seen' = [seen EXCEPT ![e] =
                IF mark[e] = "done" THEN row.done ELSE row.failed]
  /\ pc' = [pc EXCEPT ![e] = "write"]
  /\ UNCHANGED <<row, stage, asked, lists, mark, lost>>

(* ... and written back with the engine added.                             *)
WriteList(e) ==
  /\ pc[e] = "write"
  /\ row' = IF mark[e] = "done" THEN [row EXCEPT !.done = seen[e] \cup {e}]
                                ELSE [row EXCEPT !.failed = seen[e] \cup {e}]
  /\ pc' = [pc EXCEPT ![e] = "over"]
  /\ UNCHANGED <<stage, asked, lists, mark, seen, lost>>

(* The database refuses a call: the engine counts as failed and is marked  *)
(* so, unless this already was the last handler, which swallows.           *)
DatabaseFails(e) ==
  /\ "database" \in Faults
  /\ pc[e] \in {"read", "write"}
  /\ lost' = TRUE
  /\ IF mark[e] = "last"
       THEN pc' = [pc EXCEPT ![e] = "over"] /\ UNCHANGED <<failed, mark>>
       ELSE Records(e, "last") /\ failed' = failed \cup {e}
  /\ UNCHANGED <<row, stage, asked, completed, outputs, faulty, seen>>

-----------------------------------------------------------------------------
(* mark_finished: the status comes from the row, not from the lists.       *)
AllOver == \A e \in wanted : pc[e] = "over"

(* Mutant: complete when every requested engine is.                        *)
FinishByRequest ==
  /\ stage = "run" /\ AllOver
  /\ row' = [row EXCEPT !.status =
               IF wanted \subseteq row.done THEN "completed"
               ELSE IF row.done # {} THEN "partial" ELSE "failed"]
  /\ stage' = "over"
  /\ UNCHANGED <<asked, lists, tasks, lost>>

(* Mutant: a failure in a tier ends the audit without a final status.      *)
FinishUnlessFailed ==
  /\ stage = "run" /\ AllOver
  /\ row' = IF failed # {} THEN row ELSE [row EXCEPT !.status = "completed"]
  /\ stage' = "over"
  /\ UNCHANGED <<asked, lists, tasks, lost>>

Finish ==
  /\ stage = "run" /\ AllOver
  /\ row' = [row EXCEPT !.status =
               IF row.failed = {} THEN "completed"
               ELSE IF row.done # {} THEN "partial" ELSE "failed"]
  /\ stage' = "over"
  /\ UNCHANGED <<asked, lists, tasks, lost>>

(* The database refuses to create, start or finish the job: the exception  *)
(* reaches the caller and the row stays as it is.                          *)
Abort ==
  /\ "database" \in Faults
  /\ stage \in {"create", "start"} \/ (stage = "run" /\ AllOver)
  /\ lost' = TRUE
  /\ stage' = "over"
  /\ UNCHANGED <<row, asked, lists, tasks>>

EngineStep(e) ==
  \/ Skip(e) \/ Succeed(e) \/ Fail(e)
  \/ ReadList(e) \/ WriteList(e) \/ DatabaseFails(e)

Next ==
  \/ Create \/ MarkRunning \/ Finish \/ Abort
  \/ \E e \in Engine : EngineStep(e)

Spec == Init /\ [][Next]_vars

(* run_audit runs its statements, and the pool its threads, to the end.    *)
FairSpec == Spec /\ WF_vars(Next)

-----------------------------------------------------------------------------
(* What a list of engine outcomes makes of an audit: OrchestratorResult.   *)
ResultStatus ==
  IF failed # {} /\ completed = {} THEN "failed"
  ELSE IF failed # {} THEN "partial" ELSE "completed"

TypeOK ==
  /\ row \in [status : Status, done : SUBSET Engine, failed : SUBSET Engine]
  /\ stage \in {"create", "start", "run", "over"}
  /\ wanted \in SUBSET Engine
  /\ kind \in {"page", "site"}
  /\ completed \in SUBSET Engine /\ failed \in SUBSET Engine
  /\ outputs \in SUBSET Engine /\ faulty \in SUBSET Engine
  /\ lost \in BOOLEAN
  /\ pc \in [Engine -> {"waiting", "read", "write", "over"}]
  /\ mark \in [Engine -> {"done", "failed", "last"}]
  /\ seen \in [Engine -> SUBSET Engine]

(* Although engines overwrite each other's entries in the row, its final   *)
(* status is the one run_audit returns, as long as the database answers:   *)
(* a lost entry never empties a list (mark_finished and                    *)
(* OrchestratorResult.status decide apart).                                *)
StatusesAgree ==
  row.status \in Finished /\ ~lost => row.status = ResultStatus

(* "A failure in any engine is isolated": when the audit is over, every    *)
(* engine that was asked for and fits the target has run, and its outcome  *)
(* is in the orchestrator's lists, whatever failed.                        *)
EveryEngineAnswers ==
  row.status \in Finished =>
    \A e \in wanted : Supported(e) => e \in completed \cup failed

(* The row never claims an outcome the orchestrator did not see.           *)
RowClaimsOnlyOutcomes ==
  row.done \subseteq completed /\ row.failed \subseteq failed

(* What a reader of a finished job can rely on: nothing is left unanswered *)
(* and nothing is made up, although the row may have lost entries.         *)
OutcomesAccountedFor == EveryEngineAnswers /\ RowClaimsOnlyOutcomes

(* Every job that the database lets end ends with a final status.          *)
JobEnds == <>(row.status \in Finished \/ lost)

(* "A failure in any engine is isolated ... and the rest of the pipeline   *)
(* still runs": an engine is recorded as failed for a failure of its own.  *)
FailuresAreIsolated == ~lost => failed \subseteq faulty
=============================================================================
