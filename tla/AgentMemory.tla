---------------------------- MODULE AgentMemory ----------------------------
(***************************************************************************)
(* What the agents remember and learn: facts and workflow templates, one   *)
(* row to a key; the state of goals; episodes, and the experience summed   *)
(* up from them; reports and lessons of executions; the scores of tools    *)
(* and of providers; the calibration of predictions; and a working memory  *)
(* of the process, whose entries expire.                                   *)
(*                                                                         *)
(* Abstractions: one tenant; a fact, a template or a goal's state is the   *)
(* number of the request that brought it; latencies and costs are left     *)
(* out; rates are in hundredths, averaged in whole numbers.                *)
(***************************************************************************)
EXTENDS Service, Integers, FiniteSetsExt

CONSTANTS
  FactKey,    \* keys of facts, names of templates
  Learner,    \* tools and providers that are scored
  Execution,  \* executions reflected on
  GoalId,     \* goals that have a record
  Ttl,        \* lifetimes given to entries of the working memory
  MaxMemory,  \* bound on the requests
  MaxClock    \* bound on the time

ASSUME MemoryAssumption ==
  MaxMemory \in Nat /\ MaxClock \in Nat /\ Ttl \subseteq Nat

FactTables == {"fact", "template"} \X FactKey
Scores == {"score"} \X Learner
Slot == <<"context", "k">>   \* the key of the working memory looked at

VARIABLES
  mserved,   \* requests begun
  mrow,      \* [FactTables -> the values of its rows]
  mgoal,     \* rows of goals: record id, goal, value, in order
  mepisode,  \* episodes: [ok, tools used], in order
  mreport,   \* [Execution -> reports], each with its counts
  mlesson,   \* lessons: execution and counts
  mscore,    \* [Learner -> row: attempts and successes]
  mcalib,    \* the calibrated category's row, if any
  mctx,      \* the working memory's entry, if any: value and expiry
  mset,      \* the entry last set and not deleted
  mclock,    \* time
  mlast,     \* [FactTables -> the last value whose save was answered]
  mtried,    \* [Learner -> attempts and successes whose record was answered]
  mcrossed,  \* what requests have met on, or whose call was lost
  mpc, mreq  \* [Thread -> next call, request]

mdata == <<mrow, mgoal, mepisode, mreport, mlesson, mscore, mcalib, mctx,
           mset, mlast, mtried>>
mvars == <<mserved, mdata, mclock, mcrossed, mpc, mreq>>

Never == [attempts |-> 0, successes |-> 0]
Free == [id |-> 0, on |-> <<"nothing">>, held |-> <<>>]

MInit ==
  /\ mserved = 0 /\ mclock = 0
  /\ mrow = [k \in FactTables |-> <<>>]
  /\ mgoal = <<>> /\ mepisode = <<>> /\ mlesson = {}
  /\ mreport = [e \in Execution |-> <<>>]
  /\ mscore = [x \in Learner |-> Never] /\ mtried = [x \in Learner |-> Never]
  /\ mcalib = <<>> /\ mctx = <<>> /\ mset = <<>>
  /\ mlast = [k \in FactTables |-> 0]
  /\ mcrossed = {}
  /\ mpc = [t \in Thread |-> "idle"] /\ mreq = [t \in Thread |-> Free]

Ask(t, step, on, held) ==
  /\ mpc[t] = "idle" /\ mserved < MaxMemory
  /\ mserved' = mserved + 1
  /\ mpc' = [mpc EXCEPT ![t] = step]
  /\ mreq' = [mreq EXCEPT ![t] = [id |-> mserved', on |-> on, held |-> held]]
  /\ mcrossed' = IF \E u \in Thread : mreq[u].on = on
                 THEN mcrossed \cup {on} ELSE mcrossed
  /\ UNCHANGED mclock
Proceed(t, step) ==
  /\ mpc' = [mpc EXCEPT ![t] = step]
  /\ UNCHANGED <<mserved, mclock, mcrossed>>
Tell(t) ==
  /\ mpc' = [mpc EXCEPT ![t] = "idle"]
  /\ mreq' = [mreq EXCEPT ![t] = Free]
  /\ UNCHANGED <<mserved, mclock, mcrossed>>

-----------------------------------------------------------------------------
(* Facts and templates: the key is looked up, then its row is written or   *)
(* inserted, in one session; two rows of a key are an error from then on.  *)
Remember(t, k) ==
  Ask(t, "find_row", k, <<>>) /\ UNCHANGED mdata

FindRow(t) ==
  /\ mpc[t] = "find_row"
  /\ IF Len(mrow[mreq[t].on]) > 1 THEN Tell(t)
     ELSE /\ mreq' = [mreq EXCEPT ![t].held = mrow[mreq[t].on]]
          /\ Proceed(t, "put_row")
  /\ UNCHANGED mdata

PutRow(t) ==
  /\ mpc[t] = "put_row"
  /\ LET k == mreq[t].on
     IN  /\ mrow' = [mrow EXCEPT ![k] =
                IF mreq[t].held # <<>> THEN [@ EXCEPT ![1] = mreq[t].id]
                                       ELSE Append(@, mreq[t].id)]
         /\ mlast' = [mlast EXCEPT ![k] = mreq[t].id]
  /\ Tell(t)
  /\ UNCHANGED <<mgoal, mepisode, mreport, mlesson, mscore, mcalib, mctx, mset,
                 mtried>>

(* A goal's record is kept by its own id, which a request may leave out;   *)
(* read by goal, the first row answers.                                    *)
SaveGoalRecord(t, g) ==
  /\ \E id \in {mgoal[i].id : i \in DOMAIN mgoal} \cup {mserved + 1} :
       /\ Ask(t, "tell", <<"goal", g>>, <<>>)
       /\ LET row == [id |-> id, goal |-> g, value |-> mserved + 1]
              old == {i \in DOMAIN mgoal : mgoal[i].id = id}
          IN  mgoal' = IF old = {} THEN Append(mgoal, row)
                       ELSE [i \in DOMAIN mgoal |->
                               IF i \in old THEN row ELSE mgoal[i]]
  /\ UNCHANGED <<mrow, mepisode, mreport, mlesson, mscore, mcalib, mctx, mset,
                 mlast, mtried>>
GoalState(g) ==
  LET rows == {i \in DOMAIN mgoal : mgoal[i].goal = g}
  IN  IF rows = {} THEN 0 ELSE mgoal[Min(rows)].value

-----------------------------------------------------------------------------
(* Episodes, and what is summed up from them: all tools of a failed        *)
(* episode count as failed.                                                *)
RecordEpisode(t) ==
  /\ \E ok \in BOOLEAN, tools \in (SUBSET Learner) \ {{}} :
       /\ Ask(t, "tell", <<"episode", mserved + 1>>, <<>>)
       /\ mepisode' = Append(mepisode, [ok |-> ok, tools |-> tools])
  /\ UNCHANGED <<mrow, mgoal, mreport, mlesson, mscore, mcalib, mctx, mset,
                 mlast, mtried>>

Failures(tool) ==
  Cardinality({i \in DOMAIN mepisode :
                 ~mepisode[i].ok /\ tool \in mepisode[i].tools})
Bottlenecks == {x \in Learner : Failures(x) > 0}
SuccessRate ==
  IF mepisode = <<>> THEN 100
  ELSE (100 * Cardinality({i \in DOMAIN mepisode : mepisode[i].ok}))
         \div Len(mepisode)
UpdatedWeight(tool) ==   \* of a bottleneck
  100 - (IF 10 * Failures(tool) > 50 THEN 50 ELSE 10 * Failures(tool))
Strategies ==
  LET gated == {x \in Bottlenecks : Failures(x) >= 2}
  IN  IF gated = {} THEN {<<"parallel_batching">>}
      ELSE {<<"serialize_and_approve", x>> : x \in gated}

(* reflect_on_execution: a report, then a lesson, each saved on its own.   *)
ReflectOnExecution(t, e) ==
  /\ \E failed \in 0 .. 1 :
       /\ Ask(t, "record_lesson", <<"execution", e>>, <<failed>>)
       /\ mreport' = [mreport EXCEPT ![e] =
                        Append(@, [id |-> mserved + 1, failed |-> failed])]
  /\ UNCHANGED <<mrow, mgoal, mepisode, mlesson, mscore, mcalib, mctx, mset,
                 mlast, mtried>>
RecordLesson(t) ==
  /\ mpc[t] = "record_lesson"
  /\ mlesson' = mlesson \cup {[of |-> mreq[t].on[2], id |-> mreq[t].id,
                               failed |-> mreq[t].held[1]]}
  /\ Tell(t)
  /\ UNCHANGED <<mrow, mgoal, mepisode, mreport, mscore, mcalib, mctx, mset,
                 mlast, mtried>>

-----------------------------------------------------------------------------
(* Mutant: a failure of a tool not known yet is counted as a success.      *)
CountedKindly(row, ok) ==
  [attempts |-> row.attempts + 1,
   successes |-> row.successes + (IF ok \/ row = Never THEN 1 ELSE 0)]

(* record_tool_attempt, record_provider_attempt: read, count, write.       *)
Counted(row, ok) ==
  [attempts |-> row.attempts + 1,
   successes |-> row.successes + (IF ok THEN 1 ELSE 0)]
ReadScore(t, x) ==
  /\ \E ok \in BOOLEAN :
       Ask(t, "save_score", <<"score", x>>, <<mscore[x], ok>>)
  /\ UNCHANGED mdata
SaveScore(t) ==
  /\ mpc[t] = "save_score"
  /\ LET x == mreq[t].on[2]
         ok == mreq[t].held[2]
     IN  /\ mscore' = [mscore EXCEPT ![x] = Counted(mreq[t].held[1], ok)]
         /\ mtried' = [mtried EXCEPT ![x] =
              [attempts |-> @.attempts + 1,
               successes |-> @.successes + (IF ok THEN 1 ELSE 0)]]
  /\ Tell(t)
  /\ UNCHANGED <<mrow, mgoal, mepisode, mreport, mlesson, mcalib, mctx, mset,
                 mlast>>

(* calibrate_category: halfway to the newest rates, the factor in bounds.  *)
Halfway(old, new) == (old + new) \div 2
Factor(predicted, actual) ==
  LET ratio == IF predicted > 0 THEN (100 * actual) \div predicted ELSE 100
  IN  IF ratio < 10 THEN 10 ELSE IF ratio > 100 THEN 100 ELSE ratio
ReadCalibration(t) ==
  /\ \E predicted, actual \in {0, 90} :
       Ask(t, "save_calibration", <<"calibration">>,
           <<IF mcalib = <<>> THEN predicted
             ELSE Halfway(mcalib[1], predicted),
             IF mcalib = <<>> THEN actual ELSE Halfway(mcalib[2], actual)>>)
  /\ UNCHANGED mdata
SaveCalibration(t) ==
  /\ mpc[t] = "save_calibration"
  /\ LET h == mreq[t].held
     IN  mcalib' = <<h[1], h[2], Factor(h[1], h[2])>>
  /\ Tell(t)
  /\ UNCHANGED <<mrow, mgoal, mepisode, mreport, mlesson, mscore, mctx, mset,
                 mlast, mtried>>

-----------------------------------------------------------------------------
(* Working memory: a reader that finds an expired entry removes whatever   *)
(* is there by then; clear_expired does so for all it has listed.          *)
SetContext(t) ==
  /\ \E ttl \in Ttl :
       /\ Ask(t, "tell", Slot, <<>>)
       /\ mctx' = <<mserved + 1, mclock + ttl>>
  /\ mset' = mctx'
  /\ UNCHANGED <<mrow, mgoal, mepisode, mreport, mlesson, mscore, mcalib, mlast,
                 mtried>>

GetContext(t) ==
  /\ mctx # <<>>
  /\ IF mclock > mctx[2] THEN Ask(t, "drop", Slot, <<>>)
                         ELSE Ask(t, "tell", Slot, Append(mctx, mclock))
  /\ UNCHANGED mdata
DropContext(t) ==
  /\ mpc[t] = "drop"
  /\ mctx' = <<>>
  /\ Tell(t)
  /\ UNCHANGED <<mrow, mgoal, mepisode, mreport, mlesson, mscore, mcalib, mset,
                 mlast, mtried>>
DeleteContext(t) ==
  /\ mctx # <<>>
  /\ Ask(t, "tell", Slot, <<>>)
  /\ mctx' = <<>> /\ mset' = <<>>
  /\ UNCHANGED <<mrow, mgoal, mepisode, mreport, mlesson, mscore, mcalib, mlast,
                 mtried>>

TellOf(t) == mpc[t] = "tell" /\ Tell(t) /\ UNCHANGED mdata

LoseMemoryCall(t) ==
  /\ Lossy /\ mpc[t] \notin {"idle", "drop"}
  /\ mcrossed' = mcrossed \cup {mreq[t].on}
  /\ mpc' = [mpc EXCEPT ![t] = "idle"] /\ mreq' = [mreq EXCEPT ![t] = Free]
  /\ UNCHANGED <<mserved, mclock, mdata>>
(* Time matters to the working memory alone.                               *)
PassTime ==
  /\ mset # <<>> /\ mclock < MaxClock /\ mclock' = mclock + 1
  /\ UNCHANGED <<mserved, mdata, mcrossed, mpc, mreq>>

MNext ==
  \/ PassTime
  \/ \E t \in Thread :
       \/ \E k \in FactTables : Remember(t, k)
       \/ FindRow(t) \/ PutRow(t)
       \/ \E g \in GoalId : SaveGoalRecord(t, g)
       \/ RecordEpisode(t)
       \/ \E e \in Execution : ReflectOnExecution(t, e)
       \/ RecordLesson(t)
       \/ \E x \in Learner : ReadScore(t, x)
       \/ SaveScore(t) \/ ReadCalibration(t) \/ SaveCalibration(t)
       \/ SetContext(t) \/ GetContext(t) \/ DropContext(t) \/ DeleteContext(t)
       \/ TellOf(t) \/ LoseMemoryCall(t)

MSpec == MInit /\ [][MNext]_mvars

-----------------------------------------------------------------------------
MemTypeOK ==
  /\ mserved \in 0 .. MaxMemory /\ mclock \in 0 .. MaxClock
  /\ \A k \in FactTables : mrow[k] \in Seq(1 .. MaxMemory)
  /\ \A i, j \in DOMAIN mgoal : mgoal[i].id = mgoal[j].id => i = j
  /\ \A g \in GoalId : GoalState(g) \in 0 .. MaxMemory
  /\ \A x \in Learner : mscore[x].successes \in 0 .. mscore[x].attempts
  /\ mcalib # <<>> => /\ {mcalib[1], mcalib[2]} \subseteq 0 .. 100
                      /\ mcalib[3] \in 10 .. 100
  /\ mctx # <<>> => mctx[1] \in 1 .. mserved
  /\ mpc \in [Thread -> {"idle", "find_row", "put_row", "tell", "drop",
                "record_lesson", "save_score", "save_calibration"}]

(* On what requests have not met and no call was lost, a key has one row   *)
(* with the value last saved, and the working memory has the entry last    *)
(* set until it expires; what it answers has never expired.                *)
MemoryKeepsTheLast ==
  /\ \A k \in FactTables : k \notin mcrossed =>
       mrow[k] = IF mlast[k] = 0 THEN <<>> ELSE <<mlast[k]>>
  /\ Slot \notin mcrossed =>
       IF mctx = <<>> THEN mset = <<>> \/ mset[2] < mclock ELSE mctx = mset
  /\ \A t \in Thread : mreq[t].on = Slot /\ Len(mreq[t].held) = 3 =>
       mreq[t].held[2] >= mreq[t].held[3]

(* What is learned follows what was tried: where attempts have not met and *)
(* no call was lost, a score counts each attempt with its outcome and each *)
(* report has its lesson; a tool that failed loses weight, one that failed *)
(* twice is never left to run in parallel, and without failures no weight  *)
(* is lost.                                                                *)
LearningFollowsAttempts ==
  /\ \A x \in Learner : <<"score", x>> \notin mcrossed =>
       mscore[x] = mtried[x]
  /\ \A e \in Execution : <<"execution", e>> \notin mcrossed =>
       \A i \in DOMAIN mreport[e] :
         \/ \E l \in mlesson : l = [of |-> e, id |-> mreport[e][i].id,
                                   failed |-> mreport[e][i].failed]
         \/ \E t \in Thread : mreq[t].id = mreport[e][i].id
  /\ SuccessRate = 100 =>
       Bottlenecks = {} /\ Strategies = {<<"parallel_batching">>}
  /\ \A x \in Bottlenecks : UpdatedWeight(x) \in 50 .. 90
  /\ \A x \in Learner : Failures(x) >= 2 =>
       /\ <<"parallel_batching">> \notin Strategies
       /\ <<"serialize_and_approve", x>> \in Strategies

(* The invariant of the memory: it keeps what was saved last, and learns   *)
(* from what was tried.                                                    *)
MemoryHolds == MemTypeOK /\ MemoryKeepsTheLast /\ LearningFollowsAttempts
=============================================================================
