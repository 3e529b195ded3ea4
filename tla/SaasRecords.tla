---------------------------- MODULE SaasRecords ----------------------------
(***************************************************************************)
(* The SaaS services beside the workflows: copilot conversations, records  *)
(* kept one to a key (a user's role, an app's installation, a goal's       *)
(* explanation), discussions with mentions, canvas nodes, the marketplace  *)
(* and its authorization codes.  Routes run in a pool of threads, and a    *)
(* record is looked up before it is inserted or updated.                   *)
(*                                                                         *)
(* Abstractions: one tenant; a prompt, a role, a list of scopes or a graph *)
(* is the number of the request that brought it; fresh ids are numbers     *)
(* too; signatures, prompts' cleaning and metrics are left out.            *)
(***************************************************************************)
EXTENDS Service

CONSTANTS
  Chat,      \* ids of conversations
  App,       \* apps a developer may register
  Subject,   \* users that have a role, goals that have an explanation
  Person,    \* who is mentioned
  MaxServed  \* bound on the requests

ASSUME SaasAssumption == MaxServed \in Nat

UniqueTable == {"explanation"}   \* goal_id is declared unique
Table == {"role", "installation"} \cup UniqueTable
KeysOf(table) == IF table = "installation" THEN App ELSE Subject
Keys == {<<table, key>> : table \in Table, key \in App \cup Subject}

VARIABLES
  sserved,   \* requests begun
  schat,     \* [Chat -> the rows' messages]
  sreplied,  \* [Chat -> prompts that were answered, in order]
  srow,      \* [Keys -> the values of its rows]
  swritten,  \* [Keys -> the last value whose save was answered]
  sapp,      \* apps registered
  sthread,   \* comments: the request and the mentions not yet notified
  snode,     \* nodes of the canvas
  scode,     \* [authorization code -> "issued", "used"]
  stoken,    \* codes for which tokens were given out, in order
  smet,      \* conversations, keys and codes on which requests have met,
             \* or a call was lost
  spc, sreq  \* [Thread -> next call, request]

sdata == <<schat, sreplied, srow, swritten, sapp, sthread, snode, scode,
           stoken>>
svars == <<sserved, sdata, smet, spc, sreq>>

NoWork == [id |-> 0, on |-> <<"nothing">>, draft |-> <<>>, found |-> FALSE]

SInit ==
  /\ sserved = 0
  /\ schat = [c \in Chat |-> <<>>] /\ sreplied = [c \in Chat |-> <<>>]
  /\ srow = [k \in Keys |-> <<>>] /\ swritten = [k \in Keys |-> 0]
  /\ sapp = {} /\ sthread = {} /\ snode = {}
  /\ scode = <<>> /\ stoken = <<>>
  /\ smet = {}
  /\ spc = [t \in Thread |-> "idle"] /\ sreq = [t \in Thread |-> NoWork]

(* A request on something begins, whoever else is at it.                   *)
Serve(t, step, on, draft) ==
  /\ spc[t] = "idle" /\ sserved < MaxServed
  /\ sserved' = sserved + 1
  /\ spc' = [spc EXCEPT ![t] = step]
  /\ sreq' = [sreq EXCEPT ![t] = [id |-> sserved', on |-> on,
                                 draft |-> draft, found |-> FALSE]]
  /\ smet' = IF \E u \in Thread : sreq[u].on = on THEN smet \cup {on} ELSE smet

Continue(t, step) ==
  /\ spc' = [spc EXCEPT ![t] = step]
  /\ UNCHANGED <<sserved, smet>>
Reply(t) ==
  /\ spc' = [spc EXCEPT ![t] = "idle"]
  /\ sreq' = [sreq EXCEPT ![t] = NoWork]
  /\ UNCHANGED <<sserved, smet>>

-----------------------------------------------------------------------------
(* Copilot: the conversation is read, the model is asked, and prompt and   *)
(* answer (or an apology) are written back with all that was read.         *)
Said(id, by) == [by |-> by, of |-> id]

GetSession(t) ==
  /\ \E c \in Chat : Serve(t, "complete", <<"chat", c>>,
                           Append(schat[c], Said(sserved + 1, "user")))
  /\ UNCHANGED sdata

CompleteChat(t) ==
  /\ spc[t] = "complete"
  /\ \E by \in {"assistant", "apology"} :
       sreq' = [sreq EXCEPT ![t].draft = Append(@, Said(sreq[t].id, by))]
  /\ Continue(t, "save_chat")
  /\ UNCHANGED sdata

(* Mutant: only the last exchange is written.                              *)
SaveSessionLast(t) ==
  /\ spc[t] = "save_chat"
  /\ LET c == sreq[t].on[2]
         n == Len(sreq[t].draft)
     IN  /\ schat' = [schat EXCEPT ![c] = SubSeq(sreq[t].draft, n - 1, n)]
         /\ sreplied' = [sreplied EXCEPT ![c] = Append(@, sreq[t].id)]
  /\ Reply(t)
  /\ UNCHANGED <<srow, swritten, sapp, sthread, snode, scode, stoken>>

SaveSession(t) ==
  /\ spc[t] = "save_chat"
  /\ LET c == sreq[t].on[2]
     IN  /\ schat' = [schat EXCEPT ![c] = sreq[t].draft]
         /\ sreplied' = [sreplied EXCEPT ![c] = Append(@, sreq[t].id)]
  /\ Reply(t)
  /\ UNCHANGED <<srow, swritten, sapp, sthread, snode, scode, stoken>>

-----------------------------------------------------------------------------
(* Records of one row to a key.                                            *)
RegisterApp(t, a) ==
  /\ Serve(t, "answer", <<"app", a>>, <<>>)
  /\ sapp' = sapp \cup {a}
  /\ UNCHANGED <<schat, sreplied, srow, swritten, sthread, snode, scode,
                 stoken>>

AssignRole(t, user) ==
  Serve(t, "look_up", <<"role", user>>, <<>>) /\ UNCHANGED sdata
InstallApp(t, a) ==
  /\ a \in sapp
  /\ Serve(t, "look_up", <<"installation", a>>, <<>>) /\ UNCHANGED sdata
(* GET reasoning, which compiles what it does not find.                    *)
CompileReasoning(t, goal) ==
  /\ srow[<<"explanation", goal>>] = <<>>
  /\ Serve(t, "look_up", <<"explanation", goal>>, <<>>) /\ UNCHANGED sdata

(* scalar_one_or_none: two rows of a key are an error.                     *)
LookUp(t) ==
  /\ spc[t] = "look_up"
  /\ IF Len(srow[sreq[t].on]) > 1 THEN Reply(t)
     ELSE /\ sreq' = [sreq EXCEPT ![t].found = srow[sreq[t].on] # <<>>]
          /\ Continue(t, "write")
  /\ UNCHANGED sdata

WriteRecord(t) ==
  /\ spc[t] = "write"
  /\ LET k == sreq[t].on
         refused == k[1] \in UniqueTable /\ ~sreq[t].found /\ srow[k] # <<>>
     IN  IF refused THEN UNCHANGED <<srow, swritten>>
         ELSE /\ srow' = [srow EXCEPT ![k] =
                   IF sreq[t].found THEN [@ EXCEPT ![1] = sreq[t].id]
                                    ELSE Append(@, sreq[t].id)]
              /\ swritten' = [swritten EXCEPT ![k] = sreq[t].id]
  /\ Reply(t)
  /\ UNCHANGED <<schat, sreplied, sapp, sthread, snode, scode, stoken>>

-----------------------------------------------------------------------------
(* Discussions: the comment, and a notification for each mention, in       *)
(* transactions of their own.  The thread is not looked for.               *)
AddComment(t) ==
  /\ \E mentions \in SUBSET Person :
       /\ Serve(t, "notify", <<"comment", sserved + 1>>, <<>>)
       /\ sthread' = sthread \cup {[id |-> sserved + 1, to |-> mentions]}
  /\ UNCHANGED <<schat, sreplied, srow, swritten, sapp, snode, scode, stoken>>

NotifyMention(t) ==
  /\ spc[t] = "notify"
  /\ \E c \in sthread : c.id = sreq[t].id /\
       IF c.to = {} THEN Reply(t) /\ UNCHANGED sthread
       ELSE \E p \in c.to :
              /\ sthread' = (sthread \ {c}) \cup {[c EXCEPT !.to = @ \ {p}]}
              /\ UNCHANGED <<sserved, smet, spc, sreq>>
  /\ UNCHANGED <<schat, sreplied, srow, swritten, sapp, snode, scode, stoken>>

AddNode(t) ==
  /\ Serve(t, "answer", <<"node", sserved + 1>>, <<>>)
  /\ snode' = snode \cup {sserved + 1}
  /\ UNCHANGED <<schat, sreplied, srow, swritten, sapp, sthread, scode, stoken>>
DeleteNode(t, n) ==
  /\ Serve(t, "answer", <<"node", n>>, <<>>)
  /\ snode' = snode \ {n}
  /\ UNCHANGED <<schat, sreplied, srow, swritten, sapp, sthread, scode, stoken>>

-----------------------------------------------------------------------------
(* Authorization codes, in memory: a code is checked, then marked used.    *)
Authorize(t) ==
  /\ Serve(t, "answer", <<"code", Len(scode) + 1>>, <<>>)
  /\ scode' = Append(scode, "issued")
  /\ UNCHANGED <<schat, sreplied, srow, swritten, sapp, sthread, snode, stoken>>

ExchangeCode(t, code) ==
  /\ scode[code] = "issued"
  /\ Serve(t, "mark_used", <<"code", code>>, <<>>)
  /\ UNCHANGED sdata

MarkUsed(t) ==
  /\ spc[t] = "mark_used"
  /\ scode' = [scode EXCEPT ![sreq[t].on[2]] = "used"]
  /\ stoken' = Append(stoken, sreq[t].on[2])
  /\ Reply(t)
  /\ UNCHANGED <<schat, sreplied, srow, swritten, sapp, sthread, snode>>

Answer(t) == spc[t] = "answer" /\ Reply(t) /\ UNCHANGED sdata

(* The database refuses a call or the process dies.                        *)
LoseRecord(t) ==
  /\ Lossy /\ spc[t] # "idle"
  /\ smet' = smet \cup {sreq[t].on}
  /\ spc' = [spc EXCEPT ![t] = "idle"]
  /\ sreq' = [sreq EXCEPT ![t] = NoWork]
  /\ UNCHANGED <<sserved, sdata>>

SNext ==
  \E t \in Thread :
    \/ GetSession(t) \/ CompleteChat(t) \/ SaveSession(t)
    \/ \E a \in App : RegisterApp(t, a) \/ InstallApp(t, a)
    \/ \E x \in Subject : AssignRole(t, x) \/ CompileReasoning(t, x)
    \/ LookUp(t) \/ WriteRecord(t)
    \/ AddComment(t) \/ NotifyMention(t)
    \/ AddNode(t) \/ \E n \in snode : DeleteNode(t, n)
    \/ Authorize(t) \/ \E c \in DOMAIN scode : ExchangeCode(t, c)
    \/ MarkUsed(t) \/ Answer(t) \/ LoseRecord(t)

SSpec == SInit /\ [][SNext]_svars

-----------------------------------------------------------------------------
Ids == 0 .. MaxServed
Message == [by : {"user", "assistant", "apology"}, of : Ids]

STypeOK ==
  /\ sserved \in Ids
  /\ schat \in [Chat -> Seq(Message)] /\ sreplied \in [Chat -> Seq(Ids)]
  /\ srow \in [Keys -> Seq(Ids)] /\ swritten \in [Keys -> Ids]
  /\ sapp \subseteq App
  /\ sthread \subseteq [id : Ids, to : SUBSET Person] /\ snode \subseteq Ids
  /\ scode \in Seq({"issued", "used"}) /\ stoken \in Seq(DOMAIN scode)
  /\ spc \in [Thread -> {"idle", "complete", "save_chat", "look_up", "write",
                         "notify", "mark_used", "answer"}]
  /\ \A t \in Thread : sreq[t].id \in Ids /\ sreq[t].draft \in Seq(Message)

(* A conversation alternates prompts with their own answers; with no two   *)
(* chats on it at once, it holds everything that was answered, in order.   *)
ConversationsKeepTurns ==
  \A c \in Chat :
    LET said == schat[c]
    IN  /\ \A i \in DOMAIN said :
             /\ said[i].by = "user" <=> i % 2 = 1
             /\ i % 2 = 0 => said[i].of = said[i - 1].of
        /\ <<"chat", c>> \notin smet =>
             [i \in 1 .. Len(said) \div 2 |-> said[2 * i].of] = sreplied[c]

(* A goal never has two explanations.  On what requests have not met and   *)
(* no call was lost, a key has one row with the value last saved, a code   *)
(* gave one token, and whoever a comment mentions has been notified once   *)
(* the request is over.                                                    *)
RecordsKeepLastWrite ==
  /\ \A k \in Keys :
       /\ k[1] \in UniqueTable => Len(srow[k]) <= 1
       /\ k \notin smet =>
            srow[k] = IF swritten[k] = 0 THEN <<>> ELSE <<swritten[k]>>
  /\ \A i, j \in DOMAIN stoken :
       stoken[i] = stoken[j] => i = j \/ <<"code", stoken[i]>> \in smet
  /\ \A c \in sthread :
       \/ c.to = {} \/ <<"comment", c.id>> \in smet
       \/ \E t \in Thread : sreq[t].on = <<"comment", c.id>>

(* The invariant of the records: chats keep their turns, and keys their    *)
(* one row.                                                                *)
RecordsHold == STypeOK /\ ConversationsKeepTurns /\ RecordsKeepLastWrite
=============================================================================
