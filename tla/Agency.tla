------------------------------- MODULE Agency -------------------------------
(***************************************************************************)
(* Agency management of the growth layer: organisations, their clients,    *)
(* teams and workspaces, tasks and notifications.  Each is upserted by its *)
(* id in one transaction.  Only tasks and notifications have a tenant; a   *)
(* row of another tenant is left as it is, and the caller is told it was   *)
(* saved, but for the update of a task's status, which finds no task.      *)
(*                                                                         *)
(* Abstractions: names, texts and members are left out.                    *)
(***************************************************************************)
EXTENDS Service

CONSTANTS
  Id,         \* ids of rows, the requests' own or made up
  Party,      \* tenants of the containers that share the database
  TaskStatus

(* No tenant has the name that stands for "there is no row".               *)
ASSUME AgencyAssumption == "none" \notin Party

VARIABLES
  gorg,       \* ids of the organisations
  gclient,    \* [Id -> the organisation of the client, or "none"]
  gteam,      \* [Id -> the organisation of the team, or "none"]
  gworkspace, \* [Id -> the organisation and the first client, or NoWorkspace]
  gtask,      \* [Id -> tenant, organisation, status; or NoAgencyTask]
  gnotice     \* [Id -> tenant, recipient, read; or NoNotice]

gactors == <<gorg, gclient, gteam, gworkspace>>
agvars == <<gactors, gtask, gnotice>>

NoWorkspace == [organization |-> "none", client |-> "none"]
NoAgencyTask ==
  [tenant |-> "none", organization |-> "none", status |-> "none", by |-> "none"]
NoNotice == [tenant |-> "none", recipient |-> "none", by |-> "none"]

AgInit ==
  /\ gorg = {}
  /\ gclient = [i \in Id |-> "none"]
  /\ gteam = [i \in Id |-> "none"]
  /\ gworkspace = [i \in Id |-> NoWorkspace]
  /\ gtask = [i \in Id |-> NoAgencyTask]
  /\ gnotice = [i \in Id |-> NoNotice]

-----------------------------------------------------------------------------
(* No foreign key is checked: a client's organisation need not exist.      *)
SaveOrganization(i) ==
  /\ gorg' = gorg \cup {i}
  /\ UNCHANGED <<gclient, gteam, gworkspace, gtask, gnotice>>

SaveClient(i, organization) ==
  /\ gclient' = [gclient EXCEPT ![i] = organization]
  /\ UNCHANGED <<gorg, gteam, gworkspace, gtask, gnotice>>

SaveTeam(i, organization) ==
  /\ gteam' = [gteam EXCEPT ![i] = organization]
  /\ UNCHANGED <<gorg, gclient, gworkspace, gtask, gnotice>>

(* The client of a workspace is the first of its client_refs.              *)
SaveWorkspace(i, organization, clients) ==
  /\ gworkspace' = [gworkspace EXCEPT ![i] =
       [organization |-> organization,
        client |-> IF clients = <<>> THEN "none" ELSE clients[1]]]
  /\ UNCHANGED <<gorg, gclient, gteam, gtask, gnotice>>

(* Mutant: a task is upserted like a client, with its tenant.              *)
SaveAnyTask(i, tenant, organization, status) ==
  /\ gtask' = [gtask EXCEPT ![i] =
       [tenant |-> IF @.tenant = "none" THEN tenant ELSE @.tenant,
        organization |-> organization, status |-> status, by |-> tenant]]
  /\ UNCHANGED <<gactors, gnotice>>

SaveTask(i, tenant, organization, status) ==
  /\ gtask' = [gtask EXCEPT ![i] =
       IF @.tenant \in {"none", tenant}
         THEN [tenant |-> tenant, organization |-> organization,
               status |-> status, by |-> tenant]
         ELSE @]
  /\ UNCHANGED <<gactors, gnotice>>

UpdateTaskStatus(i, tenant, status) ==
  /\ gtask[i].tenant = tenant
  /\ gtask' = [gtask EXCEPT ![i].status = status, ![i].by = tenant]
  /\ UNCHANGED <<gactors, gnotice>>

(* Whatever the channel, the notification is saved, and nothing is sent.   *)
SaveNotification(i, tenant, recipient) ==
  /\ gnotice' = [gnotice EXCEPT ![i] =
       IF @.tenant \in {"none", tenant}
         THEN [tenant |-> tenant, recipient |-> recipient, by |-> tenant]
         ELSE @]
  /\ UNCHANGED <<gactors, gtask>>

(* list_notifications, get_organization and the lists of an organisation.  *)
ListNotifications(tenant, recipient) ==
  {i \in Id : gnotice[i].tenant = tenant /\ gnotice[i].recipient = recipient}
ListClients(organization) == {i \in Id : gclient[i] = organization}
ListTeams(organization) == {i \in Id : gteam[i] = organization}

AgNext ==
  \E i, j \in Id :
    \/ SaveOrganization(i) \/ SaveClient(i, j) \/ SaveTeam(i, j)
    \/ \E clients \in {<<>>, <<j>>} : SaveWorkspace(i, j, clients)
    \/ \E tenant \in Party :
         \/ \E status \in TaskStatus :
              \/ SaveTask(i, tenant, j, status)
              \/ UpdateTaskStatus(i, tenant, status)
         \/ SaveNotification(i, tenant, j)

AgSpec == AgInit /\ [][AgNext]_agvars

-----------------------------------------------------------------------------
AgTypeOK ==
  /\ gorg \subseteq Id
  /\ gclient \in [Id -> Id \cup {"none"}] /\ gteam \in [Id -> Id \cup {"none"}]
  /\ gworkspace \in
       [Id -> [organization : Id \cup {"none"}, client : Id \cup {"none"}]]
  /\ gtask \in [Id -> [tenant : Party, organization : Id, status : TaskStatus,
                       by : Party] \cup {NoAgencyTask}]
  /\ gnotice \in [Id -> [tenant : Party, recipient : Id, by : Party]
                         \cup {NoNotice}]

(* A task or a notification was last written by the tenant it belongs to,  *)
(* which is the one that created it, and shows in no other tenant's list.  *)
TenantsKeepApart ==
  /\ \A i \in Id : /\ gtask[i].by = gtask[i].tenant
                  /\ gnotice[i].by = gnotice[i].tenant
  /\ \A p, q \in Party, i \in Id :
       p # q => ListNotifications(p, i) \cap ListNotifications(q, i) = {}

(* The invariant of the agency: tenants do not reach into each other.      *)
AgencyHolds == AgTypeOK /\ TenantsKeepApart
=============================================================================
