--------------------------- MODULE EndpointAdmin ---------------------------
(***************************************************************************)
(* Administration of managed endpoints: the tables app_endpoints and       *)
(* app_endpoint_policies and the four operations of the API management     *)
(* handler that write them.  Each statement is a step of its own, no       *)
(* operation uses a transaction, and any number of them overlap.           *)
(***************************************************************************)
EXTENDS Integers, FiniteSets

CONSTANTS
  Places,      \* an app, a method and a path
  Versions,
  Default,     \* "v1": the version of a definition that names none
  Ids,         \* ids an INSERT INTO app_endpoints may draw
  PolicyIds,   \* ids an INSERT INTO app_endpoint_policies may draw
  Specs,       \* the columns no operation changes: service, action, schema, masking
  Policies,    \* required permission and rate limit
  Admins,      \* goroutines that serve an administrator's request
  Faults,      \* TRUE: statements may fail
  NoRow

ASSUME AdminAssumption ==
  /\ Default \in Versions
  /\ Faults \in BOOLEAN
  /\ NoRow \notin [place : Places, version : Versions, spec : Specs,
                   status : {"active", "retired"}]
  /\ NoRow \notin [endpoint : Ids, policy : Policies]

VARIABLES
  endpoints,   \* app_endpoints: id -> row, or NoRow
  policies,    \* app_endpoint_policies: id -> row, or NoRow
  admin,       \* goroutine -> what it holds between two statements
  closed       \* history: ids retired while no activation was under way, nor since

adminVars == << endpoints, policies, admin, closed >>

Status == {"active", "retired"}
EndpointRow == [place : Places, version : Versions, spec : Specs, status : Status]
PolicyRow == [endpoint : Ids, policy : Policies]
IdleAdmin == [pc |-> "idle"]
AdminState ==
  {IdleAdmin} \union [pc : {"create"}, row : EndpointRow]
              \union [pc : {"update"}, id : Ids, row : EndpointRow]
              \union [pc : {"publish"}]
              \union [pc : {"createPolicy"}, row : PolicyRow]
              \union [pc : {"updatePolicy"}, id : PolicyIds, row : PolicyRow]

AdminTypeOK ==
  /\ endpoints \in [Ids -> EndpointRow \union {NoRow}]
  /\ policies \in [PolicyIds -> PolicyRow \union {NoRow}]
  /\ admin \in [Admins -> AdminState]
  /\ closed \subseteq Ids

AdminInit ==
  /\ endpoints = [id \in Ids |-> NoRow]
  /\ policies = [id \in PolicyIds |-> NoRow]
  /\ admin = [a \in Admins |-> IdleAdmin]
  /\ closed = {}

\* GetByMethodPath
At(p, v) == {id \in Ids : /\ endpoints[id] # NoRow
                          /\ endpoints[id].place = p
                          /\ endpoints[id].version = v}

\* GetByEndpointID: no ORDER BY and no unique constraint, so any of these.
PolicyRowsOf(e) == {id \in PolicyIds : policies[id] # NoRow /\ policies[id].endpoint = e}

Goto(a, state) == admin' = [admin EXCEPT ![a] = state]
Activating(id) == \E a \in Admins : /\ admin[a].pc = "update" /\ admin[a].id = id
                                    /\ admin[a].row.status = "active"

-----------------------------------------------------------------------------
\* DefineEndpoint

\* The SELECT, with Default where the request names no version: a hit is refused,
\* and a failed query is read as no hit.
Define(a, p, v, spec) ==
  /\ admin[a] = IdleAdmin
  /\ Faults \/ At(p, v) = {}
  /\ Goto(a, [pc |-> "create",
              row |-> [place |-> p, version |-> v, spec |-> spec, status |-> "active"]])
  /\ UNCHANGED << endpoints, policies, closed >>

\* The INSERT; the loser of a race meets the constraint in Fail.
Create(a, id) ==
  /\ admin[a].pc = "create"
  /\ endpoints[id] = NoRow
  /\ At(admin[a].row.place, admin[a].row.version) = {}
  /\ endpoints' = [endpoints EXCEPT ![id] = admin[a].row]
  /\ Goto(a, [pc |-> "publish"])
  /\ UNCHANGED << policies, closed >>

-----------------------------------------------------------------------------
\* RetireEndpoint and ActivateEndpoint

Change(a, id, status) ==
  /\ admin[a] = IdleAdmin
  /\ endpoints[id] # NoRow
  /\ endpoints[id].status # status
  /\ Goto(a, [pc |-> "update", id |-> id,
              row |-> [endpoints[id] EXCEPT !.status = status]])
  /\ closed' = IF status = "active" THEN closed \ {id} ELSE closed
  /\ UNCHANGED << endpoints, policies >>

Activate(a, id) == Change(a, id, "active")
Retire(a, id) == Change(a, id, "retired")

\* Fault: the statement leaves the status column out.
UpdateForgettingStatus(a) ==
  /\ admin[a].pc = "update"
  /\ LET id == admin[a].id
         row == admin[a].row IN
     /\ endpoints' = endpoints
     /\ closed' = IF row.status = "retired" /\ ~Activating(id)
                  THEN closed \union {id} ELSE closed
     /\ Goto(a, [pc |-> "publish"])
  /\ UNCHANGED << policies >>

\* The UPDATE of the whole row, as it was read.
Update(a) ==
  /\ admin[a].pc = "update"
  /\ LET id == admin[a].id
         row == admin[a].row IN
     /\ endpoints' = [endpoints EXCEPT ![id] = row]
     /\ closed' = IF row.status = "retired" /\ ~Activating(id)
                  THEN closed \union {id} ELSE closed
     /\ Goto(a, [pc |-> "publish"])
  /\ UNCHANGED << policies >>

\* The event, then the answer; an error of Publish is dropped.
Publish(a) ==
  /\ admin[a].pc = "publish"
  /\ Goto(a, IdleAdmin)
  /\ UNCHANGED << endpoints, policies, closed >>

-----------------------------------------------------------------------------
\* UpdatePolicy

\* The SELECT finds a row, which will be overwritten by its id.
ReadPolicy(a, e, pol, id) ==
  /\ admin[a] = IdleAdmin
  /\ id \in PolicyRowsOf(e)
  /\ Goto(a, [pc |-> "updatePolicy", id |-> id,
              row |-> [endpoint |-> e, policy |-> pol]])
  /\ UNCHANGED << endpoints, policies, closed >>

\* It finds none; a failed query looks the same.
MissPolicy(a, e, pol) ==
  /\ admin[a] = IdleAdmin
  /\ Faults \/ PolicyRowsOf(e) = {}
  /\ Goto(a, [pc |-> "createPolicy", row |-> [endpoint |-> e, policy |-> pol]])
  /\ UNCHANGED << endpoints, policies, closed >>

UpdatePolicy(a) ==
  /\ admin[a].pc = "updatePolicy"
  /\ policies' = [policies EXCEPT ![admin[a].id] = admin[a].row]
  /\ Goto(a, IdleAdmin)
  /\ UNCHANGED << endpoints, closed >>

\* The INSERT; without the endpoint the foreign key refuses it, in Fail.
CreatePolicy(a, id) ==
  /\ admin[a].pc = "createPolicy"
  /\ policies[id] = NoRow
  /\ endpoints[admin[a].row.endpoint] # NoRow
  /\ policies' = [policies EXCEPT ![id] = admin[a].row]
  /\ Goto(a, IdleAdmin)
  /\ UNCHANGED << endpoints, closed >>

\* A statement that writes fails: by a constraint, or by a fault.
Fail(a) ==
  /\ \/ /\ admin[a].pc = "create"
        /\ At(admin[a].row.place, admin[a].row.version) # {} \/ Faults
     \/ admin[a].pc = "update" /\ Faults
     \/ admin[a].pc = "updatePolicy" /\ Faults
     \/ /\ admin[a].pc = "createPolicy"
        /\ endpoints[admin[a].row.endpoint] = NoRow \/ Faults
  /\ Goto(a, IdleAdmin)
  /\ UNCHANGED << endpoints, policies, closed >>

AdminStep(a) ==
  \/ \E p \in Places, v \in Versions, spec \in Specs : Define(a, p, v, spec)
  \/ \E id \in Ids : Create(a, id) \/ Activate(a, id) \/ Retire(a, id)
  \/ Update(a) \/ Publish(a)
  \/ \E e \in Ids, pol \in Policies, id \in PolicyIds : ReadPolicy(a, e, pol, id)
  \/ \E e \in Ids, pol \in Policies : MissPolicy(a, e, pol)
  \/ UpdatePolicy(a) \/ \E id \in PolicyIds : CreatePolicy(a, id)
  \/ Fail(a)

-----------------------------------------------------------------------------
\* A route has at most one endpoint, so that the gateway's lookup, which takes
\* the first row it gets, has one answer: of two overlapping definitions that both
\* saw the route free, one is refused by the table.
OneEndpointPerRoute ==
  \A i, j \in Ids :
    /\ endpoints[i] # NoRow
    /\ endpoints[j] # NoRow
    /\ endpoints[i].place = endpoints[j].place
    /\ endpoints[i].version = endpoints[j].version
    => i = j

\* An endpoint that was retired while nobody was activating it stays retired until
\* somebody asks for its activation, although every status change writes back a
\* whole row it read earlier and several of them may be between their statements.
ClosedIsRetired ==
  \A id \in closed : endpoints[id] # NoRow /\ endpoints[id].status = "retired"
=============================================================================
