------------------------------ MODULE Gateway ------------------------------
(***************************************************************************)
(* Requests on their way through the router's protected group: JWTAuth,    *)
(* TenantResolver and Pipeline.Enforce.  Every query, call to Redis or     *)
(* call to the backend is a step of its own, while administrators change   *)
(* the endpoint and its policies.  The permission check and the counter    *)
(* are PermissionCache and RateLimiter, seen here from outside, and the    *)
(* backend's answer comes from DynamicBackend or from another service.     *)
(***************************************************************************)
EXTENDS EndpointAdmin

CONSTANTS
  Requests,    \* requests, each of which arrives once
  Elsewhere,   \* bound: other processes count an endpoint's requests up to this
  NoPerm       \* a policy whose required permission is empty

ASSUME GatewayAssumption ==
  /\ Elsewhere \in Nat
  /\ \A pol \in Policies : pol.limit \in Nat
  /\ NoRow \notin Policies

VARIABLES
  req,         \* request -> where it is and what it read
  count,       \* Redis: endpoint -> requests counted in this window
  counted,     \* history: the requests that were counted
  called,      \* history: the requests that reached a backend
  seen         \* history: request -> what the tables said since it arrived

gatewayVars == << req, count, counted, called, seen >>
vars == << endpoints, policies, admin, closed,
           req, count, counted, called, seen >>

NewRequest == [pc |-> "new"]
Reply == {"unauthorized", "badRequest", "next", "gone", "internal", "forbidden",
          "tooMany", "invalid", "badGateway", "served"}
Refusals == {"unauthorized", "badRequest", "next", "gone", "internal", "forbidden"}
Waiting == {"policy", "permission", "rate", "backend"}
RequestState ==
  {NewRequest}
  \union [pc : {"lookup"}, place : Places]
  \union [pc : Waiting, place : Places, id : Ids, policy : Policies \union {NoRow},
          blind : BOOLEAN, granted : BOOLEAN]
  \union [pc : {"done"}, place : Places, reply : Reply, blind : BOOLEAN,
          granted : BOOLEAN]

\* What a request to place p could be told at one moment.
View(p) ==
  {word \in {"active", "open"} : \E id \in At(p, Default) :
     \/ word = "active" /\ endpoints[id].status = "active"
     \/ word = "open" /\ PolicyRowsOf(id) = {}
     \/ word = "open" /\ \E r \in PolicyRowsOf(id) : policies[r].policy.perm = NoPerm}
Views == SUBSET {"active", "open"}

TypeOK ==
  /\ AdminTypeOK
  /\ req \in [Requests -> RequestState]
  /\ count \in [Ids -> Nat]
  /\ counted \subseteq Requests
  /\ called \subseteq Requests
  /\ seen \in [Requests -> SUBSET Views]

Init ==
  /\ AdminInit
  /\ req = [q \in Requests |-> NewRequest]
  /\ count = [id \in Ids |-> 0]
  /\ counted = {}
  /\ called = {}
  /\ seen = [q \in Requests |-> {}]

Finish(q, reply) ==
  req' = [req EXCEPT ![q] =
    [pc |-> "done", place |-> @.place, reply |-> reply,
     blind |-> IF @.pc = "lookup" THEN FALSE ELSE @.blind,
     granted |-> IF @.pc = "lookup" THEN FALSE ELSE @.granted]]

\* Header checks that end a request before its first query: no valid token, or an
\* application id or an organization id that does not parse.  A request outside the
\* pipeline's prefixes or without an application id goes to the handler behind it.
Turned(q, p, reply) ==
  /\ req[q] = NewRequest
  /\ req' = [req EXCEPT ![q] = [pc |-> "done", place |-> p, reply |-> reply,
                                blind |-> FALSE, granted |-> FALSE]]
  /\ UNCHANGED << count, counted, called >>

Unauthenticated(q, p) == Turned(q, p, "unauthorized")
Malformed(q, p) == Turned(q, p, "badRequest")
Unmanaged(q, p) == Turned(q, p, "next")

Arrive(q, p) ==
  /\ req[q] = NewRequest
  /\ req' = [req EXCEPT ![q] = [pc |-> "lookup", place |-> p]]
  /\ UNCHANGED << count, counted, called >>

\* Fault: the status of the row is not looked at.
LookupAnyStatus(q, id) ==
  /\ req[q].pc = "lookup"
  /\ id \in At(req[q].place, Default)
  /\ req' = [req EXCEPT ![q] =
               [pc |-> "policy", place |-> @.place, id |-> id, policy |-> NoRow,
                blind |-> FALSE, granted |-> FALSE]]
  /\ UNCHANGED << count, counted, called >>

\* The endpoint of the route, version "v1".
Lookup(q, id) ==
  /\ req[q].pc = "lookup"
  /\ id \in At(req[q].place, Default)
  /\ IF endpoints[id].status # "active" THEN Finish(q, "gone")
     ELSE req' = [req EXCEPT ![q] =
                    [pc |-> "policy", place |-> @.place, id |-> id, policy |-> NoRow,
                     blind |-> FALSE, granted |-> FALSE]]
  /\ UNCHANGED << count, counted, called >>

\* No endpoint; a failed query looks the same, and the request goes on unmanaged.
LookupMisses(q) ==
  /\ req[q].pc = "lookup"
  /\ Faults \/ At(req[q].place, Default) = {}
  /\ Finish(q, "next")
  /\ UNCHANGED << count, counted, called >>

AfterPermission(policy) ==
  IF policy # NoRow /\ policy.limit > 0 THEN "rate" ELSE "backend"

AfterPolicy(policy) ==
  IF policy # NoRow /\ policy.perm # NoPerm THEN "permission" ELSE AfterPermission(policy)

Policy(q, r) ==
  /\ req[q].pc = "policy"
  /\ r \in PolicyRowsOf(req[q].id)
  /\ req' = [req EXCEPT ![q].policy = policies[r].policy,
                        ![q].pc = AfterPolicy(policies[r].policy)]
  /\ UNCHANGED << count, counted, called >>

\* Fault: a policy that demands a permission and cannot be checked is skipped.
PolicyMissesAny(q) ==
  /\ req[q].pc = "policy"
  /\ req' = [req EXCEPT ![q].pc = AfterPolicy(NoRow)]
  /\ UNCHANGED << count, counted, called >>

PolicyMisses(q) ==
  /\ req[q].pc = "policy"
  /\ PolicyRowsOf(req[q].id) = {}
  /\ req' = [req EXCEPT ![q].pc = AfterPolicy(NoRow)]
  /\ UNCHANGED << count, counted, called >>

\* The error of the query is dropped: no policy.
PolicyFails(q) ==
  /\ Faults
  /\ req[q].pc = "policy"
  /\ req' = [req EXCEPT ![q].pc = AfterPolicy(NoRow), ![q].blind = TRUE]
  /\ UNCHANGED << count, counted, called >>

\* HasPermission says yes, says no, or fails.
Permitted(q) ==
  /\ req[q].pc = "permission"
  /\ req' = [req EXCEPT ![q].pc = AfterPermission(req[q].policy), ![q].granted = TRUE]
  /\ UNCHANGED << count, counted, called >>

Denied(q) ==
  /\ req[q].pc = "permission"
  /\ Finish(q, "forbidden")
  /\ UNCHANGED << count, counted, called >>

PermissionFails(q) ==
  /\ Faults
  /\ req[q].pc = "permission"
  /\ Finish(q, "internal")
  /\ UNCHANGED << count, counted, called >>

\* Fault: the counter comes before the permission.
CountEarly(q) ==
  /\ req[q].pc \in {"permission", "rate"}
  /\ count' = [count EXCEPT ![req[q].id] = @ + 1]
  /\ counted' = counted \union {q}
  /\ IF count[req[q].id] + 1 > req[q].policy.limit THEN Finish(q, "tooMany")
     ELSE req' = [req EXCEPT ![q].pc = IF @ = "rate" THEN "backend" ELSE @]
  /\ UNCHANGED called

\* checkRateLimit: INCR and the comparison.
Count(q) ==
  /\ req[q].pc = "rate"
  /\ count' = [count EXCEPT ![req[q].id] = @ + 1]
  /\ counted' = counted \union {q}
  /\ IF count[req[q].id] + 1 > req[q].policy.limit THEN Finish(q, "tooMany")
     ELSE req' = [req EXCEPT ![q].pc = "backend"]
  /\ UNCHANGED called

\* Its error is taken for a request over the limit.
CountFails(q) ==
  /\ Faults
  /\ req[q].pc = "rate"
  /\ Finish(q, "tooMany")
  /\ UNCHANGED << count, counted, called >>

\* The interceptors refuse the body: DynamicBackend says which.
Reject(q) ==
  /\ req[q].pc = "backend"
  /\ Finish(q, "invalid")
  /\ UNCHANGED << count, counted, called >>

\* The resolver answers, with whatever status.
Serve(q) ==
  /\ req[q].pc = "backend"
  /\ called' = called \union {q}
  /\ Finish(q, "served")
  /\ UNCHANGED << count, counted >>

\* It returns an error.
ServeFails(q) ==
  /\ Faults
  /\ req[q].pc = "backend"
  /\ called' = called \union {q}
  /\ Finish(q, "badGateway")
  /\ UNCHANGED << count, counted >>

\* A request that another process serves is counted.
CountElsewhere(id) ==
  /\ endpoints[id] # NoRow
  /\ count[id] < Elsewhere
  /\ count' = [count EXCEPT ![id] = @ + 1]
  /\ UNCHANGED << req, counted, called >>

\* The counter's key expires.
Expire(id) ==
  /\ count[id] # 0
  /\ count' = [count EXCEPT ![id] = 0]
  /\ UNCHANGED << req, counted, called >>

Progress(q) ==
  \/ \E id \in Ids : Lookup(q, id)
  \/ LookupMisses(q)
  \/ \E r \in PolicyIds : Policy(q, r)
  \/ PolicyMisses(q) \/ PolicyFails(q)
  \/ Permitted(q) \/ Denied(q) \/ PermissionFails(q)
  \/ Count(q) \/ CountFails(q)
  \/ Reject(q) \/ Serve(q) \/ ServeFails(q)

RequestStep ==
  \/ \E q \in Requests :
       \/ \E p \in Places : Arrive(q, p)
       \/ \E p \in Places : Unauthenticated(q, p) \/ Malformed(q, p) \/ Unmanaged(q, p)
       \/ Progress(q)
  \/ \E id \in Ids : CountElsewhere(id) \/ Expire(id)

\* History: what the tables said during a request.
Now(q) == IF req[q].pc = "new" THEN {} ELSE {View(req[q].place)}
Observe ==
  seen' = [q \in Requests |-> IF req[q].pc = "done" THEN seen[q] ELSE seen[q] \union Now(q)']

Next ==
  \/ RequestStep /\ UNCHANGED adminVars /\ Observe
  \/ \E a \in Admins : AdminStep(a) /\ UNCHANGED << req, count, counted, called >> /\ Observe

Spec == Init /\ [][Next]_vars

-----------------------------------------------------------------------------
Replied(q, reply) == req[q].pc = "done" /\ req[q].reply = reply

\* A request that a backend answered went to an endpoint that was active at some
\* moment between its arrival and its answer, and one that was told 410 to one that
\* was not: the status is read once and may change while the policy, the permission
\* and the counter are looked at.
StatusIsCurrent ==
  \A q \in Requests :
    /\ q \in called => \E v \in seen[q] : "active" \in v
    /\ Replied(q, "gone") => \E v \in seen[q] : "active" \notin v

\* A request that reached a backend without a granted permission either had its
\* policy query fail, or at some moment since its arrival the endpoint had no policy
\* or one that demands none: a policy that is set and changed around the request
\* never lets it through otherwise, with any number of policy rows.
PermissionEnforced ==
  \A q \in called : req[q].granted \/ req[q].blind \/ \E v \in seen[q] : "open" \in v

\* A request that was refused before the limiter does not use up the window of
\* those that are let in.
RefusedIsNotCounted ==
  \A q \in Requests : req[q].pc = "done" /\ req[q].reply \in Refusals => q \notin counted

-----------------------------------------------------------------------------
\* The inductive invariant of the three properties above and of EndpointAdmin's.

\* An administrator who is about to write a row back holds the route of the row it
\* read, and writes "active" only to an endpoint that does not count as closed.
UpdatesKnowRow ==
  \A a \in Admins : admin[a].pc = "update" =>
    /\ endpoints[admin[a].id] # NoRow
    /\ admin[a].row.place = endpoints[admin[a].id].place
    /\ admin[a].row.version = endpoints[admin[a].id].version
    /\ admin[a].row.status = "active" => admin[a].id \notin closed

WasActive(q) == \E v \in seen[q] : "active" \in v
LetIn(q) == req[q].granted \/ req[q].blind \/ \E v \in seen[q] : "open" \in v

\* A request that is under way has seen the tables as they are, and one that found
\* its endpoint still finds it under the same route, with whatever status.
UnderWay(q) ==
  /\ View(req[q].place) \in seen[q]
  /\ q \notin called
  /\ req[q].pc # "backend" => q \notin counted
  /\ req[q].pc \in Waiting => req[q].id \in At(req[q].place, Default) /\ WasActive(q)
  /\ req[q].pc \in {"rate", "backend"} => LetIn(q)

Answered(q) ==
  /\ q \in called => WasActive(q) /\ LetIn(q)
  /\ req[q].reply = "gone" => \E v \in seen[q] : "active" \notin v
  /\ req[q].reply \in Refusals => q \notin counted

RequestOK(q) ==
  /\ req[q].pc = "new" => q \notin called /\ q \notin counted
  /\ req[q].pc \in {"lookup"} \union Waiting => UnderWay(q)
  /\ req[q].pc = "done" => Answered(q)

IndInv ==
  /\ TypeOK
  /\ OneEndpointPerRoute /\ ClosedIsRetired /\ UpdatesKnowRow
  /\ \A q \in Requests : RequestOK(q)
=============================================================================
