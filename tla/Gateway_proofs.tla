--------------------------- MODULE Gateway_proofs ---------------------------
(***************************************************************************)
(* Proofs about Gateway and EndpointAdmin, for any number of requests,     *)
(* administrators, routes, ids and policies, with and without failing      *)
(* statements.                                                             *)
(***************************************************************************)
EXTENDS Gateway, TLAPS

\* The administrators' part of the inductive invariant.
AdminInv == AdminTypeOK /\ OneEndpointPerRoute /\ ClosedIsRetired /\ UpdatesKnowRow

\* A row is not the missing row, and a column of it that is set leaves it a row.
LEMMA RowFacts ==
  /\ NoRow \notin EndpointRow
  /\ NoRow \notin PolicyRow
  /\ \A row \in EndpointRow, status \in Status :
       [row EXCEPT !.status = status] \in EndpointRow
BY AdminAssumption DEF EndpointRow, PolicyRow, Status

-----------------------------------------------------------------------------
\* No step of an administrator leaves the types.
LEMMA AdminTypeStep ==
  ASSUME AdminTypeOK, NEW a \in Admins, AdminStep(a)
  PROVE  AdminTypeOK'
<1> USE DEF AdminTypeOK, AdminState, Goto, IdleAdmin
<1>1. ASSUME NEW p \in Places, NEW v \in Versions, NEW spec \in Specs, Define(a, p, v, spec)
      PROVE AdminTypeOK'
  BY <1>1 DEF Define, EndpointRow, Status
<1>2. ASSUME NEW id \in Ids, Create(a, id) PROVE AdminTypeOK'
  BY <1>2 DEF Create
<1>3. ASSUME NEW id \in Ids, Activate(a, id) \/ Retire(a, id) PROVE AdminTypeOK'
  <2>1. PICK status \in Status : Change(a, id, status)
    BY <1>3 DEF Activate, Retire, Status
  <2>2. [endpoints[id] EXCEPT !.status = status] \in EndpointRow
    BY <2>1, RowFacts DEF Change
  <2> QED BY <2>1, <2>2 DEF Change
<1>4. CASE Update(a)
  BY <1>4 DEF Update
<1>5. CASE Publish(a)
  BY <1>5 DEF Publish
<1>6. ASSUME NEW e \in Ids, NEW pol \in Policies, NEW id \in PolicyIds, ReadPolicy(a, e, pol, id)
      PROVE AdminTypeOK'
  BY <1>6 DEF ReadPolicy, PolicyRow
<1>7. ASSUME NEW e \in Ids, NEW pol \in Policies, MissPolicy(a, e, pol) PROVE AdminTypeOK'
  BY <1>7 DEF MissPolicy, PolicyRow
<1>8. CASE UpdatePolicy(a)
  BY <1>8 DEF UpdatePolicy
<1>9. ASSUME NEW id \in PolicyIds, CreatePolicy(a, id) PROVE AdminTypeOK'
  BY <1>9 DEF CreatePolicy
<1>10. CASE Fail(a)
  BY <1>10 DEF Fail
<1> QED
  BY <1>1, <1>2, <1>3, <1>4, <1>5, <1>6, <1>7, <1>8, <1>9, <1>10 DEF AdminStep

\* No step removes an endpoint or moves it to another route.
LEMMA RowsStay ==
  ASSUME AdminInv, NEW a \in Admins, AdminStep(a), NEW id \in Ids, endpoints[id] # NoRow
  PROVE  /\ endpoints'[id] # NoRow
         /\ endpoints'[id].place = endpoints[id].place
         /\ endpoints'[id].version = endpoints[id].version
<1> USE DEF AdminInv, AdminTypeOK
<1>1. ASSUME NEW i \in Ids, Create(a, i)
      PROVE endpoints'[id] = endpoints[id]
  BY <1>1 DEF Create
<1>2. CASE Update(a)
  <2>1. /\ admin[a].id \in Ids /\ admin[a].row \in EndpointRow
        /\ admin[a].row.place = endpoints[admin[a].id].place
        /\ admin[a].row.version = endpoints[admin[a].id].version
    BY <1>2 DEF Update, UpdatesKnowRow, AdminState, IdleAdmin
  <2> QED BY <1>2, <2>1, RowFacts DEF Update
<1>3. CASE UNCHANGED endpoints
  BY <1>3
<1> QED
  BY <1>1, <1>2, <1>3 DEF AdminStep, Define, Activate, Retire, Change, Publish, ReadPolicy,
     MissPolicy, UpdatePolicy, CreatePolicy, Fail

\* The route of a row is taken once: only the INSERT adds one, and it looks first.
LEMMA RouteStep ==
  ASSUME AdminInv, NEW a \in Admins, AdminStep(a)
  PROVE  OneEndpointPerRoute'
<1> USE DEF AdminInv, AdminTypeOK, OneEndpointPerRoute
<1>1. ASSUME NEW id \in Ids, Create(a, id) PROVE OneEndpointPerRoute'
  BY <1>1 DEF Create, At
<1>2. CASE Update(a)
  <2>1. /\ admin[a].id \in Ids
        /\ endpoints' = [endpoints EXCEPT ![admin[a].id] = admin[a].row]
    BY <1>2 DEF Update, AdminState, IdleAdmin
  <2>2. \A i \in Ids : endpoints'[i] # NoRow => endpoints[i] # NoRow
    BY <1>2, <2>1 DEF Update, UpdatesKnowRow
  <2> QED BY <2>1, <2>2, RowsStay
<1>3. CASE UNCHANGED endpoints
  BY <1>3
<1> QED
  BY <1>1, <1>2, <1>3 DEF AdminStep, Define, Activate, Retire, Change, Publish, ReadPolicy,
     MissPolicy, UpdatePolicy, CreatePolicy, Fail

\* Closed endpoints stay retired, and what administrators hold stays true.
LEMMA ClosedStep ==
  ASSUME AdminInv, NEW a \in Admins, AdminStep(a)
  PROVE  (ClosedIsRetired /\ UpdatesKnowRow)'
<1> USE DEF AdminInv, AdminTypeOK, ClosedIsRetired, UpdatesKnowRow, Goto, IdleAdmin
<1>1. ASSUME NEW id \in Ids, Create(a, id) PROVE (ClosedIsRetired /\ UpdatesKnowRow)'
  BY <1>1, RowFacts DEF Create
<1>2. ASSUME NEW id \in Ids, Activate(a, id) PROVE (ClosedIsRetired /\ UpdatesKnowRow)'
  BY <1>2 DEF Activate, Change, EndpointRow
<1>3. ASSUME NEW id \in Ids, Retire(a, id) PROVE (ClosedIsRetired /\ UpdatesKnowRow)'
  BY <1>3 DEF Retire, Change, EndpointRow
<1>4. CASE Update(a)
  <2>1. /\ admin[a].id \in Ids /\ admin[a].row \in EndpointRow
        /\ admin[a].row # NoRow
        /\ admin[a].row.status \in {"active", "retired"}
    BY <1>4, RowFacts DEF Update, AdminState, EndpointRow, Status
  <2>2. ClosedIsRetired'
    BY <1>4, <2>1 DEF Update
  <2>3. \A b \in Admins : admin'[b].pc = "update" => b # a /\ admin'[b] = admin[b]
    BY <1>4 DEF Update
  <2>4. ASSUME NEW b \in Admins, b # a, admin[b].pc = "update",
               admin[b].row.status = "active"
        PROVE admin[b].id \notin closed'
    BY <1>4, <2>4 DEF Update, Activating
  <2>5. \A b \in Admins : admin[b].pc = "update" => admin[b].id \in Ids
    BY DEF AdminState
  <2> QED BY <2>2, <2>3, <2>4, <2>5, RowsStay
<1>5. CASE UNCHANGED << endpoints, closed >> /\ \E st : Goto(a, st) /\ st.pc # "update"
  BY <1>5
<1> QED
  BY <1>1, <1>2, <1>3, <1>4, <1>5 DEF AdminStep, Define, Publish, ReadPolicy,
     MissPolicy, UpdatePolicy, CreatePolicy, Fail

\* The administrators' invariant survives every step of an administrator.
LEMMA AdminInvStep ==
  ASSUME AdminInv, NEW a \in Admins, AdminStep(a)
  PROVE  AdminInv'
BY AdminTypeStep, RouteStep, ClosedStep DEF AdminInv

-----------------------------------------------------------------------------
\* Observing keeps what was seen and adds what a request under way could be told now.
LEMMA SeenGrows ==
  ASSUME seen \in [Requests -> SUBSET Views], Observe
  PROVE  /\ seen' \in [Requests -> SUBSET Views]
         /\ \A q \in Requests :
              /\ seen[q] \subseteq seen'[q]
              /\ req[q].pc # "done" /\ req'[q].pc # "new" => View(req[q].place)' \in seen'[q]
<1>1. \A q \in Requests : View(req[q].place)' \in Views
  BY DEF View, Views
<1> QED BY <1>1 DEF Observe, Now

\* The checks on the headers and the arrival keep the type of a request.
LEMMA ArriveType ==
  ASSUME TypeOK, NEW q \in Requests, NEW p \in Places,
         Arrive(q, p) \/ Unauthenticated(q, p) \/ Malformed(q, p) \/ Unmanaged(q, p)
  PROVE  /\ req' \in [Requests -> RequestState]
         /\ UNCHANGED << count, counted, called >>
<1>1. ASSUME NEW reply \in Reply, Turned(q, p, reply)
      PROVE  req' \in [Requests -> RequestState]
  <2>1. [pc |-> "done", place |-> p, reply |-> reply, blind |-> FALSE, granted |-> FALSE]
          \in RequestState
    BY DEF RequestState
  <2> QED BY <1>1, <2>1 DEF TypeOK, Turned
<1>2. CASE Arrive(q, p)
  <2>1. [pc |-> "lookup", place |-> p] \in RequestState
    BY DEF RequestState
  <2> QED BY <1>2, <2>1 DEF TypeOK, Arrive
<1>3. {"unauthorized", "badRequest", "next"} \subseteq Reply
  BY DEF Reply
<1> QED BY <1>1, <1>2, <1>3 DEF Arrive, Unauthenticated, Malformed, Unmanaged, Turned

\* What a request holds between two of its queries, after the first.
Held == [pc : Waiting, place : Places, id : Ids, policy : Policies \union {NoRow},
         blind : BOOLEAN, granted : BOOLEAN]

\* What a request under way holds.
LEMMA WaitingType ==
  ASSUME TypeOK, NEW q \in Requests, req[q].pc \in {"lookup"} \union Waiting
  PROVE  /\ req[q].place \in Places
         /\ req[q].pc \in Waiting =>
              /\ req[q] \in Held
              /\ req[q].id \in Ids /\ req[q].policy \in Policies \union {NoRow}
              /\ req[q].blind \in BOOLEAN /\ req[q].granted \in BOOLEAN
BY DEF TypeOK, RequestState, Waiting, NewRequest, Held

\* A request that ends keeps its place and what it was granted.
LEMMA FinishType ==
  ASSUME TypeOK, NEW q \in Requests, req[q].pc \in {"lookup"} \union Waiting,
         NEW reply \in Reply, Finish(q, reply)
  PROVE  req' \in [Requests -> RequestState]
<1>1. [pc |-> "done", place |-> req[q].place, reply |-> reply,
       blind |-> IF req[q].pc = "lookup" THEN FALSE ELSE req[q].blind,
       granted |-> IF req[q].pc = "lookup" THEN FALSE ELSE req[q].granted] \in RequestState
  BY WaitingType DEF RequestState
<1> QED BY <1>1 DEF TypeOK, Finish

\* A request goes on with the limiter or the backend, after the permission if its
\* policy demands one.
LEMMA AfterFacts ==
  ASSUME NEW policy
  PROVE  /\ AfterPermission(policy) \in {"rate", "backend"}
         /\ AfterPolicy(policy) \in {"permission", "rate", "backend"}
         /\ policy # NoRow /\ policy.perm # NoPerm => AfterPolicy(policy) = "permission"
BY DEF AfterPermission, AfterPolicy

\* What is set on the way keeps it so.
LEMMA HeldStays ==
  ASSUME NEW h \in Held, NEW pc \in Waiting, NEW policy \in Policies \union {NoRow}
  PROVE  /\ [h EXCEPT !.pc = pc] \in Held
         /\ [h EXCEPT !.policy = policy, !.pc = pc] \in Held
         /\ [h EXCEPT !.pc = pc, !.blind = TRUE] \in Held
         /\ [h EXCEPT !.pc = pc, !.granted = TRUE] \in Held
BY DEF Held

\* A request that goes on keeps its type.
LEMMA MoveType ==
  ASSUME TypeOK, NEW q \in Requests, NEW h \in Held, req' = [req EXCEPT ![q] = h]
  PROVE  req' \in [Requests -> RequestState]
<1>1. h \in RequestState
  BY DEF RequestState, Held
<1> QED BY <1>1 DEF TypeOK

\* The lookup of the endpoint keeps the types.
LEMMA LookupType ==
  ASSUME TypeOK, NEW q \in Requests
  PROVE  (\E id \in Ids : Lookup(q, id)) \/ LookupMisses(q) => req' \in [Requests -> RequestState]
<1>0. {"next", "gone"} \subseteq Reply
  BY DEF Reply
<1>1. ASSUME NEW id \in Ids, Lookup(q, id) PROVE req' \in [Requests -> RequestState]
  <2>1. CASE endpoints[id].status # "active"
    BY <1>0, <1>1, <2>1, FinishType DEF Lookup
  <2>2. CASE endpoints[id].status = "active"
    <3>1. [pc |-> "policy", place |-> req[q].place, id |-> id, policy |-> NoRow,
           blind |-> FALSE, granted |-> FALSE] \in Held
      BY <1>1, WaitingType DEF Held, Waiting, Lookup
    <3> QED BY <1>1, <2>2, <3>1, MoveType DEF Lookup
  <2> QED BY <2>1, <2>2
<1>2. ASSUME LookupMisses(q) PROVE req' \in [Requests -> RequestState]
  <2>1. req[q].pc \in {"lookup"} \union Waiting /\ Finish(q, "next") /\ "next" \in Reply
    BY <1>2, <1>0 DEF LookupMisses
  <2> QED BY <2>1, FinishType
<1> QED BY <1>1, <1>2

\* So do the reads of the policy, with the errors that are dropped.
LEMMA PolicyType ==
  ASSUME TypeOK, NEW q \in Requests
  PROVE  (\E r \in PolicyIds : Policy(q, r)) \/ PolicyMisses(q) \/ PolicyFails(q)
           => req' \in [Requests -> RequestState]
<1>1. ASSUME NEW r \in PolicyIds, Policy(q, r) PROVE req' \in [Requests -> RequestState]
  <2>1. policies[r].policy \in Policies
    BY <1>1 DEF Policy, PolicyRowsOf, TypeOK, AdminTypeOK, PolicyRow
  <2>2. req[q] \in Held /\ AfterPolicy(policies[r].policy) \in Waiting
    BY <1>1, WaitingType, AfterFacts DEF Policy, Waiting
  <2>3. [req[q] EXCEPT !.policy = policies[r].policy, !.pc = AfterPolicy(policies[r].policy)] \in Held
    BY <2>1, <2>2, HeldStays
  <2>4. req' = [req EXCEPT ![q] = [req[q] EXCEPT !.policy = policies[r].policy, !.pc = AfterPolicy(policies[r].policy)]]
    BY <1>1 DEF Policy, TypeOK
  <2> QED BY <2>3, <2>4, MoveType
<1>2. ASSUME PolicyMisses(q) PROVE req' \in [Requests -> RequestState]
  <2>1. req[q] \in Held /\ AfterPolicy(NoRow) \in Waiting
    BY <1>2, WaitingType, AfterFacts DEF PolicyMisses, Waiting
  <2>2. [req[q] EXCEPT !.pc = AfterPolicy(NoRow)] \in Held
    BY <2>1, HeldStays
  <2> QED BY <1>2, <2>2, MoveType DEF PolicyMisses
<1>3. ASSUME PolicyFails(q) PROVE req' \in [Requests -> RequestState]
  <2>1. req[q] \in Held /\ AfterPolicy(NoRow) \in Waiting
    BY <1>3, WaitingType, AfterFacts DEF PolicyFails, Waiting
  <2>2. [req[q] EXCEPT !.pc = AfterPolicy(NoRow), !.blind = TRUE] \in Held
    BY <2>1, HeldStays
  <2> QED BY <1>3, <2>2, MoveType DEF PolicyFails
<1> QED BY <1>1, <1>2, <1>3

\* So do the permission check, the counter and the backend.
LEMMA AnswerType ==
  ASSUME TypeOK, NEW q \in Requests
  PROVE  Permitted(q) \/ Denied(q) \/ PermissionFails(q) \/ Count(q) \/ CountFails(q)
           \/ Reject(q) \/ Serve(q) \/ ServeFails(q)
           => req' \in [Requests -> RequestState]
<1>0. /\ {"forbidden", "internal", "tooMany", "invalid", "served", "badGateway"} \subseteq Reply
      /\ {"permission", "rate", "backend"} \subseteq Waiting
  BY DEF Reply, Waiting
<1>1. ASSUME Permitted(q) PROVE req' \in [Requests -> RequestState]
  <2>1. req[q] \in Held /\ AfterPermission(req[q].policy) \in Waiting
    BY <1>0, <1>1, WaitingType, AfterFacts DEF Permitted
  <2>2. [req[q] EXCEPT !.pc = AfterPermission(req[q].policy), !.granted = TRUE] \in Held
    BY <2>1, HeldStays
  <2> QED BY <1>1, <2>2, MoveType DEF Permitted
<1>2. ASSUME Count(q), req' = [req EXCEPT ![q].pc = "backend"]
      PROVE req' \in [Requests -> RequestState]
  <2>1. [req[q] EXCEPT !.pc = "backend"] \in Held
    BY <1>0, <1>2, WaitingType, HeldStays DEF Count
  <2> QED BY <1>2, <2>1, MoveType
<1>3. ASSUME NEW reply \in Reply, req[q].pc \in Waiting, Finish(q, reply)
      PROVE req' \in [Requests -> RequestState]
  BY <1>3, FinishType
<1> QED BY <1>0, <1>1, <1>2, <1>3 DEF Denied, PermissionFails, Count, CountFails, Reject, Serve,
        ServeFails

\* Steps of a request keep every type.
LEMMA RequestTypeStep ==
  ASSUME TypeOK, RequestStep, UNCHANGED adminVars, Observe
  PROVE  TypeOK'
<1>1. AdminTypeOK' /\ seen' \in [Requests -> SUBSET Views]
  BY SeenGrows DEF AdminTypeOK, adminVars, TypeOK
<1>2. req' \in [Requests -> RequestState]
  <2>1. ASSUME NEW q \in Requests, Progress(q) PROVE req' \in [Requests -> RequestState]
    BY <2>1, LookupType, PolicyType, AnswerType DEF Progress
  <2> QED BY <2>1, ArriveType DEF RequestStep, CountElsewhere, Expire, TypeOK
<1>3. count' \in [Ids -> Nat] /\ counted' \subseteq Requests /\ called' \subseteq Requests
  <2> USE DEF TypeOK
  <2>1. ASSUME NEW q \in Requests, Progress(q)
        PROVE count' \in [Ids -> Nat] /\ counted' \subseteq Requests /\ called' \subseteq Requests
    <3>1. Count(q) => req[q].id \in Ids
      BY WaitingType DEF Count, Waiting
    <3>2. CASE Count(q)
      BY <3>1, <3>2 DEF Count, TypeOK
    <3>3. CASE ~Count(q)
      BY <2>1, <3>3 DEF TypeOK, Progress, Lookup, LookupMisses, Policy, PolicyMisses, PolicyFails,
         Permitted, Denied, PermissionFails, CountFails, Reject, Serve, ServeFails
    <3> QED BY <3>2, <3>3
  <2> QED BY <2>1, ArriveType DEF RequestStep, CountElsewhere, Expire
<1> QED BY <1>1, <1>2, <1>3 DEF TypeOK

-----------------------------------------------------------------------------
\* A request that does not move stays right, whatever the administrators do: endpoints
\* keep their routes, and what was seen stays seen.
LEMMA StillOK ==
  ASSUME TypeOK, NEW q \in Requests, RequestOK(q), Observe,
         req'[q] = req[q], q \in called' <=> q \in called, q \in counted' <=> q \in counted,
         \A id \in Ids : endpoints[id] # NoRow =>
           /\ endpoints'[id] # NoRow
           /\ endpoints'[id].place = endpoints[id].place
           /\ endpoints'[id].version = endpoints[id].version
  PROVE  RequestOK(q)'
<1> USE DEF TypeOK
<1>1. seen[q] \subseteq seen'[q]
  BY SeenGrows
<1>2. CASE req[q].pc \in {"lookup"} \union Waiting
  <2>1. req[q].pc # "done" /\ req[q].pc # "new"
    BY <1>2 DEF Waiting
  <2>2. View(req[q].place)' \in seen'[q]
    BY <2>1, SeenGrows
  <2>3. UnderWay(q)
    BY <1>2 DEF RequestOK
  <2>4. req[q].pc \in Waiting => req[q].id \in At(req[q].place, Default)'
    BY <2>3 DEF UnderWay, At
  <2>5. UnderWay(q)'
    BY <1>1, <2>2, <2>3, <2>4 DEF UnderWay, WasActive, LetIn
  <2> QED BY <2>1, <2>5 DEF RequestOK
<1>3. CASE req[q].pc \notin {"lookup"} \union Waiting
  BY <1>1, <1>3 DEF RequestOK, Answered, WasActive, LetIn
<1> QED BY <1>2, <1>3

\* The endpoint that answers a lookup is the route's only one, so a status it read
\* is what the request could be told.
LEMMA LookupOK ==
  ASSUME TypeOK, OneEndpointPerRoute, NEW q \in Requests, RequestOK(q), UNCHANGED adminVars,
         Observe, (\E id \in Ids : Lookup(q, id)) \/ LookupMisses(q)
  PROVE  RequestOK(q)'
<1> USE DEF TypeOK
<1>1. /\ req[q].pc = "lookup" /\ UNCHANGED << endpoints, policies, called, counted >>
      /\ seen[q] \subseteq seen'[q]
      /\ View(req[q].place) \in seen[q]
      /\ q \notin called /\ q \notin counted
  BY SeenGrows DEF Lookup, LookupMisses, RequestOK, UnderWay, adminVars
<1>2. CASE LookupMisses(q)
  <2>1. req'[q].pc = "done" /\ req'[q].reply = "next"
    BY <1>2 DEF LookupMisses, Finish
  <2> QED BY <1>1, <2>1 DEF RequestOK, Answered, Waiting
<1>3. ASSUME NEW id \in Ids, Lookup(q, id) PROVE RequestOK(q)'
  <2>1. id \in At(req[q].place, Default)
    BY <1>3 DEF Lookup
  <2>2. CASE endpoints[id].status # "active"
    <3>1. req'[q].pc = "done" /\ req'[q].reply = "gone"
      BY <1>3, <2>2 DEF Lookup, Finish
    <3>2. "active" \notin View(req[q].place)
      BY <2>1, <2>2 DEF OneEndpointPerRoute, At, View
    <3> QED BY <1>1, <3>1, <3>2 DEF RequestOK, Answered, Waiting
  <2>3. CASE endpoints[id].status = "active"
    <3>1. /\ req'[q].pc = "policy" /\ req'[q].id = id
          /\ req'[q].place = req[q].place
      BY <1>3, <2>3 DEF Lookup
    <3>2. "active" \in View(req[q].place)
      BY <2>1, <2>3 DEF View, At
    <3>3. View(req[q].place)' \in seen'[q]
      BY <1>1, <3>1, SeenGrows
    <3>4. UnderWay(q)'
      BY <1>1, <2>1, <3>1, <3>2, <3>3 DEF UnderWay, WasActive, Waiting, At
    <3> QED BY <3>1, <3>4 DEF RequestOK, Waiting
  <2> QED BY <2>2, <2>3
<1> QED BY <1>2, <1>3

\* A request that goes on from Waiting stays right if it is let in where it must be.
LEMMA GoesOn ==
  ASSUME TypeOK, NEW q \in Requests, RequestOK(q), UNCHANGED << endpoints, policies, called >>,
         Observe, req[q].pc \in Waiting, req'[q].pc \in Waiting,
         req'[q].id = req[q].id, req'[q].place = req[q].place,
         req'[q].pc # "backend" => q \notin counted',
         req'[q].pc \in {"rate", "backend"} => LetIn(q)'
  PROVE  RequestOK(q)'
<1>1. /\ req[q].pc # "done" /\ req'[q].pc # "new" /\ req'[q].pc # "done"
      /\ seen[q] \subseteq seen'[q]
  BY SeenGrows DEF Waiting, TypeOK
<1>2. View(req[q].place)' \in seen'[q]
  BY <1>1, SeenGrows DEF TypeOK
<1>3. UnderWay(q)
  BY DEF RequestOK
<1>4. UnderWay(q)'
  BY <1>1, <1>2, <1>3 DEF UnderWay, WasActive, At
<1> QED BY <1>1, <1>4 DEF RequestOK

\* Reading the policy: a request goes on without the permission only if the row it
\* read demands none, if there is no row, or if the query failed.
LEMMA PolicyOK ==
  ASSUME TypeOK, NEW q \in Requests, RequestOK(q), UNCHANGED adminVars, Observe,
         (\E r \in PolicyIds : Policy(q, r)) \/ PolicyMisses(q) \/ PolicyFails(q)
  PROVE  RequestOK(q)'
<1>1. /\ req[q].pc = "policy" /\ req[q].pc \in Waiting
      /\ UNCHANGED << endpoints, policies, called, counted >>
      /\ seen[q] \subseteq seen'[q]
  BY SeenGrows DEF Policy, PolicyMisses, PolicyFails, adminVars, Waiting, TypeOK
<1>2. UnderWay(q)
  BY <1>1 DEF RequestOK
<1>3. req[q] \in Held
  BY <1>1, WaitingType
<1>4. \E policy \in Policies \union {NoRow} :
        /\ req'[q].id = req[q].id /\ req'[q].place = req[q].place
        /\ req'[q].pc = AfterPolicy(policy)
        /\ \/ policy # NoRow /\ policy.perm # NoPerm
           \/ "open" \in View(req[q].place)
           \/ req'[q].blind = TRUE
  <2>1. ASSUME NEW r \in PolicyIds, Policy(q, r) PROVE <1>4
    <3>1. policies[r].policy \in Policies /\ r \in PolicyRowsOf(req[q].id)
      BY <2>1 DEF Policy, PolicyRowsOf, TypeOK, AdminTypeOK, PolicyRow
    <3>2. /\ req'[q].id = req[q].id /\ req'[q].place = req[q].place
          /\ req'[q].pc = AfterPolicy(policies[r].policy)
      BY <1>3, <2>1 DEF Policy, TypeOK, Held
    <3>3. CASE policies[r].policy.perm = NoPerm
      <4>1. "open" \in View(req[q].place)
        BY <1>1, <1>2, <3>1, <3>3 DEF View, UnderWay
      <4> QED BY <3>1, <3>2, <4>1
    <3>4. CASE policies[r].policy.perm # NoPerm
      <4>1. policies[r].policy # NoRow
        BY <3>1, GatewayAssumption
      <4> QED BY <3>1, <3>2, <3>4, <4>1
    <3> QED BY <3>3, <3>4
  <2>2. CASE PolicyMisses(q)
    <3>1. "open" \in View(req[q].place)
      BY <1>2, <2>2, <1>1 DEF PolicyMisses, View, UnderWay
    <3>2. /\ req'[q].id = req[q].id /\ req'[q].place = req[q].place
          /\ req'[q].pc = AfterPolicy(NoRow)
      BY <1>3, <2>2 DEF PolicyMisses, TypeOK, Held
    <3> QED BY <3>1, <3>2
  <2>3. CASE PolicyFails(q)
    <3>1. /\ req'[q].id = req[q].id /\ req'[q].place = req[q].place
          /\ req'[q].pc = AfterPolicy(NoRow) /\ req'[q].blind = TRUE
      BY <1>3, <2>3 DEF PolicyFails, TypeOK, Held
    <3> QED BY <3>1
  <2> QED BY <2>1, <2>2, <2>3
<1>5. req'[q].pc \in Waiting /\ (req'[q].pc \in {"rate", "backend"} => LetIn(q)')
  BY <1>1, <1>2, <1>4, AfterFacts DEF Waiting, LetIn, UnderWay
<1> QED BY <1>1, <1>2, <1>4, <1>5, GoesOn DEF UnderWay

\* The permission, the counter and the backend: a refusal before the counter leaves
\* the request uncounted, and whoever reaches the backend was let in.
LEMMA AnswerOK ==
  ASSUME TypeOK, NEW q \in Requests, RequestOK(q), UNCHANGED adminVars, Observe,
         \/ Permitted(q) \/ Denied(q) \/ PermissionFails(q) \/ Count(q) \/ CountFails(q)
         \/ Reject(q) \/ Serve(q) \/ ServeFails(q)
  PROVE  RequestOK(q)'
<1>1. /\ req[q].pc \in {"permission", "rate", "backend"} /\ req[q].pc \in Waiting
      /\ UNCHANGED << endpoints, policies >>
      /\ seen[q] \subseteq seen'[q]
  BY SeenGrows DEF Permitted, Denied, PermissionFails, Count, CountFails, Reject, Serve,
     ServeFails, adminVars, Waiting, TypeOK
<1>2. UnderWay(q) /\ req[q] \in Held
  BY <1>1, WaitingType DEF RequestOK
<1>3. ASSUME NEW reply \in Reply, Finish(q, reply), reply # "gone",
             q \in called' => req[q].pc = "backend",
             reply \in Refusals => q \notin counted'
      PROVE  RequestOK(q)'
  <2>1. /\ req'[q].pc = "done" /\ req'[q].reply = reply
        /\ req'[q].blind = req[q].blind /\ req'[q].granted = req[q].granted
    BY <1>1, <1>3 DEF Finish, TypeOK
  <2>2. q \in called' => WasActive(q)' /\ LetIn(q)'
    BY <1>1, <1>2, <1>3, <2>1 DEF UnderWay, WasActive, LetIn
  <2> QED BY <1>3, <2>1, <2>2 DEF RequestOK, Answered, Waiting
<1>4. CASE Permitted(q)
  <2>1. /\ req'[q].id = req[q].id /\ req'[q].place = req[q].place
        /\ req'[q].granted = TRUE /\ req'[q].pc \in {"rate", "backend"}
    BY <1>2, <1>4, AfterFacts DEF Permitted, TypeOK, Held
  <2> QED BY <1>1, <1>2, <1>4, <2>1, GoesOn DEF Permitted, LetIn, Waiting, UnderWay
<1>5. CASE Count(q) /\ req' = [req EXCEPT ![q].pc = "backend"]
  <2>1. /\ req'[q].id = req[q].id /\ req'[q].place = req[q].place
        /\ req'[q].granted = req[q].granted /\ req'[q].blind = req[q].blind
        /\ req'[q].pc = "backend"
    BY <1>2, <1>5 DEF TypeOK, Held
  <2>2. LetIn(q)'
    BY <1>1, <1>2, <1>5, <2>1 DEF UnderWay, LetIn, Count
  <2> QED BY <1>1, <1>2, <1>5, <2>1, <2>2, GoesOn DEF Count, Waiting
<1>6. q \notin called /\ (req[q].pc # "backend" => q \notin counted)
  BY <1>2 DEF UnderWay
<1>7. CASE Count(q) /\ Finish(q, "tooMany")
  BY <1>3, <1>6, <1>7 DEF Count, Reply, Refusals
<1>8. CASE Denied(q) \/ PermissionFails(q) \/ CountFails(q) \/ Reject(q)
  BY <1>3, <1>6, <1>8 DEF Denied, PermissionFails, CountFails, Reject, Reply, Refusals
<1>9. CASE Serve(q) \/ ServeFails(q)
  BY <1>3, <1>6, <1>9 DEF Serve, ServeFails, Reply, Refusals
<1> QED BY <1>4, <1>5, <1>7, <1>8, <1>9 DEF Count

\* A request arrives, or ends on its headers, with nothing called or counted.
LEMMA ArriveOK ==
  ASSUME TypeOK, NEW q \in Requests, NEW p \in Places, RequestOK(q), Observe,
         Arrive(q, p) \/ Unauthenticated(q, p) \/ Malformed(q, p) \/ Unmanaged(q, p)
  PROVE  RequestOK(q)'
<1>1. req[q].pc = "new" /\ q \notin called /\ q \notin counted /\ UNCHANGED << called, counted >>
  BY DEF Arrive, Unauthenticated, Malformed, Unmanaged, Turned, RequestOK, NewRequest
<1>2. CASE Arrive(q, p)
  <2>1. req'[q].pc = "lookup" /\ req'[q].place = p
    BY <1>2 DEF Arrive, TypeOK
  <2>2. View(req[q].place)' \in seen'[q]
    BY <1>1, <2>1, SeenGrows DEF TypeOK
  <2> QED BY <1>1, <2>1, <2>2 DEF RequestOK, UnderWay, Waiting
<1>3. ASSUME NEW reply, reply # "gone", Turned(q, p, reply) PROVE RequestOK(q)'
  BY <1>1, <1>3 DEF Turned, RequestOK, Answered, Waiting, TypeOK
<1> QED BY <1>2, <1>3 DEF Unauthenticated, Malformed, Unmanaged

\* A step of one request leaves the others alone.
LEMMA OthersStay ==
  ASSUME TypeOK, NEW q \in Requests, NEW r \in Requests, r # q,
         \/ Progress(q)
         \/ \E p \in Places : \/ Arrive(q, p) \/ Unauthenticated(q, p)
                              \/ Malformed(q, p) \/ Unmanaged(q, p)
  PROVE  req'[r] = req[r] /\ (r \in called' <=> r \in called) /\ (r \in counted' <=> r \in counted)
BY DEF TypeOK, Progress, Arrive, Unauthenticated, Malformed, Unmanaged, Turned, Lookup,
   LookupMisses, Policy, PolicyMisses, PolicyFails, Permitted, Denied, PermissionFails, Count,
   CountFails, Reject, Serve, ServeFails, Finish

\* A step of the requests keeps all of them right.
LEMMA RequestsStep ==
  ASSUME IndInv, RequestStep, UNCHANGED adminVars, Observe, NEW r \in Requests
  PROVE  RequestOK(r)'
<1> USE DEF IndInv
<1>1. CASE \E id \in Ids : CountElsewhere(id) \/ Expire(id)
  BY <1>1, StillOK DEF CountElsewhere, Expire, adminVars
<1>2. ASSUME NEW q \in Requests, NEW p \in Places,
             Arrive(q, p) \/ Unauthenticated(q, p) \/ Malformed(q, p) \/ Unmanaged(q, p)
      PROVE RequestOK(r)'
  BY <1>2, ArriveOK, OthersStay, StillOK DEF adminVars
<1>3. ASSUME NEW q \in Requests, Progress(q) PROVE RequestOK(r)'
  <2>1. CASE r = q
    BY <1>3, <2>1, LookupOK, PolicyOK, AnswerOK DEF Progress
  <2>2. CASE r # q
    BY <1>3, <2>2, OthersStay, StillOK DEF adminVars
  <2> QED BY <2>1, <2>2
<1> QED BY <1>1, <1>2, <1>3 DEF RequestStep

\* Nor is a request disturbed by nothing.
LEMMA UnchangedOK ==
  ASSUME NEW q \in Requests, RequestOK(q),
         UNCHANGED << endpoints, policies, req, counted, called, seen >>
  PROVE  RequestOK(q)'
<1>1. View(req[q].place)' = View(req[q].place)
  BY DEF View, At, PolicyRowsOf
<1> QED BY <1>1 DEF RequestOK, UnderWay, Answered, WasActive, LetIn, At

\* The inductive invariant holds at the start: empty tables, and nothing under way.
LEMMA InitInv == Init => IndInv
BY RowFacts DEF Init, AdminInit, IndInv, TypeOK, AdminTypeOK, AdminState, RequestState,
   OneEndpointPerRoute, ClosedIsRetired, UpdatesKnowRow, RequestOK, NewRequest, IdleAdmin, Waiting

\* Every step preserves the inductive invariant.
LEMMA StepInv == IndInv /\ [Next]_vars => IndInv'
<1> SUFFICES ASSUME IndInv, [Next]_vars PROVE IndInv'
  OBVIOUS
<1>0. AdminInv
  BY DEF IndInv, AdminInv, TypeOK
<1>1. CASE RequestStep /\ UNCHANGED adminVars /\ Observe
  <2>1. TypeOK'
    BY <1>1, RequestTypeStep DEF IndInv
  <2>2. (OneEndpointPerRoute /\ ClosedIsRetired /\ UpdatesKnowRow)'
    BY <1>1 DEF IndInv, adminVars, OneEndpointPerRoute, ClosedIsRetired, UpdatesKnowRow
  <2> QED BY <1>1, <2>1, <2>2, RequestsStep DEF IndInv
<1>2. ASSUME NEW a \in Admins, AdminStep(a), UNCHANGED << req, count, counted, called >>, Observe
      PROVE IndInv'
  <2>1. AdminInv'
    BY <1>0, <1>2, AdminInvStep
  <2>2. TypeOK'
    BY <1>2, <2>1, SeenGrows DEF IndInv, AdminInv, TypeOK
  <2>3. \A q \in Requests : RequestOK(q)'
    BY <1>0, <1>2, RowsStay, StillOK DEF IndInv
  <2> QED BY <2>1, <2>2, <2>3 DEF IndInv, AdminInv
<1>3. CASE UNCHANGED vars
  <2>1. TypeOK'
    BY <1>3 DEF IndInv, vars, TypeOK, AdminTypeOK
  <2>2. (OneEndpointPerRoute /\ ClosedIsRetired /\ UpdatesKnowRow)'
    BY <1>3 DEF IndInv, vars, OneEndpointPerRoute, ClosedIsRetired, UpdatesKnowRow
  <2>3. \A q \in Requests : RequestOK(q)'
    BY <1>3, UnchangedOK DEF IndInv, vars
  <2> QED BY <2>1, <2>2, <2>3 DEF IndInv
<1> QED BY <1>1, <1>2, <1>3 DEF Next

-----------------------------------------------------------------------------
\* The inductive invariant of the gateway holds in every reachable state.
THEOREM GatewayInductive == Spec => []IndInv
BY InitInv, StepInv, PTL DEF Spec

\* Tables, administrators and requests keep their types.
THEOREM GatewayTypeCorrect == Spec => []TypeOK
<1>1. IndInv => TypeOK
  BY DEF IndInv
<1> QED BY <1>1, GatewayInductive, PTL

\* No route ever has two endpoints, however many definitions of it overlap.
THEOREM RouteCorrect == Spec => []OneEndpointPerRoute
<1>1. IndInv => OneEndpointPerRoute
  BY DEF IndInv
<1> QED BY <1>1, GatewayInductive, PTL

\* An endpoint that was retired while nobody was activating it stays retired until
\* an activation is asked for.
THEOREM ClosedCorrect == Spec => []ClosedIsRetired
<1>1. IndInv => ClosedIsRetired
  BY DEF IndInv
<1> QED BY <1>1, GatewayInductive, PTL

\* A request is served or told 410 by a status its endpoint had while it was under way.
THEOREM StatusCorrect == Spec => []StatusIsCurrent
<1>1. IndInv => StatusIsCurrent
  BY DEF IndInv, TypeOK, RequestState, NewRequest, StatusIsCurrent, RequestOK, UnderWay, Answered,
     Replied, WasActive, Waiting
<1> QED BY <1>1, GatewayInductive, PTL

\* Nobody reaches a backend without the permission, unless the policy query failed or
\* the endpoint was open at some moment of the request.
THEOREM PermissionCorrect == Spec => []PermissionEnforced
<1>1. IndInv => PermissionEnforced
  BY DEF IndInv, TypeOK, RequestState, NewRequest, PermissionEnforced, RequestOK, UnderWay,
     Answered, LetIn, Waiting
<1> QED BY <1>1, GatewayInductive, PTL

\* A request that is refused before the limiter is never counted.
THEOREM CountedCorrect == Spec => []RefusedIsNotCounted
<1>1. IndInv => RefusedIsNotCounted
  BY DEF IndInv, RequestOK, Answered, RefusedIsNotCounted
<1> QED BY <1>1, GatewayInductive, PTL

=============================================================================
