--------------------------- MODULE DynamicBackend ---------------------------
(***************************************************************************)
(* What happens to a request after the gateway's checks: the interceptor   *)
(* chain, then DynamicHandlerResolver, which proxies to another service or *)
(* turns the endpoint's action into statements on a table.  main registers *)
(* no handler and no service configuration, so a service is a URL or the   *)
(* name of a table.  Records belong to the organization of the token and   *)
(* the application of the header.                                          *)
(*                                                                         *)
(* The keys of a body become the column names of a statement as they are.  *)
(* The filter for id and owner compares them letter by letter while the    *)
(* database ignores the letters' case, so a body may name those columns in *)
(* other letters; and a key that is no name at all is text of the          *)
(* statement, of which nothing is said but that it may do anything.        *)
(***************************************************************************)
EXTENDS Integers, FiniteSets

CONSTANTS
  Requests,      \* goroutines, each serving one request after another
  Scopes,        \* pairs of an organization and an application
  Records,       \* the ids of records, drawn by uuid.New() or named by a client
  Endpoints,     \* the endpoints requests are matched to
  Bodies,        \* what a request may carry
  Tables,        \* the tables the database has
  TableNamed,    \* service -> the table name derived from it
  MaxLimit,      \* 100
  DefaultLimit,  \* 20
  Limits,        \* limits a client asks for
  TextEffects,   \* what a statement with text from a body may leave and answer
  Faults,        \* TRUE: statements and proxied calls may fail
  None

Actions == {"list", "get", "create", "update", "delete"}
Endpoint == [url : BOOLEAN, service : DOMAIN TableNamed, table : Tables \union {None},
             action : Actions \union {"other"}, path : {"singular", "plural"},
             writing : BOOLEAN, schema : BOOLEAN, masking : BOOLEAN]
Content == {"object", "array", "text", "empty"}

Data == {None, "clear", "masked"}

\* What the keys of a body name: a column the masker knows, the owner's columns or
\* id in other letters than the filter's, or nothing but text of the statement.
Body == [content : Content, valid : BOOLEAN, field : BOOLEAN, text : BOOLEAN,
         owner : Scopes \union {None}, id : Records \union {None}]

\* born is history: the id the record was inserted with, whatever it is called now.
Row == [owner : Scopes, data : Data, born : Records]
Shown == [id : Records, row : Row]

ASSUME BackendAssumption ==
  /\ None \notin Scopes \union Records \union Tables \union {"clear", "masked"}
  /\ None \notin Row
  /\ Endpoints \subseteq Endpoint
  /\ Bodies \subseteq Body
  /\ TextEffects \subseteq [rows : [Tables \X Records -> Row \union {None}],
                             answer : SUBSET Shown]
  /\ MaxLimit \in Nat /\ DefaultLimit \in 1..MaxLimit /\ Limits \subseteq Int
  /\ Faults \in BOOLEAN

VARIABLES
  rows,      \* the tables: table and id -> row, or None
  req,       \* goroutine -> the request it serves
  used,      \* history: the ids drawn or named so far
  plain,     \* history: the records last written in the clear, by an endpoint without masking
  deletions, \* history: record -> requests that were told they deleted it
  textual    \* history: a statement with text from a body has run

tables == << rows, used, plain, deletions, textual >>
vars == << rows, req, used, plain, deletions, textual >>

Columns == [data : Data, owner : Scopes \union {None}, id : Records \union {None},
            text : BOOLEAN]
NoColumns == [data |-> None, owner |-> None, id |-> None, text |-> FALSE]

Idle == [pc |-> "idle"]
RequestState ==
  {Idle}
  \union [pc : {"intercept", "backend", "select"}, ep : Endpoints, scope : Scopes,
          id : Records \union {None}, sets : Columns]
  \union [pc : {"done"}, answer : SUBSET Shown]

TypeOK ==
  /\ rows \in [Tables \X Records -> Row \union {None}]
  /\ req \in [Requests -> RequestState]
  /\ used \subseteq Records
  /\ plain \subseteq Records
  /\ deletions \in [Records -> Nat]
  /\ textual \in BOOLEAN

Init ==
  /\ rows = [key \in Tables \X Records |-> None]
  /\ req = [q \in Requests |-> Idle]
  /\ used = {}
  /\ plain = {}
  /\ deletions = [id \in Records |-> 0]
  /\ textual = FALSE

\* deriveTableName: the schema's table_name, or the plural of the service.
TableOf(ep) == IF ep.table # None THEN ep.table ELSE TableNamed[ep.service]

\* An answer with records, one without, and the answer of a statement whose reply
\* may be lost.
ReplyWith(q, answer) == req' = [req EXCEPT ![q] = [pc |-> "done", answer |-> answer]]
Reply(q) == ReplyWith(q, {})
ReplyOrLose(q, answer) == ReplyWith(q, answer) \/ (Faults /\ Reply(q))

\* The pipeline passes a request on; the path of some endpoints names a record.
\* A request without an organization or an application is refused before any
\* statement and left out.
Arrive(q, ep, scope, id) ==
  /\ req[q].pc \in {"idle", "done"}
  /\ id # None <=> ep.action \in {"get", "update", "delete"}
  /\ req' = [req EXCEPT ![q] = [pc |-> "intercept", ep |-> ep, scope |-> scope,
                                id |-> id, sets |-> NoColumns]]
  /\ UNCHANGED tables

-----------------------------------------------------------------------------
\* The interceptors

\* SchemaValidator: a body sent with POST, PUT or PATCH, if there is a schema.
FailsSchema(ep, body) ==
  ep.schema /\ ep.writing /\ body.content # "empty" /\ ~body.valid

\* Fault: a body that was validated is not masked any more.
MasksUnvalidated(ep, body) ==
  ep.masking /\ ep.writing /\ body.content = "object" /\ ~ep.schema

\* PIIMasker: JSON objects sent with POST, PUT or PATCH.
Masks(ep, body) ==
  ep.masking /\ ep.writing /\ body.content = "object"

\* handleGeneric: the columns an object sets; anything else parses to none.  The
\* masker, unlike the filter, knows its columns in any letters.
Parse(ep, body) ==
  IF ~ep.writing \/ body.content # "object" THEN NoColumns
  ELSE [data |-> IF ~body.field THEN None
                 ELSE IF Masks(ep, body) THEN "masked" ELSE "clear",
        owner |-> body.owner, id |-> body.id, text |-> body.text]

\* Chain.InterceptRequest, and the pipeline's answer to its error.
Intercept(q, body) ==
  /\ req[q].pc = "intercept"
  /\ IF FailsSchema(req[q].ep, body) THEN Reply(q)
     ELSE req' = [req EXCEPT ![q].pc = "backend", ![q].sets = Parse(req[q].ep, body)]
  /\ UNCHANGED tables

-----------------------------------------------------------------------------
\* ResolveHandler

\* handleHTTPProxy: the answer of the service, or none.
Proxy(q) ==
  /\ req[q].pc = "backend" /\ req[q].ep.url
  /\ Reply(q)
  /\ UNCHANGED tables

ProxyFails(q) ==
  /\ Faults
  /\ req[q].pc = "backend" /\ req[q].ep.url
  /\ Reply(q)
  /\ UNCHANGED tables

Generic(q, action) ==
  req[q].pc = "backend" /\ ~req[q].ep.url /\ req[q].ep.action = action

UnknownAction(q) ==
  /\ Generic(q, "other")
  /\ Reply(q)
  /\ UNCHANGED tables

\* extractIDFromPath: the segment after the table's singular name.
PathId(q) == IF req[q].ep.path = "singular" THEN req[q].id ELSE None

Key(q, id) == << TableOf(req[q].ep), id >>

\* The ids a statement with organization_id and app_id sees.
Own(q) == {id \in Records : /\ TableOf(req[q].ep) \in Tables
                            /\ rows[Key(q, id)] # None
                            /\ rows[Key(q, id)].owner = req[q].scope}

\* A statement fails: there is no such table, no such record, a column the table
\* does not have, or a fault.
StatementFails(q) ==
  /\ \/ \E action \in Actions : Generic(q, action)
     \/ req[q].pc = "select"
  /\ \/ Faults
     \/ TableOf(req[q].ep) \notin Tables
     \/ req[q].ep.action \in {"get", "update", "delete"} /\ PathId(q) \notin Own(q)
     \/ req[q].sets # NoColumns
  /\ Reply(q)
  /\ UNCHANGED tables

\* What the answer shows of some ids.
Show(q, ids) == {[id |-> id, row |-> rows[Key(q, id)]] : id \in ids}

\* handleList: the COUNT, then the page.
CountRows(q) ==
  /\ Generic(q, "list")
  /\ TableOf(req[q].ep) \in Tables
  /\ req' = [req EXCEPT ![q].pc = "select"]
  /\ UNCHANGED tables

PageSize(limit) == IF limit <= 0 \/ limit > MaxLimit THEN DefaultLimit ELSE limit

\* Fault: the page is not restricted to the application.
SelectAll(q, limit) ==
  /\ req[q].pc = "select"
  /\ \E page \in SUBSET {id \in Records : rows[Key(q, id)] # None} :
       /\ Cardinality(page) <= PageSize(limit)
       /\ ReplyWith(q, Show(q, page))
  /\ UNCHANGED tables

Select(q, limit) ==
  /\ req[q].pc = "select"
  /\ \E page \in SUBSET Own(q) :
       /\ Cardinality(page) <= PageSize(limit)
       /\ ReplyWith(q, Show(q, page))
  /\ UNCHANGED tables

Get(q) ==
  /\ Generic(q, "get")
  /\ PathId(q) \in Own(q)
  /\ ReplyWith(q, Show(q, {PathId(q)}))
  /\ UNCHANGED tables

\* History: whether the record now holds what an endpoint without masking wrote.
Written(q, record) ==
  plain' = IF req[q].sets.data = None THEN plain
           ELSE IF req[q].ep.masking THEN plain \ {record} ELSE plain \union {record}

\* A body that names id or owner in other letters names a column twice, which an
\* INSERT does not survive.
Insertable(q) == req[q].sets.owner = None /\ req[q].sets.id = None /\ ~req[q].sets.text

\* Fault: the body may set organization_id and app_id.
CreateForAnyone(q, id) ==
  /\ Generic(q, "create") /\ Insertable(q)
  /\ id \notin used
  /\ TableOf(req[q].ep) \in Tables
  /\ \E owner \in Scopes :
       LET row == [owner |-> owner, data |-> req[q].sets.data, born |-> id] IN
       /\ rows' = [rows EXCEPT ![Key(q, id)] = row]
       /\ ReplyOrLose(q, {[id |-> id, row |-> row]})
  /\ used' = used \union {id}
  /\ Written(q, id)
  /\ UNCHANGED << deletions, textual >>

\* handleCreate: uuid.New() draws an id nobody has used.
Create(q, id) ==
  /\ Generic(q, "create") /\ Insertable(q)
  /\ id \notin used
  /\ TableOf(req[q].ep) \in Tables
  /\ LET row == [owner |-> req[q].scope, data |-> req[q].sets.data, born |-> id] IN
     /\ rows' = [rows EXCEPT ![Key(q, id)] = row]
     /\ ReplyOrLose(q, {[id |-> id, row |-> row]})
  /\ used' = used \union {id}
  /\ Written(q, id)
  /\ UNCHANGED << deletions, textual >>

\* handleUpdate: the columns of the body, of which the filter removes id and owner in
\* its own letters only.  The new id must be free: id is the table's key.
UpdateRow(q) ==
  LET from == PathId(q)
      sets == req[q].sets
      to == IF sets.id = None THEN from ELSE sets.id
      row == [rows[Key(q, from)] EXCEPT
                !.owner = IF sets.owner = None THEN @ ELSE sets.owner,
                !.data = IF sets.data = None THEN @ ELSE sets.data] IN
  /\ Generic(q, "update") /\ ~sets.text
  /\ from \in Own(q)
  /\ to = from \/ rows[Key(q, to)] = None
  /\ rows' = [rows EXCEPT ![Key(q, from)] = None, ![Key(q, to)] = row]
  /\ ReplyOrLose(q, {[id |-> to, row |-> row]})
  /\ used' = used \union {to}
  /\ Written(q, row.born)
  /\ UNCHANGED << deletions, textual >>

\* An INSERT or UPDATE with text from the body: whatever that makes of it.
\* The histories end here.  Bound: one of these, and no id is drawn afterwards, as
\* nothing is said of the tables then.
RunText(q) ==
  /\ ~textual
  /\ Generic(q, "create") \/ (Generic(q, "update") /\ PathId(q) # None)
  /\ req[q].sets.text
  /\ TableOf(req[q].ep) \in Tables
  /\ \E effect \in TextEffects : rows' = effect.rows /\ ReplyOrLose(q, effect.answer)
  /\ textual' = TRUE
  /\ used' = Records /\ plain' = {} /\ deletions' = [id \in Records |-> 0]

\* Fault: a DELETE that finds no row is told a success.
DeleteUnchecked(q) ==
  LET id == PathId(q)
      found == id \in Own(q) IN
  /\ Generic(q, "delete") /\ id # None
  /\ rows' = IF found THEN [rows EXCEPT ![Key(q, id)] = None] ELSE rows
  /\ deletions' = [deletions EXCEPT ![IF found THEN rows[Key(q, id)].born ELSE id] = @ + 1]
  /\ Reply(q)
  /\ UNCHANGED << used, plain, textual >>

\* handleDelete
Delete(q) ==
  /\ Generic(q, "delete")
  /\ PathId(q) \in Own(q)
  /\ rows' = [rows EXCEPT ![Key(q, PathId(q))] = None]
  /\ LET record == rows[Key(q, PathId(q))].born IN
     deletions' = [deletions EXCEPT ![record] = @ + 1] \/ (Faults /\ UNCHANGED deletions)
  /\ Reply(q)
  /\ UNCHANGED << used, plain, textual >>

\* Bound: no id is left to draw.
Exhausted(q) ==
  /\ Generic(q, "create")
  /\ used = Records
  /\ Reply(q)
  /\ UNCHANGED tables

Handle(q) ==
  \/ \E body \in Bodies : Intercept(q, body)
  \/ Proxy(q) \/ ProxyFails(q)
  \/ UnknownAction(q) \/ StatementFails(q)
  \/ CountRows(q) \/ (\E limit \in Limits : Select(q, limit)) \/ Get(q)
  \/ (\E id \in Records : Create(q, id)) \/ Exhausted(q)
  \/ UpdateRow(q) \/ RunText(q) \/ Delete(q)

Next ==
  \E q \in Requests :
    \/ \E ep \in Endpoints, scope \in Scopes, id \in Records \union {None} :
         Arrive(q, ep, scope, id)
    \/ Handle(q)

Spec == Init /\ [][Next]_vars

-----------------------------------------------------------------------------
\* Properties.  They end where a body's text gets into a statement.

\* Every record an answer shows is one the table held for the request's organization
\* and application when the statement ran, whatever other requests inserted, moved and
\* deleted between the two statements of a list, or the one it has itself just written.
IsolatedReads ==
  [][\A q \in Requests : req'[q] # req[q] /\ req'[q].pc = "done" /\ ~textual' =>
       \A shown \in req'[q].answer :
         LET key == Key(q, shown.id) IN
         /\ shown.row = rows'[key]
         /\ rows'[key] = rows[key] => shown.row.owner = req[q].scope]_vars

\* A record changes only through a request of its own organization and application,
\* and comes to belong to others only if that request is an update whose body names
\* the owner's columns in other letters than the filter's.
IsolatedWrites ==
  [][\A key \in Tables \X Records : rows'[key] # rows[key] /\ ~textual' =>
       \E q \in Requests :
         /\ req'[q] # req[q] /\ req[q].pc = "backend"
         /\ rows[key] # None => rows[key].owner = req[q].scope
         /\ rows'[key] # None =>
              \/ rows'[key].owner = req[q].scope
              \/ req[q].ep.action = "update" /\ rows'[key].owner = req[q].sets.owner]_vars

\* A column the masker knows is stored in the clear only where an endpoint without
\* masking wrote it last: through a masking endpoint no value of a body brings it in,
\* neither one that was validated first nor one that is not an object, and no later
\* id or owner of the record either.
MaskedAtRest ==
  ~textual => \A key \in Tables \X Records :
    rows[key] # None /\ rows[key].data = "clear" => rows[key].born \in plain

Present(record) == \E key \in Tables \X Records : rows[key] # None /\ rows[key].born = record

\* Of any number of requests that delete a record, at most one is told it did, under
\* whatever ids they name it.
DeletedOnce ==
  ~textual => \A record \in Records : deletions[record] <= IF Present(record) THEN 0 ELSE 1

-----------------------------------------------------------------------------
\* The inductive invariant: what a masking endpoint is about to write is masked,
\* ids that nobody used name nothing, no record is there twice, and the second
\* statement of a list runs only if the first did.
MaskedOnTheWay ==
  \A q \in Requests :
    req[q].pc \in {"backend", "select"} /\ req[q].ep.masking => req[q].sets.data # "clear"

FreshIds ==
  ~textual => \A id \in Records \ used :
    /\ \A table \in Tables : rows[<< table, id >>] = None
    /\ ~Present(id) /\ deletions[id] = 0

OneRow ==
  ~textual => \A key, other \in Tables \X Records :
    rows[key] # None /\ rows[other] # None /\ rows[key].born = rows[other].born
      => key = other

ListsTable ==
  \A q \in Requests : req[q].pc = "select" => TableOf(req[q].ep) \in Tables

IndInv ==
  /\ TypeOK
  /\ MaskedAtRest /\ DeletedOnce
  /\ MaskedOnTheWay /\ FreshIds /\ OneRow /\ ListsTable
=============================================================================
