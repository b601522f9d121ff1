------------------------ MODULE DynamicBackend_proofs ------------------------
(***************************************************************************)
(* Proofs about DynamicBackend, for any number of requests, applications,  *)
(* records, endpoints, tables and bodies, with and without failing         *)
(* statements, and for anything a statement with text of a body may do.    *)
(***************************************************************************)
EXTENDS DynamicBackend, TLAPS

\* What a request holds while it is served.
Held == [pc : {"intercept", "backend", "select"}, ep : Endpoints, scope : Scopes,
         id : Records \union {None}, sets : Columns]
Done == [pc : {"done"}, answer : SUBSET Shown]
AllKeys == Tables \X Records

\* A request is idle, served or answered.
LEMMA RequestFacts ==
  ASSUME TypeOK, NEW q \in Requests
  PROVE  /\ req[q].pc \in {"intercept", "backend", "select"} => req[q] \in Held
         /\ req[q].pc = "done" => req[q] \in Done
         /\ req[q].pc \in {"idle", "intercept", "backend", "select", "done"}
BY DEF TypeOK, RequestState, Held, Done, Idle

\* What is set while a request is served leaves it one that is served.
LEMMA HeldFacts ==
  /\ \A h \in Held : h \in RequestState /\ h.ep \in Endpoints /\ h.scope \in Scopes
                     /\ h.sets \in Columns /\ h.id \in Records \union {None}
  /\ \A h \in Held, sets \in Columns : [h EXCEPT !.pc = "backend", !.sets = sets] \in Held
  /\ \A h \in Held : [h EXCEPT !.pc = "select"] \in Held
BY DEF Held, RequestState

\* A row is not the missing row.
LEMMA RowFacts ==
  /\ None \notin Row /\ None \notin Scopes /\ None \notin Records /\ None \notin Tables
  /\ \A row \in Row : row.owner \in Scopes /\ row.data \in Data /\ row.born \in Records
BY BackendAssumption DEF Row

\* A request's keys lie in its table, one for each id.
LEMMA KeyFacts ==
  ASSUME NEW q, TableOf(req[q].ep) \in Tables, NEW id \in Records, NEW other \in Records
  PROVE  Key(q, id) \in AllKeys /\ (Key(q, id) = Key(q, other) <=> id = other)
BY DEF Key, AllKeys

\* What a request may name is one of its application's records.
LEMMA OwnFacts ==
  ASSUME TypeOK, NEW q \in Requests, NEW id \in Own(q)
  PROVE  /\ id \in Records /\ TableOf(req[q].ep) \in Tables /\ Key(q, id) \in AllKeys
         /\ rows[Key(q, id)] \in Row /\ rows[Key(q, id)] # None
         /\ rows[Key(q, id)].owner = req[q].scope
<1>1. id \in Records /\ TableOf(req[q].ep) \in Tables /\ rows[Key(q, id)] # None
      /\ rows[Key(q, id)].owner = req[q].scope
  BY DEF Own
<1>2. Key(q, id) \in AllKeys
  BY <1>1, KeyFacts
<1> QED BY <1>1, <1>2 DEF TypeOK, AllKeys

-----------------------------------------------------------------------------
\* An answer ends the request.
LEMMA ReplyFacts ==
  ASSUME TypeOK, NEW q \in Requests, NEW answer \in SUBSET Shown, ReplyOrLose(q, answer)
  PROVE  /\ req' \in [Requests -> RequestState]
         /\ req' = [req EXCEPT ![q] = req'[q]]
         /\ req'[q].pc = "done" /\ req'[q].answer \in {answer, {}}
<1>1. \A shown \in {answer, {}} : [pc |-> "done", answer |-> shown] \in RequestState
  BY DEF RequestState
<1>2. PICK shown \in {answer, {}} : req' = [req EXCEPT ![q] = [pc |-> "done", answer |-> shown]]
  BY DEF ReplyOrLose, Reply, ReplyWith
<1>3. req'[q] = [pc |-> "done", answer |-> shown]
  BY <1>2 DEF TypeOK
<1> QED BY <1>1, <1>2, <1>3 DEF TypeOK

\* So does an empty one, and one that is not lost.
LEMMA ReplyKinds ==
  ASSUME NEW q
  PROVE  /\ Reply(q) => ReplyOrLose(q, {})
         /\ \A answer : ReplyWith(q, answer) => ReplyOrLose(q, answer)
BY DEF ReplyOrLose, Reply

\* The inductive invariant, request by request.
RequestRight(q) ==
  /\ req[q].pc \in {"backend", "select"} /\ req[q].ep.masking => req[q].sets.data # "clear"
  /\ req[q].pc = "select" => TableOf(req[q].ep) \in Tables

\* The tables' part of it.
TablesRight == MaskedAtRest /\ DeletedOnce /\ FreshIds /\ OneRow

\* Together they are the invariant.
LEMMA InvParts ==
  IndInv <=> TypeOK /\ TablesRight /\ \A q \in Requests : RequestRight(q)
BY DEF IndInv, TablesRight, RequestRight, MaskedOnTheWay, ListsTable

\* A step of one request that keeps the tables right and itself right keeps everything.
LEMMA OneMoves ==
  ASSUME IndInv, NEW q \in Requests, req' \in [Requests -> RequestState],
         req' = [req EXCEPT ![q] = req'[q]], RequestRight(q)',
         rows' \in [AllKeys -> Row \union {None}], used' \subseteq Records,
         plain' \subseteq Records, deletions' \in [Records -> Nat], textual' \in BOOLEAN,
         TablesRight'
  PROVE  IndInv'
<1>1. ASSUME NEW r \in Requests, r # q PROVE RequestRight(r)'
  <2>1. req'[r] = req[r] /\ RequestRight(r)
    BY <1>1, InvParts DEF TypeOK
  <2> QED BY <2>1 DEF RequestRight, TableOf
<1> QED BY <1>1 DEF TypeOK, IndInv, TablesRight, RequestRight, MaskedOnTheWay, ListsTable, AllKeys

\* Most steps do not touch the tables.
LEMMA OneReads ==
  ASSUME IndInv, NEW q \in Requests, req' \in [Requests -> RequestState],
         req' = [req EXCEPT ![q] = req'[q]], RequestRight(q)', UNCHANGED tables
  PROVE  IndInv'
<1>1. TablesRight'
  BY InvParts DEF TablesRight, MaskedAtRest, DeletedOnce, FreshIds, OneRow, Present, tables
<1> QED BY <1>1, OneMoves DEF IndInv, TypeOK, tables, AllKeys

\* In particular an answer from the tables.
LEMMA Answers ==
  ASSUME IndInv, NEW q \in Requests, NEW answer \in SUBSET Shown, ReplyOrLose(q, answer),
         UNCHANGED tables
  PROVE  IndInv'
<1>1. RequestRight(q)'
  BY ReplyFacts DEF RequestRight, IndInv
<1> QED BY <1>1, ReplyFacts, OneReads DEF IndInv

\* What an answer may show of the application's records.
LEMMA ShowFacts ==
  ASSUME TypeOK, NEW q \in Requests, NEW page \in SUBSET Own(q)
  PROVE  Show(q, page) \in SUBSET Shown
BY OwnFacts DEF Show, Shown

-----------------------------------------------------------------------------
\* Requests that arrive, are intercepted, refused or answered from the tables.
LEMMA ReadersStep ==
  ASSUME IndInv, NEW q \in Requests,
         \/ \E ep \in Endpoints, scope \in Scopes, id \in Records \union {None} :
              Arrive(q, ep, scope, id)
         \/ \E body \in Bodies : Intercept(q, body)
         \/ Proxy(q) \/ ProxyFails(q) \/ UnknownAction(q) \/ StatementFails(q)
         \/ CountRows(q) \/ (\E limit \in Limits : Select(q, limit)) \/ Get(q) \/ Exhausted(q)
  PROVE  IndInv'
<1>0. TypeOK /\ {} \in SUBSET Shown
  BY DEF IndInv
<1>1. ASSUME NEW ep \in Endpoints, NEW scope \in Scopes, NEW id \in Records \union {None},
             Arrive(q, ep, scope, id)
      PROVE  IndInv'
  <2>1. [pc |-> "intercept", ep |-> ep, scope |-> scope, id |-> id, sets |-> NoColumns]
          \in RequestState
    BY DEF RequestState, NoColumns, Columns, Data
  <2>2. /\ req' \in [Requests -> RequestState] /\ req' = [req EXCEPT ![q] = req'[q]]
        /\ req'[q].pc = "intercept"
    BY <1>0, <1>1, <2>1 DEF Arrive, TypeOK
  <2> QED BY <1>1, <2>2, OneReads DEF Arrive, RequestRight
<1>2. ASSUME NEW body \in Bodies, Intercept(q, body) PROVE IndInv'
  <2>0. req[q] \in Held
    BY <1>0, <1>2, RequestFacts DEF Intercept
  <2>1. CASE FailsSchema(req[q].ep, body)
    BY <1>0, <1>2, <2>1, ReplyKinds, Answers DEF Intercept
  <2>2. CASE ~FailsSchema(req[q].ep, body)
    <3> DEFINE sets == Parse(req[q].ep, body)
    <3>0. body \in Body
      BY BackendAssumption
    <3>1. sets \in Columns /\ (req[q].ep.masking => sets.data # "clear")
      BY <3>0, BackendAssumption DEF Parse, Masks, NoColumns, Columns, Data, Body
    <3>2. [req[q] EXCEPT !.pc = "backend", !.sets = sets] \in Held
      BY <2>0, <3>1, HeldFacts
    <3>3. /\ req' \in [Requests -> RequestState] /\ req' = [req EXCEPT ![q] = req'[q]]
          /\ req'[q] = [req[q] EXCEPT !.pc = "backend", !.sets = sets]
      BY <1>0, <1>2, <2>2, <3>2, HeldFacts DEF Intercept, TypeOK
    <3> HIDE DEF sets
    <3>4. /\ req'[q].pc = "backend" /\ req'[q].ep = req[q].ep /\ req'[q].sets = sets
      BY <2>0, <3>3 DEF Held
    <3> QED BY <1>2, <3>1, <3>3, <3>4, OneReads DEF Intercept, RequestRight
  <2> QED BY <2>1, <2>2
<1>3. CASE Proxy(q) \/ ProxyFails(q) \/ UnknownAction(q) \/ StatementFails(q) \/ Exhausted(q)
  <2>1. Reply(q) /\ UNCHANGED tables
    BY <1>3 DEF Proxy, ProxyFails, UnknownAction, StatementFails, Exhausted
  <2> QED BY <1>0, <2>1, ReplyKinds, Answers
<1>4. CASE CountRows(q)
  <2>0. req[q] \in Held /\ RequestRight(q)
    BY <1>0, <1>4, RequestFacts, InvParts DEF CountRows, Generic
  <2>1. /\ req' \in [Requests -> RequestState] /\ req' = [req EXCEPT ![q] = req'[q]]
        /\ req'[q] = [req[q] EXCEPT !.pc = "select"]
    BY <1>0, <1>4, <2>0, HeldFacts DEF CountRows, TypeOK
  <2>2. req'[q].pc = "select" /\ req'[q].ep = req[q].ep /\ req'[q].sets = req[q].sets
    BY <2>0, <2>1 DEF Held
  <2> QED BY <1>4, <2>0, <2>1, <2>2, OneReads DEF CountRows, Generic, RequestRight, TableOf
<1>5. ASSUME NEW limit \in Limits, Select(q, limit) PROVE IndInv'
  <2>1. PICK page \in SUBSET Own(q) : ReplyWith(q, Show(q, page))
    BY <1>5 DEF Select
  <2>2. ReplyOrLose(q, Show(q, page)) /\ Show(q, page) \in SUBSET Shown /\ UNCHANGED tables
    BY <1>0, <1>5, <2>1, ReplyKinds, ShowFacts DEF Select
  <2> QED BY <2>2, Answers
<1>6. CASE Get(q)
  <2>1. Show(q, {PathId(q)}) \in SUBSET Shown
    BY <1>0, <1>6, ShowFacts DEF Get
  <2>2. ReplyOrLose(q, Show(q, {PathId(q)})) /\ UNCHANGED tables
    BY <1>6, ReplyKinds DEF Get
  <2> QED BY <2>1, <2>2, Answers
<1> QED BY <1>1, <1>2, <1>3, <1>4, <1>5, <1>6

\* What is written through a masking endpoint is not in the clear, and Written notes
\* what is.
LEMMA WrittenFacts ==
  ASSUME NEW q, NEW record \in Records, Written(q, record), plain \subseteq Records,
         req[q].ep.masking => req[q].sets.data # "clear"
  PROVE  /\ plain' \subseteq Records
         /\ \A i \in Records : i # record => (i \in plain' <=> i \in plain)
         /\ req[q].sets.data = "clear" => record \in plain'
         /\ req[q].sets.data = None => (record \in plain' <=> record \in plain)
BY RowFacts, BackendAssumption DEF Written

-----------------------------------------------------------------------------
\* An INSERT draws a new id.
LEMMA CreateStep ==
  ASSUME IndInv, NEW q \in Requests, NEW id \in Records, Create(q, id)
  PROVE  IndInv'
<1> DEFINE key == Key(q, id)
           row == [owner |-> req[q].scope, data |-> req[q].sets.data, born |-> id]
<1>0. TypeOK /\ TablesRight /\ RequestRight(q)
  BY InvParts
<1>1. /\ req[q] \in Held /\ req[q].pc = "backend" /\ TableOf(req[q].ep) \in Tables
      /\ key \in AllKeys
  BY <1>0, RequestFacts, KeyFacts DEF Create, Generic
<1>2. row \in Row /\ row # None /\ row.data = req[q].sets.data /\ row.born = id
  <2>1. row \in Row
    BY <1>1, HeldFacts DEF Row, Columns
  <2> QED BY <2>1, RowFacts
<1>3. /\ rows' = [rows EXCEPT ![key] = row] /\ ReplyOrLose(q, {[id |-> id, row |-> row]})
      /\ used' = used \union {id} /\ deletions' = deletions /\ textual' = textual
      /\ id \notin used /\ Written(q, id)
  BY DEF Create
<1>4. {[id |-> id, row |-> row]} \in SUBSET Shown
  BY <1>2 DEF Shown
<1>5. \A table \in Tables : << table, id >> # key => table # TableOf(req[q].ep)
  BY DEF Key
<1> HIDE DEF row
<1>6. /\ plain' \subseteq Records
      /\ \A i \in Records : i # id => (i \in plain' <=> i \in plain)
      /\ req[q].sets.data = "clear" => id \in plain'
  BY <1>0, <1>1, <1>3, WrittenFacts DEF RequestRight, TypeOK
<1>7. /\ rows'[key] = row /\ \A k \in AllKeys : k # key => rows'[k] = rows[k]
      /\ rows' \in [AllKeys -> Row \union {None}]
  BY <1>0, <1>1, <1>2, <1>3 DEF TypeOK, AllKeys
<1>8. \A table \in Tables, i \in Records : i # id => << table, i >> # key /\ << table, i >> \in AllKeys
  BY DEF Key, AllKeys
<1> HIDE DEF key
<1>9. ASSUME ~textual
      PROVE  /\ ~Present(id) /\ deletions[id] = 0
             /\ \A i \in Records : i # id => (Present(i)' <=> Present(i))
             /\ \A k \in AllKeys : k # key /\ rows[k] # None => rows[k].born # id
  <2>1. ~Present(id) /\ deletions[id] = 0
    BY <1>0, <1>3, <1>9 DEF TablesRight, FreshIds
  <2>2. \A k \in AllKeys : rows[k] # None => rows[k].born # id
    BY <2>1 DEF Present, AllKeys
  <2>3. rows[key] = None
    BY <1>0, <1>1, <1>3, <1>9 DEF TablesRight, FreshIds, key, Key
  <2>4. ASSUME NEW i \in Records, i # id PROVE Present(i)' <=> Present(i)
    BY <1>1, <1>2, <1>7, <2>3, <2>4 DEF Present, AllKeys
  <2> QED BY <2>1, <2>2, <2>4
<1>10. TablesRight'
  <2> SUFFICES ASSUME ~textual PROVE TablesRight'
    BY <1>3 DEF TablesRight, MaskedAtRest, DeletedOnce, FreshIds, OneRow
  <2>1. MaskedAtRest'
    <3> SUFFICES ASSUME NEW k \in AllKeys, rows'[k] # None, rows'[k].data = "clear"
                 PROVE  rows'[k].born \in plain'
      BY DEF MaskedAtRest, AllKeys
    <3>1. CASE k = key
      BY <1>2, <1>6, <1>7, <3>1
    <3>2. CASE k # key
      <4>1. rows'[k] = rows[k] /\ rows[k] \in Row /\ rows[k].born \in plain
        BY <1>0, <1>7, <3>2 DEF TablesRight, MaskedAtRest, TypeOK, AllKeys
      <4> QED BY <1>6, <1>9, <3>2, <4>1, RowFacts
    <3> QED BY <3>1, <3>2
  <2>2. DeletedOnce'
    BY <1>0, <1>3, <1>9 DEF TablesRight, DeletedOnce, TypeOK
  <2>3. FreshIds'
    BY <1>0, <1>3, <1>7, <1>8, <1>9 DEF TablesRight, FreshIds
  <2>4. OneRow'
    BY <1>0, <1>2, <1>7, <1>9 DEF TablesRight, OneRow, AllKeys
  <2> QED BY <2>1, <2>2, <2>3, <2>4 DEF TablesRight
<1>11. req' \in [Requests -> RequestState] /\ req' = [req EXCEPT ![q] = req'[q]]
       /\ req'[q].pc = "done"
  BY <1>0, <1>3, <1>4, ReplyFacts
<1>12. RequestRight(q)'
  BY <1>11 DEF RequestRight
<1>13. used' \subseteq Records /\ deletions' \in [Records -> Nat] /\ textual' \in BOOLEAN
  BY <1>0, <1>3 DEF TypeOK
<1> QED BY <1>6, <1>7, <1>10, <1>11, <1>12, <1>13, OneMoves

\* An UPDATE changes what a record of the application holds, and may call it otherwise
\* or give it away.
LEMMA UpdateFacts ==
  ASSUME TypeOK, NEW q \in Requests, UpdateRow(q)
  PROVE  \E from \in Own(q), to \in Records, row \in Row :
           /\ req[q] \in Held /\ Generic(q, "update")
           /\ Key(q, to) \in AllKeys /\ (to = from \/ rows[Key(q, to)] = None)
           /\ rows' = [rows EXCEPT ![Key(q, from)] = None, ![Key(q, to)] = row]
           /\ row.owner \in {req[q].scope, req[q].sets.owner}
           /\ row.data = IF req[q].sets.data = None THEN rows[Key(q, from)].data
                         ELSE req[q].sets.data
           /\ row.born = rows[Key(q, from)].born
           /\ ReplyOrLose(q, {[id |-> to, row |-> row]})
           /\ used' = used \union {to} /\ Written(q, row.born)
           /\ UNCHANGED << deletions, textual >>
<1> DEFINE from == PathId(q)
           sets == req[q].sets
           to == IF sets.id = None THEN from ELSE sets.id
           row == [rows[Key(q, from)] EXCEPT
                     !.owner = IF sets.owner = None THEN @ ELSE sets.owner,
                     !.data = IF sets.data = None THEN @ ELSE sets.data]
<1>1. /\ Generic(q, "update") /\ from \in Own(q)
      /\ to = from \/ rows[Key(q, to)] = None
      /\ rows' = [rows EXCEPT ![Key(q, from)] = None, ![Key(q, to)] = row]
      /\ ReplyOrLose(q, {[id |-> to, row |-> row]})
      /\ used' = used \union {to} /\ Written(q, row.born)
      /\ UNCHANGED << deletions, textual >>
  BY DEF UpdateRow
<1>2. req[q] \in Held /\ sets \in Columns
  BY <1>1, RequestFacts, HeldFacts DEF Generic
<1>3. /\ from \in Records /\ TableOf(req[q].ep) \in Tables
      /\ rows[Key(q, from)] \in Row /\ rows[Key(q, from)].owner = req[q].scope
  BY <1>1, OwnFacts
<1>4. to \in Records /\ Key(q, to) \in AllKeys
  BY <1>2, <1>3, KeyFacts DEF Columns
<1>5. /\ row \in Row /\ row.owner \in {req[q].scope, sets.owner}
      /\ row.data = IF sets.data = None THEN rows[Key(q, from)].data ELSE sets.data
      /\ row.born = rows[Key(q, from)].born
  BY <1>2, <1>3 DEF Columns, Row
<1> HIDE DEF row, to, from
<1> QED BY <1>1, <1>2, <1>4, <1>5

\* The invariant survives it: the record is still there once, under a used id.
LEMMA UpdateStep ==
  ASSUME IndInv, NEW q \in Requests, UpdateRow(q)
  PROVE  IndInv'
<1>0. TypeOK /\ TablesRight /\ RequestRight(q)
  BY InvParts
<1>1. PICK from \in Own(q), to \in Records, row \in Row :
           /\ req[q] \in Held /\ Generic(q, "update")
           /\ Key(q, to) \in AllKeys /\ (to = from \/ rows[Key(q, to)] = None)
           /\ rows' = [rows EXCEPT ![Key(q, from)] = None, ![Key(q, to)] = row]
           /\ row.owner \in {req[q].scope, req[q].sets.owner}
           /\ row.data = IF req[q].sets.data = None THEN rows[Key(q, from)].data
                         ELSE req[q].sets.data
           /\ row.born = rows[Key(q, from)].born
           /\ ReplyOrLose(q, {[id |-> to, row |-> row]})
           /\ used' = used \union {to} /\ Written(q, row.born)
           /\ UNCHANGED << deletions, textual >>
  BY <1>0, UpdateFacts
<1> DEFINE k1 == Key(q, from)
           k2 == Key(q, to)
<1>2. /\ k1 \in AllKeys /\ k2 \in AllKeys /\ (k2 = k1 \/ rows[k2] = None)
      /\ rows[k1] \in Row /\ rows[k1] # None /\ row # None /\ row.born \in Records
  BY <1>0, <1>1, OwnFacts, RowFacts
<1>3. /\ rows'[k2] = row
      /\ k1 # k2 => rows'[k1] = None
      /\ \A k \in AllKeys : k \notin {k1, k2} => rows'[k] = rows[k]
      /\ rows' \in [AllKeys -> Row \union {None}]
  BY <1>0, <1>1, <1>2 DEF TypeOK, AllKeys
<1>4. \A table \in Tables, i \in Records :
        /\ << table, i >> \in AllKeys
        /\ i # to => << table, i >> # k2
  BY DEF Key, AllKeys
<1>5. \A k \in AllKeys : rows'[k] # None => k = k2 \/ (k # k1 /\ rows'[k] = rows[k])
  BY <1>2, <1>3
<1>6. {[id |-> to, row |-> row]} \in SUBSET Shown
  BY DEF Shown
<1>7. /\ plain' \subseteq Records
      /\ \A i \in Records : i # row.born => (i \in plain' <=> i \in plain)
      /\ req[q].sets.data = "clear" => row.born \in plain'
      /\ req[q].sets.data = None => (row.born \in plain' <=> row.born \in plain)
  BY <1>0, <1>1, <1>2, WrittenFacts DEF RequestRight, TypeOK, Generic
<1> HIDE DEF k1, k2
<1>8. ASSUME NEW i \in Records PROVE Present(i)' <=> Present(i)
  <2>1. ASSUME Present(i) PROVE Present(i)'
    <3>1. PICK k \in AllKeys : rows[k] # None /\ rows[k].born = i
      BY <2>1 DEF Present, AllKeys
    <3>2. CASE k = k1
      BY <1>1, <1>2, <1>3, <3>1, <3>2 DEF Present, AllKeys, k1
    <3>3. CASE k # k1
      BY <1>2, <1>3, <3>1, <3>3 DEF Present, AllKeys
    <3> QED BY <3>2, <3>3
  <2>2. ASSUME Present(i)' PROVE Present(i)
    <3>1. PICK k \in AllKeys : rows'[k] # None /\ rows'[k].born = i
      BY <2>2 DEF Present, AllKeys
    <3>2. CASE k = k2
      BY <1>1, <1>2, <1>3, <3>1, <3>2 DEF Present, AllKeys, k1
    <3>3. CASE k # k2
      BY <1>5, <3>1, <3>3 DEF Present, AllKeys
    <3> QED BY <3>2, <3>3
  <2> QED BY <2>1, <2>2
<1>9. TablesRight'
  <2> SUFFICES ASSUME ~textual PROVE TablesRight'
    BY <1>1 DEF TablesRight, MaskedAtRest, DeletedOnce, FreshIds, OneRow
  <2>0. \A k \in AllKeys : k # k1 /\ rows[k] # None => rows[k].born # row.born
    BY <1>0, <1>1, <1>2 DEF TablesRight, OneRow, AllKeys, k1
  <2>1. MaskedAtRest'
    <3> SUFFICES ASSUME NEW k \in AllKeys, rows'[k] # None, rows'[k].data = "clear"
                 PROVE  rows'[k].born \in plain'
      BY DEF MaskedAtRest, AllKeys
    <3>1. CASE k = k2
      <4>1. CASE req[q].sets.data = None
        <5>1. rows[k1].data = "clear" /\ rows[k1].born = row.born
          BY <1>1, <1>3, <3>1, <4>1 DEF k1
        <5>2. row.born \in plain
          BY <1>0, <1>2, <5>1 DEF TablesRight, MaskedAtRest, AllKeys
        <5> QED BY <1>3, <1>7, <3>1, <4>1, <5>2
      <4>2. CASE req[q].sets.data # None
        BY <1>1, <1>3, <1>7, <3>1, <4>2
      <4> QED BY <4>1, <4>2
    <3>2. CASE k # k2
      <4>1. k # k1 /\ rows'[k] = rows[k] /\ rows[k] \in Row /\ rows[k].born \in plain
        BY <1>0, <1>5, <3>2 DEF TablesRight, MaskedAtRest, TypeOK, AllKeys
      <4> QED BY <1>7, <2>0, <4>1, RowFacts
    <3> QED BY <3>1, <3>2
  <2>2. DeletedOnce'
    BY <1>0, <1>1, <1>8 DEF TablesRight, DeletedOnce
  <2>3. FreshIds'
    <3> SUFFICES ASSUME NEW i \in Records, i \notin used'
                 PROVE  /\ \A table \in Tables : rows'[<< table, i >>] = None
                        /\ ~Present(i)' /\ deletions'[i] = 0
      BY DEF FreshIds
    <3>1. i \notin used /\ i # to
      BY <1>1
    <3>2. \A table \in Tables : rows[<< table, i >>] = None
      BY <1>0, <3>1 DEF TablesRight, FreshIds
    <3>3. \A table \in Tables : rows'[<< table, i >>] = None
      BY <1>4, <1>5, <3>1, <3>2
    <3> QED BY <1>0, <1>1, <1>8, <3>1, <3>3 DEF TablesRight, FreshIds
  <2>4. OneRow'
    <3> SUFFICES ASSUME NEW k \in AllKeys, NEW other \in AllKeys, rows'[k] # None,
                        rows'[other] # None, rows'[k].born = rows'[other].born
                 PROVE  k = other
      BY DEF OneRow, AllKeys
    <3> QED BY <1>0, <1>3, <1>5, <2>0 DEF TablesRight, OneRow, AllKeys
  <2> QED BY <2>1, <2>2, <2>3, <2>4 DEF TablesRight
<1>10. req' \in [Requests -> RequestState] /\ req' = [req EXCEPT ![q] = req'[q]]
       /\ req'[q].pc = "done"
  BY <1>0, <1>1, <1>6, ReplyFacts
<1>11. RequestRight(q)'
  BY <1>10 DEF RequestRight
<1>12. used' \subseteq Records /\ deletions' \in [Records -> Nat] /\ textual' \in BOOLEAN
  BY <1>0, <1>1 DEF TypeOK
<1> QED BY <1>3, <1>7, <1>9, <1>10, <1>11, <1>12, OneMoves

\* After a statement with text of a body only the types are left.
LEMMA TextStep ==
  ASSUME IndInv, NEW q \in Requests, RunText(q)
  PROVE  IndInv'
<1>0. TypeOK
  BY DEF IndInv
<1>1. PICK effect \in TextEffects : rows' = effect.rows /\ ReplyOrLose(q, effect.answer)
  BY DEF RunText
<1>2. effect.rows \in [AllKeys -> Row \union {None}] /\ effect.answer \in SUBSET Shown
  BY BackendAssumption DEF AllKeys
<1>3. req' \in [Requests -> RequestState] /\ req' = [req EXCEPT ![q] = req'[q]]
      /\ req'[q].pc = "done"
  BY <1>0, <1>1, <1>2, ReplyFacts
<1>4. RequestRight(q)'
  BY <1>3 DEF RequestRight
<1>5. textual' = TRUE /\ used' \subseteq Records /\ plain' \subseteq Records
      /\ deletions' \in [Records -> Nat]
  BY DEF RunText
<1>6. TablesRight'
  BY <1>5 DEF TablesRight, MaskedAtRest, DeletedOnce, FreshIds, OneRow
<1> QED BY <1>1, <1>2, <1>3, <1>4, <1>5, <1>6, OneMoves

\* A DELETE that finds the record is the only one.
LEMMA DeleteStep ==
  ASSUME IndInv, NEW q \in Requests, Delete(q)
  PROVE  IndInv'
<1>0. TypeOK /\ TablesRight /\ {} \in SUBSET Shown
  BY InvParts
<1>a. PICK key \in AllKeys : key = Key(q, PathId(q))
  BY <1>0, OwnFacts DEF Delete
<1>b. PICK record \in Records : record = rows[key].born
  BY <1>0, <1>a, OwnFacts, RowFacts DEF Delete
<1>1. /\ rows[key] \in Row /\ rows[key] # None /\ rows[key].born = record
  BY <1>0, <1>a, <1>b, OwnFacts DEF Delete
<1>2. /\ rows' = [rows EXCEPT ![key] = None]
      /\ deletions' = [deletions EXCEPT ![record] = @ + 1] \/ deletions' = deletions
      /\ Reply(q) /\ used' = used /\ plain' = plain /\ textual' = textual
  BY <1>a, <1>b DEF Delete
<1>3. /\ rows'[key] = None /\ \A k \in AllKeys : k # key => rows'[k] = rows[k]
      /\ rows' \in [AllKeys -> Row \union {None}]
  BY <1>0, <1>1, <1>2 DEF TypeOK, AllKeys
<1>4. req' \in [Requests -> RequestState] /\ req' = [req EXCEPT ![q] = req'[q]]
      /\ req'[q].pc = "done"
  BY <1>0, <1>2, ReplyKinds, ReplyFacts
<1>5. RequestRight(q)'
  BY <1>4 DEF RequestRight
<1>6. /\ deletions' \in [Records -> Nat]
      /\ \A i \in Records : i # record => deletions'[i] = deletions[i]
      /\ deletions'[record] <= deletions[record] + 1
  BY <1>0, <1>1, <1>2 DEF TypeOK
<1>7. \A i \in Records : Present(i)' => Present(i)
  BY <1>3 DEF Present, AllKeys
<1>8. Present(record)
  BY <1>1 DEF Present, AllKeys
<1>9. ASSUME NEW i \in Records, i # record, Present(i) PROVE Present(i)'
  <2>1. PICK k \in AllKeys : rows[k] # None /\ rows[k].born = i
    BY <1>9 DEF Present, AllKeys
  <2>2. rows'[k] = rows[k]
    BY <1>1, <1>3, <1>9, <2>1
  <2> QED BY <2>1, <2>2 DEF Present, AllKeys
<1>10. TablesRight'
  <2> SUFFICES ASSUME ~textual PROVE TablesRight'
    BY <1>2 DEF TablesRight, MaskedAtRest, DeletedOnce, FreshIds, OneRow
  <2>1. MaskedAtRest'
    BY <1>0, <1>2, <1>3 DEF TablesRight, MaskedAtRest, AllKeys
  <2>2. OneRow'
    BY <1>0, <1>3 DEF TablesRight, OneRow, AllKeys
  <2>3. ~Present(record)'
    BY <1>0, <1>1, <1>3 DEF TablesRight, OneRow, Present, AllKeys
  <2>4. DeletedOnce'
    <3> SUFFICES ASSUME NEW i \in Records
                 PROVE  deletions'[i] <= IF Present(i)' THEN 0 ELSE 1
      BY DEF DeletedOnce
    <3>1. deletions[i] <= IF Present(i) THEN 0 ELSE 1
      BY <1>0 DEF TablesRight, DeletedOnce
    <3>2. CASE i = record
      <4>1. deletions[i] \in Nat /\ deletions'[i] \in Nat
        BY <1>0, <1>6 DEF TypeOK
      <4>2. Present(i) /\ ~Present(i)'
        BY <1>8, <2>3, <3>2
      <4>3. deletions[i] <= 0
        BY <3>1, <4>2
      <4>4. deletions'[i] <= deletions[i] + 1
        BY <1>6, <3>2
      <4> QED BY <4>1, <4>2, <4>3, <4>4
    <3>3. CASE i # record
      BY <1>6, <1>7, <1>9, <3>1, <3>3
    <3> QED BY <3>2, <3>3
  <2>5. FreshIds'
    <3> SUFFICES ASSUME NEW i \in Records, i \notin used
                 PROVE  /\ \A table \in Tables : rows'[<< table, i >>] = None
                        /\ ~Present(i)' /\ deletions'[i] = 0
      BY <1>2 DEF FreshIds
    <3>1. /\ \A table \in Tables : rows[<< table, i >>] = None
          /\ ~Present(i) /\ deletions[i] = 0
      BY <1>0 DEF TablesRight, FreshIds
    <3>2. \A table \in Tables : << table, i >> \in AllKeys
      BY DEF AllKeys
    <3> QED BY <1>3, <1>6, <1>7, <1>8, <3>1, <3>2
  <2> QED BY <2>1, <2>2, <2>4, <2>5 DEF TablesRight
<1>11. used' \subseteq Records /\ plain' \subseteq Records /\ textual' \in BOOLEAN
  BY <1>0, <1>2 DEF TypeOK
<1> QED BY <1>3, <1>4, <1>5, <1>6, <1>10, <1>11, OneMoves

\* The inductive invariant holds at the start: empty tables and no request.
LEMMA InitInv == Init => IndInv
<1> SUFFICES ASSUME Init PROVE IndInv
  OBVIOUS
<1>1. TypeOK
  BY DEF Init, TypeOK, RequestState
<1>2. \A key \in Tables \X Records : rows[key] = None
  BY DEF Init
<1>3. MaskedAtRest /\ OneRow
  BY <1>2 DEF MaskedAtRest, OneRow
<1>4. \A id \in Records : ~Present(id) /\ deletions[id] = 0
  BY <1>2 DEF Init, Present
<1>5. DeletedOnce /\ FreshIds
  BY <1>2, <1>4 DEF DeletedOnce, FreshIds
<1>6. MaskedOnTheWay /\ ListsTable
  BY DEF Init, Idle, MaskedOnTheWay, ListsTable
<1> QED BY <1>1, <1>3, <1>5, <1>6 DEF IndInv

\* Every step preserves it.
LEMMA StepInv == IndInv /\ [Next]_vars => IndInv'
<1> SUFFICES ASSUME IndInv, [Next]_vars PROVE IndInv'
  OBVIOUS
<1>1. CASE Next
  BY <1>1, ReadersStep, CreateStep, UpdateStep, TextStep, DeleteStep DEF Next, Handle
<1>2. CASE UNCHANGED vars
  BY <1>2 DEF vars, IndInv, TypeOK, MaskedAtRest, DeletedOnce, MaskedOnTheWay,
     FreshIds, OneRow, Present, ListsTable, TableOf
<1> QED BY <1>1, <1>2

-----------------------------------------------------------------------------
\* The inductive invariant of the dynamic backend holds in every reachable state.
THEOREM BackendInductive == Spec => []IndInv
BY InitInv, StepInv, PTL DEF Spec

\* Rows, requests and histories keep their types, whatever a body's text does.
THEOREM BackendTypeCorrect == Spec => []TypeOK
<1>1. IndInv => TypeOK
  BY DEF IndInv
<1> QED BY <1>1, BackendInductive, PTL

\* Columns the masker knows are stored in the clear only by endpoints without masking,
\* whatever id or owner a record is given later.
THEOREM MaskingCorrect == Spec => []MaskedAtRest
<1>1. IndInv => MaskedAtRest
  BY DEF IndInv
<1> QED BY <1>1, BackendInductive, PTL

\* At most one request is told that it deleted a record, under whatever ids.
THEOREM DeletesCorrect == Spec => []DeletedOnce
<1>1. IndInv => DeletedOnce
  BY DEF IndInv
<1> QED BY <1>1, BackendInductive, PTL
-----------------------------------------------------------------------------
\* Nobody writes the tables but these four.
LEMMA RowsStep ==
  ASSUME IndInv, [Next]_vars, NEW key \in Tables \X Records, rows'[key] # rows[key]
  PROVE  \E q \in Requests : (\E i \in Records : Create(q, i)) \/ UpdateRow(q) \/ RunText(q)
                             \/ Delete(q)
BY DEF Next, Handle, Arrive, Intercept, Proxy, ProxyFails, UnknownAction, StatementFails,
   CountRows, Select, Get, Exhausted, vars, tables

\* Writes stay within the organization and application of the request that makes them,
\* but for the owner an update names.
LEMMA WriteStep ==
  ASSUME IndInv, NEW q \in Requests, NEW key \in Tables \X Records, rows'[key] # rows[key],
         (\E i \in Records : Create(q, i)) \/ UpdateRow(q) \/ Delete(q), ~textual'
  PROVE  /\ req'[q] # req[q] /\ req[q].pc = "backend"
         /\ rows[key] # None => rows[key].owner = req[q].scope
         /\ rows'[key] # None =>
              \/ rows'[key].owner = req[q].scope
              \/ req[q].ep.action = "update" /\ rows'[key].owner = req[q].sets.owner
<1>0. TypeOK /\ TablesRight
  BY InvParts
<1>1. ASSUME NEW i \in Records, Create(q, i)
      PROVE  /\ rows[key] = None /\ rows'[key].owner = req[q].scope
             /\ req[q].pc = "backend" /\ req'[q].pc = "done"
  <2>1. /\ Key(q, i) \in Tables \X Records /\ rows[Key(q, i)] = None
        /\ rows' = [rows EXCEPT ![Key(q, i)] =
                      [owner |-> req[q].scope, data |-> req[q].sets.data, born |-> i]]
    BY <1>0, <1>1 DEF Create, TablesRight, FreshIds, Key
  <2>2. key = Key(q, i)
    BY <1>0, <2>1 DEF TypeOK
  <2> QED BY <1>0, <1>1, <2>1, <2>2
          DEF Create, Generic, ReplyOrLose, Reply, ReplyWith, TypeOK
<1>2. ASSUME UpdateRow(q)
      PROVE  /\ rows[key] # None => rows[key].owner = req[q].scope
             /\ rows'[key] # None => rows'[key].owner \in {req[q].scope, req[q].sets.owner}
             /\ req[q].pc = "backend" /\ req[q].ep.action = "update" /\ req'[q].pc = "done"
  <2>1. PICK from \in Own(q), to \in Records, row \in Row :
           /\ req[q] \in Held /\ Generic(q, "update")
           /\ Key(q, to) \in AllKeys /\ (to = from \/ rows[Key(q, to)] = None)
           /\ rows' = [rows EXCEPT ![Key(q, from)] = None, ![Key(q, to)] = row]
           /\ row.owner \in {req[q].scope, req[q].sets.owner}
           /\ ReplyOrLose(q, {[id |-> to, row |-> row]})
    BY <1>0, <1>2, UpdateFacts
  <2>2. rows[Key(q, from)].owner = req[q].scope /\ Key(q, from) \in AllKeys
    BY <1>0, OwnFacts
  <2>3. key \in {Key(q, from), Key(q, to)}
    BY <1>0, <2>1 DEF TypeOK
  <2>4. rows'[key] # None => rows'[key] = row
    BY <1>0, <2>1, <2>2, <2>3 DEF TypeOK, AllKeys
  <2>5. req'[q].pc = "done"
    BY <1>0, <2>1 DEF ReplyOrLose, Reply, ReplyWith, TypeOK
  <2> QED BY <2>1, <2>2, <2>3, <2>4, <2>5 DEF Generic
<1>3. ASSUME Delete(q)
      PROVE  /\ rows[key].owner = req[q].scope /\ rows'[key] = None
             /\ req[q].pc = "backend" /\ req'[q].pc = "done"
  <2>1. rows[Key(q, PathId(q))].owner = req[q].scope
    BY <1>0, <1>3, OwnFacts DEF Delete
  <2>2. key = Key(q, PathId(q)) /\ rows'[key] = None
    BY <1>0, <1>3 DEF Delete, TypeOK
  <2> QED BY <1>0, <1>3, <2>1, <2>2 DEF Delete, Generic, Reply, ReplyWith, TypeOK
<1> QED BY <1>1, <1>2, <1>3

\* A record changes only through a request of its own organization and application, and
\* comes to belong to others only through an update whose body names the owner.
THEOREM WritesCorrect == Spec => IsolatedWrites
<1>1. IndInv /\ [Next]_vars =>
        [\A key \in Tables \X Records : rows'[key] # rows[key] /\ ~textual' =>
           \E q \in Requests :
             /\ req'[q] # req[q] /\ req[q].pc = "backend"
             /\ rows[key] # None => rows[key].owner = req[q].scope
             /\ rows'[key] # None =>
                  \/ rows'[key].owner = req[q].scope
                  \/ req[q].ep.action = "update" /\ rows'[key].owner = req[q].sets.owner]_vars
  <2> SUFFICES ASSUME IndInv, [Next]_vars, NEW key \in Tables \X Records,
                      rows'[key] # rows[key], ~textual'
               PROVE  \E q \in Requests :
                        /\ req'[q] # req[q] /\ req[q].pc = "backend"
                        /\ rows[key] # None => rows[key].owner = req[q].scope
                        /\ rows'[key] # None =>
                             \/ rows'[key].owner = req[q].scope
                             \/ /\ req[q].ep.action = "update"
                                /\ rows'[key].owner = req[q].sets.owner
    OBVIOUS
  <2>1. PICK q \in Requests : (\E i \in Records : Create(q, i)) \/ UpdateRow(q) \/ Delete(q)
    BY RowsStep DEF RunText
  <2> QED BY <2>1, WriteStep
<1> QED BY <1>1, BackendInductive, PTL DEF Spec, IsolatedWrites

\* What an answer shows right after the step that made it.
ShownRight(q) ==
  \A shown \in req'[q].answer :
    LET key == Key(q, shown.id) IN
    /\ shown.row = rows'[key]
    /\ rows'[key] = rows[key] => shown.row.owner = req[q].scope

\* An answer from the tables shows the application's own records.
LEMMA ShowStep ==
  ASSUME IndInv, NEW q \in Requests, NEW page \in SUBSET Own(q), ReplyWith(q, Show(q, page)),
         UNCHANGED tables
  PROVE  ShownRight(q)
<1>1. req'[q].answer = Show(q, page) /\ rows' = rows
  BY DEF IndInv, TypeOK, ReplyWith, tables
<1>2. \A shown \in Show(q, page) :
        /\ shown.row = rows[Key(q, shown.id)]
        /\ shown.row.owner = req[q].scope
  BY OwnFacts DEF IndInv, Show
<1> QED BY <1>1, <1>2 DEF ShownRight

\* An answer without records shows nothing.
LEMMA EmptyStep ==
  ASSUME IndInv, NEW q \in Requests, Reply(q)
  PROVE  ShownRight(q)
BY DEF IndInv, TypeOK, Reply, ReplyWith, ShownRight

\* The answer to a write shows what it has just written.
LEMMA WriteShown ==
  ASSUME IndInv, NEW q \in Requests, NEW id \in Records, NEW row,
         ReplyOrLose(q, {[id |-> id, row |-> row]}), rows'[Key(q, id)] = row,
         rows'[Key(q, id)] # rows[Key(q, id)] \/ row.owner = req[q].scope
  PROVE  ShownRight(q)
<1>1. CASE Reply(q)
  BY <1>1, EmptyStep
<1>2. CASE ReplyWith(q, {[id |-> id, row |-> row]})
  BY <1>2 DEF IndInv, TypeOK, ReplyWith, ShownRight
<1> QED BY <1>1, <1>2 DEF ReplyOrLose
\* Every answer is made by one of these steps.
LEMMA AnswerStep ==
  ASSUME IndInv, NEW q \in Requests, Handle(q), ~textual', req'[q].pc = "done"
  PROVE  ShownRight(q)
<1>0. TypeOK
  BY DEF IndInv
<1>1. CASE \E body \in Bodies : Intercept(q, body)
  <2>1. PICK body \in Bodies : Intercept(q, body)
    BY <1>1
  <2>2. CASE FailsSchema(req[q].ep, body)
    BY <2>1, <2>2, EmptyStep DEF Intercept
  <2>3. CASE ~FailsSchema(req[q].ep, body)
    <3>1. req[q] \in Held
      BY <1>0, <2>1, RequestFacts DEF Intercept
    <3>2. req'[q].pc = "backend"
      BY <1>0, <2>1, <2>3, <3>1 DEF Intercept, TypeOK, Held
    <3> QED BY <3>2
  <2> QED BY <2>2, <2>3
<1>2. CASE \/ Proxy(q) \/ ProxyFails(q) \/ UnknownAction(q) \/ StatementFails(q)
           \/ Exhausted(q) \/ Delete(q)
  BY <1>2, EmptyStep DEF Proxy, ProxyFails, UnknownAction, StatementFails, Exhausted, Delete
<1>3. CASE CountRows(q)
  <2>1. req[q] \in Held
    BY <1>0, <1>3, RequestFacts DEF CountRows, Generic
  <2>2. req'[q].pc = "select"
    BY <1>0, <1>3, <2>1 DEF CountRows, TypeOK, Held
  <2> QED BY <2>2
<1>4. CASE \E limit \in Limits : Select(q, limit)
  <2>1. PICK page \in SUBSET Own(q) : ReplyWith(q, Show(q, page)) /\ UNCHANGED tables
    BY <1>4 DEF Select
  <2> QED BY <2>1, ShowStep
<1>5. CASE Get(q)
  BY <1>5, ShowStep DEF Get
<1>6. ASSUME NEW id \in Records, Create(q, id) PROVE ShownRight(q)
  <2>1. PICK row : /\ row = [owner |-> req[q].scope, data |-> req[q].sets.data, born |-> id]
                   /\ rows' = [rows EXCEPT ![Key(q, id)] = row]
                   /\ ReplyOrLose(q, {[id |-> id, row |-> row]})
    BY <1>6 DEF Create
  <2>2. rows'[Key(q, id)] = row /\ row.owner = req[q].scope
    BY <1>0, <1>6, <2>1, KeyFacts DEF Create, TypeOK, AllKeys
  <2> QED BY <2>1, <2>2, WriteShown
<1>7. CASE UpdateRow(q)
  <2>1. PICK from \in Own(q), to \in Records, row \in Row :
           /\ Key(q, to) \in AllKeys /\ (to = from \/ rows[Key(q, to)] = None)
           /\ rows' = [rows EXCEPT ![Key(q, from)] = None, ![Key(q, to)] = row]
           /\ ReplyOrLose(q, {[id |-> to, row |-> row]})
    BY <1>0, <1>7, UpdateFacts
  <2>2. rows[Key(q, from)].owner = req[q].scope
    BY <1>0, OwnFacts
  <2>3. rows'[Key(q, to)] = row
    BY <1>0, <2>1 DEF TypeOK, AllKeys
  <2>4. rows'[Key(q, to)] # rows[Key(q, to)] \/ row.owner = req[q].scope
    BY <2>1, <2>2, <2>3, RowFacts
  <2> QED BY <2>1, <2>3, <2>4, WriteShown
<1>8. ~RunText(q)
  BY DEF RunText
<1> QED BY <1>1, <1>2, <1>3, <1>4, <1>5, <1>6, <1>7, <1>8 DEF Handle

\* An answer shows records of the request's own application, or the one it has itself
\* just written.
THEOREM ReadsCorrect == Spec => IsolatedReads
<1>1. IndInv /\ [Next]_vars =>
        [\A q \in Requests : req'[q] # req[q] /\ req'[q].pc = "done" /\ ~textual' =>
           \A shown \in req'[q].answer :
             LET key == Key(q, shown.id) IN
             /\ shown.row = rows'[key]
             /\ rows'[key] = rows[key] => shown.row.owner = req[q].scope]_vars
  <2> SUFFICES ASSUME IndInv, [Next]_vars, NEW q \in Requests, req'[q] # req[q],
                      req'[q].pc = "done", ~textual'
               PROVE  ShownRight(q)
    BY DEF ShownRight
  <2>1. PICK r \in Requests : \/ \E ep \in Endpoints, scope \in Scopes, id \in Records \union {None} :
                                   Arrive(r, ep, scope, id)
                              \/ Handle(r)
    BY DEF Next, vars
  <2>2. r = q
    BY <2>1 DEF IndInv, TypeOK, Arrive, Handle, Intercept, Proxy, ProxyFails, UnknownAction,
       StatementFails, CountRows, Select, Get, Create, UpdateRow, RunText, Delete, Exhausted,
       ReplyOrLose, Reply, ReplyWith
  <2>3. Handle(q)
    BY <2>1, <2>2 DEF IndInv, TypeOK, Arrive
  <2> QED BY <2>3, AnswerStep
<1> QED BY <1>1, BackendInductive, PTL DEF Spec, IsolatedReads
=====
