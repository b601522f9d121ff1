--------------------------- MODULE Tenancy_proofs ---------------------------
(***************************************************************************)
(* Proofs about Tenancy, for any number of clients, ids, slugs and tokens, *)
(* with and without failing statements.                                    *)
(***************************************************************************)
EXTENDS Tenancy, TLAPS

\* A row is not the missing row, and columns that are set leave it a row.
LEMMA RowFacts ==
  /\ Nil \notin Row /\ Nil \notin Ids /\ Nil \notin Slugs
  /\ \A row \in Row : [row EXCEPT !.live = FALSE] \in Row
BY TenancyAssumption DEF Row

\* What an update makes of a row is a row of the same kind and owner, which differs
\* only in the fields that were given.
LEMMA FieldsFacts ==
  ASSUME NEW row \in Row, NEW slug \in Slugs \union {Nil}, NEW note \in Notes \union {Nil}
  PROVE  /\ Fields(row, slug, note) \in Row
         /\ Fields(row, slug, note).kind = row.kind
         /\ Fields(row, slug, note).owner = row.owner
         /\ Fields(row, slug, note).live = row.live
         /\ "slug" \in Given(slug, note) \/ Fields(row, slug, note).slug = row.slug
         /\ "note" \in Given(slug, note) \/ Fields(row, slug, note).note = row.note
         /\ Given(slug, note) \subseteq {"slug", "note"}
BY DEF Fields, Given, Row

\* What a client holds about the workspace it updates.
Copy == [pc : {"recheck", "write"}, id : Ids, row : Row, org : Ids \union {Nil},
         sets : SUBSET {"slug", "note"}, alone : BOOLEAN]

\* The kinds of what a client holds.
LEMMA ClientFacts ==
  ASSUME TypeOK, NEW c \in Clients
  PROVE  /\ client[c].pc \in {"recheck", "write"} => client[c] \in Copy
         /\ client[c].pc \in {"check", "insert"} => client[c].row \in Row
BY DEF TypeOK, ClientState, Idle, Copy

\* A copy may be held, also by a client that goes on to write or was overtaken.
LEMMA CopyFacts ==
  ASSUME NEW copy \in Copy
  PROVE  /\ copy \in ClientState
         /\ [copy EXCEPT !.pc = "write"] \in Copy
         /\ [copy EXCEPT !.alone = FALSE] \in Copy
BY DEF Copy, ClientState

-----------------------------------------------------------------------------
\* The requests that create something begin without writing.
Begins(c) ==
  \/ \E slug \in Slugs : Register(c, slug) \/ CreateOrg(c, slug)
  \/ \E header, url, claims \in Ids \union {Nil}, slug, subdomain \in Slugs :
       CreateApp(c, header, claims, subdomain, url, slug)
  \/ \E claims \in Ids \union {Nil}, slug \in Slugs : CreateWorkspace(c, claims, slug)
  \/ \E app \in Ids, slug \in Slugs : CreateKey(c, app, slug)

\* They hold a new row of the kind and owner they are about.
LEMMA BeginsHold ==
  ASSUME TypeOK, NEW c \in Clients, Begins(c)
  PROVE  /\ UNCHANGED << rows, tokens >> /\ client[c] = Idle
         /\ \E st \in ClientState : /\ client' = [client EXCEPT ![c] = st]
                                    /\ st.pc \in {"check", "insert"}
<1>1. \A kind \in Kinds, owner \in Ids \union {Nil}, slug \in Slugs, pc \in {"check", "insert"} :
        [pc |-> pc, row |-> NewRow(kind, owner, slug)] \in ClientState
  BY DEF NewRow, Row, ClientState
<1>2. {"user", "organization", "app", "workspace", "key"} \subseteq Kinds
  BY DEF Kinds
<1>3. ASSUME NEW kind \in Kinds, NEW slug \in Slugs, Begin(c, kind, slug)
      PROVE  \E st \in ClientState : /\ client' = [client EXCEPT ![c] = st]
                                     /\ st.pc \in {"check", "insert"}
  <2>1. [pc |-> "insert", row |-> NewRow(kind, Nil, slug)] \in ClientState
    BY <1>1
  <2> QED BY <1>3, <2>1 DEF Begin, Goto
<1>4. ASSUME NEW header \in Ids \union {Nil}, NEW url \in Ids \union {Nil},
             NEW claims \in Ids \union {Nil}, NEW slug \in Slugs, NEW subdomain \in Slugs,
             CreateApp(c, header, claims, subdomain, url, slug)
      PROVE  \E st \in ClientState : /\ client' = [client EXCEPT ![c] = st]
                                     /\ st.pc \in {"check", "insert"}
  <2>1. Tenant(header, claims, subdomain) \in Ids \union {Nil}
    <3>1. ASSUME \E id \in Ids : Named("organization", Nil, subdomain) = {id}
          PROVE  (CHOOSE id \in Ids : Named("organization", Nil, subdomain) = {id}) \in Ids
      BY <3>1
    <3> QED BY <3>1 DEF Tenant
  <2>2. Placed(Tenant(header, claims, subdomain), url) \in Ids \union {Nil}
    BY <2>1, <1>4 DEF Placed
  <2> QED BY <1>1, <1>2, <1>4, <2>2 DEF CreateApp, Goto
<1>5. ASSUME NEW claims \in Ids \union {Nil}, NEW slug \in Slugs, CreateWorkspace(c, claims, slug)
      PROVE  \E st \in ClientState : /\ client' = [client EXCEPT ![c] = st]
                                     /\ st.pc \in {"check", "insert"}
  BY <1>1, <1>2, <1>5 DEF CreateWorkspace, Goto
<1>6. ASSUME NEW app \in Ids, NEW slug \in Slugs, CreateKey(c, app, slug)
      PROVE  \E st \in ClientState : /\ client' = [client EXCEPT ![c] = st]
                                     /\ st.pc \in {"check", "insert"}
  <2>1. [pc |-> "insert", row |-> NewRow("key", app, slug)] \in ClientState
    BY <1>1, <1>2
  <2> QED BY <1>6, <2>1 DEF CreateKey, Goto
<1>7. UNCHANGED << rows, tokens >> /\ client[c] = Idle
  BY DEF Begins, Register, CreateOrg, Begin, CreateApp, CreateWorkspace, CreateKey
<1> QED BY <1>2, <1>3, <1>4, <1>5, <1>6, <1>7 DEF Begins, Register, CreateOrg

\* The steps of a client.
LEMMA NextCases ==
  ASSUME Next
  PROVE  \E c \in Clients :
    \/ Begins(c)
    \/ \E claims \in Ids \union {Nil}, id \in Ids, slug \in Slugs \union {Nil}, note \in Notes \union {Nil} :
         ReadWorkspace(c, claims, id, slug, note)
    \/ \E id \in Ids : Login(c, id) \/ Revoke(c, id) \/ Insert(c, id)
    \/ Check(c) \/ Publish(c) \/ Recheck(c) \/ Write(c) \/ Fail(c)
BY DEF Next, Begins, Work

\* Every step keeps the types.
LEMMA TypeStep == TypeOK /\ [Next]_vars => TypeOK'
<1> SUFFICES ASSUME TypeOK, [Next]_vars PROVE TypeOK'
  OBVIOUS
<1> USE DEF TypeOK
<1>0. Idle \in ClientState
  BY DEF ClientState
<1>1. ASSUME NEW c \in Clients, Begins(c) PROVE TypeOK'
  BY <1>1, BeginsHold
<1>2. ASSUME NEW c \in Clients, NEW claims \in Ids \union {Nil}, NEW id \in Ids,
             NEW slug \in Slugs \union {Nil}, NEW note \in Notes \union {Nil},
             ReadWorkspace(c, claims, id, slug, note)
      PROVE  TypeOK'
  <2>1. rows[id] \in Row
    BY <1>2 DEF ReadWorkspace, Exists
  <2>2. [pc |-> IF slug # Nil THEN "recheck" ELSE "write", id |-> id,
         row |-> Fields(rows[id], slug, note), org |-> claims,
         sets |-> Given(slug, note), alone |-> TRUE] \in Copy
    BY <2>1, FieldsFacts DEF Copy
  <2> QED BY <1>2, <2>2, CopyFacts DEF ReadWorkspace, Goto
<1>3. ASSUME NEW c \in Clients, NEW id \in Ids, Login(c, id) PROVE TypeOK'
  BY <1>0, <1>3 DEF Login, Goto
<1>4. ASSUME NEW c \in Clients, NEW id \in Ids, Revoke(c, id) PROVE TypeOK'
  BY <1>0, <1>4, RowFacts DEF Revoke, Goto, Exists
<1>5. ASSUME NEW c \in Clients, NEW id \in Ids, Insert(c, id) PROVE TypeOK'
  <2>1. client[c].row \in Row
    BY <1>5, ClientFacts DEF Insert
  <2>2. [pc |-> "publish", id |-> id] \in ClientState
    BY DEF ClientState
  <2> QED BY <1>5, <2>1, <2>2 DEF Insert, Goto
<1>6. ASSUME NEW c \in Clients, Check(c) PROVE TypeOK'
  <2>1. client[c].row \in Row
    BY <1>6, ClientFacts DEF Check
  <2>2. [pc |-> "insert", row |-> client[c].row] \in ClientState
    BY <2>1 DEF ClientState
  <2> QED BY <1>0, <1>6, <2>2 DEF Check, Goto
<1>7. ASSUME NEW c \in Clients, Publish(c) \/ Fail(c) PROVE TypeOK'
  BY <1>0, <1>7 DEF Publish, Fail, Goto
<1>8. ASSUME NEW c \in Clients, Recheck(c) PROVE TypeOK'
  <2>1. [client[c] EXCEPT !.pc = "write"] \in ClientState
    BY <1>8, ClientFacts, CopyFacts DEF Recheck
  <2> QED BY <1>0, <1>8, <2>1 DEF Recheck, Goto
<1>9. ASSUME NEW c \in Clients, Write(c) PROVE TypeOK'
  <2>1. client[c] \in Copy
    BY <1>9, ClientFacts DEF Write
  <2>2. client[c].row \in Row /\ client[c].id \in Ids
    BY <2>1 DEF Copy
  <2>3. \A d \in Clients : client[d].pc \in {"recheck", "write"} =>
          [client[d] EXCEPT !.alone = FALSE] \in ClientState
    BY ClientFacts, CopyFacts
  <2>4. client' \in [Clients -> ClientState]
    BY <1>0, <1>9, <2>3 DEF Write
  <2> QED BY <1>9, <2>2, <2>4 DEF Write
<1>10. CASE UNCHANGED vars
  BY <1>10 DEF vars
<1> QED BY <1>1, <1>2, <1>3, <1>4, <1>5, <1>6, <1>7, <1>8, <1>9, <1>10, NextCases

-----------------------------------------------------------------------------
\* What Write replaces: a workspace by one of the same organization.
LEMMA WriteFacts ==
  ASSUME IndInv, NEW c \in Clients, Write(c)
  PROVE  /\ client[c] \in Copy /\ HoldsCopy(c)
         /\ client[c].id \in Ids /\ client[c].row \in Row /\ client[c].row # Nil
         /\ rows[client[c].id] \in Row
         /\ rows' = [rows EXCEPT ![client[c].id] = client[c].row]
<1>1. client[c] \in Copy /\ HoldsCopy(c)
  BY ClientFacts DEF IndInv, Write
<1> QED BY <1>1, RowFacts DEF Copy, HoldsCopy, Write, IndInv, TypeOK

\* Which statements change the tables.
LEMMA RowsStep ==
  ASSUME IndInv, [Next]_vars
  PROVE  \/ UNCHANGED rows
         \/ \E c \in Clients, id \in Ids : Insert(c, id)
         \/ \E c \in Clients, id \in Ids : Revoke(c, id)
         \/ \E c \in Clients : Write(c)
<1>1. CASE Next
  <2>1. PICK c \in Clients :
    \/ Begins(c)
    \/ \E claims \in Ids \union {Nil}, id \in Ids, slug \in Slugs \union {Nil}, note \in Notes \union {Nil} :
         ReadWorkspace(c, claims, id, slug, note)
    \/ \E id \in Ids : Login(c, id) \/ Revoke(c, id) \/ Insert(c, id)
    \/ Check(c) \/ Publish(c) \/ Recheck(c) \/ Write(c) \/ Fail(c)
    BY <1>1, NextCases
  <2>2. Begins(c) => UNCHANGED rows
    BY BeginsHold DEF IndInv
  <2> QED BY <2>1, <2>2 DEF ReadWorkspace, Login, Check, Publish, Recheck, Fail
<1>2. CASE UNCHANGED vars
  BY <1>2 DEF vars
<1> QED BY <1>1, <1>2

\* Names stay unique: an INSERT and an UPDATE look at the other rows as they are.
LEMMA UniqueStep == IndInv /\ [Next]_vars => UniqueNames'
<1> SUFFICES ASSUME IndInv, [Next]_vars PROVE UniqueNames'
  OBVIOUS
<1>1. CASE UNCHANGED rows
  BY <1>1 DEF IndInv, UniqueNames
<1>2. ASSUME NEW c \in Clients, NEW id \in Ids, Insert(c, id) PROVE UniqueNames'
  <2>1. \A i \in Ids : /\ rows[i] # Nil /\ rows[i].kind = client[c].row.kind
                       /\ rows[i].owner = client[c].row.owner
                       /\ rows[i].slug = client[c].row.slug
                       => client[c].row.kind = "key"
    BY <1>2, RowFacts DEF Insert, Clash, Named, Exists
  <2> QED BY <1>2, <2>1 DEF Insert, UniqueNames, IndInv, TypeOK
<1>3. ASSUME NEW c \in Clients, NEW id \in Ids, Revoke(c, id) PROVE UniqueNames'
  <2>1. rows[id] \in Row
    BY <1>3 DEF Revoke, Exists, IndInv, TypeOK
  <2>2. \A i \in Ids : rows'[i] # Nil => /\ rows[i] # Nil /\ rows'[i].kind = rows[i].kind
                                         /\ rows'[i].owner = rows[i].owner
                                         /\ rows'[i].slug = rows[i].slug
    BY <1>3, <2>1, RowFacts DEF Revoke, IndInv, TypeOK, Row
  <2> QED BY <2>2 DEF UniqueNames, IndInv
<1>4. ASSUME NEW c \in Clients, Write(c) PROVE UniqueNames'
  <2>1. \A i \in Ids : /\ rows[i] # Nil /\ rows[i].kind = client[c].row.kind
                       /\ rows[i].owner = client[c].row.owner
                       /\ rows[i].slug = client[c].row.slug
                       => i = client[c].id
    BY <1>4, WriteFacts, RowFacts DEF HoldsCopy, Write, Clash, Named, Exists
  <2> QED BY <1>4, <2>1, WriteFacts DEF UniqueNames, IndInv, TypeOK
<1> QED BY <1>1, <1>2, <1>3, <1>4, RowsStep

\* Copies stay copies: of a workspace only another update changes anything, and then
\* whoever holds a copy is not alone.
LEMMA CopiesStep ==
  ASSUME IndInv, [Next]_vars, NEW d \in Clients, client'[d].pc \in {"recheck", "write"}
  PROVE  HoldsCopy(d)'
<1> USE DEF IndInv, TypeOK
<1>1. ASSUME UNCHANGED client PROVE client[d] \in Copy /\ HoldsCopy(d) /\ client'[d] = client[d]
  BY <1>1, ClientFacts
<1>2. CASE UNCHANGED vars
  BY <1>1, <1>2 DEF vars, HoldsCopy
<1>3. ASSUME client'[d] = client[d], NEW id \in Ids, rows[id] = Nil \/ rows[id].kind = "key",
             \A i \in Ids : i # id => rows'[i] = rows[i]
      PROVE HoldsCopy(d)'
  <2>1. client[d] \in Copy /\ HoldsCopy(d)
    BY <1>3, ClientFacts
  <2> QED BY <1>3, <2>1 DEF HoldsCopy, Copy
<1>4. ASSUME client'[d] = client[d], UNCHANGED rows PROVE HoldsCopy(d)'
  BY <1>4 DEF HoldsCopy
<1>5. ASSUME NEW c \in Clients, Begins(c) PROVE HoldsCopy(d)'
  BY <1>5, <1>4, BeginsHold
<1>6. ASSUME NEW c \in Clients, NEW claims \in Ids \union {Nil}, NEW id \in Ids,
             NEW slug \in Slugs \union {Nil}, NEW note \in Notes \union {Nil},
             ReadWorkspace(c, claims, id, slug, note)
      PROVE  HoldsCopy(d)'
  <2>1. rows[id] \in Row
    BY <1>6 DEF ReadWorkspace, Exists
  <2>2. CASE d = c
    <3>1. client'[d] = [pc |-> IF slug # Nil THEN "recheck" ELSE "write", id |-> id,
                        row |-> Fields(rows[id], slug, note), org |-> claims,
                        sets |-> Given(slug, note), alone |-> TRUE]
      BY <1>6, <2>2 DEF ReadWorkspace, Goto
    <3>2. rows' = rows /\ rows[id] # Nil /\ rows[id].kind = "workspace" /\ rows[id].owner = claims
      BY <1>6 DEF ReadWorkspace, Exists
    <3> QED BY <2>1, <3>1, <3>2, FieldsFacts DEF HoldsCopy
  <2>3. CASE d # c
    BY <1>6, <1>4, <2>3 DEF ReadWorkspace, Goto
  <2> QED BY <2>2, <2>3
<1>7. ASSUME NEW c \in Clients, NEW id \in Ids, Login(c, id) \/ Revoke(c, id) \/ Insert(c, id)
      PROVE HoldsCopy(d)'
  <2>1. d # c /\ client'[d] = client[d]
    BY <1>7 DEF Login, Revoke, Insert, Goto, Idle
  <2> QED BY <1>3, <1>4, <1>7, <2>1 DEF Login, Revoke, Insert, Exists
<1>8. ASSUME NEW c \in Clients, Check(c) \/ Publish(c) \/ Fail(c) PROVE HoldsCopy(d)'
  <2>1. d # c /\ client'[d] = client[d]
    BY <1>8 DEF Check, Publish, Fail, Goto, Idle
  <2> QED BY <1>4, <1>8, <2>1 DEF Check, Publish, Fail
<1>9. ASSUME NEW c \in Clients, Recheck(c) PROVE HoldsCopy(d)'
  <2>1. CASE d = c
    <3>1. client[c] \in Copy /\ HoldsCopy(c)
      BY <1>9, ClientFacts DEF Recheck
    <3>2. client'[c] = [client[c] EXCEPT !.pc = "write"]
      BY <1>9, <2>1 DEF Recheck, Goto, Idle
    <3> QED BY <1>9, <2>1, <3>1, <3>2 DEF HoldsCopy, Copy, Recheck
  <2>2. CASE d # c
    BY <1>9, <1>4, <2>2 DEF Recheck, Goto
  <2> QED BY <2>1, <2>2
<1>10. ASSUME NEW c \in Clients, Write(c) PROVE HoldsCopy(d)'
  <2>1. d # c
    BY <1>10 DEF Write, Idle
  <2>2. /\ client[d].pc \in {"recheck", "write"}
        /\ client[d] \in Copy /\ HoldsCopy(d)
    BY <1>10, <2>1, ClientFacts, CopyFacts DEF Write, Copy
  <2>3. CASE client[d].id = client[c].id
    <3>1. client'[d] = [client[d] EXCEPT !.alone = FALSE]
      BY <1>10, <2>1, <2>2, <2>3 DEF Write
    <3> QED BY <1>10, <2>2, <2>3, <3>1, WriteFacts DEF HoldsCopy, Copy
  <2>4. CASE client[d].id # client[c].id
    <3>1. client'[d] = client[d]
      BY <1>10, <2>1, <2>4 DEF Write
    <3> QED BY <1>10, <2>2, <2>4, <3>1, WriteFacts DEF HoldsCopy, Copy
  <2> QED BY <2>3, <2>4
<1>11. CASE Next
  BY <1>5, <1>6, <1>7, <1>8, <1>9, <1>10, <1>11, NextCases
<1> QED BY <1>2, <1>11

\* The inductive invariant holds at the start: nothing is stored, nobody is at work.
LEMMA InitInv == Init => IndInv
BY TenancyAssumption DEF Init, IndInv, TypeOK, UniqueNames, Idle, ClientState

-----------------------------------------------------------------------------
\* The inductive invariant of the tenants' tables holds in every reachable state.
THEOREM TenancyInductive == Spec => []IndInv
<1>1. IndInv /\ [Next]_vars => IndInv'
  BY TypeStep, UniqueStep, CopiesStep DEF IndInv
<1> QED BY InitInv, <1>1, PTL DEF Spec

\* Tables, tokens and clients keep their types.
THEOREM TenancyTypeCorrect == Spec => []TypeOK
<1>1. IndInv => TypeOK
  BY DEF IndInv
<1> QED BY <1>1, TenancyInductive, PTL

\* Emails and slugs are unique, however many requests look and write in turn.
THEOREM NamesCorrect == Spec => []UniqueNames
<1>1. IndInv => UniqueNames
  BY DEF IndInv
<1> QED BY <1>1, TenancyInductive, PTL

\* A row that keeps its place.
Endures(id) ==
  /\ rows'[id] # Nil
  /\ rows'[id].kind = rows[id].kind
  /\ rows'[id].owner = rows[id].owner
  /\ ~rows[id].live => ~rows'[id].live

\* Rows stay, keep kind and owner, and a revoked key stays revoked.
THEOREM RowsCorrect == Spec => RowsEndure
<1>1. ASSUME IndInv, [Next]_vars, NEW id \in Ids, rows[id] # Nil PROVE Endures(id)
  <2> USE <1>1
  <2>0. rows[id] \in Row /\ rows \in [Ids -> Row \union {Nil}]
    BY DEF IndInv, TypeOK
  <2>1. CASE rows'[id] = rows[id]
    BY <2>1 DEF Endures
  <2>2. ASSUME NEW c \in Clients, NEW i \in Ids, Insert(c, i) PROVE rows'[id] = rows[id]
    BY <2>0, <2>2 DEF Insert
  <2>3. ASSUME NEW c \in Clients, NEW i \in Ids, Revoke(c, i), i = id PROVE Endures(id)
    <3>1. rows'[id] = [rows[id] EXCEPT !.live = FALSE]
      BY <2>0, <2>3 DEF Revoke
    <3> QED BY <2>0, <3>1, RowFacts DEF Endures, Row
  <2>4. ASSUME NEW c \in Clients, NEW i \in Ids, Revoke(c, i), i # id PROVE rows'[id] = rows[id]
    BY <2>0, <2>4 DEF Revoke
  <2>5. ASSUME NEW c \in Clients, Write(c) PROVE Endures(id)
    BY <2>0, <2>5, WriteFacts DEF Endures, HoldsCopy
  <2> QED BY <2>1, <2>2, <2>3, <2>4, <2>5, RowsStep
<1>2. IndInv /\ [Next]_vars =>
        [\A id \in Ids : rows[id] # Nil =>
           /\ rows'[id] # Nil
           /\ rows'[id].kind = rows[id].kind
           /\ rows'[id].owner = rows[id].owner
           /\ ~rows[id].live => ~rows'[id].live]_vars
  BY <1>1 DEF Endures
<1> QED BY <1>2, TenancyInductive, PTL DEF Spec, RowsEndure

\* A workspace is changed only by an update whose token carries its organization.
THEOREM OwnWorkspacesCorrect == Spec => OnlyOwnWorkspaces
<1>1. ASSUME IndInv, [Next]_vars, NEW id \in Ids,
             rows[id] # Nil, rows[id].kind = "workspace", rows'[id] # rows[id]
      PROVE  \E c \in Clients : /\ client[c].pc = "write"
                                /\ client[c].id = id
                                /\ client[c].org = rows[id].owner
  <2> USE <1>1
  <2>0. rows \in [Ids -> Row \union {Nil}]
    BY DEF IndInv, TypeOK
  <2>1. \A c \in Clients, i \in Ids : ~Insert(c, i) /\ ~Revoke(c, i)
    <3>1. ASSUME NEW c \in Clients, NEW i \in Ids, Insert(c, i) PROVE FALSE
      BY <2>0, <3>1 DEF Insert
    <3>2. ASSUME NEW c \in Clients, NEW i \in Ids, Revoke(c, i) PROVE FALSE
      BY <2>0, <3>2 DEF Revoke, Exists
    <3> QED BY <3>1, <3>2
  <2>2. PICK c \in Clients : Write(c)
    BY <2>1, RowsStep
  <2>3. client[c].id = id
    BY <2>0, <2>2, WriteFacts
  <2> QED BY <2>2, <2>3, WriteFacts DEF HoldsCopy, Write
<1>2. IndInv /\ [Next]_vars =>
        [\A id \in Ids :
           rows[id] # Nil /\ rows[id].kind = "workspace" /\ rows'[id] # rows[id] =>
             \E c \in Clients : /\ client[c].pc = "write"
                                /\ client[c].id = id
                                /\ client[c].org = rows[id].owner]_vars
  BY <1>1
<1> QED BY <1>2, TenancyInductive, PTL DEF Spec, OnlyOwnWorkspaces

\* An update that was not overtaken changes only the fields its request gave.
THEOREM GivenCorrect == Spec => ChangesWhatWasGiven
<1>1. ASSUME IndInv, [Next]_vars, NEW c \in Clients,
             client[c].pc = "write", client[c].alone, rows' # rows, client'[c] = Idle
      PROVE  /\ rows'[client[c].id].slug # rows[client[c].id].slug => "slug" \in client[c].sets
             /\ rows'[client[c].id].note # rows[client[c].id].note => "note" \in client[c].sets
  <2> USE <1>1
  <2>0. client \in [Clients -> ClientState]
    BY DEF IndInv, TypeOK
  <2>1. \A d \in Clients, i \in Ids : ~Insert(d, i) /\ ~Revoke(d, i)
    <3>1. ASSUME NEW d \in Clients, NEW i \in Ids, Insert(d, i) PROVE FALSE
      BY <2>0, <3>1 DEF Insert, Goto, Idle
    <3>2. ASSUME NEW d \in Clients, NEW i \in Ids, Revoke(d, i) PROVE FALSE
      BY <2>0, <3>2 DEF Revoke, Goto, Idle
    <3> QED BY <3>1, <3>2
  <2>2. PICK d \in Clients : Write(d)
    BY <2>1, RowsStep
  <2>3. d = c
    BY <2>0, <2>2, CopyFacts, ClientFacts DEF Write, Idle, IndInv, Copy
  <2> QED BY <2>2, <2>3, WriteFacts DEF HoldsCopy, IndInv, TypeOK
<1>2. IndInv /\ [Next]_vars =>
        [\A c \in Clients :
           client[c].pc = "write" /\ client[c].alone /\ rows' # rows /\ client'[c] = Idle =>
             LET old == rows[client[c].id]
                 new == rows'[client[c].id] IN
             /\ new.slug # old.slug => "slug" \in client[c].sets
             /\ new.note # old.note => "note" \in client[c].sets]_vars
  BY <1>1
<1> QED BY <1>2, TenancyInductive, PTL DEF Spec, ChangesWhatWasGiven

=============================================================================
