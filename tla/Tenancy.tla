------------------------------ MODULE Tenancy ------------------------------
(***************************************************************************)
(* Users, organizations, apps, workspaces and API keys: requests that      *)
(* check, then insert, then publish, and the update of a workspace, which  *)
(* reads a row, changes some fields and writes all of them back.  Every    *)
(* statement is a step of its own.  No operation deletes a row or changes  *)
(* the status of an organization.                                          *)
(***************************************************************************)
EXTENDS Integers, FiniteSets

CONSTANTS
  Ids,         \* ids uuid.New() may draw, of any kind
  Slugs,       \* slugs, emails and key hashes, lower case
  Notes,       \* what else an update of a workspace sets: name, description, status
  Clients,     \* goroutines that serve a request
  Foreign,     \* organizations in tokens another service signed with the same secret
  Nil,         \* uuid.Nil; also "no row" and "not given"
  Faults       \* TRUE: statements may fail

Kinds == {"user", "organization", "app", "workspace", "key"}
Row == [kind : Kinds, owner : Ids \union {Nil}, slug : Slugs, note : Notes \union {Nil},
        live : BOOLEAN]

ASSUME TenancyAssumption ==
  /\ Nil \notin Ids \union Slugs \union Notes \union Row
  /\ Foreign \subseteq Ids \union {Nil}
  /\ Faults \in BOOLEAN

VARIABLES
  rows,     \* the five tables: id -> row, or Nil
  tokens,   \* the users login has issued a token to
  client    \* goroutine -> what it holds between two statements

vars == << rows, tokens, client >>

Idle == [pc |-> "idle"]
ClientState ==
  {Idle}
  \union [pc : {"check", "insert"}, row : Row]
  \union [pc : {"publish"}, id : Ids]
  \union [pc : {"recheck", "write"}, id : Ids, row : Row, org : Ids \union {Nil},
          sets : SUBSET {"slug", "note"}, alone : BOOLEAN]

TypeOK ==
  /\ rows \in [Ids -> Row \union {Nil}]
  /\ tokens \subseteq Ids
  /\ client \in [Clients -> ClientState]

Init ==
  /\ rows = [id \in Ids |-> Nil]
  /\ tokens = {}
  /\ client = [c \in Clients |-> Idle]

Goto(c, state) == client' = [client EXCEPT ![c] = state]
Exists(id, kind) == id # Nil /\ rows[id] # Nil /\ rows[id].kind = kind

\* GetBySlug, GetByEmail: at most one row, by the constraints.
Named(kind, owner, slug) ==
  {id \in Ids : /\ Exists(id, kind)
                /\ rows[id].owner = owner
                /\ rows[id].slug = slug}

\* The constraints: users(email), organizations(slug), apps and workspaces
\* (organization_id, slug); a key's hash has none.
Clash(row, self) ==
  row.kind # "key" /\ Named(row.kind, row.owner, row.slug) \ {self} # {}

NewRow(kind, owner, slug) ==
  [kind |-> kind, owner |-> owner, slug |-> slug, note |-> Nil, live |-> TRUE]

-----------------------------------------------------------------------------
\* Login: the token names the user and no organization.
Login(c, id) ==
  /\ client[c] = Idle
  /\ Exists(id, "user")
  /\ tokens' = tokens \union {id}
  /\ Goto(c, Idle)
  /\ UNCHANGED rows

\* JWTAuth: the organizations in the tokens a request may come with.
Claims == Foreign \union {Nil : id \in tokens}

-----------------------------------------------------------------------------
\* Create: Register, CreateOrg, CreateApp, CreateWorkspace, CreateKey

\* TenantResolverWithWorkspace: header, then claims, then the subdomain's slug.
Tenant(header, claims, subdomain) ==
  IF header # Nil THEN header
  ELSE IF claims # Nil THEN claims
  ELSE IF \E id \in Ids : Named("organization", Nil, subdomain) = {id}
       THEN CHOOSE id \in Ids : Named("organization", Nil, subdomain) = {id}
       ELSE Nil

\* GetByEmail, GetBySlug: a failed query is read as "free".
Begin(c, kind, slug) ==
  /\ client[c] = Idle
  /\ Faults \/ Named(kind, Nil, slug) = {}
  /\ Goto(c, [pc |-> "insert", row |-> NewRow(kind, Nil, slug)])
  /\ UNCHANGED << rows, tokens >>

Register(c, email) == Begin(c, "user", email)

\* Like every operation below, for whoever has a token.
CreateOrg(c, slug) == Claims # {} /\ Begin(c, "organization", slug)

\* An app goes to the tenant of the request, and to the organization of the URL
\* when there is none.
Placed(tenant, url) == IF tenant # Nil THEN tenant ELSE url

CreateApp(c, header, claims, subdomain, url, slug) ==
  LET org == Placed(Tenant(header, claims, subdomain), url) IN
  /\ client[c] = Idle
  /\ claims \in Claims
  /\ Exists(org, "organization")
  /\ Goto(c, [pc |-> "check", row |-> NewRow("app", org, slug)])
  /\ UNCHANGED << rows, tokens >>

\* A workspace goes to the organization of the token, whatever the tenant is.
CreateWorkspace(c, claims, slug) ==
  /\ client[c] = Idle
  /\ claims \in Claims
  /\ Exists(claims, "organization")
  /\ Goto(c, [pc |-> "check", row |-> NewRow("workspace", claims, slug)])
  /\ UNCHANGED << rows, tokens >>

CreateKey(c, app, slug) ==
  /\ client[c] = Idle
  /\ Claims # {}
  /\ Goto(c, [pc |-> "insert", row |-> NewRow("key", app, slug)])
  /\ UNCHANGED << rows, tokens >>

\* The slug within the organization; again a failed query is read as "free".
Check(c) ==
  /\ client[c].pc = "check"
  /\ LET row == client[c].row IN
     \/ /\ Named(row.kind, row.owner, row.slug) = {} \/ Faults
        /\ Goto(c, [pc |-> "insert", row |-> row])
     \/ /\ Named(row.kind, row.owner, row.slug) # {}
        /\ Goto(c, Idle)
  /\ UNCHANGED << rows, tokens >>

\* Fault: a table without its unique constraint.
InsertUnconstrained(c, id) ==
  /\ client[c].pc = "insert"
  /\ rows[id] = Nil
  /\ rows' = [rows EXCEPT ![id] = client[c].row]
  /\ Goto(c, [pc |-> "publish", id |-> id])
  /\ UNCHANGED tokens

\* The INSERT; a key needs its app.
Insert(c, id) ==
  /\ client[c].pc = "insert"
  /\ rows[id] = Nil
  /\ ~Clash(client[c].row, Nil)
  /\ client[c].row.kind = "key" => Exists(client[c].row.owner, "app")
  /\ rows' = [rows EXCEPT ![id] = client[c].row]
  /\ Goto(c, [pc |-> "publish", id |-> id])
  /\ UNCHANGED tokens

\* The event, whose errors are dropped, and the answer.
Publish(c) ==
  /\ client[c].pc = "publish"
  /\ Goto(c, Idle)
  /\ UNCHANGED << rows, tokens >>

-----------------------------------------------------------------------------
\* UpdateWorkspace

\* Fault: a field that is not given is cleared.
FieldsCleared(row, slug, note) ==
  [row EXCEPT !.slug = IF slug # Nil THEN slug ELSE @, !.note = note]

Fields(row, slug, note) ==
  [row EXCEPT !.slug = IF slug # Nil THEN slug ELSE @, !.note = IF note # Nil THEN note ELSE @]

Given(slug, note) ==
  (IF slug # Nil THEN {"slug"} ELSE {}) \union (IF note # Nil THEN {"note"} ELSE {})

\* The SELECT of the row and the comparison of its organization.
ReadWorkspace(c, claims, id, slug, note) ==
  /\ client[c] = Idle
  /\ claims \in Claims
  /\ Exists(id, "workspace")
  /\ rows[id].owner = claims
  /\ Goto(c, [pc |-> IF slug # Nil THEN "recheck" ELSE "write", id |-> id,
              row |-> Fields(rows[id], slug, note), org |-> claims,
              sets |-> Given(slug, note), alone |-> TRUE])
  /\ UNCHANGED << rows, tokens >>

\* The SELECT of the new slug, which may be the workspace's own.
Recheck(c) ==
  /\ client[c].pc = "recheck"
  /\ \/ /\ Named("workspace", client[c].org, client[c].row.slug) \ {client[c].id} = {} \/ Faults
        /\ Goto(c, [client[c] EXCEPT !.pc = "write"])
     \/ /\ Named("workspace", client[c].org, client[c].row.slug) \ {client[c].id} # {}
        /\ Goto(c, Idle)
  /\ UNCHANGED << rows, tokens >>

\* The UPDATE of the whole row.  History: the others that hold a copy of it are not
\* alone any more.
Write(c) ==
  /\ client[c].pc = "write"
  /\ ~Clash(client[c].row, client[c].id)
  /\ rows' = [rows EXCEPT ![client[c].id] = client[c].row]
  /\ client' = [d \in Clients |->
       IF d = c THEN Idle
       ELSE IF client[d].pc \in {"recheck", "write"} /\ client[d].id = client[c].id
       THEN [client[d] EXCEPT !.alone = FALSE]
       ELSE client[d]]
  /\ UNCHANGED tokens

\* RevokeKey: one UPDATE, which a key that does not exist answers as well.
Revoke(c, id) ==
  /\ client[c] = Idle
  /\ Claims # {}
  /\ Exists(id, "key")
  /\ rows' = [rows EXCEPT ![id].live = FALSE]
  /\ Goto(c, Idle)
  /\ UNCHANGED tokens

\* A statement that writes fails: by a constraint, or by a fault.
Fail(c) ==
  /\ \/ /\ client[c].pc = "insert"
        /\ \/ Faults \/ Clash(client[c].row, Nil)
           \/ client[c].row.kind = "key" /\ ~Exists(client[c].row.owner, "app")
           \/ \A id \in Ids : rows[id] # Nil    \* bound: no id is left to draw
     \/ /\ client[c].pc = "write"
        /\ Faults \/ Clash(client[c].row, client[c].id)
  /\ Goto(c, Idle)
  /\ UNCHANGED << rows, tokens >>

Work(c) ==
  Check(c) \/ (\E id \in Ids : Insert(c, id)) \/ Publish(c) \/ Recheck(c) \/ Write(c) \/ Fail(c)

Next ==
  \E c \in Clients :
    \/ \E slug \in Slugs : Register(c, slug) \/ CreateOrg(c, slug)
    \/ \E header, url, claims \in Ids \union {Nil}, slug, subdomain \in Slugs :
         CreateApp(c, header, claims, subdomain, url, slug)
    \/ \E claims \in Ids \union {Nil}, slug \in Slugs : CreateWorkspace(c, claims, slug)
    \/ \E app \in Ids, slug \in Slugs : CreateKey(c, app, slug)
    \/ \E claims \in Ids \union {Nil}, id \in Ids, slug \in Slugs \union {Nil}, note \in Notes \union {Nil} :
         ReadWorkspace(c, claims, id, slug, note)
    \/ \E id \in Ids : Login(c, id) \/ Revoke(c, id)
    \/ Work(c)

Spec == Init /\ [][Next]_vars

-----------------------------------------------------------------------------
\* Two users never share an email, two organizations a slug, two apps or two
\* workspaces of an organization a slug, although every request that gives one
\* looks first and writes later, and a rename is one of them.
UniqueNames ==
  \A i, j \in Ids :
    /\ rows[i] # Nil /\ rows[j] # Nil
    /\ rows[i].kind = rows[j].kind /\ rows[i].kind # "key"
    /\ rows[i].owner = rows[j].owner /\ rows[i].slug = rows[j].slug
    => i = j

\* A workspace or an app belongs to an organization and a key to an app, the one it
\* was created for, and a revoked key stays revoked: no request that is late with
\* what it read moves, drops or revives a row.
RowsEndure ==
  [][\A id \in Ids : rows[id] # Nil =>
       /\ rows'[id] # Nil
       /\ rows'[id].kind = rows[id].kind
       /\ rows'[id].owner = rows[id].owner
       /\ ~rows[id].live => ~rows'[id].live]_vars

\* A workspace is changed only by a request whose token carries its organization.
OnlyOwnWorkspaces ==
  [][\A id \in Ids :
       rows[id] # Nil /\ rows[id].kind = "workspace" /\ rows'[id] # rows[id] =>
         \E c \in Clients : /\ client[c].pc = "write"
                            /\ client[c].id = id
                            /\ client[c].org = rows[id].owner]_vars

\* An update that no other update of the workspace overtook between its first
\* statement and its last changes only the fields its request gave.
ChangesWhatWasGiven ==
  [][\A c \in Clients :
       client[c].pc = "write" /\ client[c].alone /\ rows' # rows /\ client'[c] = Idle =>
         LET old == rows[client[c].id]
             new == rows'[client[c].id] IN
         /\ new.slug # old.slug => "slug" \in client[c].sets
         /\ new.note # old.note => "note" \in client[c].sets]_vars

-----------------------------------------------------------------------------
\* The inductive invariant.

\* A request that updates a workspace holds a copy of a row that is still there, under
\* the organization of its token; while no other update overtook it, the copy differs
\* only in the fields the request gave.
HoldsCopy(c) ==
  LET held == client[c].row
      row == rows[client[c].id] IN
  /\ row # Nil
  /\ held.kind = "workspace" /\ row.kind = "workspace"
  /\ held.owner = client[c].org /\ row.owner = client[c].org
  /\ held.live = row.live
  /\ client[c].alone =>
       /\ "slug" \in client[c].sets \/ held.slug = row.slug
       /\ "note" \in client[c].sets \/ held.note = row.note

IndInv ==
  /\ TypeOK
  /\ UniqueNames
  /\ \A c \in Clients : client[c].pc \in {"recheck", "write"} => HoldsCopy(c)
=============================================================================
