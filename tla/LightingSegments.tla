-------------------------- MODULE LightingSegments --------------------------
(***************************************************************************)
(* The persisted street segments of the lighting context: the tables       *)
(* street_segments, light_fixtures and lighting_analyses, the server       *)
(* instances that seed them at boot, and the HTTP requests that analyze a  *)
(* clicked point or rescore a segment.  No code path opens a transaction,  *)
(* so every SQL statement is one action, and whatever a goroutine read     *)
(* before is kept in its own record until it writes.                       *)
(***************************************************************************)
EXTENDS Integers, Sequences, FiniteSets

CONSTANTS
  Instances,      \* server processes sharing one database
  Requests,       \* handler goroutines
  LivePoints,     \* external ids live-<lat>-<lon> of clicked points
  SeedOrder,      \* the external ids of the embedded seed file, in file order
  Seed,           \* external id -> what the seed file says of the segment
  Detected,       \* features an analysis of a clicked point can find
  Interventions,  \* bodies of a rescore request
  Ids,            \* segment UUIDs
  Faults,         \* TRUE: a database statement may fail
  MaxLamps,       \* bound: lamps on one segment
  MaxTrims,       \* bound: vegetation trims on one segment
  MaxCrashes,     \* bound: process crashes
  NoRow, NoId, NoScores, NoReply

SeedSegs == {SeedOrder[k] : k \in 1..Len(SeedOrder)}
ExtIds == SeedSegs \union LivePoints

\* What the scores depend on, reduced to the parts a request can change: lamps
\* (poles move with them), how often the canopy was trimmed, lamp brightness.
Features == [lamps : Nat, trims : Nat, bright : Nat]

\* Scores are kept as the features they are the scores of: two score sets are
\* equal exactly when ScoreEnv was given equivalent features. ScoreEnv reads a
\* missing brightness factor as nominal.
ScoreEnv(f) ==
  [lamps  |-> f.lamps, trims |-> f.trims,
   bright |-> IF f.bright > 0 THEN f.bright ELSE 1]

ASSUME SeedAssumption ==
  /\ SeedOrder \in Seq(SeedSegs) /\ SeedOrder # << >>
  /\ \A j, k \in 1..Len(SeedOrder) : SeedOrder[j] = SeedOrder[k] => j = k
  /\ Seed \in [SeedSegs -> [feat : Features, scored : Features \union {NoScores}]]
  /\ NoScores \notin Features

ASSUME InputAssumption ==
  /\ SeedSegs \intersect LivePoints = {}
  /\ Detected \subseteq Features
  /\ \A f \in Detected : f.bright = 1
  /\ Interventions \subseteq [add : Int, trim : BOOLEAN, bright : Nat]
  /\ NoId \notin Ids
  /\ NoRow \notin [id : Ids, feat : Features, scored : Features]
  /\ NoRow \notin [id : Ids, feat : Features, fixtures : Nat, analyses : Nat]
  /\ NoReply \notin [ext : ExtIds, id : Ids]
  /\ Faults \in BOOLEAN
  /\ MaxLamps \in Nat /\ MaxTrims \in Nat /\ MaxCrashes \in Nat

VARIABLES
  row,       \* street_segments: external id -> row
  fixtures,  \* light_fixtures: segment id -> seed batches present
  analyses,  \* lighting_analyses: segment id -> seed batches present
  pc,        \* instance -> where its start-up is
  pos,       \* instance -> index in SeedOrder of the segment being ingested
  segId,     \* instance -> seg.ID of the struct being ingested
  outcome,   \* instance -> how its autoseed ended
  req,       \* request -> what the goroutine holds
  reply,     \* request -> the segment its last 200 response named
  crashes

db == << row, fixtures, analyses >>
bootVars == << pc, pos, segId, outcome >>
vars == << row, fixtures, analyses, pc, pos, segId, outcome, req, reply,
           crashes >>

Ingesting == {"delFixtures", "delAnalyses", "addFixtures", "addAnalyses"}
SeedPcs == {"upsert"} \union Ingesting
Pcs == {"down", "serving"} \union SeedPcs
Outcomes == {"none", "skipped", "complete", "rejected", "fault"}

Row == [id : Ids, feat : Features, scored : Features]
Idle == [pc |-> "idle"]
ReqState ==
  {Idle}
    \union [pc : {"analyzed"}, home : Instances, ext : LivePoints, feat : Features]
    \union [pc : {"located"}, home : Instances, ext : LivePoints, feat : Features,
            id : Ids \union {NoId}]
    \union [pc : {"resolved"}, home : Instances, ext : ExtIds, feat : Features,
            id : Ids]

-----------------------------------------------------------------------------
\* Helpers

Persisted(e) == row[e] # NoRow

\* A UUID nobody holds: uuid.New never returns one already in use.
FreshId(id) ==
  /\ \A e \in ExtIds : Persisted(e) => row[e].id # id
  /\ \A i \in Instances : segId[i] # id
  /\ \A r \in Requests : /\ req[r].pc \in {"located", "resolved"} => req[r].id # id
                         /\ reply[r] # NoReply => reply[r].id # id
  /\ fixtures[id] = 0 /\ analyses[id] = 0

\* Fault: the id is overwritten with the other columns.
UpsertNewId(e, id, feat, scored) ==
  row' = [row EXCEPT ![e] = [id |-> id, feat |-> feat, scored |-> scored]]

\* INSERT ... ON CONFLICT (external_id) DO UPDATE: every column but id and
\* created_at is overwritten; a row that exists keeps its id.
Upsert(e, id, feat, scored) ==
  row' = [row EXCEPT ![e] =
            [id |-> IF Persisted(e) THEN row[e].id ELSE id,
             feat |-> feat, scored |-> scored]]

\* The foreign key of the child tables.
SegmentExists(id) == \E e \in ExtIds : Persisted(e) /\ row[e].id = id

\* The projected features of an intervention.
Apply(f, iv) ==
  [lamps  |-> IF iv.add > 0 THEN f.lamps + iv.add ELSE f.lamps,
   trims  |-> IF iv.trim THEN f.trims + 1 ELSE f.trims,
   bright |-> IF iv.bright > 0 THEN iv.bright ELSE f.bright]

-----------------------------------------------------------------------------
Init ==
  /\ row = [e \in ExtIds |-> NoRow]
  /\ fixtures = [id \in Ids |-> 0]
  /\ analyses = [id \in Ids |-> 0]
  /\ pc = [i \in Instances |-> "down"]
  /\ pos = [i \in Instances |-> 1]
  /\ segId = [i \in Instances |-> NoId]
  /\ outcome = [i \in Instances |-> "none"]
  /\ req = [r \in Requests |-> Idle]
  /\ reply = [r \in Requests |-> NoReply]
  /\ crashes = 0

-----------------------------------------------------------------------------
\* Start-up of an instance: autoseed if the table is empty, then serve.

\* Leave the start-up with the given autoseed outcome.
Serve(i, how) ==
  /\ pc' = [pc EXCEPT ![i] = "serving"]
  /\ outcome' = [outcome EXCEPT ![i] = how]
  /\ segId' = [segId EXCEPT ![i] = NoId]

BootSeeding(i) ==
  /\ pc[i] = "down"
  /\ \A e \in ExtIds : ~Persisted(e)
  /\ pc' = [pc EXCEPT ![i] = "upsert"]
  /\ pos' = [pos EXCEPT ![i] = 1]
  /\ outcome' = [outcome EXCEPT ![i] = "none"]
  /\ UNCHANGED << db, segId, req, reply, crashes >>

BootSkipping(i) ==
  /\ pc[i] = "down"
  /\ \E e \in ExtIds : Persisted(e)
  /\ Serve(i, "skipped")
  /\ UNCHANGED << db, pos, req, reply, crashes >>

\* The COUNT query fails: no seeding, no warning, the server still starts.
BootBlind(i) ==
  /\ Faults
  /\ pc[i] = "down"
  /\ Serve(i, "fault")
  /\ UNCHANGED << db, pos, req, reply, crashes >>

\* The scores a seed entry is stored with: its own, or computed on the spot if
\* the file predates the scoring model. Its own were computed by the pipeline
\* before it rounded the features it wrote, so they may differ from ScoreEnv's.
SeedScores(e) ==
  IF Seed[e].scored = NoScores THEN ScoreEnv(Seed[e].feat) ELSE Seed[e].scored

\* The entry's features as stored: a missing brightness factor becomes nominal.
SeedFeatures(e) ==
  LET f == Seed[e].feat IN
  [lamps  |-> f.lamps, trims |-> f.trims,
   bright |-> IF f.bright = 0 THEN 1 ELSE f.bright]

\* Fault: the struct takes over the id of the row, as a RETURNING clause would do.
SeedUpsertAdopting(i) ==
  /\ pc[i] = "upsert"
  /\ \E id \in Ids :
       LET e == SeedOrder[pos[i]] IN
       /\ IF Persisted(e) THEN id = row[e].id ELSE FreshId(id)
       /\ Upsert(e, id, SeedFeatures(e), SeedScores(e))
       /\ segId' = [segId EXCEPT ![i] = id]
  /\ pc' = [pc EXCEPT ![i] = "delFixtures"]
  /\ UNCHANGED << fixtures, analyses, pos, outcome, req, reply, crashes >>

\* The struct gets a new UUID and keeps it even when the row has another one.
SeedUpsert(i) ==
  /\ pc[i] = "upsert"
  /\ \E id \in Ids :
       LET e == SeedOrder[pos[i]] IN
       /\ FreshId(id)
       /\ Upsert(e, id, SeedFeatures(e), SeedScores(e))
       /\ segId' = [segId EXCEPT ![i] = id]
  /\ pc' = [pc EXCEPT ![i] = "delFixtures"]
  /\ UNCHANGED << fixtures, analyses, pos, outcome, req, reply, crashes >>

SeedDeleteFixtures(i) ==
  /\ pc[i] = "delFixtures"
  /\ fixtures' = [fixtures EXCEPT ![segId[i]] = 0]
  /\ pc' = [pc EXCEPT ![i] = "delAnalyses"]
  /\ UNCHANGED << row, analyses, pos, segId, outcome, req, reply, crashes >>

SeedDeleteAnalyses(i) ==
  /\ pc[i] = "delAnalyses"
  /\ analyses' = [analyses EXCEPT ![segId[i]] = 0]
  /\ pc' = [pc EXCEPT ![i] = "addFixtures"]
  /\ UNCHANGED << row, fixtures, pos, segId, outcome, req, reply, crashes >>

\* Fault: a batch that was inserted is sent again.
SeedInsertFixturesRetried(i) ==
  /\ pc[i] = "addFixtures"
  /\ SegmentExists(segId[i])
  /\ fixtures' = [fixtures EXCEPT ![segId[i]] = @ + 1]
  /\ \E next \in {"addFixtures", "addAnalyses"} : pc' = [pc EXCEPT ![i] = next]
  /\ UNCHANGED << row, analyses, pos, segId, outcome, req, reply, crashes >>

SeedInsertFixtures(i) ==
  /\ pc[i] = "addFixtures"
  /\ SegmentExists(segId[i])
  /\ fixtures' = [fixtures EXCEPT ![segId[i]] = @ + 1]
  /\ pc' = [pc EXCEPT ![i] = "addAnalyses"]
  /\ UNCHANGED << row, analyses, pos, segId, outcome, req, reply, crashes >>

\* Go on to the next entry of the file, or finish.
ToEntry(i, k) ==
  /\ pc' = [pc EXCEPT ![i] = "upsert"]
  /\ pos' = [pos EXCEPT ![i] = k]
  /\ segId' = [segId EXCEPT ![i] = NoId]
  /\ UNCHANGED outcome

\* Fault: one entry too few.
AdvanceShort(i) ==
  IF pos[i] + 1 < Len(SeedOrder)
  THEN ToEntry(i, pos[i] + 1)
  ELSE Serve(i, "complete") /\ UNCHANGED pos

Advance(i) ==
  IF pos[i] < Len(SeedOrder)
  THEN ToEntry(i, pos[i] + 1)
  ELSE Serve(i, "complete") /\ UNCHANGED pos

SeedInsertAnalyses(i) ==
  /\ pc[i] = "addAnalyses"
  /\ SegmentExists(segId[i])
  /\ analyses' = [analyses EXCEPT ![segId[i]] = @ + 1]
  /\ Advance(i)
  /\ UNCHANGED << row, fixtures, req, reply, crashes >>

\* Fault: the ingest logs the entry and goes on with the next one.
SeedRejectedSkipping(i) ==
  /\ pc[i] \in {"addFixtures", "addAnalyses"}
  /\ ~SegmentExists(segId[i])
  /\ Advance(i)
  /\ UNCHANGED << db, req, reply, crashes >>

\* The foreign key rejects the children: the ingest stops with an error, which
\* start-up logs before it goes on to serve.
SeedRejected(i) ==
  /\ pc[i] \in {"addFixtures", "addAnalyses"}
  /\ ~SegmentExists(segId[i])
  /\ Serve(i, "rejected")
  /\ UNCHANGED << db, pos, req, reply, crashes >>

\* Any other failed statement ends the ingest the same way.
SeedFault(i) ==
  /\ Faults
  /\ pc[i] \in SeedPcs
  /\ Serve(i, "fault")
  /\ UNCHANGED << db, pos, req, reply, crashes >>

\* The process dies: its goroutines and their structs are gone, the tables stay.
Crash(i) ==
  /\ pc[i] # "down"
  /\ crashes < MaxCrashes
  /\ crashes' = crashes + 1
  /\ pc' = [pc EXCEPT ![i] = "down"]
  /\ outcome' = [outcome EXCEPT ![i] = "none"]
  /\ segId' = [segId EXCEPT ![i] = NoId]
  /\ req' = [r \in Requests |->
               IF req[r] # Idle /\ req[r].home = i THEN Idle ELSE req[r]]
  /\ UNCHANGED << db, pos, reply >>

-----------------------------------------------------------------------------
\* POST /lighting/segments/analyze

\* The worker, or the heuristic when it fails, yields the features to store.
Analyze(r, i, p, f) ==
  /\ pc[i] = "serving"
  /\ req[r] = Idle
  /\ req' = [req EXCEPT ![r] = [pc |-> "analyzed", home |-> i, ext |-> p, feat |-> f]]
  /\ UNCHANGED << db, bootVars, reply, crashes >>

\* GetByExternalID; a failed query is read as "not analyzed before".
AnalyzeLocate(r) ==
  /\ req[r].pc = "analyzed"
  /\ \E id \in {IF Persisted(req[r].ext) THEN row[req[r].ext].id ELSE NoId}
               \union (IF Faults THEN {NoId} ELSE {}) :
       req' = [req EXCEPT ![r] = [pc |-> "located", home |-> req[r].home,
                                  ext |-> req[r].ext, feat |-> req[r].feat, id |-> id]]
  /\ UNCHANGED << db, bootVars, reply, crashes >>

\* Upsert, then answer with the struct: its id is the one looked up, or new.
AnalyzeUpsert(r) ==
  /\ req[r].pc = "located"
  /\ \E id \in Ids :
       LET e == req[r].ext IN
       /\ IF req[r].id = NoId THEN FreshId(id) ELSE id = req[r].id
       /\ Upsert(e, id, req[r].feat, ScoreEnv(req[r].feat))
       /\ reply' = [reply EXCEPT ![r] = [ext |-> e, id |-> id]]
  /\ req' = [req EXCEPT ![r] = Idle]
  /\ UNCHANGED << fixtures, analyses, bootVars, crashes >>

-----------------------------------------------------------------------------
\* POST /lighting/segments/{id}/rescore; an unknown segment answers 404 and
\* changes nothing.

\* resolve: the row is read once, the projection is computed from that copy.
RescoreResolve(r, i, e, iv) ==
  /\ pc[i] = "serving"
  /\ req[r] = Idle
  /\ Persisted(e)
  /\ LET f == Apply(row[e].feat, iv) IN
     /\ f.lamps <= MaxLamps /\ f.trims <= MaxTrims
     /\ req' = [req EXCEPT ![r] = [pc |-> "resolved", home |-> i, ext |-> e,
                                   feat |-> f, id |-> row[e].id]]
  /\ UNCHANGED << db, bootVars, reply, crashes >>

\* persist=false: the projection is returned, nothing is written.
RescorePreview(r) ==
  /\ req[r].pc = "resolved"
  /\ reply' = [reply EXCEPT ![r] = [ext |-> req[r].ext, id |-> req[r].id]]
  /\ req' = [req EXCEPT ![r] = Idle]
  /\ UNCHANGED << db, bootVars, crashes >>

\* Fault: the features are written, the scores of the row are left.
RescorePersistUnscored(r) ==
  /\ req[r].pc = "resolved"
  /\ LET e == req[r].ext IN
     /\ Upsert(e, req[r].id, req[r].feat, row[e].scored)
     /\ reply' = [reply EXCEPT ![r] = [ext |-> e, id |-> req[r].id]]
  /\ req' = [req EXCEPT ![r] = Idle]
  /\ UNCHANGED << fixtures, analyses, bootVars, crashes >>

\* persist=true: the whole row is written from the copy.
RescorePersist(r) ==
  /\ req[r].pc = "resolved"
  /\ LET e == req[r].ext IN
     /\ Upsert(e, req[r].id, req[r].feat, ScoreEnv(req[r].feat))
     /\ reply' = [reply EXCEPT ![r] = [ext |-> e, id |-> req[r].id]]
  /\ req' = [req EXCEPT ![r] = Idle]
  /\ UNCHANGED << fixtures, analyses, bootVars, crashes >>

\* A statement of the request fails, or its client goes away: 500, no effect.
RequestFault(r) ==
  /\ Faults
  /\ req[r] # Idle
  /\ req' = [req EXCEPT ![r] = Idle]
  /\ UNCHANGED << db, bootVars, reply, crashes >>

-----------------------------------------------------------------------------
BootStep(i) == BootSeeding(i) \/ BootSkipping(i) \/ BootBlind(i)

SeedStep(i) ==
  \/ SeedUpsert(i)
  \/ SeedDeleteFixtures(i)
  \/ SeedDeleteAnalyses(i)
  \/ SeedInsertFixtures(i)
  \/ SeedInsertAnalyses(i)
  \/ SeedRejected(i)
  \/ SeedFault(i)

Arrive(r) ==
  \E i \in Instances :
    \/ \E p \in LivePoints, f \in Detected : Analyze(r, i, p, f)
    \/ \E e \in ExtIds, iv \in Interventions : RescoreResolve(r, i, e, iv)

RequestStep(r) ==
  \/ AnalyzeLocate(r)
  \/ AnalyzeUpsert(r)
  \/ RescorePreview(r)
  \/ RescorePersist(r)
  \/ RequestFault(r)

Next ==
  \/ \E i \in Instances : BootStep(i) \/ SeedStep(i) \/ Crash(i)
  \/ \E r \in Requests : Arrive(r) \/ RequestStep(r)

Spec == Init /\ [][Next]_vars

\* The supervisor starts every instance, and the goroutines it runs are
\* scheduled; clients owe nothing.
FairSpec ==
  /\ Spec
  /\ \A i \in Instances : WF_vars(BootStep(i)) /\ WF_vars(SeedStep(i))
  /\ \A r \in Requests : WF_vars(RequestStep(r))

-----------------------------------------------------------------------------
\* Properties

TypeOK ==
  /\ row \in [ExtIds -> Row \union {NoRow}]
  /\ fixtures \in [Ids -> Nat]
  /\ analyses \in [Ids -> Nat]
  /\ pc \in [Instances -> Pcs]
  /\ pos \in [Instances -> 1..Len(SeedOrder)]
  /\ segId \in [Instances -> Ids \union {NoId}]
  /\ outcome \in [Instances -> Outcomes]
  /\ req \in [Requests -> ReqState]
  /\ reply \in [Requests -> [ext : ExtIds, id : Ids] \union {NoReply}]
  /\ crashes \in 0..MaxCrashes

\* A segment with its detected fixtures and analyses present exactly once.
Whole(e) ==
  /\ Persisted(e)
  /\ fixtures[row[e].id] = 1
  /\ analyses[row[e].id] = 1

\* Scores that belong to features: computed from them, or the seed file's own pair.
ScoresOf(e, feat, scored) ==
  \/ scored = ScoreEnv(feat)
  \/ e \in SeedSegs /\ feat = SeedFeatures(e) /\ scored = SeedScores(e)

\* Whatever requests, seeders and crashes interleave, the scores stored with a
\* segment belong to the features stored with it: the map never colours a street
\* by the features of another state of it.
ScoresMatchFeatures ==
  \A e \in ExtIds : Persisted(e) => ScoresOf(e, row[e].feat, row[e].scored)

\* Concurrent or repeated ingests never leave a segment with its seed fixtures or
\* analyses twice, although nothing in the tables forbids it.
ChildrenOnce ==
  \A id \in Ids : fixtures[id] <= 1 /\ analyses[id] <= fixtures[id]

\* However many instances seed and die, only the last seed segment present can
\* lack its children: every one before it in the file is whole.
SeedPrefixWhole ==
  \A k \in 1..(Len(SeedOrder) - 1) :
    Persisted(SeedOrder[k + 1]) => Whole(SeedOrder[k])

\* An instance that reports "autoseed complete" is right: the whole file is there.
CompleteMeansWhole ==
  \A i \in Instances :
    outcome[i] = "complete" => \A e \in SeedSegs : Whole(e)

RowsStay ==
  \A e \in ExtIds : Persisted(e) => row'[e] # NoRow /\ row'[e].id = row[e].id

\* Once a segment is stored it stays stored, under the id it got first, through
\* every later analysis, rescore and ingest of the same external id.
IdentityStable == [][RowsStay]_vars

\* No step removes a stored fixture or analysis: the two DELETE statements of the
\* ingest always run under an id that has no children yet.
ChildrenNeverRemoved ==
  [][\A id \in Ids : /\ fixtures'[id] >= fixtures[id]
                     /\ analyses'[id] >= analyses[id]]_vars

Healthy == crashes = 0 /\ \A i \in Instances : outcome[i] # "fault"

\* With a database that answers the ingests and processes that live, the seed gets in
\* whole however many instances start at once: the losers of the race give up, and one
\* always carries on.
EventuallySeeded == []Healthy => <>[](\A e \in SeedSegs : Whole(e))

\* What a client sees of the tables; SegmentCatalog says how that may change.
CatalogView ==
  [e \in ExtIds |->
     IF Persisted(e)
     THEN [id |-> row[e].id, feat |-> row[e].feat,
           fixtures |-> fixtures[row[e].id], analyses |-> analyses[row[e].id]]
     ELSE NoRow]

Catalog == INSTANCE SegmentCatalog WITH catalog <- CatalogView, NoEntry <- NoRow

\* The three tables, written statement by statement without a transaction by
\* racing processes, are an atomic catalog of segments.
ImplementsCatalog == Catalog!Spec

-----------------------------------------------------------------------------
\* The inductive invariant: why the safety properties hold.

\* No two segments share an id.
IdsDistinct ==
  \A e, x \in ExtIds :
    Persisted(e) /\ Persisted(x) /\ row[e].id = row[x].id => e = x

\* Children belong to a stored seed segment: clicked points get none.
ChildrenHaveSegment ==
  \A id \in Ids :
    fixtures[id] > 0 => \E e \in SeedSegs : Persisted(e) /\ row[e].id = id

\* The id a seeder works under, what it has attached to it so far, and which
\* segment, if any, is stored under that id.
SeederPhase ==
  \A i \in Instances :
    pc[i] \in Ingesting =>
      /\ segId[i] \in Ids
      /\ fixtures[segId[i]] = IF pc[i] = "addAnalyses" THEN 1 ELSE 0
      /\ analyses[segId[i]] = 0
      /\ \A e \in ExtIds :
           Persisted(e) /\ row[e].id = segId[i] => e = SeedOrder[pos[i]]

\* No two seeders work under one id.
SeedersApart ==
  \A i, j \in Instances :
    pc[i] \in Ingesting /\ segId[i] = segId[j] => i = j

\* The id a request read is still the id of the segment it read.
RequestKnowsRow ==
  \A r \in Requests :
    /\ req[r].pc = "located" /\ req[r].id # NoId => Persisted(req[r].ext)
    /\ req[r].pc = "resolved" => Persisted(req[r].ext)

\* A seeder leaves only whole segments behind it.
PrefixIngested ==
  \A i \in Instances : pc[i] \in SeedPcs =>
    \A k \in 1..(pos[i] - 1) : Whole(SeedOrder[k])

IndInv ==
  /\ TypeOK
  /\ ScoresMatchFeatures /\ IdsDistinct
  /\ ChildrenHaveSegment /\ ChildrenOnce
  /\ SeederPhase /\ SeedersApart
  /\ RequestKnowsRow
  /\ PrefixIngested /\ SeedPrefixWhole /\ CompleteMeansWhole

=============================================================================
