----------------------- MODULE LightingSegments_proofs -----------------------
(***************************************************************************)
(* Machine-checked proofs about LightingSegments, for any number of        *)
(* instances, requests, segments and interventions.                        *)
(***************************************************************************)
EXTENDS LightingSegments, TLAPS

-----------------------------------------------------------------------------
\* Lemmas about the operators

\* The index of the segment an instance ingests names a seed segment.
LEMMA SeedSegTyped ==
  ASSUME NEW k \in 1..Len(SeedOrder)
  PROVE  SeedOrder[k] \in SeedSegs /\ SeedOrder[k] \in ExtIds
BY DEF SeedSegs, ExtIds

\* The seed file is not empty.
LEMMA SeedNotEmpty == Len(SeedOrder) \in Nat /\ 1 \in 1..Len(SeedOrder)
<1>1. SeedOrder \in Seq(SeedSegs) /\ SeedOrder # << >>
  BY SeedAssumption
<1> QED BY <1>1

\* A goroutine that is done is in the type of request states.
LEMMA IdleTyped == Idle \in ReqState /\ Idle.pc = "idle"
BY DEF ReqState, Idle

\* A row that is there is a row, and its segment id exists.
LEMMA RowTyped ==
  ASSUME TypeOK, NEW e \in ExtIds, Persisted(e)
  PROVE  /\ row[e] \in Row /\ row[e].id \in Ids /\ row[e].feat \in Features
BY DEF TypeOK, Persisted, Row

\* A segment that exists has an id.
LEMMA ExistsTyped ==
  ASSUME TypeOK, NEW id, SegmentExists(id)
  PROVE  id \in Ids
BY RowTyped DEF SegmentExists

\* What a goroutine holds between two statements.
LEMMA RequestTyped ==
  ASSUME TypeOK, NEW r \in Requests
  PROVE  /\ req[r].pc = "analyzed" =>
              /\ req[r].home \in Instances /\ req[r].ext \in LivePoints
              /\ req[r].feat \in Features
         /\ req[r].pc = "located" =>
              /\ req[r].home \in Instances /\ req[r].ext \in LivePoints
              /\ req[r].feat \in Features /\ req[r].id \in Ids \union {NoId}
         /\ req[r].pc = "resolved" =>
              /\ req[r].home \in Instances /\ req[r].ext \in ExtIds
              /\ req[r].feat \in Features /\ req[r].id \in Ids
BY DEF TypeOK, ReqState, Idle

\* A seed entry is stored with features of the right type.
LEMMA SeedFeaturesTyped ==
  ASSUME NEW e \in SeedSegs
  PROVE  SeedFeatures(e) \in Features
BY SeedAssumption DEF SeedFeatures, Features

\* Scores are kept in the same type as features.
LEMMA ScoreEnvTyped ==
  ASSUME NEW f \in Features
  PROVE  ScoreEnv(f) \in Features
BY DEF ScoreEnv, Features

\* What a seed entry is stored with is a pair of features and scores that belong
\* together, whether the file carries the scores or they are computed on the spot.
LEMMA SeedScoresMatch ==
  ASSUME NEW e \in SeedSegs
  PROVE  /\ SeedScores(e) \in Features
         /\ ScoresOf(e, SeedFeatures(e), SeedScores(e))
<1>1. Seed[e].feat \in Features /\ Seed[e].scored \in Features \union {NoScores}
  BY SeedAssumption
<1>2. ScoreEnv(Seed[e].feat) \in Features
  BY <1>1, ScoreEnvTyped
<1> QED BY <1>1, <1>2 DEF SeedScores, ScoresOf

\* An intervention projects features to features.
LEMMA ApplyTyped ==
  ASSUME NEW f \in Features, NEW iv \in Interventions
  PROVE  Apply(f, iv) \in Features
BY InputAssumption DEF Apply, Features

\* An upsert of a typed row keeps the table typed.
LEMMA UpsertTyped ==
  ASSUME row \in [ExtIds -> Row \union {NoRow}],
         NEW e \in ExtIds, NEW id \in Ids,
         NEW f \in Features, NEW s \in Features,
         Upsert(e, id, f, s)
  PROVE  row' \in [ExtIds -> Row \union {NoRow}]
BY DEF Upsert, Row, Persisted

-----------------------------------------------------------------------------
\* Type correctness

LEMMA TypeInit == Init => TypeOK
BY SeedAssumption, InputAssumption
   DEF Init, TypeOK, Pcs, Outcomes, ReqState, Idle

\* Every step keeps every variable in its type.
LEMMA TypeNext == TypeOK /\ [Next]_vars => TypeOK'
<1> SUFFICES ASSUME TypeOK, [Next]_vars PROVE TypeOK'
  OBVIOUS
<1> USE DEF TypeOK, db, bootVars
<1>1. ASSUME NEW i \in Instances, BootStep(i) PROVE TypeOK'
  BY <1>1, SeedNotEmpty
     DEF BootStep, BootSeeding, BootSkipping, BootBlind, Serve, Pcs, SeedPcs, Ingesting, Outcomes
<1>2. ASSUME NEW i \in Instances, SeedStep(i) PROVE TypeOK'
  <2> USE DEF Pcs, SeedPcs, Ingesting, Outcomes
  <2>1. CASE SeedUpsert(i)
    <3> DEFINE e == SeedOrder[pos[i]]
    <3>1. e \in SeedSegs /\ e \in ExtIds
      BY SeedSegTyped
    <3>2. SeedFeatures(e) \in Features /\ SeedScores(e) \in Features
      BY <3>1, SeedFeaturesTyped, SeedScoresMatch
    <3>3. PICK id \in Ids : /\ Upsert(e, id, SeedFeatures(e), SeedScores(e))
                            /\ segId' = [segId EXCEPT ![i] = id]
      BY <2>1 DEF SeedUpsert
    <3>4. row' \in [ExtIds -> Row \union {NoRow}]
      BY <3>1, <3>2, <3>3, UpsertTyped
    <3> QED BY <2>1, <3>1, <3>3, <3>4 DEF SeedUpsert
  <2>2. CASE SeedDeleteFixtures(i)
    BY <2>2 DEF SeedDeleteFixtures
  <2>3. CASE SeedDeleteAnalyses(i)
    BY <2>3 DEF SeedDeleteAnalyses
  <2>4. CASE SeedInsertFixtures(i)
    BY <2>4, ExistsTyped DEF SeedInsertFixtures
  <2>5. CASE SeedInsertAnalyses(i)
    <3>1. /\ segId[i] \in Ids
          /\ analyses' = [analyses EXCEPT ![segId[i]] = @ + 1]
          /\ UNCHANGED << row, fixtures, req, reply, crashes >>
      BY <2>5, ExistsTyped DEF SeedInsertAnalyses
    <3>2. analyses' \in [Ids -> Nat]
      BY <3>1
    <3>3. CASE pos[i] < Len(SeedOrder)
      <4>1. /\ pc' = [pc EXCEPT ![i] = "upsert"]
            /\ pos' = [pos EXCEPT ![i] = pos[i] + 1]
            /\ segId' = [segId EXCEPT ![i] = NoId]
            /\ UNCHANGED outcome
        BY <2>5, <3>3 DEF SeedInsertAnalyses, Advance, ToEntry
      <4>2. pos[i] \in 1..Len(SeedOrder) /\ Len(SeedOrder) \in Nat
        BY SeedNotEmpty
      <4>3. pos[i] + 1 \in 1..Len(SeedOrder)
        BY <3>3, <4>2
      <4>4. pos' \in [Instances -> 1..Len(SeedOrder)]
        BY <4>1, <4>3
      <4> QED BY <3>1, <3>2, <4>1, <4>4
    <3>4. CASE ~(pos[i] < Len(SeedOrder))
      <4>1. Serve(i, "complete") /\ UNCHANGED pos
        BY <2>5, <3>4 DEF SeedInsertAnalyses, Advance, ToEntry
      <4> QED BY <3>1, <3>2, <4>1 DEF Serve
    <3> QED BY <3>3, <3>4
  <2>6. CASE SeedRejected(i)
    BY <2>6 DEF SeedRejected, Serve
  <2>7. CASE SeedFault(i)
    BY <2>7 DEF SeedFault, Serve
  <2> QED BY <1>2, <2>1, <2>2, <2>3, <2>4, <2>5, <2>6, <2>7 DEF SeedStep
<1>3. ASSUME NEW i \in Instances, Crash(i) PROVE TypeOK'
  BY <1>3, InputAssumption DEF Crash, Pcs, Outcomes, ReqState
<1>4. ASSUME NEW r \in Requests, Arrive(r) PROVE TypeOK'
  <2>1. ASSUME NEW i \in Instances, NEW p \in LivePoints, NEW f \in Detected,
               Analyze(r, i, p, f)
        PROVE  TypeOK'
    BY <2>1, InputAssumption DEF Analyze, ReqState
  <2>2. ASSUME NEW i \in Instances, NEW e \in ExtIds, NEW iv \in Interventions,
               RescoreResolve(r, i, e, iv)
        PROVE  TypeOK'
    <3>1. row[e] \in Row
      BY <2>2 DEF RescoreResolve, Persisted
    <3>2. Apply(row[e].feat, iv) \in Features /\ row[e].id \in Ids
      BY <3>1, ApplyTyped DEF Row
    <3> QED BY <2>2, <3>2 DEF RescoreResolve, ReqState
  <2> QED BY <1>4, <2>1, <2>2 DEF Arrive
<1>5. ASSUME NEW r \in Requests, RequestStep(r) PROVE TypeOK'
  <2>1. CASE AnalyzeLocate(r)
    <3>1. /\ req[r].home \in Instances /\ req[r].ext \in LivePoints
          /\ req[r].feat \in Features
      BY <2>1, RequestTyped DEF AnalyzeLocate
    <3>2. Persisted(req[r].ext) => row[req[r].ext].id \in Ids
      BY <3>1, RowTyped DEF ExtIds
    <3> QED BY <2>1, <3>1, <3>2 DEF AnalyzeLocate, ReqState
  <2>2. CASE AnalyzeUpsert(r)
    <3> DEFINE e == req[r].ext
    <3>1. e \in ExtIds /\ req[r].feat \in Features
      BY <2>2, RequestTyped DEF AnalyzeUpsert, ExtIds, Features
    <3>2. PICK id \in Ids : /\ Upsert(e, id, req[r].feat, ScoreEnv(req[r].feat))
                            /\ reply' = [reply EXCEPT ![r] = [ext |-> e, id |-> id]]
      BY <2>2 DEF AnalyzeUpsert
    <3>3. row' \in [ExtIds -> Row \union {NoRow}]
      BY <3>1, <3>2, UpsertTyped, ScoreEnvTyped
    <3> QED BY <2>2, <3>1, <3>2, <3>3, IdleTyped DEF AnalyzeUpsert
  <2>3. CASE RescorePreview(r)
    <3>1. req[r].ext \in ExtIds /\ req[r].id \in Ids
      BY <2>3, RequestTyped DEF RescorePreview
    <3> QED BY <2>3, <3>1, IdleTyped DEF RescorePreview
  <2>4. CASE RescorePersist(r)
    <3> DEFINE e == req[r].ext
    <3>1. /\ e \in ExtIds /\ req[r].feat \in Features
          /\ req[r].id \in Ids
      BY <2>4, RequestTyped DEF RescorePersist
    <3>2. row' \in [ExtIds -> Row \union {NoRow}]
      BY <2>4, <3>1, UpsertTyped, ScoreEnvTyped DEF RescorePersist
    <3>3. /\ reply' = [reply EXCEPT ![r] = [ext |-> e, id |-> req[r].id]]
          /\ req' = [req EXCEPT ![r] = Idle]
          /\ UNCHANGED << fixtures, analyses, bootVars, crashes >>
      BY <2>4 DEF RescorePersist
    <3> QED BY <3>1, <3>2, <3>3, IdleTyped
  <2>5. CASE RequestFault(r)
    BY <2>5, IdleTyped DEF RequestFault
  <2> QED BY <1>5, <2>1, <2>2, <2>3, <2>4, <2>5 DEF RequestStep
<1>6. CASE UNCHANGED vars
  BY <1>6 DEF vars
<1> QED BY <1>1, <1>2, <1>3, <1>4, <1>5, <1>6 DEF Next

\* Every variable keeps its type, for any instances, requests and inputs.
THEOREM TypeCorrect == Spec => []TypeOK
BY TypeInit, TypeNext, PTL DEF Spec

-----------------------------------------------------------------------------
\* The steps as the tables see them

DbUpsert(e, id) ==
  /\ e \in ExtIds /\ id \in Ids
  /\ Persisted(e) \/ FreshId(id)
  /\ \E f \in Features, s \in Features : Upsert(e, id, f, s) /\ ScoresOf(e, f, s)
  /\ UNCHANGED << fixtures, analyses >>

DbAttachFixtures(e) ==
  /\ e \in SeedSegs /\ Persisted(e)
  /\ fixtures[row[e].id] = 0 /\ analyses[row[e].id] = 0
  /\ fixtures' = [fixtures EXCEPT ![row[e].id] = 1]
  /\ UNCHANGED << row, analyses >>

DbAttachAnalyses(e) ==
  /\ e \in SeedSegs /\ Persisted(e)
  /\ fixtures[row[e].id] = 1 /\ analyses[row[e].id] = 0
  /\ analyses' = [analyses EXCEPT ![row[e].id] = 1]
  /\ UNCHANGED << row, fixtures >>

DbStep ==
  \/ UNCHANGED db
  \/ \E e \in ExtIds, id \in Ids : DbUpsert(e, id)
  \/ \E e \in SeedSegs : DbAttachFixtures(e) \/ DbAttachAnalyses(e)

\* The segment a seeder inserts children for is the one at its position.
LEMMA SeederRow ==
  ASSUME IndInv, NEW i \in Instances, pc[i] \in Ingesting, SegmentExists(segId[i])
  PROVE  /\ SeedOrder[pos[i]] \in SeedSegs /\ Persisted(SeedOrder[pos[i]])
         /\ row[SeedOrder[pos[i]]].id = segId[i] /\ segId[i] \in Ids
<1>1. PICK e \in ExtIds : Persisted(e) /\ row[e].id = segId[i]
  BY DEF SegmentExists
<1>2. e = SeedOrder[pos[i]] /\ segId[i] \in Ids
  BY <1>1 DEF IndInv, SeederPhase
<1>3. pos[i] \in 1..Len(SeedOrder)
  BY DEF IndInv, TypeOK
<1> QED BY <1>1, <1>2, <1>3, SeedSegTyped

\* An upsert by a seeder.
LEMMA SeedUpsertStep ==
  ASSUME TypeOK, NEW i \in Instances, SeedUpsert(i)
  PROVE  \E id \in Ids : /\ DbUpsert(SeedOrder[pos[i]], id) /\ FreshId(id)
                         /\ segId' = [segId EXCEPT ![i] = id]
<1> DEFINE e == SeedOrder[pos[i]]
<1>1. e \in SeedSegs /\ e \in ExtIds
  BY SeedSegTyped DEF TypeOK
<1>2. PICK id \in Ids : /\ FreshId(id)
                        /\ Upsert(e, id, SeedFeatures(e), SeedScores(e))
                        /\ segId' = [segId EXCEPT ![i] = id]
  BY DEF SeedUpsert
<1>3. SeedScores(e) \in Features /\ ScoresOf(e, SeedFeatures(e), SeedScores(e))
  BY <1>1, SeedScoresMatch
<1>4. UNCHANGED << fixtures, analyses >>
  BY DEF SeedUpsert
<1> QED BY <1>1, <1>2, <1>3, <1>4, SeedFeaturesTyped DEF DbUpsert

\* An upsert by a request: the row is there, or the id is new.
LEMMA RequestUpsertStep ==
  ASSUME IndInv, NEW r \in Requests, AnalyzeUpsert(r) \/ RescorePersist(r)
  PROVE  /\ \E id \in Ids : DbUpsert(req[r].ext, id)
         /\ req[r].ext \in SeedSegs => Persisted(req[r].ext)
<1> USE DEF IndInv
<1>1. CASE AnalyzeUpsert(r)
  <2>1. req[r].ext \in LivePoints /\ req[r].feat \in Features
    BY <1>1, RequestTyped DEF AnalyzeUpsert
  <2>2. PICK id \in Ids :
          /\ IF req[r].id = NoId THEN FreshId(id) ELSE id = req[r].id
          /\ Upsert(req[r].ext, id, req[r].feat, ScoreEnv(req[r].feat))
    BY <1>1 DEF AnalyzeUpsert
  <2>3. Persisted(req[r].ext) \/ FreshId(id)
    BY <1>1, <2>2 DEF AnalyzeUpsert, RequestKnowsRow
  <2>4. UNCHANGED << fixtures, analyses >>
    BY <1>1 DEF AnalyzeUpsert
  <2>5. req[r].ext \notin SeedSegs
    BY <2>1, InputAssumption
  <2>6. /\ ScoreEnv(req[r].feat) \in Features
        /\ ScoresOf(req[r].ext, req[r].feat, ScoreEnv(req[r].feat))
    BY <2>1, ScoreEnvTyped DEF ScoresOf
  <2> QED BY <2>1, <2>2, <2>3, <2>4, <2>5, <2>6 DEF DbUpsert, ExtIds
<1>2. CASE RescorePersist(r)
  <2>1. req[r].ext \in ExtIds /\ req[r].feat \in Features /\ req[r].id \in Ids
    BY <1>2, RequestTyped DEF RescorePersist
  <2>2. Persisted(req[r].ext)
    BY <1>2 DEF RescorePersist, RequestKnowsRow
  <2>3. /\ Upsert(req[r].ext, req[r].id, req[r].feat, ScoreEnv(req[r].feat))
        /\ UNCHANGED << fixtures, analyses >>
    BY <1>2 DEF RescorePersist
  <2>4. /\ ScoreEnv(req[r].feat) \in Features
        /\ ScoresOf(req[r].ext, req[r].feat, ScoreEnv(req[r].feat))
    BY <2>1, ScoreEnvTyped DEF ScoresOf
  <2> QED BY <2>1, <2>2, <2>3, <2>4 DEF DbUpsert
<1> QED BY <1>1, <1>2

\* The two deletes find nothing to delete.
LEMMA SeedDeleteStep ==
  ASSUME IndInv, NEW i \in Instances, SeedDeleteFixtures(i) \/ SeedDeleteAnalyses(i)
  PROVE  UNCHANGED db
<1> USE DEF IndInv, TypeOK
<1>1. /\ pc[i] \in {"delFixtures", "delAnalyses"} /\ pc[i] \in Ingesting
  BY DEF SeedDeleteFixtures, SeedDeleteAnalyses, Ingesting
<1>2. segId[i] \in Ids /\ fixtures[segId[i]] = 0 /\ analyses[segId[i]] = 0
  BY <1>1 DEF SeederPhase
<1>3. CASE SeedDeleteFixtures(i)
  BY <1>2, <1>3 DEF SeedDeleteFixtures, db
<1>4. CASE SeedDeleteAnalyses(i)
  BY <1>2, <1>4 DEF SeedDeleteAnalyses, db
<1> QED BY <1>3, <1>4

\* The inserts attach to a segment that has none.
LEMMA SeedInsertStep ==
  ASSUME IndInv, NEW i \in Instances
  PROVE  /\ SeedInsertFixtures(i) => DbAttachFixtures(SeedOrder[pos[i]])
         /\ SeedInsertAnalyses(i) => DbAttachAnalyses(SeedOrder[pos[i]])
         /\ SeedInsertFixtures(i) \/ SeedInsertAnalyses(i) =>
              /\ SeedOrder[pos[i]] \in SeedSegs
              /\ row[SeedOrder[pos[i]]].id = segId[i]
<1> SUFFICES ASSUME SeedInsertFixtures(i) \/ SeedInsertAnalyses(i)
             PROVE  /\ SeedInsertFixtures(i) => DbAttachFixtures(SeedOrder[pos[i]])
                    /\ SeedInsertAnalyses(i) => DbAttachAnalyses(SeedOrder[pos[i]])
                    /\ SeedOrder[pos[i]] \in SeedSegs
                    /\ row[SeedOrder[pos[i]]].id = segId[i]
  OBVIOUS
<1> DEFINE e == SeedOrder[pos[i]]
<1>1. pc[i] \in Ingesting /\ SegmentExists(segId[i])
  BY DEF SeedInsertFixtures, SeedInsertAnalyses, Ingesting
<1>2. e \in SeedSegs /\ Persisted(e) /\ row[e].id = segId[i] /\ segId[i] \in Ids
  BY <1>1, SeederRow
<1>3. /\ fixtures[segId[i]] = IF pc[i] = "addAnalyses" THEN 1 ELSE 0
      /\ analyses[segId[i]] = 0
  BY <1>1 DEF IndInv, SeederPhase
<1>4. ASSUME SeedInsertFixtures(i) PROVE DbAttachFixtures(e)
  <2>1. /\ pc[i] = "addFixtures" /\ UNCHANGED << row, analyses >>
        /\ fixtures' = [fixtures EXCEPT ![segId[i]] = fixtures[segId[i]] + 1]
    BY <1>4 DEF SeedInsertFixtures
  <2>2. fixtures[segId[i]] = 0 /\ fixtures[segId[i]] + 1 = 1
    BY <1>3, <2>1
  <2> QED BY <1>2, <1>3, <2>1, <2>2 DEF DbAttachFixtures
<1>5. ASSUME SeedInsertAnalyses(i) PROVE DbAttachAnalyses(e)
  BY <1>2, <1>3, <1>5 DEF SeedInsertAnalyses, DbAttachAnalyses
<1> QED BY <1>2, <1>4, <1>5

\* Every step is one of the four kinds.
LEMMA DbSteps == ASSUME IndInv, [Next]_vars PROVE DbStep
<1>1. ASSUME NEW i \in Instances, BootStep(i) \/ Crash(i) PROVE DbStep
  BY <1>1 DEF BootStep, BootSeeding, BootSkipping, BootBlind, Crash, DbStep
<1>2. ASSUME NEW i \in Instances, SeedStep(i) PROVE DbStep
  <2>1. CASE SeedUpsert(i)
    <3>1. \E id \in Ids : DbUpsert(SeedOrder[pos[i]], id)
      BY <2>1, SeedUpsertStep DEF IndInv
    <3> QED BY <3>1 DEF DbStep, DbUpsert
  <2>2. CASE SeedDeleteFixtures(i) \/ SeedDeleteAnalyses(i)
    BY <2>2, SeedDeleteStep DEF DbStep
  <2>3. CASE SeedInsertFixtures(i) \/ SeedInsertAnalyses(i)
    BY <2>3, SeedInsertStep DEF DbStep
  <2>4. CASE SeedRejected(i) \/ SeedFault(i)
    BY <2>4 DEF SeedRejected, SeedFault, DbStep
  <2> QED BY <1>2, <2>1, <2>2, <2>3, <2>4 DEF SeedStep
<1>3. ASSUME NEW r \in Requests, Arrive(r) PROVE DbStep
  BY <1>3 DEF Arrive, Analyze, RescoreResolve, DbStep
<1>4. ASSUME NEW r \in Requests, RequestStep(r) PROVE DbStep
  <2>1. CASE AnalyzeUpsert(r) \/ RescorePersist(r)
    BY <2>1, RequestUpsertStep DEF DbStep, DbUpsert
  <2>2. CASE AnalyzeLocate(r) \/ RescorePreview(r) \/ RequestFault(r)
    BY <2>2 DEF AnalyzeLocate, RescorePreview, RequestFault, DbStep
  <2> QED BY <1>4, <2>1, <2>2 DEF RequestStep
<1>5. CASE UNCHANGED vars
  BY <1>5 DEF vars, db, DbStep
<1> QED BY <1>1, <1>2, <1>3, <1>4, <1>5 DEF Next

-----------------------------------------------------------------------------
\* What a step keeps

\* What an upsert does to each row.
LEMMA UpsertRows ==
  ASSUME TypeOK, NEW e \in ExtIds, NEW id \in Ids, DbUpsert(e, id)
  PROVE  /\ \A x \in ExtIds : x # e => row'[x] = row[x]
         /\ row'[e] # NoRow /\ ScoresOf(e, row'[e].feat, row'[e].scored)
         /\ row'[e].feat \in Features
         /\ row'[e].id = IF Persisted(e) THEN row[e].id ELSE id
<1>1. PICK f \in Features, s \in Features : Upsert(e, id, f, s) /\ ScoresOf(e, f, s)
  BY DEF DbUpsert
<1> DEFINE new == [id |-> IF Persisted(e) THEN row[e].id ELSE id,
                   feat |-> f, scored |-> s]
<1>2. row' = [row EXCEPT ![e] = new] /\ row \in [ExtIds -> Row \union {NoRow}]
  BY <1>1 DEF Upsert, TypeOK
<1>3. row'[e] = new /\ \A x \in ExtIds : x # e => row'[x] = row[x]
  BY <1>2
<1>4. new \in [id : Ids, feat : Features, scored : Features]
  BY RowTyped
<1>5. new # NoRow
  BY <1>4, InputAssumption
<1> QED BY <1>1, <1>3, <1>5

\* A stored segment stays stored under its id, and whole if it was whole.
RowsKept ==
  \A e \in ExtIds : Persisted(e) =>
    /\ row'[e] # NoRow /\ row'[e].id = row[e].id
    /\ Whole(e) => Whole(e)'

\* A step adds children only where there were none.
ChildrenGrow ==
  \A id \in Ids : fixtures'[id] >= fixtures[id] /\ analyses'[id] >= analyses[id]

LEMMA StepsKeep == ASSUME IndInv, [Next]_vars PROVE RowsKept /\ ChildrenGrow
<1> USE DEF IndInv, Whole, Persisted
<1>1. DbStep
  BY DbSteps
<1>2. CASE UNCHANGED db
  BY <1>2 DEF db, RowsKept, ChildrenGrow, TypeOK
<1>3. ASSUME NEW e \in ExtIds, NEW id \in Ids, DbUpsert(e, id)
      PROVE  RowsKept /\ ChildrenGrow
  <2>1. UNCHANGED << fixtures, analyses >>
    BY <1>3 DEF DbUpsert
  <2>2. \A x \in ExtIds : Persisted(x) => row'[x] # NoRow /\ row'[x].id = row[x].id
    BY <1>3, UpsertRows
  <2>3. RowsKept
    BY <2>1, <2>2 DEF RowsKept
  <2>4. ChildrenGrow
    BY <2>1 DEF ChildrenGrow, TypeOK
  <2> QED BY <2>3, <2>4
<1>4. ASSUME NEW e \in SeedSegs, DbAttachFixtures(e) PROVE RowsKept /\ ChildrenGrow
  <2>1. e \in ExtIds /\ row[e].id \in Ids
    BY <1>4, RowTyped DEF DbAttachFixtures, ExtIds
  <2>2. /\ fixtures' = [fixtures EXCEPT ![row[e].id] = 1] /\ fixtures[row[e].id] = 0
        /\ UNCHANGED << row, analyses >>
    BY <1>4 DEF DbAttachFixtures
  <2>3. \A id \in Ids : /\ fixtures[id] = 1 => fixtures'[id] = 1
                        /\ fixtures'[id] >= fixtures[id]
    BY <2>1, <2>2 DEF TypeOK
  <2>4. \A x \in ExtIds : Persisted(x) => row[x].id \in Ids
    BY RowTyped
  <2> QED BY <2>2, <2>3, <2>4 DEF RowsKept, ChildrenGrow, TypeOK
<1>5. ASSUME NEW e \in SeedSegs, DbAttachAnalyses(e) PROVE RowsKept /\ ChildrenGrow
  <2>1. e \in ExtIds /\ row[e].id \in Ids
    BY <1>5, RowTyped DEF DbAttachAnalyses, ExtIds
  <2>2. /\ analyses' = [analyses EXCEPT ![row[e].id] = 1] /\ analyses[row[e].id] = 0
        /\ UNCHANGED << row, fixtures >>
    BY <1>5 DEF DbAttachAnalyses
  <2>3. \A id \in Ids : /\ analyses[id] = 1 => analyses'[id] = 1
                        /\ analyses'[id] >= analyses[id]
    BY <2>1, <2>2 DEF TypeOK
  <2>4. \A x \in ExtIds : Persisted(x) => row[x].id \in Ids
    BY RowTyped
  <2> QED BY <2>2, <2>3, <2>4 DEF RowsKept, ChildrenGrow, TypeOK
<1> QED BY <1>1, <1>2, <1>3, <1>4, <1>5 DEF DbStep

\* The conjuncts that speak of the tables alone.
LEMMA TablesNext ==
  ASSUME IndInv, [Next]_vars
  PROVE  (ScoresMatchFeatures /\ IdsDistinct /\ ChildrenHaveSegment /\ ChildrenOnce)'
<1> USE DEF IndInv, Persisted
<1>1. DbStep
  BY DbSteps
<1>2. CASE UNCHANGED db
  BY <1>2 DEF db, ScoresMatchFeatures, IdsDistinct, ChildrenHaveSegment, ChildrenOnce
<1>3. ASSUME NEW e \in ExtIds, NEW id \in Ids, DbUpsert(e, id)
      PROVE  (ScoresMatchFeatures /\ IdsDistinct /\ ChildrenHaveSegment /\ ChildrenOnce)'
  <2>1. /\ UNCHANGED << fixtures, analyses >>
        /\ Persisted(e) \/ FreshId(id)
    BY <1>3 DEF DbUpsert
  <2>2. /\ \A x \in ExtIds : x # e => row'[x] = row[x]
        /\ row'[e] # NoRow /\ ScoresOf(e, row'[e].feat, row'[e].scored)
        /\ row'[e].id = IF Persisted(e) THEN row[e].id ELSE id
    BY <1>3, UpsertRows
  <2>3. ScoresMatchFeatures'
    BY <2>2 DEF ScoresMatchFeatures
  <2>4. IdsDistinct'
    BY <2>1, <2>2 DEF IdsDistinct, FreshId
  <2>5. ChildrenHaveSegment'
    <3> SUFFICES ASSUME NEW z \in Ids, fixtures[z] > 0
                 PROVE  \E x \in SeedSegs : row'[x] # NoRow /\ row'[x].id = z
      BY <2>1 DEF ChildrenHaveSegment
    <3>1. PICK x \in SeedSegs : Persisted(x) /\ row[x].id = z
      BY DEF ChildrenHaveSegment
    <3>2. x \in ExtIds
      BY DEF ExtIds
    <3> QED BY <2>2, <3>1, <3>2
  <2>6. ChildrenOnce'
    BY <2>1 DEF ChildrenOnce
  <2> QED BY <2>3, <2>4, <2>5, <2>6
<1>4. ASSUME NEW e \in SeedSegs, DbAttachFixtures(e) \/ DbAttachAnalyses(e)
      PROVE  (ScoresMatchFeatures /\ IdsDistinct /\ ChildrenHaveSegment /\ ChildrenOnce)'
  <2>1. /\ e \in ExtIds /\ row[e].id \in Ids /\ UNCHANGED row /\ Persisted(e)
    BY <1>4, RowTyped DEF DbAttachFixtures, DbAttachAnalyses, ExtIds
  <2>2. fixtures \in [Ids -> Nat] /\ analyses \in [Ids -> Nat]
    BY DEF TypeOK
  <2>3. ScoresMatchFeatures' /\ IdsDistinct'
    BY <2>1 DEF ScoresMatchFeatures, IdsDistinct
  <2>4. ChildrenHaveSegment'
    BY <1>4, <2>1, <2>2 DEF ChildrenHaveSegment, DbAttachFixtures, DbAttachAnalyses
  <2>5. ChildrenOnce'
    BY <1>4, <2>1, <2>2 DEF ChildrenOnce, DbAttachFixtures, DbAttachAnalyses
  <2> QED BY <2>3, <2>4, <2>5
<1> QED BY <1>1, <1>2, <1>3, <1>4 DEF DbStep

\* An instance keeps what SeederPhase and PrefixIngested say of it.
SeederOK(i) ==
  /\ pc[i] \in Ingesting =>
       /\ segId[i] \in Ids
       /\ fixtures[segId[i]] = IF pc[i] = "addAnalyses" THEN 1 ELSE 0
       /\ analyses[segId[i]] = 0
       /\ \A e \in ExtIds :
            Persisted(e) /\ row[e].id = segId[i] => e = SeedOrder[pos[i]]
  /\ pc[i] \in SeedPcs => \A k \in 1..(pos[i] - 1) : Whole(SeedOrder[k])

LEMMA SeederInv ==
  ASSUME TypeOK
  PROVE  SeederPhase /\ PrefixIngested <=> \A i \in Instances : SeederOK(i)
BY DEF SeederPhase, PrefixIngested, SeederOK

\* The instance j itself does not move.
Still(j) == pc'[j] = pc[j] /\ pos'[j] = pos[j] /\ segId'[j] = segId[j]

\* Whole segments of the prefix stay whole while the position stands.
LEMMA PrefixKept ==
  ASSUME IndInv, [Next]_vars, NEW k \in 1..Len(SeedOrder), Whole(SeedOrder[k])
  PROVE  Whole(SeedOrder[k])'
<1>1. SeedOrder[k] \in ExtIds /\ Persisted(SeedOrder[k])
  BY SeedSegTyped DEF Whole
<1> QED BY <1>1, StepsKeep DEF RowsKept

\* An upsert under a fresh id, or of a stored row, gives no row the id a seeder
\* works under.
LEMMA UpsertAvoids ==
  ASSUME IndInv, NEW i \in Instances, pc[i] \in Ingesting,
         NEW e \in ExtIds, NEW id \in Ids, DbUpsert(e, id), NEW x \in ExtIds,
         row'[x] # NoRow, row'[x].id = segId[i]
  PROVE  x = SeedOrder[pos[i]]
<1>1. Persisted(e) \/ FreshId(id)
  BY DEF DbUpsert
<1>2. /\ \A y \in ExtIds : y # e => row'[y] = row[y]
      /\ row'[e].id = IF Persisted(e) THEN row[e].id ELSE id
  BY UpsertRows DEF IndInv
<1>3. Persisted(x) /\ row[x].id = segId[i]
  BY <1>1, <1>2 DEF FreshId, Persisted
<1> QED BY <1>3 DEF IndInv, SeederPhase

\* No upsert disturbs a seeder that does not move.
LEMMA UpsertLeavesSeeder ==
  ASSUME IndInv, [Next]_vars, NEW j \in Instances, Still(j),
         UNCHANGED db \/ \E e \in ExtIds, id \in Ids : DbUpsert(e, id)
  PROVE  SeederOK(j)'
<1> USE DEF IndInv, Still
<1>1. UNCHANGED << fixtures, analyses >>
  BY DEF db, DbUpsert
<1>2. pc[j] \in Ingesting =>
        /\ segId[j] \in Ids
        /\ fixtures[segId[j]] = IF pc[j] = "addAnalyses" THEN 1 ELSE 0
        /\ analyses[segId[j]] = 0
  BY DEF SeederPhase
<1>3. ASSUME pc[j] \in Ingesting, NEW x \in ExtIds,
             row'[x] # NoRow, row'[x].id = segId[j]
      PROVE  x = SeedOrder[pos[j]]
  <2>1. CASE UNCHANGED db
    BY <1>3, <2>1 DEF db, SeederPhase, Persisted
  <2>2. ASSUME NEW e \in ExtIds, NEW id \in Ids, DbUpsert(e, id)
        PROVE  x = SeedOrder[pos[j]]
    BY <1>3, <2>2, UpsertAvoids
  <2> QED BY <2>1, <2>2
<1>4. ASSUME pc[j] \in SeedPcs, NEW k \in 1..(pos[j] - 1)
      PROVE  Whole(SeedOrder[k])'
  <2>1. Whole(SeedOrder[k]) /\ pos[j] \in 1..Len(SeedOrder)
    BY <1>4 DEF PrefixIngested, TypeOK
  <2>2. k \in 1..Len(SeedOrder)
    BY <2>1, SeedNotEmpty
  <2> QED BY <2>1, <2>2, PrefixKept
<1> QED BY <1>1, <1>2, <1>3, <1>4 DEF SeederOK, Persisted

\* Neither does an insert by another seeder: they work under different ids.
LEMMA InsertLeavesSeeder ==
  ASSUME IndInv, [Next]_vars, NEW i \in Instances, NEW j \in Instances, i # j, Still(j),
         SeedInsertFixtures(i) \/ SeedInsertAnalyses(i)
  PROVE  SeederOK(j)'
<1> USE DEF IndInv, Still
<1>1. pc[i] \in Ingesting /\ SegmentExists(segId[i]) /\ UNCHANGED row
  BY DEF SeedInsertFixtures, SeedInsertAnalyses, Ingesting
<1>2. /\ \/ fixtures' = fixtures
         \/ fixtures' = [fixtures EXCEPT ![segId[i]] = fixtures[segId[i]] + 1]
      /\ \/ analyses' = analyses
         \/ analyses' = [analyses EXCEPT ![segId[i]] = analyses[segId[i]] + 1]
  BY DEF SeedInsertFixtures, SeedInsertAnalyses
<1>3. pc[j] \in Ingesting => segId[i] # segId[j] /\ segId[j] \in Ids
  BY <1>1 DEF SeedersApart, SeederPhase
<1>4. pc[j] \in Ingesting => /\ fixtures'[segId[j]] = fixtures[segId[j]]
                            /\ analyses'[segId[j]] = analyses[segId[j]]
  BY <1>2, <1>3 DEF TypeOK
<1>5. pc[j] \in Ingesting =>
        /\ segId[j] \in Ids
        /\ fixtures'[segId[j]] = IF pc[j] = "addAnalyses" THEN 1 ELSE 0
        /\ analyses'[segId[j]] = 0
        /\ \A e \in ExtIds :
             row'[e] # NoRow /\ row'[e].id = segId[j] => e = SeedOrder[pos[j]]
  BY <1>1, <1>4 DEF SeederPhase, Persisted
<1>6. ASSUME pc[j] \in SeedPcs, NEW k \in 1..(pos[j] - 1)
      PROVE  Whole(SeedOrder[k])'
  <2>1. Whole(SeedOrder[k]) /\ pos[j] \in 1..Len(SeedOrder)
    BY <1>6 DEF PrefixIngested, TypeOK
  <2>2. k \in 1..Len(SeedOrder)
    BY <2>1, SeedNotEmpty
  <2> QED BY <2>1, <2>2, PrefixKept
<1> QED BY <1>5, <1>6 DEF SeederOK, Persisted

\* The segment an instance is done with is whole.
LEMMA Finished ==
  ASSUME IndInv, [Next]_vars, NEW i \in Instances, SeedInsertAnalyses(i)
  PROVE  \A k \in 1..pos[i] : Whole(SeedOrder[k])'
<1> USE DEF IndInv
<1>1. pos[i] \in 1..Len(SeedOrder) /\ pc[i] \in SeedPcs
  BY SeedNotEmpty DEF TypeOK, SeedInsertAnalyses, SeedPcs, Ingesting
<1>2. ASSUME NEW k \in 1..(pos[i] - 1) PROVE Whole(SeedOrder[k])'
  <2>1. Whole(SeedOrder[k]) /\ k \in 1..Len(SeedOrder)
    BY <1>1, SeedNotEmpty DEF PrefixIngested
  <2> QED BY <2>1, PrefixKept
<1>3. ASSUME NEW k \in 1..pos[i], k = pos[i] PROVE Whole(SeedOrder[k])'
  <2> DEFINE e == SeedOrder[k]
  <2>1. DbAttachAnalyses(e) /\ e \in ExtIds
    BY <1>1, <1>3, SeedInsertStep, SeedSegTyped
  <2>2. row[e].id \in Ids
    BY <2>1, RowTyped DEF DbAttachAnalyses
  <2> QED BY <2>1, <2>2 DEF DbAttachAnalyses, Whole, Persisted, TypeOK
<1>4. \A k \in 1..pos[i] : k = pos[i] \/ k \in 1..(pos[i] - 1)
  BY <1>1, SeedNotEmpty
<1> QED BY <1>2, <1>3, <1>4

\* What the steps of one seeder do to its own record.
LEMMA SeederMoves ==
  ASSUME IndInv, [Next]_vars, NEW i \in Instances, SeedStep(i)
  PROVE  SeederOK(i)'
<1> USE DEF IndInv
<1>0. /\ pc \in [Instances -> Pcs] /\ pos \in [Instances -> 1..Len(SeedOrder)]
      /\ segId \in [Instances -> Ids \union {NoId}]
      /\ fixtures \in [Ids -> Nat] /\ analyses \in [Ids -> Nat]
  BY DEF TypeOK
<1>1. ASSUME pos'[i] = pos[i], pc[i] \in SeedPcs
      PROVE  \A k \in 1..(pos'[i] - 1) : Whole(SeedOrder[k])'
  <2> SUFFICES ASSUME NEW k \in 1..(pos[i] - 1) PROVE Whole(SeedOrder[k])'
    BY <1>1
  <2>1. Whole(SeedOrder[k]) /\ k \in 1..Len(SeedOrder)
    BY <1>0, <1>1, SeedNotEmpty DEF PrefixIngested
  <2> QED BY <2>1, PrefixKept
<1>2. CASE SeedUpsert(i)
  <2> DEFINE e == SeedOrder[pos[i]]
  <2>1. PICK id \in Ids : /\ DbUpsert(e, id) /\ FreshId(id)
                          /\ segId' = [segId EXCEPT ![i] = id]
    BY <1>2, SeedUpsertStep
  <2>2. /\ pc'[i] = "delFixtures" /\ pos'[i] = pos[i] /\ pc[i] \in SeedPcs
        /\ UNCHANGED << fixtures, analyses >>
    BY <1>0, <1>2 DEF SeedUpsert, SeedPcs
  <2>3. segId'[i] = id /\ fixtures'[id] = 0 /\ analyses'[id] = 0
    BY <1>0, <2>1, <2>2 DEF FreshId
  <2>4. ASSUME NEW x \in ExtIds, row'[x] # NoRow, row'[x].id = id PROVE x = e
    <3>1. e \in ExtIds
      BY <2>1 DEF DbUpsert
    <3>2. \A y \in ExtIds : y # e => row'[y] = row[y]
      BY <2>1, <3>1, UpsertRows
    <3> QED BY <2>1, <2>4, <3>2 DEF FreshId, Persisted
  <2> QED BY <1>1, <2>2, <2>3, <2>4 DEF SeederOK, Persisted
<1>3. CASE SeedDeleteFixtures(i) \/ SeedDeleteAnalyses(i)
  <2>1. UNCHANGED db
    BY <1>3, SeedDeleteStep
  <2>2. /\ pc'[i] \in {"delAnalyses", "addFixtures"}
        /\ pc[i] \in {"delFixtures", "delAnalyses"}
        /\ pos'[i] = pos[i] /\ segId'[i] = segId[i]
    BY <1>0, <1>3 DEF SeedDeleteFixtures, SeedDeleteAnalyses
  <2>3. pc[i] \in Ingesting /\ pc[i] \in SeedPcs
    BY <2>2 DEF SeedPcs, Ingesting
  <2>4. /\ segId[i] \in Ids /\ fixtures[segId[i]] = 0 /\ analyses[segId[i]] = 0
        /\ \A x \in ExtIds : Persisted(x) /\ row[x].id = segId[i] => x = SeedOrder[pos[i]]
    BY <2>2, <2>3 DEF SeederPhase
  <2> QED BY <1>1, <2>1, <2>2, <2>3, <2>4 DEF SeederOK, db, Persisted
<1>4. CASE SeedInsertFixtures(i)
  <2>1. /\ pc[i] = "addFixtures" /\ pc'[i] = "addAnalyses"
        /\ pos'[i] = pos[i] /\ segId'[i] = segId[i] /\ UNCHANGED << row, analyses >>
        /\ fixtures' = [fixtures EXCEPT ![segId[i]] = fixtures[segId[i]] + 1]
    BY <1>0, <1>4 DEF SeedInsertFixtures
  <2>2. pc[i] \in Ingesting /\ pc[i] \in SeedPcs
    BY <2>1 DEF SeedPcs, Ingesting
  <2>3. /\ segId[i] \in Ids /\ fixtures[segId[i]] = 0 /\ analyses[segId[i]] = 0
        /\ \A x \in ExtIds : Persisted(x) /\ row[x].id = segId[i] => x = SeedOrder[pos[i]]
    BY <2>1, <2>2 DEF SeederPhase
  <2>4. fixtures'[segId[i]] = 1
    BY <1>0, <2>1, <2>3
  <2> QED BY <1>1, <2>1, <2>2, <2>3, <2>4 DEF SeederOK, Persisted
<1>5. CASE SeedInsertAnalyses(i)
  <2>1. \A k \in 1..pos[i] : Whole(SeedOrder[k])'
    BY <1>5, Finished
  <2>2. \/ pc'[i] = "serving"
        \/ pc'[i] = "upsert" /\ pos' = [pos EXCEPT ![i] = pos[i] + 1]
    BY <1>0, <1>5 DEF SeedInsertAnalyses, Advance, ToEntry, Serve
  <2>3. pc'[i] \notin Ingesting
    BY <2>2 DEF Ingesting
  <2>4. ASSUME pc'[i] \in SeedPcs PROVE pos'[i] - 1 = pos[i]
    <3>1. pos' = [pos EXCEPT ![i] = pos[i] + 1]
      BY <2>2, <2>4 DEF SeedPcs, Ingesting
    <3>2. pos[i] \in Int
      BY <1>0, SeedNotEmpty
    <3>3. pos'[i] = pos[i] + 1
      BY <1>0, <3>1
    <3> QED BY <3>2, <3>3
  <2>5. ASSUME pc'[i] \in SeedPcs, NEW k \in 1..(pos'[i] - 1)
        PROVE  Whole(SeedOrder[k])'
    BY <2>1, <2>4, <2>5
  <2> QED BY <2>3, <2>5 DEF SeederOK
<1>6. CASE SeedRejected(i) \/ SeedFault(i)
  <2>1. pc'[i] = "serving"
    BY <1>0, <1>6 DEF SeedRejected, SeedFault, Serve
  <2> QED BY <2>1 DEF SeederOK, SeedPcs, Ingesting
<1> QED BY <1>2, <1>3, <1>4, <1>5, <1>6 DEF SeedStep

\* Every instance is in order after every step.
LEMMA SeedersNext ==
  ASSUME IndInv, [Next]_vars, NEW j \in Instances
  PROVE  SeederOK(j)'
<1>1. /\ pc \in [Instances -> Pcs] /\ pos \in [Instances -> 1..Len(SeedOrder)]
      /\ segId \in [Instances -> Ids \union {NoId}]
  BY DEF IndInv, TypeOK
<1>2. ASSUME NEW i \in Instances, BootStep(i) \/ Crash(i) PROVE SeederOK(j)'
  <2>1. UNCHANGED db
    BY <1>2 DEF BootStep, BootSeeding, BootSkipping, BootBlind, Crash
  <2>2. CASE i # j
    <3>1. Still(j)
      BY <1>1, <1>2, <2>2
         DEF BootStep, BootSeeding, BootSkipping, BootBlind, Serve, Crash, Still
    <3> QED BY <2>1, <3>1, UpsertLeavesSeeder
  <2>3. CASE i = j
    <3>1. \/ pc'[j] \in {"serving", "down"}
          \/ pc'[j] = "upsert" /\ pos'[j] = 1
      BY <1>1, <1>2, <2>3
         DEF BootStep, BootSeeding, BootSkipping, BootBlind, Serve, Crash
    <3> QED BY <3>1 DEF SeederOK, SeedPcs, Ingesting
  <2> QED BY <2>2, <2>3
<1>3. ASSUME NEW i \in Instances, SeedStep(i) PROVE SeederOK(j)'
  <2>1. CASE i = j
    BY <1>3, <2>1, SeederMoves
  <2>2. CASE i # j
    <3>1. Still(j)
      BY <1>1, <1>3, <2>2
         DEF SeedStep, SeedUpsert, SeedDeleteFixtures, SeedDeleteAnalyses,
             SeedInsertFixtures, SeedInsertAnalyses, Advance, ToEntry, SeedRejected,
             SeedFault, Serve, Still
    <3>2. CASE SeedInsertFixtures(i) \/ SeedInsertAnalyses(i)
      BY <2>2, <3>1, <3>2, InsertLeavesSeeder
    <3>3. CASE SeedUpsert(i)
      <4>1. \E id \in Ids : DbUpsert(SeedOrder[pos[i]], id)
        BY <3>3, SeedUpsertStep DEF IndInv
      <4>2. SeedOrder[pos[i]] \in ExtIds
        BY <1>1, SeedSegTyped
      <4> QED BY <3>1, <4>1, <4>2, UpsertLeavesSeeder
    <3>4. CASE \/ SeedDeleteFixtures(i) \/ SeedDeleteAnalyses(i)
               \/ SeedRejected(i) \/ SeedFault(i)
      <4>1. UNCHANGED db
        BY <3>4, SeedDeleteStep DEF SeedRejected, SeedFault
      <4> QED BY <3>1, <4>1, UpsertLeavesSeeder
    <3> QED BY <1>3, <3>2, <3>3, <3>4 DEF SeedStep
  <2> QED BY <2>1, <2>2
<1>4. ASSUME NEW r \in Requests, Arrive(r) \/ RequestStep(r) PROVE SeederOK(j)'
  <2>1. Still(j)
    BY <1>4 DEF Arrive, Analyze, RescoreResolve, RequestStep, AnalyzeLocate,
                AnalyzeUpsert, RescorePreview, RescorePersist, RequestFault, bootVars, Still
  <2>2. UNCHANGED db \/ \E e \in ExtIds, id \in Ids : DbUpsert(e, id)
    <3>1. CASE AnalyzeUpsert(r) \/ RescorePersist(r)
      BY <3>1, RequestUpsertStep DEF DbUpsert
    <3>2. CASE ~(AnalyzeUpsert(r) \/ RescorePersist(r))
      BY <1>4, <3>2 DEF Arrive, Analyze, RescoreResolve, RequestStep, AnalyzeLocate,
                        RescorePreview, RequestFault
    <3> QED BY <3>1, <3>2
  <2> QED BY <2>1, <2>2, UpsertLeavesSeeder
<1>5. CASE UNCHANGED vars
  <2>1. Still(j) /\ UNCHANGED db
    BY <1>5 DEF vars, db, Still
  <2> QED BY <2>1, UpsertLeavesSeeder
<1> QED BY <1>2, <1>3, <1>4, <1>5 DEF Next

\* Seeders stay under different ids.
LEMMA ApartNext == ASSUME IndInv, [Next]_vars PROVE SeedersApart'
<1> USE DEF IndInv
<1>1. /\ pc \in [Instances -> Pcs] /\ segId \in [Instances -> Ids \union {NoId}]
      /\ NoId \notin Ids
  BY InputAssumption DEF TypeOK
<1>2. ASSUME NEW i \in Instances, pc'[i] \notin Ingesting, segId'[i] \in {NoId, segId[i]},
             \A j \in Instances : j # i => pc'[j] = pc[j] /\ segId'[j] = segId[j]
      PROVE  SeedersApart'
  <2>1. \A j \in Instances : pc[j] \in Ingesting => segId[j] \in Ids
    BY DEF SeederPhase
  <2> QED BY <1>1, <1>2, <2>1 DEF SeedersApart
<1>3. ASSUME NEW i \in Instances, BootStep(i) \/ Crash(i) PROVE SeedersApart'
  <2>1. /\ pc'[i] \notin Ingesting /\ segId'[i] \in {NoId, segId[i]}
        /\ \A j \in Instances : j # i => pc'[j] = pc[j] /\ segId'[j] = segId[j]
    BY <1>1, <1>3
       DEF BootStep, BootSeeding, BootSkipping, BootBlind, Serve, Crash, Ingesting
  <2> QED BY <1>2, <2>1
<1>4. ASSUME NEW i \in Instances, SeedStep(i) PROVE SeedersApart'
  <2>1. CASE SeedUpsert(i)
    <3>1. PICK id \in Ids : FreshId(id) /\ segId' = [segId EXCEPT ![i] = id]
      BY <2>1, SeedUpsertStep
    <3>2. pc' = [pc EXCEPT ![i] = "delFixtures"]
      BY <2>1 DEF SeedUpsert
    <3> QED BY <1>1, <3>1, <3>2 DEF SeedersApart, FreshId
  <2>2. CASE SeedDeleteFixtures(i) \/ SeedDeleteAnalyses(i) \/ SeedInsertFixtures(i)
    <3>1. /\ pc[i] \in Ingesting /\ UNCHANGED segId
          /\ \A j \in Instances : j # i => pc'[j] = pc[j]
      BY <1>1, <2>2 DEF SeedDeleteFixtures, SeedDeleteAnalyses, SeedInsertFixtures, Ingesting
    <3> QED BY <3>1 DEF SeedersApart
  <2>3. CASE SeedInsertAnalyses(i) \/ SeedRejected(i) \/ SeedFault(i)
    <3>1. /\ pc'[i] \notin Ingesting /\ segId'[i] = NoId
          /\ \A j \in Instances : j # i => pc'[j] = pc[j] /\ segId'[j] = segId[j]
      BY <1>1, <2>3
         DEF SeedInsertAnalyses, Advance, ToEntry, SeedRejected, SeedFault, Serve, Ingesting
    <3> QED BY <1>2, <3>1
  <2> QED BY <1>4, <2>1, <2>2, <2>3 DEF SeedStep
<1>5. ASSUME UNCHANGED << pc, segId >> PROVE SeedersApart'
  BY <1>5 DEF SeedersApart
<1>6. ASSUME NEW r \in Requests, Arrive(r) \/ RequestStep(r) PROVE SeedersApart'
  BY <1>5, <1>6
     DEF Arrive, Analyze, RescoreResolve, RequestStep, AnalyzeLocate,
         AnalyzeUpsert, RescorePreview, RescorePersist, RequestFault, bootVars
<1>7. CASE UNCHANGED vars
  BY <1>5, <1>7 DEF vars
<1> QED BY <1>3, <1>4, <1>6, <1>7 DEF Next

\* What a request read stays true: rows are never removed.
LEMMA RequestsNext == ASSUME IndInv, [Next]_vars PROVE RequestKnowsRow'
<1> USE DEF IndInv
<1>1. \A e \in ExtIds : Persisted(e) => Persisted(e)'
  BY StepsKeep DEF RowsKept, Persisted
<1>2. /\ req \in [Requests -> ReqState]
      /\ \A r \in Requests : req[r].pc \in {"located", "resolved"} => req[r].ext \in ExtIds
  BY RequestTyped DEF TypeOK, ExtIds
<1>3. ASSUME UNCHANGED req PROVE RequestKnowsRow'
  BY <1>1, <1>2, <1>3 DEF RequestKnowsRow
<1>4. ASSUME NEW r \in Requests, \A x \in Requests : x # r => req'[x] = req[x],
             /\ req'[r].pc = "located" /\ req'[r].id # NoId => Persisted(req'[r].ext)
             /\ req'[r].pc = "resolved" => Persisted(req'[r].ext),
             req'[r].pc \in {"located", "resolved"} => req'[r].ext \in ExtIds
      PROVE  RequestKnowsRow'
  <2> SUFFICES ASSUME NEW x \in Requests
               PROVE  /\ req'[x].pc = "located" /\ req'[x].id # NoId => Persisted(req[x].ext)'
                      /\ req'[x].pc = "resolved" => Persisted(req[x].ext)'
    BY DEF RequestKnowsRow
  <2>1. CASE x = r
    BY <1>1, <1>4, <2>1 DEF Persisted
  <2>2. CASE x # r
    BY <1>1, <1>2, <1>4, <2>2 DEF RequestKnowsRow, Persisted
  <2> QED BY <2>1, <2>2
<1>5. ASSUME NEW r \in Requests, req' = [req EXCEPT ![r] = Idle] PROVE RequestKnowsRow'
  BY <1>2, <1>4, <1>5, IdleTyped
<1>6. ASSUME NEW i \in Instances, BootStep(i) \/ SeedStep(i) PROVE RequestKnowsRow'
  BY <1>3, <1>6
     DEF BootStep, BootSeeding, BootSkipping, BootBlind, SeedStep, SeedUpsert,
         SeedDeleteFixtures, SeedDeleteAnalyses, SeedInsertFixtures, SeedInsertAnalyses,
         Advance, ToEntry,
         SeedRejected, SeedFault
<1>7. ASSUME NEW i \in Instances, Crash(i) PROVE RequestKnowsRow'
  <2>1. \A r \in Requests : req'[r] = Idle \/ req'[r] = req[r]
    BY <1>7 DEF Crash
  <2> QED BY <1>1, <1>2, <2>1, IdleTyped DEF RequestKnowsRow, Persisted
<1>8. ASSUME NEW r \in Requests, Arrive(r) PROVE RequestKnowsRow'
  <2>1. ASSUME NEW i \in Instances, NEW p \in LivePoints, NEW f \in Detected,
               Analyze(r, i, p, f)
        PROVE  RequestKnowsRow'
    BY <1>2, <1>4, <2>1 DEF Analyze
  <2>2. ASSUME NEW i \in Instances, NEW e \in ExtIds, NEW iv \in Interventions,
               RescoreResolve(r, i, e, iv)
        PROVE  RequestKnowsRow'
    BY <1>2, <1>4, <2>2 DEF RescoreResolve
  <2> QED BY <1>8, <2>1, <2>2 DEF Arrive
<1>9. ASSUME NEW r \in Requests, RequestStep(r) PROVE RequestKnowsRow'
  <2>1. CASE AnalyzeLocate(r)
    <3> DEFINE e == req[r].ext
    <3>1. e \in ExtIds
      BY <2>1, RequestTyped DEF AnalyzeLocate, ExtIds
    <3>2. PICK id : /\ id # NoId => Persisted(e)
                    /\ req' = [req EXCEPT ![r] = [pc |-> "located", home |-> req[r].home,
                                  ext |-> e, feat |-> req[r].feat, id |-> id]]
      BY <2>1 DEF AnalyzeLocate
    <3>3. req'[r].pc = "located" /\ req'[r].ext = e /\ req'[r].id = id
      BY <1>2, <3>2
    <3>4. \A x \in Requests : x # r => req'[x] = req[x]
      BY <1>2, <3>2
    <3> QED BY <1>4, <3>1, <3>2, <3>3, <3>4
  <2>2. CASE ~AnalyzeLocate(r)
    BY <1>5, <1>9, <2>2
       DEF RequestStep, AnalyzeUpsert, RescorePreview, RescorePersist, RequestFault
  <2> QED BY <2>1, <2>2
<1>10. CASE UNCHANGED vars
  BY <1>3, <1>10 DEF vars
<1> QED BY <1>6, <1>7, <1>8, <1>9, <1>10 DEF Next

\* A seed segment appears only when everything before it is whole.
LEMMA PrefixNext == ASSUME IndInv, [Next]_vars PROVE SeedPrefixWhole'
<1> SUFFICES ASSUME NEW k \in 1..(Len(SeedOrder) - 1), row'[SeedOrder[k + 1]] # NoRow
             PROVE  Whole(SeedOrder[k])'
  BY DEF SeedPrefixWhole, Persisted
<1> DEFINE e == SeedOrder[k + 1]
<1>1. /\ k \in 1..Len(SeedOrder) /\ k + 1 \in 1..Len(SeedOrder) /\ k + 1 - 1 = k
      /\ e \in SeedSegs /\ e \in ExtIds
  BY SeedNotEmpty, SeedSegTyped
<1>2. CASE Persisted(e)
  BY <1>1, <1>2, PrefixKept DEF IndInv, SeedPrefixWhole
<1>3. CASE ~Persisted(e)
  <2>1. row' # row
    BY <1>3 DEF Persisted
  <2>2. PICK i \in Instances : SeedUpsert(i)
    <3>1. ASSUME NEW r \in Requests, AnalyzeUpsert(r) \/ RescorePersist(r) PROVE FALSE
      <4>1. PICK id \in Ids : DbUpsert(req[r].ext, id)
        BY <3>1, RequestUpsertStep
      <4>2. req[r].ext \in ExtIds
        BY <4>1 DEF DbUpsert
      <4>3. req[r].ext # e => row'[e] = row[e]
        BY <1>1, <4>1, <4>2, UpsertRows DEF IndInv
      <4> QED BY <1>1, <1>3, <3>1, <4>3, RequestUpsertStep DEF Persisted
    <3>2. ASSUME NEW i \in Instances, SeedDeleteFixtures(i) \/ SeedDeleteAnalyses(i)
          PROVE FALSE
      BY <2>1, <3>2 DEF SeedDeleteFixtures, SeedDeleteAnalyses
    <3> QED BY <2>1, <3>1, <3>2
         DEF Next, vars, db, BootStep, BootSeeding, BootSkipping, BootBlind, SeedStep,
             SeedInsertFixtures, SeedInsertAnalyses, SeedRejected, SeedFault, Crash,
             Arrive, Analyze, RescoreResolve, RequestStep, AnalyzeLocate,
             RescorePreview, RequestFault
  <2>3. pos[i] \in 1..Len(SeedOrder) /\ pc[i] \in SeedPcs
    BY <2>2 DEF IndInv, TypeOK, SeedUpsert, SeedPcs
  <2>4. e = SeedOrder[pos[i]]
    <3>1. PICK id \in Ids : DbUpsert(SeedOrder[pos[i]], id)
      BY <2>2, SeedUpsertStep DEF IndInv
    <3>2. SeedOrder[pos[i]] \in ExtIds
      BY <2>3, SeedSegTyped
    <3>3. SeedOrder[pos[i]] # e => row'[e] = row[e]
      BY <1>1, <3>1, <3>2, UpsertRows DEF IndInv
    <3> QED BY <1>3, <3>3 DEF Persisted
  <2>5. pos[i] = k + 1
    BY <1>1, <2>3, <2>4, SeedAssumption
  <2>6. k \in 1..(pos[i] - 1)
    BY <1>1, <2>5
  <2> QED BY <1>1, <2>3, <2>6, PrefixKept DEF IndInv, PrefixIngested
<1> QED BY <1>2, <1>3

\* The last insert of an ingest is the one after which everything is whole.
LEMMA CompleteNext == ASSUME IndInv, [Next]_vars PROVE CompleteMeansWhole'
<1> USE DEF IndInv
<1>1. SUFFICES ASSUME NEW i \in Instances, outcome'[i] = "complete",
                      NEW k \in 1..Len(SeedOrder)
               PROVE  Whole(SeedOrder[k])'
  BY <1>1 DEF CompleteMeansWhole, SeedSegs
<1>2. SeedOrder[k] \in SeedSegs /\ SeedOrder[k] \in ExtIds
  BY SeedSegTyped
<1>3. CASE outcome[i] = "complete"
  BY <1>2, <1>3, PrefixKept DEF CompleteMeansWhole
<1>4. CASE outcome[i] # "complete"
  <2>1. SeedInsertAnalyses(i) /\ ~(pos[i] < Len(SeedOrder))
    <3>1. outcome \in [Instances -> Outcomes]
      BY DEF TypeOK
    <3>2. ASSUME NEW j \in Instances, SeedInsertAnalyses(j)
          PROVE  j = i /\ ~(pos[i] < Len(SeedOrder))
      BY <1>1, <1>4, <3>1, <3>2 DEF SeedInsertAnalyses, Advance, ToEntry, Serve
    <3>3. \E j \in Instances : SeedInsertAnalyses(j)
      BY <1>1, <1>4, <3>1
         DEF Next, vars, bootVars, BootStep, BootSeeding, BootSkipping, BootBlind, SeedStep,
             SeedUpsert, SeedDeleteFixtures, SeedDeleteAnalyses, SeedInsertFixtures,
             SeedRejected, SeedFault, Serve, Crash, Arrive, Analyze, RescoreResolve,
             RequestStep, AnalyzeLocate, AnalyzeUpsert, RescorePreview, RescorePersist,
             RequestFault
    <3> QED BY <3>2, <3>3
  <2>2. pos[i] = Len(SeedOrder)
    BY <2>1, SeedNotEmpty DEF TypeOK
  <2> QED BY <2>1, <2>2, Finished
<1> QED BY <1>3, <1>4

-----------------------------------------------------------------------------
\* The inductive invariant and what follows from it

LEMMA IndInit == Init => IndInv
<1> SUFFICES ASSUME Init PROVE IndInv
  OBVIOUS
<1>1. \A e \in ExtIds : ~Persisted(e)
  BY DEF Init, Persisted
<1>2. /\ \A i \in Instances : pc[i] \notin SeedPcs /\ pc[i] \notin Ingesting
      /\ \A i \in Instances : outcome[i] = "none"
      /\ \A id \in Ids : fixtures[id] = 0 /\ analyses[id] = 0
      /\ \A r \in Requests : req[r].pc = "idle"
  BY IdleTyped DEF Init, SeedPcs, Ingesting
<1>3. ScoresMatchFeatures /\ IdsDistinct /\ ChildrenHaveSegment /\ ChildrenOnce
  BY <1>1, <1>2 DEF ScoresMatchFeatures, IdsDistinct, ChildrenHaveSegment, ChildrenOnce
<1>4. SeederPhase /\ SeedersApart /\ RequestKnowsRow /\ PrefixIngested
  BY <1>2 DEF SeederPhase, SeedersApart, RequestKnowsRow, PrefixIngested
<1>5. SeedPrefixWhole
  <2>1. \A k \in 1..(Len(SeedOrder) - 1) : SeedOrder[k + 1] \in ExtIds
    BY SeedNotEmpty, SeedSegTyped
  <2> QED BY <1>1, <2>1 DEF SeedPrefixWhole
<1>6. CompleteMeansWhole
  BY <1>2 DEF CompleteMeansWhole
<1> QED BY TypeInit, <1>3, <1>4, <1>5, <1>6 DEF IndInv

LEMMA IndNext == IndInv /\ [Next]_vars => IndInv'
<1> SUFFICES ASSUME IndInv, [Next]_vars PROVE IndInv'
  OBVIOUS
<1>1. TypeOK'
  BY TypeNext DEF IndInv
<1>2. (SeederPhase /\ PrefixIngested)'
  BY SeedersNext DEF SeederPhase, PrefixIngested, SeederOK
<1> QED BY <1>1, <1>2, TablesNext, ApartNext, RequestsNext, PrefixNext, CompleteNext
        DEF IndInv

THEOREM SegmentsInductive == Spec => []IndInv
BY IndInit, IndNext, PTL DEF Spec

\* The scores of every stored segment belong to its stored features.
THEOREM ScoresCorrect == Spec => []ScoresMatchFeatures
<1>1. IndInv => ScoresMatchFeatures
  BY DEF IndInv
<1> QED BY <1>1, SegmentsInductive, PTL

\* No segment ever has its seed fixtures or analyses twice.
THEOREM ChildrenCorrect == Spec => []ChildrenOnce
<1>1. IndInv => ChildrenOnce
  BY DEF IndInv
<1> QED BY <1>1, SegmentsInductive, PTL

\* Only the last seed segment present can lack its children.
THEOREM PrefixCorrect == Spec => []SeedPrefixWhole
<1>1. IndInv => SeedPrefixWhole
  BY DEF IndInv
<1> QED BY <1>1, SegmentsInductive, PTL

\* An instance that reports a complete autoseed is right, and stays right.
THEOREM CompleteCorrect == Spec => []CompleteMeansWhole
<1>1. IndInv => CompleteMeansWhole
  BY DEF IndInv
<1> QED BY <1>1, SegmentsInductive, PTL

\* A stored segment keeps its row and its id for ever.
THEOREM IdentityCorrect == Spec => IdentityStable
<1>1. IndInv /\ [Next]_vars => [RowsStay]_vars
  BY StepsKeep DEF RowsKept, RowsStay
<1> QED BY <1>1, SegmentsInductive, PTL DEF Spec, IdentityStable

\* No step, the DELETEs of the ingest included, removes a child.
THEOREM ChildrenKept == Spec => ChildrenNeverRemoved
<1>1. IndInv /\ [Next]_vars =>
        [\A id \in Ids : /\ fixtures'[id] >= fixtures[id]
                         /\ analyses'[id] >= analyses[id]]_vars
  BY StepsKeep DEF ChildrenGrow
<1> QED BY <1>1, SegmentsInductive, PTL DEF Spec, ChildrenNeverRemoved

-----------------------------------------------------------------------------
\* The tables implement the abstract catalog

\* What the catalog shows of a stored segment.
Entry(e) ==
  [id |-> row[e].id, feat |-> row[e].feat,
   fixtures |-> fixtures[row[e].id], analyses |-> analyses[row[e].id]]

LEMMA CatalogInit == Init => Catalog!Init
BY DEF Init, Catalog!Init, CatalogView, Persisted

\* A segment is published in the catalog when its row is there.
LEMMA PublishedIsPersisted ==
  ASSUME TypeOK, NEW e \in ExtIds
  PROVE  /\ CatalogView[e] # NoRow <=> Persisted(e)
         /\ Persisted(e) => CatalogView[e] = Entry(e)
<1>1. ASSUME Persisted(e) PROVE Entry(e) # NoRow /\ CatalogView[e] = Entry(e)
  <2>1. row[e].id \in Ids /\ row[e].feat \in Features
    BY <1>1, RowTyped
  <2>2. Entry(e) \in [id : Ids, feat : Features, fixtures : Nat, analyses : Nat]
    BY <2>1 DEF Entry, TypeOK
  <2> QED BY <1>1, <2>2, InputAssumption DEF CatalogView, Entry
<1> QED BY <1>1 DEF CatalogView

\* A view that changes at one segment only.
LEMMA CatalogExcept ==
  ASSUME NEW e \in ExtIds, NEW v, CatalogView'[e] = v,
         \A x \in ExtIds : x # e => CatalogView'[x] = CatalogView[x]
  PROVE  CatalogView' = [CatalogView EXCEPT ![e] = v]
BY DEF CatalogView

\* An upsert publishes a new segment or revises a stored one.
LEMMA UpsertImplements ==
  ASSUME IndInv, TypeOK', NEW e \in ExtIds, NEW id \in Ids, DbUpsert(e, id)
  PROVE  Catalog!Revise(e) \/ Catalog!Publish(e, id)
<1> USE DEF IndInv
<1>1. UNCHANGED << fixtures, analyses >> /\ (Persisted(e) \/ FreshId(id))
  BY DEF DbUpsert
<1>2. /\ \A x \in ExtIds : x # e => row'[x] = row[x]
      /\ row'[e] # NoRow /\ row'[e].feat \in Features
      /\ row'[e].id = IF Persisted(e) THEN row[e].id ELSE id
  BY UpsertRows
<1>3. \A x \in ExtIds : x # e => CatalogView'[x] = CatalogView[x]
  BY <1>1, <1>2 DEF CatalogView, Persisted
<1> DEFINE new == [id |-> row'[e].id, feat |-> row'[e].feat,
                   fixtures |-> fixtures[row'[e].id],
                   analyses |-> analyses[row'[e].id]]
<1>4. CatalogView'[e] = new
  BY <1>1, <1>2 DEF CatalogView, Persisted
<1>5. new # NoRow
  <2>1. row'[e].id \in Ids
    BY <1>2, RowTyped
  <2>2. fixtures[row'[e].id] \in Nat /\ analyses[row'[e].id] \in Nat
    BY <2>1 DEF TypeOK
  <2>3. new \in [id : Ids, feat : Features, fixtures : Nat, analyses : Nat]
    BY <1>2, <2>1, <2>2
  <2> QED BY <2>3, InputAssumption
<1>6. CatalogView' = [CatalogView EXCEPT ![e] = new]
  BY <1>3, <1>4, CatalogExcept
<1>7. CASE Persisted(e)
  <2>1. CatalogView[e] = Entry(e) /\ CatalogView[e] # NoRow
    BY <1>7, PublishedIsPersisted
  <2>2. new = [Entry(e) EXCEPT !.feat = row'[e].feat]
    BY <1>2, <1>7 DEF Entry
  <2>3. CatalogView' = [CatalogView EXCEPT ![e].feat = CatalogView'[e].feat]
    BY <1>4, <1>6, <2>1, <2>2
  <2> QED BY <1>2, <1>4, <1>5, <2>1, <2>3 DEF Catalog!Revise, Catalog!Published
<1>8. CASE ~Persisted(e)
  <2>1. row'[e].id = id /\ fixtures[id] = 0 /\ analyses[id] = 0
    BY <1>1, <1>2, <1>8 DEF FreshId
  <2>2. \A x \in ExtIds : CatalogView[x] # NoRow => CatalogView[x].id # id
    <3> SUFFICES ASSUME NEW x \in ExtIds, CatalogView[x] # NoRow
                 PROVE  CatalogView[x].id # id
      OBVIOUS
    <3>1. Persisted(x) /\ CatalogView[x] = Entry(x)
      BY PublishedIsPersisted
    <3>2. row[x].id # id
      BY <1>1, <1>8, <3>1 DEF FreshId
    <3> QED BY <3>1, <3>2 DEF Entry
  <2>3. CatalogView' = [CatalogView EXCEPT ![e] = [id |-> id, feat |-> CatalogView'[e].feat,
                                                   fixtures |-> 0, analyses |-> 0]]
    BY <1>4, <1>6, <2>1
  <2>4. CatalogView[e] = NoRow
    BY <1>8, PublishedIsPersisted
  <2> QED BY <1>2, <1>4, <1>5, <2>2, <2>3, <2>4 DEF Catalog!Publish, Catalog!Published
<1> QED BY <1>7, <1>8

\* An insert of children attaches them to the one segment with their id.
LEMMA AttachImplements ==
  ASSUME IndInv, NEW e \in SeedSegs
  PROVE  /\ DbAttachFixtures(e) => Catalog!AttachFixtures(e)
         /\ DbAttachAnalyses(e) => Catalog!AttachAnalyses(e)
<1> USE DEF IndInv
<1>1. SUFFICES ASSUME DbAttachFixtures(e) \/ DbAttachAnalyses(e)
               PROVE  /\ DbAttachFixtures(e) => Catalog!AttachFixtures(e)
                      /\ DbAttachAnalyses(e) => Catalog!AttachAnalyses(e)
  OBVIOUS
<1>2. Persisted(e) /\ e \in ExtIds /\ row[e].id \in Ids /\ UNCHANGED row
  BY <1>1, RowTyped DEF DbAttachFixtures, DbAttachAnalyses, ExtIds
<1>3. CatalogView[e] = Entry(e) /\ CatalogView[e] # NoRow
  BY <1>2, PublishedIsPersisted
<1>4. \A x \in ExtIds : x # e /\ Persisted(x) => row[x].id # row[e].id /\ row[x].id \in Ids
  BY <1>2, RowTyped DEF IdsDistinct
<1> DEFINE new == [id |-> row[e].id, feat |-> row[e].feat,
                   fixtures |-> fixtures'[row[e].id],
                   analyses |-> analyses'[row[e].id]]
<1>5. CatalogView'[e] = new
  BY <1>2 DEF CatalogView, Persisted
<1>6. \A x \in ExtIds : x # e => CatalogView'[x] = CatalogView[x]
  <2>1. \A x \in ExtIds : x # e /\ Persisted(x) =>
          /\ fixtures'[row[x].id] = fixtures[row[x].id]
          /\ analyses'[row[x].id] = analyses[row[x].id]
    BY <1>1, <1>4 DEF DbAttachFixtures, DbAttachAnalyses, TypeOK
  <2> QED BY <1>2, <2>1 DEF CatalogView, Persisted
<1>7. CatalogView' = [CatalogView EXCEPT ![e] = new]
  BY <1>2, <1>5, <1>6, CatalogExcept
<1>8. ASSUME DbAttachFixtures(e) PROVE Catalog!AttachFixtures(e)
  <2>1. fixtures[row[e].id] = 0 /\ fixtures'[row[e].id] = 1 /\ analyses' = analyses
    BY <1>2, <1>8 DEF DbAttachFixtures, TypeOK
  <2>2. new = [Entry(e) EXCEPT !.fixtures = 1]
    BY <2>1 DEF Entry
  <2>3. CatalogView' = [CatalogView EXCEPT ![e].fixtures = 1]
    BY <1>3, <1>7, <2>2
  <2>4. Entry(e).fixtures = fixtures[row[e].id] /\ Entry(e).analyses = analyses[row[e].id]
    BY DEF Entry
  <2> QED BY <1>2, <1>3, <2>1, <2>3, <2>4 DEF Catalog!AttachFixtures, Catalog!Published
<1>9. ASSUME DbAttachAnalyses(e) PROVE Catalog!AttachAnalyses(e)
  <2>1. /\ fixtures[row[e].id] = 1 /\ fixtures' = fixtures
        /\ analyses[row[e].id] = 0 /\ analyses'[row[e].id] = 1
    BY <1>2, <1>9 DEF DbAttachAnalyses, TypeOK
  <2>2. new = [Entry(e) EXCEPT !.analyses = 1]
    BY <2>1 DEF Entry
  <2>3. CatalogView' = [CatalogView EXCEPT ![e].analyses = 1]
    BY <1>3, <1>7, <2>2
  <2>4. Entry(e).fixtures = fixtures[row[e].id] /\ Entry(e).analyses = analyses[row[e].id]
    BY DEF Entry
  <2> QED BY <1>2, <1>3, <2>1, <2>3, <2>4 DEF Catalog!AttachAnalyses, Catalog!Published
<1> QED BY <1>8, <1>9

\* Every step of the tables is a step of the catalog, or invisible in it.
LEMMA CatalogNext == IndInv /\ [Next]_vars => [Catalog!Next]_CatalogView
<1> SUFFICES ASSUME IndInv, [Next]_vars PROVE [Catalog!Next]_CatalogView
  OBVIOUS
<1>1. DbStep /\ TypeOK'
  BY DbSteps, TypeNext DEF IndInv
<1>2. CASE UNCHANGED db
  BY <1>2 DEF db, CatalogView, Persisted
<1>3. ASSUME NEW e \in ExtIds, NEW id \in Ids, DbUpsert(e, id) PROVE Catalog!Next
  BY <1>1, <1>3, UpsertImplements DEF Catalog!Next
<1>4. ASSUME NEW e \in SeedSegs, DbAttachFixtures(e) \/ DbAttachAnalyses(e)
      PROVE  Catalog!Next
  BY <1>4, AttachImplements DEF Catalog!Next
<1> QED BY <1>1, <1>2, <1>3, <1>4 DEF DbStep

\* The three tables, written without a transaction by any number of instances
\* and requests, implement the atomic catalog of segments.
THEOREM CatalogCorrect == Spec => ImplementsCatalog
BY CatalogInit, SegmentsInductive, CatalogNext, PTL DEF Spec, ImplementsCatalog, Catalog!Spec
=============================================================================
