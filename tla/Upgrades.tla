------------------------------ MODULE Upgrades ------------------------------
(***************************************************************************)
(* A planner at work on stored segments: the backend recommends, the       *)
(* planner follows a recommendation or adjusts a segment by hand, and the  *)
(* segment is scored again.  The network simulation reads the rows.        *)
(***************************************************************************)
EXTENDS Scoring, PythonScoring, FiniteSets, Folds

CONSTANTS
  Segments,
  Detected,      \* segment -> the features it may have been detected with
  Brightness,    \* brightness factors a planner sets by hand
  MaxAdjust,     \* bound: adjustments by hand
  Scenarios,     \* policies the network simulation is asked for
  Panel          \* TRUE: recommendations are followed in the dashboard's panel

\* What a policy may say; Normalize reads it.
Policies == [levels : SUBSET STRING, target : Fraction, dimming : Fraction]

ASSUME UpgradeAssumption ==
  /\ IsFiniteSet(Segments)
  /\ \A x \in Segments : Detected[x] \subseteq Features
  /\ Brightness \subseteq Fraction
  /\ MaxAdjust \in Nat
  /\ Scenarios \subseteq Policies
  /\ Panel \in BOOLEAN

VARIABLES
  net,        \* segment -> its row: features and the scores stored with them
  advice,     \* segment -> the recommendations the planner has before him
  adjusted,   \* adjustments by hand so far
  followed    \* history: segment -> recommendations followed since the last adjustment

vars == << net, advice, adjusted, followed >>

Scored(f) == [f |-> f, s |-> ScoreEnv(f)]

Init ==
  /\ net \in {[x \in Segments |-> Scored(f[x])] :
                f \in {g \in [Segments -> UNION {Detected[x] : x \in Segments}] :
                         \A x \in Segments : g[x] \in Detected[x]}}
  /\ advice = [x \in Segments |-> {}]
  /\ adjusted = 0
  /\ followed = [x \in Segments |-> 0]

-----------------------------------------------------------------------------
\* Recommendations

FixturesFor(target, f) ==
  Ceil(Times(Times(target, RecommendedDensityFor(f.road)), Over(f.length, Whole(100))))

\* Fault: the target is rounded down.
LampsToReachTargetShort(f) ==
  LET needed == Floor(Times(Times(Frac(85, 100), RecommendedDensityFor(f.road)),
                            Over(f.length, Whole(100)))) IN
  IF needed > f.lamps THEN needed - f.lamps ELSE 0

LampsToReachTarget(f) ==
  LET needed == FixturesFor(Frac(85, 100), f) IN
  IF needed > f.lamps THEN needed - f.lamps ELSE 0

Installed(f, lamps) == [f EXCEPT !.lamps = @ + lamps, !.poles = @ + lamps]
Trimmed(f) ==
  [f EXCEPT !.vegetation = Unit(Times(@, Frac(4, 10))), !.trees = (@ + 1) \div 2]
Brightened(f, factor) == [f EXCEPT !.brightness = factor]
Brighter == Frac(13, 10)

\* What may be done about a row: an action, its lamps, and the features after it.
Measure(action, lamps, f) == [action |-> action, lamps |-> lamps, f |-> f]

Install(row) ==
  LET add == LampsToReachTarget(row.f) IN
  IF add > 0 THEN {Measure("install_lamps", add, Installed(row.f, add))} ELSE {}

Trim(row) ==
  IF Leq(Whole(35), row.s.occlusion) \/ Leq(Frac(3, 10), row.f.vegetation)
  THEN {Measure("trim_vegetation", 0, Trimmed(row.f))} ELSE {}

Brighten(row) ==
  IF row.f.lamps > 0 /\ Less(row.s.adequacy, Frac(9, 10))
  THEN {Measure("increase_brightness", 0, Brightened(row.f, Brighter))} ELSE {}

Inspect(row) ==
  IF Less(row.s.infrastructure, Whole(50)) \/ row.f.lamps = 0
  THEN {Measure("schedule_inspection", 0, row.f)} ELSE {}

Advice(measure) ==
  [action |-> measure.action, lamps |-> measure.lamps,
   projected |-> ScoreEnv(measure.f).overall]

\* Fault: a gain is not asked for.
WorthwhileAlways(rec, row) == TRUE

\* Brightening is advised for a gain of a point.
Worthwhile(rec, row) ==
  rec.action = "increase_brightness" =>
    Leq(One, Minus(rec.projected, ScoreEnv(row.f).overall))

Recommend(row) ==
  {rec \in {Advice(m) : m \in Install(row) \union Trim(row) \union Brighten(row)
                                \union Inspect(row)} :
     Worthwhile(rec, row)}

-----------------------------------------------------------------------------
\* RescoreSegment

\* The features after an intervention; 0, FALSE and 0 leave them as they are.
Project(f, lamps, trim, factor) ==
  LET g == IF lamps > 0 THEN Installed(f, lamps) ELSE f
      h == IF trim THEN Trimmed(g) ELSE g IN
  IF Less(Zero, factor) THEN Brightened(h, factor) ELSE h

\* The projection is stored with its scores.
Persist(x, f) == net' = [net EXCEPT ![x] = Scored(f)]

\* What the planner has before him after an answer: recommendations for the row as
\* it was.  The panel shows them; another client asks anew.
Answered(x) ==
  advice' = [advice EXCEPT ![x] = IF Panel THEN Recommend(net[x]) ELSE {}]

\* A request that changes nothing: the panel sends it when a segment is selected.
Ask(x) ==
  /\ advice' = [advice EXCEPT ![x] = Recommend(net[x])]
  /\ UNCHANGED << net, adjusted, followed >>

\* The brightness a request carries: the panel always sends its slider, which is at
\* 1 unless the planner moves it.
Factor(rec) ==
  IF rec.action = "increase_brightness" THEN Brighter ELSE IF Panel THEN One ELSE Zero

Obeyed(f, rec) == Project(f, rec.lamps, rec.action = "trim_vegetation", Factor(rec))

Follow(x) ==
  /\ \E rec \in advice[x] :
       /\ rec.action # "schedule_inspection"
       /\ Persist(x, Obeyed(net[x].f, rec))
  /\ Answered(x)
  /\ followed' = [followed EXCEPT ![x] = @ + 1]
  /\ UNCHANGED adjusted

Adjust(x) ==
  /\ adjusted < MaxAdjust
  /\ \E lamps \in 0..1, trim \in BOOLEAN, factor \in Brightness :
       Persist(x, Project(net[x].f, lamps, trim, factor))
  /\ Answered(x)
  /\ adjusted' = adjusted + 1
  /\ followed' = [followed EXCEPT ![x] = 0]

Next == \E x \in Segments : Ask(x) \/ Follow(x) \/ Adjust(x)

Spec == Init /\ [][Next]_vars

-----------------------------------------------------------------------------
\* SimulateScenario

\* Normalize: what a policy does not set.
Normalize(p) ==
  [p EXCEPT !.levels = IF @ = {} THEN {"critical", "high"} ELSE @,
            !.target = IF Leq(@, Zero) THEN Frac(8, 10) ELSE IF Less(One, @) THEN One ELSE @]

Dimmed(row, p) == row.s.level \notin p.levels /\ Less(Zero, p.dimming) /\ row.s.level = "low"

\* Fault: the levels of the policy are not looked at.
TargetedAny(row, p) == TRUE

Targeted(row, p) == row.s.level \in p.levels

ProposedFixtures(row, p) ==
  LET needed == FixturesFor(p.target, row.f) IN
  IF Targeted(row, p) /\ needed > row.f.lamps THEN needed ELSE row.f.lamps

\* Scored without the environment, unlike the risk that is stored.
ProposedRisk(row, p) ==
  IF Targeted(row, p)
  THEN ScoreSegment(ProposedFixtures(row, p), row.f.length, row.f.road, row.f.night).risk
  ELSE row.s.risk

\* Energy, in fixtures that burn all night.
ProposedEnergy(row, p) ==
  LET dim == Times(p.dimming, Frac(1, 200)) IN
  Times(Whole(ProposedFixtures(row, p)), IF Dimmed(row, p) THEN Minus(One, dim) ELSE One)

\* The values are those of a function on the segments.
Total(value) ==
  MapThenFoldSet(Plus, Zero, LAMBDA x : value[x], LAMBDA S : CHOOSE x \in S : TRUE, Segments)
Average(value) ==
  LET n == IF Segments = {} THEN 1 ELSE Cardinality(Segments) IN
  Round(Over(Total(value), Whole(n)), 10)

Simulate(policy) ==
  LET p == Normalize(policy) IN
  [upgraded |-> {x \in Segments : ProposedFixtures(net[x], p) > net[x].f.lamps},
   dimmed |-> {x \in Segments : Dimmed(net[x], p)},
   baselineRisk |-> Average([x \in Segments |-> net[x].s.risk]),
   proposedRisk |-> Average([x \in Segments |-> ProposedRisk(net[x], p)]),
   baselineEnergy |-> Total([x \in Segments |-> Whole(net[x].f.lamps)]),
   proposedEnergy |-> Total([x \in Segments |-> ProposedEnergy(net[x], p)])]

-----------------------------------------------------------------------------
\* The scores stored with a segment, which the backend computes, are those the
\* pipeline computes for the same features, through any history of interventions.
PythonAgrees == \A x \in Segments : net[x].s = score_env(net[x].f)

\* Whether a recommendation still fits the row.  In the panel it may be out of date,
\* and the slider that is sent along resets a brightness other than the nominal one.
StillFits(rec, row) ==
  Panel => rec \in Recommend(row)
           /\ (rec.action = "increase_brightness" \/ row.f.brightness = One)

\* A recommendation that still fits and is followed brings the score it projected, and
\* never a lower one than before: the projection and the intervention are two pieces of
\* code.  Those of a client that asks anew always fit.
AdviceKept ==
  [][\A x \in Segments : \A rec \in advice[x] :
       /\ followed'[x] = followed[x] + 1 /\ net'[x].f = Obeyed(net[x].f, rec)
       /\ StillFits(rec, net[x])
       => /\ net'[x].s.overall = rec.projected
          /\ Leq(net[x].s.overall, net'[x].s.overall)]_vars

\* Lamps that were installed as recommended are enough: where lamps burn at least
\* at nominal output the target is reached, and more are not asked for.
InstallReachesTarget ==
  [][\A x \in Segments : \A rec \in advice[x] :
       rec.action = "install_lamps" /\ followed'[x] = followed[x] + 1
       /\ net'[x].f.lamps > net[x].f.lamps =>
         /\ LampsToReachTarget(net'[x].f) = 0
         /\ Leq(One, net'[x].f.brightness) => Leq(Frac(85, 100), net'[x].s.adequacy)]_vars

\* Advice comes to an end: a client that asks anew before each step, and follows what
\* it is told in any order, has at most one installation, one brightening and, where
\* there are no more than 24 trees, three prunings before it.
AdviceEnds ==
  \A x \in Segments :
    (\A f \in Detected[x] : f.trees <= 24 /\ Leq(f.vegetation, One)) => followed[x] <= 5

\* Upgrades high and critical segments, to two fifths of what is recommended or more.
RiskPolicy(p) == p.levels \subseteq {"critical", "high"} /\ Leq(Frac(2, 5), p.target)

\* The network simulation of a policy that upgrades high and critical segments
\* never reports a higher risk than the network has, although it scores upgraded
\* segments by another model than the stored ones; no policy saves energy without
\* dimming, or costs energy without upgrades.
UpgradesReduceRisk ==
  \A policy \in Scenarios : \A r \in {Simulate(policy)}, p \in {Normalize(policy)} :
    /\ RiskPolicy(p) /\ (\A x \in Segments : Targeted(net[x], p) => Less(Zero, net[x].f.length))
         => Leq(r.proposedRisk, r.baselineRisk)
    /\ r.dimmed = {} => Leq(r.baselineEnergy, r.proposedEnergy)
    /\ r.upgraded = {} => Leq(r.proposedEnergy, r.baselineEnergy)

\* "A single actionable intervention a municipality can take on a segment, with the
\* projected improvement to its overall lighting score": following one never makes
\* the stored score worse.
AdviceImproves ==
  [][\A x \in Segments :
       followed'[x] = followed[x] + 1 => Leq(net[x].s.overall, net'[x].s.overall)]_vars
=============================================================================
