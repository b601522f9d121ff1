------------------------------ MODULE Scoring ------------------------------
(***************************************************************************)
(* The lighting scores of a segment as functions of its features, as the   *)
(* backend computes them.                                                  *)
(***************************************************************************)
EXTENDS Rational

Roads == {"highway", "primary", "secondary", "residential", "service"}
DefaultRoad == "secondary"

RecommendedDensity ==
  [highway |-> Whole(4), primary |-> Whole(3), secondary |-> Frac(25, 10),
   residential |-> Frac(18, 10), service |-> Frac(12, 10)]
RoadWidth ==
  [highway |-> Whole(20), primary |-> Whole(16), secondary |-> Whole(12),
   residential |-> Whole(8), service |-> Whole(6)]

RecommendedDensityFor(road) ==
  RecommendedDensity[IF road \in Roads THEN road ELSE DefaultRoad]
RoadWidthFor(road) == RoadWidth[IF road \in Roads THEN road ELSE DefaultRoad]

\* What is detected about a segment.
Features ==
  [lamps : Nat, poles : Nat, trees : Nat, road : STRING, length : Fraction,
   night : Fraction, width : Fraction, vegetation : Fraction, building : Fraction,
   sidewalk : Fraction, brightness : Fraction]

Clamp(v, lo, hi) == IF Less(v, lo) THEN lo ELSE IF Less(hi, v) THEN hi ELSE v
Unit(v) == Clamp(v, Zero, One)
Percent(v) == Clamp(v, Zero, Whole(100))

\* math.Round: half away from zero.
Round(v, factor) ==
  LET up(n) == (2 * n * factor + v[2]) \div (2 * v[2]) IN
  Frac(IF v[1] < 0 THEN -up(-v[1]) ELSE up(v[1]), factor)

LightingDensity(lamps, length) ==
  IF Leq(length, Zero) THEN Zero ELSE Over(Whole(lamps), Over(length, Whole(100)))

RiskLevelFor(risk) ==
  IF Leq(Whole(75), risk) THEN "critical"
  ELSE IF Leq(Whole(50), risk) THEN "high"
  ELSE IF Leq(Whole(25), risk) THEN "medium"
  ELSE "low"

OrElse(v, default) == IF Leq(v, Zero) THEN default ELSE v
Weighted(a, v, b, w, c, x) ==
  Plus(Plus(Times(Frac(a, 100), v), Times(Frac(b, 100), w)), Times(Frac(c, 100), x))

\* Lamps, as they light a road of this width at night.
Sufficiency(f, adequacy) ==
  LET night == Minus(One, Times(Times(Frac(15, 100), Unit(f.night)), Minus(One, adequacy)))
      base == RoadWidthFor(f.road)
      demand == Clamp(Over(OrElse(f.width, base), base), Frac(7, 10), Frac(18, 10)) IN
  Percent(Times(Times(Unit(Over(adequacy, demand)), Whole(100)), night))

\* Vegetation, trees and buildings that block the light.
Occlusion(f) ==
  Times(Unit(Weighted(55, Unit(f.vegetation), 25, Unit(Frac(f.trees, 8)),
                      20, Unit(f.building))), Whole(100))

\* Fault: pole support weighs as much as sidewalks.
InfrastructureReweighted(f, length, adequacy) ==
  LET expected == Ceil(Times(RecommendedDensityFor(f.road), Over(length, Whole(100))))
      poles == IF expected > 0 THEN Unit(Frac(f.poles, expected)) ELSE Zero IN
  Times(Unit(Weighted(55, adequacy, 25, Unit(f.sidewalk), 25, poles)), Whole(100))

\* Coverage, sidewalks and poles.
Infrastructure(f, length, adequacy) ==
  LET expected == Ceil(Times(RecommendedDensityFor(f.road), Over(length, Whole(100))))
      poles == IF expected > 0 THEN Unit(Frac(f.poles, expected)) ELSE Zero IN
  Times(Unit(Weighted(55, adequacy, 25, Unit(f.sidewalk), 20, poles)), Whole(100))

ScoreEnv(f) ==
  LET length == OrElse(f.length, Whole(100))
      density == LightingDensity(f.lamps, length)
      recommended == RecommendedDensityFor(f.road)
      adequacy == Unit(Over(Times(density, OrElse(f.brightness, One)), recommended))
      lss == Sufficiency(f, adequacy)
      occ == Occlusion(f)
      ias == Infrastructure(f, length, adequacy)
      overall == Percent(Weighted(50, lss, 30, Minus(Whole(100), occ), 20, ias))
      risk == Percent(Minus(Whole(100), overall)) IN
  [density |-> Round(density, 1000), recommended |-> recommended,
   adequacy |-> Round(adequacy, 1000), sufficiency |-> Round(lss, 10),
   occlusion |-> Round(occ, 10), infrastructure |-> Round(ias, 10),
   overall |-> Round(overall, 10), risk |-> Round(risk, 10),
   level |-> RiskLevelFor(risk)]

\* The same from lamps and road alone.
ScoreSegment(lamps, length, road, night) ==
  ScoreEnv([lamps |-> lamps, poles |-> 0, length |-> length, road |-> road,
            night |-> night, width |-> Zero, trees |-> 0, vegetation |-> Zero,
            building |-> Zero, sidewalk |-> Zero, brightness |-> Zero])
=============================================================================
