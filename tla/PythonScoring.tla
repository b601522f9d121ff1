--------------------------- MODULE PythonScoring ---------------------------
(***************************************************************************)
(* The scores as the pipeline computes them for the seed: a second         *)
(* implementation of the model, in ai/pipeline/scoring.py.                 *)
(***************************************************************************)
EXTENDS Rational

RECOMMENDED_DENSITY ==
  [highway |-> Whole(4), primary |-> Whole(3), secondary |-> Frac(25, 10),
   residential |-> Frac(18, 10), service |-> Frac(12, 10)]
ROAD_WIDTH ==
  [highway |-> Whole(20), primary |-> Whole(16), secondary |-> Whole(12),
   residential |-> Whole(8), service |-> Whole(6)]

recommended_density(road) ==
  RECOMMENDED_DENSITY[IF road \in DOMAIN RECOMMENDED_DENSITY THEN road ELSE "secondary"]
road_width(road) == ROAD_WIDTH[IF road \in DOMAIN ROAD_WIDTH THEN road ELSE "secondary"]

clamp(value, low, high) ==
  LET least == IF Less(value, high) THEN value ELSE high IN
  IF Less(low, least) THEN least ELSE low

\* Half up, which is half away from zero where values are not negative.
round(value, factor) ==
  Frac((2 * value[1] * factor + value[2]) \div (2 * value[2]), factor)

lighting_density(lamps, length) ==
  IF Leq(length, Zero) THEN Zero ELSE Over(Whole(lamps), Over(length, Whole(100)))

risk_level(score) ==
  CHOOSE level \in {"critical", "high", "medium", "low"} :
    \/ level = "critical" /\ Leq(Whole(75), score)
    \/ level = "high" /\ Leq(Whole(50), score) /\ Less(score, Whole(75))
    \/ level = "medium" /\ Leq(Whole(25), score) /\ Less(score, Whole(50))
    \/ level = "low" /\ Less(score, Whole(25))

lighting_sufficiency(f, adequacy) ==
  LET dark == Times(Times(Frac(15, 100), clamp(f.night, Zero, One)), Minus(One, adequacy))
      width == IF Less(Zero, f.width) THEN f.width ELSE road_width(f.road)
      demand == clamp(Over(width, road_width(f.road)), Frac(7, 10), Frac(18, 10))
      effective == clamp(Over(adequacy, demand), Zero, One) IN
  clamp(Times(Times(effective, Whole(100)), Minus(One, dark)), Zero, Whole(100))

occlusion(f) ==
  LET raw == Plus(Plus(Times(Frac(55, 100), clamp(f.vegetation, Zero, One)),
                       Times(Frac(25, 100), clamp(Frac(f.trees, 8), Zero, One))),
                  Times(Frac(20, 100), clamp(f.building, Zero, One))) IN
  Times(clamp(raw, Zero, One), Whole(100))

infrastructure(f, length, adequacy) ==
  LET expected == Ceil(Times(recommended_density(f.road), Over(length, Whole(100))))
      support == IF expected > 0 THEN clamp(Frac(f.poles, expected), Zero, One) ELSE Zero
      raw == Plus(Plus(Times(Frac(55, 100), adequacy),
                       Times(Frac(25, 100), clamp(f.sidewalk, Zero, One))),
                  Times(Frac(20, 100), support)) IN
  Times(clamp(raw, Zero, One), Whole(100))

score_env(f) ==
  LET length == IF Less(Zero, f.length) THEN f.length ELSE Whole(100)
      brightness == IF Less(Zero, f.brightness) THEN f.brightness ELSE One
      density == lighting_density(f.lamps, length)
      recommended == recommended_density(f.road)
      adequacy == clamp(Over(Times(density, brightness), recommended), Zero, One)
      lss == lighting_sufficiency(f, adequacy)
      occ == occlusion(f)
      ias == infrastructure(f, length, adequacy)
      overall == clamp(Plus(Plus(Times(Frac(50, 100), lss),
                                 Times(Frac(30, 100), Minus(Whole(100), occ))),
                            Times(Frac(20, 100), ias)), Zero, Whole(100))
      risk == clamp(Minus(Whole(100), overall), Zero, Whole(100)) IN
  [density |-> round(density, 1000), recommended |-> recommended,
   adequacy |-> round(adequacy, 1000), sufficiency |-> round(lss, 10),
   occlusion |-> round(occ, 10), infrastructure |-> round(ias, 10),
   overall |-> round(overall, 10), risk |-> round(risk, 10),
   level |-> risk_level(risk)]
=============================================================================
