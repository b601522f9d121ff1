----------------------------- MODULE MCUpgrades -----------------------------
(***************************************************************************)
(* Small instances of Upgrades for TLC: one segment that takes many shapes *)
(* and one that takes two.                                                 *)
(***************************************************************************)
EXTENDS Upgrades

CONSTANTS s1, s2

Tenth(n) == Frac(n, 10)
Feature(lamps, poles, road, length, night, width, trees, veg, building, side, bright) ==
  [lamps |-> lamps, poles |-> poles, road |-> road, length |-> Whole(length),
   night |-> Tenth(night), width |-> Whole(width), trees |-> trees,
   vegetation |-> Tenth(veg), building |-> Tenth(building), sidewalk |-> Tenth(side),
   brightness |-> Tenth(bright)]

\* Length 0 and brightness 0 stand for 100 m and 1, an unknown road for secondary.
MCDetected ==
  [x \in {s1, s2} |->
    IF x = s1
    THEN {Feature(n, n, road, length, 8, 0, veg - 1, veg, 5, side, 10) :
            n \in {0, 1, 3, 6}, road \in {"primary", "residential"}, length \in {100, 200},
            veg \in {2, 9}, side \in {0, 10}}
         \union {Feature(3, 4, "path", 0, 12, 30, 3, 5, 10, 5, 0)}
    ELSE {Feature(4, 4, "service", 100, 0, 3, 0, 0, 0, 10, 10)}]

Policy(levels, target, dimming) ==
  [levels |-> levels, target |-> Tenth(target), dimming |-> Whole(dimming)]
MCScenarios ==
  {Policy({}, 0, 0), Policy({"critical", "high"}, 4, 50), Policy({"critical"}, 12, 0)}

MCBrightness == {Zero, Tenth(5), Tenth(20)}
=============================================================================
