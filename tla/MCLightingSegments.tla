------------------------- MODULE MCLightingSegments -------------------------
(***************************************************************************)
(* Small instances of LightingSegments for TLC.                            *)
(***************************************************************************)
EXTENDS LightingSegments, TLC

CONSTANTS i1, i2, r1, r2, s1, s2, p1, u1, u2, u3, u4, u5

Feat(l, t, b) == [lamps |-> l, trims |-> t, bright |-> b]

MCSeedOrder == << s1, s2 >>

\* One current entry, one from a file older than the scoring model. The scores of
\* the first are, as those of seg-10-02 in the embedded file, not ScoreEnv's.
Drifted == Feat(0, 0, 1)
MCSeed ==
  (s1 :> [feat |-> Feat(1, 0, 1), scored |-> Drifted]) @@
  (s2 :> [feat |-> Feat(0, 0, 0), scored |-> NoScores])

MCDetected == {Feat(0, 0, 1)}

InstallOne == [add |-> 1, trim |-> FALSE, bright |-> 0]
TrimBrighter == [add |-> -1, trim |-> TRUE, bright |-> 2]
MCInterventions == {InstallOne, TrimBrighter}

\* A body of zeros asks for the current scores and changes nothing.
NoChange == [add |-> 0, trim |-> FALSE, bright |-> 0]
InstallOnly == {NoChange, InstallOne}

OneSeed == << s1 >>
OneSeedEntry == (s1 :> [feat |-> Feat(1, 0, 1), scored |-> Drifted])

\* Segment ids are only compared for equality.
IdSymmetry == Permutations(Ids)
=============================================================================
