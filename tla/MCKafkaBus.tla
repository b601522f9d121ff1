----------------------------- MODULE MCKafkaBus -----------------------------
(***************************************************************************)
(* Small instances of KafkaBus for TLC.                                    *)
(***************************************************************************)
EXTENDS KafkaBus, TLC

CONSTANTS i1, i2, q1, q2

\* Instances and partitions are only compared for equality.
BrokerSymmetry == Permutations(Instances) \union Permutations(Partitions)
=============================================================================
