--------------------------- MODULE SegmentCatalog ---------------------------
(***************************************************************************)
(* What the stored street segments promise a reader: an atomic catalog in  *)
(* which a segment is published once under a permanent id, its features    *)
(* may be revised at any time, and its seed fixtures and analyses are      *)
(* attached once each, fixtures first, and never removed.                  *)
(***************************************************************************)
EXTENDS Naturals

CONSTANTS ExtIds, SeedSegs, Ids, Features, NoEntry

VARIABLE catalog

Published(e) == catalog[e] # NoEntry

Init == catalog = [e \in ExtIds |-> NoEntry]

Publish(e, id) ==
  /\ ~Published(e)
  /\ \A x \in ExtIds : Published(x) => catalog[x].id # id
  /\ catalog'[e] # NoEntry /\ catalog'[e].feat \in Features
  /\ catalog' = [catalog EXCEPT ![e] = [id |-> id, feat |-> catalog'[e].feat,
                                       fixtures |-> 0, analyses |-> 0]]

Revise(e) ==
  /\ Published(e)
  /\ catalog'[e] # NoEntry /\ catalog'[e].feat \in Features
  /\ catalog' = [catalog EXCEPT ![e].feat = catalog'[e].feat]

AttachFixtures(e) ==
  /\ Published(e)
  /\ catalog[e].fixtures = 0
  /\ catalog' = [catalog EXCEPT ![e].fixtures = 1]

AttachAnalyses(e) ==
  /\ Published(e)
  /\ catalog[e].fixtures = 1 /\ catalog[e].analyses = 0
  /\ catalog' = [catalog EXCEPT ![e].analyses = 1]

Next ==
  \/ \E e \in ExtIds : Revise(e) \/ \E id \in Ids : Publish(e, id)
  \/ \E e \in SeedSegs : AttachFixtures(e) \/ AttachAnalyses(e)

Spec == Init /\ [][Next]_catalog
=============================================================================
