--------------------------- MODULE MCInProcessBus ---------------------------
(***************************************************************************)
(* Small instances of InProcessBus for TLC.                                *)
(***************************************************************************)
EXTENDS InProcessBus, TLC

CONSTANTS p1, p2, iam, tenant, audit, h1, h2, h3

\* Two handlers on one topic, one on another, none on the third.
MCSubscribers == (iam :> << h1, h2 >>) @@ (tenant :> << h3 >>) @@ (audit :> << >>)
=============================================================================
