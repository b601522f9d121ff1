----------------------------- MODULE EventFeed -----------------------------
(***************************************************************************)
(* What an event bus promises: every event it accepts gets a place in one  *)
(* order, and every handler is called for the events of its topic in that  *)
(* order, each of them once.                                               *)
(***************************************************************************)
EXTENDS Integers, Sequences

CONSTANTS Topics, Handlers, TopicOf

VARIABLES
  accepted,  \* the topics of the accepted events, in their order
  at         \* handler -> the last event it was called for; 0: none yet

feed == << accepted, at >>

FeedInit ==
  /\ accepted = << >>
  /\ at = [h \in Handlers |-> 0]

Accept(t) ==
  /\ accepted' = Append(accepted, t)
  /\ UNCHANGED at

\* The handler is called for event n, having missed none of its topic before n.
Call(h, n) ==
  /\ n \in DOMAIN accepted /\ n > at[h]
  /\ accepted[n] = TopicOf[h]
  /\ \A m \in at[h] + 1 .. n - 1 : accepted[m] # TopicOf[h]
  /\ at' = [at EXCEPT ![h] = n]
  /\ UNCHANGED accepted

FeedNext ==
  \/ \E t \in Topics : Accept(t)
  \/ \E h \in Handlers, n \in DOMAIN accepted : Call(h, n)

Spec == FeedInit /\ [][FeedNext]_feed
=============================================================================
