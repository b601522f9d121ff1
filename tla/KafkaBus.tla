------------------------------ MODULE KafkaBus ------------------------------
(***************************************************************************)
(* The Kafka event bus: producers append envelopes to the partitions of a  *)
(* topic; in every server process one goroutine fetches messages of the    *)
(* partitions its group member owns, calls the handlers and commits.  The  *)
(* broker and the group coordinator are external: they are modelled by     *)
(* what kafka-go lets this code see of them.                               *)
(***************************************************************************)
EXTENDS Integers, Sequences, FiniteSets

CONSTANTS
  Instances,       \* server processes, all in one consumer group
  Partitions,
  Malformed,       \* TRUE: other producers may write values that do not parse
  HandlersFail,    \* TRUE: a handler may return an error
  Faults,          \* TRUE: commits may fail
  SubscribeFirst,  \* TRUE: Subscribe before Start; FALSE: the order of main
  MaxMessages,     \* bound: messages per partition
  MaxStops,        \* bound: shutdowns and crashes
  Nobody

NoMessage == [stage |-> "none"]

ASSUME KafkaAssumption ==
  /\ Malformed \in BOOLEAN /\ HandlersFail \in BOOLEAN /\ Faults \in BOOLEAN
  /\ SubscribeFirst \in BOOLEAN
  /\ MaxMessages \in Nat /\ MaxStops \in Nat
  /\ Nobody \notin Instances

VARIABLES
  log,        \* broker: partition -> "event" or "malformed" per message
  committed,  \* broker: partition -> messages the group has committed
  owner,      \* coordinator: partition -> the instance it is assigned to
  balanced,   \* coordinator: the assignment is that of the present members
  up,         \* instance -> "down", "running", or "stopping" (context cancelled)
  pos,        \* instance -> partition -> messages its reader has handed out
  cur,        \* instance -> the message consumeLoop is busy with
  tried,      \* history: partition -> messages all handlers were called with
  handled,    \* history: partition -> those on which every handler succeeded
  stops

vars == << log, committed, owner, balanced, up, pos, cur, tried, handled, stops >>

Init ==
  /\ log = [p \in Partitions |-> << >>]
  /\ committed = [p \in Partitions |-> 0]
  /\ owner = [p \in Partitions |-> Nobody]
  /\ balanced = TRUE
  /\ up = [i \in Instances |-> "down"]
  /\ pos = [i \in Instances |-> [p \in Partitions |-> 0]]
  /\ cur = [i \in Instances |-> NoMessage]
  /\ tried = [p \in Partitions |-> {}]
  /\ handled = [p \in Partitions |-> {}]
  /\ stops = 0

-----------------------------------------------------------------------------
\* Producers

Write(p, kind) ==
  /\ Len(log[p]) < MaxMessages
  /\ log' = [log EXCEPT ![p] = Append(@, kind)]
  /\ UNCHANGED << committed, owner, balanced, up, pos, cur, tried, handled, stops >>

\* WriteMessages, acknowledged by the leader; LeastBytes may pick any partition.
Publish(p) == Write(p, "event")

PublishMalformed(p) == Malformed /\ Write(p, "malformed")

-----------------------------------------------------------------------------
\* Group membership

\* Readers are created for the topics subscribed to when Start runs.
Members == {i \in Instances : SubscribeFirst /\ up[i] # "down"}

Start(i) ==
  /\ up[i] = "down"
  /\ up' = [up EXCEPT ![i] = "running"]
  /\ balanced' = FALSE
  /\ UNCHANGED << log, committed, owner, pos, cur, tried, handled, stops >>

\* Fault: a new owner goes on from where its reader was before.
RebalanceKeeping ==
  /\ ~balanced
  /\ \E assignment \in [Partitions -> IF Members = {} THEN {Nobody} ELSE Members] :
       owner' = assignment
  /\ balanced' = TRUE
  /\ UNCHANGED << log, committed, up, pos, cur, tried, handled, stops >>

\* A new generation: every member starts from the committed offsets of the
\* partitions it is given.
Rebalance ==
  /\ ~balanced
  /\ \E assignment \in [Partitions -> IF Members = {} THEN {Nobody} ELSE Members] :
       /\ owner' = assignment
       /\ pos' = [i \in Instances |->
                    [p \in Partitions |->
                       IF assignment[p] = i THEN committed[p] ELSE pos[i][p]]]
  /\ balanced' = TRUE
  /\ UNCHANGED << log, committed, up, cur, tried, handled, stops >>

\* The instance is gone: its partitions wait for the next generation.
Leave(i) ==
  /\ up' = [up EXCEPT ![i] = "down"]
  /\ cur' = [cur EXCEPT ![i] = NoMessage]
  /\ owner' = [p \in Partitions |-> IF owner[p] = i THEN Nobody ELSE owner[p]]
  /\ balanced' = FALSE
  /\ UNCHANGED << log, committed, pos, tried, handled >>

-----------------------------------------------------------------------------
\* consumeLoop

Take(i, p, n) ==
  /\ pos' = [pos EXCEPT ![i][p] = n]
  /\ cur' = [cur EXCEPT ![i] =
               [stage |-> IF log[p][n] = "event" THEN "handle" ELSE "commit",
                part |-> p, msg |-> n]]

\* Fault: the message is committed as soon as it is fetched.
FetchCommitting(i, p) ==
  /\ up[i] = "running"
  /\ cur[i] = NoMessage
  /\ owner[p] = i
  /\ pos[i][p] < Len(log[p])
  /\ Take(i, p, pos[i][p] + 1)
  /\ committed' = [committed EXCEPT ![p] = pos[i][p] + 1]
  /\ UNCHANGED << log, owner, balanced, up, tried, handled, stops >>

\* Fault: the newest message is not seen.
FetchShort(i, p) ==
  /\ up[i] = "running"
  /\ cur[i] = NoMessage
  /\ owner[p] = i
  /\ pos[i][p] + 1 < Len(log[p])
  /\ Take(i, p, pos[i][p] + 1)
  /\ UNCHANGED << log, committed, owner, balanced, up, tried, handled, stops >>

\* FetchMessage; a value that does not parse goes to its commit unhandled. A fetch
\* error is logged and the fetch repeated.
Fetch(i, p) ==
  /\ up[i] = "running"
  /\ cur[i] = NoMessage
  /\ owner[p] = i
  /\ pos[i][p] < Len(log[p])
  /\ Take(i, p, pos[i][p] + 1)
  /\ UNCHANGED << log, committed, owner, balanced, up, tried, handled, stops >>

\* Every handler is called with the event, also after one of them failed.
CallHandlers(i) ==
  /\ cur[i].stage = "handle"
  /\ tried' = [tried EXCEPT ![cur[i].part] = @ \union {cur[i].msg}]
  /\ UNCHANGED << log, committed, owner, balanced, up, pos, stops >>

\* No handler returned an error.
HandleOk(i) ==
  /\ CallHandlers(i)
  /\ handled' = [handled EXCEPT ![cur[i].part] = @ \union {cur[i].msg}]
  /\ cur' = [cur EXCEPT ![i].stage = "commit"]

\* A handler failed: the message is not committed, the loop fetches the next one.
HandleFail(i) ==
  /\ HandlersFail
  /\ CallHandlers(i)
  /\ cur' = [cur EXCEPT ![i] = NoMessage]
  /\ UNCHANGED handled

\* CommitMessages: the group's offset becomes the one after the message, even if
\* the partition has a new owner by now or the offset was further on.
Commit(i) ==
  /\ up[i] = "running"
  /\ cur[i].stage = "commit"
  /\ committed' = [committed EXCEPT ![cur[i].part] = cur[i].msg]
  /\ cur' = [cur EXCEPT ![i] = NoMessage]
  /\ UNCHANGED << log, owner, balanced, up, pos, tried, handled, stops >>

\* A commit that fails is logged; so is every commit once the context is cancelled.
CommitFault(i) ==
  /\ Faults \/ up[i] = "stopping"
  /\ cur[i].stage = "commit"
  /\ cur' = [cur EXCEPT ![i] = NoMessage]
  /\ UNCHANGED << log, committed, owner, balanced, up, pos, tried, handled, stops >>

-----------------------------------------------------------------------------
\* Close, and crashes

Stop(i) ==
  /\ up[i] = "running"
  /\ stops < MaxStops
  /\ stops' = stops + 1
  /\ up' = [up EXCEPT ![i] = "stopping"]
  /\ UNCHANGED << log, committed, owner, balanced, pos, cur, tried, handled >>

\* FetchMessage returns the context's error, the loop ends, the readers close.
Exit(i) ==
  /\ up[i] = "stopping"
  /\ cur[i] = NoMessage
  /\ Leave(i)
  /\ UNCHANGED stops

Crash(i) ==
  /\ up[i] # "down"
  /\ stops < MaxStops
  /\ stops' = stops + 1
  /\ Leave(i)

-----------------------------------------------------------------------------
Consume(i) ==
  \/ \E p \in Partitions : Fetch(i, p)
  \/ HandleOk(i) \/ HandleFail(i)
  \/ Commit(i) \/ CommitFault(i)
  \/ Exit(i)

Next ==
  \/ \E p \in Partitions : Publish(p) \/ PublishMalformed(p)
  \/ \E i \in Instances : Start(i) \/ Consume(i) \/ Stop(i) \/ Crash(i)
  \/ Rebalance

Spec == Init /\ [][Next]_vars

\* The supervisor restarts instances, the coordinator rebalances, handlers return
\* and the loop, which serves one partition after the other, goes on with each.
FairSpec ==
  /\ Spec
  /\ WF_vars(Rebalance)
  /\ \A i \in Instances :
       /\ WF_vars(Start(i)) /\ WF_vars(Consume(i))
       /\ \A p \in Partitions : SF_vars(Fetch(i, p))

-----------------------------------------------------------------------------
\* Properties

Message == [stage : {"handle", "commit"}, part : Partitions, msg : Nat \ {0}]

TypeOK ==
  /\ log \in [Partitions -> Seq({"event", "malformed"})]
  /\ committed \in [Partitions -> Nat]
  /\ \A p \in Partitions : committed[p] <= Len(log[p])
  /\ owner \in [Partitions -> Instances \union {Nobody}]
  /\ balanced \in BOOLEAN
  /\ up \in [Instances -> {"down", "running", "stopping"}]
  /\ pos \in [Instances -> [Partitions -> Nat]]
  /\ \A i \in Instances, p \in Partitions : pos[i][p] <= Len(log[p])
  /\ cur \in [Instances -> {NoMessage} \union Message]
  /\ \A i \in Instances : cur[i] # NoMessage => cur[i].msg <= Len(log[cur[i].part])
  /\ tried \in [Partitions -> SUBSET (Nat \ {0})]
  /\ handled \in [Partitions -> SUBSET (Nat \ {0})]
  /\ \A p \in Partitions : handled[p] \subseteq tried[p] /\ tried[p] \subseteq 1..Len(log[p])
  /\ stops \in 0..MaxStops

\* The handlers were called with every event among the first n messages.
TriedUpTo(p, n) ==
  \A m \in 1..n : log[p][m] = "event" => m \in tried[p]

\* What the group will not read again was given to the handlers, through rebalances,
\* commits by former owners, and restarts.
CommittedTried == \A p \in Partitions : TriedUpTo(p, committed[p])

\* The handlers are first called with the events of a partition in their order,
\* whichever instances share the work and whatever handlers return.
TriedInOrder ==
  \A p \in Partitions : \A n \in tried[p] : TriedUpTo(p, n)

\* The message a commit names was handled itself, whatever handlers return.
CommitsHandled ==
  \A p \in Partitions :
    LET n == committed[p] IN
    n > 0 /\ log[p][n] = "event" => n \in handled[p]

\* consumer.go:111 "Only commit if all handlers succeeded (at-least-once delivery)":
\* every handler succeeded on what the group will not read again.
AtLeastOnce ==
  \A p \in Partitions : \A n \in 1..committed[p] :
    log[p][n] = "event" => n \in handled[p]

\* A message that does not parse, or whose handlers fail, does not block the
\* partition: the loop gets past it.
NothingBlocks ==
  \A p \in Partitions, n \in 1..MaxMessages :
    n \in DOMAIN log[p] ~> \E i \in Instances : owner[p] = i /\ pos[i][p] >= n

\* main.go:184 "Start consuming (after subscriptions are registered in
\* buildDependencies)": every published event reaches its handlers.
EventuallyTried ==
  \A p \in Partitions, n \in 1..MaxMessages :
    n \in DOMAIN log[p] /\ log[p][n] = "event" ~> n \in tried[p]

-----------------------------------------------------------------------------
\* Why nothing is skipped: a reader is at most one message ahead of the handlers.

\* A message on its way to its commit was handled itself.
LoopCommitsHandled ==
  \A i \in Instances : cur[i].stage = "commit" =>
    (log[cur[i].part][cur[i].msg] = "event" => cur[i].msg \in handled[cur[i].part])

\* The handlers were called with all that precedes the message consumeLoop is busy with.
LoopInOrder ==
  \A i \in Instances : cur[i] # NoMessage => TriedUpTo(cur[i].part, cur[i].msg - 1)

\* They were called with what a reader handed out, but for the message in hand.
ReadersInOrder ==
  \A i \in Instances, p \in Partitions : owner[p] = i =>
    \/ TriedUpTo(p, pos[i][p])
    \/ cur[i] # NoMessage /\ cur[i].part = p /\ cur[i].msg = pos[i][p]

CommitInv == TypeOK /\ LoopCommitsHandled /\ CommitsHandled
OrderInv == CommittedTried /\ TriedInOrder /\ LoopInOrder /\ ReadersInOrder
IndInv == CommitInv /\ OrderInv
=============================================================================
