--------------------------- MODULE KafkaBus_proofs ---------------------------
(***************************************************************************)
(* Proofs about KafkaBus, for any instances, partitions and bounds.        *)
(***************************************************************************)
EXTENDS KafkaBus, TLAPS

\* The invariant about types and commits holds at the start: empty partitions.
LEMMA InitCommit == Init => CommitInv
  BY KafkaAssumption
     DEF Init, CommitInv, TypeOK, LoopCommitsHandled, CommitsHandled, NoMessage

\* What a goroutine is busy with is a message of a partition.
LEMMA LoopType ==
  ASSUME TypeOK, NEW i \in Instances, cur[i].stage \in {"handle", "commit"}
  PROVE  /\ cur[i] \in Message /\ cur[i] # NoMessage
         /\ cur[i].part \in Partitions /\ cur[i].msg \in Nat \ {0}
         /\ cur[i].msg <= Len(log[cur[i].part])
<1>1. cur[i] \in Message /\ cur[i] # NoMessage
  BY DEF TypeOK, NoMessage
<1> QED
  BY <1>1 DEF TypeOK, Message

\* Calling the handlers adds a message of the log to those they were called with.
LEMMA CallType ==
  ASSUME TypeOK, NEW i \in Instances, CallHandlers(i)
  PROVE  /\ tried' \in [Partitions -> SUBSET (Nat \ {0})]
         /\ \A p \in Partitions : tried[p] \subseteq tried'[p] /\ tried'[p] \subseteq 1..Len(log[p])
         /\ cur[i].msg \in tried'[cur[i].part]
<1>1. /\ cur[i].part \in Partitions /\ cur[i].msg \in Nat \ {0}
      /\ cur[i].msg <= Len(log[cur[i].part])
  BY LoopType DEF CallHandlers
<1>2. tried' = [tried EXCEPT ![cur[i].part] = @ \union {cur[i].msg}]
  BY DEF CallHandlers
<1> QED
  BY <1>1, <1>2 DEF TypeOK

\* Every step preserves the type invariant.
LEMMA StepType == TypeOK /\ [Next]_vars => TypeOK'
<1> USE KafkaAssumption
<1> SUFFICES ASSUME TypeOK, [Next]_vars PROVE TypeOK'
  OBVIOUS
<1>1. ASSUME NEW p \in Partitions, NEW kind \in {"event", "malformed"}, Write(p, kind)
      PROVE  TypeOK'
  <2>1. /\ log' \in [Partitions -> Seq({"event", "malformed"})]
        /\ \A q \in Partitions : Len(log[q]) \in Nat /\ Len(log'[q]) \in Nat
                                 /\ Len(log[q]) <= Len(log'[q])
    BY <1>1 DEF Write, TypeOK
  <2> QED
    BY <1>1, <2>1 DEF Write, TypeOK, Message
<1>2. ASSUME NEW i \in Instances, Start(i) PROVE TypeOK'
  BY <1>2 DEF Start, TypeOK
<1>3. CASE Rebalance
  BY <1>3 DEF Rebalance, TypeOK, Members
<1>4. ASSUME NEW i \in Instances, NEW p \in Partitions, Fetch(i, p) PROVE TypeOK'
  <2> DEFINE n == pos[i][p] + 1
             m == [stage |-> IF log[p][n] = "event" THEN "handle" ELSE "commit",
                   part |-> p, msg |-> n]
  <2>1. n \in Nat \ {0} /\ n <= Len(log[p])
    BY <1>4 DEF Fetch, TypeOK
  <2>2. m \in Message
    BY <2>1 DEF Message
  <2>3. cur' = [cur EXCEPT ![i] = m] /\ pos' = [pos EXCEPT ![i][p] = n]
    BY <1>4 DEF Fetch, Take
  <2> HIDE DEF m
  <2>4. m.part = p /\ m.msg = n
    BY DEF m
  <2> QED
    BY <1>4, <2>1, <2>2, <2>3, <2>4 DEF Fetch, TypeOK
<1>5. ASSUME NEW i \in Instances, HandleOk(i) PROVE TypeOK'
  <2> DEFINE m == [cur[i] EXCEPT !.stage = "commit"]
  <2>1. m \in Message /\ m.part = cur[i].part /\ m.msg = cur[i].msg
    BY <1>5, LoopType DEF HandleOk, CallHandlers, Message
  <2>2. cur' = [cur EXCEPT ![i] = m] /\ log' = log
    BY <1>5 DEF HandleOk, CallHandlers
  <2>3. /\ tried' \in [Partitions -> SUBSET (Nat \ {0})]
        /\ \A p \in Partitions : tried'[p] \subseteq 1..Len(log[p])
    BY <1>5, CallType DEF HandleOk
  <2>4. /\ handled' \in [Partitions -> SUBSET (Nat \ {0})]
        /\ \A p \in Partitions : handled'[p] \subseteq tried'[p]
    <3>1. /\ cur[i].part \in Partitions /\ cur[i].msg \in Nat \ {0}
      BY <1>5, LoopType DEF HandleOk, CallHandlers
    <3>2. /\ handled' = [handled EXCEPT ![cur[i].part] = @ \union {cur[i].msg}]
          /\ tried' = [tried EXCEPT ![cur[i].part] = @ \union {cur[i].msg}]
      BY <1>5 DEF HandleOk, CallHandlers
    <3> QED
      BY <3>1, <3>2 DEF TypeOK
  <2>5. cur[i].msg <= Len(log[cur[i].part])
    BY <1>5, LoopType DEF HandleOk, CallHandlers
  <2> HIDE DEF m
  <2>6. UNCHANGED << log, committed, owner, balanced, up, pos, stops >>
    BY <1>5 DEF HandleOk, CallHandlers
  <2> QED
    BY <2>1, <2>2, <2>3, <2>4, <2>5, <2>6 DEF TypeOK
<1>6. ASSUME NEW i \in Instances, HandleFail(i) PROVE TypeOK'
  <2>1. /\ tried' \in [Partitions -> SUBSET (Nat \ {0})]
        /\ \A p \in Partitions : tried[p] \subseteq tried'[p] /\ tried'[p] \subseteq 1..Len(log[p])
    BY <1>6, CallType DEF HandleFail
  <2> QED
    BY <1>6, <2>1 DEF HandleFail, CallHandlers, TypeOK
<1>7. ASSUME NEW i \in Instances, Commit(i) PROVE TypeOK'
  BY <1>7, LoopType DEF Commit, TypeOK
<1>8. ASSUME NEW i \in Instances, CommitFault(i) PROVE TypeOK'
  BY <1>8 DEF CommitFault, TypeOK
<1>9. ASSUME NEW i \in Instances, Stop(i) PROVE TypeOK'
  BY <1>9 DEF Stop, TypeOK
<1>10. ASSUME NEW i \in Instances, Exit(i) \/ Crash(i) PROVE TypeOK'
  <2>1. Leave(i) /\ stops' \in 0..MaxStops
    BY <1>10 DEF Exit, Crash, TypeOK
  <2> QED
    BY <2>1 DEF Leave, TypeOK
<1>11. CASE UNCHANGED vars
  BY <1>11 DEF vars, TypeOK
<1> QED
  BY <1>1, <1>2, <1>3, <1>4, <1>5, <1>6, <1>7, <1>8, <1>9, <1>10, <1>11
     DEF Next, Consume, Publish, PublishMalformed

\* Messages that are there stay as they are, and what was tried or handled remains so.
LEMMA LogGrows ==
  ASSUME TypeOK, [Next]_vars, NEW p \in Partitions
  PROVE  /\ Len(log[p]) \in Nat /\ Len(log'[p]) \in Nat
         /\ Len(log[p]) <= Len(log'[p])
         /\ \A n \in 1..Len(log[p]) : log'[p][n] = log[p][n]
         /\ tried[p] \subseteq tried'[p] /\ handled[p] \subseteq handled'[p]
<1>1. ASSUME NEW q \in Partitions, NEW kind \in {"event", "malformed"}, Write(q, kind)
      PROVE  /\ Len(log'[p]) \in Nat /\ Len(log[p]) <= Len(log'[p])
             /\ \A n \in 1..Len(log[p]) : log'[p][n] = log[p][n]
             /\ tried[p] \subseteq tried'[p] /\ handled[p] \subseteq handled'[p]
  BY <1>1 DEF Write, TypeOK
<1>2. ASSUME NEW i \in Instances, HandleOk(i) \/ HandleFail(i)
      PROVE  log' = log /\ tried[p] \subseteq tried'[p] /\ handled[p] \subseteq handled'[p]
  <2>1. CallHandlers(i)
    BY <1>2 DEF HandleOk, HandleFail
  <2>2. handled[p] \subseteq handled'[p]
    <3>1. CASE HandleOk(i)
      BY <3>1 DEF HandleOk, TypeOK
    <3>2. CASE HandleFail(i)
      BY <3>2 DEF HandleFail
    <3> QED
      BY <1>2, <3>1, <3>2
  <2> QED
    BY <2>1, <2>2, CallType DEF CallHandlers
<1>3. \/ \E q \in Partitions : Write(q, "event") \/ Write(q, "malformed")
      \/ \E i \in Instances : HandleOk(i) \/ HandleFail(i)
      \/ UNCHANGED << log, tried, handled >>
  BY DEF Next, vars, Publish, PublishMalformed, Start, Consume, Fetch, Commit,
         CommitFault, Stop, Exit, Crash, Leave, Rebalance
<1> QED
  BY <1>1, <1>2, <1>3 DEF TypeOK

\* Every step preserves that commits name handled messages.
LEMMA StepCommit == CommitInv /\ [Next]_vars => CommitInv'
<1> SUFFICES ASSUME CommitInv, [Next]_vars PROVE CommitInv'
  OBVIOUS
<1>0. TypeOK /\ TypeOK'
  BY StepType DEF CommitInv
<1> DEFINE Fine(p, n) == log[p][n] = "event" => n \in handled[p]
\* A message that is there and fine stays fine.
<1>1. ASSUME NEW p \in Partitions, NEW n \in 1..Len(log[p]), Fine(p, n)
      PROVE  log'[p][n] = "event" => n \in handled'[p]
  BY <1>0, <1>1, LogGrows
<1>2. LoopCommitsHandled'
  <2> SUFFICES ASSUME NEW i \in Instances, cur'[i].stage = "commit",
                      log'[cur'[i].part][cur'[i].msg] = "event"
               PROVE  cur'[i].msg \in handled'[cur'[i].part]
    BY DEF LoopCommitsHandled
  <2>1. CASE cur'[i] = cur[i]
    <3>1. /\ cur[i].part \in Partitions /\ cur[i].msg \in 1..Len(log[cur[i].part])
          /\ Fine(cur[i].part, cur[i].msg)
      BY <2>1, <1>0, LoopType DEF CommitInv, LoopCommitsHandled, TypeOK
    <3> QED
      BY <2>1, <3>1, <1>1
  <2>2. CASE cur'[i] # cur[i]
    <3>1. HandleOk(i) \/ \E p \in Partitions : Fetch(i, p)
      <4>1. \/ UNCHANGED cur
            \/ \E j \in Instances : \/ HandleOk(j) \/ \E p \in Partitions : Fetch(j, p)
                                    \/ cur' = [cur EXCEPT ![j] = NoMessage]
        BY DEF Next, vars, Write, Publish, PublishMalformed, Start, Consume, HandleFail,
           Commit, CommitFault, Stop, Exit, Crash, Leave, Rebalance
      <4>2. ASSUME NEW j \in Instances, j # i,
                   HandleOk(j) \/ \E p \in Partitions : Fetch(j, p)
            PROVE  cur'[i] = cur[i]
        BY <4>2, <1>0 DEF HandleOk, Fetch, Take, TypeOK
      <4>3. ASSUME NEW j \in Instances, cur' = [cur EXCEPT ![j] = NoMessage]
            PROVE  cur'[i] = cur[i]
        BY <4>3, <1>0 DEF NoMessage, TypeOK
      <4> QED
        BY <2>2, <4>1, <4>2, <4>3
    <3>2. CASE HandleOk(i)
      <4>1. cur[i].part \in Partitions /\ cur[i] \in Message
        BY <3>2, <1>0, LoopType DEF HandleOk, CallHandlers
      <4>2. cur'[i].part = cur[i].part /\ cur'[i].msg = cur[i].msg
        BY <3>2, <4>1, <1>0 DEF HandleOk, TypeOK, Message
      <4>3. cur[i].msg \in handled'[cur[i].part]
        BY <3>2, <4>1, <1>0 DEF HandleOk, TypeOK
      <4> QED
        BY <4>2, <4>3
    <3>3. ASSUME NEW p \in Partitions, Fetch(i, p) PROVE FALSE
      <4>1. cur'[i].part = p /\ cur'[i].msg = pos[i][p] + 1 /\ log' = log
            /\ (log[p][pos[i][p] + 1] = "event" => cur'[i].stage = "handle")
        BY <3>3, <1>0 DEF Fetch, Take, TypeOK
      <4> QED
        BY <4>1
    <3> QED
      BY <3>1, <3>2, <3>3
  <2> QED
    BY <2>1, <2>2
<1>3. CommitsHandled'
  <2> SUFFICES ASSUME NEW p \in Partitions, committed'[p] > 0, log'[p][committed'[p]] = "event"
               PROVE  committed'[p] \in handled'[p]
    BY DEF CommitsHandled
  <2>1. CASE committed'[p] = committed[p]
    <3>1. committed[p] \in 1..Len(log[p])
      BY <2>1, <1>0 DEF TypeOK
    <3>2. Fine(p, committed[p])
      BY <3>1 DEF CommitInv, CommitsHandled
    <3> QED
      BY <2>1, <3>1, <3>2, <1>1
  <2>2. CASE committed'[p] # committed[p]
    <3>1. PICK i \in Instances : Commit(i) /\ cur[i].part = p /\ committed'[p] = cur[i].msg
      BY <1>0, <2>2 DEF TypeOK, Next, vars, Write, Publish, PublishMalformed, Start,
         Consume, CallHandlers, HandleOk, Fetch, HandleFail, Commit, CommitFault, Stop,
         Exit, Crash, Leave, Rebalance
    <3>2. cur[i].msg \in 1..Len(log[p]) /\ Fine(p, cur[i].msg)
      BY <3>1, <1>0, LoopType DEF Commit, CommitInv, LoopCommitsHandled
    <3> QED
      BY <3>1, <3>2, <1>1
  <2> QED
    BY <2>1, <2>2
<1> QED
  BY <1>0, <1>2, <1>3 DEF CommitInv

\* What was tried up to a message stays tried up to it.
LEMMA UpToStays ==
  ASSUME TypeOK, [Next]_vars, NEW p \in Partitions, NEW n \in 0..Len(log[p]),
         TriedUpTo(p, n)
  PROVE  \A m \in 1..n : log'[p][m] = "event" => m \in tried'[p]
  BY LogGrows DEF TriedUpTo

\* The handlers were called with a message ready for its commit and all before it.
LEMMA CommitReady ==
  ASSUME CommitInv, LoopInOrder, NEW i \in Instances, cur[i].stage = "commit"
  PROVE  TriedUpTo(cur[i].part, cur[i].msg)
<1>1. cur[i].msg \in Nat \ {0} /\ cur[i] # NoMessage
  BY LoopType DEF CommitInv
<1>2. TriedUpTo(cur[i].part, cur[i].msg - 1)
  BY <1>1 DEF LoopInOrder
<1>3. log[cur[i].part][cur[i].msg] = "event" => cur[i].msg \in tried[cur[i].part]
  <2>1. cur[i].part \in Partitions
    BY LoopType DEF CommitInv
  <2> QED
    BY <2>1 DEF CommitInv, LoopCommitsHandled, TypeOK
<1> QED
  BY <1>1, <1>2, <1>3 DEF TriedUpTo

\* A step that changes what a goroutine is busy with fetches, handles or lets go.
LEMMA LoopMoves ==
  ASSUME TypeOK, [Next]_vars, NEW i \in Instances
  PROVE  \/ cur'[i] = cur[i]
         \/ \E p \in Partitions : Fetch(i, p)
         \/ HandleOk(i)
         \/ cur'[i] = NoMessage
<1>1. \/ UNCHANGED cur
      \/ \E j \in Instances : \/ HandleOk(j) \/ \E p \in Partitions : Fetch(j, p)
                              \/ cur' = [cur EXCEPT ![j] = NoMessage]
  BY DEF Next, vars, Write, Publish, PublishMalformed, Start, Consume, HandleFail,
     Commit, CommitFault, Stop, Exit, Crash, Leave, Rebalance
<1>2. ASSUME NEW j \in Instances, j # i, HandleOk(j) \/ \E p \in Partitions : Fetch(j, p)
      PROVE  cur'[i] = cur[i]
  BY <1>2 DEF HandleOk, Fetch, Take, TypeOK
<1>3. ASSUME NEW j \in Instances, cur' = [cur EXCEPT ![j] = NoMessage]
      PROVE  cur'[i] \in {cur[i], NoMessage}
  BY <1>3 DEF TypeOK
<1> QED
  BY <1>1, <1>2, <1>3

\* A handled message goes on to its commit.
LEMMA HandlingMoves ==
  ASSUME TypeOK, NEW i \in Instances, HandleOk(i)
  PROVE  /\ cur[i] # NoMessage /\ cur'[i] # NoMessage
         /\ cur'[i].part = cur[i].part /\ cur'[i].msg = cur[i].msg
         /\ UNCHANGED pos
<1>1. cur[i] \in Message /\ cur[i] # NoMessage
  BY LoopType DEF HandleOk, CallHandlers
<1>2. cur'[i] = [cur[i] EXCEPT !.stage = "commit"]
  BY DEF HandleOk, TypeOK
<1>3. cur'[i].stage = "commit" /\ cur'[i].part = cur[i].part /\ cur'[i].msg = cur[i].msg
  BY <1>1, <1>2 DEF Message
<1> QED
  BY <1>1, <1>3 DEF NoMessage, HandleOk, CallHandlers

\* Between two generations an instance keeps its partitions and its readers'
\* positions, or leaves, or fetches.
LEMMA ReadersMove ==
  ASSUME TypeOK, [Next]_vars, ~Rebalance, NEW i \in Instances, NEW p \in Partitions,
         owner'[p] = i
  PROVE  owner[p] = i /\ (Fetch(i, p) \/ pos'[i][p] = pos[i][p])
<1>1. UNCHANGED owner \/ \E j \in Instances : Leave(j)
  BY DEF Next, vars, Write, Publish, PublishMalformed, Start, Consume, CallHandlers, HandleOk,
     Fetch, HandleFail, Commit, CommitFault, Stop, Exit, Crash
<1>2. UNCHANGED pos \/ \E j \in Instances, q \in Partitions : Fetch(j, q)
  BY DEF Next, vars, Write, Publish, PublishMalformed, Start, Consume, CallHandlers, HandleOk,
     HandleFail, Commit, CommitFault, Stop, Exit, Crash, Leave
<1>3. owner[p] = i
  BY <1>1, KafkaAssumption DEF Leave, TypeOK
<1>4. ASSUME NEW j \in Instances, NEW q \in Partitions, Fetch(j, q)
      PROVE  Fetch(i, p) \/ pos'[i][p] = pos[i][p]
  <2>1. CASE j = i /\ q = p
    BY <1>4, <2>1
  <2>2. CASE j # i
    BY <1>4, <2>2 DEF Fetch, Take, TypeOK
  <2>3. CASE j = i /\ q # p
    BY <1>4, <2>3 DEF Fetch, Take, TypeOK
  <2> QED
    BY <2>1, <2>2, <2>3
<1> QED
  BY <1>2, <1>3, <1>4

\* A goroutine lets go of a message only once its handlers were called, or when its
\* instance is gone.
LEMMA LettingGo ==
  ASSUME TypeOK, [Next]_vars, NEW i \in Instances, cur[i] # NoMessage,
         cur'[i] = NoMessage
  PROVE  \/ cur[i].stage = "commit" \/ cur[i].msg \in tried'[cur[i].part]
         \/ \A p \in Partitions : owner'[p] # i
<1>1. \/ UNCHANGED cur
      \/ \E j \in Instances : \/ HandleOk(j) \/ \E p \in Partitions : Fetch(j, p)
                              \/ HandleFail(j) \/ Commit(j) \/ CommitFault(j) \/ Leave(j)
  BY DEF Next, vars, Write, Publish, PublishMalformed, Start, Consume,
     Stop, Exit, Crash, Rebalance
<1>2. ASSUME NEW j \in Instances, HandleOk(j) PROVE FALSE
  <2>1. cur[j].part \in Partitions /\ cur[j] \in Message
    BY <1>2, LoopType DEF HandleOk, CallHandlers
  <2>2. cur'[j].stage = "commit" /\ (j # i => cur'[i] = cur[i])
    BY <1>2, <2>1 DEF HandleOk, TypeOK, Message
  <2> QED
    BY <2>2 DEF NoMessage
<1>3. ASSUME NEW j \in Instances, NEW p \in Partitions, Fetch(j, p) PROVE FALSE
  <2>1. cur'[j].part = p /\ cur'[j].stage # "none" /\ (j # i => cur'[i] = cur[i])
    BY <1>3 DEF Fetch, Take, TypeOK
  <2> QED
    BY <2>1 DEF NoMessage
<1>4. ASSUME NEW j \in Instances, Commit(j) \/ CommitFault(j) PROVE cur[i].stage = "commit"
  BY <1>4 DEF Commit, CommitFault, TypeOK
<1>5. ASSUME NEW j \in Instances, Leave(j) PROVE \A p \in Partitions : owner'[p] # i
  <2>1. j = i
    BY <1>5 DEF Leave, TypeOK
  <2> QED
    BY <1>5, <2>1, KafkaAssumption DEF Leave, TypeOK
<1>6. ASSUME NEW j \in Instances, HandleFail(j) PROVE cur[i].msg \in tried'[cur[i].part]
  <2>1. j = i
    BY <1>6 DEF HandleFail, TypeOK
  <2> QED
    BY <1>6, <2>1, CallType DEF HandleFail
<1> QED
  BY <1>1, <1>2, <1>3, <1>4, <1>5, <1>6

\* The order invariant holds at the start: nothing fetched, nothing tried.
LEMMA InitOrder == Init => OrderInv
  BY KafkaAssumption
     DEF Init, OrderInv, CommittedTried, TriedInOrder, LoopInOrder, ReadersInOrder,
         TriedUpTo, NoMessage

\* Every step preserves the order in which the events of a partition reach the handlers
\* and are committed.
LEMMA StepOrder ==
  CommitInv /\ OrderInv /\ [Next]_vars => OrderInv'
<1> SUFFICES ASSUME CommitInv, OrderInv, [Next]_vars PROVE OrderInv'
  OBVIOUS
<1>0. TypeOK /\ TypeOK'
  BY StepType DEF CommitInv
<1> USE DEF OrderInv
<1>1. CommittedTried'
  <2> SUFFICES ASSUME NEW p \in Partitions PROVE TriedUpTo(p, committed[p])'
    BY DEF CommittedTried
  <2>1. CASE committed'[p] = committed[p]
    <3>1. committed[p] \in 0..Len(log[p]) /\ TriedUpTo(p, committed[p])
      BY <1>0 DEF TypeOK, CommittedTried
    <3> QED
      BY <2>1, <3>1, <1>0, UpToStays DEF TriedUpTo
  <2>2. CASE committed'[p] # committed[p]
    <3>1. PICK i \in Instances : Commit(i) /\ cur[i].part = p /\ committed'[p] = cur[i].msg
      BY <1>0, <2>2 DEF TypeOK, Next, vars, Write, Publish, PublishMalformed, Start,
         Consume, CallHandlers, HandleOk, Fetch, HandleFail, Commit, CommitFault, Stop,
         Exit, Crash, Leave, Rebalance
    <3>2. cur[i].msg \in 0..Len(log[p]) /\ TriedUpTo(p, cur[i].msg)
      BY <3>1, <1>0, LoopType, CommitReady DEF Commit
    <3> QED
      BY <3>1, <3>2, <1>0, UpToStays DEF TriedUpTo
  <2> QED
    BY <2>1, <2>2
<1>2. TriedInOrder'
  <2> SUFFICES ASSUME NEW p \in Partitions, NEW n \in tried'[p]
               PROVE  TriedUpTo(p, n)'
    BY DEF TriedInOrder
  <2>1. CASE n \in tried[p]
    <3>1. n \in 0..Len(log[p]) /\ TriedUpTo(p, n)
      BY <2>1, <1>0 DEF TypeOK, TriedInOrder
    <3> QED
      BY <3>1, <1>0, UpToStays DEF TriedUpTo
  <2>2. CASE n \notin tried[p]
    <3>0. UNCHANGED tried \/ \E j \in Instances : CallHandlers(j)
      BY DEF Next, vars, Write, Publish, PublishMalformed, Start, Consume, Fetch, HandleOk,
         HandleFail, Commit, CommitFault, Stop, Exit, Crash, Leave, Rebalance
    <3>1. PICK i \in Instances : CallHandlers(i) /\ cur[i].part = p /\ cur[i].msg = n
      <4>1. PICK i \in Instances : CallHandlers(i)
        BY <3>0, <2>2
      <4>2. cur[i].part \in Partitions
        BY <4>1, <1>0, LoopType DEF CallHandlers
      <4>3. tried' = [tried EXCEPT ![cur[i].part] = @ \union {cur[i].msg}]
        BY <4>1 DEF CallHandlers
      <4>4. cur[i].part = p /\ cur[i].msg = n
        BY <4>2, <4>3, <2>2, <1>0 DEF TypeOK
      <4> QED
        BY <4>1, <4>4
    <3>2. n \in Nat \ {0} /\ n <= Len(log[p]) /\ cur[i] # NoMessage
      BY <3>1, <1>0, LoopType DEF CallHandlers
    <3>3. n - 1 \in 0..Len(log[p]) /\ TriedUpTo(p, n - 1)
      BY <3>1, <3>2, <1>0 DEF LoopInOrder, TypeOK
    <3> QED
      BY <3>2, <3>3, <1>0, UpToStays DEF TriedUpTo
  <2> QED
    BY <2>1, <2>2
<1>3. LoopInOrder'
  <2> SUFFICES ASSUME NEW i \in Instances, cur'[i] # NoMessage
               PROVE  TriedUpTo(cur[i].part, cur[i].msg - 1)'
    BY DEF LoopInOrder
  <2>1. ASSUME NEW p \in Partitions, Fetch(i, p) PROVE TriedUpTo(cur[i].part, cur[i].msg - 1)'
    <3>1. pos[i][p] \in 0..Len(log[p]) /\ TriedUpTo(p, pos[i][p])
      BY <2>1, <1>0 DEF Fetch, TypeOK, ReadersInOrder
    <3>2. cur'[i].part = p /\ cur'[i].msg = pos[i][p] + 1
      BY <2>1, <1>0 DEF Fetch, Take, TypeOK
    <3>3. cur'[i].msg - 1 = pos[i][p]
      BY <3>1, <3>2
    <3> QED
      BY <3>1, <3>2, <3>3, <1>0, UpToStays DEF TriedUpTo
  <2>2. ASSUME cur[i] # NoMessage, cur'[i].part = cur[i].part, cur'[i].msg = cur[i].msg
        PROVE  TriedUpTo(cur[i].part, cur[i].msg - 1)'
    <3>1. cur[i].part \in Partitions /\ cur[i].msg - 1 \in 0..Len(log[cur[i].part])
      BY <2>2, <1>0 DEF TypeOK, Message
    <3>2. TriedUpTo(cur[i].part, cur[i].msg - 1)
      BY <2>2 DEF LoopInOrder
    <3> QED
      BY <2>2, <3>1, <3>2, <1>0, UpToStays DEF TriedUpTo
  <2>3. ASSUME HandleOk(i)
        PROVE  cur[i] # NoMessage /\ cur'[i].part = cur[i].part /\ cur'[i].msg = cur[i].msg
    BY <2>3, <1>0, HandlingMoves
  <2> QED
    BY <2>1, <2>2, <2>3, <1>0, LoopMoves
<1>4. ReadersInOrder'
  <2> SUFFICES ASSUME NEW i \in Instances, NEW p \in Partitions, owner'[p] = i,
                      ~(cur'[i] # NoMessage /\ cur'[i].part = p /\ cur'[i].msg = pos'[i][p])
               PROVE  TriedUpTo(p, pos[i][p])'
    BY DEF ReadersInOrder
  <2>1. CASE Rebalance
    <3>1. pos'[i][p] = committed[p]
      BY <2>1, <1>0 DEF Rebalance, TypeOK
    <3>2. committed[p] \in 0..Len(log[p]) /\ TriedUpTo(p, committed[p])
      BY <1>0 DEF TypeOK, CommittedTried
    <3> QED
      BY <3>1, <3>2, <1>0, UpToStays DEF TriedUpTo
  <2>2. CASE ~Rebalance
    <3>1. owner[p] = i
      BY <2>2, <1>0, ReadersMove
    <3>2. ~Fetch(i, p)
      BY <1>0 DEF Fetch, Take, TypeOK, NoMessage
    <3>3. pos'[i][p] = pos[i][p]
      BY <2>2, <3>2, <1>0, ReadersMove
    <3>4. pos[i][p] \in 0..Len(log[p])
      BY <1>0 DEF TypeOK
    <3>5. CASE cur[i] # NoMessage /\ cur[i].part = p /\ cur[i].msg = pos[i][p]
      <4>1. ~HandleOk(i)
        BY <3>5, <3>3, <1>0, HandlingMoves
      <4>2. \A q \in Partitions : ~Fetch(i, q)
        BY <3>5 DEF Fetch
      <4>3. cur'[i] = NoMessage
        BY <4>1, <4>2, <3>5, <3>3, <1>0, LoopMoves
      <4>4. cur[i].stage = "commit" \/ pos[i][p] \in tried'[p]
        BY <4>3, <3>5, <1>0, LettingGo
      <4>5. CASE cur[i].stage = "commit"
        <5>1. TriedUpTo(p, pos[i][p])
          BY <4>5, <3>5, CommitReady
        <5> QED
          BY <5>1, <3>3, <3>4, <1>0, UpToStays DEF TriedUpTo
      <4>6. CASE pos[i][p] \in tried'[p]
        <5>1. pos[i][p] - 1 \in 0..Len(log[p]) /\ TriedUpTo(p, pos[i][p] - 1)
          BY <3>4, <3>5, <1>0 DEF LoopInOrder, TypeOK, Message
        <5> QED
          BY <5>1, <4>6, <3>3, <3>4, <1>0, UpToStays DEF TriedUpTo
      <4> QED
        BY <4>4, <4>5, <4>6
    <3>6. CASE ~(cur[i] # NoMessage /\ cur[i].part = p /\ cur[i].msg = pos[i][p])
      <4>1. TriedUpTo(p, pos[i][p])
        BY <3>6, <3>1 DEF ReadersInOrder
      <4> QED
        BY <4>1, <3>3, <3>4, <1>0, UpToStays DEF TriedUpTo
    <3> QED
      BY <3>5, <3>6
  <2> QED
    BY <2>1, <2>2
<1> QED
  BY <1>1, <1>2, <1>3, <1>4

\* The invariant about types and commits holds in every reachable state.
LEMMA CommitInductive == Spec => []CommitInv
  BY InitCommit, StepCommit, PTL DEF Spec

\* Every variable of the Kafka bus keeps its type, whether or not handlers fail.
THEOREM KafkaTypeCorrect == Spec => []TypeOK
<1>1. CommitInv => TypeOK
  BY DEF CommitInv
<1> QED
  BY <1>1, CommitInductive, PTL

\* The message a commit names was handled, whether or not handlers fail.
THEOREM CommitsCorrect == Spec => []CommitsHandled
<1>1. CommitInv => CommitsHandled
  BY DEF CommitInv
<1> QED
  BY <1>1, CommitInductive, PTL

\* The invariant about order holds in every reachable state.
LEMMA OrderInductive == Spec => []OrderInv
<1>1. CommitInv /\ OrderInv /\ [Next]_vars => OrderInv'
  BY StepOrder
<1> QED
  BY <1>1, InitOrder, CommitInductive, PTL DEF Spec

\* The inductive invariant of the bus holds in every reachable state.
THEOREM KafkaInductive == Spec => []IndInv
  BY CommitInductive, OrderInductive, PTL DEF IndInv

\* Everything the group will not read again was given to its handlers.
THEOREM DeliveryCorrect == Spec => []CommittedTried
<1>1. OrderInv => CommittedTried
  BY DEF OrderInv
<1> QED
  BY <1>1, OrderInductive, PTL

\* The events of a partition first reach the handlers in their order.
THEOREM OrderCorrect == Spec => []TriedInOrder
<1>1. OrderInv => TriedInOrder
  BY DEF OrderInv
<1> QED
  BY <1>1, OrderInductive, PTL

\* While no handler fails, what was tried was handled.
LEMMA TriedHandled == ASSUME ~HandlersFail PROVE Spec => [](tried = handled)
<1>1. Init => tried = handled
  BY DEF Init
<1>2. tried = handled /\ [Next]_vars => (tried = handled)'
  <2>1. [Next]_vars => UNCHANGED << tried, handled >> \/ \E i \in Instances : HandleOk(i)
    BY DEF Next, vars, Write, Publish, PublishMalformed, Start, Consume, Fetch,
       HandleFail, Commit, CommitFault, Stop, Exit, Crash, Leave, Rebalance
  <2>2. ASSUME tried = handled, NEW i \in Instances, HandleOk(i) PROVE (tried = handled)'
    BY <2>2 DEF HandleOk, CallHandlers
  <2> QED
    BY <2>1, <2>2
<1> QED
  BY <1>1, <1>2, PTL DEF Spec

\* While no handler fails, every handler succeeded on everything the group will not
\* read again.
THEOREM AtLeastOnceCorrect == ASSUME ~HandlersFail PROVE Spec => []AtLeastOnce
<1>1. OrderInv /\ tried = handled => AtLeastOnce
  BY DEF OrderInv, CommittedTried, TriedUpTo, AtLeastOnce
<1> QED
  BY <1>1, OrderInductive, TriedHandled, PTL
=============================================================================
