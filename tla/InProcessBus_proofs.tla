------------------------- MODULE InProcessBus_proofs -------------------------
(***************************************************************************)
(* Proofs about InProcessBus, for any publishers, topics, subscriptions    *)
(* and channel capacity.                                                   *)
(***************************************************************************)
EXTENDS InProcessBus, TLAPS

\* A subscribed handler belongs to the topic it is subscribed to, at one place.
LEMMA SubscriberTopic ==
  ASSUME NEW t \in Topics, NEW j \in DOMAIN Subscribers[t]
  PROVE  Subscribers[t][j] \in Handlers /\ TopicOf[Subscribers[t][j]] = t
<1> DEFINE h == Subscribers[t][j]
<1>1. h \in Range(Subscribers[t])
  BY DEF Range
<1>2. h \in Handlers
  BY <1>1 DEF Handlers
<1>3. \A u \in Topics : h \in Range(Subscribers[u]) => u = t
  BY BusAssumption DEF Range
<1> QED
  BY <1>1, <1>2, <1>3 DEF TopicOf

\* Two places in the subscriptions of a topic hold different handlers.
LEMMA SubscribersDiffer ==
  ASSUME NEW t \in Topics, NEW j \in DOMAIN Subscribers[t], NEW k \in DOMAIN Subscribers[t],
         Subscribers[t][j] = Subscribers[t][k]
  PROVE  j = k
  BY BusAssumption

\* Every handler is subscribed to its topic.
LEMMA HandlerSubscribed ==
  ASSUME NEW h \in Handlers
  PROVE  TopicOf[h] \in Topics /\ \E j \in DOMAIN Subscribers[TopicOf[h]] :
                                    Subscribers[TopicOf[h]][j] = h
<1>1. PICK t \in Topics : h \in Range(Subscribers[t])
  BY DEF Handlers
<1>2. TopicOf[h] \in Topics /\ h \in Range(Subscribers[TopicOf[h]])
  BY <1>1 DEF TopicOf
<1> QED
  BY <1>2 DEF Range

\* The inductive invariant holds at the start: an empty, open channel.
LEMMA InitInv == Init => IndInv
<1> SUFFICES ASSUME Init PROVE IndInv
  OBVIOUS
<1>1. TypeOK
  <2>1. accepted = << >> /\ queue = << >> /\ current = 0 /\ next = 1
    BY DEF Init
  <2>2. Len(accepted) = 0 /\ Len(queue) = 0 /\ queue \in Seq(1..Len(accepted))
    BY <2>1
  <2>3. /\ accepted \in Seq(Topics)
        /\ queue \in Seq(1..Len(accepted)) /\ Len(queue) <= Capacity
        /\ current \in 0..Len(accepted) /\ next \in Nat \ {0}
    BY <2>1, <2>2, BusAssumption
  <2>4. arrived \in 0..MaxRequests
    BY BusAssumption DEF Init
  <2>5. /\ at \in [Handlers -> Nat]
        /\ pub \in [Publishers -> {"idle", "working", "panicked"}]
    BY DEF Init
  <2> QED
    BY <2>3, <2>4, <2>5 DEF Init, TypeOK
<1>2. QueueInOrder /\ HandlersCalled /\ CallsInOrder
  BY DEF Init, QueueInOrder, HandlersCalled, CallsInOrder, Taken
<1>3. ClosedLast /\ CleanShutdownSafe
  BY DEF Init, ClosedLast, CleanShutdownSafe
<1> QED
  BY <1>1, <1>2, <1>3 DEF IndInv

\* Every step preserves the type invariant.
LEMMA StepType == TypeOK /\ [Next]_vars => TypeOK'
<1> USE BusAssumption
<1> SUFFICES ASSUME TypeOK, [Next]_vars PROVE TypeOK'
  OBVIOUS
<1>1. ASSUME NEW p \in Publishers, Arrive(p) PROVE TypeOK'
  BY <1>1 DEF Arrive, TypeOK
<1>2. ASSUME NEW p \in Publishers, NEW t \in Topics, Publish(p, t) PROVE TypeOK'
  <2>1. CASE Len(queue) < Capacity
    <3>1. /\ accepted' = Append(accepted, t)
          /\ queue' = Append(queue, Len(accepted) + 1)
      BY <1>2, <2>1 DEF Publish, Send, Enqueue
    <3>2. /\ accepted' \in Seq(Topics) /\ Len(accepted') = Len(accepted) + 1
          /\ Len(accepted) \in Nat
      BY <3>1 DEF TypeOK
    <3>3. queue \in Seq(1..Len(accepted')) /\ Len(accepted) + 1 \in 1..Len(accepted')
      BY <3>2 DEF TypeOK
    <3>4. queue' \in Seq(1..Len(accepted')) /\ Len(queue') = Len(queue) + 1
      BY <3>1, <3>3
    <3> QED
      BY <1>2, <2>1, <3>2, <3>4 DEF Publish, TypeOK
  <2>2. CASE ~(Len(queue) < Capacity)
    BY <1>2, <2>2 DEF Publish, Send, TypeOK
  <2> QED
    BY <2>1, <2>2
<1>3. ASSUME NEW p \in Publishers, PublishClosed(p) \/ Fail(p) PROVE TypeOK'
  BY <1>3 DEF PublishClosed, Fail, TypeOK
<1>4. CASE Receive
  <2>1. Head(queue) \in 1..Len(accepted)
    BY <1>4 DEF Receive, TypeOK
  <2>2. Tail(queue) \in Seq(1..Len(accepted)) /\ Len(Tail(queue)) <= Len(queue)
    BY <1>4 DEF Receive, TypeOK
  <2> QED
    BY <1>4, <2>1, <2>2 DEF Receive, TypeOK
<1>5. CASE CallHandler
  <2> DEFINE hs == Subscribers[accepted[current]]
  <2>1. accepted[current] \in Topics /\ current \in Nat
    BY <1>5 DEF CallHandler, TypeOK
  <2>2. next \in DOMAIN hs /\ next + 1 \in Nat \ {0}
    BY <1>5, <2>1 DEF CallHandler, TypeOK
  <2>3. hs[next] \in Handlers
    BY <2>1, <2>2, SubscriberTopic
  <2> QED
    BY <1>5, <2>1, <2>2, <2>3 DEF CallHandler, TypeOK
<1>6. CASE Finish \/ Return
  <2>1. Len(accepted) \in Nat
    BY DEF TypeOK
  <2>2. /\ current' \in {0, current} /\ disp' \in {disp, "done"}
        /\ UNCHANGED << accepted, queue, closed, next, at, server, pub, how, arrived >>
    BY <1>6 DEF Finish, Return
  <2> QED
    BY <2>1, <2>2 DEF TypeOK
<1>7. CASE Shutdown \/ CloseTimedOut \/ CloseFailed \/ Closing
  BY <1>7 DEF Shutdown, CloseTimedOut, CloseFailed, Closing, CloseDrained, Close, Exit, TypeOK
<1>8. CASE UNCHANGED vars
  BY <1>8 DEF vars, TypeOK
<1> QED
  BY <1>1, <1>2, <1>3, <1>4, <1>5, <1>6, <1>7, <1>8 DEF Next, RequestStep, Dispatch

\* Every step preserves the order of shutdown.
LEMMA StepClosed ==
  TypeOK /\ ClosedLast /\ CleanShutdownSafe /\ [Next]_vars => ClosedLast' /\ CleanShutdownSafe'
<1> SUFFICES ASSUME TypeOK, ClosedLast, CleanShutdownSafe, [Next]_vars
             PROVE  ClosedLast' /\ CleanShutdownSafe'
  OBVIOUS
<1>t. pub \in [Publishers -> {"idle", "working", "panicked"}]
  BY DEF TypeOK
<1> USE DEF ClosedLast, CleanShutdownSafe
<1>1. ASSUME NEW p \in Publishers, Arrive(p) \/ PublishClosed(p) \/ Fail(p)
      PROVE  ClosedLast' /\ CleanShutdownSafe'
  <2>1. UNCHANGED << closed, queue, current, disp, server, how >>
    BY <1>1 DEF Arrive, PublishClosed, Fail
  <2>2. how # "clean"
    BY <1>1 DEF Arrive, PublishClosed, Fail
  <2>3. \A q \in Publishers : pub'[q] = "panicked" => pub[q] = "panicked" \/ closed
    BY <1>1, <1>t DEF Arrive, PublishClosed, Fail
  <2> QED
    BY <2>1, <2>2, <2>3
<1>2. ASSUME NEW p \in Publishers, NEW t \in Topics, Publish(p, t)
      PROVE  ClosedLast' /\ CleanShutdownSafe'
  BY <1>2 DEF Publish
<1>3. CASE Dispatch
  BY <1>3 DEF Dispatch, Receive, CallHandler, Finish, Return
<1>4. CASE Shutdown \/ CloseTimedOut \/ CloseFailed \/ Closing
  <2>1. CASE Shutdown
    BY <2>1 DEF Shutdown
  <2>2. CASE CloseTimedOut \/ CloseFailed
    BY <2>2 DEF CloseTimedOut, CloseFailed, Close
  <2>3. CASE CloseDrained
    <3>1. CleanShutdownSafe'
      <4>1. ASSUME NEW p \in Publishers PROVE pub[p] = "idle"
        BY <1>t, <2>3 DEF CloseDrained
      <4> QED
        BY <2>3, <4>1 DEF CloseDrained, Close
    <3>2. ClosedLast'
      BY <2>3 DEF CloseDrained, Close
    <3> QED
      BY <3>1, <3>2
  <2>4. CASE Exit
    BY <2>4 DEF Exit
  <2> QED
    BY <1>4, <2>1, <2>2, <2>3, <2>4 DEF Closing
<1>5. CASE UNCHANGED vars
  BY <1>5 DEF vars
<1> QED
  BY <1>1, <1>2, <1>3, <1>4, <1>5 DEF Next, RequestStep

\* Every step preserves the order of the channel and of the handlers' calls.
LEMMA StepOrder ==
  IndInv /\ [Next]_vars => QueueInOrder' /\ HandlersCalled' /\ CallsInOrder'
<1> USE BusAssumption
<1> SUFFICES ASSUME IndInv, [Next]_vars
             PROVE  QueueInOrder' /\ HandlersCalled' /\ CallsInOrder'
  OBVIOUS
<1>t. /\ accepted \in Seq(Topics) /\ queue \in Seq(1..Len(accepted))
      /\ Len(accepted) \in Nat /\ Len(queue) \in Nat
      /\ current \in 0..Len(accepted) /\ next \in Nat \ {0}
      /\ at \in [Handlers -> Nat]
  BY DEF IndInv, TypeOK
<1>i. QueueInOrder /\ HandlersCalled /\ CallsInOrder
  BY DEF IndInv
<1>q. /\ DOMAIN queue = 1..Len(queue)
      /\ \A j \in 1..Len(queue) : queue[j] = Taken + j
  BY <1>t, <1>i DEF QueueInOrder
<1>1. ASSUME UNCHANGED << accepted, queue, current, next, at >>
      PROVE  QueueInOrder' /\ HandlersCalled' /\ CallsInOrder'
  BY <1>1, <1>i DEF QueueInOrder, HandlersCalled, CallsInOrder, Taken
<1>2. ASSUME NEW p \in Publishers, NEW t \in Topics, Publish(p, t)
      PROVE  QueueInOrder' /\ HandlersCalled' /\ CallsInOrder'
  <2>1. CASE Len(queue) < Capacity
    <3>1. /\ accepted' = Append(accepted, t)
          /\ queue' = Append(queue, Len(accepted) + 1)
          /\ UNCHANGED << current, next, at >>
      BY <1>2, <2>1 DEF Publish, Send, Enqueue
    <3>2. /\ Len(accepted') = Len(accepted) + 1 /\ Len(queue') = Len(queue) + 1
          /\ \A n \in 1..Len(accepted) : accepted'[n] = accepted[n]
          /\ \A j \in 1..Len(queue) : queue'[j] = queue[j]
          /\ queue'[Len(queue) + 1] = Len(accepted) + 1
      BY <3>1, <1>t
    <3>3. Taken' = Taken /\ Taken \in 0..Len(accepted)
      BY <3>2, <1>t, <1>i DEF Taken, QueueInOrder
    <3>4. QueueInOrder'
      <4>1. ASSUME NEW j \in DOMAIN queue' PROVE queue'[j] = Taken' + j
        <5>1. j \in 1..Len(queue) + 1
          <6>1. queue' \in Seq(1..Len(accepted) + 1)
            <7>1. queue \in Seq(1..Len(accepted) + 1)
              BY <1>t
            <7> QED
              BY <7>1, <3>1, <1>t
          <6>2. DOMAIN queue' = 1..Len(queue')
            BY <6>1
          <6> QED
            BY <6>2, <3>2
        <5>2. CASE j = Len(queue) + 1
          BY <5>2, <3>2, <3>3, <1>t DEF Taken
        <5>3. CASE j \in 1..Len(queue)
          BY <5>3, <3>2, <3>3, <1>q
        <5>4. j \in 1..Len(queue) \/ j = Len(queue) + 1
          BY <5>1, <1>t
        <5> QED
          BY <5>2, <5>3, <5>4
      <4>2. Len(queue') <= Len(accepted')
        <5>1. Len(queue) <= Len(accepted)
          BY <1>i DEF QueueInOrder
        <5> QED
          BY <5>1, <3>2, <1>t
      <4> QED
        BY <4>1, <4>2 DEF QueueInOrder
    <3>5. HandlersCalled'
      <4>1. ASSUME NEW n \in 1..Taken PROVE accepted'[n] = accepted[n]
        <5>1. n \in 1..Len(accepted)
          BY <3>3, <1>t
        <5> QED
          BY <5>1, <3>2
      <4> QED
        BY <4>1, <3>1, <3>3, <1>i DEF HandlersCalled
    <3>6. CallsInOrder'
      <4>1. current # 0 => accepted'[current] = accepted[current]
        BY <3>2, <1>t
      <4> QED
        BY <4>1, <3>1, <1>i DEF CallsInOrder
    <3> QED
      BY <3>4, <3>5, <3>6
  <2>2. CASE ~(Len(queue) < Capacity)
    BY <1>1, <1>2, <2>2 DEF Publish, Send
  <2> QED
    BY <2>1, <2>2
<1>3. CASE Receive
  <2>1. /\ queue # << >> /\ current = 0 /\ current' = Head(queue) /\ queue' = Tail(queue)
        /\ next' = 1 /\ UNCHANGED << accepted, at >>
    BY <1>3 DEF Receive
  <2>2. /\ Len(queue) > 0 /\ Len(queue') = Len(queue) - 1
        /\ \A j \in 1..Len(queue') : queue'[j] = queue[j + 1]
        /\ queue[1] = Head(queue)
    BY <2>1, <1>t
  <2>3. Taken' = Taken + 1 /\ Taken \in Nat /\ current' = Taken + 1
    <3>1. queue[1] = Taken + 1
      BY <2>2, <1>t, <1>q
    <3> QED
      BY <3>1, <2>1, <2>2, <1>t, <1>i DEF Taken, QueueInOrder
  <2>4. QueueInOrder'
    <3>1. ASSUME NEW j \in DOMAIN queue' PROVE queue'[j] = Taken' + j
      <4>1. j \in 1..Len(queue') /\ j + 1 \in 1..Len(queue)
        BY <2>1, <2>2, <1>t
      <4>2. queue[j + 1] = Taken + (j + 1)
        BY <4>1, <1>t, <1>i DEF QueueInOrder
      <4> QED
        BY <4>1, <4>2, <2>2, <2>3
    <3> QED
      BY <3>1, <2>1, <2>2, <1>t, <1>i DEF QueueInOrder
  <2>5. \A h \in Handlers : at[h] \in Nat /\ at[h] <= Taken
    BY <1>t, <1>i DEF HandlersCalled
  <2>6. HandlersCalled'
    <3>1. \A n \in 1..Taken + 1 : n # Taken + 1 => n \in 1..Taken /\ n # 0
      BY <2>3
    <3>2. \A h \in Handlers : at[h] <= Taken + 1
      BY <2>3, <2>5
    <3> QED
      BY <3>1, <3>2, <2>1, <2>3, <1>i DEF HandlersCalled
  <2>7. CallsInOrder'
    <3>1. accepted[current'] \in Topics
      <4>1. current' \in 1..Len(accepted)
        BY <2>1, <2>2, <1>t
      <4> QED
        BY <4>1, <1>t
    <3>2. ASSUME NEW j \in DOMAIN Subscribers[accepted[current']]
          PROVE  /\ at[Subscribers[accepted[current']][j]] < current'
                 /\ ~(j < 1)
      <4>1. Subscribers[accepted[current']][j] \in Handlers
        BY <3>1, SubscriberTopic
      <4>2. j \in 1..Len(Subscribers[accepted[current']])
        BY <3>1
      <4> QED
        BY <4>1, <4>2, <2>3, <2>5
    <3> QED
      BY <3>2, <2>1 DEF CallsInOrder
  <2> QED
    BY <2>4, <2>6, <2>7
<1>4. CASE CallHandler
  <2> DEFINE hs == Subscribers[accepted[current]]
             g == hs[next]
  <2>1. /\ current # 0 /\ next <= Len(hs) /\ at' = [at EXCEPT ![g] = current]
        /\ next' = next + 1 /\ UNCHANGED << accepted, queue, current >>
    BY <1>4 DEF CallHandler
  <2>2. accepted[current] \in Topics /\ current = Taken /\ current \in Nat
    BY <2>1, <1>t, <1>i DEF HandlersCalled
  <2>3. next \in DOMAIN hs
    BY <2>1, <2>2, <1>t
  <2>4. g \in Handlers
    BY <2>2, <2>3, SubscriberTopic
  <2>5. /\ at'[g] = current
        /\ \A h \in Handlers : h # g => at'[h] = at[h]
    BY <2>1, <2>4, <1>t
  <2>6. QueueInOrder' /\ Taken' = Taken
    BY <2>1, <1>i DEF QueueInOrder, Taken
  <2>7. HandlersCalled'
    <3>1. ASSUME NEW h \in Handlers
          PROVE  /\ at'[h] <= Taken
                 /\ \A n \in 1..Taken : n # current /\ accepted[n] = TopicOf[h] => at'[h] >= n
      <4>1. CASE h = g
        BY <4>1, <2>2, <2>5
      <4>2. CASE h # g
        BY <4>2, <2>5, <1>i DEF HandlersCalled
      <4> QED
        BY <4>1, <4>2
    <3> QED
      BY <3>1, <2>1, <2>2, <2>6 DEF HandlersCalled
  <2>8. CallsInOrder'
    <3>1. ASSUME NEW j \in DOMAIN hs
          PROVE  IF j < next + 1 THEN at'[hs[j]] = current ELSE at'[hs[j]] < current
      <4>1. CASE j = next
        BY <4>1, <2>5, <1>t
      <4>2. CASE j # next
        <5>1. hs[j] # g
          BY <4>2, <2>2, <2>3, SubscribersDiffer
        <5>2. hs[j] \in Handlers
          BY <2>2, SubscriberTopic
        <5>3. at'[hs[j]] = at[hs[j]]
          BY <5>1, <5>2, <2>5
        <5>4. IF j < next THEN at[hs[j]] = current ELSE at[hs[j]] < current
          BY <2>1, <1>i DEF CallsInOrder
        <5>5. j \in Nat /\ (j < next + 1 <=> j < next)
          BY <4>2, <2>2, <1>t
        <5> QED
          BY <5>3, <5>4, <5>5
      <4> QED
        BY <4>1, <4>2
    <3> QED
      BY <3>1, <2>1 DEF CallsInOrder
  <2> QED
    BY <2>6, <2>7, <2>8
<1>5. CASE Finish
  <2>1. /\ current # 0 /\ next > Len(Subscribers[accepted[current]])
        /\ current' = 0 /\ UNCHANGED << accepted, queue, next, at >>
    BY <1>5 DEF Finish
  <2>2. Taken' = Taken /\ QueueInOrder'
    BY <2>1, <1>i DEF QueueInOrder, Taken
  <2>3. ASSUME NEW h \in Handlers, accepted[current] = TopicOf[h] PROVE at[h] = current
    <3>1. PICK j \in DOMAIN Subscribers[TopicOf[h]] : Subscribers[TopicOf[h]][j] = h
      BY HandlerSubscribed
    <3>2. TopicOf[h] \in Topics
      BY HandlerSubscribed
    <3>3. j < next
      BY <3>1, <3>2, <2>1, <2>3, <1>t
    <3> QED
      BY <3>1, <3>3, <2>1, <2>3, <1>i DEF CallsInOrder
  <2>4. HandlersCalled'
    <3>1. ASSUME NEW h \in Handlers, NEW n \in 1..Taken, accepted[n] = TopicOf[h]
          PROVE  at[h] >= n
      <4>1. CASE n = current
        BY <4>1, <3>1, <2>3
      <4>2. CASE n # current
        BY <4>2, <3>1, <1>i DEF HandlersCalled
      <4> QED
        BY <4>1, <4>2
    <3> QED
      BY <3>1, <2>1, <2>2, <1>i DEF HandlersCalled
  <2> QED
    BY <2>1, <2>2, <2>4 DEF CallsInOrder
<1>6. CASE Return \/ Shutdown \/ CloseTimedOut \/ CloseFailed \/ Closing \/ UNCHANGED vars
  BY <1>1, <1>6 DEF Return, Shutdown, CloseTimedOut, CloseFailed, Closing, CloseDrained, Close,
                    Exit, vars
<1>7. ASSUME NEW p \in Publishers, Arrive(p) \/ PublishClosed(p) \/ Fail(p)
      PROVE  QueueInOrder' /\ HandlersCalled' /\ CallsInOrder'
  BY <1>1, <1>7 DEF Arrive, PublishClosed, Fail
<1> QED
  BY <1>2, <1>3, <1>4, <1>5, <1>6, <1>7 DEF Next, RequestStep, Dispatch

-----------------------------------------------------------------------------
\* The inductive invariant holds in every reachable state.
THEOREM BusInductive == Spec => []IndInv
<1>1. IndInv /\ [Next]_vars => IndInv'
  BY StepType, StepClosed, StepOrder DEF IndInv
<1> QED
  BY InitInv, <1>1, PTL DEF Spec

\* Every variable of the bus and its server keeps its type; the channel never holds
\* more than its capacity.
THEOREM BusTypeCorrect == Spec => []TypeOK
<1>1. IndInv => TypeOK
  BY DEF IndInv
<1> QED
  BY BusInductive, <1>1, PTL

\* No request panics on the closed channel when main has waited for the requests.
THEOREM CleanShutdownCorrect == Spec => []CleanShutdownSafe
<1>1. IndInv => CleanShutdownSafe
  BY DEF IndInv
<1> QED
  BY BusInductive, <1>1, PTL

\* The process exits only after every accepted event has reached all its handlers.
THEOREM DrainCorrect == Spec => []CloseDrains
<1>1. IndInv => CloseDrains
  <2> SUFFICES ASSUME IndInv, server = "exited",
                      NEW n \in DOMAIN accepted, NEW h \in Handlers, accepted[n] = TopicOf[h]
               PROVE  at[h] >= n
    BY DEF CloseDrains
  <2>1. queue = << >> /\ current = 0
    BY DEF IndInv, ClosedLast
  <2>2. n \in 1..Taken /\ n # current
    BY <2>1 DEF IndInv, TypeOK, Taken
  <2> QED
    BY <2>2 DEF IndInv, HandlersCalled
<1> QED
  BY BusInductive, <1>1, PTL

\* The bus implements the ordered feed: the channel gives events their place, and a
\* handler is called for the next event of its topic.
THEOREM FeedCorrect == Spec => ImplementsFeed
<1>1. Init => Feed!FeedInit
  BY DEF Init, Feed!FeedInit
<1>2. IndInv /\ [Next]_vars => [Feed!FeedNext]_(Feed!feed)
  <2> USE BusAssumption
  <2> SUFFICES ASSUME IndInv, [Next]_vars, ~UNCHANGED << accepted, at >>
               PROVE  Feed!FeedNext
    BY DEF Feed!feed
  <2>1. ASSUME NEW p \in Publishers, NEW t \in Topics, Publish(p, t) PROVE Feed!FeedNext
    <3>1. Feed!Accept(t)
      BY <2>1 DEF Publish, Send, Enqueue, Feed!Accept
    <3> QED
      BY <3>1 DEF Feed!FeedNext
  <2>2. CASE CallHandler
    <3> DEFINE hs == Subscribers[accepted[current]]
               h == hs[next]
    <3>t. /\ accepted \in Seq(Topics) /\ current \in 0..Len(accepted)
          /\ next \in Nat \ {0} /\ at \in [Handlers -> Nat] /\ Len(accepted) \in Nat
      BY DEF IndInv, TypeOK
    <3>1. current \in DOMAIN accepted /\ current = Taken /\ accepted[current] \in Topics
      BY <2>2, <3>t DEF CallHandler, IndInv, HandlersCalled
    <3>2. next \in DOMAIN hs
      BY <2>2, <3>1, <3>t DEF CallHandler
    <3>3. h \in Handlers /\ TopicOf[h] = accepted[current]
      BY <3>1, <3>2, SubscriberTopic
    <3>4. at[h] < current
      <4>1. ~(next < next)
        BY <3>t
      <4> QED
        BY <2>2, <3>2, <4>1 DEF CallHandler, IndInv, CallsInOrder
    <3>5. ASSUME NEW m \in at[h] + 1 .. current - 1, accepted[m] = TopicOf[h] PROVE FALSE
      <4>1. m \in 1..Taken /\ m # current /\ m > at[h]
        BY <3>1, <3>3, <3>t
      <4>2. at[h] >= m
        BY <4>1, <3>3, <3>5 DEF IndInv, HandlersCalled
      <4> QED
        BY <4>1, <4>2, <3>3, <3>t
    <3>6. Feed!Call(h, current)
      BY <2>2, <3>1, <3>3, <3>4, <3>5 DEF CallHandler, Feed!Call
    <3> QED
      BY <3>1, <3>3, <3>6 DEF Feed!FeedNext
  <2>3. ASSUME NEW p \in Publishers PROVE ~(Arrive(p) \/ PublishClosed(p) \/ Fail(p))
    BY <2>3 DEF Arrive, PublishClosed, Fail
  <2>4. ~(Receive \/ Finish \/ Return \/ UNCHANGED vars)
    BY DEF Receive, Finish, Return, vars
  <2>5. ~(Shutdown \/ CloseTimedOut \/ CloseFailed \/ Closing)
    BY DEF Shutdown, CloseTimedOut, CloseFailed, Closing, CloseDrained, Close, Exit
  <2> QED
    BY <2>1, <2>2, <2>3, <2>4, <2>5 DEF Next, RequestStep, Dispatch
<1> QED
  BY BusInductive, <1>1, <1>2, PTL DEF Spec, ImplementsFeed, Feed!Spec
=============================================================================
