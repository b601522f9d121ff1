---------------------------- MODULE InProcessBus ----------------------------
(***************************************************************************)
(* The in-process event bus and the server that owns it: request           *)
(* goroutines publish into a buffered channel, one dispatcher goroutine    *)
(* calls the handlers of each event in turn, and main closes the bus when  *)
(* the HTTP server has stopped or given up stopping.                       *)
(***************************************************************************)
EXTENDS Integers, Sequences, FiniteSets, Functions

CONSTANTS
  Publishers,    \* request goroutines
  Topics,
  Subscribers,   \* topic -> its handlers, in the order they subscribed
  Capacity,      \* of the channel
  MaxRequests    \* bound: requests

Handlers == UNION {Range(Subscribers[t]) : t \in Topics}

ASSUME BusAssumption ==
  /\ Subscribers \in [Topics -> Seq(Handlers)]
  /\ \A t, u \in Topics : \A j \in DOMAIN Subscribers[t], k \in DOMAIN Subscribers[u] :
       Subscribers[t][j] = Subscribers[u][k] => t = u /\ j = k
  /\ Capacity \in Nat \ {0}
  /\ MaxRequests \in Nat

\* Every handler is one closure, subscribed to one topic.
TopicOf == [h \in Handlers |-> CHOOSE t \in Topics : h \in Range(Subscribers[t])]

VARIABLES
  accepted,  \* history: the topics of the events that entered the channel
  queue,     \* the channel: numbers of the events in it
  closed,    \* the channel is closed
  current,   \* the event being dispatched, or 0
  next,      \* index of the handler to call next for it
  at,        \* history: handler -> the last event it was called for
  disp,      \* "running", or "done" once the dispatcher has returned
  server,    \* what main is doing
  pub,       \* goroutine -> "idle", "working" (will publish), "panicked"
  how,       \* why it closed the bus
  arrived    \* requests so far

vars == << accepted, queue, closed, current, next, at, disp, server, pub, how, arrived >>

Init ==
  /\ accepted = << >>
  /\ queue = << >>
  /\ closed = FALSE
  /\ current = 0
  /\ next = 1
  /\ at = [h \in Handlers |-> 0]
  /\ disp = "running"
  /\ server = "serving"
  /\ pub = [p \in Publishers |-> "idle"]
  /\ how = "open"
  /\ arrived = 0

-----------------------------------------------------------------------------
\* A request that will publish one event when its state change is done. When Serve
\* failed, connections that are open can still bring requests.
Arrive(p) ==
  /\ server = "serving" \/ (server = "closing" /\ how = "failed")
  /\ arrived < MaxRequests
  /\ arrived' = arrived + 1
  /\ pub[p] = "idle"
  /\ pub' = [pub EXCEPT ![p] = "working"]
  /\ UNCHANGED << accepted, queue, closed, current, next, at, disp, server, how >>

Enqueue(t) ==
  /\ accepted' = Append(accepted, t)
  /\ queue' = Append(queue, Len(accepted) + 1)

\* Fault: the send waits for room.
SendWaiting(t) == Len(queue) < Capacity /\ Enqueue(t)

\* The non-blocking send; a full channel drops the event.
Send(t) ==
  IF Len(queue) < Capacity THEN Enqueue(t) ELSE UNCHANGED << accepted, queue >>

\* Publish reports success whether or not the event was dropped.
Publish(p, t) ==
  /\ server # "exited"
  /\ pub[p] = "working"
  /\ ~closed
  /\ Send(t)
  /\ pub' = [pub EXCEPT ![p] = "idle"]
  /\ UNCHANGED << closed, current, next, at, disp, server, how, arrived >>

\* A send on a closed channel panics in the goroutine of the request.
PublishClosed(p) ==
  /\ server # "exited"
  /\ pub[p] = "working"
  /\ closed
  /\ pub' = [pub EXCEPT ![p] = "panicked"]
  /\ UNCHANGED << accepted, queue, closed, current, next, at, disp, server, how, arrived >>

\* The request fails before it publishes.
Fail(p) ==
  /\ server # "exited"
  /\ pub[p] = "working"
  /\ pub' = [pub EXCEPT ![p] = "idle"]
  /\ UNCHANGED << accepted, queue, closed, current, next, at, disp, server, how, arrived >>

-----------------------------------------------------------------------------
\* The dispatcher

\* Fault: each event gets a goroutine of its own, so any may come first.
ReceiveUnordered ==
  /\ disp = "running" /\ current = 0
  /\ \E j \in DOMAIN queue :
       /\ current' = queue[j]
       /\ queue' = SubSeq(queue, 1, j - 1) \o SubSeq(queue, j + 1, Len(queue))
  /\ next' = 1
  /\ UNCHANGED << accepted, closed, at, disp, server, pub, how, arrived >>

Receive ==
  /\ disp = "running" /\ current = 0
  /\ queue # << >>
  /\ current' = Head(queue)
  /\ queue' = Tail(queue)
  /\ next' = 1
  /\ UNCHANGED << accepted, closed, at, disp, server, pub, how, arrived >>

\* Call the next handler; its error, if any, is logged and forgotten.
CallHandler ==
  /\ current # 0
  /\ LET hs == Subscribers[accepted[current]] IN
     /\ next <= Len(hs)
     /\ at' = [at EXCEPT ![hs[next]] = current]
     /\ next' = next + 1
  /\ UNCHANGED << accepted, queue, closed, current, disp, server, pub, how, arrived >>

\* All handlers of the event were called.
Finish ==
  /\ current # 0
  /\ next > Len(Subscribers[accepted[current]])
  /\ current' = 0
  /\ UNCHANGED << accepted, queue, closed, next, at, disp, server, pub, how, arrived >>

\* Fault: the dispatcher stops as soon as the channel is closed.
ReturnAtOnce ==
  /\ disp = "running" /\ current = 0
  /\ closed
  /\ disp' = "done"
  /\ UNCHANGED << accepted, queue, closed, current, next, at, server, pub, how, arrived >>

\* The range over the channel ends when it is closed and empty.
Return ==
  /\ disp = "running" /\ current = 0
  /\ closed /\ queue = << >>
  /\ disp' = "done"
  /\ UNCHANGED << accepted, queue, closed, current, next, at, server, pub, how, arrived >>

-----------------------------------------------------------------------------
\* main

\* SIGTERM: srv.Shutdown stops accepting and waits for the requests under way.
Shutdown ==
  /\ server = "serving"
  /\ server' = "draining"
  /\ UNCHANGED << accepted, queue, closed, current, next, at, disp, pub, how, arrived >>

\* Fault: Close waits for the dispatcher but does not close the channel.
CloseOpen(why) ==
  /\ server' = "closing"
  /\ how' = why
  /\ UNCHANGED << accepted, queue, closed, current, next, at, disp, pub, arrived >>

\* run returns, and its deferred Close closes the channel.
Close(why) ==
  /\ server' = "closing"
  /\ how' = why
  /\ closed' = TRUE
  /\ UNCHANGED << accepted, queue, current, next, at, disp, pub, arrived >>

\* Fault: main does not wait for the requests.
CloseUndrained == server = "draining" /\ Close("clean")

\* The requests have ended.
CloseDrained ==
  /\ server = "draining"
  /\ \A p \in Publishers : pub[p] # "working"
  /\ Close("clean")

\* After 30 s Shutdown gives up on the requests still under way.
CloseTimedOut ==
  /\ server = "draining"
  /\ \E p \in Publishers : pub[p] = "working"
  /\ Close("timeout")

\* ListenAndServe returned an error.
CloseFailed == server = "serving" /\ Close("failed")

\* Close waits for the dispatcher; then the process exits.
Exit ==
  /\ server = "closing"
  /\ disp = "done"
  /\ server' = "exited"
  /\ UNCHANGED << accepted, queue, closed, current, next, at, disp, pub, how, arrived >>

-----------------------------------------------------------------------------
RequestStep(p) ==
  \/ \E t \in Topics : Publish(p, t)
  \/ PublishClosed(p)

Dispatch == Receive \/ CallHandler \/ Finish \/ Return

Closing == CloseDrained \/ Exit

Next ==
  \/ \E p \in Publishers : Arrive(p) \/ RequestStep(p) \/ Fail(p)
  \/ Dispatch
  \/ Shutdown \/ CloseTimedOut \/ CloseFailed \/ Closing

Spec == Init /\ [][Next]_vars

\* Goroutines are scheduled; a handler may hang, so nothing is assumed of the
\* dispatcher.
FairSpec ==
  /\ Spec
  /\ WF_vars(Closing)
  /\ \A p \in Publishers : WF_vars(RequestStep(p))

-----------------------------------------------------------------------------
\* Properties

TypeOK ==
  /\ accepted \in Seq(Topics)
  /\ queue \in Seq(1..Len(accepted)) /\ Len(queue) <= Capacity
  /\ closed \in BOOLEAN
  /\ current \in 0..Len(accepted) /\ next \in Nat \ {0}
  /\ at \in [Handlers -> Nat]
  /\ disp \in {"running", "done"}
  /\ server \in {"serving", "draining", "closing", "exited"}
  /\ how \in {"open", "clean", "timeout", "failed"}
  /\ arrived \in 0..MaxRequests
  /\ pub \in [Publishers -> {"idle", "working", "panicked"}]

Feed == INSTANCE EventFeed

\* Handlers see the events that entered the channel in one common order, each once.
ImplementsFeed == Feed!Spec

\* Close returns only when every event that entered the channel has reached all
\* handlers of its topic, also when the shutdown was not clean.
CloseDrains ==
  server = "exited" =>
    \A n \in DOMAIN accepted, h \in Handlers : accepted[n] = TopicOf[h] => at[h] >= n

\* No request panics on the closed channel when the shutdown was clean. After one
\* that timed out, or when Serve failed, requests that still publish do.
CleanShutdownSafe ==
  how = "clean" => \A p \in Publishers : pub[p] = "idle"

\* If handlers return, a shutdown ends: the requests end, the channel empties,
\* Close returns.
ShutdownEnds == WF_vars(Dispatch) => (server = "draining" ~> server = "exited")

\* Publishing never waits: even behind a handler that hangs, a request ends.
RequestsEnd ==
  \A p \in Publishers : pub[p] = "working" ~> pub[p] # "working" \/ server = "exited"

-----------------------------------------------------------------------------
\* The inductive invariant: why the order holds and nothing accepted is lost.

\* Events that have left the channel.
Taken == Len(accepted) - Len(queue)

QueueInOrder ==
  /\ Len(queue) <= Len(accepted)
  /\ \A j \in DOMAIN queue : queue[j] = Taken + j

\* Every handler was called for the events that left the channel, except that the
\* dispatcher may still be busy with the last one.
HandlersCalled ==
  /\ current \in {0, Taken}
  /\ \A h \in Handlers :
       /\ at[h] <= Taken
       /\ \A n \in 1..Taken : n # current /\ accepted[n] = TopicOf[h] => at[h] >= n

\* Of the event being dispatched, the handlers before next were called, the others
\* were not.
CallsInOrder ==
  current # 0 =>
    \A j \in DOMAIN Subscribers[accepted[current]] :
      LET h == Subscribers[accepted[current]][j] IN
      IF j < next THEN at[h] = current ELSE at[h] < current

ClosedLast ==
  /\ disp = "done" => closed /\ queue = << >> /\ current = 0
  /\ server = "exited" => disp = "done"
  /\ closed <=> how # "open"
  /\ closed <=> server \in {"closing", "exited"}
  /\ \A p \in Publishers : pub[p] = "panicked" => closed

IndInv ==
  /\ TypeOK
  /\ QueueInOrder /\ HandlersCalled /\ CallsInOrder
  /\ ClosedLast /\ CleanShutdownSafe

=============================================================================
