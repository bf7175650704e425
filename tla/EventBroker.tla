----------------------------- MODULE EventBroker -----------------------------
(***************************************************************************)
(* The events of one tenant (mypalace/events/broker.py) and the websockets *)
(* that follow them (mypalace/api/events.py).  Each API process has its    *)
(* own broker; with Redis configured the brokers also share one pub/sub    *)
(* channel per tenant.  An event takes two paths: straight into the queues *)
(* of its own process, and through Redis into those of every process, the  *)
(* publisher's too.                                                        *)
(***************************************************************************)
EXTENDS Integers, Sequences, FiniteSets, SequencesExt

CONSTANTS
  Processes,    \* API processes
  Subscribers,  \* websocket connections to /v1/events
  Events,       \* events, each published once
  Home,         \* the process a subscriber is connected to
  Origin,       \* the process that publishes an event
  Topics,       \* the events a subscriber's topics let through
  Capacity,     \* room in a subscriber's queue (256 in the code)
  Redis,        \* settings.redis_url is set
  Faults,       \* the kinds of fault that may strike: "redis", "crash"
  MaxFaults     \* bound: how many of them strike in one behaviour

ASSUME EventBrokerAssumption ==
  /\ IsFiniteSet(Events)
  /\ Home \in [Subscribers -> Processes]
  /\ Origin \in [Events -> Processes]
  /\ Topics \in [Subscribers -> SUBSET Events]
  /\ Capacity \in Nat \ {0}
  /\ Redis \in BOOLEAN
  /\ Faults \subseteq {"redis", "crash"}
  /\ MaxFaults \in Nat

VARIABLES
  pending,  \* events published locally and not yet to Redis
  conn,     \* where each websocket handler stands; "left": its client is gone
  queue,    \* the subscriber's asyncio.Queue
  fwd,      \* its forward task: none, starting, listening or dead
  pipe,     \* what Redis has sent to the forward task
  got,      \* the frames sent to the client
  log,      \* auxiliary: the events in the order publish() was called
  near,     \* auxiliary: who was registered in the event's process
  far,      \* auxiliary: who was listening when Redis got the event
  missed,   \* auxiliary: what a full queue turned away
  faults    \* faults so far

sockets == <<conn, queue, fwd, pipe, got>>
audience == <<log, near, far>>
vars == <<pending, sockets, audience, missed, faults>>

Registered(s) == conn[s] \in {"open", "left"}
Full(s) == Len(queue[s]) >= Capacity
Tuned(e) == {s \in Subscribers : Home[s] = Origin[e] /\ Registered(s)}
Listening == {s \in Subscribers : fwd[s] = "listening"}

Strike(kind) ==
  /\ kind \in Faults
  /\ faults < MaxFaults
  /\ faults' = faults + 1

Init ==
  /\ pending = {}
  /\ conn = [s \in Subscribers |-> "new"]
  /\ queue = [s \in Subscribers |-> <<>>]
  /\ fwd = [s \in Subscribers |-> "none"]
  /\ pipe = [s \in Subscribers |-> <<>>]
  /\ got = [s \in Subscribers |-> <<>>]
  /\ log = <<>>
  /\ near = [e \in Events |-> {}]
  /\ far = [e \in Events |-> {}]
  /\ missed = [s \in Subscribers |-> {}]
  /\ faults = 0

-----------------------------------------------------------------------------
(* publish. *)

Announce(e) ==
  /\ ~Contains(log, e)
  /\ log' = Append(log, e)
  /\ near' = [near EXCEPT ![e] = Tuned(e)]
  /\ pending' = IF Redis THEN pending \cup {e} ELSE pending
  /\ UNCHANGED <<conn, fwd, pipe, got, far, faults>>

(* Slips: the queues are not bounded; with Redis, the local queues are left *)
(* to the forward tasks.                                                    *)
PublishUnbounded(e) ==
  /\ Announce(e)
  /\ queue' = [s \in Subscribers |-> IF s \in Tuned(e) THEN Append(queue[s], e) ELSE queue[s]]
  /\ UNCHANGED missed

PublishRemotely(e) ==
  /\ Redis
  /\ Announce(e)
  /\ UNCHANGED <<queue, missed>>

(* Up to its first await publish puts the event into the queue of every     *)
(* subscriber in its own process; a full queue drops it.                    *)
Publish(e) ==
  /\ Announce(e)
  /\ queue' = [s \in Subscribers |->
                 IF s \in Tuned(e) /\ ~Full(s) THEN Append(queue[s], e) ELSE queue[s]]
  /\ missed' = [s \in Subscribers |->
                 IF s \in Tuned(e) /\ Full(s) THEN missed[s] \cup {e} ELSE missed[s]]

(* A slip: publishing to Redis is tried again after it worked. *)
PublishRedisAgain(e) ==
  /\ e \in pending
  /\ pipe' = [s \in Subscribers |-> IF s \in Listening THEN Append(pipe[s], e) ELSE pipe[s]]
  /\ far' = [far EXCEPT ![e] = Listening]
  /\ \E rest \in {pending, pending \ {e}} : pending' = rest
  /\ UNCHANGED <<conn, queue, fwd, got, log, near, missed, faults>>

(* Redis hands it to every connection on the channel.  Calls in progress in *)
(* one process have a connection each and may overtake one another.         *)
PublishRedis(e) ==
  /\ e \in pending
  /\ pending' = pending \ {e}
  /\ pipe' = [s \in Subscribers |-> IF s \in Listening THEN Append(pipe[s], e) ELSE pipe[s]]
  /\ far' = [far EXCEPT ![e] = Listening]
  /\ UNCHANGED <<conn, queue, fwd, got, log, near, missed, faults>>

(* Redis failed: logged, and the write that published goes on. *)
PublishLost(e) ==
  /\ Strike("redis")
  /\ e \in pending
  /\ pending' = pending \ {e}
  /\ UNCHANGED <<sockets, audience, missed>>

-----------------------------------------------------------------------------
(* A websocket handler and its forward task. *)

(* The handshake is accepted and hello is sent. *)
Greet(s) ==
  /\ conn[s] = "new"
  /\ conn' = [conn EXCEPT ![s] = "greeted"]
  /\ UNCHANGED <<pending, queue, fwd, pipe, got, audience, missed, faults>>

(* subscribe registers the queue and starts the forward task. *)
Subscribe(s) ==
  /\ conn[s] = "greeted"
  /\ conn' = [conn EXCEPT ![s] = "open"]
  /\ fwd' = [fwd EXCEPT ![s] = IF Redis THEN "starting" ELSE "none"]
  /\ UNCHANGED <<pending, queue, pipe, got, audience, missed, faults>>

(* Redis acknowledged SUBSCRIBE: from here on the channel is heard. *)
Listen(s) ==
  /\ fwd[s] = "starting"
  /\ fwd' = [fwd EXCEPT ![s] = "listening"]
  /\ UNCHANGED <<pending, conn, queue, pipe, got, audience, missed, faults>>

(* The connection to Redis broke: the task ends and is not started again. *)
ForwardDies(s) ==
  /\ Strike("redis")
  /\ fwd[s] \in {"starting", "listening"}
  /\ fwd' = [fwd EXCEPT ![s] = "dead"]
  /\ pipe' = [pipe EXCEPT ![s] = <<>>]
  /\ UNCHANGED <<pending, conn, queue, got, audience, missed>>

(* A slip: the full queue ends the task. *)
ForwardStops(s) ==
  /\ pipe[s] # <<>> /\ fwd[s] = "listening"
  /\ IF Full(s) THEN fwd' = [fwd EXCEPT ![s] = "none"] /\ UNCHANGED <<queue, pipe>>
     ELSE /\ queue' = [queue EXCEPT ![s] = Append(@, Head(pipe[s]))]
          /\ pipe' = [pipe EXCEPT ![s] = Tail(@)]
          /\ UNCHANGED fwd
  /\ UNCHANGED <<pending, conn, got, audience, missed, faults>>

(* The forward task moves one message on; a full queue drops it. *)
Forward(s) ==
  /\ pipe[s] # <<>>
  /\ pipe' = [pipe EXCEPT ![s] = Tail(@)]
  /\ IF Full(s) THEN missed' = [missed EXCEPT ![s] = @ \cup {Head(pipe[s])}] /\ UNCHANGED queue
     ELSE queue' = [queue EXCEPT ![s] = Append(@, Head(pipe[s]))] /\ UNCHANGED missed
  /\ UNCHANGED <<pending, conn, fwd, got, audience, faults>>

(* The handler takes an event from the queue and sends it, if the topics of *)
(* the client let it through.                                               *)
Send(s) ==
  /\ conn[s] = "open" /\ queue[s] # <<>>
  /\ queue' = [queue EXCEPT ![s] = Tail(@)]
  /\ got' = [got EXCEPT ![s] = IF Head(queue[s]) \in Topics[s]
                               THEN Append(@, Head(queue[s])) ELSE @]
  /\ UNCHANGED <<pending, conn, fwd, pipe, audience, missed, faults>>

(* The client goes away: drain_client ends, the handler waits on its queue. *)
Disconnect(s) ==
  /\ conn[s] = "open"
  /\ conn' = [conn EXCEPT ![s] = "left"]
  /\ UNCHANGED <<pending, queue, fwd, pipe, got, audience, missed, faults>>

Close(S) ==
  /\ conn' = [s \in Subscribers |-> IF s \in S THEN "closed" ELSE conn[s]]
  /\ queue' = [s \in Subscribers |-> IF s \in S THEN <<>> ELSE queue[s]]
  /\ fwd' = [s \in Subscribers |-> IF s \in S THEN "none" ELSE fwd[s]]
  /\ pipe' = [s \in Subscribers |-> IF s \in S THEN <<>> ELSE pipe[s]]

(* Only sending tells the handler that its client is gone: it unregisters   *)
(* the queue and cancels the task.  An event outside the topics is skipped. *)
SkipUnsent(s) ==
  /\ conn[s] = "left" /\ queue[s] # <<>> /\ Head(queue[s]) \notin Topics[s]
  /\ queue' = [queue EXCEPT ![s] = Tail(@)]
  /\ UNCHANGED <<pending, conn, fwd, pipe, got, audience, missed, faults>>

Unsubscribe(s) ==
  /\ conn[s] = "left" /\ queue[s] # <<>> /\ Head(queue[s]) \in Topics[s]
  /\ Close({s})
  /\ UNCHANGED <<pending, got, audience, missed, faults>>

(* An API process dies with its sockets and its publications in progress. *)
Crash(p) ==
  /\ Strike("crash")
  /\ Close({s \in Subscribers : Home[s] = p /\ conn[s] # "new"})
  /\ pending' = {e \in pending : Origin[e] # p}
  /\ UNCHANGED <<got, audience, missed>>

-----------------------------------------------------------------------------
Serve(s) == Subscribe(s) \/ Listen(s) \/ Forward(s) \/ Send(s)

Next ==
  \/ \E e \in Events : Publish(e) \/ PublishRedis(e) \/ PublishLost(e)
  \/ \E s \in Subscribers : \/ Greet(s) \/ Serve(s) \/ ForwardDies(s)
                            \/ Disconnect(s) \/ SkipUnsent(s) \/ Unsubscribe(s)
  \/ \E p \in Processes : Crash(p)

Spec == Init /\ [][Next]_vars

(* The handler and the forward task of a socket are coroutines that always  *)
(* go on, as long as the client takes its frames and Redis delivers.        *)
FairSpec ==
  /\ Spec
  /\ \A s \in Subscribers : WF_vars(Send(s)) /\ WF_vars(Forward(s))

-----------------------------------------------------------------------------
Stages == {"new", "greeted", "open", "left", "closed"}
Due(s) == ToSet(got[s]) \cup ToSet(queue[s]) \cup ToSet(pipe[s])

(* Every variable stays within its range: no queue outgrows its capacity. *)
TypeOK ==
  /\ pending \subseteq Events
  /\ conn \in [Subscribers -> Stages]
  /\ queue \in [Subscribers -> Seq(Events)]
  /\ \A s \in Subscribers : Len(queue[s]) <= Capacity
  /\ fwd \in [Subscribers -> {"none", "starting", "listening", "dead"}]
  /\ pipe \in [Subscribers -> Seq(Events)]
  /\ got \in [Subscribers -> Seq(Events)]
  /\ log \in Seq(Events)
  /\ near \in [Events -> SUBSET Subscribers]
  /\ far \in [Events -> SUBSET Subscribers]
  /\ missed \in [Subscribers -> SUBSET Events]
  /\ faults \in 0 .. MaxFaults

(* No event reaches a client more often than there are paths to it: once    *)
(* from another process, and from its own once more than that; without      *)
(* Redis, once and only from its own.                                       *)
Copies(s, e) ==
  LET all == got[s] \o queue[s] \o pipe[s] IN Cardinality({n \in DOMAIN all : all[n] = e})

Paths(s, e) == (IF Redis THEN 1 ELSE 0) + (IF Home[s] = Origin[e] THEN 1 ELSE 0)

OneCopyPerPath == \A s \in Subscribers, e \in Events : Copies(s, e) <= Paths(s, e)

(* A client sees the events of its own process in the order they happened,  *)
(* whatever overtakes what on the way through Redis, unless its queue was   *)
(* full.                                                                    *)
OwnEventsInOrder ==
  \A s \in Subscribers : \A m, n \in DOMAIN log :
    LET seen == got[s] \o queue[s] IN
      /\ m < n /\ s \in near[log[m]] \cap near[log[n]]
      /\ log[m] \in Topics[s] /\ missed[s] = {} /\ conn[s] = "open"
      => \A k \in DOMAIN seen : seen[k] = log[n] => Contains(SubSeq(seen, 1, k), log[m])

(* What was announced to a client that is still there is on its way, was    *)
(* dropped at a full queue or filtered by its topics, and nothing else:     *)
(* Redis may only lose what only Redis had.                                 *)
NothingSlipsAway ==
  \A e \in Events, s \in Subscribers :
    /\ Registered(s) /\ e \in Topics[s] \ missed[s]
    /\ s \in near[e] \/ (s \in far[e] /\ fwd[s] # "dead")
    => e \in Due(s)

(* Every such event reaches the client, though publishers never wait for    *)
(* it: a full queue ends neither the handler nor the forward task.          *)
EventuallySeen ==
  \A e \in Events, s \in Subscribers :
    (s \in near[e] \cup far[e]) ~>
      \/ e \in ToSet(got[s]) \cup missed[s]
      \/ e \notin Topics[s]
      \/ conn[s] # "open"
      \/ s \notin near[e] /\ fwd[s] = "dead"
=============================================================================
