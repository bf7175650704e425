-------------------------- MODULE EventBrokerProofs --------------------------
(***************************************************************************)
(* Proofs about EventBroker, for any number of processes, websockets and   *)
(* events, queues of any size and any number of faults.  Of every sequence *)
(* of events two things are told: how often an event is in it (Count), and *)
(* whether an a is up to every b (Precedes).  A step is a publication, a   *)
(* message from Redis, or gives every websocket one of eight turns (Turns). *)
(* The invariant has one part per promise: Counted for the copies, Ordered *)
(* for the order, NearHeld and FarHeld for what may not slip away; they    *)
(* need that a websocket was announced nothing before it registered        *)
(* (Outside), and that what is under way was announced (Announced).        *)
(***************************************************************************)
EXTENDS EventBroker, SequenceTheorems, FiniteSetTheorems, TLAPS

-----------------------------------------------------------------------------
(* Sequences of events. *)

Places(q, e) == {n \in DOMAIN q : q[n] = e}
Count(q, e) == Cardinality(Places(q, e))

LEMMA LenNat == \A q \in Seq(Events) : Len(q) \in Nat /\ DOMAIN q = 1 .. Len(q)
BY LenProperties

LEMMA CountNat == ASSUME NEW q \in Seq(Events), NEW e PROVE IsFiniteSet(Places(q, e)) /\ Count(q, e) \in Nat
<1>1. IsFiniteSet(1 .. Len(q))
  BY LenNat, FS_Interval
<1>2. Places(q, e) \subseteq 1 .. Len(q)
  BY LenNat DEF Places
<1> QED
  BY <1>1, <1>2, FS_Subset, FS_CardinalityType DEF Count

(* Places that are moved are as many as before. *)
LEMMA Moved ==
  ASSUME NEW S \in SUBSET Int, IsFiniteSet(S), NEW d \in Int
  PROVE  IsFiniteSet({n + d : n \in S}) /\ Cardinality({n + d : n \in S}) = Cardinality(S)
<1> DEFINE T == {n + d : n \in S}
           f == [n \in S |-> n + d]
<1>1. f \in [S -> T]
  OBVIOUS
<1>2. ASSUME NEW a \in S, NEW b \in S, f[a] = f[b] PROVE a = b
  <2>1. f[a] = a + d /\ f[b] = b + d /\ a \in Int /\ b \in Int
    OBVIOUS
  <2> QED
    BY <1>2, <2>1
<1>3. \A y \in T : \E x \in S : f[x] = y
  OBVIOUS
<1> HIDE DEF T, f
<1>4. f \in Bijection(S, T)
  BY <1>1, <1>2, <1>3 DEF Bijection, Injection, Surjection, IsInjective
<1>5. ExistsBijection(S, T)
  BY <1>4 DEF ExistsBijection
<1>6. IsFiniteSet(T) /\ Cardinality(T) = Cardinality(S)
  BY <1>5, FS_Bijection
<1> QED
  BY <1>6 DEF T

LEMMA CountConcat ==
  ASSUME NEW q \in Seq(Events), NEW r \in Seq(Events), NEW e
  PROVE  Count(q \o r, e) = Count(q, e) + Count(r, e)
<1> DEFINE tail == {n + Len(q) : n \in Places(r, e)}
<1>1. /\ Len(q) \in Nat /\ Len(r) \in Nat /\ q \o r \in Seq(Events)
      /\ DOMAIN q = 1 .. Len(q) /\ DOMAIN r = 1 .. Len(r)
      /\ DOMAIN (q \o r) = 1 .. Len(q) + Len(r)
      /\ \A n \in 1 .. Len(q) + Len(r) : (q \o r)[n] = IF n <= Len(q) THEN q[n] ELSE r[n - Len(q)]
  BY LenNat, ConcatProperties
<1>2. ASSUME NEW n \in Places(q \o r, e) PROVE n \in Places(q, e) \cup tail
  <2>1. n \in 1 .. Len(q) + Len(r) /\ (q \o r)[n] = e
    BY <1>1 DEF Places
  <2>2. CASE n <= Len(q)
    BY <1>1, <2>1, <2>2 DEF Places
  <2>3. CASE n > Len(q)
    <3>1. n - Len(q) \in Places(r, e) /\ n = (n - Len(q)) + Len(q)
      BY <1>1, <2>1, <2>3 DEF Places
    <3> QED
      BY <3>1
  <2> QED
    BY <1>1, <2>1, <2>2, <2>3
<1>3. ASSUME NEW n \in Places(q, e) PROVE n \in Places(q \o r, e)
  BY <1>1 DEF Places
<1>4. ASSUME NEW n \in tail PROVE n \in Places(q \o r, e)
  <2>1. PICK k \in Places(r, e) : n = k + Len(q)
    OBVIOUS
  <2>2. k \in 1 .. Len(r) /\ r[k] = e /\ n \in 1 .. Len(q) + Len(r) /\ ~(n <= Len(q)) /\ n - Len(q) = k
    BY <1>1, <2>1 DEF Places
  <2> QED
    BY <1>1, <2>2 DEF Places
<1>5. Places(q, e) \cap tail = {}
  BY <1>1 DEF Places
<1>6. IsFiniteSet(tail) /\ Cardinality(tail) = Count(r, e)
  <2> DEFINE S == Places(r, e)
             d == Len(q)
  <2>1. IsFiniteSet(S)
    BY CountNat
  <2>2. S \in SUBSET Int /\ d \in Int
    BY <1>1 DEF Places
  <2> HIDE DEF S, d
  <2>3. IsFiniteSet({n + d : n \in S}) /\ Cardinality({n + d : n \in S}) = Cardinality(S)
    BY <2>1, <2>2, Moved
  <2> QED
    BY <2>3 DEF Count, S, d
<1> HIDE DEF tail
<1>7. Places(q \o r, e) = Places(q, e) \cup tail
  BY <1>2, <1>3, <1>4
<1>8. Cardinality(Places(q, e) \cup tail) = Cardinality(Places(q, e)) + Cardinality(tail)
  <2>1. Cardinality(Places(q, e) \cup tail)
          = Cardinality(Places(q, e)) + Cardinality(tail) - Cardinality(Places(q, e) \cap tail)
    BY <1>6, CountNat, FS_Union
  <2>2. Cardinality(Places(q, e) \cap tail) = 0
    BY <1>5, FS_EmptySet
  <2>3. Cardinality(Places(q, e)) \in Nat /\ Cardinality(tail) \in Nat
    BY <1>6, CountNat DEF Count
  <2> QED
    BY <2>1, <2>2, <2>3
<1> QED
  BY <1>6, <1>7, <1>8 DEF Count

LEMMA CountEmpty == \A e : Count(<<>>, e) = 0
<1>1. \A e : Places(<<>>, e) = {}
  BY DEF Places
<1>2. Cardinality({}) = 0
  BY FS_EmptySet
<1> QED
  BY <1>1, <1>2 DEF Count

LEMMA CountOne == \A x, e : Count(<<x>>, e) = IF x = e THEN 1 ELSE 0
<1> SUFFICES ASSUME NEW x, NEW e PROVE Count(<<x>>, e) = IF x = e THEN 1 ELSE 0
  OBVIOUS
<1>1. Places(<<x>>, e) = IF x = e THEN {1} ELSE {}
  <2>1. DOMAIN <<x>> = {1} /\ <<x>>[1] = x
    OBVIOUS
  <2> QED
    BY <2>1 DEF Places
<1>2. Cardinality({}) = 0
  BY FS_EmptySet
<1>3. Cardinality({1}) = 1
  BY FS_Singleton
<1> QED
  BY <1>1, <1>2, <1>3 DEF Count

LEMMA CountAppend ==
  ASSUME NEW q \in Seq(Events), NEW x \in Events, NEW e
  PROVE  Count(Append(q, x), e) = Count(q, e) + IF x = e THEN 1 ELSE 0
<1> DEFINE one == <<x>>
<1>1. Append(q, x) = q \o one /\ one \in Seq(Events)
  BY AppendIsConcat
<1>2. Count(one, e) = IF x = e THEN 1 ELSE 0
  BY CountOne
<1> HIDE DEF one
<1>3. Count(q \o one, e) = Count(q, e) + Count(one, e)
  BY <1>1, CountConcat
<1> QED
  BY <1>1, <1>2, <1>3

LEMMA FirstAndRest ==
  ASSUME NEW q \in Seq(Events), q # <<>>
  PROVE  /\ Head(q) \in Events /\ Tail(q) \in Seq(Events) /\ Len(Tail(q)) = Len(q) - 1
         /\ Len(q) \in Nat \ {0} /\ <<Head(q)>> \in Seq(Events) /\ q = <<Head(q)>> \o Tail(q)
<1>1. /\ Head(q) \in Events /\ Tail(q) \in Seq(Events) /\ Len(Tail(q)) = Len(q) - 1
      /\ \A i \in 1 .. Len(Tail(q)) : Tail(q)[i] = q[i + 1]
  BY HeadTailProperties
<1>2. Len(q) \in Nat \ {0}
  BY EmptySeq
<1> DEFINE one == <<Head(q)>>
           rest == Tail(q)
<1>3. one \in Seq(Events) /\ Len(one) = 1 /\ one[1] = q[1] /\ rest \in Seq(Events)
  BY <1>1
<1>4. Len(rest) = Len(q) - 1 /\ \A i \in 1 .. Len(rest) : rest[i] = q[i + 1]
  BY <1>1
<1> HIDE DEF one, rest
<1> DEFINE whole == one \o rest
<1>5. /\ whole \in Seq(Events) /\ Len(whole) = Len(one) + Len(rest)
      /\ \A i \in 1 .. Len(one) + Len(rest) :
           whole[i] = IF i <= Len(one) THEN one[i] ELSE rest[i - Len(one)]
  BY <1>3, ConcatProperties
<1> HIDE DEF whole
<1>6. Len(whole) = Len(q)
  BY <1>2, <1>3, <1>4, <1>5
<1>7. ASSUME NEW i \in 1 .. Len(whole) PROVE whole[i] = q[i]
  <2>1. whole[i] = IF i <= 1 THEN one[i] ELSE rest[i - 1]
    BY <1>3, <1>5
  <2>2. CASE i = 1
    BY <1>3, <2>1, <2>2
  <2>3. CASE i # 1
    <3>1. i - 1 \in 1 .. Len(rest) /\ (i - 1) + 1 = i /\ ~(i <= 1)
      BY <1>2, <1>4, <1>6, <2>3
    <3> QED
      BY <1>4, <2>1, <3>1
  <2> QED
    BY <2>2, <2>3
<1>8. whole = q
  BY <1>5, <1>6, <1>7, SeqEqual
<1> QED
  BY <1>1, <1>2, <1>3, <1>8 DEF one, rest, whole

LEMMA CountTail ==
  ASSUME NEW q \in Seq(Events), q # <<>>, NEW e
  PROVE  Count(q, e) = Count(Tail(q), e) + IF Head(q) = e THEN 1 ELSE 0
<1> DEFINE one == <<Head(q)>>
           rest == Tail(q)
<1>1. one \in Seq(Events) /\ rest \in Seq(Events) /\ q = one \o rest
  BY FirstAndRest
<1>2. Count(one, e) = IF Head(q) = e THEN 1 ELSE 0
  BY CountOne
<1> HIDE DEF one, rest
<1>3. Count(q, e) = Count(one, e) + Count(rest, e)
  BY <1>1, CountConcat
<1>4. Count(one, e) \in Nat /\ Count(rest, e) \in Nat
  BY <1>1, CountNat
<1> QED
  BY <1>2, <1>3, <1>4 DEF rest

(* What is among the elements. *)
LEMMA Members ==
  /\ ToSet(<<>>) = {}
  /\ \A q \in Seq(Events), x \in Events : ToSet(Append(q, x)) = ToSet(q) \cup {x}
  /\ \A q \in Seq(Events) : q # <<>> => ToSet(q) = ToSet(Tail(q)) \cup {Head(q)}
<1>1. ToSet(<<>>) = {}
  BY DEF ToSet
<1>2. ASSUME NEW q \in Seq(Events), NEW x \in Events PROVE ToSet(Append(q, x)) = ToSet(q) \cup {x}
  <2> DEFINE r == Append(q, x)
  <2>1. /\ Len(q) \in Nat /\ DOMAIN q = 1 .. Len(q) /\ r \in Seq(Events) /\ Len(r) = Len(q) + 1
        /\ \A i \in 1 .. Len(q) : r[i] = q[i]
        /\ r[Len(q) + 1] = x
    BY LenNat, AppendProperties
  <2> HIDE DEF r
  <2>2. DOMAIN r = 1 .. Len(q) + 1
    BY <2>1, LenNat
  <2>3. ToSet(r) = ToSet(q) \cup {x}
    BY <2>1, <2>2 DEF ToSet
  <2> QED
    BY <2>3 DEF r
<1>3. ASSUME NEW q \in Seq(Events), q # <<>> PROVE ToSet(q) = ToSet(Tail(q)) \cup {Head(q)}
  <2> DEFINE r == Tail(q)
  <2>1. /\ Len(q) \in Nat \ {0} /\ r \in Seq(Events) /\ Len(r) = Len(q) - 1
        /\ \A i \in 1 .. Len(r) : r[i] = q[i + 1]
        /\ Head(q) = q[1]
    BY <1>3, EmptySeq, HeadTailProperties
  <2> HIDE DEF r
  <2>2. DOMAIN q = 1 .. Len(q) /\ DOMAIN r = 1 .. Len(q) - 1
    BY <2>1, LenNat
  <2>3. ASSUME NEW n \in 1 .. Len(q) PROVE q[n] \in ToSet(r) \cup {q[1]}
    <3>1. CASE n = 1
      BY <3>1
    <3>2. CASE n # 1
      <4>1. n - 1 \in 1 .. Len(r) /\ r[n - 1] = q[n]
        BY <2>1, <3>2
      <4> QED
        BY <2>1, <2>2, <4>1 DEF ToSet
    <3> QED
      BY <3>1, <3>2
  <2>4. ASSUME NEW n \in 1 .. Len(r) PROVE r[n] \in ToSet(q)
    BY <2>1, <2>2 DEF ToSet
  <2>5. q[1] \in ToSet(q)
    BY <2>1, <2>2 DEF ToSet
  <2>6. ToSet(q) = ToSet(r) \cup {q[1]}
    BY <2>1, <2>2, <2>3, <2>4, <2>5 DEF ToSet
  <2> QED
    BY <2>1, <2>6 DEF r
<1> QED
  BY <1>1, <1>2, <1>3


-----------------------------------------------------------------------------
(* Types. *)

LEMMA Appended ==
  \A q \in Seq(Events), x \in Events :
    Append(q, x) \in Seq(Events) /\ Len(Append(q, x)) = Len(q) + 1 /\ Len(q) \in Nat
BY AppendProperties, LenNat

LEMMA Shortened ==
  \A q \in Seq(Events) : q # <<>> =>
    Head(q) \in Events /\ Tail(q) \in Seq(Events) /\ Len(Tail(q)) = Len(q) - 1 /\ Len(q) \in Nat
BY FirstAndRest

LEMMA Empty == <<>> \in Seq(Events) /\ Len(<<>>) = 0 /\ Capacity \in Nat \ {0}
BY EventBrokerAssumption

LEMMA TypesBegin == Init => TypeOK
BY Empty, EventBrokerAssumption DEF Init, TypeOK, Stages

(* Closing leaves a websocket nothing. *)
LEMMA CloseTypes ==
  ASSUME TypeOK, NEW S, Close(S)
  PROVE  /\ conn' \in [Subscribers -> Stages]
         /\ queue' \in [Subscribers -> Seq(Events)]
         /\ \A s \in Subscribers : Len(queue'[s]) <= Capacity
         /\ fwd' \in [Subscribers -> {"none", "starting", "listening", "dead"}]
         /\ pipe' \in [Subscribers -> Seq(Events)]
BY Empty DEF TypeOK, Close, Stages

LEMMA PublishTypes == ASSUME TypeOK, NEW e \in Events, Publish(e) PROVE TypeOK'
<1> USE DEF Publish, Announce
<1>1. Tuned(e) \subseteq Subscribers
  BY DEF Tuned
<1>2. pending' \subseteq Events /\ near' \in [Events -> SUBSET Subscribers]
  BY <1>1 DEF TypeOK
<1>3. log' \in Seq(Events)
  BY Appended DEF TypeOK
<1>4. /\ queue' \in [Subscribers -> Seq(Events)]
      /\ missed' \in [Subscribers -> SUBSET Events]
  BY Appended DEF TypeOK
<1>5. ASSUME NEW s \in Subscribers PROVE Len(queue'[s]) <= Capacity
  <2>1. CASE s \in Tuned(e) /\ ~Full(s)
    <3>1. queue'[s] = Append(queue[s], e) /\ ~(Len(queue[s]) >= Capacity)
      BY <2>1 DEF Full
    <3> QED
      BY <3>1, Appended, Empty DEF TypeOK
  <2>2. CASE ~(s \in Tuned(e) /\ ~Full(s))
    BY <2>2 DEF TypeOK
  <2> QED
    BY <2>1, <2>2
<1> QED
  BY <1>2, <1>3, <1>4, <1>5 DEF TypeOK

LEMMA PublishRedisTypes == ASSUME TypeOK, NEW e \in Events, PublishRedis(e) PROVE TypeOK'
<1> USE DEF PublishRedis
<1>1. Listening \subseteq Subscribers
  BY DEF Listening
<1>2. pending' \subseteq Events /\ far' \in [Events -> SUBSET Subscribers]
  BY <1>1 DEF TypeOK
<1>3. pipe' \in [Subscribers -> Seq(Events)]
  BY Appended DEF TypeOK
<1> QED
  BY <1>2, <1>3 DEF TypeOK

LEMMA ForwardTypes == ASSUME TypeOK, NEW s \in Subscribers, Forward(s) PROVE TypeOK'
<1>1. pipe[s] \in Seq(Events) /\ pipe[s] # <<>> /\ queue[s] \in Seq(Events)
  BY DEF TypeOK, Forward
<1>2. Head(pipe[s]) \in Events /\ Tail(pipe[s]) \in Seq(Events)
  BY <1>1, Shortened
<1>3. pipe' \in [Subscribers -> Seq(Events)]
  BY <1>2 DEF TypeOK, Forward
<1>4. CASE Full(s)
  <2>1. missed' \in [Subscribers -> SUBSET Events] /\ queue' = queue
    <3>1. missed' = [missed EXCEPT ![s] = missed[s] \cup {Head(pipe[s])}] /\ queue' = queue
      BY <1>4 DEF Forward
    <3>2. missed[s] \cup {Head(pipe[s])} \in SUBSET Events
      BY <1>2 DEF TypeOK
    <3> QED
      BY <3>1, <3>2 DEF TypeOK
  <2> QED
    BY <1>3, <2>1 DEF TypeOK, Forward, audience
<1>5. CASE ~Full(s)
  <2>1. queue' = [queue EXCEPT ![s] = Append(queue[s], Head(pipe[s]))] /\ missed' = missed
    BY <1>5 DEF Forward
  <2>2. /\ Append(queue[s], Head(pipe[s])) \in Seq(Events)
        /\ Len(Append(queue[s], Head(pipe[s]))) <= Capacity
    BY <1>1, <1>2, <1>5, Appended, Empty DEF Full
  <2>3. queue' \in [Subscribers -> Seq(Events)] /\ \A r \in Subscribers : Len(queue'[r]) <= Capacity
    BY <2>1, <2>2 DEF TypeOK
  <2> QED
    BY <1>3, <2>1, <2>3 DEF TypeOK, Forward, audience
<1> QED
  BY <1>4, <1>5

(* A queue whose head is taken away. *)
LEMMA ShorterTypes ==
  ASSUME TypeOK, NEW s \in Subscribers, queue[s] # <<>>, queue' = [queue EXCEPT ![s] = Tail(@)]
  PROVE  /\ queue' \in [Subscribers -> Seq(Events)]
         /\ \A r \in Subscribers : Len(queue'[r]) <= Capacity
<1>1. queue[s] \in Seq(Events) /\ Len(queue[s]) <= Capacity
  BY DEF TypeOK
<1>2. Tail(queue[s]) \in Seq(Events) /\ Len(Tail(queue[s])) <= Capacity
  BY <1>1, Shortened, Empty
<1> QED
  BY <1>2 DEF TypeOK

LEMMA SendTypes == ASSUME TypeOK, NEW s \in Subscribers, Send(s) PROVE TypeOK'
<1>1. /\ queue' \in [Subscribers -> Seq(Events)]
      /\ \A r \in Subscribers : Len(queue'[r]) <= Capacity
  BY ShorterTypes DEF Send
<1>2. got[s] \in Seq(Events) /\ queue[s] \in Seq(Events) /\ queue[s] # <<>>
  BY DEF TypeOK, Send
<1>3. Append(got[s], Head(queue[s])) \in Seq(Events)
  BY <1>2, Shortened, Appended
<1>4. got' \in [Subscribers -> Seq(Events)]
  BY <1>3 DEF TypeOK, Send
<1> QED
  BY <1>1, <1>4 DEF TypeOK, Send, audience

LEMMA TypesKept == TypeOK /\ [Next]_vars => TypeOK'
<1> SUFFICES ASSUME TypeOK, [Next]_vars PROVE TypeOK'
  OBVIOUS
<1>1. ASSUME NEW e \in Events, PublishLost(e) PROVE TypeOK'
  BY <1>1, EventBrokerAssumption DEF PublishLost, Strike, TypeOK, sockets, audience
<1>2. ASSUME NEW s \in Subscribers, Greet(s) \/ Disconnect(s) PROVE TypeOK'
  BY <1>2 DEF Greet, Disconnect, TypeOK, Stages, audience
<1>3. ASSUME NEW s \in Subscribers, Subscribe(s) \/ Listen(s) PROVE TypeOK'
  BY <1>3 DEF Subscribe, Listen, TypeOK, Stages, audience
<1>4. ASSUME NEW s \in Subscribers, ForwardDies(s) PROVE TypeOK'
  BY <1>4, Empty, EventBrokerAssumption DEF ForwardDies, Strike, TypeOK, audience
<1>5. ASSUME NEW s \in Subscribers, SkipUnsent(s) PROVE TypeOK'
  <2>1. /\ queue' \in [Subscribers -> Seq(Events)]
        /\ \A r \in Subscribers : Len(queue'[r]) <= Capacity
    BY <1>5, ShorterTypes DEF SkipUnsent
  <2> QED
    BY <1>5, <2>1 DEF SkipUnsent, TypeOK, audience
<1>6. ASSUME NEW s \in Subscribers, Unsubscribe(s) PROVE TypeOK'
  BY <1>6, CloseTypes DEF Unsubscribe, TypeOK, audience
<1>7. ASSUME NEW p \in Processes, Crash(p) PROVE TypeOK'
  BY <1>7, CloseTypes, EventBrokerAssumption DEF Crash, Strike, TypeOK, audience
<1>8. CASE UNCHANGED vars
  BY <1>8 DEF vars, sockets, audience, TypeOK
<1> QED
  BY <1>1, <1>2, <1>3, <1>4, <1>5, <1>6, <1>7, <1>8,
     PublishTypes, PublishRedisTypes, ForwardTypes, SendTypes DEF Next, Serve

(* Every variable of the broker and of its websockets stays within its      *)
(* range, and no queue of subscribe (broker.py) outgrows its capacity.      *)
THEOREM BrokerTypeAlways == Spec => []TypeOK
BY TypesBegin, TypesKept, PTL DEF Spec

-----------------------------------------------------------------------------
(* What a step does to one websocket: it publishes, hands an event to the   *)
(* listening tasks, or leaves what was announced alone and gives the        *)
(* websocket one of these turns.                                            *)

Held(s) == queue'[s] = queue[s] /\ got'[s] = got[s] /\ missed'[s] = missed[s]
Still(s) == Held(s) /\ pipe'[s] = pipe[s]

(* Before, during and after its time among the registered. *)
Opens(s) == Still(s) /\ conn[s] = "greeted" /\ conn'[s] = "open"
Waits(s) ==
  /\ Still(s) /\ (fwd'[s] = fwd[s] \/ (fwd[s] = "starting" /\ fwd'[s] = "listening"))
  /\ \/ conn'[s] = conn[s]
     \/ conn[s] = "new" /\ conn'[s] = "greeted"
     \/ conn[s] = "open" /\ conn'[s] = "left"
Dies(s) ==
  /\ Held(s) /\ conn'[s] = conn[s]
  /\ fwd[s] \in {"starting", "listening"} /\ fwd'[s] = "dead" /\ pipe'[s] = <<>>
Ends(s) ==
  /\ conn'[s] = "closed" /\ fwd'[s] = "none" /\ queue'[s] = <<>> /\ pipe'[s] = <<>>
  /\ got'[s] = got[s] /\ missed'[s] = missed[s]

(* A move of the head of one of its queues. *)
Moves(s) == conn'[s] = conn[s] /\ fwd'[s] = fwd[s]
Passes(s) ==
  /\ Moves(s) /\ pipe[s] # <<>> /\ pipe'[s] = Tail(pipe[s]) /\ got'[s] = got[s]
  /\ queue'[s] = Append(queue[s], Head(pipe[s])) /\ missed'[s] = missed[s]
Misses(s) ==
  /\ Moves(s) /\ pipe[s] # <<>> /\ pipe'[s] = Tail(pipe[s]) /\ got'[s] = got[s]
  /\ queue'[s] = queue[s] /\ missed'[s] = missed[s] \cup {Head(pipe[s])}
Delivers(s) ==
  /\ Moves(s) /\ queue[s] # <<>> /\ queue'[s] = Tail(queue[s]) /\ Head(queue[s]) \in Topics[s]
  /\ got'[s] = Append(got[s], Head(queue[s])) /\ pipe'[s] = pipe[s] /\ missed'[s] = missed[s]
Filters(s) ==
  /\ Moves(s) /\ queue[s] # <<>> /\ queue'[s] = Tail(queue[s]) /\ Head(queue[s]) \notin Topics[s]
  /\ got'[s] = got[s] /\ pipe'[s] = pipe[s] /\ missed'[s] = missed[s]

Turn(s) ==
  \/ Opens(s) \/ Waits(s) \/ Dies(s) \/ Ends(s)
  \/ Passes(s) \/ Misses(s) \/ Delivers(s) \/ Filters(s)

Quiet == pending' \subseteq pending /\ log' = log /\ near' = near /\ far' = far

LEMMA Turns ==
  ASSUME TypeOK, [Next]_vars
  PROVE  \/ \E e \in Events : Publish(e) \/ PublishRedis(e)
         \/ Quiet /\ \A s \in Subscribers : Turn(s)
<1>1. ASSUME NEW e \in Events, PublishLost(e) PROVE Quiet /\ \A s \in Subscribers : Turn(s)
  BY <1>1 DEF PublishLost, sockets, audience, Quiet, Turn, Waits, Still, Held
<1>2. ASSUME NEW s \in Subscribers, Greet(s) \/ Disconnect(s) \/ Listen(s)
      PROVE  Quiet /\ \A r \in Subscribers : Turn(r)
  BY <1>2 DEF Greet, Disconnect, Listen, audience, Quiet, Turn, Waits, Still, Held, TypeOK
<1>3. ASSUME NEW s \in Subscribers, Subscribe(s) PROVE Quiet /\ \A r \in Subscribers : Turn(r)
  BY <1>3 DEF Subscribe, audience, Quiet, Turn, Waits, Opens, Still, Held, TypeOK
<1>4. ASSUME NEW s \in Subscribers, ForwardDies(s) PROVE Quiet /\ \A r \in Subscribers : Turn(r)
  BY <1>4 DEF ForwardDies, audience, Quiet, Turn, Waits, Dies, Still, Held, TypeOK
<1>5. ASSUME NEW s \in Subscribers, Forward(s) PROVE Quiet /\ \A r \in Subscribers : Turn(r)
  <2>1. Quiet
    BY <1>5 DEF Forward, Quiet, audience
  <2>2. ASSUME NEW r \in Subscribers, r # s PROVE Turn(r)
    BY <1>5, <2>2 DEF Forward, Turn, Waits, Still, Held, TypeOK
  <2>3. CASE Full(s)
    <3>1. pipe'[s] = Tail(pipe[s]) /\ missed'[s] = missed[s] \cup {Head(pipe[s])}
      BY <1>5, <2>3 DEF Forward, TypeOK
    <3> QED
      BY <1>5, <2>1, <2>2, <2>3, <3>1 DEF Forward, Misses, Moves, Turn
  <2>4. CASE ~Full(s)
    <3>1. pipe'[s] = Tail(pipe[s]) /\ queue'[s] = Append(queue[s], Head(pipe[s]))
      BY <1>5, <2>4 DEF Forward, TypeOK
    <3> QED
      BY <1>5, <2>1, <2>2, <2>4, <3>1 DEF Forward, Passes, Moves, Turn
  <2> QED
    BY <2>1, <2>2, <2>3, <2>4 DEF Turn
<1>6. ASSUME NEW s \in Subscribers, Send(s) PROVE Quiet /\ \A r \in Subscribers : Turn(r)
  <2>1. Quiet
    BY <1>6 DEF Send, Quiet, audience
  <2>2. ASSUME NEW r \in Subscribers, r # s PROVE Turn(r)
    BY <1>6, <2>2 DEF Send, Turn, Waits, Still, Held, TypeOK
  <2>3. CASE Head(queue[s]) \in Topics[s]
    <3>1. queue'[s] = Tail(queue[s]) /\ got'[s] = Append(got[s], Head(queue[s]))
      BY <1>6, <2>3 DEF Send, TypeOK
    <3> QED
      BY <1>6, <2>1, <2>2, <2>3, <3>1 DEF Send, Delivers, Moves, Turn
  <2>4. CASE Head(queue[s]) \notin Topics[s]
    <3>1. queue'[s] = Tail(queue[s]) /\ got'[s] = got[s]
      BY <1>6, <2>4 DEF Send, TypeOK
    <3> QED
      BY <1>6, <2>1, <2>2, <2>4, <3>1 DEF Send, Filters, Moves, Turn
  <2> QED
    BY <2>1, <2>2, <2>3, <2>4 DEF Turn
<1>7. ASSUME NEW s \in Subscribers, SkipUnsent(s) PROVE Quiet /\ \A r \in Subscribers : Turn(r)
  <2>1. Quiet
    BY <1>7 DEF SkipUnsent, Quiet, audience
  <2>2. ASSUME NEW r \in Subscribers, r # s PROVE Turn(r)
    BY <1>7, <2>2 DEF SkipUnsent, Turn, Waits, Still, Held, TypeOK
  <2>3. Turn(s)
    BY <1>7 DEF SkipUnsent, Filters, Moves, TypeOK, Turn
  <2> QED
    BY <2>1, <2>2, <2>3
<1>8. ASSUME NEW s \in Subscribers, Unsubscribe(s) PROVE Quiet /\ \A r \in Subscribers : Turn(r)
  BY <1>8 DEF Unsubscribe, Close, audience, Quiet, Turn, Waits, Ends, Still, Held, TypeOK
<1>9. ASSUME NEW p \in Processes, Crash(p) PROVE Quiet /\ \A r \in Subscribers : Turn(r)
  BY <1>9 DEF Crash, Close, audience, Quiet, Turn, Waits, Ends, Still, Held, TypeOK
<1>10. CASE UNCHANGED vars
  BY <1>10 DEF vars, sockets, audience, Quiet, Turn, Waits, Still, Held
<1> QED
  BY <1>1, <1>2, <1>3, <1>4, <1>5, <1>6, <1>7, <1>8, <1>9, <1>10 DEF Next, Serve

-----------------------------------------------------------------------------
(* The parts of the invariant. *)

(* A websocket not yet registered has been announced nothing, and only a    *)
(* registered one has a forward task.                                       *)
Outside ==
  \A s \in Subscribers :
    /\ ~Registered(s) => fwd[s] = "none"
    /\ conn[s] \in {"new", "greeted"} => \A e \in Events : s \notin near[e] /\ s \notin far[e]

(* What is under way anywhere was announced. *)
Announced ==
  /\ pending \subseteq ToSet(log)
  /\ pending # {} => Redis
  /\ \A s \in Subscribers : Due(s) \subseteq ToSet(log)

(* What the publisher put into a queue is there or was sent; what Redis sent *)
(* to a task that lives, there or on its way.                                *)
Kept(s) == ToSet(got[s]) \cup ToSet(queue[s])
NearHeld ==
  \A e \in Events, s \in Subscribers :
    Registered(s) /\ e \in Topics[s] /\ e \notin missed[s] /\ s \in near[e] => e \in Kept(s)
FarHeld ==
  \A e \in Events, s \in Subscribers :
    (/\ Registered(s) /\ e \in Topics[s] /\ e \notin missed[s]
     /\ s \in far[e] /\ fwd[s] # "dead") => e \in Due(s)

LEMMA ContainsIs == \A q \in Seq(Events) : \A e : Contains(q, e) <=> e \in ToSet(q)
BY LenNat DEF Contains, ToSet

(* In its own process, and through Redis, an event is sent once at most. *)
Sum(g, q, p, e) == Count(g, e) + Count(q, e) + Count(p, e)
Sent(s, e) ==
  (IF Home[s] = Origin[e] /\ e \in ToSet(log) THEN 1 ELSE 0)
  + (IF Redis /\ e \in ToSet(log) /\ e \notin pending THEN 1 ELSE 0)
Counted == \A s \in Subscribers, e \in Events : Sum(got[s], queue[s], pipe[s], e) <= Sent(s, e)

-----------------------------------------------------------------------------
LEMMA OutsideKept == ASSUME TypeOK, Outside, [Next]_vars PROVE Outside'
<1>1. ASSUME NEW e \in Events, Publish(e) PROVE Outside'
  <2>1. /\ conn' = conn /\ fwd' = fwd /\ far' = far
        /\ \A d \in Events : near'[d] = IF d = e THEN Tuned(e) ELSE near[d]
    BY <1>1 DEF Publish, Announce, TypeOK
  <2> QED
    BY <2>1 DEF Outside, Registered, Tuned
<1>2. ASSUME NEW e \in Events, PublishRedis(e) PROVE Outside'
  <2>1. /\ conn' = conn /\ fwd' = fwd /\ near' = near
        /\ \A d \in Events : far'[d] = IF d = e THEN Listening ELSE far[d]
    BY <1>2 DEF PublishRedis, TypeOK
  <2> QED
    BY <2>1 DEF Outside, Registered, Listening
<1>3. ASSUME Quiet, \A s \in Subscribers : Turn(s) PROVE Outside'
  <2> SUFFICES ASSUME NEW s \in Subscribers
               PROVE  /\ ~Registered(s)' => fwd'[s] = "none"
                      /\ conn'[s] \in {"new", "greeted"} =>
                           \A e \in Events : s \notin near'[e] /\ s \notin far'[e]
    BY DEF Outside
  <2>1. CASE Opens(s) \/ Ends(s)
    BY <2>1 DEF Opens, Ends, Registered
  <2>2. CASE Waits(s)
    BY <1>3, <2>2 DEF Waits, Outside, Registered, Quiet
  <2>3. CASE Dies(s) \/ Passes(s) \/ Misses(s) \/ Delivers(s) \/ Filters(s)
    BY <1>3, <2>3 DEF Dies, Passes, Misses, Delivers, Filters, Moves, Outside, Registered, Quiet
  <2> QED
    BY <1>3, <2>1, <2>2, <2>3 DEF Turn
<1> QED
  BY <1>1, <1>2, <1>3, Turns

(* A turn adds nothing to what a websocket has, and what it loses was       *)
(* filtered, missed, or lost with its task.                                 *)
LEMMA TurnDue ==
  ASSUME TypeOK, NEW s \in Subscribers, Turn(s)
  PROVE  /\ Due(s)' \subseteq Due(s)
         /\ ~Ends(s) => Kept(s) \cap Topics[s] \subseteq Kept(s)'
         /\ ~Ends(s) /\ ~Dies(s) => Due(s) \cap Topics[s] \subseteq Due(s)' \cup missed'[s]
<1>1. got[s] \in Seq(Events) /\ queue[s] \in Seq(Events) /\ pipe[s] \in Seq(Events)
  BY DEF TypeOK
<1> USE DEF Due, Kept
<1>2. CASE Opens(s) \/ Waits(s)
  BY <1>2 DEF Opens, Waits, Still, Held
<1>3. CASE Dies(s)
  BY <1>3, Members DEF Dies, Held
<1>4. CASE Ends(s)
  BY <1>4, Members DEF Ends
<1>5. CASE Passes(s)
  <2>1. Head(pipe[s]) \in Events /\ ToSet(pipe[s]) = ToSet(Tail(pipe[s])) \cup {Head(pipe[s])}
    BY <1>1, <1>5, Members, Shortened DEF Passes
  <2>2. ToSet(Append(queue[s], Head(pipe[s]))) = ToSet(queue[s]) \cup {Head(pipe[s])}
    BY <1>1, <2>1, Members
  <2> QED
    BY <1>5, <2>1, <2>2 DEF Passes
<1>6. CASE Misses(s)
  <2>1. ToSet(pipe[s]) = ToSet(Tail(pipe[s])) \cup {Head(pipe[s])}
    BY <1>1, <1>6, Members DEF Misses
  <2> QED
    BY <1>6, <2>1 DEF Misses
<1>7. CASE Delivers(s)
  <2>1. Head(queue[s]) \in Events /\ ToSet(queue[s]) = ToSet(Tail(queue[s])) \cup {Head(queue[s])}
    BY <1>1, <1>7, Members, Shortened DEF Delivers
  <2>2. ToSet(Append(got[s], Head(queue[s]))) = ToSet(got[s]) \cup {Head(queue[s])}
    BY <1>1, <2>1, Members
  <2> QED
    BY <1>7, <2>1, <2>2 DEF Delivers
<1>8. CASE Filters(s)
  <2>1. ToSet(queue[s]) = ToSet(Tail(queue[s])) \cup {Head(queue[s])}
    BY <1>1, <1>8, Members DEF Filters
  <2> QED
    BY <1>8, <2>1 DEF Filters
<1> QED
  BY <1>2, <1>3, <1>4, <1>5, <1>6, <1>7, <1>8 DEF Turn

(* What publishing adds to a websocket. *)
LEMMA PublishAdds ==
  ASSUME TypeOK, NEW e \in Events, Publish(e), NEW s \in Subscribers
  PROVE  /\ got'[s] = got[s] /\ pipe'[s] = pipe[s] /\ fwd'[s] = fwd[s] /\ conn'[s] = conn[s]
         /\ queue'[s] = IF s \in Tuned(e) /\ ~Full(s) THEN Append(queue[s], e) ELSE queue[s]
         /\ missed'[s] = IF s \in Tuned(e) /\ Full(s) THEN missed[s] \cup {e} ELSE missed[s]
         /\ ToSet(queue'[s]) =
              IF s \in Tuned(e) /\ ~Full(s) THEN ToSet(queue[s]) \cup {e} ELSE ToSet(queue[s])
<1>1. /\ got' = got /\ pipe' = pipe /\ fwd' = fwd /\ conn' = conn
      /\ queue'[s] = IF s \in Tuned(e) /\ ~Full(s) THEN Append(queue[s], e) ELSE queue[s]
      /\ missed'[s] = IF s \in Tuned(e) /\ Full(s) THEN missed[s] \cup {e} ELSE missed[s]
  BY DEF Publish, Announce
<1>2. ToSet(Append(queue[s], e)) = ToSet(queue[s]) \cup {e}
  BY Members DEF TypeOK
<1> QED
  BY <1>1, <1>2

LEMMA PublishLog ==
  ASSUME TypeOK, NEW e \in Events, Publish(e)
  PROVE  /\ e \notin ToSet(log) /\ log' = Append(log, e) /\ ToSet(log)' = ToSet(log) \cup {e}
         /\ far' = far /\ pending' = IF Redis THEN pending \cup {e} ELSE pending
         /\ \A d \in Events : near'[d] = IF d = e THEN Tuned(e) ELSE near[d]
<1>1. /\ ~Contains(log, e) /\ log' = Append(log, e) /\ far' = far
      /\ pending' = IF Redis THEN pending \cup {e} ELSE pending
      /\ \A d \in Events : near'[d] = IF d = e THEN Tuned(e) ELSE near[d]
  BY DEF Publish, Announce, TypeOK
<1>2. ToSet(Append(log, e)) = ToSet(log) \cup {e} /\ e \notin ToSet(log)
  BY <1>1, Members, ContainsIs DEF TypeOK
<1> QED
  BY <1>1, <1>2

LEMMA RedisAdds ==
  ASSUME TypeOK, NEW e \in Events, PublishRedis(e)
  PROVE  /\ log' = log /\ near' = near /\ pending' = pending \ {e} /\ e \in pending
         /\ \A d \in Events : far'[d] = IF d = e THEN Listening ELSE far[d]
         /\ conn' = conn /\ fwd' = fwd /\ queue' = queue /\ got' = got /\ missed' = missed
         /\ \A s \in Subscribers :
              /\ pipe'[s] = IF s \in Listening THEN Append(pipe[s], e) ELSE pipe[s]
              /\ ToSet(pipe'[s]) = IF s \in Listening THEN ToSet(pipe[s]) \cup {e} ELSE ToSet(pipe[s])
<1>1. /\ log' = log /\ near' = near /\ pending' = pending \ {e} /\ e \in pending
      /\ \A d \in Events : far'[d] = IF d = e THEN Listening ELSE far[d]
      /\ conn' = conn /\ fwd' = fwd /\ queue' = queue /\ got' = got /\ missed' = missed
      /\ \A s \in Subscribers : pipe'[s] = IF s \in Listening THEN Append(pipe[s], e) ELSE pipe[s]
  BY DEF PublishRedis, TypeOK
<1>2. \A s \in Subscribers : ToSet(Append(pipe[s], e)) = ToSet(pipe[s]) \cup {e}
  BY Members DEF TypeOK
<1> QED
  BY <1>1, <1>2

LEMMA AnnouncedKept == ASSUME TypeOK, Announced, [Next]_vars PROVE Announced'
<1>1. ASSUME NEW e \in Events, Publish(e) PROVE Announced'
  <2>1. \A s \in Subscribers : Due(s)' \subseteq Due(s) \cup {e}
    BY <1>1, PublishAdds DEF Due
  <2> QED
    BY <1>1, <2>1, PublishLog DEF Announced
<1>2. ASSUME NEW e \in Events, PublishRedis(e) PROVE Announced'
  <2>1. \A s \in Subscribers : Due(s)' \subseteq Due(s) \cup {e}
    BY <1>2, RedisAdds DEF Due
  <2> QED
    BY <1>2, <2>1, RedisAdds DEF Announced
<1>3. ASSUME Quiet, \A s \in Subscribers : Turn(s) PROVE Announced'
  BY <1>3, TurnDue DEF Announced, Quiet
<1> QED
  BY <1>1, <1>2, <1>3, Turns

LEMMA NearHeldKept == ASSUME TypeOK, Outside, NearHeld, [Next]_vars PROVE NearHeld'
<1> SUFFICES ASSUME NEW d \in Events, NEW s \in Subscribers, Registered(s)',
                    d \in Topics[s], d \notin missed'[s], s \in near'[d]
             PROVE  d \in Kept(s)'
  BY DEF NearHeld
<1>1. ASSUME NEW e \in Events, Publish(e) PROVE d \in Kept(s)'
  <2>1. Registered(s) /\ d \notin missed[s]
    BY <1>1, PublishAdds DEF Registered
  <2>2. CASE d = e
    <3>1. s \in Tuned(e)
      BY <1>1, <2>2, PublishLog
    <3>2. ~Full(s)
      BY <1>1, <2>2, <3>1, PublishAdds
    <3>3. ToSet(queue'[s]) = ToSet(queue[s]) \cup {e}
      BY <1>1, <3>1, <3>2, PublishAdds
    <3> QED
      BY <2>2, <3>3 DEF Kept
  <2>3. CASE d # e
    <3>1. s \in near[d]
      BY <1>1, <2>3, PublishLog
    <3>2. d \in Kept(s)
      BY <2>1, <3>1 DEF NearHeld
    <3> QED
      BY <1>1, <3>2, PublishAdds DEF Kept
  <2> QED
    BY <2>2, <2>3
<1>2. ASSUME NEW e \in Events, PublishRedis(e) PROVE d \in Kept(s)'
  BY <1>2, RedisAdds DEF Kept, NearHeld, Registered
<1>3. ASSUME Quiet, \A r \in Subscribers : Turn(r) PROVE d \in Kept(s)'
  <2>1. s \in near[d] /\ d \notin missed[s] /\ Turn(s)
    BY <1>3 DEF Quiet, Turn, Opens, Waits, Dies, Ends, Passes, Misses, Delivers, Filters, Still, Held
  <2>2. ~Opens(s) /\ ~Ends(s) /\ Registered(s)
    BY <2>1 DEF Outside, Opens, Waits, Dies, Ends, Passes, Misses, Delivers, Filters, Moves,
                Turn, Registered
  <2> QED
    BY <2>1, <2>2, TurnDue DEF NearHeld
<1> QED
  BY <1>1, <1>2, <1>3, Turns

LEMMA FarHeldKept == ASSUME TypeOK, Outside, FarHeld, [Next]_vars PROVE FarHeld'
<1> SUFFICES ASSUME NEW d \in Events, NEW s \in Subscribers, Registered(s)',
                    d \in Topics[s], d \notin missed'[s], s \in far'[d], fwd'[s] # "dead"
             PROVE  d \in Due(s)'
  BY DEF FarHeld
<1>1. ASSUME NEW e \in Events, Publish(e) PROVE d \in Due(s)'
  <2>1. Registered(s) /\ d \notin missed[s] /\ fwd[s] # "dead" /\ s \in far[d]
    BY <1>1, PublishAdds, PublishLog DEF Registered
  <2>2. d \in Due(s)
    BY <2>1 DEF FarHeld
  <2> QED
    BY <1>1, <2>2, PublishAdds DEF Due
<1>2. ASSUME NEW e \in Events, PublishRedis(e) PROVE d \in Due(s)'
  <2>1. CASE d = e
    <3>1. s \in Listening
      BY <1>2, <2>1, RedisAdds
    <3>2. ToSet(pipe'[s]) = ToSet(pipe[s]) \cup {e}
      BY <1>2, <3>1, RedisAdds
    <3> QED
      BY <2>1, <3>2 DEF Due
  <2>2. CASE d # e
    <3>1. d \in Due(s)
      BY <1>2, <2>2, RedisAdds DEF FarHeld, Registered
    <3> QED
      BY <1>2, <3>1, RedisAdds DEF Due
  <2> QED
    BY <2>1, <2>2
<1>3. ASSUME Quiet, \A r \in Subscribers : Turn(r) PROVE d \in Due(s)'
  <2>1. s \in far[d] /\ d \notin missed[s] /\ Turn(s)
    BY <1>3 DEF Quiet, Turn, Opens, Waits, Dies, Ends, Passes, Misses, Delivers, Filters, Still, Held
  <2>2. ~Opens(s) /\ ~Ends(s) /\ ~Dies(s) /\ Registered(s)
    BY <2>1 DEF Outside, Opens, Waits, Dies, Ends, Passes, Misses, Delivers, Filters, Moves,
                Turn, Registered
  <2>3. fwd[s] # "dead"
    BY <2>1, <2>2 DEF Opens, Waits, Passes, Misses, Delivers, Filters, Moves, Turn
  <2> QED
    BY <2>1, <2>2, <2>3, TurnDue DEF FarHeld
<1> QED
  BY <1>1, <1>2, <1>3, Turns

(* What is counted anywhere was announced. *)
LEMMA CountNone == \A q \in Seq(Events) : \A e : e \notin ToSet(q) => Count(q, e) = 0
<1> SUFFICES ASSUME NEW q \in Seq(Events), NEW e, e \notin ToSet(q) PROVE Count(q, e) = 0
  OBVIOUS
<1>1. Places(q, e) = {}
  BY DEF Places, ToSet
<1> QED
  BY <1>1, FS_EmptySet DEF Count

LEMMA TurnCounts ==
  ASSUME TypeOK, NEW s \in Subscribers, Turn(s), NEW e
  PROVE  Sum(got'[s], queue'[s], pipe'[s], e) <= Sum(got[s], queue[s], pipe[s], e)
<1>1. got[s] \in Seq(Events) /\ queue[s] \in Seq(Events) /\ pipe[s] \in Seq(Events)
  BY DEF TypeOK
<1>2. Count(got[s], e) \in Nat /\ Count(queue[s], e) \in Nat /\ Count(pipe[s], e) \in Nat
  BY <1>1, CountNat
<1>3. CASE Opens(s) \/ Waits(s)
  BY <1>2, <1>3 DEF Opens, Waits, Still, Held, Sum
<1>4. CASE Dies(s)
  BY <1>2, <1>4, CountEmpty DEF Dies, Held, Sum
<1>5. CASE Ends(s)
  BY <1>2, <1>5, CountEmpty DEF Ends, Sum
<1>6. CASE Passes(s)
  <2>1. Count(pipe[s], e) = Count(Tail(pipe[s]), e) + IF Head(pipe[s]) = e THEN 1 ELSE 0
    BY <1>1, <1>6, CountTail DEF Passes
  <2>2. Head(pipe[s]) \in Events /\ Count(Tail(pipe[s]), e) \in Nat
    BY <1>1, <1>6, Shortened, CountNat DEF Passes
  <2>3. Count(Append(queue[s], Head(pipe[s])), e)
          = Count(queue[s], e) + IF Head(pipe[s]) = e THEN 1 ELSE 0
    BY <1>1, <2>2, CountAppend
  <2>4. /\ Count(pipe'[s], e) = Count(Tail(pipe[s]), e)
        /\ Count(queue'[s], e) = Count(Append(queue[s], Head(pipe[s])), e)
        /\ Count(got'[s], e) = Count(got[s], e)
    BY <1>6 DEF Passes
  <2> QED
    BY <1>2, <2>1, <2>2, <2>3, <2>4 DEF Sum
<1>7. CASE Misses(s)
  <2>1. Count(pipe[s], e) = Count(Tail(pipe[s]), e) + IF Head(pipe[s]) = e THEN 1 ELSE 0
    BY <1>1, <1>7, CountTail DEF Misses
  <2>2. Count(Tail(pipe[s]), e) \in Nat
    BY <1>1, <1>7, Shortened, CountNat DEF Misses
  <2>3. /\ Count(pipe'[s], e) = Count(Tail(pipe[s]), e)
        /\ Count(queue'[s], e) = Count(queue[s], e)
        /\ Count(got'[s], e) = Count(got[s], e)
    BY <1>7 DEF Misses
  <2> QED
    BY <1>2, <2>1, <2>2, <2>3 DEF Sum
<1>8. CASE Delivers(s)
  <2>1. Count(queue[s], e) = Count(Tail(queue[s]), e) + IF Head(queue[s]) = e THEN 1 ELSE 0
    BY <1>1, <1>8, CountTail DEF Delivers
  <2>2. Head(queue[s]) \in Events /\ Count(Tail(queue[s]), e) \in Nat
    BY <1>1, <1>8, Shortened, CountNat DEF Delivers
  <2>3. Count(Append(got[s], Head(queue[s])), e)
          = Count(got[s], e) + IF Head(queue[s]) = e THEN 1 ELSE 0
    BY <1>1, <2>2, CountAppend
  <2>4. /\ Count(queue'[s], e) = Count(Tail(queue[s]), e)
        /\ Count(got'[s], e) = Count(Append(got[s], Head(queue[s])), e)
        /\ Count(pipe'[s], e) = Count(pipe[s], e)
    BY <1>8 DEF Delivers
  <2> QED
    BY <1>2, <2>1, <2>2, <2>3, <2>4 DEF Sum
<1>9. CASE Filters(s)
  <2>1. Count(queue[s], e) = Count(Tail(queue[s]), e) + IF Head(queue[s]) = e THEN 1 ELSE 0
    BY <1>1, <1>9, CountTail DEF Filters
  <2>2. Count(Tail(queue[s]), e) \in Nat
    BY <1>1, <1>9, Shortened, CountNat DEF Filters
  <2>3. /\ Count(queue'[s], e) = Count(Tail(queue[s]), e)
        /\ Count(got'[s], e) = Count(got[s], e)
        /\ Count(pipe'[s], e) = Count(pipe[s], e)
    BY <1>9 DEF Filters
  <2> QED
    BY <1>2, <2>1, <2>2, <2>3 DEF Sum
<1> QED
  BY <1>3, <1>4, <1>5, <1>6, <1>7, <1>8, <1>9 DEF Turn

LEMMA CountedKept == ASSUME TypeOK, Announced, Counted, [Next]_vars PROVE Counted'
<1>0. ASSUME NEW s \in Subscribers, NEW d \in Events
      PROVE  /\ Count(got[s], d) \in Nat /\ Count(queue[s], d) \in Nat /\ Count(pipe[s], d) \in Nat
             /\ Sum(got[s], queue[s], pipe[s], d) \in Nat
  <2>1. Count(got[s], d) \in Nat /\ Count(queue[s], d) \in Nat /\ Count(pipe[s], d) \in Nat
    BY CountNat DEF TypeOK
  <2> QED
    BY <2>1 DEF Sum
<1>1. ASSUME NEW e \in Events, Publish(e), NEW s \in Subscribers, NEW d \in Events
      PROVE  Sum(got'[s], queue'[s], pipe'[s], d) <= Sent(s, d)'
  <2>1. CASE d = e
    <3>1. Count(got[s], d) = 0 /\ Count(queue[s], d) = 0 /\ Count(pipe[s], d) = 0
      BY <1>1, <2>1, PublishLog, CountNone DEF Announced, Due, TypeOK
    <3>2. CASE s \in Tuned(e) /\ ~Full(s)
      <4>1. Count(Append(queue[s], e), d) = 1
        <5>1. Count(Append(queue[s], e), d) = Count(queue[s], d) + IF e = d THEN 1 ELSE 0
          BY CountAppend DEF TypeOK
        <5> QED
          BY <2>1, <3>1, <5>1
      <4>2. Sum(got'[s], queue'[s], pipe'[s], d) = 1
        <5>1. Count(queue'[s], d) = 1 /\ Count(got'[s], d) = 0 /\ Count(pipe'[s], d) = 0
          BY <1>1, <3>1, <3>2, <4>1, PublishAdds
        <5> QED
          BY <5>1 DEF Sum
      <4>3. Sent(s, d)' >= 1
        BY <1>1, <2>1, <3>2, PublishLog DEF Sent, Tuned
      <4>4. Sent(s, d)' \in Nat
        BY DEF Sent
      <4> QED
        BY <4>2, <4>3, <4>4
    <3>3. CASE ~(s \in Tuned(e) /\ ~Full(s))
      <4>1. Count(queue'[s], d) = 0 /\ Count(got'[s], d) = 0 /\ Count(pipe'[s], d) = 0
        BY <1>1, <3>1, <3>3, PublishAdds
      <4> QED
        BY <4>1 DEF Sum, Sent
    <3> QED
      BY <3>2, <3>3
  <2>2. CASE d # e
    <3>1. Count(queue'[s], d) = Count(queue[s], d)
      <4>1. Count(Append(queue[s], e), d) = Count(queue[s], d) + IF e = d THEN 1 ELSE 0
        BY CountAppend DEF TypeOK
      <4>2. Count(Append(queue[s], e), d) = Count(queue[s], d)
        BY <1>0, <2>2, <4>1
      <4>3. queue'[s] = Append(queue[s], e) \/ queue'[s] = queue[s]
        BY <1>1, PublishAdds
      <4> QED
        BY <4>2, <4>3
    <3>2. Sum(got'[s], queue'[s], pipe'[s], d) = Sum(got[s], queue[s], pipe[s], d)
      BY <1>1, <3>1, PublishAdds DEF Sum
    <3>3. Sent(s, d)' = Sent(s, d)
      BY <1>1, <2>2, PublishLog DEF Sent
    <3> QED
      BY <3>2, <3>3 DEF Counted
  <2> QED
    BY <2>1, <2>2
<1>2. ASSUME NEW e \in Events, PublishRedis(e), NEW s \in Subscribers, NEW d \in Events
      PROVE  Sum(got'[s], queue'[s], pipe'[s], d) <= Sent(s, d)'
  <2>1. Count(pipe'[s], d) <= Count(pipe[s], d) + IF e = d THEN 1 ELSE 0
    <3>1. Count(Append(pipe[s], e), d) = Count(pipe[s], d) + IF e = d THEN 1 ELSE 0
      BY CountAppend DEF TypeOK
    <3>2. pipe'[s] = IF s \in Listening THEN Append(pipe[s], e) ELSE pipe[s]
      BY <1>2, RedisAdds
    <3> QED
      BY <1>0, <3>1, <3>2
  <2>2. Sent(s, d)' = Sent(s, d) + IF e = d THEN 1 ELSE 0
    <3>1. e \in ToSet(log) /\ Redis /\ pending' = pending \ {e} /\ e \in pending /\ log' = log
      BY <1>2, RedisAdds DEF Announced
    <3> QED
      BY <3>1 DEF Sent
  <2>3. Count(got'[s], d) = Count(got[s], d) /\ Count(queue'[s], d) = Count(queue[s], d)
    BY <1>2, RedisAdds
  <2>4. Sent(s, d) \in Nat
    BY DEF Sent
  <2>5. Sum(got[s], queue[s], pipe[s], d) <= Sent(s, d)
    BY DEF Counted
  <2>6. Count(pipe'[s], d) \in Nat
    <3>1. TypeOK'
      BY <1>2, PublishRedisTypes
    <3>2. pipe'[s] \in Seq(Events)
      BY <3>1 DEF TypeOK
    <3> QED
      BY <3>2, CountNat
  <2> QED
    BY <1>0, <2>1, <2>2, <2>3, <2>4, <2>5, <2>6 DEF Sum
<1>3. ASSUME Quiet, \A r \in Subscribers : Turn(r), NEW s \in Subscribers, NEW d \in Events
      PROVE  Sum(got'[s], queue'[s], pipe'[s], d) <= Sent(s, d)'
  <2>1. Sum(got'[s], queue'[s], pipe'[s], d) <= Sum(got[s], queue[s], pipe[s], d)
    BY <1>3, TurnCounts
  <2>2. Sent(s, d) <= Sent(s, d)' /\ Sent(s, d) \in Nat /\ Sent(s, d)' \in Nat
    BY <1>3 DEF Sent, Quiet
  <2>3. Sum(got'[s], queue'[s], pipe'[s], d) \in Int
    <3>1. TypeOK'
      BY TypesKept
    <3>2. got'[s] \in Seq(Events) /\ queue'[s] \in Seq(Events) /\ pipe'[s] \in Seq(Events)
      BY <3>1 DEF TypeOK
    <3>3. /\ Count(got'[s], d) \in Nat /\ Count(queue'[s], d) \in Nat /\ Count(pipe'[s], d) \in Nat
      BY <3>2, CountNat
    <3> QED
      BY <3>3 DEF Sum
  <2> QED
    BY <1>0, <2>1, <2>2, <2>3 DEF Counted
<1> QED
  BY <1>1, <1>2, <1>3, Turns DEF Counted

-----------------------------------------------------------------------------
(* The order of what a client sees. *)

(* Up to every b in a sequence there is an a. *)
Precedes(q, a, b) == \A k \in DOMAIN q : q[k] = b => \E j \in 1 .. k : q[j] = a

LEMMA PrecedesAppend ==
  ASSUME NEW q \in Seq(Events), NEW x \in Events, NEW a, NEW b,
         Precedes(q, a, b), x # b \/ a \in ToSet(q)
  PROVE  Precedes(Append(q, x), a, b)
<1> DEFINE r == Append(q, x)
<1>1. /\ Len(q) \in Nat /\ DOMAIN q = 1 .. Len(q) /\ r \in Seq(Events) /\ Len(r) = Len(q) + 1
      /\ \A i \in 1 .. Len(q) : r[i] = q[i]
      /\ r[Len(q) + 1] = x
  BY LenNat, AppendProperties
<1> HIDE DEF r
<1>2. DOMAIN r = 1 .. Len(q) + 1
  BY <1>1, LenNat
<1> SUFFICES ASSUME NEW k \in 1 .. Len(q) + 1, r[k] = b PROVE \E j \in 1 .. k : r[j] = a
  BY <1>2 DEF Precedes, r
<1>3. CASE k \in 1 .. Len(q)
  <2>1. PICK j \in 1 .. k : q[j] = a
    BY <1>1, <1>3 DEF Precedes
  <2> QED
    BY <1>1, <1>3, <2>1
<1>4. CASE k = Len(q) + 1
  <2>1. PICK j \in 1 .. Len(q) : q[j] = a
    BY <1>1, <1>4 DEF ToSet
  <2> QED
    BY <1>1, <1>4, <2>1
<1> QED
  BY <1>1, <1>3, <1>4

(* Anything but an a may be taken out. *)
LEMMA PrecedesDrop ==
  ASSUME NEW p \in Seq(Events), NEW q \in Seq(Events), q # <<>>, NEW a, NEW b,
         Precedes(p \o q, a, b), Head(q) # a
  PROVE  Precedes(p \o Tail(q), a, b)
<1> DEFINE t == Tail(q)
           z == p \o q
           w == p \o t
           l == Len(p)
           m == Len(q)
<1>1. l \in Nat /\ m \in Nat /\ m > 0
  BY LenNat, EmptySeq
<1>2. /\ t \in Seq(Events) /\ Len(t) = m - 1
      /\ Head(q) = q[1] /\ \A i \in 1 .. m - 1 : t[i] = q[i + 1]
  BY HeadTailProperties
<1> HIDE DEF t
<1>3. /\ z \in Seq(Events) /\ Len(z) = l + m
      /\ \A n \in 1 .. l + m : z[n] = IF n <= l THEN p[n] ELSE q[n - l]
  BY ConcatProperties
<1>4. /\ w \in Seq(Events) /\ Len(w) = l + Len(t)
      /\ \A n \in 1 .. l + Len(t) : w[n] = IF n <= l THEN p[n] ELSE t[n - l]
  BY <1>2, ConcatProperties
<1>5. Precedes(z, a, b)
  OBVIOUS
<1> HIDE DEF z, w, l, m
<1>6. l + Len(t) = l + m - 1
  BY <1>1, <1>2
<1>7. DOMAIN z = 1 .. l + m /\ DOMAIN w = 1 .. l + m - 1
  BY <1>3, <1>4, <1>6, LenNat
<1>8. ASSUME NEW n \in 1 .. l + m - 1
      PROVE  w[n] = IF n <= l THEN z[n] ELSE z[n + 1]
  <2>1. w[n] = IF n <= l THEN p[n] ELSE t[n - l]
    BY <1>4, <1>6
  <2>2. CASE n <= l
    <3>1. n \in 1 .. l + m
      BY <1>1
    <3>2. z[n] = p[n]
      BY <1>3, <2>2, <3>1
    <3> QED
      BY <2>1, <2>2, <3>2
  <2>3. CASE ~(n <= l)
    <3>1. n - l \in 1 .. m - 1 /\ n + 1 \in 1 .. l + m /\ ~(n + 1 <= l) /\ (n - l) + 1 = (n + 1) - l
      BY <1>1, <2>3
    <3>2. t[n - l] = q[(n - l) + 1]
      BY <1>2, <3>1
    <3>3. z[n + 1] = q[(n + 1) - l]
      BY <1>3, <3>1
    <3> QED
      BY <2>1, <2>3, <3>1, <3>2, <3>3
  <2> QED
    BY <2>2, <2>3
<1>9. z[l + 1] # a
  <2>1. l + 1 \in 1 .. l + m /\ ~(l + 1 <= l) /\ (l + 1) - l = 1
    BY <1>1
  <2>2. z[l + 1] = q[(l + 1) - l]
    BY <1>3, <2>1
  <2> QED
    BY <1>2, <2>1, <2>2
<1>10. ASSUME NEW k \in 1 .. l + m - 1, w[k] = b PROVE \E j \in 1 .. k : w[j] = a
  <2>1. CASE k <= l
    <3>1. z[k] = b
      BY <1>8, <1>10, <2>1
    <3>2. k \in DOMAIN z
      BY <1>1, <1>7
    <3>3. PICK j \in 1 .. k : z[j] = a
      BY <1>5, <3>1, <3>2 DEF Precedes
    <3>4. j \in 1 .. l + m - 1 /\ j <= l
      BY <1>1, <2>1
    <3> QED
      BY <1>8, <3>3, <3>4
  <2>2. CASE ~(k <= l)
    <3>1. z[k + 1] = b
      BY <1>8, <1>10, <2>2
    <3>2. k + 1 \in DOMAIN z
      BY <1>1, <1>7
    <3>3. PICK j \in 1 .. k + 1 : z[j] = a
      BY <1>5, <3>1, <3>2 DEF Precedes
    <3>4. CASE j <= l
      <4>1. j \in 1 .. l + m - 1 /\ j \in 1 .. k
        BY <1>1, <2>2, <3>4
      <4> QED
        BY <1>8, <3>3, <3>4, <4>1
    <3>5. CASE ~(j <= l)
      <4>1. j # l + 1
        BY <1>9, <3>3
      <4>2. j - 1 \in 1 .. k /\ j - 1 \in 1 .. l + m - 1 /\ ~(j - 1 <= l) /\ (j - 1) + 1 = j
        BY <1>1, <3>5, <4>1
      <4>3. w[j - 1] = z[(j - 1) + 1]
        BY <1>8, <4>2
      <4> QED
        BY <3>3, <4>2, <4>3
    <3> QED
      BY <3>4, <3>5
  <2> QED
    BY <2>1, <2>2
<1>11. Precedes(w, a, b)
  BY <1>7, <1>10 DEF Precedes
<1> QED
  BY <1>11 DEF w, t

LEMMA Joined ==
  \A p \in Seq(Events), q \in Seq(Events) :
    p \o q \in Seq(Events) /\ ToSet(p \o q) = ToSet(p) \cup ToSet(q)
<1> SUFFICES ASSUME NEW p \in Seq(Events), NEW q \in Seq(Events)
             PROVE  p \o q \in Seq(Events) /\ ToSet(p \o q) = ToSet(p) \cup ToSet(q)
  OBVIOUS
<1> DEFINE z == p \o q
           l == Len(p)
<1>1. /\ l \in Nat /\ Len(q) \in Nat /\ DOMAIN p = 1 .. l /\ DOMAIN q = 1 .. Len(q)
  BY LenNat
<1>2. /\ z \in Seq(Events) /\ Len(z) = l + Len(q)
      /\ \A n \in 1 .. l + Len(q) : z[n] = IF n <= l THEN p[n] ELSE q[n - l]
  BY ConcatProperties
<1> HIDE DEF z, l
<1>3. DOMAIN z = 1 .. l + Len(q)
  BY <1>2, LenNat
<1>4. ASSUME NEW n \in 1 .. l + Len(q) PROVE z[n] \in ToSet(p) \cup ToSet(q)
  <2>1. CASE n <= l
    <3>1. n \in DOMAIN p
      BY <1>1, <2>1
    <3>2. z[n] = p[n]
      BY <1>2, <2>1
    <3> QED
      BY <3>1, <3>2 DEF ToSet
  <2>2. CASE n > l
    <3>1. n - l \in DOMAIN q /\ ~(n <= l)
      BY <1>1, <2>2
    <3>2. z[n] = q[n - l]
      BY <1>2, <3>1
    <3> QED
      BY <3>1, <3>2 DEF ToSet
  <2> QED
    BY <1>1, <2>1, <2>2
<1>5. ASSUME NEW n \in 1 .. l PROVE p[n] \in ToSet(z)
  <2>1. n \in 1 .. l + Len(q) /\ n <= l
    BY <1>1
  <2>2. z[n] = p[n] /\ n \in DOMAIN z
    BY <1>2, <1>3, <2>1
  <2> QED
    BY <2>2 DEF ToSet
<1>6. ASSUME NEW n \in 1 .. Len(q) PROVE q[n] \in ToSet(z)
  <2>1. n + l \in 1 .. l + Len(q) /\ ~(n + l <= l) /\ (n + l) - l = n
    BY <1>1
  <2>2. z[n + l] = q[(n + l) - l] /\ n + l \in DOMAIN z
    BY <1>2, <1>3, <2>1
  <2> QED
    BY <2>1, <2>2 DEF ToSet
<1>7. ToSet(z) = ToSet(p) \cup ToSet(q)
  BY <1>1, <1>3, <1>4, <1>5, <1>6 DEF ToSet
<1> QED
  BY <1>2, <1>7 DEF z

(* Sending moves the boundary between what was sent and what is queued. *)
LEMMA SendJoins ==
  ASSUME NEW p \in Seq(Events), NEW q \in Seq(Events), q # <<>>
  PROVE  Append(p, Head(q)) \o Tail(q) = p \o q
<1> DEFINE one == <<Head(q)>>
           t == Tail(q)
<1>1. one \in Seq(Events) /\ t \in Seq(Events) /\ q = one \o t
  BY FirstAndRest
<1>2. Append(p, Head(q)) = p \o one
  BY FirstAndRest, AppendIsConcat
<1> HIDE DEF one, t
<1>3. (p \o one) \o t = p \o (one \o t)
  BY <1>1, ConcatAssociative
<1> QED
  BY <1>1, <1>2, <1>3 DEF t

LEMMA QueueJoins ==
  ASSUME NEW p \in Seq(Events), NEW q \in Seq(Events), NEW x \in Events
  PROVE  p \o Append(q, x) = Append(p \o q, x)
<1> DEFINE one == <<x>>
           r == p \o q
<1>1. one \in Seq(Events) /\ r \in Seq(Events) /\ Append(q, x) = q \o one /\ Append(r, x) = r \o one
  BY AppendIsConcat, Joined
<1> HIDE DEF one
<1>2. (p \o q) \o one = p \o (q \o one)
  BY <1>1, ConcatAssociative
<1> QED
  BY <1>1, <1>2

(* What OwnEventsInOrder says, of whole sequences. *)
Ordered ==
  \A s \in Subscribers : \A m, n \in DOMAIN log :
    (/\ m < n /\ s \in near[log[m]] /\ s \in near[log[n]]
     /\ log[m] \in Topics[s] /\ missed[s] = {} /\ conn[s] = "open")
    => Precedes(got[s] \o queue[s], log[m], log[n])

(* A turn of an open websocket keeps the order of two events, the first of  *)
(* which its topics let through, if the first is there when the second comes *)
(* through Redis.                                                           *)
LEMMA TurnOrder ==
  ASSUME TypeOK, NEW s \in Subscribers, Turn(s), ~Ends(s), NEW a \in Topics[s], NEW b,
         Precedes(got[s] \o queue[s], a, b), a \in Kept(s)
  PROVE  Precedes(got'[s] \o queue'[s], a, b)
<1>1. got[s] \in Seq(Events) /\ queue[s] \in Seq(Events) /\ pipe[s] \in Seq(Events)
  BY DEF TypeOK
<1>2. got[s] \o queue[s] \in Seq(Events) /\ a \in ToSet(got[s] \o queue[s])
  BY <1>1, Joined DEF Kept
<1>3. CASE Opens(s) \/ Waits(s) \/ Dies(s)
  BY <1>3 DEF Opens, Waits, Dies, Still, Held
<1>4. CASE Passes(s)
  <2>1. Head(pipe[s]) \in Events
    BY <1>1, <1>4, Shortened DEF Passes
  <2>2. got[s] \o Append(queue[s], Head(pipe[s])) = Append(got[s] \o queue[s], Head(pipe[s]))
    BY <1>1, <2>1, QueueJoins
  <2>3. Precedes(Append(got[s] \o queue[s], Head(pipe[s])), a, b)
    BY <1>2, <2>1, PrecedesAppend
  <2> QED
    BY <1>4, <2>2, <2>3 DEF Passes
<1>5. CASE Misses(s)
  BY <1>5 DEF Misses
<1>6. CASE Delivers(s)
  <2>1. Append(got[s], Head(queue[s])) \o Tail(queue[s]) = got[s] \o queue[s]
    BY <1>1, <1>6, SendJoins DEF Delivers
  <2> QED
    BY <1>6, <2>1 DEF Delivers
<1>7. CASE Filters(s)
  <2>1. Precedes(got[s] \o Tail(queue[s]), a, b)
    BY <1>1, <1>7, PrecedesDrop DEF Filters
  <2> QED
    BY <1>7, <2>1 DEF Filters
<1> QED
  BY <1>3, <1>4, <1>5, <1>6, <1>7 DEF Turn

LEMMA OrderedKept ==
  ASSUME TypeOK, Outside, Announced, NearHeld, Ordered, [Next]_vars PROVE Ordered'
<1> SUFFICES ASSUME NEW s \in Subscribers, NEW m \in DOMAIN log', NEW n \in DOMAIN log', m < n,
                    s \in near'[log'[m]], s \in near'[log'[n]],
                    log'[m] \in Topics[s], missed'[s] = {}, conn'[s] = "open"
             PROVE  Precedes(got'[s] \o queue'[s], log'[m], log'[n])
  BY DEF Ordered
<1>1. ASSUME NEW e \in Events, Publish(e)
      PROVE  Precedes(got'[s] \o queue'[s], log'[m], log'[n])
  <2> DEFINE a == log[m]
  <2>1. Len(log) \in Nat /\ DOMAIN log = 1 .. Len(log) /\ DOMAIN log' = 1 .. Len(log) + 1
    <3>1. Append(log, e) \in Seq(Events) /\ Len(Append(log, e)) = Len(log) + 1
      BY Appended DEF TypeOK
    <3>2. log' = Append(log, e)
      BY <1>1, PublishLog
    <3> QED
      BY <3>1, <3>2, LenNat DEF TypeOK
  <2>2. log'[Len(log) + 1] = e /\ \A i \in 1 .. Len(log) : log'[i] = log[i]
    <3>1. log' = Append(log, e) /\ log \in Seq(Events)
      BY <1>1, PublishLog DEF TypeOK
    <3> QED
      BY <3>1, AppendProperties
  <2>3. m \in DOMAIN log /\ log'[m] = a
    BY <2>1, <2>2
  <2>4. a \in Events /\ a \in ToSet(log) /\ a # e
    BY <1>1, <2>3, PublishLog DEF ToSet, TypeOK
  <2>5. /\ conn[s] = "open" /\ missed[s] = {} /\ s \in near[a] /\ a \in Topics[s]
    <3>1. conn[s] = "open" /\ missed[s] = {}
      BY <1>1, PublishAdds
    <3>2. s \in near[a]
      BY <1>1, <2>3, <2>4, PublishLog
    <3> QED
      BY <2>3, <3>1, <3>2
  <2>6. a \in Kept(s)
    BY <2>4, <2>5 DEF NearHeld, Registered
  <2>7. got[s] \in Seq(Events) /\ queue[s] \in Seq(Events) /\ got'[s] = got[s]
    BY <1>1, PublishAdds DEF TypeOK
  <2>8. got[s] \o queue[s] \in Seq(Events) /\ ToSet(got[s] \o queue[s]) = Kept(s)
    BY <2>7, Joined DEF Kept
  <2>9. got[s] \o Append(queue[s], e) = Append(got[s] \o queue[s], e)
    BY <2>7, QueueJoins
  <2>10. Precedes(got[s] \o queue[s], a, log'[n])
    <3>1. CASE n \in DOMAIN log
      <4>1. log'[n] = log[n] /\ log[n] # e /\ log[n] \in Events
        BY <1>1, <2>1, <2>2, <3>1, PublishLog DEF ToSet, TypeOK
      <4>2. s \in near[log[n]]
        BY <1>1, <4>1, PublishLog
      <4> QED
        BY <2>3, <2>5, <3>1, <4>1, <4>2 DEF Ordered
    <3>2. CASE n \notin DOMAIN log
      <4>1. n = Len(log) + 1
        BY <2>1, <3>2
      <4>2. log'[n] = e
        BY <2>2, <4>1
      <4>3. e \notin ToSet(got[s] \o queue[s])
        BY <1>1, <2>8, PublishLog DEF Announced, Due, Kept
      <4> QED
        BY <4>2, <4>3 DEF Precedes, ToSet
    <3> QED
      BY <3>1, <3>2
  <2>11. Precedes(Append(got[s] \o queue[s], e), a, log'[n])
    BY <2>6, <2>8, <2>10, PrecedesAppend
  <2>12. queue'[s] = queue[s] \/ queue'[s] = Append(queue[s], e)
    BY <1>1, PublishAdds
  <2> QED
    BY <2>3, <2>7, <2>9, <2>10, <2>11, <2>12
<1>2. ASSUME NEW e \in Events, PublishRedis(e)
      PROVE  Precedes(got'[s] \o queue'[s], log'[m], log'[n])
  <2>1. log' = log /\ near' = near /\ got' = got /\ queue' = queue /\ conn' = conn /\ missed' = missed
    BY <1>2, RedisAdds
  <2> QED
    BY <2>1 DEF Ordered
<1>3. ASSUME Quiet, \A r \in Subscribers : Turn(r)
      PROVE  Precedes(got'[s] \o queue'[s], log'[m], log'[n])
  <2>1. log' = log /\ near' = near /\ Turn(s)
    BY <1>3 DEF Quiet
  <2>2. log[m] \in Events
    BY <2>1 DEF TypeOK
  <2>3. ~Ends(s)
    BY DEF Ends
  <2>4. ~Opens(s)
    BY <2>1, <2>2 DEF Opens, Outside
  <2>5. conn[s] = "open" /\ missed[s] = {}
    BY <2>1, <2>3, <2>4 DEF Turn, Waits, Dies, Passes, Misses, Delivers, Filters, Moves, Still, Held
  <2>6. log[m] \in Kept(s)
    BY <2>1, <2>2, <2>5 DEF NearHeld, Registered
  <2>7. Precedes(got[s] \o queue[s], log[m], log[n])
    BY <2>1, <2>5 DEF Ordered
  <2> QED
    BY <2>1, <2>3, <2>6, <2>7, TurnOrder
<1> QED
  BY <1>1, <1>2, <1>3, Turns

-----------------------------------------------------------------------------
(* The invariant, and what follows from it. *)

BrokerInv ==
  /\ TypeOK /\ Outside /\ Announced
  /\ NearHeld /\ FarHeld /\ Counted /\ Ordered

LEMMA InvBegins == Init => BrokerInv
<1> SUFFICES ASSUME Init PROVE BrokerInv
  OBVIOUS
<1>1. TypeOK
  BY TypesBegin
<1>2. /\ pending = {} /\ log = <<>>
      /\ \A e \in Events : near[e] = {} /\ far[e] = {}
      /\ \A s \in Subscribers :
           /\ conn[s] = "new" /\ fwd[s] = "none"
           /\ queue[s] = <<>> /\ pipe[s] = <<>> /\ got[s] = <<>>
  BY DEF Init
<1>3. Outside /\ NearHeld /\ FarHeld
  BY <1>2 DEF Outside, NearHeld, FarHeld, Registered
<1>4. Announced
  BY <1>2, Members DEF Announced, Due
<1>5. Counted
  <2>1. ASSUME NEW s \in Subscribers, NEW e \in Events
        PROVE  Sum(got[s], queue[s], pipe[s], e) = 0 /\ Sent(s, e) \in Nat
    <3>1. Sum(got[s], queue[s], pipe[s], e) = 0
      BY <1>2, CountEmpty DEF Sum
    <3>2. Sent(s, e) \in Nat
      BY DEF Sent
    <3> QED
      BY <3>1, <3>2
  <2>2. \A s \in Subscribers, e \in Events : Sum(got[s], queue[s], pipe[s], e) <= Sent(s, e)
    BY <2>1
  <2> QED
    BY <2>2 DEF Counted
<1>6. Ordered
  <2>1. DOMAIN log = {}
    BY <1>2
  <2> QED
    BY <2>1 DEF Ordered
<1> QED
  BY <1>1, <1>3, <1>4, <1>5, <1>6 DEF BrokerInv

LEMMA InvKept == BrokerInv /\ [Next]_vars => BrokerInv'
BY TypesKept, OutsideKept, AnnouncedKept, NearHeldKept, FarHeldKept, CountedKept, OrderedKept
   DEF BrokerInv

LEMMA InvAlways == Spec => []BrokerInv
BY InvBegins, InvKept, PTL DEF Spec

(* However local delivery and delivery through Redis interleave (publish,   *)
(* _deliver_local and _forward_redis in broker.py), a client is never sent  *)
(* more copies of an event than there are paths from its publisher.         *)
THEOREM OneCopyPerPathAlways == Spec => []OneCopyPerPath
<1>1. BrokerInv => OneCopyPerPath
  <2> SUFFICES ASSUME BrokerInv, NEW s \in Subscribers, NEW e \in Events
               PROVE  Copies(s, e) <= Paths(s, e)
    BY DEF OneCopyPerPath
  <2>1. got[s] \in Seq(Events) /\ queue[s] \in Seq(Events) /\ pipe[s] \in Seq(Events)
    BY DEF BrokerInv, TypeOK
  <2>2. Count(got[s] \o queue[s], e) = Count(got[s], e) + Count(queue[s], e)
    BY <2>1, CountConcat
  <2>3. Count((got[s] \o queue[s]) \o pipe[s], e) = Count(got[s] \o queue[s], e) + Count(pipe[s], e)
    <3> DEFINE both == got[s] \o queue[s]
    <3>1. both \in Seq(Events)
      BY <2>1, Joined
    <3> HIDE DEF both
    <3>2. Count(both \o pipe[s], e) = Count(both, e) + Count(pipe[s], e)
      BY <2>1, <3>1, CountConcat
    <3> QED
      BY <3>2 DEF both
  <2>4. Copies(s, e) = Sum(got[s], queue[s], pipe[s], e)
    BY <2>2, <2>3 DEF Copies, Count, Places, Sum
  <2>5. Sum(got[s], queue[s], pipe[s], e) <= Sent(s, e)
    BY DEF BrokerInv, Counted
  <2>6. Sum(got[s], queue[s], pipe[s], e) \in Nat
    <3>1. Count(got[s], e) \in Nat /\ Count(queue[s], e) \in Nat /\ Count(pipe[s], e) \in Nat
      BY <2>1, CountNat
    <3> QED
      BY <3>1 DEF Sum
  <2>7. Sent(s, e) <= Paths(s, e) /\ Sent(s, e) \in Nat /\ Paths(s, e) \in Nat
    BY DEF Sent, Paths
  <2> QED
    BY <2>4, <2>5, <2>6, <2>7
<1> QED
  BY <1>1, InvAlways, PTL

(* The local queues are filled before publish (broker.py) first awaits, so  *)
(* a client sees what its own process publishes in that order, whatever     *)
(* overtakes what on the way through Redis.                                 *)
THEOREM OwnEventsInOrderAlways == Spec => []OwnEventsInOrder
<1>1. BrokerInv => OwnEventsInOrder
  <2> SUFFICES ASSUME BrokerInv, NEW s \in Subscribers, NEW m \in DOMAIN log, NEW n \in DOMAIN log,
                      m < n, s \in near[log[m]], s \in near[log[n]], log[m] \in Topics[s],
                      missed[s] = {}, conn[s] = "open",
                      NEW k \in DOMAIN (got[s] \o queue[s]), (got[s] \o queue[s])[k] = log[n]
               PROVE  Contains(SubSeq(got[s] \o queue[s], 1, k), log[m])
    BY DEF OwnEventsInOrder
  <2> DEFINE seen == got[s] \o queue[s]
  <2>1. seen \in Seq(Events) /\ DOMAIN seen = 1 .. Len(seen) /\ Len(seen) \in Nat
    <3>1. seen \in Seq(Events)
      BY Joined DEF BrokerInv, TypeOK
    <3> HIDE DEF seen
    <3> QED
      BY <3>1, LenNat
  <2>2. PICK j \in 1 .. k : seen[j] = log[m]
    BY DEF BrokerInv, Ordered, Precedes
  <2> HIDE DEF seen
  <2>3. k \in 1 .. Len(seen)
    BY <2>1 DEF seen
  <2> DEFINE part == SubSeq(seen, 1, k)
  <2>4. part \in Seq(Events) /\ Len(part) = k /\ part[j] = seen[j]
    <3>1. \A i \in 1 .. k : seen[i] \in Events
      BY <2>1, <2>3
    <3> QED
      BY <2>1, <2>2, <2>3, <3>1, SubSeqProperties
  <2> HIDE DEF part
  <2>5. j \in 1 .. Len(part)
    BY <2>2, <2>4
  <2>6. Contains(part, log[m])
    BY <2>2, <2>4, <2>5 DEF Contains
  <2> QED
    BY <2>6 DEF part, seen
<1> QED
  BY <1>1, InvAlways, PTL

(* Between publish and the client (broker.py, and the loop that sends in    *)
(* api/events.py) an event is only ever dropped at a full queue, filtered   *)
(* by the topics, or lost with Redis where Redis was its only path.         *)
THEOREM NothingSlipsAwayAlways == Spec => []NothingSlipsAway
<1>1. BrokerInv => NothingSlipsAway
  <2> SUFFICES ASSUME BrokerInv, NEW e \in Events, NEW s \in Subscribers,
                      Registered(s), e \in Topics[s], e \notin missed[s],
                      s \in near[e] \/ (s \in far[e] /\ fwd[s] # "dead")
               PROVE  e \in Due(s)
    BY DEF NothingSlipsAway
  <2>1. CASE s \in near[e]
    BY <2>1 DEF BrokerInv, NearHeld, Kept, Due
  <2>2. CASE s \in far[e] /\ fwd[s] # "dead"
    BY <2>2 DEF BrokerInv, FarHeld
  <2> QED
    BY <2>1, <2>2
<1> QED
  BY <1>1, InvAlways, PTL

=============================================================================
