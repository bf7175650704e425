---------------------------- MODULE RequestsProofs ----------------------------
(***************************************************************************)
(* Proofs about the parts that answer requests, one after the other, and   *)
(* about their composition; those of Surface and of Ingestion have modules *)
(* of their own.  Gateway: that nothing admin is left out of the audit log *)
(* is a matter of what a call's place implies (Placed).  That the limiter  *)
(* is exact rests on the set in Redis still holding every call that passed *)
(* less than Window - Delay ago (Recent), whatever was dropped from it; so *)
(* a call that passes counts all of them, at every instant (Under).        *)
(* Aliases: while nothing excuses a process, its map is the table but for  *)
(* the one write of its own that is under way (Faithful).  Intentions: one *)
(* that no two checks had before them at once is held by one at most and   *)
(* by none after it fired (Once), and each firing is with its check, on    *)
(* its way out or told (Accounted).  Dynamics: at most one request is  *)
(* about to insert the row, and who updates it is the user it is of        *)
(* (Reviewer); while no two reviews read the same row, the row counts what *)
(* the log holds, and so does what a review read (Tally).                  *)
(***************************************************************************)
EXTENDS MCRequests, SurfaceProofs, IngestionProofs, SequenceTheorems, FiniteSetTheorems,
        WellFoundedInduction, TLAPS

-----------------------------------------------------------------------------
(* Gateway                                                                 *)

(* What is known of a call where it stands. *)
Placed(c) ==
  /\ at[c] = "answered" <=> answer[c] # "none"
  /\ at[c] \in {"admitted", "stamped", "serving"} => Asks[c] \in Scopes[KeyOf[c]]
  /\ c \in audit \cup persists =>
       answer[c] = "ok" /\ Asks[c] = "admin" /\ Asks[c] \in Scopes[KeyOf[c]]
  /\ answer[c] = "ok" /\ Door[c] = "http" /\ Asks[c] = "admin" => c \in audit \cup persists \cup lost

Answering == GatewayTypeOK /\ \A c \in Calls : Placed(c)

-----------------------------------------------------------------------------
LEMMA AnsweringInit == GatewayInit => Answering
BY GatewayAssumption DEF GatewayInit, Answering, Placed, GatewayTypeOK, Instants

LEMMA AnsweringNext == Answering /\ [GatewayNext]_gatewayVars => Answering'
<1> SUFFICES ASSUME Answering, [GatewayNext]_gatewayVars PROVE Answering'
  OBVIOUS
<1> USE GatewayAssumption DEF Answering, limits, trail, calling, Trouble
<1>1. ASSUME NEW c \in Calls, Arrive(c) PROVE Answering'
  BY <1>1 DEF Arrive, Move, Reply, Placed, GatewayTypeOK
<1>2. ASSUME NEW c \in Calls, ReadClock(c) PROVE Answering'
  BY <1>2 DEF ReadClock, Move, Placed, GatewayTypeOK
<1>3. ASSUME NEW c \in Calls, CheckLimit(c) \/ FailOpen(c) PROVE Answering'
  <2>1. clock + Window + 1 \in 0 .. MaxClock + Window + 1
    BY DEF GatewayTypeOK, Instants
  <2>2. KeyOf[c] \in Keys /\ Kept(c) \cup {c} \in SUBSET Calls
    BY DEF Kept, GatewayTypeOK
  <2>3. /\ window' \in [Keys -> SUBSET Calls]
        /\ expires' \in [Keys -> 0 .. MaxClock + Window + 1]
    <3>1. CASE Count(c)
      BY <2>1, <2>2, <3>1 DEF Count, GatewayTypeOK
    <3>2. CASE UNCHANGED <<window, expires>>
      BY <3>2 DEF GatewayTypeOK
    <3> QED
      BY <1>3, <3>1, <3>2 DEF CheckLimit, FailOpen
  <2>4. CASE CheckLimit(c)
    BY <2>3, <2>4 DEF CheckLimit, Move, Reply, Placed, GatewayTypeOK
  <2>5. CASE FailOpen(c)
    BY <2>3, <2>5 DEF FailOpen, Move, Placed, GatewayTypeOK
  <2> QED
    BY <1>3, <2>4, <2>5
<1>4. ASSUME NEW c \in Calls, Serve(c) PROVE Answering'
  BY <1>4 DEF Serve, Reply, Placed, GatewayTypeOK
<1>5. ASSUME NEW c \in Calls, ServeFails(c) PROVE Answering'
  BY <1>5 DEF ServeFails, Reply, Placed, GatewayTypeOK
<1>6. ASSUME NEW c \in Calls, Persist(c) \/ PersistFails(c) PROVE Answering'
  BY <1>6 DEF Persist, PersistFails, Placed, GatewayTypeOK
<1>7. CASE Tick
  BY <1>7 DEF Tick, Placed, GatewayTypeOK, Instants
<1>8. CASE UNCHANGED gatewayVars
  BY <1>8 DEF gatewayVars, Placed, GatewayTypeOK
<1> QED
  BY <1>1, <1>2, <1>3, <1>4, <1>5, <1>6, <1>7, <1>8 DEF GatewayNext

LEMMA AnsweringAlways == GatewaySpec => []Answering
BY AnsweringInit, AnsweringNext, PTL DEF GatewaySpec

(* Every variable stays within its range, for every number of calls, keys   *)
(* and instants.                                                            *)
THEOREM GatewayTypeAlways == GatewaySpec => []GatewayTypeOK
<1>1. Answering => GatewayTypeOK
  BY DEF Answering
<1> QED
  BY AnsweringAlways, <1>1, PTL

(* Whatever fails and whichever keys are revoked meanwhile, an admin call   *)
(* that was answered is in the log, on its way there, or its row was refused *)
(* by the database (audit/middleware.py:39-113); nothing else is there.     *)
THEOREM AuditedOrLostAlways == GatewaySpec => []AuditedOrLost
<1>1. Answering => AuditedOrLost
  BY DEF Answering, Placed, AuditedOrLost, GatewayTypeOK
<1> QED
  BY AnsweringAlways, <1>1, PTL

-----------------------------------------------------------------------------
(* The limiter's times: a call reads the clock at most Delay before Redis   *)
(* counts it.                                                               *)
Timed(c) ==
  /\ at[c] = "stamped" => stamp[c] <= clock /\ clock <= stamp[c] + Delay
  /\ ran[c] >= 0 => /\ at[c] \in {"serving", "answered"} /\ ran[c] <= clock
                    /\ stamp[c] <= ran[c] /\ ran[c] <= stamp[c] + Delay

(* What is counted is the key's, and past the limiter. *)
Counted(k) ==
  \A d \in window[k] : KeyOf[d] = k /\ at[d] \in {"serving", "answered"}

(* Nothing recent is ever dropped from the set. *)
Recent(c) ==
  ran[c] >= 0 /\ ran[c] > clock - (Window - Delay) =>
    c \in window[KeyOf[c]] /\ expires[KeyOf[c]] > ran[c] + Window

(* The limit holds in the window before every instant. *)
Under ==
  \A k \in Keys, t \in Instants : Cardinality(Passed(k, t - (Window - Delay), t)) <= Limit

(* The calls that a denial is accounted to. *)
Causes(c) ==
  {d \in Calls \ {c} : /\ KeyOf[d] = KeyOf[c] /\ at[d] \in {"serving", "answered"}
                       /\ stamp[d] > stamp[c] - Window}

Blamed(c) == answer[c] = "rate_limited" => Cardinality(Causes(c)) >= Limit

Exact ==
  /\ \A c \in Calls : Timed(c) /\ Recent(c) /\ Blamed(c)
  /\ \A k \in Keys : Counted(k)
  /\ Under

LEMMA ExactInit == GatewayInit => Exact
<1> SUFFICES ASSUME GatewayInit PROVE Exact
  OBVIOUS
<1>1. \A k \in Keys, t \in Instants : Passed(k, t - (Window - Delay), t) = {}
  BY GatewayAssumption DEF GatewayInit, Passed
<1>2. Cardinality({}) = 0
  BY FS_EmptySet
<1>3. Under
  BY <1>1, <1>2, GatewayAssumption DEF Under
<1> QED
  BY <1>3 DEF GatewayInit, Exact, Timed, Recent, Blamed, Counted

(* Denials stay justified: calls move on, and their stamps stay. *)
LEMMA BlameStays ==
  ASSUME NEW c \in Calls, Blamed(c), answer'[c] = answer[c],
         \A d \in Calls : at[d] \in {"serving", "answered"} =>
                          at'[d] \in {"serving", "answered"} /\ stamp'[d] = stamp[d],
         answer[c] = "rate_limited" => at[c] = "answered"
  PROVE  Blamed(c)'
<1> SUFFICES ASSUME answer[c] = "rate_limited" PROVE Cardinality(Causes(c)') >= Limit
  BY DEF Blamed
<1>1. Causes(c) \subseteq Causes(c)'
  BY DEF Causes
<1>2. IsFiniteSet(Causes(c)) /\ IsFiniteSet(Causes(c)')
  BY GatewayAssumption, FS_Subset DEF Causes
<1>3. Cardinality(Causes(c)) <= Cardinality(Causes(c)')
  BY <1>1, <1>2, FS_Subset
<1>4. Cardinality(Causes(c)) \in Nat /\ Cardinality(Causes(c)') \in Nat
  BY <1>2, FS_CardinalityType
<1> QED
  BY <1>3, <1>4, GatewayAssumption DEF Blamed

(* What a call finds in the set when Redis runs its block: every call of its *)
(* key that passed less than Window - Delay ago.                            *)
LEMMA RecentIsKept ==
  ASSUME Answering, Exact, NEW c \in Calls, at[c] = "stamped",
         NEW d \in Calls, KeyOf[d] = KeyOf[c], ran[d] >= 0, ran[d] > clock - (Window - Delay)
  PROVE  d \in Kept(c)
<1>1. d \in window[KeyOf[c]] /\ expires[KeyOf[c]] > ran[d] + Window
  BY DEF Exact, Recent
<1>2. stamp[c] <= clock /\ ran[d] <= stamp[d] + Delay
  BY DEF Exact, Timed
<1>3. /\ clock \in Int /\ Window \in Int /\ Delay \in Int /\ Delay >= 0
      /\ stamp[c] \in Int /\ stamp[d] \in Int /\ ran[d] \in Int /\ expires[KeyOf[c]] \in Int
  BY GatewayAssumption DEF Answering, GatewayTypeOK, Instants
<1> QED
  BY <1>1, <1>2, <1>3 DEF Kept

LEMMA KeptIsFinite ==
  ASSUME Answering, NEW c \in Calls
  PROVE  IsFiniteSet(Kept(c)) /\ Cardinality(Kept(c)) \in Nat
<1>1. Kept(c) \in SUBSET Calls
  BY GatewayAssumption DEF Answering, GatewayTypeOK, Kept
<1>2. IsFiniteSet(Kept(c))
  BY <1>1, GatewayAssumption, FS_Subset
<1> QED
  BY <1>2, FS_CardinalityType

(* Counting a call drops nothing recent. *)
LEMMA CountKeepsRecent ==
  ASSUME Answering, Exact, NEW c \in Calls, at[c] = "stamped", Count(c), clock' = clock,
         NEW d \in Calls, ran'[d] = ran[d] \/ (d = c /\ ran'[d] = clock)
  PROVE  Recent(d)'
<1> SUFFICES ASSUME ran'[d] >= 0, ran'[d] > clock - (Window - Delay)
             PROVE  d \in window'[KeyOf[d]] /\ expires'[KeyOf[d]] > ran'[d] + Window
  BY DEF Recent
<1>1. /\ clock \in Nat /\ Window \in Nat /\ Delay \in Nat
      /\ ran[d] \in Int /\ expires[KeyOf[d]] \in Int /\ KeyOf[c] \in Keys /\ KeyOf[d] \in Keys
  BY GatewayAssumption DEF Answering, GatewayTypeOK, Instants
<1>2. window' = [window EXCEPT ![KeyOf[c]] = Kept(c) \cup {c}]
      /\ expires' = [expires EXCEPT ![KeyOf[c]] = clock + Window + 1]
  BY DEF Count
<1>3. CASE KeyOf[d] # KeyOf[c]
  <2>1. ran'[d] = ran[d] /\ window'[KeyOf[d]] = window[KeyOf[d]]
        /\ expires'[KeyOf[d]] = expires[KeyOf[d]]
    BY <1>1, <1>2, <1>3 DEF Answering, GatewayTypeOK
  <2> QED
    BY <2>1 DEF Exact, Recent
<1>4. CASE KeyOf[d] = KeyOf[c]
  <2>1. window'[KeyOf[d]] = Kept(c) \cup {c} /\ expires'[KeyOf[d]] = clock + Window + 1
    BY <1>1, <1>2, <1>4 DEF Answering, GatewayTypeOK
  <2>2. CASE d = c /\ ran'[d] = clock
    BY <1>1, <2>1, <2>2
  <2>3. CASE ran'[d] = ran[d]
    <3>1. d \in Kept(c)
      BY <1>4, <2>3, RecentIsKept
    <3>2. ran[d] <= clock
      BY <2>3 DEF Exact, Timed
    <3> QED
      BY <1>1, <2>1, <2>3, <3>1, <3>2
  <2> QED
    BY <2>2, <2>3
<1> QED
  BY <1>3, <1>4

(* A call that passes is one of at most Limit that passed recently, itself  *)
(* included; windows that end earlier do not see it.                        *)
LEMMA PassingStaysUnder ==
  ASSUME Answering, Exact, NEW c \in Calls, at[c] = "stamped", clock' = clock,
         Cardinality(Kept(c)) + 1 <= Limit, ran' = [ran EXCEPT ![c] = clock]
  PROVE  Under'
<1> SUFFICES ASSUME NEW k \in Keys, NEW t \in Instants
             PROVE  Cardinality(Passed(k, t - (Window - Delay), t)') <= Limit
  BY DEF Under
<1>1. /\ clock \in Nat /\ Window \in Nat /\ Delay \in Nat /\ t \in Nat /\ Limit \in Nat
      /\ \A d \in Calls : ran[d] \in Int
  BY GatewayAssumption DEF Answering, GatewayTypeOK, Instants
<1>2. ran'[c] = clock /\ \A d \in Calls \ {c} : ran'[d] = ran[d]
  BY DEF Answering, GatewayTypeOK
<1>3. ran[c] < 0
  BY <1>1 DEF Exact, Timed
<1>4. \A d \in Calls : ran[d] >= 0 => ran[d] <= clock
  BY DEF Exact, Timed
<1>5. CASE k = KeyOf[c] /\ clock <= t
  <2>1. Passed(k, t - (Window - Delay), t)' \subseteq Kept(c) \cup {c}
    <3> SUFFICES ASSUME NEW d \in Calls, d # c, KeyOf[d] = k, ran'[d] >= 0,
                        ran'[d] \in t - (Window - Delay) + 1 .. t
                 PROVE  d \in Kept(c)
      BY DEF Passed
    <3>1. ran[d] >= 0 /\ ran[d] > clock - (Window - Delay)
      BY <1>1, <1>2, <1>5
    <3> QED
      BY <1>5, <3>1, RecentIsKept
  <2>2. IsFiniteSet(Kept(c)) /\ Cardinality(Kept(c)) \in Nat
    BY KeptIsFinite
  <2>3. IsFiniteSet(Kept(c) \cup {c}) /\ Cardinality(Kept(c) \cup {c}) <= Cardinality(Kept(c)) + 1
    BY <2>2, FS_AddElement
  <2>4. Cardinality(Kept(c) \cup {c}) \in Nat
    BY <2>3, FS_CardinalityType
  <2>5. /\ IsFiniteSet(Passed(k, t - (Window - Delay), t)')
        /\ Cardinality(Passed(k, t - (Window - Delay), t)') <= Cardinality(Kept(c) \cup {c})
    BY <2>1, <2>3, FS_Subset
  <2>6. Cardinality(Passed(k, t - (Window - Delay), t)') \in Nat
    BY <2>5, FS_CardinalityType
  <2> QED
    BY <1>1, <2>2, <2>3, <2>4, <2>5, <2>6
<1>6. CASE ~(k = KeyOf[c] /\ clock <= t)
  <2>1. Passed(k, t - (Window - Delay), t)' = Passed(k, t - (Window - Delay), t)
    <3>1. \A d \in Calls :
            (KeyOf[d] = k /\ ran'[d] >= 0 /\ ran'[d] \in t - (Window - Delay) + 1 .. t)
            <=> (KeyOf[d] = k /\ ran[d] >= 0 /\ ran[d] \in t - (Window - Delay) + 1 .. t)
      <4> TAKE d \in Calls
      <4>1. CASE d = c
        BY <1>1, <1>2, <1>3, <1>6, <4>1
      <4>2. CASE d # c
        BY <1>2, <4>2
      <4> QED
        BY <4>1, <4>2
    <3> QED
      BY <3>1 DEF Passed
  <2> QED
    BY <2>1 DEF Exact, Under
<1> QED
  BY <1>5, <1>6

(* Steps after which everything the limiter has counted is as it was. *)
LEMMA AsideKeepsExact ==
  ASSUME Answering, Exact, NEW c \in Calls, at[c] \in {"new", "admitted", "serving", "answered"},
         at' = [at EXCEPT ![c] = at'[c]],
         at[c] \in {"serving", "answered"} => at'[c] \in {"serving", "answered"} /\ stamp' = stamp,
         at'[c] = "stamped" => stamp'[c] = clock,
         stamp' = [stamp EXCEPT ![c] = stamp'[c]],
         \A d \in Calls : answer'[d] = answer[d] \/ answer'[d] # "rate_limited",
         UNCHANGED <<clock, window, expires, ran>>
  PROVE  Exact'
<1>1. /\ clock \in Nat /\ Delay \in Nat
      /\ \A d \in Calls : stamp[d] \in Int /\ ran[d] \in Int
  BY GatewayAssumption DEF Answering, GatewayTypeOK, Instants
<1>2. \A d \in Calls \ {c} : at'[d] = at[d] /\ stamp'[d] = stamp[d]
  BY DEF Answering, GatewayTypeOK
<1>3. \A d \in Calls : Timed(d)'
  <2> TAKE d \in Calls
  <2>1. CASE d = c
    BY <1>1, <2>1 DEF Exact, Timed
  <2>2. CASE d # c
    BY <1>2, <2>2 DEF Exact, Timed
  <2> QED
    BY <2>1, <2>2
<1>4. \A d \in Calls : at[d] \in {"serving", "answered"} =>
                       at'[d] \in {"serving", "answered"} /\ stamp'[d] = stamp[d]
  BY <1>2
<1>5. \A d \in Calls : Blamed(d)'
  <2> TAKE d \in Calls
  <2>1. CASE answer'[d] = answer[d]
    BY <1>4, <2>1, BlameStays DEF Exact, Answering, Placed
  <2>2. CASE answer'[d] # "rate_limited"
    BY <2>2 DEF Blamed
  <2> QED
    BY <2>1, <2>2
<1>6. \A d \in Calls : Recent(d)'
  BY DEF Exact, Recent
<1>7. \A k \in Keys : Counted(k)'
  BY <1>4 DEF Exact, Counted, Answering, GatewayTypeOK
<1>8. Under'
  BY DEF Exact, Under, Passed
<1> QED
  BY <1>3, <1>5, <1>6, <1>7, <1>8 DEF Exact

(* Steps of a call at the limiter. *)
LEMMA LimitKeepsExact ==
  ASSUME Answering, Exact, NEW c \in Calls, CheckLimit(c) \/ FailOpen(c)
  PROVE  Exact'
<1>1. /\ at[c] = "stamped" /\ at'[c] \in {"serving", "answered"}
      /\ \A d \in Calls \ {c} : at'[d] = at[d] /\ answer'[d] = answer[d]
      /\ UNCHANGED <<clock, stamp>>
  BY DEF CheckLimit, FailOpen, Move, Reply, Answering, GatewayTypeOK
<1>2. ran' = ran \/ (ran' = [ran EXCEPT ![c] = clock] /\ Cardinality(Kept(c)) + 1 <= Limit)
  <2>1. Cardinality(Kept(c)) + 1 > Limit \/ Cardinality(Kept(c)) + 1 <= Limit
    BY KeptIsFinite, GatewayAssumption
  <2> QED
    BY <2>1 DEF CheckLimit, FailOpen
<1>3. \A d \in Calls : ran'[d] = ran[d] \/ (d = c /\ ran'[d] = clock)
  BY <1>2 DEF Answering, GatewayTypeOK
<1>4. Count(c) \/ (UNCHANGED <<window, expires>> /\ ran' = ran)
  BY DEF CheckLimit, FailOpen
<1>5. \A d \in Calls : at[d] \in {"serving", "answered"} =>
                       at'[d] \in {"serving", "answered"} /\ stamp'[d] = stamp[d]
  BY <1>1
<1>6. \A d \in Calls : Timed(d)'
  <2> TAKE d \in Calls
  <2>1. /\ clock \in Nat /\ stamp[d] \in Int /\ ran[d] \in Int
    BY DEF Answering, GatewayTypeOK, Instants
  <2>2. CASE d = c
    BY <1>1, <1>3, <2>1, <2>2 DEF Exact, Timed
  <2>3. CASE d # c
    BY <1>1, <1>3, <2>3 DEF Exact, Timed
  <2> QED
    BY <2>2, <2>3
<1>7. \A d \in Calls : Recent(d)'
  <2> TAKE d \in Calls
  <2>1. CASE Count(c)
    BY <1>1, <1>3, <2>1, CountKeepsRecent
  <2>2. CASE UNCHANGED <<window, expires>> /\ ran' = ran
    BY <1>1, <2>2 DEF Exact, Recent
  <2> QED
    BY <1>4, <2>1, <2>2
<1>8. \A k \in Keys : Counted(k)'
  <2> TAKE k \in Keys
  <2>1. CASE UNCHANGED <<window, expires>>
    BY <1>5, <2>1 DEF Exact, Counted, Answering, GatewayTypeOK
  <2>2. CASE Count(c)
    <3>1. window'[k] = IF k = KeyOf[c] THEN Kept(c) \cup {c} ELSE window[k]
      BY <2>2 DEF Count, Answering, GatewayTypeOK
    <3>2. Kept(c) \subseteq window[KeyOf[c]] /\ window[k] \subseteq Calls /\ KeyOf[c] \in Keys
      BY GatewayAssumption DEF Kept, Answering, GatewayTypeOK
    <3> QED
      BY <1>1, <1>5, <3>1, <3>2 DEF Exact, Counted
  <2> QED
    BY <1>4, <2>1, <2>2
<1>9. Under'
  <2>1. CASE ran' = ran
    BY <1>1, <2>1 DEF Exact, Under, Passed
  <2>2. CASE ran' = [ran EXCEPT ![c] = clock] /\ Cardinality(Kept(c)) + 1 <= Limit
    BY <1>1, <2>2, PassingStaysUnder
  <2> QED
    BY <1>2, <2>1, <2>2
<1>10. \A d \in Calls : Blamed(d)'
  <2> TAKE d \in Calls
  <2>1. CASE d # c
    BY <1>1, <1>5, <2>1, BlameStays DEF Exact, Answering, Placed
  <2>2. CASE d = c
    <3> SUFFICES ASSUME answer'[c] = "rate_limited" PROVE Cardinality(Causes(c)') >= Limit
      BY <2>2 DEF Blamed
    <3>1. Cardinality(Kept(c)) + 1 > Limit
      <4>1. answer[c] = "none"
        BY <1>1 DEF Answering, Placed
      <4> QED
        BY <4>1 DEF CheckLimit, FailOpen, Move
    <3>2. Kept(c) \subseteq Causes(c)'
      <4>1. \A e \in Kept(c) : /\ e \in Calls /\ e # c /\ KeyOf[e] = KeyOf[c]
                              /\ at[e] \in {"serving", "answered"}
                              /\ stamp[e] > stamp[c] - Window
        BY <1>1, GatewayAssumption DEF Kept, Exact, Counted, Answering, GatewayTypeOK
      <4> QED
        BY <1>1, <1>5, <4>1 DEF Causes
    <3>3. IsFiniteSet(Causes(c)')
      BY GatewayAssumption, FS_Subset DEF Causes
    <3>4. Cardinality(Kept(c)) <= Cardinality(Causes(c)') /\ Cardinality(Causes(c)') \in Nat
      BY <3>2, <3>3, FS_Subset, FS_CardinalityType
    <3>5. Cardinality(Kept(c)) \in Nat
      BY KeptIsFinite
    <3> QED
      BY <3>1, <3>4, <3>5, GatewayAssumption
  <2> QED
    BY <2>1, <2>2
<1> QED
  BY <1>6, <1>7, <1>8, <1>9, <1>10 DEF Exact

LEMMA Unmoved ==
  ASSUME Exact, UNCHANGED <<clock, at, answer, stamp, window, expires, ran>>
  PROVE  Exact'
<1>1. \A c \in Calls : Timed(c)' /\ Recent(c)'
  BY DEF Exact, Timed, Recent
<1>2. \A c \in Calls : Blamed(c)'
  BY DEF Exact, Blamed, Causes
<1>3. (\A k \in Keys : Counted(k)') /\ Under'
  BY DEF Exact, Counted, Under, Passed
<1> QED
  BY <1>1, <1>2, <1>3 DEF Exact

LEMMA ExactNext == Answering /\ Exact /\ [GatewayNext]_gatewayVars => Exact'
<1> SUFFICES ASSUME Answering, Exact, [GatewayNext]_gatewayVars PROVE Exact'
  OBVIOUS
<1> USE DEF limits, trail, calling, Trouble
<1>1. ASSUME NEW c \in Calls, Arrive(c) PROVE Exact'
  BY <1>1, AsideKeepsExact DEF Arrive, Move, Reply, Answering, GatewayTypeOK
<1>2. ASSUME NEW c \in Calls, ReadClock(c) PROVE Exact'
  <2>1. CASE KeyOf[c] \in Plenty
    BY <1>2, <2>1, AsideKeepsExact DEF ReadClock, Move, Answering, GatewayTypeOK
  <2>2. CASE KeyOf[c] \notin Plenty
    <3>1. /\ at[c] = "admitted" /\ at'[c] = "stamped" /\ stamp'[c] = clock
          /\ at' = [at EXCEPT ![c] = at'[c]] /\ stamp' = [stamp EXCEPT ![c] = stamp'[c]]
          /\ UNCHANGED <<answer, clock, window, expires, ran>>
      BY <1>2, <2>2 DEF ReadClock, Move, Answering, GatewayTypeOK
    <3> QED
      BY <3>1, AsideKeepsExact
  <2> QED
    BY <2>1, <2>2
<1>3. ASSUME NEW c \in Calls, CheckLimit(c) \/ FailOpen(c) PROVE Exact'
  BY <1>3, LimitKeepsExact
<1>4. ASSUME NEW c \in Calls, Serve(c) \/ ServeFails(c) PROVE Exact'
  <2>1. /\ at[c] = "serving" /\ at'[c] = "answered"
        /\ at' = [at EXCEPT ![c] = at'[c]] /\ stamp' = stamp
        /\ stamp' = [stamp EXCEPT ![c] = stamp'[c]]
        /\ \A d \in Calls : answer'[d] = answer[d] \/ answer'[d] # "rate_limited"
        /\ UNCHANGED <<clock, window, expires, ran>>
    BY <1>4 DEF Serve, ServeFails, Reply, Answering, GatewayTypeOK
  <2> QED
    BY <2>1, AsideKeepsExact
<1>5. ASSUME NEW c \in Calls, Persist(c) \/ PersistFails(c) PROVE Exact'
  <2>1. UNCHANGED <<clock, at, answer, stamp, window, expires, ran>>
    BY <1>5 DEF Persist, PersistFails
  <2> QED
    BY <2>1, Unmoved
<1>6. CASE Tick
  <2>1. /\ clock \in Nat /\ Window \in Nat /\ Delay \in Nat /\ clock' = clock + 1
        /\ \A c \in Calls : stamp[c] \in Int /\ ran[c] \in Int
        /\ \A c \in Calls : at[c] = "stamped" => clock < stamp[c] + Delay
        /\ UNCHANGED <<at, answer, stamp, window, expires, ran>>
    BY <1>6, GatewayAssumption DEF Tick, Answering, GatewayTypeOK, Instants
  <2>2. \A c \in Calls : Timed(c)' /\ Recent(c)'
    BY <2>1 DEF Exact, Timed, Recent
  <2>3. (\A c \in Calls : Blamed(c)') /\ (\A k \in Keys : Counted(k)') /\ Under'
    BY <2>1 DEF Exact, Blamed, Causes, Counted, Under, Passed
  <2> QED
    BY <2>2, <2>3 DEF Exact
<1>7. CASE UNCHANGED gatewayVars
  BY <1>7, Unmoved DEF gatewayVars
<1> QED
  BY <1>1, <1>2, <1>3, <1>4, <1>5, <1>6, <1>7 DEF GatewayNext

(* For every number of calls and processes, whatever Redis drops and in     *)
(* whatever order calls reach it: no more than the limit pass in a window,  *)
(* less the time to reach Redis, and who is turned away was preceded by     *)
(* Limit others (ratelimit/limiter.py:63-108).                              *)
THEOREM LimitIsExactAlways == GatewaySpec => []LimitIsExact
<1>1. Answering /\ Exact => LimitIsExact
  <2> SUFFICES ASSUME Answering, Exact PROVE NeverOverLimit /\ DeniedForCause
    BY DEF LimitIsExact
  <2>1. NeverOverLimit
    BY GatewayAssumption DEF Exact, Under, NeverOverLimit, Answering, GatewayTypeOK, Instants
  <2>2. DeniedForCause
    BY DEF Exact, Blamed, Causes, DeniedForCause
  <2> QED
    BY <2>1, <2>2
<1> QED
  BY AnsweringAlways, ExactInit, ExactNext, <1>1, PTL DEF GatewaySpec

-----------------------------------------------------------------------------
(* Aliases                                                                 *)

(* A request that has written to the table and not yet to the map. *)
Writer(q, p) == asked[q].host = p /\ asked[q].step \in {"registered", "deleted"}

(* As long as nothing excuses process p: what its requests have read is the *)
(* table, one of them at most has written, and the map differs from the     *)
(* table by what that one wrote.                                            *)
Faithful(p) ==
  /\ \A q \in Lookups : asked[q].host = p /\ asked[q].step = "loaded" => asked[q].seen = aliases
  /\ \A q, r \in Lookups : Writer(q, p) /\ Writer(r, p) => q = r
  /\ \A q \in Lookups : asked[q].host = p /\ asked[q].step = "registered" =>
       aliases[asked[q].id] = asked[q].name
  /\ slot[p] # NoName => \A i \in Identifiers :
       slot[p][i] = aliases[i] \/ \E q \in Lookups : Writer(q, p) /\ asked[q].id = i

AInv ==
  /\ AliasesTypeOK
  /\ \A q \in Lookups :
       /\ asked[q].step # "none" => asked[q].host \in Hosts /\ asked[q].id \in Identifiers
       /\ asked[q].step = "registered" => asked[q].name \in Names
       /\ asked[q].step = "loaded" => asked[q].seen \in Maps
  /\ \A p \in Hosts : excuse[p] = {} => Faithful(p)

LEMMA AInit == AliasesInit => AInv
BY SMT DEF AliasesInit, AInv, AliasesTypeOK, Maps, NoRows, NoRequest, Faithful, Writer

Questions == [step : {"none", "loading", "loaded", "registered", "deleted"},
              host : Hosts \cup {NoName}, id : Identifiers \cup {NoName},
              name : Names \cup {NoName}, seen : Maps \cup {NoName}]

Shaped(a) ==
  /\ a \in Questions
  /\ a.step # "none" => a.host \in Hosts /\ a.id \in Identifiers
  /\ a.step = "registered" => a.name \in Names
  /\ a.step = "loaded" => a.seen \in Maps

LEMMA NoRequestShaped == Shaped(NoRequest)
BY DEF NoRequest, Shaped, Questions

(* A step by one request, as far as the shape of things goes. *)
LEMMA ShapeStep ==
  ASSUME AInv, NEW q \in Lookups, NEW a, Shaped(a), asked' = [asked EXCEPT ![q] = a],
         aliases' \in Maps, slot' \in [Hosts -> Maps \cup {NoName}],
         excuse' \in [Hosts -> SUBSET {"partial", "overlap", "elsewhere"}],
         \A p \in Hosts : excuse'[p] = {} => Faithful(p)'
  PROVE  AInv'
<1>1. asked' \in [Lookups -> Questions] /\ \A r \in Lookups : Shaped(asked'[r])
  BY DEF AInv, AliasesTypeOK, Questions, Shaped
<1> QED
  BY <1>1 DEF AInv, AliasesTypeOK, Questions, Shaped

(* What a request does that writes nothing, and what it does elsewhere. *)
LEMMA FaithfulQuiet ==
  ASSUME NEW o \in Hosts, Faithful(o), UNCHANGED aliases, slot'[o] = slot[o], NEW q \in Lookups,
         \A r \in Lookups \ {q} : asked'[r] = asked[r],
         ~Writer(q, o), ~Writer(q, o)',
         asked'[q].host = o /\ asked'[q].step = "loaded" => asked'[q].seen = aliases
  PROVE  Faithful(o)'
BY DEF Faithful, Writer

(* A write by q in p. *)
LEMMA FaithfulWrite ==
  ASSUME AInv, NEW q \in Lookups, NEW p \in Hosts, NEW i \in Identifiers, NEW v, NEW a,
         Free(q), Missed(q, p), aliases' = [aliases EXCEPT ![i] = v],
         asked' = [asked EXCEPT ![q] = a], UNCHANGED slot,
         a.step \in {"registered", "deleted"}, a.host = p, a.id = i,
         a.step = "registered" => a.name = v
  PROVE  \A o \in Hosts : excuse'[o] = {} => Faithful(o)'
<1>1. asked'[q] = a /\ \A r \in Lookups \ {q} : asked'[r] = asked[r]
  BY DEF AInv, AliasesTypeOK
<1>2. aliases'[i] = v /\ \A j \in Identifiers \ {i} : aliases'[j] = aliases[j]
  BY DEF AInv, AliasesTypeOK, Maps
<1>3. ASSUME NEW o \in Hosts, excuse'[o] = {}, o = p PROVE Faithful(o)'
  <2>1. excuse[p] = {} /\ Busy(p) \ {q} = {}
    BY <1>3 DEF Missed
  <2>2. \A r \in Lookups \ {q} : asked[r].step = "none" \/ asked[r].host # p
    BY <2>1 DEF Busy
  <2>3. Faithful(p)
    BY <2>1 DEF AInv
  <2>4. slot[p] # NoName => \A j \in Identifiers : slot[p][j] = aliases[j]
    BY <2>2, <2>3 DEF Faithful, Writer, Free
  <2>5. Writer(q, p)'
    BY <1>1 DEF Writer
  <2>6. slot'[p] # NoName => \A j \in Identifiers :
          slot'[p][j] = aliases'[j] \/ \E r \in Lookups : Writer(r, p)' /\ asked'[r].id = j
    BY <1>1, <1>2, <2>4, <2>5
  <2> QED
    BY <1>1, <1>2, <1>3, <2>2, <2>6 DEF Faithful, Writer
<1>4. ASSUME NEW o \in Hosts, excuse'[o] = {}, o # p PROVE Faithful(o)'
  <2>1. slot[o] = NoName /\ Busy(o) = {}
    BY <1>4 DEF Missed
  <2>2. \A r \in Lookups : asked'[r].step = "none" \/ asked'[r].host # o
    BY <1>1, <1>4, <2>1 DEF Busy
  <2> QED
    BY <2>1, <2>2 DEF Faithful, Writer
<1> QED
  BY <1>3, <1>4

LEMMA MissedType ==
  ASSUME AInv, NEW q, NEW p \in Hosts, Missed(q, p)
  PROVE  excuse' \in [Hosts -> SUBSET {"partial", "overlap", "elsewhere"}]
BY DEF Missed, AInv, AliasesTypeOK

(* Reading. *)
LEMMA FaithfulRead ==
  ASSUME AInv, NEW q \in Lookups,
         \/ \E p \in Hosts, i \in Identifiers : Resolve(q, p, i)
         \/ LoadTenant(q)
         \/ Loaded(q)
  PROVE  AInv'
<1>1. ASSUME NEW p \in Hosts, NEW i \in Identifiers, Resolve(q, p, i) PROVE AInv'
  <2> DEFINE a == [step |-> "loading", host |-> p, id |-> i, name |-> NoName, seen |-> NoName]
  <2>1. Shaped(a)
    BY DEF Shaped, Questions
  <2>2. /\ asked' = [asked EXCEPT ![q] = a] /\ asked[q].step = "none"
        /\ UNCHANGED <<aliases, slot, excuse>>
    BY <1>1 DEF Resolve, Await, Free
  <2>3. asked'[q] = a /\ \A r \in Lookups \ {q} : asked'[r] = asked[r]
    BY <2>2 DEF AInv, AliasesTypeOK
  <2>4. \A o \in Hosts : excuse'[o] = {} => Faithful(o)'
    BY <2>2, <2>3, FaithfulQuiet DEF AInv, Writer
  <2> HIDE DEF a
  <2> QED
    BY <2>1, <2>2, <2>4, ShapeStep DEF AInv, AliasesTypeOK
<1>2. ASSUME LoadTenant(q) PROVE AInv'
  <2> DEFINE a == [step |-> "loaded", host |-> asked[q].host, id |-> asked[q].id,
                   name |-> NoName, seen |-> aliases]
  <2>1. Shaped(a)
    BY <1>2 DEF LoadTenant, Shaped, Questions, AInv, AliasesTypeOK
  <2>2. /\ asked' = [asked EXCEPT ![q] = a] /\ asked[q].step = "loading"
        /\ UNCHANGED <<aliases, slot, excuse>>
    BY <1>2 DEF LoadTenant, Await
  <2>3. asked'[q] = a /\ \A r \in Lookups \ {q} : asked'[r] = asked[r]
    BY <2>2 DEF AInv, AliasesTypeOK
  <2>4. \A o \in Hosts : excuse'[o] = {} => Faithful(o)'
    BY <2>2, <2>3, FaithfulQuiet DEF AInv, Writer
  <2> HIDE DEF a
  <2> QED
    BY <2>1, <2>2, <2>4, ShapeStep DEF AInv, AliasesTypeOK
<1>3. ASSUME Loaded(q) PROVE AInv'
  <2> DEFINE p == asked[q].host
  <2>1. /\ asked[q].step = "loaded" /\ p \in Hosts /\ asked[q].seen \in Maps
        /\ slot' = [slot EXCEPT ![p] = asked[q].seen]
        /\ asked' = [asked EXCEPT ![q] = NoRequest]
        /\ UNCHANGED <<aliases, excuse>>
    BY <1>3 DEF Loaded, Finish, AInv
  <2>2. /\ asked'[q].step = "none" /\ \A r \in Lookups \ {q} : asked'[r] = asked[r]
        /\ slot'[p] = asked[q].seen /\ \A o \in Hosts \ {p} : slot'[o] = slot[o]
    BY <2>1 DEF AInv, AliasesTypeOK, NoRequest
  <2>3. ASSUME NEW o \in Hosts, excuse'[o] = {} PROVE Faithful(o)'
    <3>1. Faithful(o)
      BY <2>1, <2>3 DEF AInv
    <3>2. CASE o = p
      <4>1. slot'[o] = aliases
        BY <2>1, <2>2, <3>1, <3>2 DEF Faithful
      <4> QED
        BY <2>1, <2>2, <3>1, <4>1 DEF Faithful, Writer
    <3>3. CASE o # p
      BY <2>1, <2>2, <3>1, <3>3, FaithfulQuiet DEF Writer
    <3> QED
      BY <3>2, <3>3
  <2>4. slot' \in [Hosts -> Maps \cup {NoName}]
    BY <2>1 DEF AInv, AliasesTypeOK
  <2> QED
    BY <2>1, <2>3, <2>4, NoRequestShaped, ShapeStep DEF AInv, AliasesTypeOK
<1> QED
  BY <1>1, <1>2, <1>3

LEMMA FaithfulBegin ==
  ASSUME AInv, NEW q \in Lookups, NEW p \in Hosts, NEW i \in Identifiers,
         DeleteAlias(q, p, i) \/ \E n \in Names : Register(q, p, i, n)
  PROVE  AInv'
<1>1. ASSUME NEW n \in Names, Register(q, p, i, n) PROVE AInv'
  <2> DEFINE a == [step |-> "registered", host |-> p, id |-> i, name |-> n, seen |-> NoName]
  <2>1. Shaped(a) /\ a.step = "registered" /\ a.host = p /\ a.id = i /\ a.name = n
    BY DEF Shaped, Questions
  <2>2. /\ Free(q) /\ Missed(q, p) /\ aliases' = [aliases EXCEPT ![i] = n]
        /\ asked' = [asked EXCEPT ![q] = a] /\ UNCHANGED slot
    BY <1>1 DEF Register, Await
  <2> HIDE DEF a
  <2>3. \A o \in Hosts : excuse'[o] = {} => Faithful(o)'
    BY <2>1, <2>2, FaithfulWrite
  <2>4. aliases' \in Maps
    BY <2>2 DEF AInv, AliasesTypeOK, Maps
  <2> QED
    BY <2>1, <2>2, <2>3, <2>4, MissedType, ShapeStep DEF AInv, AliasesTypeOK
<1>2. ASSUME DeleteAlias(q, p, i) PROVE AInv'
  <2> DEFINE a == [step |-> "deleted", host |-> p, id |-> i, name |-> NoName, seen |-> NoName]
  <2>1. Shaped(a) /\ a.step = "deleted" /\ a.host = p /\ a.id = i
    BY DEF Shaped, Questions
  <2>2. /\ Free(q) /\ Missed(q, p) /\ aliases' = [aliases EXCEPT ![i] = NoName]
        /\ asked' = [asked EXCEPT ![q] = a] /\ UNCHANGED slot
    BY <1>2 DEF DeleteAlias, Await
  <2> HIDE DEF a
  <2>3. \A o \in Hosts : excuse'[o] = {} => Faithful(o)'
    BY <2>1, <2>2, FaithfulWrite
  <2>4. aliases' \in Maps
    BY <2>2 DEF AInv, AliasesTypeOK, Maps
  <2> QED
    BY <2>1, <2>2, <2>3, <2>4, MissedType, ShapeStep DEF AInv, AliasesTypeOK
<1> QED
  BY <1>1, <1>2

LEMMA FaithfulRegistered ==
  ASSUME AInv, NEW q \in Lookups, Registered(q)
  PROVE  AInv'
<1> DEFINE p == asked[q].host
           i == asked[q].id
           n == asked[q].name
           old == IF slot[p] = NoName THEN NoRows ELSE slot[p]
<1>1. /\ asked[q].step = "registered" /\ p \in Hosts /\ i \in Identifiers /\ n \in Names
      /\ slot' = [slot EXCEPT ![p] = [old EXCEPT ![i] = n]]
      /\ excuse' = IF slot[p] = NoName THEN [excuse EXCEPT ![p] = @ \cup {"partial"}] ELSE excuse
      /\ asked' = [asked EXCEPT ![q] = NoRequest]
      /\ UNCHANGED aliases
  BY DEF Registered, Finish, AInv
<1>2. old \in Maps
  BY <1>1 DEF AInv, AliasesTypeOK, Maps, NoRows
<1>3. /\ asked'[q].step = "none" /\ \A r \in Lookups \ {q} : asked'[r] = asked[r]
      /\ slot'[p] = [old EXCEPT ![i] = n] /\ \A o \in Hosts \ {p} : slot'[o] = slot[o]
  BY <1>1 DEF AInv, AliasesTypeOK, NoRequest
<1>4. slot' \in [Hosts -> Maps \cup {NoName}]
  <2>1. [old EXCEPT ![i] = n] \in Maps
    BY <1>1, <1>2 DEF Maps
  <2> QED
    BY <1>1, <2>1 DEF AInv, AliasesTypeOK
<1>5. excuse' \in [Hosts -> SUBSET {"partial", "overlap", "elsewhere"}]
  BY <1>1 DEF AInv, AliasesTypeOK
<1>6. ASSUME NEW o \in Hosts, excuse'[o] = {} PROVE Faithful(o)'
  <2>1. excuse[o] = {} /\ (o = p => slot[p] # NoName)
    BY <1>1, <1>6 DEF AInv, AliasesTypeOK
  <2>2. Faithful(o)
    BY <2>1 DEF AInv
  <2>3. CASE o = p
    <3>1. \A r \in Lookups : Writer(r, p) => r = q
      BY <1>1, <2>2, <2>3 DEF Faithful, Writer
    <3>2. aliases[i] = n /\ old = slot[p]
      BY <1>1, <2>1, <2>2, <2>3 DEF Faithful
    <3>3. \A j \in Identifiers : slot'[p][j] = aliases[j]
      <4> SUFFICES ASSUME NEW j \in Identifiers PROVE slot'[p][j] = aliases[j]
        OBVIOUS
      <4>1. CASE j = i
        BY <4>1, <1>1, <1>2, <1>3, <3>2 DEF Maps
      <4>2. CASE j # i
        <5>1. slot'[p][j] = slot[p][j]
          BY <4>2, <1>2, <1>3, <3>2 DEF Maps
        <5>2. slot[p][j] = aliases[j]
          BY <4>2, <2>1, <2>2, <2>3, <3>1 DEF Faithful
        <5> QED
          BY <5>1, <5>2
      <4> QED
        BY <4>1, <4>2
    <3> HIDE DEF p, i, n, old
    <3>4. slot'[o] # NoName => \A j \in Identifiers : slot'[o][j] = aliases[j]
      BY <2>3, <3>3
    <3> QED
      BY <1>1, <1>3, <2>2, <3>4 DEF Faithful, Writer
  <2>4. CASE o # p
    BY <1>1, <1>3, <2>2, <2>4, FaithfulQuiet DEF Writer
  <2> QED
    BY <2>3, <2>4
<1> QED
  BY <1>1, <1>4, <1>5, <1>6, NoRequestShaped, ShapeStep DEF AInv, AliasesTypeOK

LEMMA FaithfulInvalidate ==
  ASSUME AInv, NEW q \in Lookups, Invalidate(q)
  PROVE  AInv'
<1> DEFINE p == asked[q].host
<1>1. /\ asked[q].step = "deleted" /\ p \in Hosts
      /\ slot' = [slot EXCEPT ![p] = NoName]
      /\ excuse' = IF Busy(p) = {q} THEN [excuse EXCEPT ![p] = {}] ELSE excuse
      /\ asked' = [asked EXCEPT ![q] = NoRequest]
      /\ UNCHANGED aliases
  BY DEF Invalidate, Finish, AInv
<1>2. /\ asked'[q].step = "none" /\ \A r \in Lookups \ {q} : asked'[r] = asked[r]
      /\ slot'[p] = NoName /\ \A o \in Hosts \ {p} : slot'[o] = slot[o]
  BY <1>1 DEF AInv, AliasesTypeOK, NoRequest
<1>3. slot' \in [Hosts -> Maps \cup {NoName}]
  BY <1>1 DEF AInv, AliasesTypeOK
<1>4. excuse' \in [Hosts -> SUBSET {"partial", "overlap", "elsewhere"}]
  BY <1>1 DEF AInv, AliasesTypeOK
<1>5. ASSUME NEW o \in Hosts, excuse'[o] = {} PROVE Faithful(o)'
  <2>1. CASE o = p /\ Busy(p) = {q}
    <3>1. \A r \in Lookups : asked'[r].step = "none" \/ asked'[r].host # p
      BY <1>2, <2>1 DEF Busy
    <3> QED
      BY <1>2, <2>1, <3>1 DEF Faithful, Writer
  <2>2. CASE o = p /\ Busy(p) # {q}
    <3>1. Faithful(p)
      BY <1>1, <1>5, <2>2 DEF AInv
    <3> QED
      BY <1>1, <1>2, <2>2, <3>1 DEF Faithful, Writer
  <2>3. CASE o # p
    <3>1. Faithful(o)
      BY <1>1, <1>5, <2>3 DEF AInv, AliasesTypeOK
    <3> QED
      BY <1>1, <1>2, <2>3, <3>1, FaithfulQuiet DEF Writer
  <2> QED
    BY <2>1, <2>2, <2>3
<1> QED
  BY <1>1, <1>3, <1>4, <1>5, NoRequestShaped, ShapeStep DEF AInv, AliasesTypeOK

LEMMA FaithfulRestart ==
  ASSUME AInv, NEW p \in Hosts, RestartHost(p)
  PROVE  AInv'
<1>1. /\ \A r \in Lookups : asked'[r] = IF r \in Busy(p) THEN NoRequest ELSE asked[r]
      /\ slot'[p] = NoName /\ excuse'[p] = {}
      /\ \A o \in Hosts \ {p} : slot'[o] = slot[o] /\ excuse'[o] = excuse[o]
      /\ UNCHANGED aliases
  BY DEF RestartHost, AInv, AliasesTypeOK
<1>2. AliasesTypeOK'
  <2>1. asked' \in [Lookups -> Questions]
    BY NoRequestShaped DEF RestartHost, AInv, AliasesTypeOK, Shaped, Questions
  <2> QED
    BY <2>1 DEF RestartHost, AInv, AliasesTypeOK, Questions
<1>3. \A r \in Lookups :
        /\ asked'[r].step # "none" => asked'[r].host \in Hosts /\ asked'[r].id \in Identifiers
        /\ asked'[r].step = "registered" => asked'[r].name \in Names
        /\ asked'[r].step = "loaded" => asked'[r].seen \in Maps
  BY <1>1, NoRequestShaped DEF AInv, Shaped
<1>4. NoRequest.step = "none"
  BY DEF NoRequest
<1>5. ASSUME NEW o \in Hosts, excuse'[o] = {} PROVE Faithful(o)'
  <2>1. CASE o = p
    <3>1. \A r \in Lookups : asked'[r].step = "none" \/ asked'[r].host # p
      BY <1>1, <1>4 DEF Busy
    <3> QED
      BY <1>1, <2>1, <3>1 DEF Faithful, Writer
  <2>2. CASE o # p
    <3>1. Faithful(o)
      BY <1>1, <1>5, <2>2 DEF AInv
    <3>2. \A r \in Lookups : asked'[r] = asked[r] \/ (asked'[r].step = "none" /\ asked[r].host # o)
      BY <1>1, <1>4, <2>2 DEF Busy
    <3>3. \A r \in Lookups : Writer(r, o)' <=> Writer(r, o)
      BY <3>2, <1>1, <1>4 DEF Writer
    <3>4. slot'[o] = slot[o]
      BY <1>1, <2>2
    <3>5. \A r \in Lookups : Writer(r, o) => asked'[r] = asked[r]
      BY <3>2 DEF Writer
    <3> QED
      BY <1>1, <3>1, <3>2, <3>3, <3>4, <3>5 DEF Faithful
  <2> QED
    BY <2>1, <2>2
<1> QED
  BY <1>2, <1>3, <1>5 DEF AInv

LEMMA ANext == AInv /\ [AliasesNext]_aliasVars => AInv'
<1> SUFFICES ASSUME AInv, [AliasesNext]_aliasVars PROVE AInv'
  OBVIOUS
<1>1. CASE UNCHANGED aliasVars
  BY <1>1 DEF aliasVars, AInv, AliasesTypeOK, Faithful, Writer
<1> QED
  BY <1>1, FaithfulRead, FaithfulBegin, FaithfulRegistered, FaithfulInvalidate, FaithfulRestart
  DEF AliasesNext

(* Every variable of the maps stays within its range.                      *)
THEOREM AliasesTypeAlways == AliasesSpec => []AliasesTypeOK
<1>1. AInv => AliasesTypeOK
  BY DEF AInv
<1> QED
  BY <1>1, AInit, ANext, PTL DEF AliasesSpec

(* For every number of processes and requests: the map of a process differs *)
(* from the table (entity_service.py) only for one of three reasons.        *)
THEOREM MapsAgreeAlways == AliasesSpec => []MapsAgree
<1>1. AInv => MapsAgree
  <2> SUFFICES ASSUME AInv, NEW p \in Hosts, slot[p] # NoName, Busy(p) = {}, excuse[p] = {}
               PROVE  slot[p] = aliases
    BY DEF MapsAgree
  <2>1. \A r \in Lookups : ~Writer(r, p)
    BY DEF Busy, Writer
  <2>2. \A i \in Identifiers : slot[p][i] = aliases[i]
    BY <2>1 DEF AInv, Faithful
  <2> QED
    BY <2>2 DEF AInv, AliasesTypeOK, Maps
<1> QED
  BY <1>1, AInit, ANext, PTL DEF AliasesSpec

-----------------------------------------------------------------------------
(* Intentions                                                              *)

(* Only what a request has among its ids changes when it commits. *)
LEMMA FiredType ==
  ASSUME IntentionsTypeOK, NEW t \in Requests, Fired(t)
  PROVE  intention' \in [Ids -> {"unset", "armed", "fired", "gone"}]
BY SMT DEF IntentionsTypeOK, Fired, There

LEMMA EndType ==
  ASSUME IntentionsTypeOK, NEW t \in Requests, End(t)
  PROVE  /\ task' \in [Requests -> [at : {"idle", "commit", "tell", "remove"}, ids : SUBSET Ids]]
         /\ \A s \in Requests : task'[s].at # "idle" => task'[s].ids # {}
BY SMT DEF IntentionsTypeOK, End, Idle

LEMMA BeginType ==
  ASSUME IntentionsTypeOK, NEW t \in Requests, NEW place \in {"commit", "remove"}, NEW ids \in SUBSET Ids,
         ids # {}, Begin(t, place, ids)
  PROVE  /\ task' \in [Requests -> [at : {"idle", "commit", "tell", "remove"}, ids : SUBSET Ids]]
         /\ \A s \in Requests : task'[s].at # "idle" => task'[s].ids # {}
         /\ begun' \in 0 .. MaxRequests
BY IntentionsAssumption, SMT DEF IntentionsTypeOK, Begin

(* A check or a delete begins, for some ids. *)
LEMMA MatchType ==
  ASSUME IntentionsTypeOK, NEW t \in Requests, NEW ids \in SUBSET Ids, Match(t, ids)
  PROVE  IntentionsTypeOK'
<1>1. Begin(t, "commit", ids) /\ ids # {} /\ raced' \subseteq Ids
  BY DEF Match, IntentionsTypeOK
<1> QED
  BY <1>1, BeginType, SMT DEF Match, IntentionsTypeOK, table

LEMMA TypeStep == IntentionsTypeOK /\ [IntentionsNext]_intentionsVars => IntentionsTypeOK'
<1> SUFFICES ASSUME IntentionsTypeOK, [IntentionsNext]_intentionsVars PROVE IntentionsTypeOK'
  OBVIOUS
<1> USE IntentionsAssumption
<1>1. CASE UNCHANGED intentionsVars
  BY <1>1 DEF intentionsVars, table, IntentionsTypeOK
<1>2. ASSUME NEW i \in Ids, NEW single \in BOOLEAN, NEW ttl \in {"never", "ahead", "past"},
             Set(i, single, ttl)
      PROVE  IntentionsTypeOK'
  BY <1>2, SMT DEF Set, IntentionsTypeOK
<1>3. ASSUME NEW i \in Ids, Expire(i) PROVE IntentionsTypeOK'
  BY <1>3, SMT DEF Expire, IntentionsTypeOK
<1>4. ASSUME NEW t \in Requests, NEW match \in SUBSET Ids, Check(t, match) PROVE IntentionsTypeOK'
  BY <1>4, MatchType DEF Check
<1>5. ASSUME NEW t \in Requests, NEW i \in Ids, Delete(t, i) PROVE IntentionsTypeOK'
  <2>1. Begin(t, "remove", {i}) /\ {i} \in SUBSET Ids /\ {i} # {}
    BY <1>5 DEF Delete
  <2>2. /\ task' \in [Requests -> [at : {"idle", "commit", "tell", "remove"}, ids : SUBSET Ids]]
        /\ \A s \in Requests : task'[s].at # "idle" => task'[s].ids # {}
        /\ begun' \in 0 .. MaxRequests
    BY <2>1, BeginType
  <2> QED
    BY <1>5, <2>2 DEF Delete, IntentionsTypeOK, table
<1>6. ASSUME NEW t \in Requests, Commit(t) PROVE IntentionsTypeOK'
  <2>1. intention' \in [Ids -> {"unset", "armed", "fired", "gone"}] /\ fires' \in [Ids -> Nat]
    BY <1>6, FiredType, SMT DEF Commit, Writes, IntentionsTypeOK
  <2> QED
    BY <1>6, <2>1, SMT DEF Commit, Writes, IntentionsTypeOK
<1>7. ASSUME NEW t \in Requests, Stale(t) PROVE IntentionsTypeOK'
  BY <1>7, EndType DEF Stale, IntentionsTypeOK, table
<1>8. ASSUME NEW t \in Requests, Publish(t) PROVE IntentionsTypeOK'
  <2>1. PICK i \in task[t].ids : Publish(t)!2!(i)
    BY <1>8 DEF Publish
  <2>2. i \in Ids /\ task[t].ids \in SUBSET Ids /\ (task[t].ids # {i} => task[t].ids \ {i} # {})
    BY <2>1 DEF IntentionsTypeOK
  <2>3. told' \in [Ids -> Nat]
    BY <2>1, <2>2, SMT DEF IntentionsTypeOK
  <2>4. /\ task' \in [Requests -> [at : {"idle", "commit", "tell", "remove"}, ids : SUBSET Ids]]
        /\ \A s \in Requests : task'[s].at # "idle" => task'[s].ids # {}
    BY <2>1, <2>2, SMT DEF IntentionsTypeOK, Idle
  <2> QED
    BY <1>8, <2>3, <2>4 DEF Publish, IntentionsTypeOK, table
<1>9. ASSUME NEW t \in Requests, Remove(t) PROVE IntentionsTypeOK'
  <2>1. intention' \in [Ids -> {"unset", "armed", "fired", "gone"}]
    BY <1>9, SMT DEF Remove, IntentionsTypeOK
  <2> QED
    BY <1>9, <2>1, EndType DEF Remove, IntentionsTypeOK
<1>10. ASSUME NEW t \in Requests, CommitUnacknowledged(t) PROVE IntentionsTypeOK'
  <2>1. intention' \in [Ids -> {"unset", "armed", "fired", "gone"}] /\ fires' \in [Ids -> Nat]
    BY <1>10, FiredType, SMT DEF CommitUnacknowledged, Writes, IntentionsTypeOK
  <2>2. cut' \subseteq Ids /\ faults' \in 0 .. MaxFaults
    BY <1>10, SMT DEF CommitUnacknowledged, Strike, IntentionsTypeOK
  <2> QED
    BY <1>10, <2>1, <2>2, EndType DEF CommitUnacknowledged, IntentionsTypeOK
<1>11. ASSUME Cleanup PROVE IntentionsTypeOK'
  <2>1. intention' \in [Ids -> {"unset", "armed", "fired", "gone"}]
    BY <1>11, SMT DEF Cleanup, IntentionsTypeOK
  <2> QED
    BY <1>11, <2>1 DEF Cleanup, IntentionsTypeOK
<1>12. ASSUME NEW S \in SUBSET Requests, Abort(S) PROVE IntentionsTypeOK'
  <2>1. /\ task' \in [Requests -> [at : {"idle", "commit", "tell", "remove"}, ids : SUBSET Ids]]
        /\ \A s \in Requests : task'[s].at # "idle" => task'[s].ids # {}
    BY <1>12, SMT DEF Abort, IntentionsTypeOK, Idle
  <2>2. cut' \subseteq Ids
    BY <1>12 DEF Abort, Untold, IntentionsTypeOK
  <2>3. faults' \in 0 .. MaxFaults
    BY <1>12, SMT DEF Abort, Strike, IntentionsTypeOK
  <2> QED
    BY <1>12, <2>1, <2>2, <2>3 DEF Abort, IntentionsTypeOK, table
<1> QED
  BY <1>1, <1>2, <1>3, <1>4, <1>5, <1>6, <1>7, <1>8, <1>9, <1>10, <1>11, <1>12 DEF IntentionsNext

(* Every variable stays within its range. *)
THEOREM IntentionsTypeAlways == IntentionsSpec => []IntentionsTypeOK
<1>1. IntentionsInit => IntentionsTypeOK
  BY IntentionsAssumption, SMT DEF IntentionsInit, IntentionsTypeOK, Idle
<1> QED
  BY <1>1, TypeStep, PTL DEF IntentionsSpec

-----------------------------------------------------------------------------
(* The table says fired only of what a check has counted.                   *)
FiredIsCounted == \A i \in Ids : intention[i] = "fired" => fires[i] > 0

Tallied == IntentionsTypeOK /\ FiredIsCounted

LEMMA CountedStep == Tallied /\ [IntentionsNext]_intentionsVars => Tallied'
<1> SUFFICES ASSUME Tallied, [IntentionsNext]_intentionsVars PROVE FiredIsCounted'
  BY TypeStep DEF Tallied
<1>1. ASSUME NEW t \in Requests, Writes(t) PROVE FiredIsCounted'
  BY <1>1, SMT DEF Tallied, IntentionsTypeOK, FiredIsCounted, Writes, Fired, Single, Lasting, There
<1>2. ASSUME intention' = intention, fires' = fires PROVE FiredIsCounted'
  BY <1>2 DEF Tallied, FiredIsCounted
<1>3. ASSUME NEW i \in Ids, NEW single, NEW ttl, Set(i, single, ttl) PROVE FiredIsCounted'
  BY <1>3 DEF Set, Tallied, FiredIsCounted, IntentionsTypeOK
<1>4. ASSUME NEW t \in Requests, Remove(t) PROVE FiredIsCounted'
  BY <1>4 DEF Remove, Tallied, FiredIsCounted, IntentionsTypeOK
<1>5. ASSUME Cleanup PROVE FiredIsCounted'
  BY <1>5 DEF Cleanup, Tallied, FiredIsCounted, IntentionsTypeOK
<1>6. CASE UNCHANGED intentionsVars
  BY <1>6, <1>2 DEF intentionsVars, table
<1>7. CASE \E i \in Ids : Expire(i)
  BY <1>7, <1>2 DEF Expire
<1>8. CASE \E t \in Requests, match \in SUBSET Ids : Check(t, match)
  BY <1>8, <1>2 DEF Check, Match, table
<1>9. CASE \E t \in Requests, i \in Ids : Delete(t, i)
  BY <1>9, <1>2 DEF Delete, table
<1>10. CASE \E t \in Requests : Stale(t) \/ Publish(t)
  BY <1>10, <1>2 DEF Stale, Publish, table
<1>11. CASE \E S \in SUBSET Requests : Abort(S)
  BY <1>11, <1>2 DEF Abort, table
<1>12. CASE \E t \in Requests : Commit(t) \/ CommitUnacknowledged(t)
  BY <1>12, <1>1 DEF Commit, CommitUnacknowledged
<1> QED
  BY <1>3, <1>4, <1>5, <1>6, <1>7, <1>8, <1>9, <1>10, <1>11, <1>12 DEF IntentionsNext

LEMMA TalliedAlways == IntentionsSpec => []Tallied
<1>1. IntentionsInit => Tallied
  BY IntentionsAssumption, SMT DEF IntentionsInit, Tallied, IntentionsTypeOK, FiredIsCounted, Idle
<1> QED
  BY <1>1, CountedStep, PTL DEF IntentionsSpec

-----------------------------------------------------------------------------
(* An intention that two checks did not have before them at once is in the  *)
(* hands of one check at most; after it has fired it is no longer armed and *)
(* in the hands of none.                                                    *)
Holds(t, i) == task[t].at = "commit" /\ i \in task[t].ids

Alone(i) == \A s, t \in Requests : Holds(s, i) /\ Holds(t, i) => s = t

Done(i) == /\ fires[i] = 1
           /\ intention[i] \in {"fired", "gone"}
           /\ \A t \in Requests : ~Holds(t, i)

Once(i) == Alone(i) /\ (fires[i] = 0 \/ Done(i))

Existing == \A t \in Requests : \A i \in task[t].ids : Holds(t, i) => intention[i] # "unset"

OInv == IntentionsTypeOK /\ Existing /\ \A i \in Ids \ raced : Once(i)

(* A step that fires nothing, takes up nothing and arms nothing again. *)
LEMMA OnceKept ==
  ASSUME OInv, fires' = fires, raced' = raced,
         \A t \in Requests, i \in Ids : Holds(t, i)' => Holds(t, i),
         \A i \in Ids : intention[i] \in {"fired", "gone"} => intention'[i] \in {"fired", "gone"},
         \A i \in Ids : intention[i] # "unset" => intention'[i] # "unset",
         IntentionsTypeOK'
  PROVE  OInv'
<1>1. Existing'
  BY DEF OInv, Existing, Holds, IntentionsTypeOK
<1>2. ASSUME NEW i \in Ids \ raced PROVE Once(i)'
  BY <1>2 DEF OInv, Once, Alone, Done
<1> QED
  BY <1>1, <1>2 DEF OInv

(* Ending a request. *)
LEMMA EndHolds ==
  ASSUME IntentionsTypeOK, NEW t \in Requests, End(t), NEW s \in Requests, NEW i \in Ids
  PROVE  Holds(s, i)' <=> Holds(s, i) /\ s # t
BY DEF IntentionsTypeOK, End, Holds, Idle

(* A request fires what it holds. *)
LEMMA OnceFired ==
  ASSUME OInv, IntentionsTypeOK', NEW t \in Requests, Writes(t), raced' = raced,
         \A s \in Requests, i \in Ids : Holds(s, i)' <=> Holds(s, i) /\ s # t
  PROVE  OInv'
<1>1. ASSUME NEW i \in Ids, intention[i] # "unset" PROVE intention'[i] # "unset"
  BY <1>1 DEF Writes, Fired
<1>2. Existing'
  BY <1>1 DEF OInv, Existing, Holds, IntentionsTypeOK
<1>3. ASSUME NEW i \in Ids \ raced, i \notin task[t].ids PROVE Once(i)'
  <2>1. intention'[i] = intention[i] /\ fires'[i] = fires[i]
    BY <1>3 DEF Writes, Fired, Single, Lasting
  <2> QED
    BY <1>3, <2>1 DEF OInv, Once, Alone, Done
<1>4. ASSUME NEW i \in Ids \ raced, i \in task[t].ids PROVE Once(i)'
  <2>1. Holds(t, i) /\ fires[i] = 0 /\ \A s \in Requests : Holds(s, i) => s = t
    BY <1>4 DEF OInv, Once, Alone, Done, Holds, Writes
  <2>2. fires'[i] = 1
    BY <1>4, <2>1, SMT DEF Writes, OInv, IntentionsTypeOK
  <2>3. intention[i] # "unset" /\ intention[i] \in {"unset", "armed", "fired", "gone"}
    BY <1>4, <2>1 DEF OInv, Existing, IntentionsTypeOK
  <2>4. intention'[i] \in {"fired", "gone"}
    BY <1>4, <2>3 DEF Writes, Fired, Single, Lasting, There
  <2> QED
    BY <1>4, <2>1, <2>2, <2>4 DEF Once, Alone, Done
<1> QED
  BY <1>2, <1>3, <1>4 DEF OInv

LEMMA OnceStep == OInv /\ [IntentionsNext]_intentionsVars => OInv'
<1> SUFFICES ASSUME OInv, [IntentionsNext]_intentionsVars PROVE OInv'
  OBVIOUS
<1> IntentionsTypeOK /\ IntentionsTypeOK'
  BY TypeStep DEF OInv
<1>1. ASSUME task' = task, fires' = fires, raced' = raced, intention' = intention PROVE OInv'
  BY <1>1, OnceKept DEF Holds
<1>2. CASE \E i \in Ids, single \in BOOLEAN, ttl \in {"never", "ahead", "past"} : Set(i, single, ttl)
  BY <1>2, OnceKept DEF Set, Holds, IntentionsTypeOK
<1>3. CASE \E i \in Ids : Expire(i)
  BY <1>3, <1>1 DEF Expire
<1>4. ASSUME NEW t \in Requests, NEW match \in SUBSET Ids, Check(t, match) PROVE OInv'
  <2> DEFINE ids == {i \in match : intention[i] = "armed" /\ expiry[i] # "past"}
  <2>1. /\ task[t] = Idle
        /\ task' = [task EXCEPT ![t] = [at |-> "commit", ids |-> ids]]
        /\ raced' = raced \cup {i \in ids : Checking(i)}
        /\ intention' = intention /\ fires' = fires
    BY <1>4 DEF Check, Match, Begin, table
  <2>2. ASSUME NEW s \in Requests, NEW i \in Ids
        PROVE  Holds(s, i)' <=> Holds(s, i) \/ (s = t /\ i \in ids)
    BY <2>1 DEF Holds, IntentionsTypeOK, Idle
  <2>3. ASSUME NEW s \in Requests, NEW i \in task'[s].ids, Holds(s, i)' PROVE intention'[i] # "unset"
    BY <2>1, <2>2, <2>3 DEF OInv, Existing, Holds, IntentionsTypeOK
  <2>4. Existing'
    BY <2>3 DEF Existing
  <2>5. ASSUME NEW i \in Ids \ raced' PROVE Once(i)'
    <3>1. Once(i) /\ (i \in ids => ~Checking(i))
      BY <2>1, <2>5 DEF OInv
    <3>2. CASE i \in ids
      <4>1. (\A s \in Requests : ~Holds(s, i)) /\ fires[i] = 0
        BY <3>1, <3>2 DEF Checking, Holds, Once, Done
      <4> QED
        BY <2>1, <2>2, <4>1 DEF Once, Alone
    <3>3. CASE i \notin ids
      BY <2>1, <2>2, <3>1, <3>3 DEF Once, Alone, Done
    <3> QED
      BY <3>2, <3>3
  <2> QED
    BY <2>4, <2>5 DEF OInv
<1>5. ASSUME NEW t \in Requests, NEW i \in Ids, Delete(t, i) PROVE OInv'
  <2>1. task' = [task EXCEPT ![t] = [at |-> "remove", ids |-> {i}]]
    BY <1>5 DEF Delete, Begin
  <2>2. \A s \in Requests, j \in Ids : Holds(s, j)' => Holds(s, j)
    BY <2>1 DEF Holds, IntentionsTypeOK
  <2> QED
    BY <1>5, <2>2, OnceKept DEF Delete, table
<1>6. ASSUME NEW t \in Requests, Commit(t) PROVE OInv'
  <2>1. \A s \in Requests, i \in Ids : Holds(s, i)' <=> Holds(s, i) /\ s # t
    BY <1>6 DEF Commit, Holds, IntentionsTypeOK
  <2> QED
    BY <1>6, <2>1, OnceFired DEF Commit
<1>7. ASSUME NEW t \in Requests, CommitUnacknowledged(t) PROVE OInv'
  BY <1>7, EndHolds, OnceFired DEF CommitUnacknowledged
<1>8. ASSUME NEW t \in Requests, Stale(t) PROVE OInv'
  BY <1>8, EndHolds, OnceKept DEF Stale, table
<1>9. ASSUME NEW t \in Requests, Publish(t) PROVE OInv'
  <2>1. \A s \in Requests, i \in Ids : Holds(s, i)' => Holds(s, i)
    BY <1>9 DEF Publish, Holds, IntentionsTypeOK, Idle
  <2> QED
    BY <1>9, <2>1, OnceKept DEF Publish, table
<1>10. ASSUME NEW t \in Requests, Remove(t) PROVE OInv'
  BY <1>10, EndHolds, OnceKept DEF Remove
<1>11. CASE Cleanup
  BY <1>11, OnceKept DEF Cleanup, Holds, There
<1>12. ASSUME NEW S \in SUBSET Requests, Abort(S) PROVE OInv'
  <2>1. \A s \in Requests, i \in Ids : Holds(s, i)' => Holds(s, i)
    BY <1>12 DEF Abort, Holds, IntentionsTypeOK, Idle
  <2> QED
    BY <1>12, <2>1, OnceKept DEF Abort, table
<1>13. CASE UNCHANGED intentionsVars
  BY <1>13, <1>1 DEF intentionsVars, table
<1> QED
  BY <1>2, <1>3, <1>4, <1>5, <1>6, <1>7, <1>8, <1>9, <1>10, <1>11, <1>12, <1>13 DEF IntentionsNext

(* An intention that no two checks had before them at once fires once. *)
THEOREM FiresOnceAlways == IntentionsSpec => []FiresOnce
<1>1. IntentionsInit => OInv
  BY IntentionsAssumption, SMT DEF IntentionsInit, OInv, IntentionsTypeOK, Existing, Once, Alone, Holds, Idle
<1>2. OInv => FiresOnce
  BY SMT DEF OInv, FiresOnce, Once, Done
<1> QED
  BY <1>1, <1>2, OnceStep, PTL DEF IntentionsSpec

-----------------------------------------------------------------------------
(* Each firing is with its check, on its way out, or told.                  *)
Accounted(i) ==
  /\ told[i] + Cardinality(Telling(i)) <= fires[i]
  /\ i \notin cut => told[i] + Cardinality(Telling(i)) = fires[i]

EInv == IntentionsTypeOK /\ \A i \in Ids : Accounted(i)

LEMMA TellingFinite ==
  \A i : IsFiniteSet(Telling(i)) /\ Cardinality(Telling(i)) \in Nat
<1> SUFFICES ASSUME NEW i PROVE IsFiniteSet(Telling(i)) /\ Cardinality(Telling(i)) \in Nat
  OBVIOUS
<1>1. Telling(i) \subseteq Requests
  BY DEF Telling
<1> QED
  BY <1>1, FS_Subset, FS_CardinalityType, IntentionsAssumption

(* The others keep what they tell of when one request goes on. *)
LEMMA TellingOf ==
  ASSUME NEW t \in Requests, \A s \in Requests \ {t} : task'[s] = task[s], NEW i \in Ids
  PROVE  Telling(i)' = IF task'[t].at = "tell" /\ i \in task'[t].ids THEN Telling(i) \cup {t}
                       ELSE Telling(i) \ {t}
BY DEF Telling

(* Steps in which no request begins or ends to tell. *)
LEMMA Unheard ==
  ASSUME EInv, IntentionsTypeOK', told' = told, fires' = fires, cut' = cut,
         \A i \in Ids : Telling(i)' = Telling(i)
  PROVE  EInv'
BY DEF EInv, Accounted

LEMMA EventsStep == EInv /\ [IntentionsNext]_intentionsVars => EInv'
<1> SUFFICES ASSUME EInv, [IntentionsNext]_intentionsVars PROVE EInv'
  OBVIOUS
<1> IntentionsTypeOK /\ IntentionsTypeOK'
  BY TypeStep DEF EInv
<1>1. ASSUME task' = task, UNCHANGED <<told, fires, cut>> PROVE EInv'
  BY <1>1, Unheard DEF Telling
<1>2. ASSUME NEW t \in Requests, task[t].at # "tell", task'[t].at # "tell",
             \A s \in Requests \ {t} : task'[s] = task[s]
      PROVE  \A i \in Ids : Telling(i)' = Telling(i)
  <2> SUFFICES ASSUME NEW i \in Ids PROVE Telling(i)' = Telling(i)
    OBVIOUS
  <2>1. t \notin Telling(i) /\ Telling(i)' = Telling(i) \ {t}
    BY <1>2, TellingOf DEF Telling
  <2> QED
    BY <2>1
<1>3. ASSUME NEW t \in Requests, NEW place \in {"commit", "remove"}, NEW ids, Begin(t, place, ids),
             UNCHANGED <<told, fires, cut>>
      PROVE  EInv'
  <2>1. \A i \in Ids : Telling(i)' = Telling(i)
    <3>1. task[t].at # "tell" /\ task'[t].at # "tell"
      BY <1>3 DEF Begin, Idle, IntentionsTypeOK
    <3>2. \A s \in Requests \ {t} : task'[s] = task[s]
      BY <1>3 DEF Begin, IntentionsTypeOK
    <3> QED
      BY <1>2, <3>1, <3>2
  <2> QED
    BY <1>3, <2>1, Unheard
<1>4. CASE \E t \in Requests, match \in SUBSET Ids : Check(t, match)
  BY <1>4, <1>3 DEF Check, Match
<1>5. CASE \E t \in Requests, i \in Ids : Delete(t, i)
  BY <1>5, <1>3 DEF Delete
<1>6. ASSUME NEW t \in Requests, Stale(t) \/ Remove(t) PROVE EInv'
  <2>1. \A i \in Ids : Telling(i)' = Telling(i)
    BY <1>2, <1>6 DEF Stale, Remove, End, Idle, IntentionsTypeOK
  <2> QED
    BY <1>6, <2>1, Unheard DEF Stale, Remove
<1>7. ASSUME NEW t \in Requests, Commit(t) PROVE EInv'
  <2> SUFFICES ASSUME NEW i \in Ids PROVE Accounted(i)'
    BY DEF EInv
  <2>1. /\ task'[t].at = "tell" /\ task'[t].ids = task[t].ids
        /\ \A s \in Requests \ {t} : task'[s] = task[s]
    BY <1>7 DEF Commit, IntentionsTypeOK
  <2>2. Telling(i)' = (IF i \in task[t].ids THEN Telling(i) \cup {t} ELSE Telling(i) \ {t})
    BY <2>1, TellingOf
  <2>3. t \notin Telling(i) /\ told' = told /\ cut' = cut
    BY <1>7 DEF Commit, Writes, Telling
  <2>4. CASE i \in task[t].ids
    <3>1. Cardinality(Telling(i)') = Cardinality(Telling(i)) + 1
      BY <2>2, <2>3, <2>4, TellingFinite, FS_AddElement
    <3>2. fires'[i] = fires[i] + 1
      BY <1>7, <2>4, SMT DEF Commit, Writes, IntentionsTypeOK
    <3> QED
      BY <2>3, <3>1, <3>2, TellingFinite, SMT DEF EInv, Accounted, IntentionsTypeOK
  <2>5. CASE i \notin task[t].ids
    <3>1. Telling(i)' = Telling(i) /\ fires'[i] = fires[i]
      BY <1>7, <2>2, <2>3, <2>5 DEF Commit, Writes
    <3> QED
      BY <2>3, <3>1 DEF EInv, Accounted
  <2> QED
    BY <2>4, <2>5
<1>8. ASSUME NEW t \in Requests, CommitUnacknowledged(t) PROVE EInv'
  <2> SUFFICES ASSUME NEW i \in Ids PROVE Accounted(i)'
    BY DEF EInv
  <2>1. Telling(i)' = Telling(i)
    BY <1>2, <1>8 DEF CommitUnacknowledged, Writes, End, Idle, IntentionsTypeOK
  <2>2. /\ told' = told /\ cut' = cut \cup task[t].ids
        /\ fires'[i] = IF i \in task[t].ids THEN fires[i] + 1 ELSE fires[i]
    BY <1>8 DEF CommitUnacknowledged, Writes
  <2> QED
    BY <2>1, <2>2, TellingFinite, SMT DEF EInv, Accounted, IntentionsTypeOK
<1>9. ASSUME NEW t \in Requests, Publish(t) PROVE EInv'
  <2>1. PICK j \in task[t].ids : Publish(t)!2!(j)
    BY <1>9 DEF Publish
  <2> SUFFICES ASSUME NEW i \in Ids PROVE Accounted(i)'
    BY DEF EInv
  <2>2. Telling(i)' = IF i \in task[t].ids \ {j} THEN Telling(i) \cup {t} ELSE Telling(i) \ {t}
    <3>1. task'[t].at = "tell" /\ i \in task'[t].ids <=> i \in task[t].ids \ {j}
      BY <2>1 DEF Idle, IntentionsTypeOK
    <3>2. \A s \in Requests \ {t} : task'[s] = task[s]
      BY <2>1 DEF IntentionsTypeOK
    <3> QED
      BY <3>1, <3>2, TellingOf
  <2>3. fires' = fires /\ cut' = cut /\ (t \in Telling(i) <=> i \in task[t].ids)
    BY <1>9 DEF Publish, Telling
  <2>4. CASE i = j
    <3>1. Cardinality(Telling(i)') = Cardinality(Telling(i)) - 1
      BY <2>2, <2>3, <2>4, TellingFinite, FS_RemoveElement
    <3>2. told'[i] = told[i] + 1
      BY <2>1, <2>4 DEF IntentionsTypeOK
    <3>3. told[i] \in Nat /\ Cardinality(Telling(i)) \in Nat
      BY TellingFinite DEF IntentionsTypeOK
    <3>4. told'[i] + Cardinality(Telling(i)') = told[i] + Cardinality(Telling(i))
      BY <3>1, <3>2, <3>3
    <3> QED
      BY <2>3, <3>4 DEF EInv, Accounted
  <2>5. CASE i # j
    <3>1. Telling(i)' = Telling(i) /\ told'[i] = told[i]
      BY <2>1, <2>2, <2>3, <2>5 DEF IntentionsTypeOK
    <3> QED
      BY <2>3, <3>1 DEF EInv, Accounted
  <2> QED
    BY <2>4, <2>5
<1>10. ASSUME NEW S \in SUBSET Requests, Abort(S) PROVE EInv'
  <2> SUFFICES ASSUME NEW i \in Ids PROVE Accounted(i)'
    BY DEF EInv
  <2>1. /\ task' = [t \in Requests |-> IF t \in S THEN Idle ELSE task[t]]
        /\ cut' = cut \cup Untold(S) /\ told' = told /\ fires' = fires
    BY <1>10 DEF Abort
  <2>2. Telling(i)' = Telling(i) \ S
    BY <2>1 DEF Telling, Idle
  <2>3. Cardinality(Telling(i)') <= Cardinality(Telling(i))
    BY <2>2, TellingFinite, FS_Subset
  <2>4. i \notin cut' => Telling(i)' = Telling(i)
    BY <2>1, <2>2 DEF Telling, Untold
  <2>5. Cardinality(Telling(i)') \in Nat
    BY <2>2, TellingFinite, FS_Subset, FS_CardinalityType
  <2> QED
    BY <2>1, <2>3, <2>4, <2>5, TellingFinite, SMT DEF EInv, Accounted, IntentionsTypeOK
<1> QED
  BY <1>1, <1>4, <1>5, <1>6, <1>7, <1>8, <1>9, <1>10
     DEF IntentionsNext, Set, Expire, Cleanup, intentionsVars, table

(* Every committed firing is published once and nothing else is; one that   *)
(* was cut off between commit and answer may be lost.                       *)
THEOREM EventsMatchFiresAlways == IntentionsSpec => []EventsMatchFires
<1>1. IntentionsInit => EInv
  <2> SUFFICES ASSUME IntentionsInit PROVE IntentionsTypeOK /\ \A i \in Ids : Accounted(i)
    BY DEF EInv
  <2>1. IntentionsTypeOK
    BY IntentionsAssumption, SMT DEF IntentionsInit, IntentionsTypeOK, Idle
  <2>2. \A i \in Ids : Telling(i) = {}
    BY DEF IntentionsInit, Telling, Idle
  <2> QED
    BY <2>1, <2>2, FS_EmptySet, SMT DEF IntentionsInit, Accounted
<1>2. EInv => EventsMatchFires
  BY DEF EInv, Accounted, EventsMatchFires
<1> QED
  BY <1>1, <1>2, EventsStep, PTL DEF IntentionsSpec

(* What the table shows as fired (check of mypalace/intentions/service.py    *)
(* commits fired = True before it publishes) was published or is about to   *)
(* be, and by one check only unless two read it armed at once; the one      *)
(* exception is a request that ended between the commit and its event.      *)
THEOREM FiredIsToldAlways == IntentionsSpec => []FiredIsTold
<1>1. Tallied /\ FiresOnce /\ EventsMatchFires => FiredIsTold
  <2> SUFFICES ASSUME Tallied, FiresOnce, EventsMatchFires, NEW i \in Ids, i \notin cut,
                      intention[i] = "fired"
               PROVE  LET events == told[i] + Cardinality(Telling(i)) IN
                      events > 0 /\ (i \notin raced => events = 1)
    BY DEF FiredIsTold
  <2>1. told[i] + Cardinality(Telling(i)) = fires[i]
    BY DEF EventsMatchFires
  <2>2. fires[i] \in Nat /\ fires[i] > 0
    BY DEF Tallied, FiredIsCounted, IntentionsTypeOK
  <2>3. i \notin raced => fires[i] = 1
    BY <2>2 DEF FiresOnce
  <2> QED
    BY <2>1, <2>2, <2>3
<1> QED
  BY <1>1, TalliedAlways, FiresOnceAlways, EventsMatchFiresAlways, PTL

-----------------------------------------------------------------------------
(* Dynamics                                                                *)

Tasks == [op : {"none", "promote", "score"}, at : {"idle", "insert", "commit"},
          memory : Memories \cup {"none"}, user : Users \cup {"none"},
          grade : Grades, seen : Rows, new : BOOLEAN]

Fraction == 0 .. 1000

(* A review keeps retrieval strength a fraction, and raises storage        *)
(* strength beyond 1 only by a failure, which adds 50 thousandths.         *)
LEMMA ReviewedRange ==
  ASSUME NEW old \in Rows, NEW g \in Grades, NEW decayed \in Fraction
  PROVE  /\ Reviewed(old, g, decayed).retrieval \in Fraction
         /\ Reviewed(old, g, decayed).storage \in Nat
         /\ g # Again => Reviewed(old, g, decayed).storage \in Fraction
         /\ g = Again => Reviewed(old, g, decayed).storage = old.storage + 50
<1>1. old.storage \in Nat
  BY DEF Rows
<1>2. CASE g = Again
  BY <1>1, <1>2, SMT DEF Reviewed, Fraction
<1>3. CASE g # Again
  <2>1. Boost(g) \in Nat
    BY SMT DEF Boost, Grades
  <2>2. Gain(g, 1000 - decayed) \in Nat
    BY SMT DEF Gain, Grades, Fraction
  <2> DEFINE retrieval == decayed + Boost(g)
             storage == old.storage + Gain(g, 1000 - decayed)
  <2>3. retrieval \in Nat /\ storage \in Nat
    BY <1>1, <2>1, <2>2 DEF Fraction
  <2>4. Capped(retrieval) \in Fraction /\ Capped(storage) \in Fraction
    <3> HIDE DEF retrieval, storage
    <3> QED
      BY <2>3, SMT DEF Capped, Fraction
  <2> QED
    BY <1>3, <2>4, SMT DEF Reviewed, Fraction
<1> QED
  BY <1>2, <1>3

LEMMA DecayedRange ==
  ASSUME NEW old \in Rows, NEW d \in Decayed(old) PROVE d \in Fraction
BY SMT DEF Rows, Decayed, Fraction

LEMMA FreshRow == /\ NoRow \in Rows
                  /\ \A u \in Users : Fresh(u) \in Rows
BY DEF NoRow, Fresh, Rows

(* What a review writes is a row. *)
LEMMA WrittenRow ==
  ASSUME DynamicsTypeOK, NEW m \in Memories, NEW t \in Reviewers, NEW d \in Decayed(doing[t].seen)
  PROVE  Written(m, doing[t], Reviewed(doing[t].seen, doing[t].grade, d)) \in Rows
<1> DEFINE r == doing[t]
           next == Reviewed(r.seen, r.grade, d)
           now == IF r.new THEN r.seen ELSE dynamics[m]
<1>1. r.seen \in Rows /\ dynamics[m] \in Rows /\ r.grade \in Grades
  BY DEF DynamicsTypeOK
<1>2. next.retrieval \in Fraction /\ next.storage \in Nat
  <2>1. d \in Fraction
    BY <1>1, DecayedRange
  <2> HIDE DEF r
  <2> QED
    BY <1>1, <2>1, ReviewedRange, Zenon
<1>3. now \in Rows
  BY <1>1
<1> HIDE DEF next, now
<1>4. /\ Column(now.retrieval, r.seen.retrieval, next.retrieval) \in Fraction
      /\ Column(now.storage, r.seen.storage, next.storage) \in Nat
      /\ now.user \in Users \cup {"none"}
      /\ r.seen.count + 1 \in Nat
  BY <1>1, <1>2, <1>3 DEF Column, Rows, Fraction
<1> QED
  <2> DEFINE w == [user |-> now.user, count |-> r.seen.count + 1,
                   retrieval |-> Column(now.retrieval, r.seen.retrieval, next.retrieval),
                   storage |-> Column(now.storage, r.seen.storage, next.storage)]
  <2>1. w \in Rows
    BY <1>4 DEF Rows, Fraction
  <2>2. Written(m, r, next) = w
    BY DEF Written, now
  <2> QED
    BY <2>1, <2>2 DEF next

LEMMA TypeTasks == DynamicsTypeOK <=> /\ dynamics \in [Memories -> Rows]
                              /\ log \in [Memories -> Seq([user : Users, grade : Grades])]
                              /\ pruned \in [Memories -> Nat]
                              /\ doing \in [Reviewers -> Tasks]
                              /\ reviews \in 0 .. MaxReviews
                              /\ contested \subseteq Memories
                              /\ upsets \in 0 .. MaxUpsets
BY DEF DynamicsTypeOK, Tasks

LEMMA IdleTask == NoTask \in Tasks
BY FreshRow DEF NoTask, Tasks, Grades, Again

LEMMA BeginsTyped ==
  ASSUME DynamicsTypeOK, NEW t \in Reviewers, NEW r \in Tasks, BeginRequest(t, r)
  PROVE  doing' \in [Reviewers -> Tasks] /\ reviews' \in 0 .. MaxReviews
BY TypeTasks, DynamicsAssumption, SMT DEF BeginRequest

LEMMA EndsTyped ==
  ASSUME DynamicsTypeOK, NEW t \in Reviewers, EndRequest(t) PROVE doing' \in [Reviewers -> Tasks]
BY TypeTasks, IdleTask DEF EndRequest

(* A request in the middle of something knows its memory and its user, and  *)
(* an insert is open only until the commit.                                 *)
Shape(r) ==
  /\ r.at = "idle" => r = NoTask
  /\ r.at # "idle" => r.memory \in Memories /\ r.user \in Users
  /\ r.at = "insert" => ~r.new /\ (r.op = "promote" => r.seen = Fresh(r.user))
  /\ r.at = "commit" => r.seen.user = r.user
  /\ r.new => r.seen = Fresh(r.user)

TInv == DynamicsTypeOK /\ \A t \in Reviewers : Shape(doing[t])

(* Only one request at a time changes what it is about to do. *)
LEMMA ShapeOne ==
  ASSUME TInv, doing' \in [Reviewers -> Tasks], NEW t \in Reviewers, Shape(doing'[t]),
         \A s \in Reviewers \ {t} : doing'[s] = doing[s]
  PROVE  \A s \in Reviewers : Shape(doing'[s])
BY DEF TInv

LEMMA IdleShape == Shape(NoTask)
BY DEF Shape, NoTask

LEMMA EndShape ==
  ASSUME TInv, NEW t \in Reviewers, EndRequest(t) PROVE \A s \in Reviewers : Shape(doing'[s])
<1>1. doing'[t] = NoTask /\ \A s \in Reviewers \ {t} : doing'[s] = doing[s]
  BY DEF TInv, DynamicsTypeOK, EndRequest
<1> QED
  BY <1>1, EndsTyped, IdleShape, ShapeOne DEF TInv

LEMMA TStep == TInv /\ [DynamicsNext]_dynamicsVars => TInv'
<1> SUFFICES ASSUME TInv, [DynamicsNext]_dynamicsVars PROVE TInv'
  OBVIOUS
<1> DynamicsTypeOK
  BY DEF TInv
<1>1. CASE UNCHANGED dynamicsVars
  BY <1>1 DEF dynamicsVars, TInv, DynamicsTypeOK
<1>2. ASSUME NEW t \in Reviewers, NEW m \in Memories, NEW u \in Users, NEW g \in Grades,
             Promote(t, m, u, g)
      PROVE  TInv'
  <2> DEFINE known == dynamics[m].user = u
             r == [op |-> "promote", at |-> IF known THEN "commit" ELSE "insert", memory |-> m,
                   user |-> u, grade |-> g, seen |-> IF known THEN dynamics[m] ELSE Fresh(u),
                   new |-> FALSE]
  <2>1. r \in Tasks
    BY FreshRow DEF Tasks, DynamicsTypeOK
  <2>2. BeginRequest(t, r)
    BY <1>2 DEF Promote
  <2>3. doing' \in [Reviewers -> Tasks] /\ reviews' \in 0 .. MaxReviews
    BY <2>1, <2>2, BeginsTyped
  <2>4. Shape(r)
    BY DEF Shape
  <2>5. doing'[t] = r /\ \A s \in Reviewers \ {t} : doing'[s] = doing[s]
    BY <2>2 DEF BeginRequest, DynamicsTypeOK
  <2>6. \A s \in Reviewers : Shape(doing'[s])
    BY <2>3, <2>4, <2>5, ShapeOne
  <2>7. contested' \subseteq Memories
    BY <1>2 DEF Promote, DynamicsTypeOK
  <2> QED
    BY <1>2, <2>3, <2>6, <2>7 DEF Promote, TInv, DynamicsTypeOK, Tasks
<1>3. ASSUME NEW t \in Reviewers, NEW m \in Memories, NEW u \in Users, Score(t, m, u) PROVE TInv'
  <2> DEFINE r == [NoTask EXCEPT !.op = "score", !.at = "insert", !.memory = m, !.user = u]
  <2>1. r \in Tasks
    BY IdleTask DEF Tasks
  <2>2. BeginRequest(t, r)
    BY <1>3 DEF Score
  <2>3. doing' \in [Reviewers -> Tasks] /\ reviews' \in 0 .. MaxReviews
    BY <2>1, <2>2, BeginsTyped
  <2>4. Shape(r)
    BY DEF Shape, NoTask
  <2>5. doing'[t] = r /\ \A s \in Reviewers \ {t} : doing'[s] = doing[s]
    BY <2>2 DEF BeginRequest, DynamicsTypeOK
  <2>6. \A s \in Reviewers : Shape(doing'[s])
    BY <2>3, <2>4, <2>5, ShapeOne
  <2> QED
    BY <1>3, <2>3, <2>6 DEF Score, TInv, DynamicsTypeOK, Tasks
<1>4. ASSUME NEW t \in Reviewers, Insert(t) PROVE TInv'
  <2>1. doing' \in [Reviewers -> Tasks]
    <3>1. doing \in [Reviewers -> Tasks]
      BY TypeTasks
    <3>2. \A r \in Tasks : [r EXCEPT !.at = "commit", !.new = TRUE] \in Tasks
      BY DEF Tasks
    <3>3. doing' = [doing EXCEPT ![t] = [@ EXCEPT !.at = "commit", !.new = TRUE]]
      <4>1. \A r \in Tasks : [[r EXCEPT !.at = "commit"] EXCEPT !.new = TRUE]
                               = [r EXCEPT !.at = "commit", !.new = TRUE]
        BY DEF Tasks
      <4> QED
        BY <1>4, <3>1, <4>1 DEF Insert
    <3> HIDE DEF Tasks
    <3> QED
      BY <3>1, <3>2, <3>3
  <2>2. /\ doing'[t] = [doing[t] EXCEPT !.at = "commit", !.new = TRUE]
        /\ \A s \in Reviewers \ {t} : doing'[s] = doing[s]
    <3>1. doing \in [Reviewers -> Tasks]
      BY TypeTasks
    <3> QED
      BY <1>4, <3>1 DEF Insert, Tasks
  <2>3. doing[t] \in Tasks /\ Shape(doing[t]) /\ doing[t].at = "insert" /\ doing[t].op = "promote"
    BY <1>4 DEF Insert, TInv, DynamicsTypeOK, Tasks
  <2>4. Shape(doing'[t])
    <3> DEFINE r == doing[t]
    <3>1. /\ r.seen = Fresh(r.user) /\ r.memory \in Memories /\ r.user \in Users
          /\ Fresh(r.user).user = r.user
      BY <2>3 DEF Shape, Fresh
    <3>2. /\ doing'[t].at = "commit" /\ doing'[t].memory = r.memory /\ doing'[t].user = r.user
          /\ doing'[t].seen = r.seen
      BY <2>2, <2>3 DEF Tasks
    <3> QED
      BY <3>1, <3>2 DEF Shape
  <2>5. \A s \in Reviewers : Shape(doing'[s])
    BY <2>1, <2>2, <2>4, ShapeOne
  <2> QED
    BY <1>4, <2>1, <2>5 DEF Insert, TInv, DynamicsTypeOK, Tasks
<1>5. ASSUME NEW t \in Reviewers, Conflict(t) PROVE TInv'
  BY <1>5, EndsTyped, EndShape, TypeTasks DEF Conflict, TInv, DynamicsTypeOK, Tasks
<1>6. ASSUME NEW t \in Reviewers, CommitRequest(t) PROVE TInv'
  <2>1. PICK d \in Decayed(doing[t].seen) :
          dynamics' = [dynamics EXCEPT ![doing[t].memory] =
                    Written(doing[t].memory, doing[t], Reviewed(doing[t].seen, doing[t].grade, d))]
    BY <1>6 DEF CommitRequest
  <2>2. doing[t].memory \in Memories /\ doing[t].user \in Users /\ doing[t].grade \in Grades
    BY <1>6 DEF CommitRequest, TInv, Shape, DynamicsTypeOK
  <2>3. dynamics' \in [Memories -> Rows]
    BY <2>1, <2>2, WrittenRow DEF DynamicsTypeOK
  <2>4. log' \in [Memories -> Seq([user : Users, grade : Grades])]
    <3> DEFINE e == [user |-> doing[t].user, grade |-> doing[t].grade]
    <3>1. e \in [user : Users, grade : Grades]
      BY <2>2
    <3>2. log' = [log EXCEPT ![doing[t].memory] = Append(@, e)]
      BY <1>6 DEF CommitRequest
    <3>3. Append(log[doing[t].memory], e) \in Seq([user : Users, grade : Grades])
      <4> DEFINE E == [user : Users, grade : Grades]
      <4>1. log[doing[t].memory] \in Seq(E) /\ e \in E
        BY <2>2, <3>1 DEF DynamicsTypeOK
      <4> HIDE DEF E, e
      <4> QED
        BY <4>1, SMT DEF E
    <3> HIDE DEF e
    <3> QED
      BY <2>2, <3>2, <3>3, Zenon DEF DynamicsTypeOK
  <2> QED
    BY <1>6, <2>3, <2>4, EndsTyped, EndShape DEF CommitRequest, TInv, DynamicsTypeOK, Tasks
<1>7. ASSUME NEW t \in Reviewers, Ensure(t) PROVE TInv'
  <2>1. doing[t].memory \in Memories /\ doing[t].user \in Users
    BY <1>7 DEF Ensure, TInv, Shape
  <2>2. dynamics' \in [Memories -> Rows]
    BY <1>7, <2>1, FreshRow DEF Ensure, DynamicsTypeOK
  <2> QED
    BY <1>7, <2>2, EndsTyped, EndShape DEF Ensure, TInv, DynamicsTypeOK, Tasks
<1>8. CASE Prune
  <2>1. pruned' \in [Memories -> Nat]
    BY <1>8, DynamicsAssumption, SMT DEF Prune
  <2> QED
    BY <1>8, <2>1 DEF Prune, TInv, DynamicsTypeOK
<1>9. ASSUME NEW S \in SUBSET Reviewers, AbortRequest(S) PROVE TInv'
  <2>1. doing' \in [Reviewers -> Tasks] /\ \A s \in Reviewers : Shape(doing'[s])
    BY <1>9, IdleTask, IdleShape DEF AbortRequest, TInv, DynamicsTypeOK, Tasks
  <2>2. upsets' \in 0 .. MaxUpsets
    BY <1>9, DynamicsAssumption, SMT DEF AbortRequest, DynamicsTypeOK
  <2> QED
    BY <1>9, <2>1, <2>2 DEF AbortRequest, TInv, DynamicsTypeOK, Tasks
<1> QED
  BY <1>1, <1>2, <1>3, <1>4, <1>5, <1>6, <1>7, <1>8, <1>9 DEF DynamicsNext

LEMMA TInit == DynamicsInit => TInv
<1> SUFFICES ASSUME DynamicsInit PROVE TInv
  OBVIOUS
<1>1. DynamicsTypeOK
  BY FreshRow, IdleTask, DynamicsAssumption DEF DynamicsInit, DynamicsTypeOK, Tasks
<1>2. \A t \in Reviewers : Shape(doing[t])
  BY IdleShape DEF DynamicsInit
<1> QED
  BY <1>1, <1>2 DEF TInv

(* Every variable stays within its range; retrieval strength is a fraction. *)
THEOREM DynamicsTypeAlways == DynamicsSpec => []DynamicsTypeOK
<1>1. TInv => DynamicsTypeOK
  BY DEF TInv
<1> QED
  BY <1>1, TInit, TStep, PTL DEF DynamicsSpec

-----------------------------------------------------------------------------
(* Who reviews a memory: the user of its row, once there is one; until then *)
(* the log is empty and one insert at most is open.                         *)
Commits(r, m) == r.at = "commit" /\ r.memory = m

Reviewer(m) ==
  /\ Absent(m) => dynamics[m] = NoRow /\ log[m] = <<>>
  /\ \A n \in DOMAIN log[m] : log[m][n].user = dynamics[m].user
  /\ \A t \in Reviewers : Commits(doing[t], m) => IF doing[t].new THEN Absent(m)
                                                ELSE dynamics[m].user = doing[t].user
  /\ \A s, t \in Reviewers : /\ Commits(doing[s], m) /\ doing[s].new
                            /\ Commits(doing[t], m) /\ doing[t].new
                            => s = t

RInv == TInv /\ \A m \in Memories : Reviewer(m)

(* Requests that go on or end without having committed anything. *)
LEMMA ReviewerKept ==
  ASSUME RInv, NEW m \in Memories, dynamics' = dynamics, log' = log,
         \A t \in Reviewers : Commits(doing[t], m)' => Commits(doing[t], m) /\ doing'[t] = doing[t]
  PROVE  Reviewer(m)'
BY DEF RInv, Reviewer, Absent, Commits

(* The request t goes on, the others stay. *)
LEMMA OthersStay ==
  ASSUME DynamicsTypeOK, NEW t \in Reviewers, NEW r, doing' = [doing EXCEPT ![t] = r]
  PROVE  doing'[t] = r /\ \A s \in Reviewers \ {t} : doing'[s] = doing[s]
BY DEF DynamicsTypeOK

LEMMA AppendLog ==
  ASSUME DynamicsTypeOK, NEW m \in Memories, NEW e
  PROVE  /\ DOMAIN log[m] = 1 .. Len(log[m])
         /\ Len(log[m]) \in Nat
         /\ DOMAIN Append(log[m], e) = 1 .. Len(log[m]) + 1
         /\ Len(Append(log[m], e)) = Len(log[m]) + 1
         /\ \A n \in 1 .. Len(log[m]) : Append(log[m], e)[n] = log[m][n]
         /\ Append(log[m], e)[Len(log[m]) + 1] = e
<1> DEFINE E == [user : Users, grade : Grades]
<1>1. log[m] \in Seq(E)
  BY DEF DynamicsTypeOK
<1> HIDE DEF E
<1> QED
  BY <1>1, SMT

(* What a commit does to the row and the log of its memory. *)
Entry(r) == [user |-> r.user, grade |-> r.grade]

LEMMA CommitEffect ==
  ASSUME TInv, NEW t \in Reviewers, CommitRequest(t)
  PROVE  \E d \in Decayed(doing[t].seen) :
           LET r == doing[t]
               next == Reviewed(r.seen, r.grade, d)
           IN  /\ r.at = "commit" /\ r.memory \in Memories /\ r.user \in Users
               /\ dynamics'[r.memory] = Written(r.memory, r, next)
               /\ log'[r.memory] = Append(log[r.memory], Entry(r))
               /\ \A m \in Memories \ {r.memory} : dynamics'[m] = dynamics[m] /\ log'[m] = log[m]
               /\ doing'[t] = NoTask /\ \A s \in Reviewers \ {t} : doing'[s] = doing[s]
<1>1. PICK d \in Decayed(doing[t].seen) :
        dynamics' = [dynamics EXCEPT ![doing[t].memory] =
                  Written(doing[t].memory, doing[t], Reviewed(doing[t].seen, doing[t].grade, d))]
  BY DEF CommitRequest
<1>2. doing[t].at = "commit" /\ doing[t].memory \in Memories /\ doing[t].user \in Users
  BY DEF CommitRequest, TInv, Shape
<1>3. log' = [log EXCEPT ![doing[t].memory] = Append(@, Entry(doing[t]))]
  BY DEF CommitRequest, Entry
<1>4. doing'[t] = NoTask /\ \A s \in Reviewers \ {t} : doing'[s] = doing[s]
  BY OthersStay DEF CommitRequest, EndRequest, TInv
<1>5. dynamics \in [Memories -> Rows] /\ DOMAIN log = Memories
  BY DEF TInv, DynamicsTypeOK
<1>6. dynamics'[doing[t].memory] =
        Written(doing[t].memory, doing[t], Reviewed(doing[t].seen, doing[t].grade, d))
  BY <1>1, <1>2, <1>5, Zenon
<1>7. \A m \in Memories \ {doing[t].memory} : dynamics'[m] = dynamics[m]
  BY <1>1, <1>5, Zenon
<1>8. /\ log'[doing[t].memory] = Append(log[doing[t].memory], Entry(doing[t]))
      /\ \A m \in Memories \ {doing[t].memory} : log'[m] = log[m]
  BY <1>2, <1>3, <1>5, Zenon
<1> QED
  BY <1>2, <1>4, <1>6, <1>7, <1>8, Zenon

LEMMA RStep == RInv /\ [DynamicsNext]_dynamicsVars => RInv'
<1> SUFFICES ASSUME RInv, [DynamicsNext]_dynamicsVars, NEW m \in Memories PROVE Reviewer(m)'
  BY TStep DEF RInv
<1> TInv /\ DynamicsTypeOK /\ Reviewer(m)
  BY DEF RInv, TInv
<1>1. CASE UNCHANGED dynamicsVars
  BY <1>1, ReviewerKept DEF dynamicsVars
<1>2. ASSUME NEW t \in Reviewers, NEW k \in Memories, NEW u \in Users, NEW g \in Grades,
             Promote(t, k, u, g)
      PROVE  Reviewer(m)'
  <2>1. /\ doing'[t].at \in {"commit", "insert"} /\ doing'[t].memory = k /\ doing'[t].user = u
        /\ doing'[t].new = FALSE /\ (doing'[t].at = "commit" => dynamics[k].user = u)
        /\ \A s \in Reviewers \ {t} : doing'[s] = doing[s]
    <3> DEFINE known == dynamics[k].user = u
               r == [op |-> "promote", at |-> IF known THEN "commit" ELSE "insert", memory |-> k,
                     user |-> u, grade |-> g, seen |-> IF known THEN dynamics[k] ELSE Fresh(u),
                     new |-> FALSE]
    <3>1. doing' = [doing EXCEPT ![t] = r]
      BY <1>2 DEF Promote, BeginRequest
    <3>2. doing'[t] = r /\ \A s \in Reviewers \ {t} : doing'[s] = doing[s]
      BY <3>1 DEF DynamicsTypeOK
    <3> QED
      BY <3>2
  <2>2. dynamics' = dynamics /\ log' = log
    BY <1>2 DEF Promote
  <2> QED
    BY <2>1, <2>2 DEF Reviewer, Commits, Absent
<1>3. ASSUME NEW t \in Reviewers, NEW k \in Memories, NEW u \in Users, Score(t, k, u)
      PROVE  Reviewer(m)'
  <2>1. doing'[t].at = "insert" /\ \A s \in Reviewers \ {t} : doing'[s] = doing[s]
    BY <1>3 DEF Score, BeginRequest, NoTask, DynamicsTypeOK
  <2> QED
    BY <1>3, <2>1, ReviewerKept DEF Score, Commits
<1>4. ASSUME NEW t \in Reviewers, Insert(t) PROVE Reviewer(m)'
  <2>1. doing \in [Reviewers -> Tasks]
    BY TypeTasks
  <2>2. /\ doing'[t].memory = doing[t].memory /\ doing'[t].at = "commit" /\ doing'[t].new = TRUE
        /\ \A s \in Reviewers \ {t} : doing'[s] = doing[s]
    BY <1>4, <2>1 DEF Insert, Tasks
  <2>3. Absent(doing[t].memory) /\ ~Inserting(doing[t].memory) /\ dynamics' = dynamics /\ log' = log
    BY <1>4 DEF Insert
  <2> QED
    BY <2>2, <2>3 DEF Reviewer, Commits, Absent, Inserting
<1>5. ASSUME NEW t \in Reviewers, Conflict(t) PROVE Reviewer(m)'
  <2>1. doing'[t] = NoTask /\ \A s \in Reviewers \ {t} : doing'[s] = doing[s]
    BY <1>5, OthersStay DEF Conflict, EndRequest
  <2> QED
    BY <1>5, <2>1, ReviewerKept DEF Conflict, Commits, NoTask
<1>6. ASSUME NEW t \in Reviewers, CommitRequest(t) PROVE Reviewer(m)'
  <2> DEFINE r == doing[t]
  <2>1. PICK d \in Decayed(r.seen) :
          /\ r.at = "commit" /\ r.memory \in Memories /\ r.user \in Users
          /\ dynamics'[r.memory] = Written(r.memory, r, Reviewed(r.seen, r.grade, d))
          /\ log'[r.memory] = Append(log[r.memory], Entry(r))
          /\ \A k \in Memories \ {r.memory} : dynamics'[k] = dynamics[k] /\ log'[k] = log[k]
          /\ doing'[t] = NoTask /\ \A s \in Reviewers \ {t} : doing'[s] = doing[s]
    BY <1>6, CommitEffect
  <2>2. CASE m # r.memory
    BY <2>1, <2>2 DEF Reviewer, Commits, Absent, NoTask
  <2>3. CASE m = r.memory
    <3>1. Commits(r, m) /\ r.seen.user = r.user
      BY <2>1, <2>3 DEF Commits, TInv, Shape
    <3>2. dynamics'[m].user = r.user
      BY <2>1, <2>3, <3>1 DEF Written, Reviewer
    <3>3. r.user # "none"
      BY <2>1, DynamicsAssumption
    <3>4. \A n \in DOMAIN log[m] : log[m][n].user = r.user
      BY <3>1 DEF Reviewer
    <3>5. \A n \in DOMAIN log'[m] : log'[m][n].user = r.user
      <4>1. \A n \in 1 .. Len(log[m]) + 1 : n \in 1 .. Len(log[m]) \/ n = Len(log[m]) + 1
        BY AppendLog, SMT
      <4> QED
        <5> DEFINE e == Entry(r)
        <5>1. /\ DOMAIN log[m] = 1 .. Len(log[m])
              /\ DOMAIN Append(log[m], e) = 1 .. Len(log[m]) + 1
              /\ \A n \in 1 .. Len(log[m]) : Append(log[m], e)[n] = log[m][n]
              /\ Append(log[m], e)[Len(log[m]) + 1] = e
          BY AppendLog
        <5>2. e.user = r.user /\ log'[m] = Append(log[m], e)
          BY <2>1, <2>3 DEF Entry
        <5> HIDE DEF e, r
        <5>3. ASSUME NEW n \in DOMAIN log'[m] PROVE log'[m][n].user = r.user
          <6>1. n \in 1 .. Len(log[m]) \/ n = Len(log[m]) + 1
            BY <4>1, <5>1, <5>2, <5>3
          <6> QED
            BY <3>4, <5>1, <5>2, <6>1
        <5> QED
          BY <5>3
    <3>6. ASSUME NEW s \in Reviewers, Commits(doing'[s], m)
          PROVE  ~doing'[s].new /\ dynamics'[m].user = doing'[s].user
      <4>1. s # t /\ doing'[s] = doing[s] /\ Commits(doing[s], m)
        BY <2>1, <3>6 DEF Commits, NoTask
      <4>2. ~doing[s].new
        BY <2>1, <3>1, <3>3, <4>1 DEF Reviewer, Absent
      <4>3. dynamics[m].user = doing[s].user /\ ~Absent(m)
        BY <4>1, <4>2, DynamicsAssumption DEF Reviewer, Absent, TInv, Shape, Commits
      <4>4. ~r.new
        BY <3>1, <4>3 DEF Reviewer
      <4> QED
        BY <3>1, <3>2, <4>1, <4>2, <4>3, <4>4 DEF Reviewer
    <3> QED
      BY <3>2, <3>3, <3>5, <3>6 DEF Reviewer, Absent
  <2> QED
    BY <2>2, <2>3
<1>7. ASSUME NEW t \in Reviewers, Ensure(t) PROVE Reviewer(m)'
  <2>1. doing'[t] = NoTask /\ \A s \in Reviewers \ {t} : doing'[s] = doing[s]
    BY <1>7, OthersStay DEF Ensure, EndRequest
  <2>2. CASE m # doing[t].memory
    <3>1. dynamics'[m] = dynamics[m] /\ log'[m] = log[m]
      BY <1>7, <2>2 DEF Ensure, DynamicsTypeOK
    <3> QED
      BY <2>1, <3>1 DEF Reviewer, Commits, Absent, NoTask
  <2>3. CASE m = doing[t].memory
    <3>1. dynamics'[m].user = doing[t].user /\ log'[m] = log[m] /\ log[m] = <<>>
      BY <1>7, <2>3 DEF Ensure, DynamicsTypeOK, Fresh, Reviewer
    <3>2. doing[t].user # "none"
      BY <1>7, DynamicsAssumption DEF Ensure, TInv, Shape
    <3>3. ASSUME NEW s \in Reviewers, Commits(doing[s], m) PROVE FALSE
      <4>1. ~doing[s].new
        BY <1>7, <2>3, <3>3 DEF Ensure, Inserting, Commits
      <4>2. dynamics[m].user = doing[s].user /\ doing[s].user \in Users
        BY <3>3, <4>1 DEF Reviewer, TInv, Shape, Commits
      <4> QED
        BY <1>7, <2>3, <4>2, DynamicsAssumption DEF Ensure, Absent
    <3>4. \A s \in Reviewers : ~Commits(doing'[s], m)
      BY <2>1, <3>3 DEF Commits, NoTask
    <3>5. DOMAIN log'[m] = {}
      BY <3>1
    <3> QED
      BY <3>1, <3>2, <3>4, <3>5 DEF Reviewer, Absent
  <2> QED
    BY <2>2, <2>3
<1>8. CASE Prune
  BY <1>8, ReviewerKept DEF Prune
<1>9. ASSUME NEW S \in SUBSET Reviewers, AbortRequest(S) PROVE Reviewer(m)'
  <2>1. \A s \in Reviewers : doing'[s] = NoTask \/ doing'[s] = doing[s]
    BY <1>9 DEF AbortRequest
  <2> QED
    BY <1>9, <2>1, ReviewerKept DEF AbortRequest, Commits, NoTask
<1> QED
  BY <1>1, <1>2, <1>3, <1>4, <1>5, <1>6, <1>7, <1>8, <1>9 DEF DynamicsNext

LEMMA RInit == DynamicsInit => RInv
BY TInit DEF DynamicsInit, RInv, Reviewer, Commits, Absent, NoRow, NoTask

(* The reviews of a memory are all by one user. *)
THEOREM OneReviewerAlways == DynamicsSpec => []OneReviewer
<1>1. RInv => OneReviewer
  BY DEF RInv, Reviewer, OneReviewer
<1> QED
  BY <1>1, RInit, RStep, PTL DEF DynamicsSpec

-----------------------------------------------------------------------------
(* What the row of a memory owes to its log, and what the reviews that have *)
(* read the row and not written it yet will add.                            *)
Allowance(m) == 1000 + 50 * Failures(m)

ReviewsCounted(m) == IF m \in contested THEN dynamics[m].count <= Len(log[m]) ELSE dynamics[m].count = Len(log[m])

Tally(m) ==
  /\ ReviewsCounted(m)
  /\ dynamics[m].storage <= Allowance(m)
  /\ \A t \in Reviewers : Commits(doing[t], m) => /\ doing[t].seen.count <= Len(log[m])
                                                /\ doing[t].seen.storage <= Allowance(m)
  /\ m \notin contested =>
       /\ \A t \in Reviewers : Commits(doing[t], m) /\ ~doing[t].new => doing[t].seen.count = dynamics[m].count
       /\ \A s, t \in Reviewers : /\ Commits(doing[s], m) /\ ~doing[s].new
                                 /\ Commits(doing[t], m) /\ ~doing[t].new
                                 => s = t

NInv == RInv /\ \A m \in Memories : Tally(m)

LEMMA FailuresNat ==
  ASSUME DynamicsTypeOK, NEW m \in Memories
  PROVE  /\ IsFiniteSet({n \in DOMAIN log[m] : log[m][n].grade = Again})
         /\ Failures(m) \in Nat
<1>1. DOMAIN log[m] = 1 .. Len(log[m]) /\ Len(log[m]) \in Nat
  BY AppendLog
<1>2. IsFiniteSet(1 .. Len(log[m]))
  BY <1>1, FS_Interval, SMT
<1>3. IsFiniteSet({n \in DOMAIN log[m] : log[m][n].grade = Again})
  BY <1>1, <1>2, FS_Subset, Zenon
<1>4. Failures(m) \in Nat
  BY <1>3, FS_CardinalityType, Zenon DEF Failures
<1> QED
  BY <1>3, <1>4

LEMMA LimitNat ==
  ASSUME DynamicsTypeOK, NEW m \in Memories
  PROVE  /\ Failures(m) \in Nat
         /\ Allowance(m) \in Nat /\ 1000 <= Allowance(m) /\ 500 <= Allowance(m)
         /\ 0 <= Len(log[m])
<1>1. Failures(m) \in Nat
  BY FailuresNat
<1>2. Allowance(m) \in Nat /\ 1000 <= Allowance(m) /\ 500 <= Allowance(m)
  BY <1>1, SMT DEF Allowance
<1>3. 0 <= Len(log[m])
  BY AppendLog
<1> QED
  BY <1>1, <1>2, <1>3

(* A review adds its failure to the log. *)
LEMMA FailuresAppend ==
  ASSUME DynamicsTypeOK, NEW m \in Memories, NEW e, log'[m] = Append(log[m], e)
  PROVE  Failures(m)' = IF e.grade = Again THEN Failures(m) + 1 ELSE Failures(m)
<1> DEFINE F == {n \in DOMAIN log[m] : log[m][n].grade = Again}
           G == {n \in DOMAIN log'[m] : log'[m][n].grade = Again}
           k == Len(log[m]) + 1
<1>1. /\ DOMAIN log[m] = 1 .. Len(log[m]) /\ Len(log[m]) \in Nat
      /\ DOMAIN log'[m] = 1 .. k
      /\ \A n \in 1 .. Len(log[m]) : log'[m][n] = log[m][n]
      /\ log'[m][k] = e
  BY AppendLog
<1>2. \A n : n \in 1 .. k <=> n \in 1 .. Len(log[m]) \/ n = k
  BY <1>1, SMT
<1>3. k \notin 1 .. Len(log[m])
  BY <1>1, SMT
<1>4. IsFiniteSet(F)
  BY FailuresNat
<1>5. G = IF e.grade = Again THEN F \cup {k} ELSE F
  <2> HIDE DEF k
  <2> QED
    BY <1>1, <1>2, <1>3
<1>6. k \notin F
  BY <1>1, <1>3
<1>7. Cardinality(F \cup {k}) = Cardinality(F) + 1
  <2> HIDE DEF F, k
  <2> QED
    BY <1>4, <1>6, FS_AddElement
<1>8. Failures(m) = Cardinality(F) /\ Failures(m)' = Cardinality(G)
  BY DEF Failures
<1> QED
  BY <1>5, <1>7, <1>8

LEMMA FailuresSame ==
  ASSUME NEW m \in Memories, log'[m] = log[m] PROVE Failures(m)' = Failures(m) /\ Allowance(m)' = Allowance(m)
BY DEF Failures, Allowance

(* A memory on which nothing begins and nothing is committed. *)
LEMMA TallyKept ==
  ASSUME NEW m \in Memories, Tally(m), dynamics'[m] = dynamics[m], log'[m] = log[m],
         m \in contested' <=> m \in contested,
         \A t \in Reviewers : Commits(doing'[t], m) /\ ~doing'[t].new
                             => Commits(doing[t], m) /\ doing'[t] = doing[t],
         \A t \in Reviewers : Commits(doing'[t], m) /\ doing'[t].new
                             => \/ Commits(doing[t], m) /\ doing'[t] = doing[t]
                                \/ /\ doing'[t].seen.count <= Len(log[m])
                                   /\ doing'[t].seen.storage <= Allowance(m)
  PROVE  Tally(m)'
<1>1. Allowance(m)' = Allowance(m) /\ Len(log[m])' = Len(log[m])
  BY FailuresSame
<1> QED
  BY <1>1 DEF Tally, ReviewsCounted

(* Nobody is about to review a memory without a row but its inserter. *)
LEMMA AbsentAlone ==
  ASSUME RInv, NEW m \in Memories, Absent(m), NEW t \in Reviewers, Commits(doing[t], m)
  PROVE  doing[t].new
<1>1. ~doing[t].new => dynamics[m].user = doing[t].user /\ doing[t].user \in Users
  BY DEF RInv, Reviewer, TInv, Shape, Commits
<1> QED
  BY <1>1, DynamicsAssumption DEF Absent

(* What a review that read storage s writes stays within the limit that     *)
(* holds with its own failure counted, unless it writes nothing.            *)
LEMMA WrittenStorage ==
  ASSUME DynamicsTypeOK, NEW m \in Memories, NEW t \in Reviewers, NEW d \in Decayed(doing[t].seen),
         Allowance(m) \in Nat, 1000 <= Allowance(m), Allowance(m)' \in Nat, Allowance(m)' >= Allowance(m),
         doing[t].grade = Again => Allowance(m)' = Allowance(m) + 50,
         doing[t].seen.storage <= Allowance(m), dynamics[m].storage <= Allowance(m)
  PROVE  Written(m, doing[t], Reviewed(doing[t].seen, doing[t].grade, d)).storage <= Allowance(m)'
<1> DEFINE r == doing[t]
           next == Reviewed(r.seen, r.grade, d)
           now == IF r.new THEN r.seen ELSE dynamics[m]
<1>1. r.seen \in Rows /\ dynamics[m] \in Rows /\ r.grade \in Grades
  BY DEF DynamicsTypeOK
<1>2. d \in Fraction
  BY <1>1, DecayedRange
<1>3. /\ next.storage \in Nat
      /\ r.grade # Again => next.storage \in Fraction
      /\ r.grade = Again => next.storage = r.seen.storage + 50
  BY <1>1, <1>2, ReviewedRange, Zenon
<1>4. r.seen.storage \in Nat /\ dynamics[m].storage \in Nat
  BY <1>1 DEF Rows
<1>5. next.storage <= Allowance(m)'
  <2> HIDE DEF next, r
  <2>1. r.grade = doing[t].grade /\ r.seen = doing[t].seen
    BY DEF r
  <2> QED
    BY <1>3, <1>4, <2>1, SMT DEF Fraction
<1>6. now.storage <= Allowance(m) /\ now.storage \in Nat
  BY <1>4
<1>7. Written(m, r, next).storage = Column(now.storage, r.seen.storage, next.storage)
  BY DEF Written
<1> HIDE DEF next, now
<1>8. Column(now.storage, r.seen.storage, next.storage) \in {now.storage, next.storage}
  BY DEF Column
<1>9. Column(now.storage, r.seen.storage, next.storage) <= Allowance(m)'
  BY <1>3, <1>5, <1>6, <1>8
<1> QED
  BY <1>7, <1>9 DEF next

LEMMA NStep == NInv /\ [DynamicsNext]_dynamicsVars => NInv'
<1> SUFFICES ASSUME NInv, [DynamicsNext]_dynamicsVars, NEW m \in Memories PROVE Tally(m)'
  BY RStep DEF NInv
<1> RInv /\ TInv /\ DynamicsTypeOK /\ Tally(m) /\ Reviewer(m)
  BY DEF NInv, RInv, TInv
<1>1. ASSUME doing' = doing, dynamics' = dynamics, log' = log, contested' = contested PROVE Tally(m)'
  BY <1>1, TallyKept
<1>2. ASSUME NEW t \in Reviewers, NEW k \in Memories, NEW u \in Users, NEW g \in Grades,
             Promote(t, k, u, g)
      PROVE  Tally(m)'
  <2> DEFINE known == dynamics[k].user = u
             r == [op |-> "promote", at |-> IF known THEN "commit" ELSE "insert", memory |-> k,
                   user |-> u, grade |-> g, seen |-> IF known THEN dynamics[k] ELSE Fresh(u),
                   new |-> FALSE]
  <2>1. doing' = [doing EXCEPT ![t] = r] /\ doing[t] = NoTask
    BY <1>2 DEF Promote, BeginRequest
  <2>2. doing'[t] = r /\ \A s \in Reviewers \ {t} : doing'[s] = doing[s]
    BY <2>1 DEF DynamicsTypeOK
  <2>3. /\ dynamics' = dynamics /\ log' = log
        /\ contested' = IF known /\ Reviewing(k) THEN contested \cup {k} ELSE contested
    BY <1>2 DEF Promote
  <2>4. CASE m = k /\ known
    <3>1. Allowance(m)' = Allowance(m) /\ Len(log[m])' = Len(log[m])
      BY <2>3, FailuresSame
    <3>2. ReviewsCounted(m)'
      <4>1. CASE m \in contested
        BY <2>3, <4>1 DEF Tally, ReviewsCounted
      <4>2. CASE m \notin contested
        <5>1. dynamics[m].count = Len(log[m]) /\ Len(log[m]) \in Nat
          BY <4>2, AppendLog DEF Tally, ReviewsCounted
        <5> QED
          BY <2>3, <5>1 DEF ReviewsCounted
      <4> QED
        BY <4>1, <4>2
    <3>3. dynamics[m].count <= Len(log[m]) /\ dynamics[m].storage <= Allowance(m)
      <4>1. Len(log[m]) \in Nat
        BY AppendLog
      <4> QED
        BY <4>1 DEF Tally, ReviewsCounted
    <3>4. ASSUME NEW s \in Reviewers, Commits(doing'[s], m)
          PROVE  doing'[s].seen.count <= Len(log[m]) /\ doing'[s].seen.storage <= Allowance(m)
      BY <2>2, <2>4, <3>3, <3>4 DEF Tally
    <3>5. ASSUME m \notin contested' PROVE m \notin contested /\ ~Reviewing(m)
      BY <2>3, <2>4, <3>5
    <3>6. ASSUME m \notin contested', NEW s \in Reviewers, Commits(doing'[s], m), ~doing'[s].new
          PROVE  s = t /\ doing'[s].seen.count = dynamics[m].count
      <4>1. s = t
        BY <2>2, <3>5, <3>6 DEF Reviewing, Commits
      <4> QED
        BY <2>2, <2>4, <4>1
    <3> QED
      BY <2>3, <3>1, <3>2, <3>3, <3>4, <3>6 DEF Tally
  <2>5. CASE ~(m = k /\ known)
    <3>1. ~Commits(doing'[t], m) /\ (m \in contested' <=> m \in contested)
      BY <2>2, <2>3, <2>5 DEF Commits
    <3>2. dynamics'[m] = dynamics[m] /\ log'[m] = log[m]
      BY <2>3
    <3>3. \A s \in Reviewers : Commits(doing'[s], m) => Commits(doing[s], m) /\ doing'[s] = doing[s]
      BY <2>2, <3>1
    <3> QED
      BY <3>1, <3>2, <3>3, TallyKept
  <2> QED
    BY <2>4, <2>5
<1>3. ASSUME NEW t \in Reviewers, NEW k \in Memories, NEW u \in Users, Score(t, k, u)
      PROVE  Tally(m)'
  <2>1. doing'[t].at = "insert" /\ \A s \in Reviewers \ {t} : doing'[s] = doing[s]
    BY <1>3 DEF Score, BeginRequest, NoTask, DynamicsTypeOK
  <2> QED
    BY <1>3, <2>1, TallyKept DEF Score, Commits
<1>4. ASSUME NEW t \in Reviewers, Insert(t) PROVE Tally(m)'
  <2>1. doing \in [Reviewers -> Tasks]
    BY TypeTasks
  <2>2. /\ doing'[t].memory = doing[t].memory /\ doing'[t].new = TRUE /\ doing'[t].seen = doing[t].seen
        /\ \A s \in Reviewers \ {t} : doing'[s] = doing[s]
    BY <1>4, <2>1 DEF Insert, Tasks
  <2>3. doing[t].seen = Fresh(doing[t].user)
    BY <1>4 DEF Insert, TInv, Shape
  <2>4. doing'[t].seen.count <= Len(log[m]) /\ doing'[t].seen.storage <= Allowance(m)
    <3>1. doing'[t].seen.count = 0 /\ doing'[t].seen.storage = 500
      BY <2>2, <2>3 DEF Fresh
    <3> QED
      <4>1. 0 <= Len(log[m]) /\ 500 <= Allowance(m)
        BY LimitNat
      <4> QED
        BY <3>1, <4>1
  <2> QED
    BY <1>4, <2>2, <2>4, TallyKept DEF Insert
<1>5. ASSUME NEW t \in Reviewers, Conflict(t) PROVE Tally(m)'
  <2>1. doing'[t] = NoTask /\ \A s \in Reviewers \ {t} : doing'[s] = doing[s]
    BY <1>5, OthersStay DEF Conflict, EndRequest
  <2> QED
    BY <1>5, <2>1, TallyKept DEF Conflict, Commits, NoTask
<1>6. ASSUME NEW t \in Reviewers, CommitRequest(t) PROVE Tally(m)'
  <2> DEFINE r == doing[t]
  <2>1. PICK d \in Decayed(r.seen) :
          /\ r.at = "commit" /\ r.memory \in Memories /\ r.user \in Users
          /\ dynamics'[r.memory] = Written(r.memory, r, Reviewed(r.seen, r.grade, d))
          /\ log'[r.memory] = Append(log[r.memory], Entry(r))
          /\ \A k \in Memories \ {r.memory} : dynamics'[k] = dynamics[k] /\ log'[k] = log[k]
          /\ doing'[t] = NoTask /\ \A s \in Reviewers \ {t} : doing'[s] = doing[s]
    BY <1>6, CommitEffect
  <2>2. contested' = contested
    BY <1>6 DEF CommitRequest
  <2>3. CASE m # r.memory
    BY <2>1, <2>2, <2>3, TallyKept DEF Commits, NoTask
  <2>4. CASE m = r.memory
    <3>1. Commits(r, m)
      BY <2>1, <2>4 DEF Commits
    <3>2. /\ Len(log[m]) \in Nat /\ Len(log'[m]) = Len(log[m]) + 1
          /\ Failures(m)' = IF r.grade = Again THEN Failures(m) + 1 ELSE Failures(m)
      BY <2>1, <2>4, AppendLog, FailuresAppend DEF Entry
    <3>3. /\ Allowance(m) \in Nat /\ 1000 <= Allowance(m) /\ Allowance(m)' \in Nat /\ Allowance(m)' >= Allowance(m)
          /\ r.grade = Again => Allowance(m)' = Allowance(m) + 50
      <4> DEFINE old == Failures(m)
                 new == Failures(m)'
                 failed == r.grade = Again
      <4>1. old \in Nat /\ Allowance(m) \in Nat /\ 1000 <= Allowance(m)
        BY LimitNat
      <4>2. new = IF failed THEN old + 1 ELSE old
        BY <3>2
      <4>3. Allowance(m) = 1000 + 50 * old /\ Allowance(m)' = 1000 + 50 * new
        BY DEF Allowance
      <4> HIDE DEF old, new, failed
      <4>4. /\ Allowance(m)' \in Nat /\ Allowance(m)' >= Allowance(m)
            /\ failed => Allowance(m)' = Allowance(m) + 50
        BY <4>1, <4>2, <4>3, SMT
      <4> QED
        BY <4>1, <4>4 DEF failed
    <3>4. r.seen.count <= Len(log[m]) /\ r.seen.storage <= Allowance(m) /\ r.seen.count \in Nat
      BY <3>1 DEF Tally, DynamicsTypeOK, Rows
    <3>5. dynamics'[m].storage <= Allowance(m)'
      <4>1. dynamics[m].storage <= Allowance(m)
        BY DEF Tally
      <4> QED
        BY <2>1, <2>4, <3>3, <3>4, <4>1, WrittenStorage, Zenon
    <3>6. dynamics'[m].count = r.seen.count + 1
      BY <2>1, <2>4 DEF Written
    <3>7. ReviewsCounted(m)'
      <4>1. CASE m \in contested
        <5>1. dynamics'[m].count <= Len(log'[m])
          <6> HIDE DEF r
          <6> QED
            BY <3>2, <3>4, <3>6
        <5> QED
          BY <2>2, <4>1, <5>1 DEF ReviewsCounted
      <4>2. CASE m \notin contested
        <5>1. r.seen.count = Len(log[m])
          <6>1. CASE r.new
            <7>1. log[m] = <<>> /\ r.seen = Fresh(r.user)
              BY <3>1, <6>1 DEF Reviewer, TInv, Shape
            <7> QED
              BY <7>1 DEF Fresh
          <6>2. CASE ~r.new
            BY <3>1, <4>2, <6>2 DEF Tally, ReviewsCounted
          <6> QED
            BY <6>1, <6>2
        <5> QED
          BY <2>2, <3>2, <3>6, <4>2, <5>1 DEF ReviewsCounted
      <4> QED
        BY <4>1, <4>2
    <3>8. ASSUME NEW s \in Reviewers, Commits(doing'[s], m)
          PROVE  s # t /\ doing'[s] = doing[s] /\ Commits(doing[s], m)
      BY <2>1, <3>8 DEF Commits, NoTask
    <3>9. ASSUME NEW s \in Reviewers, Commits(doing'[s], m)
          PROVE  doing'[s].seen.count <= Len(log'[m]) /\ doing'[s].seen.storage <= Allowance(m)'
      <4>1. /\ doing'[s].seen.count <= Len(log[m]) /\ doing'[s].seen.storage <= Allowance(m)
            /\ doing'[s].seen.count \in Nat /\ doing'[s].seen.storage \in Nat
        BY <3>8, <3>9 DEF Tally, DynamicsTypeOK, Rows
      <4> QED
        BY <3>2, <3>3, <4>1
    <3>10. ASSUME m \notin contested, NEW s \in Reviewers, Commits(doing'[s], m), ~doing'[s].new
           PROVE  FALSE
      <4>1. s # t /\ ~doing[s].new /\ Commits(doing[s], m)
        BY <3>8, <3>10
      <4>2. ~r.new
        BY <3>1, <4>1, AbsentAlone DEF Reviewer
      <4> QED
        BY <3>1, <3>10, <4>1, <4>2 DEF Tally
    <3> QED
      BY <2>2, <3>5, <3>7, <3>9, <3>10 DEF Tally
  <2> QED
    BY <2>3, <2>4
<1>7. ASSUME NEW t \in Reviewers, Ensure(t) PROVE Tally(m)'
  <2>1. doing'[t] = NoTask /\ \A s \in Reviewers \ {t} : doing'[s] = doing[s]
    BY <1>7, OthersStay DEF Ensure, EndRequest
  <2>2. log' = log /\ contested' = contested
    BY <1>7 DEF Ensure
  <2>3. CASE m # doing[t].memory
    <3>1. dynamics'[m] = dynamics[m]
      BY <1>7, <2>3 DEF Ensure, DynamicsTypeOK
    <3> QED
      BY <2>1, <2>2, <3>1, TallyKept DEF Commits, NoTask
  <2>4. CASE m = doing[t].memory
    <3>1. dynamics'[m] = Fresh(doing[t].user) /\ log[m] = <<>> /\ Absent(m)
      BY <1>7, <2>4 DEF Ensure, DynamicsTypeOK, Reviewer
    <3>2. ASSUME NEW s \in Reviewers PROVE ~Commits(doing[s], m)
      BY <1>7, <2>4, <3>1, AbsentAlone DEF Ensure, Inserting, Commits
    <3>3. \A s \in Reviewers : ~Commits(doing'[s], m)
      BY <2>1, <3>2 DEF Commits, NoTask
    <3>4. ReviewsCounted(m)'
      BY <2>2, <3>1 DEF ReviewsCounted, Fresh
    <3>5. dynamics'[m].storage <= Allowance(m)'
      <4>1. Allowance(m)' = Allowance(m) /\ dynamics'[m].storage = 500
        BY <2>2, <3>1, FailuresSame DEF Fresh
      <4>2. 500 <= Allowance(m)
        BY LimitNat
      <4> QED
        BY <4>1, <4>2
    <3> QED
      BY <3>3, <3>4, <3>5 DEF Tally
  <2> QED
    BY <2>3, <2>4
<1>8. CASE Prune
  BY <1>8, <1>1 DEF Prune
<1>9. ASSUME NEW S \in SUBSET Reviewers, AbortRequest(S) PROVE Tally(m)'
  <2>1. \A s \in Reviewers : doing'[s] = NoTask \/ doing'[s] = doing[s]
    BY <1>9 DEF AbortRequest
  <2> QED
    BY <1>9, <2>1, TallyKept DEF AbortRequest, Commits, NoTask
<1>10. CASE UNCHANGED dynamicsVars
  BY <1>10, <1>1 DEF dynamicsVars
<1> QED
  BY <1>2, <1>3, <1>4, <1>5, <1>6, <1>7, <1>8, <1>9, <1>10 DEF DynamicsNext

LEMMA NInit == DynamicsInit => NInv
<1> SUFFICES ASSUME DynamicsInit, NEW m \in Memories PROVE Tally(m)
  BY RInit DEF NInv
<1>1. DynamicsTypeOK
  BY TInit DEF TInv
<1>2. dynamics[m] = NoRow /\ log[m] = <<>> /\ \A t \in Reviewers : ~Commits(doing[t], m)
  BY DEF DynamicsInit, Commits, NoTask
<1>3. 500 <= Allowance(m) /\ Allowance(m) \in Nat
  BY <1>1, LimitNat
<1>4. dynamics[m].storage <= Allowance(m)
  BY <1>2, <1>3 DEF NoRow
<1>5. ReviewsCounted(m)
  BY <1>2 DEF ReviewsCounted, NoRow
<1> QED
  BY <1>2, <1>4, <1>5 DEF Tally

(* The counter of a row agrees with the log.  Overlapping reviews may lose  *)
(* an update of the row, never an entry of the log.                         *)
THEOREM ReviewsAreLoggedAlways == DynamicsSpec => []ReviewsAreLogged
<1>1. NInv => ReviewsAreLogged
  BY DEF NInv, Tally, ReviewsCounted, ReviewsAreLogged
<1> QED
  BY <1>1, NInit, NStep, PTL DEF DynamicsSpec

(* What was reviewed is on record, once, for whoever reviewed it. *)
THEOREM ReviewsHoldAlways == DynamicsSpec => []ReviewsHold
  BY ReviewsAreLoggedAlways, OneReviewerAlways, PTL DEF ReviewsHold

(* Only failures raise storage strength beyond 1. *)
THEOREM OnlyFailuresOverfillAlways == DynamicsSpec => []OnlyFailuresOverfill
<1>1. NInv => OnlyFailuresOverfill
  BY DEF NInv, Tally, Allowance, OnlyFailuresOverfill
<1> QED
  BY <1>1, NInit, NStep, PTL DEF DynamicsSpec

-----------------------------------------------------------------------------
(* The composition                                                         *)

(* Only the part that runs takes steps. *)
LEMMA StepsAreOfParts ==
  ASSUME [Next]_vars
  PROVE  /\ [SurfaceNext]_surfaceVars /\ [GatewayNext]_gatewayVars
         /\ [DynamicsNext]_dynamicsVars /\ [IntentionsNext]_intentionsVars
         /\ [IngestionNext]_ingestionVars /\ [AliasesNext]_aliasVars
BY Zenon DEF Next, vars

(* The composition implements each of its parts, so that what is proved of  *)
(* a part holds in it.                                                      *)
THEOREM RequestsAreParts ==
  Spec => /\ SurfaceSpec /\ GatewaySpec /\ DynamicsSpec
          /\ IntentionsSpec /\ IngestionSpec /\ AliasesSpec
<1>1. Init => /\ SurfaceInit /\ GatewayInit /\ DynamicsInit
              /\ IntentionsInit /\ IngestionInit /\ AliasesInit
  BY DEF Init
<1> QED
  BY <1>1, StepsAreOfParts, PTL
  DEF Spec, SurfaceSpec, GatewaySpec, DynamicsSpec, IntentionsSpec, IngestionSpec, AliasesSpec

(* Every variable of the part that runs stays within its range.             *)
THEOREM RequestsTypeAlways == Spec => []TypeOK
<1>1. SurfaceTypeOK /\ GatewayTypeOK /\ DynamicsTypeOK /\ IntentionsTypeOK /\ IngestionTypeOK
        /\ AliasesTypeOK => TypeOK
  BY DEF TypeOK
<1> QED
  BY <1>1, RequestsAreParts, SurfaceTypeAlways, GatewayTypeAlways, DynamicsTypeAlways,
     IntentionsTypeAlways, IngestionTypeAlways, AliasesTypeAlways, PTL
=============================================================================
