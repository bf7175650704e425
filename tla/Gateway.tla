------------------------------- MODULE Gateway -------------------------------
(***************************************************************************)
(* What a call passes before a service sees it.  Over HTTP: the key, its   *)
(* scopes (mypalace/auth), the rate limit (mypalace/ratelimit) and, after  *)
(* the handler, the audit log (mypalace/audit); over gRPC only the key and *)
(* its scopes.  The limiter's window lies in Redis and is shared by all    *)
(* processes; a call reads the clock first and reaches Redis later.  How   *)
(* keys come to be is in Startup.                                          *)
(***************************************************************************)
EXTENDS Integers, FiniteSets

CONSTANTS
  Calls,       \* calls, each made once
  Keys,        \* API keys
  Plenty,      \* keys that have the scope "unlimited"
  Scopes,      \* the other scopes of each key: read, write, admin
  KeyOf,       \* the key a call brings
  Asks,        \* the scope its path or RPC requires (see Surface)
  Door,        \* "http" or "grpc"
  Retires,     \* admin calls that revoke a key, and which
  Limit,       \* calls a key may make in a window
  Window,      \* the window's length (60 s in the code)
  Delay,       \* bound: time from reading the clock to Redis
  MaxClock,    \* bound: the clock
  MaxTroubles  \* bound: faults in one behaviour

Instants == 0 .. MaxClock

ASSUME GatewayAssumption ==
  /\ IsFiniteSet(Calls)
  /\ Plenty \subseteq Keys
  /\ Scopes \in [Keys -> SUBSET {"read", "write", "admin"}]
  /\ KeyOf \in [Calls -> Keys]
  /\ Asks \in [Calls -> {"read", "write", "admin"}]
  /\ Door \in [Calls -> {"http", "grpc"}]
  /\ Retires \in [Calls -> SUBSET Keys]
  /\ Limit \in Nat
  /\ Window \in Nat \ {0}
  /\ Delay \in 0 .. Window
  /\ MaxClock \in Nat
  /\ MaxTroubles \in Nat

VARIABLES
  clock,     \* time.time()
  revoked,   \* the rows of api_keys that are revoked
  at,        \* where a call stands
  answer,    \* what it was answered
  stamp,     \* the clock as the limiter read it
  window,    \* the sorted set of each key, in Redis
  expires,   \* when Redis drops it
  persists,  \* audit rows on their way to the database
  audit,     \* the rows of audit_logs
  ran,       \* auxiliary: when a call reached Redis; -1: it did not
  lost,      \* auxiliary: calls whose audit row could not be written
  troubles   \* faults so far

limits == <<stamp, window, expires, ran>>
trail == <<persists, audit, lost>>
calling == <<at, answer>>
gatewayVars == <<clock, revoked, calling, limits, trail, troubles>>

GatewayInit ==
  /\ clock = 0
  /\ revoked = {}
  /\ at = [c \in Calls |-> "new"]
  /\ answer = [c \in Calls |-> "none"]
  /\ stamp = [c \in Calls |-> 0]
  /\ window = [k \in Keys |-> {}]
  /\ expires = [k \in Keys |-> 0]
  /\ persists = {} /\ audit = {}
  /\ ran = [c \in Calls |-> -1]
  /\ lost = {}
  /\ troubles = 0

Trouble == troubles < MaxTroubles /\ troubles' = troubles + 1

Move(c, where) == at' = [at EXCEPT ![c] = where] /\ UNCHANGED answer
Reply(c, status) ==
  /\ at' = [at EXCEPT ![c] = "answered"]
  /\ answer' = [answer EXCEPT ![c] = status]

-----------------------------------------------------------------------------
(* AuthMiddleware and AuthInterceptor. *)

(* lookup reads the rows with the key's prefix; what follows depends on the *)
(* key alone.                                                               *)
Arrive(c) ==
  /\ at[c] = "new"
  /\ \/ KeyOf[c] \in revoked /\ Reply(c, "unauthenticated")
     \/ /\ KeyOf[c] \notin revoked /\ Asks[c] \notin Scopes[KeyOf[c]]
        /\ Reply(c, "forbidden")
     \/ /\ KeyOf[c] \notin revoked /\ Asks[c] \in Scopes[KeyOf[c]]
        /\ Move(c, IF Door[c] = "http" THEN "admitted" ELSE "serving")
  /\ UNCHANGED <<clock, revoked, limits, trail, troubles>>

-----------------------------------------------------------------------------
(* RateLimitMiddleware and RateLimiter.check.  Stamps are members of the    *)
(* sorted set, taken to differ (time.time() with the limiter's id).         *)

ReadClock(c) ==
  /\ at[c] = "admitted"
  /\ IF KeyOf[c] \in Plenty THEN Move(c, "serving") /\ UNCHANGED stamp
     ELSE Move(c, "stamped") /\ stamp' = [stamp EXCEPT ![c] = clock]
  /\ UNCHANGED <<clock, revoked, window, expires, ran, trail, troubles>>

(* ZREMRANGEBYSCORE on what is left of the set when Redis runs the block. *)
Kept(c) ==
  {d \in window[KeyOf[c]] : clock < expires[KeyOf[c]] /\ stamp[d] > stamp[c] - Window}

Count(c) ==
  /\ window' = [window EXCEPT ![KeyOf[c]] = Kept(c) \cup {c}]
  /\ expires' = [expires EXCEPT ![KeyOf[c]] = clock + Window + 1]

(* A slip: the call itself is not counted. *)
CheckLimitOfOthers(c) ==
  /\ at[c] = "stamped"
  /\ Count(c)
  /\ IF Cardinality(Kept(c)) > Limit
     THEN Reply(c, "rate_limited") /\ UNCHANGED ran
     ELSE Move(c, "serving") /\ ran' = [ran EXCEPT ![c] = clock]
  /\ UNCHANGED <<clock, revoked, stamp, trail, troubles>>

(* The MULTI block: drop, count, add, expire.  A call that is denied is     *)
(* counted all the same.                                                    *)
CheckLimit(c) ==
  /\ at[c] = "stamped"
  /\ Count(c)
  /\ IF Cardinality(Kept(c)) + 1 > Limit
     THEN Reply(c, "rate_limited") /\ UNCHANGED ran
     ELSE Move(c, "serving") /\ ran' = [ran EXCEPT ![c] = clock]
  /\ UNCHANGED <<clock, revoked, stamp, trail, troubles>>

(* Redis failed, before or after it ran the block: the call goes through. *)
FailOpen(c) ==
  /\ Trouble
  /\ at[c] = "stamped"
  /\ Move(c, "serving")
  /\ Count(c) \/ UNCHANGED <<window, expires>>
  /\ UNCHANGED <<clock, revoked, stamp, ran, trail>>

-----------------------------------------------------------------------------
(* The handler and AuditMiddleware around it. *)

(* A slip: nothing is recorded of calls that revoke. *)
ServeQuietly(c) ==
  /\ at[c] = "serving"
  /\ revoked' = revoked \cup Retires[c]
  /\ Reply(c, "ok")
  /\ persists' = IF Door[c] = "http" /\ Asks[c] = "admin" /\ Retires[c] = {}
                 THEN persists \cup {c} ELSE persists
  /\ UNCHANGED <<clock, limits, audit, lost, troubles>>

(* revoke, for the calls that do; anything else is not this module's.       *)
(* Every answer of an admin call is recorded, by a task of its own.         *)
Serve(c) ==
  /\ at[c] = "serving"
  /\ revoked' = revoked \cup Retires[c]
  /\ Reply(c, "ok")
  /\ persists' = IF Door[c] = "http" /\ Asks[c] = "admin" THEN persists \cup {c} ELSE persists
  /\ UNCHANGED <<clock, limits, audit, lost, troubles>>

(* The handler raises: no middleware inside the outermost sees an answer.   *)
(* What it did may have been committed.                                     *)
ServeFails(c) ==
  /\ Trouble
  /\ at[c] = "serving"
  /\ \/ revoked' = revoked \cup Retires[c]
     \/ UNCHANGED revoked
  /\ Reply(c, "error")
  /\ UNCHANGED <<clock, limits, trail>>

Persist(c) ==
  /\ c \in persists
  /\ persists' = persists \ {c}
  /\ audit' = audit \cup {c}
  /\ UNCHANGED <<clock, revoked, calling, limits, lost, troubles>>

(* The insert fails: logged, and forgotten. *)
PersistFails(c) ==
  /\ Trouble
  /\ c \in persists
  /\ persists' = persists \ {c}
  /\ lost' = lost \cup {c}
  /\ UNCHANGED <<clock, revoked, calling, limits, audit>>

(* The clock moves; nothing takes longer than Delay to reach Redis. *)
Tick ==
  /\ clock < MaxClock
  /\ \A c \in Calls : at[c] = "stamped" => clock < stamp[c] + Delay
  /\ clock' = clock + 1
  /\ UNCHANGED <<revoked, calling, limits, trail, troubles>>

GatewayNext ==
  \/ \E c \in Calls :
       \/ Arrive(c) \/ ReadClock(c) \/ CheckLimit(c) \/ FailOpen(c)
       \/ Serve(c) \/ ServeFails(c) \/ Persist(c) \/ PersistFails(c)
  \/ Tick

GatewaySpec == GatewayInit /\ [][GatewayNext]_gatewayVars

-----------------------------------------------------------------------------
(* Every variable stays within its range. *)
GatewayTypeOK ==
  /\ clock \in Instants
  /\ revoked \subseteq Keys
  /\ at \in [Calls -> {"new", "admitted", "stamped", "serving", "answered"}]
  /\ answer \in [Calls -> {"none", "unauthenticated", "forbidden", "rate_limited", "ok", "error"}]
  /\ stamp \in [Calls -> Instants]
  /\ window \in [Keys -> SUBSET Calls]
  /\ expires \in [Keys -> 0 .. MaxClock + Window + 1]
  /\ persists \subseteq Calls /\ audit \subseteq Calls
  /\ ran \in [Calls -> Instants \cup {-1}]
  /\ lost \subseteq Calls
  /\ troubles \in 0 .. MaxTroubles

(* However the calls of a key overlap and whichever process takes them, no  *)
(* more than Limit pass the limiter in a window, less the time a call may   *)
(* need to reach Redis; only those are not counted that Redis failed.       *)
Passed(k, from, to) == {c \in Calls : KeyOf[c] = k /\ ran[c] >= 0 /\ ran[c] \in from + 1 .. to}

NeverOverLimit ==
  \A c \in Calls : ran[c] >= 0 =>
    Cardinality(Passed(KeyOf[c], ran[c] - (Window - Delay), ran[c])) <= Limit

(* A call is turned away only for others of its key in the window before    *)
(* it, or since: those include the ones that were turned away themselves.   *)
DeniedForCause ==
  \A c \in Calls : answer[c] = "rate_limited" =>
    Cardinality({d \in Calls \ {c} : /\ KeyOf[d] = KeyOf[c] /\ at[d] \in {"serving", "answered"}
                                     /\ stamp[d] > stamp[c] - Window}) >= Limit

(* Every admin call that its handler answered is in the log or on the way   *)
(* there, unless its row could not be written; and nothing else is there.   *)
AuditedOrLost ==
  /\ \A c \in Calls : answer[c] = "ok" /\ Door[c] = "http" /\ Asks[c] = "admin" =>
       c \in audit \cup persists \cup lost
  /\ \A c \in audit \cup persists : answer[c] = "ok" /\ "admin" \in Scopes[KeyOf[c]]

(* The limiter does what a window of Limit calls promises, both ways. *)
LimitIsExact == NeverOverLimit /\ DeniedForCause
=============================================================================
