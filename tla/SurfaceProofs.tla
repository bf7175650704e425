---------------------------- MODULE SurfaceProofs ----------------------------
(***************************************************************************)
(* Proofs about the two doors of the service.  The model has no parameter: *)
(* what is to be proved is that its tables, the routes, the scopes, what   *)
(* the clients spell out and the four places where a default is written    *)
(* down, fit each other.  No two routes fit a path of one of them, so the  *)
(* order of the routers does not matter (Reached); the scope rules have a  *)
(* closed form for every verb and path (ScopeInClosedForm); and each call  *)
(* that both clients offer is alike at both doors (AllServed).  The        *)
(* invariant Staged then says that a door comes, step by step, to the      *)
(* answer that the call alone determines, however the doors interleave.    *)
(***************************************************************************)
EXTENDS Surface, SequenceTheorems, WellFoundedInduction, TLAPS

-----------------------------------------------------------------------------
(* The members of a sequence. *)
Listed(seq) == {seq[n] : n \in DOMAIN seq}

(* Two tables one after the other list what each lists. *)
LEMMA ListedBoth ==
  ASSUME NEW S, NEW s \in Seq(S), NEW t \in Seq(S)
  PROVE  s \o t \in Seq(S) /\ Listed(s \o t) = Listed(s) \cup Listed(t)
  <1>1. /\ s \o t \in Seq(S) /\ Len(s \o t) = Len(s) + Len(t)
        /\ \A i \in 1 .. Len(s) + Len(t) :
             (s \o t)[i] = IF i <= Len(s) THEN s[i] ELSE t[i - Len(s)]
    BY ConcatProperties
  <1>2. Len(s) \in Nat /\ Len(t) \in Nat /\ DOMAIN s = 1 .. Len(s) /\ DOMAIN t = 1 .. Len(t)
        /\ DOMAIN (s \o t) = 1 .. Len(s) + Len(t)
    BY <1>1, LenProperties
  <1>3. ASSUME NEW n \in 1 .. Len(s) PROVE s[n] \in Listed(s \o t)
    <2>1. n \in 1 .. Len(s) + Len(t) /\ (s \o t)[n] = s[n] BY <1>1, <1>2
    <2> QED BY <2>1, <1>2 DEF Listed
  <1>4. ASSUME NEW n \in 1 .. Len(t) PROVE t[n] \in Listed(s \o t)
    <2>1. n + Len(s) \in 1 .. Len(s) + Len(t) /\ (s \o t)[n + Len(s)] = t[n] BY <1>1, <1>2
    <2> QED BY <2>1, <1>2 DEF Listed
  <1>5. ASSUME NEW n \in 1 .. Len(s) + Len(t)
        PROVE  (s \o t)[n] \in Listed(s) \cup Listed(t)
    <2>1. CASE n <= Len(s) BY <2>1, <1>1, <1>2 DEF Listed
    <2>2. CASE n > Len(s)
      <3>1. n - Len(s) \in 1 .. Len(t) /\ (s \o t)[n] = t[n - Len(s)] BY <2>2, <1>1, <1>2
      <3> QED BY <3>1, <1>2 DEF Listed
    <2> QED BY <2>1, <2>2, <1>2
  <1> QED BY <1>1, <1>2, <1>3, <1>4, <1>5 DEF Listed

(* A set of numbers that is not empty has a least one: the first row that   *)
(* fits.                                                                    *)
LEMMA Least ==
  ASSUME NEW S, S \subseteq Nat, S # {}
  PROVE  \E n \in S : \A m \in S : n <= m
<1> DEFINE R == {p \in Nat \X Nat : p[1] < p[2]}
<1>1. IsWellFoundedOn(R, Nat)
  BY NatLessThanWellFounded DEF OpToRel
<1>2. \E x \in S : \A y \in S : ~(<<y, x>> \in R)
  <2> HIDE DEF R
  <2> QED
    BY <1>1, WFMin
<1>3. ASSUME NEW x \in S, NEW y \in S, ~(<<y, x>> \in R) PROVE x <= y
  <2>1. <<y, x>> \in Nat \X Nat /\ <<y, x>>[1] = y /\ <<y, x>>[2] = x
    OBVIOUS
  <2>2. ~(y < x)
    BY <1>3, <2>1
  <2> QED
    BY <2>2
<1> HIDE DEF R
<1> QED
  BY <1>2, <1>3

-----------------------------------------------------------------------------
(* The routers, in the order they are included in, and their rows. *)
Routers ==
  << HealthRoutes, KeyRoutes, TenantRoutes, DataRoutes, AliasRoutes, TraitRoutes, MemoryRoutes,
     SessionRoutes, EpisodeRoutes, ArcRoutes, DynamicsRoutes, IntentionRoutes, OtherRoutes >>
RouteRows == UNION {Listed(Routers[k]) : k \in 1 .. 13}

(* Where a route has its parameter: the place follows from the verb and     *)
(* from segments that come before it, so two routes of the same verb that   *)
(* fit the same path have theirs at the same place.                         *)
IdAt(verb, path) ==
  IF path[1] = "admin"
       THEN IF verb \notin {"DELETE", "PATCH"} THEN 0
            ELSE IF path[2] \in {"keys", "tenants"} THEN 3 ELSE 4
  ELSE IF path[1] \in {"users", "sessions", "jobs"} THEN 2
  ELSE IF path[1] = "memories" THEN IF verb = "POST" /\ Len(path) = 2 THEN 0 ELSE 2
  ELSE IF path[1] = "intentions" /\ verb = "DELETE" THEN 2
  ELSE 0

(* The router a path belongs to. *)
RouterOf(path) ==
  IF path[1] = "health" THEN 1
  ELSE IF path[1] = "admin"
       THEN IF path[2] = "keys" THEN 2 ELSE IF path[2] = "tenants" THEN 3
            ELSE IF path[2] = "entities" THEN 5 ELSE IF path[2] = "personality" THEN 6 ELSE 4
  ELSE IF path[1] = "memories"
       THEN IF Len(path) = 3 /\ path[3] \in {"promote", "demote", "dynamics", "score"}
            THEN 11 ELSE 7
  ELSE IF path[1] = "users"
       THEN IF path[3] = "memories" THEN 7 ELSE IF path[3] = "episodes" THEN 9
            ELSE IF path[3] = "arcs" THEN 10 ELSE IF path[3] = "intentions" THEN 12 ELSE 13
  ELSE IF path[1] = "sessions" \/ (path[1] = "context" /\ Len(path) = 1) THEN 8
  ELSE IF path[1] \in {"episodes", "reflection"} THEN 9
  ELSE IF path[1] \in {"synthesis", "jobs"} THEN 10
  ELSE IF path[1] = "intentions" THEN 12 ELSE 13

(* A path of a route has one to four segments. *)
IsPath(p) == Len(p) \in 1 .. 4 /\ DOMAIN p = 1 .. Len(p) /\ p = [k \in 1 .. Len(p) |-> p[k]]

(* Such a path is a sequence, and not the empty one. *)
LEMMA PathsAreSequences ==
  ASSUME NEW p, IsPath(p)
  PROVE  p \in Seq(Listed(p)) \ {<<>>}
<1>1. Len(p) \in Nat /\ \A k \in 1 .. Len(p) : p[k] \in Listed(p)
  BY DEF IsPath, Listed
<1>2. [k \in 1 .. Len(p) |-> p[k]] \in Seq(Listed(p))
  BY <1>1
<1>3. p # <<>>
  BY DEF IsPath
<1> QED
  BY <1>2, <1>3 DEF IsPath

(* A route has its parameter where IdAt says, and nowhere else. *)
PathIsPlain(r) ==
  /\ IsPath(r.path)
  /\ \A k \in DOMAIN r.path : r.path[k] = "id" <=> k = IdAt(r.verb, r.path)

(* A router's routes are plain, belong to it and differ. *)
RouterIsFine(router, k) ==
  /\ router \in Seq(Listed(router))
  /\ \A n \in DOMAIN router : PathIsPlain(router[n]) /\ RouterOf(router[n].path) = k
  /\ \A n, m \in DOMAIN router :
       router[n].verb = router[m].verb /\ router[n].path = router[m].path => n = m

(* Router after router. *)
LEMMA HealthRoutesAreFine == RouterIsFine(HealthRoutes, 1)
<1>1. HealthRoutes \in Seq(Listed(HealthRoutes))
  BY DEF HealthRoutes, Listed
<1>2. \A n \in DOMAIN HealthRoutes : RouterOf(HealthRoutes[n].path) = 1
  BY DEF HealthRoutes, Route, Find, RouterOf
<1>3. \A n \in DOMAIN HealthRoutes : IsPath(HealthRoutes[n].path)
  BY DEF HealthRoutes, Route, Find, IsPath
<1>4. \A n \in DOMAIN HealthRoutes : \A k \in DOMAIN HealthRoutes[n].path :
        HealthRoutes[n].path[k] = "id" <=> k = IdAt(HealthRoutes[n].verb, HealthRoutes[n].path)
  BY DEF HealthRoutes, Route, Find, IdAt
<1>5. \A n, m \in DOMAIN HealthRoutes :
        HealthRoutes[n].verb = HealthRoutes[m].verb /\ HealthRoutes[n].path =
               HealthRoutes[m].path => n = m
  BY DEF HealthRoutes, Route, Find
<1> QED
  BY <1>1, <1>2, <1>3, <1>4, <1>5 DEF RouterIsFine, PathIsPlain

LEMMA KeyRoutesAreFine == RouterIsFine(KeyRoutes, 2)
<1>1. KeyRoutes \in Seq(Listed(KeyRoutes))
  BY DEF KeyRoutes, Listed
<1>2. \A n \in DOMAIN KeyRoutes : RouterOf(KeyRoutes[n].path) = 2
  BY DEF KeyRoutes, Route, Find, RouterOf
<1>3. \A n \in DOMAIN KeyRoutes : IsPath(KeyRoutes[n].path)
  BY DEF KeyRoutes, Route, Find, IsPath
<1>4. \A n \in DOMAIN KeyRoutes : \A k \in DOMAIN KeyRoutes[n].path :
        KeyRoutes[n].path[k] = "id" <=> k = IdAt(KeyRoutes[n].verb, KeyRoutes[n].path)
  BY DEF KeyRoutes, Route, Find, IdAt
<1>5. \A n, m \in DOMAIN KeyRoutes :
        KeyRoutes[n].verb = KeyRoutes[m].verb /\ KeyRoutes[n].path = KeyRoutes[m].path => n = m
  BY DEF KeyRoutes, Route, Find
<1> QED
  BY <1>1, <1>2, <1>3, <1>4, <1>5 DEF RouterIsFine, PathIsPlain

LEMMA TenantRoutesAreFine == RouterIsFine(TenantRoutes, 3)
<1>1. TenantRoutes \in Seq(Listed(TenantRoutes))
  BY DEF TenantRoutes, Listed
<1>2. \A n \in DOMAIN TenantRoutes : RouterOf(TenantRoutes[n].path) = 3
  BY DEF TenantRoutes, Route, Find, RouterOf
<1>3. \A n \in DOMAIN TenantRoutes : IsPath(TenantRoutes[n].path)
  BY DEF TenantRoutes, Route, Find, IsPath
<1>4. \A n \in DOMAIN TenantRoutes : \A k \in DOMAIN TenantRoutes[n].path :
        TenantRoutes[n].path[k] = "id" <=> k = IdAt(TenantRoutes[n].verb, TenantRoutes[n].path)
  BY DEF TenantRoutes, Route, Find, IdAt
<1>5. \A n, m \in DOMAIN TenantRoutes :
        TenantRoutes[n].verb = TenantRoutes[m].verb /\ TenantRoutes[n].path =
               TenantRoutes[m].path => n = m
  BY DEF TenantRoutes, Route, Find
<1> QED
  BY <1>1, <1>2, <1>3, <1>4, <1>5 DEF RouterIsFine, PathIsPlain

LEMMA DataRoutesAreFine == RouterIsFine(DataRoutes, 4)
<1>1. DataRoutes \in Seq(Listed(DataRoutes))
  BY DEF DataRoutes, Listed
<1>2. \A n \in DOMAIN DataRoutes : RouterOf(DataRoutes[n].path) = 4
  BY DEF DataRoutes, Route, Find, RouterOf
<1>3. \A n \in DOMAIN DataRoutes : IsPath(DataRoutes[n].path)
  BY DEF DataRoutes, Route, Find, IsPath
<1>4. \A n \in DOMAIN DataRoutes : \A k \in DOMAIN DataRoutes[n].path :
        DataRoutes[n].path[k] = "id" <=> k = IdAt(DataRoutes[n].verb, DataRoutes[n].path)
  BY DEF DataRoutes, Route, Find, IdAt
<1>5. \A n, m \in DOMAIN DataRoutes :
        DataRoutes[n].verb = DataRoutes[m].verb /\ DataRoutes[n].path = DataRoutes[m].path => n
               = m
  BY DEF DataRoutes, Route, Find
<1> QED
  BY <1>1, <1>2, <1>3, <1>4, <1>5 DEF RouterIsFine, PathIsPlain

LEMMA AliasRoutesAreFine == RouterIsFine(AliasRoutes, 5)
<1>1. AliasRoutes \in Seq(Listed(AliasRoutes))
  BY DEF AliasRoutes, Listed
<1>2. \A n \in DOMAIN AliasRoutes : RouterOf(AliasRoutes[n].path) = 5
  BY DEF AliasRoutes, Route, Find, RouterOf
<1>3. \A n \in DOMAIN AliasRoutes : IsPath(AliasRoutes[n].path)
  BY DEF AliasRoutes, Route, Find, IsPath
<1>4. \A n \in DOMAIN AliasRoutes : \A k \in DOMAIN AliasRoutes[n].path :
        AliasRoutes[n].path[k] = "id" <=> k = IdAt(AliasRoutes[n].verb, AliasRoutes[n].path)
  BY DEF AliasRoutes, Route, Find, IdAt
<1>5. \A n, m \in DOMAIN AliasRoutes :
        AliasRoutes[n].verb = AliasRoutes[m].verb /\ AliasRoutes[n].path = AliasRoutes[m].path
               => n = m
  BY DEF AliasRoutes, Route, Find
<1> QED
  BY <1>1, <1>2, <1>3, <1>4, <1>5 DEF RouterIsFine, PathIsPlain

LEMMA TraitRoutesAreFine == RouterIsFine(TraitRoutes, 6)
<1>1. TraitRoutes \in Seq(Listed(TraitRoutes))
  BY DEF TraitRoutes, Listed
<1>2. \A n \in DOMAIN TraitRoutes : RouterOf(TraitRoutes[n].path) = 6
  BY DEF TraitRoutes, Route, Find, RouterOf
<1>3. \A n \in DOMAIN TraitRoutes : IsPath(TraitRoutes[n].path)
  BY DEF TraitRoutes, Route, Find, IsPath
<1>4. \A n \in DOMAIN TraitRoutes : \A k \in DOMAIN TraitRoutes[n].path :
        TraitRoutes[n].path[k] = "id" <=> k = IdAt(TraitRoutes[n].verb, TraitRoutes[n].path)
  BY DEF TraitRoutes, Route, Find, IdAt
<1>5. \A n, m \in DOMAIN TraitRoutes :
        TraitRoutes[n].verb = TraitRoutes[m].verb /\ TraitRoutes[n].path = TraitRoutes[m].path
               => n = m
  BY DEF TraitRoutes, Route, Find
<1> QED
  BY <1>1, <1>2, <1>3, <1>4, <1>5 DEF RouterIsFine, PathIsPlain

LEMMA MemoryRoutesAreFine == RouterIsFine(MemoryRoutes, 7)
<1>1. MemoryRoutes \in Seq(Listed(MemoryRoutes))
  BY DEF MemoryRoutes, Listed
<1>2. \A n \in DOMAIN MemoryRoutes : RouterOf(MemoryRoutes[n].path) = 7
  BY DEF MemoryRoutes, Route, Find, RouterOf
<1>3. \A n \in DOMAIN MemoryRoutes : IsPath(MemoryRoutes[n].path)
  <2>1. \A n \in DOMAIN MemoryRoutes :
          Len(MemoryRoutes[n].path) \in 1 .. 4
            /\ DOMAIN MemoryRoutes[n].path = 1 .. Len(MemoryRoutes[n].path)
    BY DEF MemoryRoutes, Route, Find
  <2>2. \A n \in DOMAIN MemoryRoutes :
          MemoryRoutes[n].path =
            [k \in 1 .. Len(MemoryRoutes[n].path) |-> MemoryRoutes[n].path[k]]
    <3>1. DOMAIN MemoryRoutes = 1 .. 6 \cup 7 .. 12
      BY DEF MemoryRoutes
    <3>2. \A n \in 1 .. 6 :
            MemoryRoutes[n].path =
              [k \in 1 .. Len(MemoryRoutes[n].path) |-> MemoryRoutes[n].path[k]]
      BY DEF MemoryRoutes, Route, Find
    <3>3. \A n \in 7 .. 12 :
            MemoryRoutes[n].path =
              [k \in 1 .. Len(MemoryRoutes[n].path) |-> MemoryRoutes[n].path[k]]
      BY DEF MemoryRoutes, Route, Find
    <3> QED
      BY <3>1, <3>2, <3>3
  <2> QED
    BY <2>1, <2>2 DEF IsPath
<1>4. \A n \in DOMAIN MemoryRoutes : \A k \in DOMAIN MemoryRoutes[n].path :
        MemoryRoutes[n].path[k] = "id" <=> k = IdAt(MemoryRoutes[n].verb, MemoryRoutes[n].path)
  BY DEF MemoryRoutes, Route, Find, IdAt
<1>5. \A n, m \in DOMAIN MemoryRoutes :
        MemoryRoutes[n].verb = MemoryRoutes[m].verb /\ MemoryRoutes[n].path =
               MemoryRoutes[m].path => n = m
  BY DEF MemoryRoutes, Route, Find
<1> QED
  BY <1>1, <1>2, <1>3, <1>4, <1>5 DEF RouterIsFine, PathIsPlain

LEMMA SessionRoutesAreFine == RouterIsFine(SessionRoutes, 8)
<1>1. SessionRoutes \in Seq(Listed(SessionRoutes))
  BY DEF SessionRoutes, Listed
<1>2. \A n \in DOMAIN SessionRoutes : RouterOf(SessionRoutes[n].path) = 8
  BY DEF SessionRoutes, Route, Find, RouterOf
<1>3. \A n \in DOMAIN SessionRoutes : IsPath(SessionRoutes[n].path)
  BY DEF SessionRoutes, Route, Find, IsPath
<1>4. \A n \in DOMAIN SessionRoutes : \A k \in DOMAIN SessionRoutes[n].path :
        SessionRoutes[n].path[k] = "id" <=> k = IdAt(SessionRoutes[n].verb,
               SessionRoutes[n].path)
  BY DEF SessionRoutes, Route, Find, IdAt
<1>5. \A n, m \in DOMAIN SessionRoutes :
        SessionRoutes[n].verb = SessionRoutes[m].verb /\ SessionRoutes[n].path =
               SessionRoutes[m].path => n = m
  BY DEF SessionRoutes, Route, Find
<1> QED
  BY <1>1, <1>2, <1>3, <1>4, <1>5 DEF RouterIsFine, PathIsPlain

LEMMA EpisodeRoutesAreFine == RouterIsFine(EpisodeRoutes, 9)
<1>1. EpisodeRoutes \in Seq(Listed(EpisodeRoutes))
  BY DEF EpisodeRoutes, Listed
<1>2. \A n \in DOMAIN EpisodeRoutes : RouterOf(EpisodeRoutes[n].path) = 9
  BY DEF EpisodeRoutes, Route, Find, RouterOf
<1>3. \A n \in DOMAIN EpisodeRoutes : IsPath(EpisodeRoutes[n].path)
  BY DEF EpisodeRoutes, Route, Find, IsPath
<1>4. \A n \in DOMAIN EpisodeRoutes : \A k \in DOMAIN EpisodeRoutes[n].path :
        EpisodeRoutes[n].path[k] = "id" <=> k = IdAt(EpisodeRoutes[n].verb,
               EpisodeRoutes[n].path)
  BY DEF EpisodeRoutes, Route, Find, IdAt
<1>5. \A n, m \in DOMAIN EpisodeRoutes :
        EpisodeRoutes[n].verb = EpisodeRoutes[m].verb /\ EpisodeRoutes[n].path =
               EpisodeRoutes[m].path => n = m
  BY DEF EpisodeRoutes, Route, Find
<1> QED
  BY <1>1, <1>2, <1>3, <1>4, <1>5 DEF RouterIsFine, PathIsPlain

LEMMA ArcRoutesAreFine == RouterIsFine(ArcRoutes, 10)
<1>1. ArcRoutes \in Seq(Listed(ArcRoutes))
  BY DEF ArcRoutes, Listed
<1>2. \A n \in DOMAIN ArcRoutes : RouterOf(ArcRoutes[n].path) = 10
  BY DEF ArcRoutes, Route, Find, RouterOf
<1>3. \A n \in DOMAIN ArcRoutes : IsPath(ArcRoutes[n].path)
  BY DEF ArcRoutes, Route, Find, IsPath
<1>4. \A n \in DOMAIN ArcRoutes : \A k \in DOMAIN ArcRoutes[n].path :
        ArcRoutes[n].path[k] = "id" <=> k = IdAt(ArcRoutes[n].verb, ArcRoutes[n].path)
  BY DEF ArcRoutes, Route, Find, IdAt
<1>5. \A n, m \in DOMAIN ArcRoutes :
        ArcRoutes[n].verb = ArcRoutes[m].verb /\ ArcRoutes[n].path = ArcRoutes[m].path => n = m
  BY DEF ArcRoutes, Route, Find
<1> QED
  BY <1>1, <1>2, <1>3, <1>4, <1>5 DEF RouterIsFine, PathIsPlain

LEMMA DynamicsRoutesAreFine == RouterIsFine(DynamicsRoutes, 11)
<1>1. DynamicsRoutes \in Seq(Listed(DynamicsRoutes))
  BY DEF DynamicsRoutes, Listed
<1>2. \A n \in DOMAIN DynamicsRoutes : RouterOf(DynamicsRoutes[n].path) = 11
  BY DEF DynamicsRoutes, Route, Find, RouterOf
<1>3. \A n \in DOMAIN DynamicsRoutes : IsPath(DynamicsRoutes[n].path)
  BY DEF DynamicsRoutes, Route, Find, IsPath
<1>4. \A n \in DOMAIN DynamicsRoutes : \A k \in DOMAIN DynamicsRoutes[n].path :
        DynamicsRoutes[n].path[k] = "id" <=> k = IdAt(DynamicsRoutes[n].verb,
               DynamicsRoutes[n].path)
  BY DEF DynamicsRoutes, Route, Find, IdAt
<1>5. \A n, m \in DOMAIN DynamicsRoutes :
        DynamicsRoutes[n].verb = DynamicsRoutes[m].verb /\ DynamicsRoutes[n].path =
               DynamicsRoutes[m].path => n = m
  BY DEF DynamicsRoutes, Route, Find
<1> QED
  BY <1>1, <1>2, <1>3, <1>4, <1>5 DEF RouterIsFine, PathIsPlain

LEMMA IntentionRoutesAreFine == RouterIsFine(IntentionRoutes, 12)
<1>1. IntentionRoutes \in Seq(Listed(IntentionRoutes))
  BY DEF IntentionRoutes, Listed
<1>2. \A n \in DOMAIN IntentionRoutes : RouterOf(IntentionRoutes[n].path) = 12
  BY DEF IntentionRoutes, Route, Find, RouterOf
<1>3. \A n \in DOMAIN IntentionRoutes : IsPath(IntentionRoutes[n].path)
  BY DEF IntentionRoutes, Route, Find, IsPath
<1>4. \A n \in DOMAIN IntentionRoutes : \A k \in DOMAIN IntentionRoutes[n].path :
        IntentionRoutes[n].path[k] = "id" <=> k = IdAt(IntentionRoutes[n].verb,
               IntentionRoutes[n].path)
  BY DEF IntentionRoutes, Route, Find, IdAt
<1>5. \A n, m \in DOMAIN IntentionRoutes :
        IntentionRoutes[n].verb = IntentionRoutes[m].verb /\ IntentionRoutes[n].path =
               IntentionRoutes[m].path => n = m
  BY DEF IntentionRoutes, Route, Find
<1> QED
  BY <1>1, <1>2, <1>3, <1>4, <1>5 DEF RouterIsFine, PathIsPlain

LEMMA OtherRoutesAreFine == RouterIsFine(OtherRoutes, 13)
<1>1. OtherRoutes \in Seq(Listed(OtherRoutes))
  BY DEF OtherRoutes, Listed
<1>2. \A n \in DOMAIN OtherRoutes : RouterOf(OtherRoutes[n].path) = 13
  BY DEF OtherRoutes, Route, Find, RouterOf
<1>3. \A n \in DOMAIN OtherRoutes : IsPath(OtherRoutes[n].path)
  BY DEF OtherRoutes, Route, Find, IsPath
<1>4. \A n \in DOMAIN OtherRoutes : \A k \in DOMAIN OtherRoutes[n].path :
        OtherRoutes[n].path[k] = "id" <=> k = IdAt(OtherRoutes[n].verb, OtherRoutes[n].path)
  BY DEF OtherRoutes, Route, Find, IdAt
<1>5. \A n, m \in DOMAIN OtherRoutes :
        OtherRoutes[n].verb = OtherRoutes[m].verb /\ OtherRoutes[n].path = OtherRoutes[m].path
               => n = m
  BY DEF OtherRoutes, Route, Find
<1> QED
  BY <1>1, <1>2, <1>3, <1>4, <1>5 DEF RouterIsFine, PathIsPlain

(* Every router is. *)
LEMMA RoutersAreFine == \A k \in 1 .. 13 : RouterIsFine(Routers[k], k)
  BY HealthRoutesAreFine, KeyRoutesAreFine, TenantRoutesAreFine, DataRoutesAreFine,
     AliasRoutesAreFine, TraitRoutesAreFine, MemoryRoutesAreFine, SessionRoutesAreFine,
     EpisodeRoutesAreFine, ArcRoutesAreFine, DynamicsRoutesAreFine, IntentionRoutesAreFine,
     OtherRoutesAreFine
     DEF Routers

(* A sequence over a set is one over a larger set. *)
LEMMA Widened ==
  ASSUME NEW S, NEW T, S \subseteq T, NEW s \in Seq(S)
  PROVE  s \in Seq(T)
  OBVIOUS

(* The application's routes are those of its routers. *)
LEMMA RowsAreListed == AllRoutes \in Seq(RouteRows) /\ Listed(AllRoutes) = RouteRows
<1>1. \A k \in 1 .. 13 : Routers[k] \in Seq(RouteRows)
  <2> TAKE k \in 1 .. 13
  <2>1. Routers[k] \in Seq(Listed(Routers[k]))
    BY RoutersAreFine DEF RouterIsFine
  <2>2. Listed(Routers[k]) \subseteq RouteRows
    BY DEF RouteRows
  <2> QED
    BY <2>1, <2>2, Widened
<1>2. /\ HealthRoutes \in Seq(RouteRows)
      /\ KeyRoutes \in Seq(RouteRows)
      /\ TenantRoutes \in Seq(RouteRows)
      /\ DataRoutes \in Seq(RouteRows)
      /\ AliasRoutes \in Seq(RouteRows)
      /\ TraitRoutes \in Seq(RouteRows)
      /\ MemoryRoutes \in Seq(RouteRows)
      /\ SessionRoutes \in Seq(RouteRows)
      /\ EpisodeRoutes \in Seq(RouteRows)
      /\ ArcRoutes \in Seq(RouteRows)
      /\ DynamicsRoutes \in Seq(RouteRows)
      /\ IntentionRoutes \in Seq(RouteRows)
      /\ OtherRoutes \in Seq(RouteRows)
  BY <1>1 DEF Routers
<1> DEFINE upTo2 == HealthRoutes \o KeyRoutes
           upTo3 == upTo2 \o TenantRoutes
           upTo4 == upTo3 \o DataRoutes
           upTo5 == upTo4 \o AliasRoutes
           upTo6 == upTo5 \o TraitRoutes
           upTo7 == upTo6 \o MemoryRoutes
           upTo8 == upTo7 \o SessionRoutes
           upTo9 == upTo8 \o EpisodeRoutes
           upTo10 == upTo9 \o ArcRoutes
           upTo11 == upTo10 \o DynamicsRoutes
           upTo12 == upTo11 \o IntentionRoutes
           upTo13 == upTo12 \o OtherRoutes
<1>3. upTo2 \in Seq(RouteRows) /\ Listed(upTo2) = Listed(HealthRoutes) \cup Listed(KeyRoutes)
  BY <1>2, ListedBoth
<1>4. upTo3 \in Seq(RouteRows) /\ Listed(upTo3) = Listed(upTo2) \cup Listed(TenantRoutes)
  <2> HIDE DEF upTo2
  <2> QED BY <1>2, <1>3, ListedBoth
<1>5. upTo4 \in Seq(RouteRows) /\ Listed(upTo4) = Listed(upTo3) \cup Listed(DataRoutes)
  <2> HIDE DEF upTo3
  <2> QED BY <1>2, <1>4, ListedBoth
<1>6. upTo5 \in Seq(RouteRows) /\ Listed(upTo5) = Listed(upTo4) \cup Listed(AliasRoutes)
  <2> HIDE DEF upTo4
  <2> QED BY <1>2, <1>5, ListedBoth
<1>7. upTo6 \in Seq(RouteRows) /\ Listed(upTo6) = Listed(upTo5) \cup Listed(TraitRoutes)
  <2> HIDE DEF upTo5
  <2> QED BY <1>2, <1>6, ListedBoth
<1>8. upTo7 \in Seq(RouteRows) /\ Listed(upTo7) = Listed(upTo6) \cup Listed(MemoryRoutes)
  <2> HIDE DEF upTo6
  <2> QED BY <1>2, <1>7, ListedBoth
<1>9. upTo8 \in Seq(RouteRows) /\ Listed(upTo8) = Listed(upTo7) \cup Listed(SessionRoutes)
  <2> HIDE DEF upTo7
  <2> QED BY <1>2, <1>8, ListedBoth
<1>10. upTo9 \in Seq(RouteRows) /\ Listed(upTo9) = Listed(upTo8) \cup Listed(EpisodeRoutes)
  <2> HIDE DEF upTo8
  <2> QED BY <1>2, <1>9, ListedBoth
<1>11. upTo10 \in Seq(RouteRows) /\ Listed(upTo10) = Listed(upTo9) \cup Listed(ArcRoutes)
  <2> HIDE DEF upTo9
  <2> QED BY <1>2, <1>10, ListedBoth
<1>12. upTo11 \in Seq(RouteRows) /\ Listed(upTo11) = Listed(upTo10) \cup Listed(DynamicsRoutes)
  <2> HIDE DEF upTo10
  <2> QED BY <1>2, <1>11, ListedBoth
<1>13. upTo12 \in Seq(RouteRows) /\ Listed(upTo12) = Listed(upTo11) \cup Listed(IntentionRoutes)
  <2> HIDE DEF upTo11
  <2> QED BY <1>2, <1>12, ListedBoth
<1>14. upTo13 \in Seq(RouteRows) /\ Listed(upTo13) = Listed(upTo12) \cup Listed(OtherRoutes)
  <2> HIDE DEF upTo12
  <2> QED BY <1>2, <1>13, ListedBoth
<1>15. AllRoutes = upTo13
  BY DEF AllRoutes
<1> HIDE DEF upTo2, upTo3, upTo4, upTo5, upTo6, upTo7, upTo8, upTo9, upTo10, upTo11, upTo12,
    upTo13
<1>16. RouteRows = Listed(HealthRoutes) \cup Listed(KeyRoutes) \cup Listed(TenantRoutes) \cup
     Listed(DataRoutes) \cup Listed(AliasRoutes) \cup Listed(TraitRoutes) \cup
     Listed(MemoryRoutes) \cup Listed(SessionRoutes) \cup Listed(EpisodeRoutes) \cup
     Listed(ArcRoutes) \cup Listed(DynamicsRoutes) \cup Listed(IntentionRoutes) \cup
     Listed(OtherRoutes)
  BY DEF RouteRows, Routers
<1> QED
  BY <1>3, <1>4, <1>5, <1>6, <1>7, <1>8, <1>9, <1>10, <1>11, <1>12, <1>13, <1>14, <1>15, <1>16

(* Two routes differ in verb or path, be they of one router or of two. *)
LEMMA RowsDiffer ==
  ASSUME NEW r \in RouteRows, NEW s \in RouteRows, r.verb = s.verb, r.path = s.path
  PROVE  r = s
<1>1. PICK k \in 1 .. 13 : r \in Listed(Routers[k])
  BY DEF RouteRows
<1>2. PICK l \in 1 .. 13 : s \in Listed(Routers[l])
  BY DEF RouteRows
<1>3. PICK n \in DOMAIN Routers[k] : r = Routers[k][n]
  BY <1>1 DEF Listed
<1>4. PICK m \in DOMAIN Routers[l] : s = Routers[l][m]
  BY <1>2 DEF Listed
<1>5. RouterIsFine(Routers[k], k) /\ RouterIsFine(Routers[l], l)
  BY RoutersAreFine
<1>6. k = RouterOf(r.path) /\ l = RouterOf(s.path)
  BY <1>3, <1>4, <1>5 DEF RouterIsFine
<1>7. n = m
  BY <1>3, <1>4, <1>5, <1>6 DEF RouterIsFine
<1> QED
  BY <1>3, <1>4, <1>6, <1>7

(* Every route is plain. *)
LEMMA RowsArePlain ==
  ASSUME NEW r \in RouteRows
  PROVE  PathIsPlain(r)
<1>1. PICK k \in 1 .. 13 : r \in Listed(Routers[k])
  BY DEF RouteRows
<1>2. PICK n \in DOMAIN Routers[k] : r = Routers[k][n]
  BY <1>1 DEF Listed
<1>3. RouterIsFine(Routers[k], k)
  BY RoutersAreFine
<1> QED
  BY <1>2, <1>3 DEF RouterIsFine

(* No route fits another's path: of two that had their parameter at         *)
(* different places, such as /memories/search and /memories/{id}, the verbs *)
(* differ or the lengths.                                                   *)
LEMMA OneRowFits ==
  ASSUME NEW r \in RouteRows, NEW s \in RouteRows, r.verb = s.verb, Fits(s.path, r.path, "id")
  PROVE  r = s
<1>1. PathIsPlain(r) /\ PathIsPlain(s)
  BY RowsArePlain
<1>2. /\ Len(r.path) = Len(s.path) /\ Len(r.path) \in 1 .. 4
      /\ DOMAIN r.path = 1 .. Len(r.path) /\ DOMAIN s.path = 1 .. Len(r.path)
      /\ \A n \in 1 .. Len(r.path) : r.path[n] \in {"id", s.path[n]}
  BY <1>1 DEF PathIsPlain, IsPath, Fits
<1>3. IdAt(r.verb, r.path) # 1
  BY DEF IdAt
<1>4. r.path[1] = s.path[1]
  BY <1>1, <1>2, <1>3 DEF PathIsPlain
<1>5. CASE Len(r.path) = 1
  BY <1>1, <1>2, <1>4, <1>5, RowsDiffer DEF PathIsPlain, IsPath
<1>6. CASE Len(r.path) # 1
  <2>1. r.path[1] = "admin" => IdAt(r.verb, r.path) # 2
    BY DEF IdAt
  <2>2. r.path[1] = "admin" => r.path[2] = s.path[2]
    BY <1>1, <1>2, <1>6, <2>1 DEF PathIsPlain
  <2>3. IdAt(r.verb, r.path) = IdAt(s.verb, s.path)
    BY <1>2, <1>4, <2>2 DEF IdAt
  <2>4. \A n \in 1 .. Len(r.path) : r.path[n] = s.path[n]
    BY <1>1, <1>2, <2>3 DEF PathIsPlain
  <2>5. r.path = s.path
    BY <1>1, <1>2, <2>4 DEF PathIsPlain, IsPath
  <2> QED
    BY <2>5, RowsDiffer
<1> QED
  BY <1>5, <1>6

(* A request for a route's path reaches that route, whatever the order in   *)
(* which the application includes its routers.                              *)
LEMMA Reached ==
  ASSUME NEW r \in RouteRows
  PROVE  Routed(r.verb, r.path) = r
<1> DEFINE fits(s) == s.verb = r.verb /\ Fits(r.path, s.path, "id")
           S == {n \in DOMAIN AllRoutes : fits(AllRoutes[n])}
           first == CHOOSE n \in DOMAIN AllRoutes :
                      fits(AllRoutes[n]) /\ \A m \in 1 .. n - 1 : ~fits(AllRoutes[m])
<1>1. fits(r)
  BY RowsArePlain DEF Fits, PathIsPlain, IsPath
<1>2. PICK n \in DOMAIN AllRoutes : AllRoutes[n] = r
  BY RowsAreListed DEF Listed
<1>3. DOMAIN AllRoutes = 1 .. Len(AllRoutes) /\ Len(AllRoutes) \in Nat
  BY RowsAreListed
<1>4. Routed(r.verb, r.path) = AllRoutes[first]
  BY DEF Routed, FirstFit
<1>5. \A s \in RouteRows : fits(s) => s = r
  BY OneRowFits
<1> HIDE DEF fits
<1>6. S \subseteq Nat /\ S # {}
  BY <1>1, <1>2, <1>3
<1>7. PICK k \in S : \A m \in S : k <= m
  BY <1>6, Least
<1>8. k \in DOMAIN AllRoutes /\ fits(AllRoutes[k]) /\ \A m \in 1 .. k - 1 : ~fits(AllRoutes[m])
  BY <1>3, <1>7
<1>9. first \in DOMAIN AllRoutes /\ fits(AllRoutes[first])
  BY <1>8
<1>10. AllRoutes[first] \in RouteRows
  BY <1>9, RowsAreListed DEF Listed
<1> QED
  BY <1>4, <1>5, <1>9, <1>10

(* A table is part of another. *)
Within(t, table) == DOMAIN t \subseteq DOMAIN table /\ \A x \in DOMAIN t : table[x] = t[x]

(* Tables with names of their own are each part of the whole. *)
LEMMA JoinedFinds ==
  ASSUME NEW tables, NEW t \in tables,
         \A u \in tables : u = t \/ DOMAIN u \cap DOMAIN t = {}
  PROVE  Within(t, Joined(tables))
<1>1. DOMAIN t \subseteq UNION {DOMAIN u : u \in tables}
  OBVIOUS
<1>2. \A x \in DOMAIN t : (CHOOSE u \in tables : x \in DOMAIN u) = t
  OBVIOUS
<1> QED
  BY <1>1, <1>2 DEF Within, Joined

(* The calls of PalaceClient and of the command line have names of their    *)
(* own.                                                                     *)
LEMMA ClientCallsFound ==
  /\ Within(MemoryCalls, ClientCalls)
  /\ Within(SessionCalls, ClientCalls)
  /\ Within(EpisodeCalls, ClientCalls)
  /\ Within(FeelingCalls, ClientCalls)
  /\ Within(ArcCalls, ClientCalls)
  /\ Within(DynamicsCalls, ClientCalls)
  /\ Within(IntentionCalls, ClientCalls)
  /\ Within(RetrievalCalls, ClientCalls)
  /\ Within(AdminCalls, ClientCalls)
  /\ \A x \in DOMAIN ClientCalls : \E t \in {MemoryCalls, SessionCalls, EpisodeCalls,
                                             FeelingCalls, ArcCalls, DynamicsCalls,
                                             IntentionCalls, RetrievalCalls, AdminCalls} : x \in
                                             DOMAIN t
<1>1. /\ DOMAIN MemoryCalls = {"add", "create", "search", "get", "update", "delete", "get_all",
                               "delete_all", "list_for_user"}
      /\ DOMAIN SessionCalls = {"create_session", "get_session", "add_message",
                                "update_session", "delete_session", "assemble_context"}
      /\ DOMAIN EpisodeCalls = {"reflect_session", "search_episodes", "get_recent_episodes"}
      /\ DOMAIN FeelingCalls = {"record_emotional_context", "get_emotional_context",
                                "extract_topics", "get_topic_recurrence"}
      /\ DOMAIN ArcCalls = {"synthesize_narratives", "get_active_arcs", "get_job"}
      /\ DOMAIN DynamicsCalls = {"promote_memory", "demote_memory", "get_dynamics",
                                 "score_memory", "prune_access_logs"}
      /\ DOMAIN IntentionCalls = {"set_intention", "check_intentions", "format_intentions",
                                  "list_intentions", "delete_intention",
                                  "cleanup_expired_intentions"}
      /\ DOMAIN RetrievalCalls = {"assemble_layered_context", "supersede_memory",
                                  "get_supersessions", "health"}
      /\ DOMAIN AdminCalls = {"deep_health", "keys_list", "keys_mint", "keys_revoke",
                              "tenants_list", "tenants_create", "stats", "audit", "reembed",
                              "export"}
  BY DEF MemoryCalls, SessionCalls, EpisodeCalls, FeelingCalls, ArcCalls, DynamicsCalls,
         IntentionCalls, RetrievalCalls, AdminCalls
<1> DEFINE all == {MemoryCalls, SessionCalls, EpisodeCalls, FeelingCalls, ArcCalls,
                   DynamicsCalls, IntentionCalls, RetrievalCalls, AdminCalls}
<1>2. \A t, u \in all : u = t \/ DOMAIN u \cap DOMAIN t = {}
  BY <1>1
<1>3. \A t \in all : Within(t, Joined(all))
  <2> HIDE DEF all
  <2> QED
    BY <1>2, JoinedFinds
<1>4. DOMAIN Joined(all) = UNION {DOMAIN t : t \in all}
  BY DEF Joined
<1> QED
  BY <1>3, <1>4 DEF ClientCalls

(* So have the calls of PalaceGrpcClient. *)
LEMMA RpcsFound ==
  /\ Within(MemoryRpcs, Rpcs)
  /\ Within(SessionRpcs, Rpcs)
  /\ Within(EpisodeRpcs, Rpcs)
  /\ Within(ArcRpcs, Rpcs)
  /\ Within(IntentionRpcs, Rpcs)
  /\ Within(DynamicsRpcs, Rpcs)
  /\ Within(RetrievalRpcs, Rpcs)
  /\ Within(IngestionRpcs, Rpcs)
  /\ Within(JobRpcs, Rpcs)
  /\ \A x \in DOMAIN Rpcs : \E t \in {MemoryRpcs, SessionRpcs, EpisodeRpcs, ArcRpcs,
                                      IntentionRpcs, DynamicsRpcs, RetrievalRpcs, IngestionRpcs,
                                      JobRpcs} : x \in DOMAIN t
<1>1. /\ DOMAIN MemoryRpcs = {"create", "get", "delete", "search", "get_all"}
      /\ DOMAIN SessionRpcs = {"create_session", "get_session", "add_message", "update_session",
                               "delete_session"}
      /\ DOMAIN EpisodeRpcs = {"reflect_session", "search_episodes", "get_recent_episodes"}
      /\ DOMAIN ArcRpcs = {"synthesize_narratives", "get_active_arcs"}
      /\ DOMAIN IntentionRpcs = {"set_intention", "check_intentions", "format_intentions",
                                 "list_intentions", "delete_intention"}
      /\ DOMAIN DynamicsRpcs = {"promote_memory", "demote_memory", "get_dynamics",
                                "score_memory"}
      /\ DOMAIN RetrievalRpcs = {"assemble_layered_context"}
      /\ DOMAIN IngestionRpcs = {"supersede_memory", "get_supersessions"}
      /\ DOMAIN JobRpcs = {"get_job"}
  BY DEF MemoryRpcs, SessionRpcs, EpisodeRpcs, ArcRpcs, IntentionRpcs, DynamicsRpcs,
         RetrievalRpcs, IngestionRpcs, JobRpcs
<1> DEFINE all == {MemoryRpcs, SessionRpcs, EpisodeRpcs, ArcRpcs, IntentionRpcs, DynamicsRpcs,
                   RetrievalRpcs, IngestionRpcs, JobRpcs}
<1>2. \A t, u \in all : u = t \/ DOMAIN u \cap DOMAIN t = {}
  BY <1>1
<1>3. \A t \in all : Within(t, Joined(all))
  <2> HIDE DEF all
  <2> QED
    BY <1>2, JoinedFinds
<1>4. DOMAIN Joined(all) = UNION {DOMAIN t : t \in all}
  BY DEF Joined
<1> QED
  BY <1>3, <1>4 DEF Rpcs

(* So have the methods of the servicers. *)
LEMMA ServicersFound ==
  /\ Within(MemoryServicer, Servicers)
  /\ Within(SessionServicer, Servicers)
  /\ Within(EpisodeServicer, Servicers)
  /\ Within(ArcServicer, Servicers)
  /\ Within(IntentionServicer, Servicers)
  /\ Within(DynamicsServicer, Servicers)
  /\ Within(RetrievalServicer, Servicers)
  /\ Within(IngestionServicer, Servicers)
  /\ Within(JobServicer, Servicers)
  /\ \A x \in DOMAIN Servicers : \E t \in {MemoryServicer, SessionServicer, EpisodeServicer,
                                           ArcServicer, IntentionServicer, DynamicsServicer,
                                           RetrievalServicer, IngestionServicer, JobServicer} :
                                           x \in DOMAIN t
<1>1. /\ DOMAIN MemoryServicer = {"create", "get", "delete", "search", "get_all"}
      /\ DOMAIN SessionServicer = {"create_session", "get_session", "add_message",
                                   "update_session", "delete_session"}
      /\ DOMAIN EpisodeServicer = {"reflect_session", "search_episodes", "get_recent_episodes"}
      /\ DOMAIN ArcServicer = {"synthesize_narratives", "get_active_arcs"}
      /\ DOMAIN IntentionServicer = {"set_intention", "check_intentions", "format_intentions",
                                     "list_intentions", "delete_intention"}
      /\ DOMAIN DynamicsServicer = {"promote_memory", "demote_memory", "get_dynamics",
                                    "score_memory"}
      /\ DOMAIN RetrievalServicer = {"assemble_layered_context"}
      /\ DOMAIN IngestionServicer = {"supersede_memory", "get_supersessions"}
      /\ DOMAIN JobServicer = {"get_job"}
  BY DEF MemoryServicer, SessionServicer, EpisodeServicer, ArcServicer, IntentionServicer,
         DynamicsServicer, RetrievalServicer, IngestionServicer, JobServicer
<1> DEFINE all == {MemoryServicer, SessionServicer, EpisodeServicer, ArcServicer,
                   IntentionServicer, DynamicsServicer, RetrievalServicer, IngestionServicer,
                   JobServicer}
<1>2. \A t, u \in all : u = t \/ DOMAIN u \cap DOMAIN t = {}
  BY <1>1
<1>3. \A t \in all : Within(t, Joined(all))
  <2> HIDE DEF all
  <2> QED
    BY <1>2, JoinedFinds
<1>4. DOMAIN Joined(all) = UNION {DOMAIN t : t \in all}
  BY DEF Joined
<1> QED
  BY <1>3, <1>4 DEF Servicers

(* So have the request models. *)
LEMMA BodiesFound ==
  /\ Within(MemoryBodies, Bodies)
  /\ Within(EpisodeBodies, Bodies)
  /\ Within(RecentBodies, Bodies)
  /\ Within(DynamicsBodies, Bodies)
  /\ Within(IntentionBodies, Bodies)
  /\ Within(LayeredBodies, Bodies)
  /\ Within(SupersedeBodies, Bodies)
  /\ \A x \in DOMAIN Bodies : \E t \in {MemoryBodies, EpisodeBodies, RecentBodies,
                                        DynamicsBodies, IntentionBodies, LayeredBodies,
                                        SupersedeBodies} : x \in DOMAIN t
<1>1. /\ DOMAIN MemoryBodies = {"create", "get_all", "search"}
      /\ DOMAIN EpisodeBodies = {"reflect_session", "synthesize_narratives", "search_episodes"}
      /\ DOMAIN RecentBodies = {"get_recent_episodes", "get_active_arcs"}
      /\ DOMAIN DynamicsBodies = {"promote_memory", "demote_memory"}
      /\ DOMAIN IntentionBodies = {"set_intention", "check_intentions", "format_intentions",
                                   "list_intentions"}
      /\ DOMAIN LayeredBodies = {"assemble_layered_context"}
      /\ DOMAIN SupersedeBodies = {"supersede_memory"}
  BY DEF MemoryBodies, EpisodeBodies, RecentBodies, DynamicsBodies, IntentionBodies,
         LayeredBodies, SupersedeBodies
<1> DEFINE all == {MemoryBodies, EpisodeBodies, RecentBodies, DynamicsBodies, IntentionBodies,
                   LayeredBodies, SupersedeBodies}
<1>2. \A t, u \in all : u = t \/ DOMAIN u \cap DOMAIN t = {}
  BY <1>1
<1>3. \A t \in all : Within(t, Joined(all))
  <2> HIDE DEF all
  <2> QED
    BY <1>2, JoinedFinds
<1>4. DOMAIN Joined(all) = UNION {DOMAIN t : t \in all}
  BY DEF Joined
<1> QED
  BY <1>3, <1>4 DEF Bodies

(* A call is sent to the route of its handler. *)
Goes(table, op, r) ==
  op \in DOMAIN table /\ r.handler = op /\ table[op].verb = r.verb /\ table[op].path = r.path

(* Client after client: the verbs and paths that PalaceClient spells out    *)
(* are those of the routes.                                                 *)
LEMMA MemoryCallsGo ==
  /\ Goes(MemoryCalls, "add", MemoryRoutes[2])
  /\ Goes(MemoryCalls, "create", MemoryRoutes[1])
  /\ Goes(MemoryCalls, "search", MemoryRoutes[4])
  /\ Goes(MemoryCalls, "get", MemoryRoutes[5])
  /\ Goes(MemoryCalls, "update", MemoryRoutes[6])
  /\ Goes(MemoryCalls, "delete", MemoryRoutes[7])
  /\ Goes(MemoryCalls, "get_all", MemoryRoutes[3])
  /\ Goes(MemoryCalls, "delete_all", MemoryRoutes[12])
  /\ Goes(MemoryCalls, "list_for_user", MemoryRoutes[11])
  BY DEF Goes, MemoryCalls, Send, Route, Find, MemoryRoutes

LEMMA SessionCallsGo ==
  /\ Goes(SessionCalls, "create_session", SessionRoutes[1])
  /\ Goes(SessionCalls, "get_session", SessionRoutes[2])
  /\ Goes(SessionCalls, "add_message", SessionRoutes[3])
  /\ Goes(SessionCalls, "update_session", SessionRoutes[4])
  /\ Goes(SessionCalls, "delete_session", SessionRoutes[5])
  /\ Goes(SessionCalls, "assemble_context", SessionRoutes[6])
  BY DEF Goes, SessionCalls, Send, Route, Find, SessionRoutes

LEMMA EpisodeCallsGo ==
  /\ Goes(EpisodeCalls, "reflect_session", EpisodeRoutes[2])
  /\ Goes(EpisodeCalls, "search_episodes", EpisodeRoutes[1])
  /\ Goes(EpisodeCalls, "get_recent_episodes", EpisodeRoutes[3])
  BY DEF Goes, EpisodeCalls, Send, Route, Find, EpisodeRoutes

LEMMA FeelingCallsGo ==
  /\ Goes(FeelingCalls, "record_emotional_context", OtherRoutes[5])
  /\ Goes(FeelingCalls, "get_emotional_context", OtherRoutes[6])
  /\ Goes(FeelingCalls, "extract_topics", OtherRoutes[7])
  /\ Goes(FeelingCalls, "get_topic_recurrence", OtherRoutes[8])
  BY DEF Goes, FeelingCalls, Send, Route, Find, OtherRoutes

LEMMA ArcCallsGo ==
  /\ Goes(ArcCalls, "synthesize_narratives", ArcRoutes[1])
  /\ Goes(ArcCalls, "get_active_arcs", ArcRoutes[2])
  /\ Goes(ArcCalls, "get_job", ArcRoutes[3])
  BY DEF Goes, ArcCalls, Send, Route, Find, ArcRoutes

LEMMA DynamicsCallsGo ==
  /\ Goes(DynamicsCalls, "promote_memory", DynamicsRoutes[1])
  /\ Goes(DynamicsCalls, "demote_memory", DynamicsRoutes[2])
  /\ Goes(DynamicsCalls, "get_dynamics", DynamicsRoutes[3])
  /\ Goes(DynamicsCalls, "score_memory", DynamicsRoutes[4])
  /\ Goes(DynamicsCalls, "prune_access_logs", OtherRoutes[1])
  BY DEF Goes, DynamicsCalls, Send, Route, Find, DynamicsRoutes, OtherRoutes

LEMMA IntentionCallsGo ==
  /\ Goes(IntentionCalls, "set_intention", IntentionRoutes[1])
  /\ Goes(IntentionCalls, "check_intentions", IntentionRoutes[2])
  /\ Goes(IntentionCalls, "format_intentions", IntentionRoutes[3])
  /\ Goes(IntentionCalls, "list_intentions", IntentionRoutes[5])
  /\ Goes(IntentionCalls, "delete_intention", IntentionRoutes[4])
  /\ Goes(IntentionCalls, "cleanup_expired_intentions", OtherRoutes[2])
  BY DEF Goes, IntentionCalls, Send, Route, Find, IntentionRoutes, OtherRoutes

LEMMA RetrievalCallsGo ==
  /\ Goes(RetrievalCalls, "assemble_layered_context", OtherRoutes[3])
  /\ Goes(RetrievalCalls, "supersede_memory", MemoryRoutes[8])
  /\ Goes(RetrievalCalls, "get_supersessions", MemoryRoutes[9])
  /\ Goes(RetrievalCalls, "health", HealthRoutes[1])
  BY DEF Goes, RetrievalCalls, Send, Route, Find, OtherRoutes, MemoryRoutes, HealthRoutes

LEMMA AdminCallsGo ==
  /\ Goes(AdminCalls, "deep_health", HealthRoutes[2])
  /\ Goes(AdminCalls, "keys_list", KeyRoutes[2])
  /\ Goes(AdminCalls, "keys_mint", KeyRoutes[1])
  /\ Goes(AdminCalls, "keys_revoke", KeyRoutes[3])
  /\ Goes(AdminCalls, "tenants_list", TenantRoutes[2])
  /\ Goes(AdminCalls, "tenants_create", TenantRoutes[1])
  /\ Goes(AdminCalls, "stats", DataRoutes[1])
  /\ Goes(AdminCalls, "audit", DataRoutes[5])
  /\ Goes(AdminCalls, "reembed", DataRoutes[4])
  /\ Goes(AdminCalls, "export", DataRoutes[2])
  BY DEF Goes, AdminCalls, Send, Route, Find, HealthRoutes, KeyRoutes, TenantRoutes, DataRoutes

(* The routes by name. *)
LEMMA TheRows ==
  /\ \A n \in 1 .. 2 : HealthRoutes[n] \in RouteRows
  /\ \A n \in 1 .. 3 : KeyRoutes[n] \in RouteRows
  /\ \A n \in 1 .. 3 : TenantRoutes[n] \in RouteRows
  /\ \A n \in 1 .. 5 : DataRoutes[n] \in RouteRows
  /\ \A n \in 1 .. 4 : AliasRoutes[n] \in RouteRows
  /\ \A n \in 1 .. 4 : TraitRoutes[n] \in RouteRows
  /\ \A n \in 1 .. 12 : MemoryRoutes[n] \in RouteRows
  /\ \A n \in 1 .. 6 : SessionRoutes[n] \in RouteRows
  /\ \A n \in 1 .. 3 : EpisodeRoutes[n] \in RouteRows
  /\ \A n \in 1 .. 3 : ArcRoutes[n] \in RouteRows
  /\ \A n \in 1 .. 4 : DynamicsRoutes[n] \in RouteRows
  /\ \A n \in 1 .. 5 : IntentionRoutes[n] \in RouteRows
  /\ \A n \in 1 .. 9 : OtherRoutes[n] \in RouteRows
<1>1. /\ DOMAIN HealthRoutes = 1 .. 2
      /\ DOMAIN KeyRoutes = 1 .. 3
      /\ DOMAIN TenantRoutes = 1 .. 3
      /\ DOMAIN DataRoutes = 1 .. 5
      /\ DOMAIN AliasRoutes = 1 .. 4
      /\ DOMAIN TraitRoutes = 1 .. 4
      /\ DOMAIN MemoryRoutes = 1 .. 12
      /\ DOMAIN SessionRoutes = 1 .. 6
      /\ DOMAIN EpisodeRoutes = 1 .. 3
      /\ DOMAIN ArcRoutes = 1 .. 3
      /\ DOMAIN DynamicsRoutes = 1 .. 4
      /\ DOMAIN IntentionRoutes = 1 .. 5
      /\ DOMAIN OtherRoutes = 1 .. 9
  BY DEF HealthRoutes, KeyRoutes, TenantRoutes, DataRoutes, AliasRoutes, TraitRoutes,
         MemoryRoutes, SessionRoutes, EpisodeRoutes, ArcRoutes, DynamicsRoutes, IntentionRoutes,
         OtherRoutes
<1>3. /\ HealthRoutes = Routers[1]
      /\ KeyRoutes = Routers[2]
      /\ TenantRoutes = Routers[3]
      /\ DataRoutes = Routers[4]
      /\ AliasRoutes = Routers[5]
      /\ TraitRoutes = Routers[6]
      /\ MemoryRoutes = Routers[7]
      /\ SessionRoutes = Routers[8]
      /\ EpisodeRoutes = Routers[9]
      /\ ArcRoutes = Routers[10]
      /\ DynamicsRoutes = Routers[11]
      /\ IntentionRoutes = Routers[12]
      /\ OtherRoutes = Routers[13]
  BY DEF Routers
<1>2. \A k \in 1 .. 13 : \A n \in DOMAIN Routers[k] : Routers[k][n] \in RouteRows
  BY DEF RouteRows, Listed
<1> QED
  BY <1>1, <1>2, <1>3

(* Every call of the clients is sent to the route of its handler. *)
LEMMA ClientCallsGo ==
  ASSUME NEW op \in DOMAIN ClientCalls
  PROVE  \E r \in RouteRows : Goes(ClientCalls, op, r)
<1>1. \A x \in DOMAIN MemoryCalls : \E r \in RouteRows : Goes(MemoryCalls, x, r)
  <2>1. DOMAIN MemoryCalls = {"add", "create", "search", "get", "update", "delete", "get_all",
                              "delete_all", "list_for_user"}
    BY DEF MemoryCalls
  <2> QED
    BY <2>1, TheRows, MemoryCallsGo
<1>2. \A x \in DOMAIN SessionCalls : \E r \in RouteRows : Goes(SessionCalls, x, r)
  <2>1. DOMAIN SessionCalls = {"create_session", "get_session", "add_message", "update_session",
                               "delete_session", "assemble_context"}
    BY DEF SessionCalls
  <2> QED
    BY <2>1, TheRows, SessionCallsGo
<1>3. \A x \in DOMAIN EpisodeCalls : \E r \in RouteRows : Goes(EpisodeCalls, x, r)
  <2>1. DOMAIN EpisodeCalls = {"reflect_session", "search_episodes", "get_recent_episodes"}
    BY DEF EpisodeCalls
  <2> QED
    BY <2>1, TheRows, EpisodeCallsGo
<1>4. \A x \in DOMAIN FeelingCalls : \E r \in RouteRows : Goes(FeelingCalls, x, r)
  <2>1. DOMAIN FeelingCalls = {"record_emotional_context", "get_emotional_context",
                               "extract_topics", "get_topic_recurrence"}
    BY DEF FeelingCalls
  <2> QED
    BY <2>1, TheRows, FeelingCallsGo
<1>5. \A x \in DOMAIN ArcCalls : \E r \in RouteRows : Goes(ArcCalls, x, r)
  <2>1. DOMAIN ArcCalls = {"synthesize_narratives", "get_active_arcs", "get_job"}
    BY DEF ArcCalls
  <2> QED
    BY <2>1, TheRows, ArcCallsGo
<1>6. \A x \in DOMAIN DynamicsCalls : \E r \in RouteRows : Goes(DynamicsCalls, x, r)
  <2>1. DOMAIN DynamicsCalls = {"promote_memory", "demote_memory", "get_dynamics",
                                "score_memory", "prune_access_logs"}
    BY DEF DynamicsCalls
  <2> QED
    BY <2>1, TheRows, DynamicsCallsGo
<1>7. \A x \in DOMAIN IntentionCalls : \E r \in RouteRows : Goes(IntentionCalls, x, r)
  <2>1. DOMAIN IntentionCalls = {"set_intention", "check_intentions", "format_intentions",
                                 "list_intentions", "delete_intention",
                                 "cleanup_expired_intentions"}
    BY DEF IntentionCalls
  <2> QED
    BY <2>1, TheRows, IntentionCallsGo
<1>8. \A x \in DOMAIN RetrievalCalls : \E r \in RouteRows : Goes(RetrievalCalls, x, r)
  <2>1. DOMAIN RetrievalCalls = {"assemble_layered_context", "supersede_memory",
                                 "get_supersessions", "health"}
    BY DEF RetrievalCalls
  <2> QED
    BY <2>1, TheRows, RetrievalCallsGo
<1>9. \A x \in DOMAIN AdminCalls : \E r \in RouteRows : Goes(AdminCalls, x, r)
  <2>1. DOMAIN AdminCalls = {"deep_health", "keys_list", "keys_mint", "keys_revoke",
                             "tenants_list", "tenants_create", "stats", "audit", "reembed",
                             "export"}
    BY DEF AdminCalls
  <2> QED
    BY <2>1, TheRows, AdminCallsGo
<1>10. \A t \in {MemoryCalls, SessionCalls, EpisodeCalls, FeelingCalls, ArcCalls, DynamicsCalls,
                 IntentionCalls, RetrievalCalls, AdminCalls} :
         Within(t, ClientCalls) /\ \A x \in DOMAIN t : \E r \in RouteRows : Goes(t, x, r)
  BY <1>1, <1>2, <1>3, <1>4, <1>5, <1>6, <1>7, <1>8, <1>9, ClientCallsFound
<1>11. PICK t \in {MemoryCalls, SessionCalls, EpisodeCalls, FeelingCalls, ArcCalls,
                   DynamicsCalls, IntentionCalls, RetrievalCalls, AdminCalls} : op \in DOMAIN t
  BY ClientCallsFound
<1> QED
  BY <1>10, <1>11 DEF Within, Goes

(* What no client calls has a name of its own as well. *)
LEMMA SentFound ==
  /\ DOMAIN DirectCalls = Operations \ DOMAIN ClientCalls
  /\ Within(ClientCalls, Sent) /\ Within(DirectCalls, Sent)
<1>1. DOMAIN DirectCalls = Operations \ DOMAIN ClientCalls
  BY DEF DirectCalls
<1> DEFINE all == {ClientCalls, DirectCalls}
<1>2. \A t, u \in all : u = t \/ DOMAIN u \cap DOMAIN t = {}
  BY <1>1
<1>3. \A t \in all : Within(t, Joined(all))
  <2> HIDE DEF all
  <2> QED
    BY <1>2, JoinedFinds
<1> QED
  BY <1>1, <1>3 DEF Sent

(* Every call is sent to the route of its handler, whoever makes it. *)
LEMMA CallsAreRouted ==
  ASSUME NEW op \in Operations \cup DOMAIN ClientCalls
  PROVE  \E r \in RouteRows : Goes(Sent, op, r)
<1>1. DOMAIN DirectCalls = Operations \ DOMAIN ClientCalls
  BY SentFound
<1>2. Within(ClientCalls, Sent) /\ Within(DirectCalls, Sent)
  BY SentFound
<1>3. CASE op \in DOMAIN ClientCalls
  BY <1>2, <1>3, ClientCallsGo DEF Within, Goes
<1>4. CASE op \in Operations \ DOMAIN ClientCalls
  <2> DEFINE fits(s) == s.handler = op
             S == {n \in DOMAIN AllRoutes : fits(AllRoutes[n])}
             first == CHOOSE n \in DOMAIN AllRoutes :
                        fits(AllRoutes[n]) /\ \A m \in 1 .. n - 1 : ~fits(AllRoutes[m])
             r == AllRoutes[first]
  <2>1. DirectCalls[op] = Send(r.verb, r.path, Bare)
    BY <1>4 DEF DirectCalls, FirstFit
  <2>2. DOMAIN AllRoutes = 1 .. Len(AllRoutes) /\ Len(AllRoutes) \in Nat
    BY RowsAreListed
  <2>3. S \subseteq Nat /\ S # {}
    BY <1>4, <2>2 DEF Operations
  <2>4. first \in DOMAIN AllRoutes /\ fits(AllRoutes[first])
    <3> HIDE DEF fits
    <3>1. PICK k \in S : \A m \in S : k <= m
      BY <2>3, Least
    <3>2. k \in DOMAIN AllRoutes /\ fits(AllRoutes[k]) /\ \A m \in 1 .. k - 1 :
         ~fits(AllRoutes[m])
      BY <2>2, <3>1
    <3> QED
      BY <3>2
  <2>5. r \in RouteRows
    BY <2>4, RowsAreListed DEF Listed
  <2>6. DirectCalls[op].verb = r.verb /\ DirectCalls[op].path = r.path
    BY <2>1 DEF Send
  <2>7. op \in DOMAIN Sent /\ Sent[op] = DirectCalls[op]
    BY <1>1, <1>2, <1>4 DEF Within
  <2> QED
    BY <2>4, <2>5, <2>6, <2>7 DEF Goes
<1> QED
  BY <1>3, <1>4

(* A rule with a star after a segment fits what has that segment and more. *)
LEMMA StarAfter ==
  ASSUME NEW Segments, NEW path \in Seq(Segments) \ {<<>>}, NEW h, h # "*"
  PROVE  GlobFits(path, <<h, "*">>) <=> Len(path) >= 2 /\ path[1] = h
  <1>1. Len(<<h, "*">>) = 2 /\ <<h, "*">>[2] = "*" /\ <<h, "*">>[1] = h OBVIOUS
  <1>2. ASSUME Len(path) >= 2
        PROVE  /\ Len(SubSeq(path, 1, 2)) = 2
               /\ SubSeq(path, 1, 2)[1] = path[1] /\ SubSeq(path, 1, 2)[2] = path[2]
    BY <1>2, SubSeqProperties
  <1>3. DOMAIN <<h, "*">> = {1, 2} OBVIOUS
  <1>4. Len(path) \in Nat OBVIOUS
  <1> QED BY <1>1, <1>2, <1>3, <1>4 DEF GlobFits, Fits

(* A star alone fits everything. *)
LEMMA StarAlone ==
  ASSUME NEW Segments, NEW path \in Seq(Segments) \ {<<>>}
  PROVE  GlobFits(path, <<"*">>)
  <1>1. Len(<<"*">>) = 1 /\ <<"*">>[1] = "*" OBVIOUS
  <1>2. Len(path) \in Nat /\ Len(path) >= 1 OBVIOUS
  <1>3. Len(SubSeq(path, 1, 1)) = 1 BY <1>2, SubSeqProperties
  <1>4. DOMAIN <<"*">> = {1} OBVIOUS
  <1> QED BY <1>1, <1>2, <1>3, <1>4 DEF GlobFits, Fits

(* Without a star a rule fits its own path only. *)
LEMMA NoStar ==
  ASSUME NEW Segments, NEW path \in Seq(Segments) \ {<<>>}, NEW h, h # "*"
  PROVE  GlobFits(path, <<h>>) <=> path = <<h>>
  BY DEF GlobFits

LEMMA NoStarAfter ==
  ASSUME NEW Segments, NEW path \in Seq(Segments) \ {<<>>}, NEW h, NEW k, k # "*"
  PROVE  GlobFits(path, <<h, k>>) <=> path = <<h, k>>
  BY DEF GlobFits

(* What is not nothing is one, or two and more. *)
LEMMA OneOrTwo == \A n \in Nat : n # 0 => n = 1 \/ n >= 2
  OBVIOUS

(* What a POST may do with a reading key. *)
Reading == {<<"memories", "search">>, <<"memories", "list">>, <<"episodes", "search">>,
            <<"intentions", "check">>, <<"intentions", "format">>}

(* The scope a request requires, without the order of the rules. *)
ScopeOf(verb, path) ==
  IF path[1] \in {"admin", "maintenance"} THEN "admin"
  ELSE IF verb = "GET" \/ (verb = "POST" /\ (path \in Reading \/ path[1] = "context"))
       THEN "read" ELSE "write"

(* The rules come in pairs: the segment alone, and the segment and more. *)
LEMMA OneOrMore ==
  ASSUME NEW Segments, NEW path \in Seq(Segments) \ {<<>>}, NEW h
  PROVE  path[1] = h <=> (path = <<h>> \/ (Len(path) >= 2 /\ path[1] = h))
  <1>1. Len(path) \in Nat /\ Len(path) # 0 /\ path \in Seq(Segments) OBVIOUS
  <1>2. ASSUME Len(path) = 1, path[1] = h PROVE path = <<h>>
    <2>1. h \in Segments BY <1>1, <1>2
    <2>2. <<h>> \in Seq(Segments) /\ Len(<<h>>) = 1 /\ <<h>>[1] = h BY <2>1
    <2> QED BY <1>1, <1>2, <2>2, SeqEqual
  <1>3. path = <<h>> => path[1] = h OBVIOUS
  <1>4. Len(path) = 1 \/ Len(path) >= 2 BY <1>1, OneOrTwo
  <1> QED BY <1>2, <1>3, <1>4

(* The rules by number. *)
LEMMA TheRules ==
  /\ ScopeRules[1] = Rule("*", <<"admin", "*">>, "admin")
  /\ ScopeRules[2] = Rule("*", <<"admin">>, "admin")
  /\ ScopeRules[3] = Rule("*", <<"maintenance", "*">>, "admin")
  /\ ScopeRules[4] = Rule("*", <<"maintenance">>, "admin")
  /\ ScopeRules[5] = Rule("POST", <<"memories", "search">>, "read")
  /\ ScopeRules[6] = Rule("POST", <<"memories", "list">>, "read")
  /\ ScopeRules[7] = Rule("POST", <<"episodes", "search">>, "read")
  /\ ScopeRules[8] = Rule("POST", <<"intentions", "check">>, "read")
  /\ ScopeRules[9] = Rule("POST", <<"intentions", "format">>, "read")
  /\ ScopeRules[10] = Rule("POST", <<"context">>, "read")
  /\ ScopeRules[11] = Rule("POST", <<"context", "*">>, "read")
  /\ ScopeRules[12] = Rule("GET", <<"*">>, "read")
  /\ ScopeRules[13] = Rule("*", <<"*">>, "write")
  /\ DOMAIN ScopeRules = 1 .. 13
  BY DEF ScopeRules

(* ScopeOf is what the first rule that fits requires, for every verb and    *)
(* path.                                                                    *)
LEMMA ScopeInClosedForm ==
  ASSUME NEW Segments, NEW verb, NEW path \in Seq(Segments) \ {<<>>}
  PROVE  RequiredScope(verb, path) = ScopeOf(verb, path)
  <1> DEFINE fits(r) == r.verb \in {"*", verb} /\ GlobFits(path, r.glob)
             S == {n \in DOMAIN ScopeRules : fits(ScopeRules[n])}
             n == CHOOSE n \in DOMAIN ScopeRules :
                    fits(ScopeRules[n]) /\ \A m \in 1 .. n - 1 : ~fits(ScopeRules[m])
  <1>1. DOMAIN ScopeRules = 1 .. 13 /\ ScopeRules[13] = Rule("*", <<"*">>, "write")
    BY TheRules
  <1>2. fits(ScopeRules[13]) BY <1>1, StarAlone DEF Rule
  <1> HIDE DEF fits
  <1>3. n \in 1 .. 13 /\ fits(ScopeRules[n]) /\ \A m \in 1 .. n - 1 : ~fits(ScopeRules[m])
    <2>1. S \subseteq Nat /\ S # {}
      BY <1>1, <1>2
    <2>2. PICK k \in S : \A m \in S : k <= m
      BY <2>1, Least
    <2>3. k \in DOMAIN ScopeRules /\ fits(ScopeRules[k])
            /\ \A m \in 1 .. k - 1 : ~fits(ScopeRules[m])
      BY <1>1, <2>2
    <2> QED
      BY <1>1, <2>3
  <1>4. n \in 1 .. 13 /\ fits(ScopeRules[n]) /\ \A m \in 1 .. n - 1 : ~fits(ScopeRules[m])
    BY <1>3
  <1> USE DEF fits
  <1>5. RequiredScope(verb, path) = ScopeRules[n].scope
    BY DEF RequiredScope, FirstFit
  <1> HIDE DEF n
  <1>6. /\ fits(ScopeRules[1]) <=> Len(path) >= 2 /\ path[1] = "admin"
        /\ fits(ScopeRules[3]) <=> Len(path) >= 2 /\ path[1] = "maintenance"
        /\ fits(ScopeRules[11]) <=> verb = "POST" /\ Len(path) >= 2 /\ path[1] = "context"
    <2>1. /\ GlobFits(path, <<"admin", "*">>) <=> Len(path) >= 2 /\ path[1] = "admin"
          /\ GlobFits(path, <<"maintenance", "*">>) <=> Len(path) >= 2 /\ path[1] =
                 "maintenance"
          /\ GlobFits(path, <<"context", "*">>) <=> Len(path) >= 2 /\ path[1] = "context"
      BY StarAfter
    <2> QED BY <2>1, TheRules DEF Rule
  <1>7. /\ fits(ScopeRules[2]) <=> path = <<"admin">>
        /\ fits(ScopeRules[4]) <=> path = <<"maintenance">>
        /\ fits(ScopeRules[10]) <=> verb = "POST" /\ path = <<"context">>
    <2>1. /\ GlobFits(path, <<"admin">>) <=> path = <<"admin">>
          /\ GlobFits(path, <<"maintenance">>) <=> path = <<"maintenance">>
          /\ GlobFits(path, <<"context">>) <=> path = <<"context">>
      BY NoStar
    <2> QED BY <2>1, TheRules DEF Rule
  <1>8. /\ fits(ScopeRules[5]) <=> verb = "POST" /\ path = <<"memories", "search">>
        /\ fits(ScopeRules[6]) <=> verb = "POST" /\ path = <<"memories", "list">>
        /\ fits(ScopeRules[7]) <=> verb = "POST" /\ path = <<"episodes", "search">>
        /\ fits(ScopeRules[8]) <=> verb = "POST" /\ path = <<"intentions", "check">>
        /\ fits(ScopeRules[9]) <=> verb = "POST" /\ path = <<"intentions", "format">>
    <2>1. /\ GlobFits(path, <<"memories", "search">>) <=> path = <<"memories", "search">>
          /\ GlobFits(path, <<"memories", "list">>) <=> path = <<"memories", "list">>
          /\ GlobFits(path, <<"episodes", "search">>) <=> path = <<"episodes", "search">>
          /\ GlobFits(path, <<"intentions", "check">>) <=> path = <<"intentions", "check">>
          /\ GlobFits(path, <<"intentions", "format">>) <=> path = <<"intentions", "format">>
      BY NoStarAfter
    <2> QED BY <2>1, TheRules DEF Rule
  <1>9. fits(ScopeRules[12]) <=> verb = "GET"
    BY TheRules, StarAlone DEF Rule
  <1>10. /\ \A k \in 1 .. 4 : ScopeRules[k].scope = "admin"
         /\ \A k \in 5 .. 12 : ScopeRules[k].scope = "read"
         /\ ScopeRules[13].scope = "write"
    BY DEF ScopeRules, Rule
  <1> HIDE DEF fits
  <1>11. path[1] = "admin" <=> fits(ScopeRules[1]) \/ fits(ScopeRules[2])
    BY <1>6, <1>7, OneOrMore
  <1>12. path[1] = "maintenance" <=> fits(ScopeRules[3]) \/ fits(ScopeRules[4])
    BY <1>6, <1>7, OneOrMore
  <1>13. verb = "POST" /\ path[1] = "context" <=> fits(ScopeRules[10]) \/ fits(ScopeRules[11])
    BY <1>6, <1>7, OneOrMore
  <1>14. verb = "POST" /\ path \in Reading <=> \E k \in 5 .. 9 : fits(ScopeRules[k])
    BY <1>8 DEF Reading
  <1>15. path[1] \in {"admin", "maintenance"} <=> \E k \in 1 .. 4 : fits(ScopeRules[k])
    BY <1>11, <1>12
  <1>16. (verb = "GET" \/ (verb = "POST" /\ (path \in Reading \/ path[1] = "context")))
           <=> \E k \in 5 .. 12 : fits(ScopeRules[k])
    BY <1>9, <1>13, <1>14
  <1>17. CASE n \in 1 .. 4
    <2>1. \E k \in 1 .. 4 : fits(ScopeRules[k]) BY <1>4, <1>17
    <2> QED BY <2>1, <1>5, <1>10, <1>15, <1>17 DEF ScopeOf
  <1>18. CASE n \in 5 .. 12
    <2>1. ~\E k \in 1 .. 4 : fits(ScopeRules[k]) BY <1>4, <1>18
    <2>2. \E k \in 5 .. 12 : fits(ScopeRules[k]) BY <1>4, <1>18
    <2> QED BY <2>1, <2>2, <1>5, <1>10, <1>15, <1>16, <1>18 DEF ScopeOf
  <1>19. CASE n = 13
    <2>1. ~\E k \in 1 .. 4 : fits(ScopeRules[k]) BY <1>4, <1>19
    <2>2. ~\E k \in 5 .. 12 : fits(ScopeRules[k]) BY <1>4, <1>19
    <2> QED BY <2>1, <2>2, <1>5, <1>10, <1>15, <1>16, <1>19 DEF ScopeOf
  <1> QED BY <1>4, <1>17, <1>18, <1>19

(* A route requires the scope that its handler's effect calls for. *)
RowIsGuarded(r) ==
  /\ r.handler \in Administers => ScopeOf(r.verb, r.path) = "admin" /\ r.path \notin PublicPaths
  /\ r.handler \in Changes => ScopeOf(r.verb, r.path) = "write" /\ r.path \notin PublicPaths
  /\ r.handler \in Reads => ScopeOf(r.verb, r.path) = "read" \/ r.path \in PublicPaths

(* Every route does. *)
LEMMA RowsAreGuarded ==
  ASSUME NEW r \in RouteRows
  PROVE  RowIsGuarded(r)
<1>1. \A n \in DOMAIN HealthRoutes : RowIsGuarded(HealthRoutes[n])
  BY DEF RowIsGuarded, ScopeOf, Reading, PublicPaths, Administers, Changes, Reads, HealthRoutes,
         Route, Find
<1>2. \A n \in DOMAIN KeyRoutes : RowIsGuarded(KeyRoutes[n])
  BY DEF RowIsGuarded, ScopeOf, Reading, PublicPaths, Administers, Changes, Reads, KeyRoutes,
         Route, Find
<1>3. \A n \in DOMAIN TenantRoutes : RowIsGuarded(TenantRoutes[n])
  BY DEF RowIsGuarded, ScopeOf, Reading, PublicPaths, Administers, Changes, Reads, TenantRoutes,
         Route, Find
<1>4. \A n \in DOMAIN DataRoutes : RowIsGuarded(DataRoutes[n])
  BY DEF RowIsGuarded, ScopeOf, Reading, PublicPaths, Administers, Changes, Reads, DataRoutes,
         Route, Find
<1>5. \A n \in DOMAIN AliasRoutes : RowIsGuarded(AliasRoutes[n])
  BY DEF RowIsGuarded, ScopeOf, Reading, PublicPaths, Administers, Changes, Reads, AliasRoutes,
         Route, Find
<1>6. \A n \in DOMAIN TraitRoutes : RowIsGuarded(TraitRoutes[n])
  BY DEF RowIsGuarded, ScopeOf, Reading, PublicPaths, Administers, Changes, Reads, TraitRoutes,
         Route, Find
<1>7. \A n \in DOMAIN MemoryRoutes : RowIsGuarded(MemoryRoutes[n])
  BY DEF RowIsGuarded, ScopeOf, Reading, PublicPaths, Administers, Changes, Reads, MemoryRoutes,
         Route, Find
<1>8. \A n \in DOMAIN SessionRoutes : RowIsGuarded(SessionRoutes[n])
  BY DEF RowIsGuarded, ScopeOf, Reading, PublicPaths, Administers, Changes, Reads,
         SessionRoutes, Route, Find
<1>9. \A n \in DOMAIN EpisodeRoutes : RowIsGuarded(EpisodeRoutes[n])
  BY DEF RowIsGuarded, ScopeOf, Reading, PublicPaths, Administers, Changes, Reads,
         EpisodeRoutes, Route, Find
<1>10. \A n \in DOMAIN ArcRoutes : RowIsGuarded(ArcRoutes[n])
  BY DEF RowIsGuarded, ScopeOf, Reading, PublicPaths, Administers, Changes, Reads, ArcRoutes,
         Route, Find
<1>11. \A n \in DOMAIN DynamicsRoutes : RowIsGuarded(DynamicsRoutes[n])
  BY DEF RowIsGuarded, ScopeOf, Reading, PublicPaths, Administers, Changes, Reads,
         DynamicsRoutes, Route, Find
<1>12. \A n \in DOMAIN IntentionRoutes : RowIsGuarded(IntentionRoutes[n])
  BY DEF RowIsGuarded, ScopeOf, Reading, PublicPaths, Administers, Changes, Reads,
         IntentionRoutes, Route, Find
<1>13. \A n \in DOMAIN OtherRoutes : RowIsGuarded(OtherRoutes[n])
  BY DEF RowIsGuarded, ScopeOf, Reading, PublicPaths, Administers, Changes, Reads, OtherRoutes,
         Route, Find
<1>14. \A k \in 1 .. 13 : \A n \in DOMAIN Routers[k] : RowIsGuarded(Routers[k][n])
  BY <1>1, <1>2, <1>3, <1>4, <1>5, <1>6, <1>7, <1>8, <1>9, <1>10, <1>11, <1>12, <1>13
     DEF Routers
<1> QED
  BY <1>14 DEF RouteRows, Listed


(* What the two doors make of a call: the row it is sent to is that of its   *)
(* handler and answers 404 where the servicer answers NOT_FOUND, and what    *)
(* the caller leaves out comes to the same over HTTP, from the client or the *)
(* request model, as over gRPC, from the client or the servicer.             *)
OverHttp(sent, body, p) == IF Default(sent, p) = Omitted THEN Default(body, p) ELSE
       Default(sent, p)
OverRpc(sent, makes, p) ==
  IF Default(sent, p) \in {Omitted, Falsy} THEN Default(makes, p) ELSE Default(sent, p)
Alike(calls, rpcs, servicer, op, body) ==
  /\ op \in DOMAIN calls /\ op \in DOMAIN rpcs /\ op \in DOMAIN servicer
  /\ \A p \in (DOMAIN servicer[op].makes \ Required) \cup {"none"} :
       /\ OverHttp(calls[op].defaults, body, p) = OverRpc(rpcs[op].defaults, servicer[op].makes,
              p)
       /\ Default(calls[op].defaults, p) # "large"

(* No default is an empty table. *)
LEMMA BareIsEmpty == DOMAIN Bare = {} /\ \A p : Default(Bare, p) = Omitted
<1>1. DOMAIN Bare = {}
  BY DEF Bare
<1> QED
  BY <1>1 DEF Default

(* The memory calls of PalaceClient, their routes and request models,       *)
(* against PalaceGrpcClient and MemoryServicer.                             *)
LEMMA MemoryAlike ==
  /\ Alike(MemoryCalls, MemoryRpcs, MemoryServicer, "create", MemoryBodies["create"])
  /\ Alike(MemoryCalls, MemoryRpcs, MemoryServicer, "get", Bare)
  /\ Alike(MemoryCalls, MemoryRpcs, MemoryServicer, "delete", Bare)
  /\ Alike(MemoryCalls, MemoryRpcs, MemoryServicer, "search", MemoryBodies["search"])
  /\ Alike(MemoryCalls, MemoryRpcs, MemoryServicer, "get_all", MemoryBodies["get_all"])
<1> USE BareIsEmpty
    DEF Alike, OverHttp, OverRpc, Default, Required, Omitted, Falsy, Send, Rpc, Servicer,
        Finder, MemoryCalls, MemoryRpcs, MemoryServicer, MemoryBodies
<1>1. Alike(MemoryCalls, MemoryRpcs, MemoryServicer, "create", MemoryBodies["create"])
  OBVIOUS
<1>2. Alike(MemoryCalls, MemoryRpcs, MemoryServicer, "get", Bare)
  OBVIOUS
<1>3. Alike(MemoryCalls, MemoryRpcs, MemoryServicer, "delete", Bare)
  OBVIOUS
<1>4. Alike(MemoryCalls, MemoryRpcs, MemoryServicer, "search", MemoryBodies["search"])
  OBVIOUS
<1>5. Alike(MemoryCalls, MemoryRpcs, MemoryServicer, "get_all", MemoryBodies["get_all"])
  OBVIOUS
<1> QED
  BY <1>1, <1>2, <1>3, <1>4, <1>5

(* The session calls, against SessionServicer. *)
LEMMA SessionAlike ==
  /\ Alike(SessionCalls, SessionRpcs, SessionServicer, "create_session", Bare)
  /\ Alike(SessionCalls, SessionRpcs, SessionServicer, "get_session", Bare)
  /\ Alike(SessionCalls, SessionRpcs, SessionServicer, "add_message", Bare)
  /\ Alike(SessionCalls, SessionRpcs, SessionServicer, "update_session", Bare)
  /\ Alike(SessionCalls, SessionRpcs, SessionServicer, "delete_session", Bare)
<1> USE BareIsEmpty
    DEF Alike, OverHttp, OverRpc, Default, Required, Omitted, Falsy, Send, Rpc, Servicer,
        Finder, SessionCalls, SessionRpcs, SessionServicer
<1>1. Alike(SessionCalls, SessionRpcs, SessionServicer, "create_session", Bare)
  OBVIOUS
<1>2. Alike(SessionCalls, SessionRpcs, SessionServicer, "get_session", Bare)
  OBVIOUS
<1>3. Alike(SessionCalls, SessionRpcs, SessionServicer, "add_message", Bare)
  OBVIOUS
<1>4. Alike(SessionCalls, SessionRpcs, SessionServicer, "update_session", Bare)
  OBVIOUS
<1>5. Alike(SessionCalls, SessionRpcs, SessionServicer, "delete_session", Bare)
  OBVIOUS
<1> QED
  BY <1>1, <1>2, <1>3, <1>4, <1>5

(* The calls on episodes, against EpisodeServicer. *)
LEMMA EpisodeAlike ==
  /\ Alike(EpisodeCalls, EpisodeRpcs, EpisodeServicer, "reflect_session",
      EpisodeBodies["reflect_session"])
  /\ Alike(EpisodeCalls, EpisodeRpcs, EpisodeServicer, "search_episodes",
      EpisodeBodies["search_episodes"])
  /\ Alike(EpisodeCalls, EpisodeRpcs, EpisodeServicer, "get_recent_episodes",
      RecentBodies["get_recent_episodes"])
<1> USE BareIsEmpty
    DEF Alike, OverHttp, OverRpc, Default, Required, Omitted, Falsy, Send, Rpc, Servicer,
        Finder, EpisodeCalls, EpisodeRpcs, EpisodeServicer, EpisodeBodies, RecentBodies
<1>1. Alike(EpisodeCalls, EpisodeRpcs, EpisodeServicer, "reflect_session",
    EpisodeBodies["reflect_session"])
  OBVIOUS
<1>2. Alike(EpisodeCalls, EpisodeRpcs, EpisodeServicer, "search_episodes",
    EpisodeBodies["search_episodes"])
  OBVIOUS
<1>3. Alike(EpisodeCalls, EpisodeRpcs, EpisodeServicer, "get_recent_episodes",
    RecentBodies["get_recent_episodes"])
  OBVIOUS
<1> QED
  BY <1>1, <1>2, <1>3

(* The calls on arcs, against ArcServicer. *)
LEMMA ArcAlike ==
  /\ Alike(ArcCalls, ArcRpcs, ArcServicer, "synthesize_narratives",
      EpisodeBodies["synthesize_narratives"])
  /\ Alike(ArcCalls, ArcRpcs, ArcServicer, "get_active_arcs", RecentBodies["get_active_arcs"])
<1> USE BareIsEmpty
    DEF Alike, OverHttp, OverRpc, Default, Required, Omitted, Falsy, Send, Rpc, Servicer,
        Finder, ArcCalls, ArcRpcs, ArcServicer, EpisodeBodies, RecentBodies
<1>1. Alike(ArcCalls, ArcRpcs, ArcServicer, "synthesize_narratives",
    EpisodeBodies["synthesize_narratives"])
  OBVIOUS
<1>2. Alike(ArcCalls, ArcRpcs, ArcServicer, "get_active_arcs", RecentBodies["get_active_arcs"])
  OBVIOUS
<1> QED
  BY <1>1, <1>2

(* The intention calls, against IntentionServicer. *)
LEMMA IntentionAlike ==
  /\ Alike(IntentionCalls, IntentionRpcs, IntentionServicer, "set_intention",
      IntentionBodies["set_intention"])
  /\ Alike(IntentionCalls, IntentionRpcs, IntentionServicer, "check_intentions",
      IntentionBodies["check_intentions"])
  /\ Alike(IntentionCalls, IntentionRpcs, IntentionServicer, "format_intentions",
      IntentionBodies["format_intentions"])
  /\ Alike(IntentionCalls, IntentionRpcs, IntentionServicer, "list_intentions",
      IntentionBodies["list_intentions"])
  /\ Alike(IntentionCalls, IntentionRpcs, IntentionServicer, "delete_intention", Bare)
<1> USE BareIsEmpty
    DEF Alike, OverHttp, OverRpc, Default, Required, Omitted, Falsy, Send, Rpc, Servicer,
        Finder, IntentionCalls, IntentionRpcs, IntentionServicer, IntentionBodies
<1>1. Alike(IntentionCalls, IntentionRpcs, IntentionServicer, "set_intention",
    IntentionBodies["set_intention"])
  OBVIOUS
<1>2. Alike(IntentionCalls, IntentionRpcs, IntentionServicer, "check_intentions",
    IntentionBodies["check_intentions"])
  OBVIOUS
<1>3. Alike(IntentionCalls, IntentionRpcs, IntentionServicer, "format_intentions",
    IntentionBodies["format_intentions"])
  OBVIOUS
<1>4. Alike(IntentionCalls, IntentionRpcs, IntentionServicer, "list_intentions",
    IntentionBodies["list_intentions"])
  OBVIOUS
<1>5. Alike(IntentionCalls, IntentionRpcs, IntentionServicer, "delete_intention", Bare)
  OBVIOUS
<1> QED
  BY <1>1, <1>2, <1>3, <1>4, <1>5

(* The calls on dynamics, against DynamicsServicer. *)
LEMMA DynamicsAlike ==
  /\ Alike(DynamicsCalls, DynamicsRpcs, DynamicsServicer, "promote_memory",
      DynamicsBodies["promote_memory"])
  /\ Alike(DynamicsCalls, DynamicsRpcs, DynamicsServicer, "demote_memory",
      DynamicsBodies["demote_memory"])
  /\ Alike(DynamicsCalls, DynamicsRpcs, DynamicsServicer, "get_dynamics", Bare)
  /\ Alike(DynamicsCalls, DynamicsRpcs, DynamicsServicer, "score_memory", Bare)
<1> USE BareIsEmpty
    DEF Alike, OverHttp, OverRpc, Default, Required, Omitted, Falsy, Send, Rpc, Servicer,
        Finder, DynamicsCalls, DynamicsRpcs, DynamicsServicer, DynamicsBodies
<1>1. Alike(DynamicsCalls, DynamicsRpcs, DynamicsServicer, "promote_memory",
    DynamicsBodies["promote_memory"])
  OBVIOUS
<1>2. Alike(DynamicsCalls, DynamicsRpcs, DynamicsServicer, "demote_memory",
    DynamicsBodies["demote_memory"])
  OBVIOUS
<1>3. Alike(DynamicsCalls, DynamicsRpcs, DynamicsServicer, "get_dynamics", Bare)
  OBVIOUS
<1>4. Alike(DynamicsCalls, DynamicsRpcs, DynamicsServicer, "score_memory", Bare)
  OBVIOUS
<1> QED
  BY <1>1, <1>2, <1>3, <1>4

(* Layered context, against RetrievalServicer. *)
LEMMA RetrievalAlike ==
  /\ Alike(RetrievalCalls, RetrievalRpcs, RetrievalServicer, "assemble_layered_context",
      LayeredBodies["assemble_layered_context"])
<1> USE BareIsEmpty
    DEF Alike, OverHttp, OverRpc, Default, Required, Omitted, Falsy, Send, Rpc, Servicer,
        Finder, RetrievalCalls, RetrievalRpcs, RetrievalServicer, LayeredBodies
<1>1. Alike(RetrievalCalls, RetrievalRpcs, RetrievalServicer, "assemble_layered_context",
    LayeredBodies["assemble_layered_context"])
  OBVIOUS
<1> QED
  BY <1>1

(* Supersession, against IngestionServicer. *)
LEMMA IngestionAlike ==
  /\ Alike(RetrievalCalls, IngestionRpcs, IngestionServicer, "supersede_memory",
      SupersedeBodies["supersede_memory"])
  /\ Alike(RetrievalCalls, IngestionRpcs, IngestionServicer, "get_supersessions", Bare)
<1> USE BareIsEmpty
    DEF Alike, OverHttp, OverRpc, Default, Required, Omitted, Falsy, Send, Rpc, Servicer,
        Finder, RetrievalCalls, IngestionRpcs, IngestionServicer, SupersedeBodies
<1>1. Alike(RetrievalCalls, IngestionRpcs, IngestionServicer, "supersede_memory",
    SupersedeBodies["supersede_memory"])
  OBVIOUS
<1>2. Alike(RetrievalCalls, IngestionRpcs, IngestionServicer, "get_supersessions", Bare)
  OBVIOUS
<1> QED
  BY <1>1, <1>2

(* The job call, against JobServicer. *)
LEMMA JobAlike ==
  /\ Alike(ArcCalls, JobRpcs, JobServicer, "get_job", Bare)
<1> USE BareIsEmpty
    DEF Alike, OverHttp, OverRpc, Default, Required, Omitted, Falsy, Send, Rpc, Servicer,
        Finder, ArcCalls, JobRpcs, JobServicer
<1>1. Alike(ArcCalls, JobRpcs, JobServicer, "get_job", Bare)
  OBVIOUS
<1> QED
  BY <1>1

(* The routes that answer 404 are those whose servicers answer NOT_FOUND. *)
LEMMA FindersAlike ==
  /\ MemoryRoutes[1].finds = MemoryServicer["create"].finds
  /\ MemoryRoutes[5].finds = MemoryServicer["get"].finds
  /\ MemoryRoutes[7].finds = MemoryServicer["delete"].finds
  /\ MemoryRoutes[4].finds = MemoryServicer["search"].finds
  /\ MemoryRoutes[3].finds = MemoryServicer["get_all"].finds
  /\ SessionRoutes[1].finds = SessionServicer["create_session"].finds
  /\ SessionRoutes[2].finds = SessionServicer["get_session"].finds
  /\ SessionRoutes[3].finds = SessionServicer["add_message"].finds
  /\ SessionRoutes[4].finds = SessionServicer["update_session"].finds
  /\ SessionRoutes[5].finds = SessionServicer["delete_session"].finds
  /\ EpisodeRoutes[2].finds = EpisodeServicer["reflect_session"].finds
  /\ EpisodeRoutes[1].finds = EpisodeServicer["search_episodes"].finds
  /\ EpisodeRoutes[3].finds = EpisodeServicer["get_recent_episodes"].finds
  /\ ArcRoutes[1].finds = ArcServicer["synthesize_narratives"].finds
  /\ ArcRoutes[2].finds = ArcServicer["get_active_arcs"].finds
  /\ IntentionRoutes[1].finds = IntentionServicer["set_intention"].finds
  /\ IntentionRoutes[2].finds = IntentionServicer["check_intentions"].finds
  /\ IntentionRoutes[3].finds = IntentionServicer["format_intentions"].finds
  /\ IntentionRoutes[5].finds = IntentionServicer["list_intentions"].finds
  /\ IntentionRoutes[4].finds = IntentionServicer["delete_intention"].finds
  /\ DynamicsRoutes[1].finds = DynamicsServicer["promote_memory"].finds
  /\ DynamicsRoutes[2].finds = DynamicsServicer["demote_memory"].finds
  /\ DynamicsRoutes[3].finds = DynamicsServicer["get_dynamics"].finds
  /\ DynamicsRoutes[4].finds = DynamicsServicer["score_memory"].finds
  /\ OtherRoutes[3].finds = RetrievalServicer["assemble_layered_context"].finds
  /\ MemoryRoutes[8].finds = IngestionServicer["supersede_memory"].finds
  /\ MemoryRoutes[9].finds = IngestionServicer["get_supersessions"].finds
  /\ ArcRoutes[3].finds = JobServicer["get_job"].finds
  BY DEF Servicer, Finder, Route, Find, MemoryServicer, SessionServicer, EpisodeServicer,
         ArcServicer, IntentionServicer, DynamicsServicer, RetrievalServicer, IngestionServicer,
         JobServicer, MemoryRoutes, SessionRoutes, EpisodeRoutes, ArcRoutes, IntentionRoutes,
         DynamicsRoutes, OtherRoutes

(* The defaults of a call's request model. *)
Body(op) == IF op \in DOMAIN Bodies THEN Bodies[op] ELSE Bare

(* The request models by name. *)
LEMMA TheBodies ==
  /\ Body("create") = MemoryBodies["create"]
  /\ Body("get") = Bare
  /\ Body("delete") = Bare
  /\ Body("search") = MemoryBodies["search"]
  /\ Body("get_all") = MemoryBodies["get_all"]
  /\ Body("create_session") = Bare
  /\ Body("get_session") = Bare
  /\ Body("add_message") = Bare
  /\ Body("update_session") = Bare
  /\ Body("delete_session") = Bare
  /\ Body("reflect_session") = EpisodeBodies["reflect_session"]
  /\ Body("search_episodes") = EpisodeBodies["search_episodes"]
  /\ Body("get_recent_episodes") = RecentBodies["get_recent_episodes"]
  /\ Body("synthesize_narratives") = EpisodeBodies["synthesize_narratives"]
  /\ Body("get_active_arcs") = RecentBodies["get_active_arcs"]
  /\ Body("set_intention") = IntentionBodies["set_intention"]
  /\ Body("check_intentions") = IntentionBodies["check_intentions"]
  /\ Body("format_intentions") = IntentionBodies["format_intentions"]
  /\ Body("list_intentions") = IntentionBodies["list_intentions"]
  /\ Body("delete_intention") = Bare
  /\ Body("promote_memory") = DynamicsBodies["promote_memory"]
  /\ Body("demote_memory") = DynamicsBodies["demote_memory"]
  /\ Body("get_dynamics") = Bare
  /\ Body("score_memory") = Bare
  /\ Body("assemble_layered_context") = LayeredBodies["assemble_layered_context"]
  /\ Body("supersede_memory") = SupersedeBodies["supersede_memory"]
  /\ Body("get_supersessions") = Bare
  /\ Body("get_job") = Bare
<1>1. /\ DOMAIN MemoryBodies = {"create", "get_all", "search"}
      /\ DOMAIN EpisodeBodies = {"reflect_session", "synthesize_narratives", "search_episodes"}
      /\ DOMAIN RecentBodies = {"get_recent_episodes", "get_active_arcs"}
      /\ DOMAIN DynamicsBodies = {"promote_memory", "demote_memory"}
      /\ DOMAIN IntentionBodies = {"set_intention", "check_intentions", "format_intentions",
                                   "list_intentions"}
      /\ DOMAIN LayeredBodies = {"assemble_layered_context"}
      /\ DOMAIN SupersedeBodies = {"supersede_memory"}
  BY DEF MemoryBodies, EpisodeBodies, RecentBodies, DynamicsBodies, IntentionBodies,
         LayeredBodies, SupersedeBodies
<1> QED
  BY <1>1, BodiesFound DEF Within, Body

(* A route's handler is an operation. *)
LEMMA HandlersAreOperations == \A r \in RouteRows : r.handler \in Operations
  BY RowsAreListed DEF Listed, Operations

(* A call both clients offer is alike at both doors. *)
Served(op) ==
  /\ op \in Operations /\ Alike(Sent, Rpcs, Servicers, op, Body(op))
  /\ \E row \in RouteRows : Goes(Sent, op, row) /\ row.finds = Servicers[op].finds

(* What holds of the tables of one router, client and servicer holds of the  *)
(* tables of all.                                                            *)
LEMMA ServedWhole ==
  ASSUME NEW calls, NEW rpcs, NEW servicer, NEW op, NEW row \in RouteRows, Within(calls,
      ClientCalls),
         Within(rpcs, Rpcs), Within(servicer, Servicers), Goes(calls, op, row),
         Alike(calls, rpcs, servicer, op, Body(op)), row.finds = servicer[op].finds
  PROVE  Served(op)
<1>1. Within(calls, Sent)
  BY SentFound DEF Within
<1>2. Alike(Sent, Rpcs, Servicers, op, Body(op))
  BY <1>1 DEF Alike, Within
<1>3. Goes(Sent, op, row) /\ row.finds = Servicers[op].finds
  BY <1>1 DEF Alike, Within, Goes
<1>4. op \in Operations
  BY HandlersAreOperations DEF Goes
<1> QED
  BY <1>2, <1>3, <1>4 DEF Served

(* Every call that PalaceGrpcClient offers is alike at both doors. *)
LEMMA AllServed ==
  ASSUME NEW op \in DOMAIN Servicers
  PROVE  Served(op)
<1>1. \A x \in DOMAIN MemoryServicer : Served(x)
  <2>1. DOMAIN MemoryServicer = {"create", "get", "delete", "search", "get_all"}
    BY DEF MemoryServicer
  <2>2. Served("create")
    BY MemoryAlike, MemoryCallsGo, FindersAlike, TheBodies, TheRows, ServedWhole,
       ClientCallsFound, RpcsFound, ServicersFound
  <2>3. Served("get")
    BY MemoryAlike, MemoryCallsGo, FindersAlike, TheBodies, TheRows, ServedWhole,
       ClientCallsFound, RpcsFound, ServicersFound
  <2>4. Served("delete")
    BY MemoryAlike, MemoryCallsGo, FindersAlike, TheBodies, TheRows, ServedWhole,
       ClientCallsFound, RpcsFound, ServicersFound
  <2>5. Served("search")
    BY MemoryAlike, MemoryCallsGo, FindersAlike, TheBodies, TheRows, ServedWhole,
       ClientCallsFound, RpcsFound, ServicersFound
  <2>6. Served("get_all")
    BY MemoryAlike, MemoryCallsGo, FindersAlike, TheBodies, TheRows, ServedWhole,
       ClientCallsFound, RpcsFound, ServicersFound
  <2> QED
    BY <2>1, <2>2, <2>3, <2>4, <2>5, <2>6
<1>2. \A x \in DOMAIN SessionServicer : Served(x)
  <2>1. DOMAIN SessionServicer = {"create_session", "get_session", "add_message",
          "update_session", "delete_session"}
    BY DEF SessionServicer
  <2>2. Served("create_session")
    BY SessionAlike, SessionCallsGo, FindersAlike, TheBodies, TheRows, ServedWhole,
       ClientCallsFound, RpcsFound, ServicersFound
  <2>3. Served("get_session")
    BY SessionAlike, SessionCallsGo, FindersAlike, TheBodies, TheRows, ServedWhole,
       ClientCallsFound, RpcsFound, ServicersFound
  <2>4. Served("add_message")
    BY SessionAlike, SessionCallsGo, FindersAlike, TheBodies, TheRows, ServedWhole,
       ClientCallsFound, RpcsFound, ServicersFound
  <2>5. Served("update_session")
    BY SessionAlike, SessionCallsGo, FindersAlike, TheBodies, TheRows, ServedWhole,
       ClientCallsFound, RpcsFound, ServicersFound
  <2>6. Served("delete_session")
    BY SessionAlike, SessionCallsGo, FindersAlike, TheBodies, TheRows, ServedWhole,
       ClientCallsFound, RpcsFound, ServicersFound
  <2> QED
    BY <2>1, <2>2, <2>3, <2>4, <2>5, <2>6
<1>3. \A x \in DOMAIN EpisodeServicer : Served(x)
  <2>1. DOMAIN EpisodeServicer = {"reflect_session", "search_episodes", "get_recent_episodes"}
    BY DEF EpisodeServicer
  <2>2. Served("reflect_session")
    BY EpisodeAlike, EpisodeCallsGo, FindersAlike, TheBodies, TheRows, ServedWhole,
       ClientCallsFound, RpcsFound, ServicersFound
  <2>3. Served("search_episodes")
    BY EpisodeAlike, EpisodeCallsGo, FindersAlike, TheBodies, TheRows, ServedWhole,
       ClientCallsFound, RpcsFound, ServicersFound
  <2>4. Served("get_recent_episodes")
    BY EpisodeAlike, EpisodeCallsGo, FindersAlike, TheBodies, TheRows, ServedWhole,
       ClientCallsFound, RpcsFound, ServicersFound
  <2> QED
    BY <2>1, <2>2, <2>3, <2>4
<1>4. \A x \in DOMAIN ArcServicer : Served(x)
  <2>1. DOMAIN ArcServicer = {"synthesize_narratives", "get_active_arcs"}
    BY DEF ArcServicer
  <2>2. Served("synthesize_narratives")
    BY ArcAlike, ArcCallsGo, FindersAlike, TheBodies, TheRows, ServedWhole, ClientCallsFound,
       RpcsFound, ServicersFound
  <2>3. Served("get_active_arcs")
    BY ArcAlike, ArcCallsGo, FindersAlike, TheBodies, TheRows, ServedWhole, ClientCallsFound,
       RpcsFound, ServicersFound
  <2> QED
    BY <2>1, <2>2, <2>3
<1>5. \A x \in DOMAIN IntentionServicer : Served(x)
  <2>1. DOMAIN IntentionServicer = {"set_intention", "check_intentions", "format_intentions",
          "list_intentions", "delete_intention"}
    BY DEF IntentionServicer
  <2>2. Served("set_intention")
    BY IntentionAlike, IntentionCallsGo, FindersAlike, TheBodies, TheRows, ServedWhole,
       ClientCallsFound, RpcsFound, ServicersFound
  <2>3. Served("check_intentions")
    BY IntentionAlike, IntentionCallsGo, FindersAlike, TheBodies, TheRows, ServedWhole,
       ClientCallsFound, RpcsFound, ServicersFound
  <2>4. Served("format_intentions")
    BY IntentionAlike, IntentionCallsGo, FindersAlike, TheBodies, TheRows, ServedWhole,
       ClientCallsFound, RpcsFound, ServicersFound
  <2>5. Served("list_intentions")
    BY IntentionAlike, IntentionCallsGo, FindersAlike, TheBodies, TheRows, ServedWhole,
       ClientCallsFound, RpcsFound, ServicersFound
  <2>6. Served("delete_intention")
    BY IntentionAlike, IntentionCallsGo, FindersAlike, TheBodies, TheRows, ServedWhole,
       ClientCallsFound, RpcsFound, ServicersFound
  <2> QED
    BY <2>1, <2>2, <2>3, <2>4, <2>5, <2>6
<1>6. \A x \in DOMAIN DynamicsServicer : Served(x)
  <2>1. DOMAIN DynamicsServicer = {"promote_memory", "demote_memory", "get_dynamics",
          "score_memory"}
    BY DEF DynamicsServicer
  <2>2. Served("promote_memory")
    BY DynamicsAlike, DynamicsCallsGo, FindersAlike, TheBodies, TheRows, ServedWhole,
       ClientCallsFound, RpcsFound, ServicersFound
  <2>3. Served("demote_memory")
    BY DynamicsAlike, DynamicsCallsGo, FindersAlike, TheBodies, TheRows, ServedWhole,
       ClientCallsFound, RpcsFound, ServicersFound
  <2>4. Served("get_dynamics")
    BY DynamicsAlike, DynamicsCallsGo, FindersAlike, TheBodies, TheRows, ServedWhole,
       ClientCallsFound, RpcsFound, ServicersFound
  <2>5. Served("score_memory")
    BY DynamicsAlike, DynamicsCallsGo, FindersAlike, TheBodies, TheRows, ServedWhole,
       ClientCallsFound, RpcsFound, ServicersFound
  <2> QED
    BY <2>1, <2>2, <2>3, <2>4, <2>5
<1>7. \A x \in DOMAIN RetrievalServicer : Served(x)
  <2>1. DOMAIN RetrievalServicer = {"assemble_layered_context"}
    BY DEF RetrievalServicer
  <2>2. Served("assemble_layered_context")
    BY RetrievalAlike, RetrievalCallsGo, FindersAlike, TheBodies, TheRows, ServedWhole,
       ClientCallsFound, RpcsFound, ServicersFound
  <2> QED
    BY <2>1, <2>2
<1>8. \A x \in DOMAIN IngestionServicer : Served(x)
  <2>1. DOMAIN IngestionServicer = {"supersede_memory", "get_supersessions"}
    BY DEF IngestionServicer
  <2>2. Served("supersede_memory")
    BY IngestionAlike, RetrievalCallsGo, FindersAlike, TheBodies, TheRows, ServedWhole,
       ClientCallsFound, RpcsFound, ServicersFound
  <2>3. Served("get_supersessions")
    BY IngestionAlike, RetrievalCallsGo, FindersAlike, TheBodies, TheRows, ServedWhole,
       ClientCallsFound, RpcsFound, ServicersFound
  <2> QED
    BY <2>1, <2>2, <2>3
<1>9. \A x \in DOMAIN JobServicer : Served(x)
  <2>1. DOMAIN JobServicer = {"get_job"}
    BY DEF JobServicer
  <2>2. Served("get_job")
    BY JobAlike, ArcCallsGo, FindersAlike, TheBodies, TheRows, ServedWhole, ClientCallsFound,
       RpcsFound, ServicersFound
  <2> QED
    BY <2>1, <2>2
<1> QED
  BY ServicersFound, <1>1, <1>2, <1>3, <1>4, <1>5, <1>6, <1>7, <1>8, <1>9

(* What PalaceGrpcClient calls is served, and the other way round. *)
LEMMA RpcsAreServed == DOMAIN Rpcs = DOMAIN Servicers
<1>1. \A x \in DOMAIN Servicers : x \in DOMAIN Rpcs
  BY AllServed DEF Served, Alike
<1>2. \A x \in DOMAIN Rpcs : x \in DOMAIN Servicers
  <2>1. /\ DOMAIN MemoryRpcs \subseteq DOMAIN MemoryServicer
        /\ DOMAIN SessionRpcs \subseteq DOMAIN SessionServicer
        /\ DOMAIN EpisodeRpcs \subseteq DOMAIN EpisodeServicer
        /\ DOMAIN ArcRpcs \subseteq DOMAIN ArcServicer
        /\ DOMAIN IntentionRpcs \subseteq DOMAIN IntentionServicer
        /\ DOMAIN DynamicsRpcs \subseteq DOMAIN DynamicsServicer
        /\ DOMAIN RetrievalRpcs \subseteq DOMAIN RetrievalServicer
        /\ DOMAIN IngestionRpcs \subseteq DOMAIN IngestionServicer
        /\ DOMAIN JobRpcs \subseteq DOMAIN JobServicer
    BY DEF MemoryRpcs, SessionRpcs, EpisodeRpcs, ArcRpcs, IntentionRpcs, DynamicsRpcs,
           RetrievalRpcs, IngestionRpcs, JobRpcs, MemoryServicer, SessionServicer,
           EpisodeServicer, ArcServicer, IntentionServicer, DynamicsServicer,
           RetrievalServicer, IngestionServicer, JobServicer
  <2> QED
    BY <2>1, RpcsFound, ServicersFound DEF Within
<1> QED
  BY <1>1, <1>2

(* A call of the model is of an operation, and of an argument that it has. *)
LEMMA CallsAreTyped ==
  ASSUME NEW c \in SurfaceCalls
  PROVE  /\ c.op \in Operations /\ c.key \subseteq AllScopes
         /\ \/ c.param = "none" /\ c.value = Omitted
            \/ /\ c.op \in DOMAIN Servicers /\ c.param \in DOMAIN Servicers[c.op].makes
               /\ c.value \in Values(c.param)
<1>1. CASE c \in PlainCalls
  BY <1>1 DEF PlainCalls
<1>2. CASE c \in ArgumentCalls
  <2>1. PICK op \in DOMAIN Servicers :
          c \in UNION {[op : {op}, param : {p}, value : Values(p), key : {{"read", "write"}},
                        there : {TRUE}] : p \in DOMAIN Servicers[op].makes}
    BY <1>2 DEF ArgumentCalls
  <2>2. PICK p \in DOMAIN Servicers[op].makes :
          c \in [op : {op}, param : {p}, value : Values(p), key : {{"read", "write"}},
                 there : {TRUE}]
    BY <2>1
  <2>3. c.op = op /\ c.param = p /\ c.value \in Values(p) /\ c.key = {"read", "write"}
    BY <2>2
  <2>4. op \in Operations
    BY AllServed DEF Served
  <2> QED
    BY <2>3, <2>4 DEF AllScopes
<1> QED
  BY <1>1, <1>2 DEF SurfaceCalls

(* What a call requires and where it ends up. *)
LEMMA ScopesOfCalls ==
  ASSUME NEW op \in Operations
  PROVE  /\ RowIsGuarded([handler |-> op, verb |-> Sent[op].verb, path |-> Sent[op].path])
         /\ RequiredScope(Sent[op].verb, Sent[op].path) = ScopeOf(Sent[op].verb, Sent[op].path)
         /\ Routed(Sent[op].verb, Sent[op].path).handler = op
<1>1. PICK r \in RouteRows : Goes(Sent, op, r)
  BY CallsAreRouted
<1>2. Sent[op].verb = r.verb /\ Sent[op].path = r.path /\ r.handler = op
  BY <1>1 DEF Goes
<1>3. Routed(r.verb, r.path) = r
  BY Reached
<1>4. r.path \in Seq(Listed(r.path)) \ {<<>>}
  BY RowsArePlain, PathsAreSequences DEF PathIsPlain
<1> QED
  BY <1>2, <1>3, <1>4, RowsAreGuarded, ScopeInClosedForm DEF RowIsGuarded

-----------------------------------------------------------------------------
(* What becomes of the call at either door, once it is there. *)
HttpMay ==
  \/ Sent[call.op].path \in PublicPaths
  \/ RequiredScope(Sent[call.op].verb, Sent[call.op].path) \in call.key
HttpAnswer ==
  Outcome(Routed(Sent[call.op].verb, Sent[call.op].path).handler,
          Routed(Sent[call.op].verb, Sent[call.op].path).finds, HttpArgument)
RpcMay == RpcScope(Rpcs[call.op].method) \in call.key
RpcAnswer == Outcome(call.op, Servicers[call.op].finds, RpcArgument)

(* How far a door may have come. *)
Stage(door, may, answer) ==
  \/ door \in {Unopened, Waiting}
  \/ may /\ door \in {Granted, answer}
  \/ ~may /\ door = Denied

(* The inductive invariant: each door has come some way towards the answer  *)
(* that the call alone determines.                                          *)
Staged ==
  \/ call = NoCall /\ http = Unopened /\ rpc = Unopened
  \/ /\ call \in SurfaceCalls
     /\ Stage(http, HttpMay, HttpAnswer)
     /\ Stage(rpc, RpcMay, RpcAnswer)
     /\ rpc # Unopened => call.op \in DOMAIN Rpcs

(* An outcome is an answer, and not that the key does not suffice. *)
LEMMA OutcomeIsAnAnswer ==
  ASSUME NEW op, NEW finds, NEW argument
  PROVE  \E kind \in Kinds \ {"none", "forbidden"} : \E arg :
           Outcome(op, finds, argument) = Answered(kind, op, arg)
  BY DEF Outcome, Kinds

LEMMA AnswersAreAnswers ==
  /\ \E kind \in Kinds \ {"none", "forbidden"} : \E op, arg : HttpAnswer = Answered(kind, op,
                          arg)
  /\ \E kind \in Kinds \ {"none", "forbidden"} : \E op, arg : RpcAnswer = Answered(kind, op,
                          arg)
  BY OutcomeIsAnAnswer DEF HttpAnswer, RpcAnswer

(* The stages can be told apart. *)
LEMMA StagesDiffer ==
  /\ HttpAnswer.at = "answered" /\ RpcAnswer.at = "answered"
  /\ Denied.at = "answered" /\ Unopened.at = "absent" /\ Waiting.at = "sent"
  /\ Granted.at = "granted"
  BY AnswersAreAnswers DEF Answered, Denied, Unopened, Waiting, Granted

(* Each door takes its own next step, and the other stays as it was. *)
LEMMA StagedStep == Staged /\ [SurfaceNext]_surfaceVars => Staged'
<1> SUFFICES ASSUME Staged, [SurfaceNext]_surfaceVars PROVE Staged'
  OBVIOUS
<1>1. ASSUME NEW c \in SurfaceCalls, Call(c) PROVE Staged'
  BY <1>1 DEF Call, Staged, Stage
<1>2. ASSUME UNCHANGED call
      PROVE  HttpMay' = HttpMay /\ HttpAnswer' = HttpAnswer /\ RpcMay' = RpcMay
               /\ RpcAnswer' = RpcAnswer
  BY <1>2 DEF HttpMay, HttpAnswer, RpcMay, RpcAnswer, Outcome, HttpArgument, RpcArgument, Given
<1>3. ASSUME Admit PROVE Staged'
  <2>1. http.at = "sent" /\ call \in SurfaceCalls /\ UNCHANGED <<call, rpc>>
    BY <1>3, StagesDiffer DEF Admit, Staged
  <2>2. http' = IF HttpMay THEN Granted ELSE Denied
    BY <1>3 DEF Admit, HttpMay
  <2> QED
    BY <1>2, <2>1, <2>2, StagesDiffer DEF Staged, Stage
<1>4. ASSUME Handle PROVE Staged'
  <2>1. http = Granted /\ HttpMay /\ call \in SurfaceCalls /\ UNCHANGED <<call, rpc>>
    BY <1>4, StagesDiffer DEF Handle, Staged, Stage
  <2>2. http' = HttpAnswer
    BY <1>4 DEF Handle, HttpAnswer
  <2> QED
    BY <1>2, <2>1, <2>2, StagesDiffer DEF Staged, Stage
<1>5. ASSUME Intercept PROVE Staged'
  <2>1. rpc = Waiting /\ call \in SurfaceCalls /\ call.op \in DOMAIN Rpcs
          /\ UNCHANGED <<call, http>>
    BY <1>5, StagesDiffer DEF Intercept, Staged, Stage
  <2>2. rpc' = IF RpcMay THEN Granted ELSE Denied
    BY <1>5 DEF Intercept, RpcMay
  <2> QED
    BY <1>2, <2>1, <2>2, StagesDiffer DEF Staged, Stage
<1>6. ASSUME HandleRpc PROVE Staged'
  <2>1. rpc = Granted /\ RpcMay /\ call \in SurfaceCalls /\ call.op \in DOMAIN Rpcs
          /\ UNCHANGED <<call, http>>
    BY <1>6, StagesDiffer DEF HandleRpc, Staged, Stage
  <2>2. rpc' = RpcAnswer
    BY <1>6 DEF HandleRpc, RpcAnswer
  <2> QED
    BY <1>2, <2>1, <2>2, StagesDiffer DEF Staged, Stage
<1>7. CASE UNCHANGED surfaceVars
  BY <1>2, <1>7 DEF surfaceVars, Staged, Stage
<1> QED
  BY <1>1, <1>3, <1>4, <1>5, <1>6, <1>7 DEF SurfaceNext

(* So the doors are always on their way. *)
LEMMA StagedAlways == SurfaceSpec => []Staged
<1>1. SurfaceInit => Staged
  BY DEF SurfaceInit, Staged
<1> QED
  BY <1>1, StagedStep, PTL DEF SurfaceSpec

(* No RPC runs the service. *)
LEMMA NoRpcAdministers == DOMAIN Servicers \cap Administers = {}
<1>1. /\ DOMAIN MemoryServicer \cap Administers = {}
      /\ DOMAIN SessionServicer \cap Administers = {}
      /\ DOMAIN EpisodeServicer \cap Administers = {}
      /\ DOMAIN ArcServicer \cap Administers = {}
      /\ DOMAIN IntentionServicer \cap Administers = {}
      /\ DOMAIN DynamicsServicer \cap Administers = {}
      /\ DOMAIN RetrievalServicer \cap Administers = {}
      /\ DOMAIN IngestionServicer \cap Administers = {}
      /\ DOMAIN JobServicer \cap Administers = {}
  BY DEF MemoryServicer, SessionServicer, EpisodeServicer, ArcServicer, IntentionServicer,
         DynamicsServicer, RetrievalServicer, IngestionServicer, JobServicer, Administers
<1> QED
  BY <1>1, ServicersFound

(* Every RPC requires write, since the stubs' package is not the one that   *)
(* RPC_SCOPE names.                                                         *)
LEMMA RpcsNeedWrite == \A method : RpcScope(method) = "write"
<1>1. "mypalace.v1" # "palace.v1"
  OBVIOUS
<1> QED
  BY <1>1 DEF RpcScope, StubPath

(* The answers are those of the handler that the call is meant for. *)
LEMMA AnswersAreToTheCall ==
  ASSUME call \in SurfaceCalls
  PROVE  /\ \E kind \in Kinds \ {"none", "forbidden"} : \E arg : HttpAnswer = Answered(kind,
                                 call.op, arg)
         /\ \E kind \in Kinds \ {"none", "forbidden"} : \E arg : RpcAnswer = Answered(kind,
                                 call.op, arg)
<1>1. Routed(Sent[call.op].verb, Sent[call.op].path).handler = call.op
  BY CallsAreTyped, ScopesOfCalls
<1> QED
  BY <1>1, OutcomeIsAnAnswer DEF HttpAnswer, RpcAnswer

(* Of three facts that the invariant gives the first: every variable is in  *)
(* its range.                                                               *)
LEMMA StagedType == Staged => SurfaceTypeOK
<1> SUFFICES ASSUME Staged PROVE SurfaceTypeOK
  OBVIOUS
<1>1. CASE call = NoCall /\ http = Unopened /\ rpc = Unopened
  BY <1>1, CallsAreTyped DEF Staged, NoCall, SurfaceTypeOK, Unopened, Unanswered, Kinds
<1>2. CASE call \in SurfaceCalls
  <2>1. call.op \in Operations /\ call.key \subseteq AllScopes
    BY <1>2, CallsAreTyped
  <2>2. ASSUME NEW door \in {Unopened, Waiting, Granted, Denied, HttpAnswer, RpcAnswer}
        PROVE  /\ door.at \in {"absent", "sent", "granted", "answered"}
               /\ door.answer.kind \in Kinds
               /\ door.answer.op \in Operations \cup {"none"}
    BY <1>2, <2>1, AnswersAreToTheCall
       DEF Unopened, Waiting, Granted, Denied, Answered, Unanswered, Kinds
  <2>3. {http, rpc} \subseteq {Unopened, Waiting, Granted, Denied, HttpAnswer, RpcAnswer}
    BY DEF Staged, Stage
  <2> QED
    BY <2>1, <2>2, <2>3 DEF SurfaceTypeOK
<1> QED
  BY <1>1, <1>2 DEF Staged

(* The second: a key does no more than its scopes allow. *)
LEMMA StagedKeys == Staged => KeysHold
<1> SUFFICES ASSUME Staged PROVE KeysHold
  OBVIOUS
<1>1. CASE call = NoCall /\ http = Unopened /\ rpc = Unopened
  BY <1>1 DEF KeysHold, Unopened, Unanswered
<1>2. CASE call \in SurfaceCalls
  <2>1. call.op \in Operations
    BY <1>2, CallsAreTyped
  <2>2. /\ HttpMay /\ call.op \in Administers => "admin" \in call.key
        /\ HttpMay /\ call.op \in Changes => "write" \in call.key
        /\ ~HttpMay /\ "read" \in call.key => call.op \notin Reads
    BY <2>1, ScopesOfCalls DEF HttpMay, RowIsGuarded
  <2>3. RpcMay => "write" \in call.key
    BY RpcsNeedWrite DEF RpcMay
  <2>4. rpc # Unopened => call.op \notin Administers
    BY RpcsAreServed, NoRpcAdministers, <1>2, StagesDiffer DEF Staged, NoCall
  <2>5. /\ http.at = "answered" => (http = HttpAnswer /\ HttpMay) \/ (http = Denied /\ ~HttpMay)
        /\ rpc.at = "answered" => (rpc = RpcAnswer /\ RpcMay) \/ (rpc = Denied /\ ~RpcMay)
    BY <1>2, StagesDiffer DEF Staged, Stage
  <2>6. PICK kind1 \in Kinds \ {"none", "forbidden"} :
          \E a : HttpAnswer = Answered(kind1, call.op, a)
    BY <1>2, AnswersAreToTheCall
  <2>7. PICK kind2 \in Kinds \ {"none", "forbidden"} :
          \E a : RpcAnswer = Answered(kind2, call.op, a)
    BY <1>2, AnswersAreToTheCall
  <2>8. /\ HttpAnswer.answer.op = call.op /\ RpcAnswer.answer.op = call.op
        /\ HttpAnswer.answer.kind # "forbidden"
        /\ Denied.answer.op = "none" /\ Denied.answer.kind = "forbidden"
    BY <2>6, <2>7 DEF Answered, Denied
  <2>9. http.answer.kind = "forbidden" => ~HttpMay
    BY <1>2, <2>8 DEF Staged, Stage, Unopened, Waiting, Granted, Unanswered
  <2> QED
    BY <2>2, <2>3, <2>4, <2>5, <2>8, <2>9, StagesDiffer DEF KeysHold
<1> QED
  BY <1>1, <1>2 DEF Staged

(* The service is given the same argument at both doors, unless proto3 lost *)
(* it or a list was cut.                                                    *)
LEMMA ArgumentsAgree ==
  ASSUME call \in SurfaceCalls, call.op \in DOMAIN Servicers, ~Lossy
  PROVE  HttpArgument = RpcArgument
<1> DEFINE op == call.op
           p == call.param
           body == Body(op)
<1>1. \A q \in (DOMAIN Servicers[op].makes \ Required) \cup {"none"} :
        /\ OverHttp(Sent[op].defaults, body, q)
             = OverRpc(Rpcs[op].defaults, Servicers[op].makes, q)
        /\ Default(Sent[op].defaults, q) # "large"
  BY AllServed DEF Served, Alike
<1>2. CASE call.value = Omitted
  <2>1. p \in (DOMAIN Servicers[op].makes \ Required) \cup {"none"}
    BY <1>2, CallsAreTyped DEF Values, Omitted, Falsy
  <2>2. HttpArgument = OverHttp(Sent[op].defaults, body, p)
    BY <1>1, <1>2, <2>1 DEF HttpArgument, Given, OverHttp, Body
  <2>3. RpcArgument = OverRpc(Rpcs[op].defaults, Servicers[op].makes, p)
    BY <1>2 DEF RpcArgument, Given, OverRpc
  <2> QED
    BY <1>1, <2>1, <2>2, <2>3
<1>3. CASE call.value = Falsy
  <2>1. p \in DOMAIN Servicers[op].makes
    BY <1>3, CallsAreTyped DEF Omitted, Falsy
  <2>2. Servicers[op].makes[p] = Falsy
    BY <1>3 DEF Lossy
  <2> QED
    BY <1>3, <2>1, <2>2 DEF HttpArgument, RpcArgument, Given, Default, Omitted, Falsy
<1>4. CASE call.value \notin {Omitted, Falsy}
  BY <1>4 DEF HttpArgument, RpcArgument, Given, Lossy
<1> QED
  BY <1>2, <1>3, <1>4

(* The third: the doors agree. *)
LEMMA StagedDoors == Staged => DoorsAgree
<1> SUFFICES ASSUME Staged, http.at = "answered", rpc.at = "answered",
                    {"read", "write"} \subseteq call.key, ~Lossy
             PROVE  http.answer = rpc.answer
  BY DEF DoorsAgree
<1>1. call \in SurfaceCalls /\ call.op \in DOMAIN Servicers /\ call.op \in Operations
  BY StagesDiffer, RpcsAreServed, CallsAreTyped DEF Staged
<1>2. RpcMay
  BY RpcsNeedWrite DEF RpcMay
<1>3. HttpMay
  BY <1>1, NoRpcAdministers, ScopesOfCalls DEF HttpMay, RowIsGuarded, Reads
<1>4. http = HttpAnswer /\ rpc = RpcAnswer
  BY <1>1, <1>2, <1>3, StagesDiffer DEF Staged, Stage
<1>5. PICK r \in RouteRows : Goes(Sent, call.op, r) /\ r.finds = Servicers[call.op].finds
  BY <1>1, AllServed DEF Served
<1>6. Routed(Sent[call.op].verb, Sent[call.op].path) = r /\ r.handler = call.op
  BY <1>5, Reached DEF Goes
<1>7. HttpArgument = RpcArgument
  BY <1>1, ArgumentsAgree
<1> QED
  BY <1>4, <1>5, <1>6, <1>7 DEF HttpAnswer, RpcAnswer

-----------------------------------------------------------------------------
(* A request for the path of a call, whoever makes it, reaches the handler   *)
(* the call is for: no route of the application shadows another, and the     *)
(* clients spell the paths as the routes do.                                 *)
THEOREM CallsReachTheirHandlers ==
  \A op \in Operations \cup DOMAIN ClientCalls :
    Routed(Sent[op].verb, Sent[op].path).handler = op
<1> TAKE op \in Operations \cup DOMAIN ClientCalls
<1>1. PICK r \in RouteRows : Goes(Sent, op, r)
  BY CallsAreRouted
<1>2. Routed(r.verb, r.path) = r
  BY Reached
<1> QED
  BY <1>1, <1>2 DEF Goes

(* required_scope, for every verb and every path, not only the ones that     *)
(* exist: what is under /admin or /maintenance requires admin, whatever the  *)
(* verb; reading, and the POSTs that only look something up, require read;   *)
(* all else requires write.                                                  *)
THEOREM ScopesFollowThePath ==
  \A Segments : \A verb, path : path \in Seq(Segments) \ {<<>>} =>
    /\ RequiredScope(verb, path) = "admin" <=> path[1] \in {"admin", "maintenance"}
    /\ RequiredScope(verb, path) = "read" <=>
         /\ path[1] \notin {"admin", "maintenance"}
         /\ verb = "GET" \/ (verb = "POST" /\ (path \in Reading \/ path[1] = "context"))
    /\ RequiredScope(verb, path) \in AllScopes
<1> TAKE Segments
<1> TAKE verb, path
<1> HAVE path \in Seq(Segments) \ {<<>>}
<1>1. RequiredScope(verb, path) = ScopeOf(verb, path)
  BY ScopeInClosedForm
<1> QED
  BY <1>1 DEF ScopeOf, AllScopes

(* Every variable of the doors stays within its range. *)
THEOREM SurfaceTypeAlways == SurfaceSpec => []SurfaceTypeOK
  BY StagedAlways, StagedType, PTL

(* A key does what its scopes allow and no more, at either door, and a       *)
(* caller with both scopes is answered the same at both (AuthMiddleware, the *)
(* routes, AuthInterceptor, the servicers and both clients).                 *)
THEOREM DoorsHoldAlways == SurfaceSpec => []DoorsHold
<1>1. Staged => DoorsHold
  BY StagedKeys, StagedDoors DEF DoorsHold
<1> QED
  BY <1>1, StagedAlways, PTL
=============================================================================
