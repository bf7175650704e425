------------------------------- MODULE Aliases -------------------------------
(***************************************************************************)
(* The names of a tenant's people and platforms (mypalace/                 *)
(* entity_service.py): rows of entity_aliases, and in each API process a   *)
(* map of all of them, read on the first lookup.  A request lets others in *)
(* at every await; it changes the map of its own process only.             *)
(***************************************************************************)
EXTENDS Integers, FiniteSets

CONSTANTS
  Hosts,        \* API processes
  Lookups,      \* requests that may be in progress at the same time
  Identifiers,  \* what a name can be registered for
  Names,        \* canonical names
  NoName        \* no row; no map

ASSUME AliasesAssumption ==
  NoName \notin Names \cup Identifiers

VARIABLES
  aliases,  \* the table
  slot,     \* _cache[tenant] of a process; NoName: nothing loaded
  asked,    \* what each request is at, where, and about what
  excuse    \* auxiliary: why the map of a process may be wrong

aliasVars == <<aliases, slot, asked, excuse>>

NoRequest == [step |-> "none", host |-> NoName, id |-> NoName, name |-> NoName,
              seen |-> NoName]
NoRows == [i \in Identifiers |-> NoName]

AliasesInit ==
  /\ aliases = NoRows
  /\ slot = [p \in Hosts |-> NoName]
  /\ asked = [q \in Lookups |-> NoRequest]
  /\ excuse = [p \in Hosts |-> {}]

Free(q) == asked[q].step = "none"
Finish(q) == asked' = [asked EXCEPT ![q] = NoRequest]
Await(q, step, p, i, n, seen) ==
  asked' = [asked EXCEPT ![q] = [step |-> step, host |-> p, id |-> i, name |-> n, seen |-> seen]]

Busy(p) == {q \in Lookups : asked[q].step # "none" /\ asked[q].host = p}

-----------------------------------------------------------------------------
(* resolve: where there is a map, it is answered from it at once: the       *)
(* identifier's own name, or else that of its bare form.                    *)
Resolve(q, p, i) ==
  /\ Free(q) /\ slot[p] = NoName
  /\ Await(q, "loading", p, i, NoName, NoName)
  /\ UNCHANGED <<aliases, slot, excuse>>

(* _load_tenant: the rows are read in one step and put in place in another. *)
LoadTenant(q) ==
  LET a == asked[q] IN
  /\ a.step = "loading"
  /\ Await(q, "loaded", a.host, a.id, NoName, aliases)
  /\ UNCHANGED <<aliases, slot, excuse>>

Loaded(q) ==
  LET a == asked[q] IN
  /\ a.step = "loaded"
  /\ slot' = [slot EXCEPT ![a.host] = a.seen]
  /\ Finish(q)
  /\ UNCHANGED <<aliases, excuse>>

(* A write by q in p: other requests of p that are under way, and maps      *)
(* elsewhere, miss it.                                                      *)
Missed(q, p) ==
  excuse' = [o \in Hosts |->
    IF o = p THEN IF Busy(p) \ {q} # {} THEN excuse[p] \cup {"overlap"} ELSE excuse[p]
    ELSE IF slot[o] # NoName \/ Busy(o) # {} THEN excuse[o] \cup {"elsewhere"} ELSE excuse[o]]

(* register: the upsert is committed... *)
Register(q, p, i, n) ==
  /\ Free(q)
  /\ aliases' = [aliases EXCEPT ![i] = n]
  /\ Await(q, "registered", p, i, n, NoName)
  /\ Missed(q, p)
  /\ UNCHANGED slot

(* ... and then entered in the map, which is made if there is none, with    *)
(* this one name in it.                                                     *)
Registered(q) ==
  LET a == asked[q]
      p == a.host
  IN
  /\ a.step = "registered"
  /\ slot' = [slot EXCEPT ![p] =
                [(IF slot[p] = NoName THEN NoRows ELSE slot[p]) EXCEPT ![a.id] = a.name]]
  /\ excuse' = IF slot[p] = NoName THEN [excuse EXCEPT ![p] = @ \cup {"partial"}] ELSE excuse
  /\ Finish(q)
  /\ UNCHANGED aliases

(* delete_alias of api/entities.py, in one transaction... *)
DeleteAlias(q, p, i) ==
  /\ Free(q)
  /\ aliases[i] # NoName
  /\ aliases' = [aliases EXCEPT ![i] = NoName]
  /\ Await(q, "deleted", p, i, NoName, NoName)
  /\ Missed(q, p)
  /\ UNCHANGED slot

(* A slip: the map is left as it is. *)
InvalidateNothing(q) ==
  /\ asked[q].step = "deleted"
  /\ Finish(q)
  /\ UNCHANGED <<aliases, slot, excuse>>

(* ... and invalidate_cache, in this process. *)
Invalidate(q) ==
  LET p == asked[q].host IN
  /\ asked[q].step = "deleted"
  /\ slot' = [slot EXCEPT ![p] = NoName]
  /\ excuse' = IF Busy(p) = {q} THEN [excuse EXCEPT ![p] = {}] ELSE excuse
  /\ Finish(q)
  /\ UNCHANGED aliases

RestartHost(p) ==
  /\ slot[p] # NoName \/ Busy(p) # {}
  /\ slot' = [slot EXCEPT ![p] = NoName]
  /\ excuse' = [excuse EXCEPT ![p] = {}]
  /\ asked' = [q \in Lookups |-> IF q \in Busy(p) THEN NoRequest ELSE asked[q]]
  /\ UNCHANGED aliases

AliasesNext ==
  \/ \E q \in Lookups :
       \/ LoadTenant(q) \/ Loaded(q) \/ Registered(q) \/ Invalidate(q)
       \/ \E p \in Hosts, i \in Identifiers :
            \/ Resolve(q, p, i) \/ DeleteAlias(q, p, i)
            \/ \E n \in Names : Register(q, p, i, n)
  \/ \E p \in Hosts : RestartHost(p)

AliasesSpec == AliasesInit /\ [][AliasesNext]_aliasVars

-----------------------------------------------------------------------------
(* Every variable stays within its range. *)
Maps == [Identifiers -> Names \cup {NoName}]

AliasesTypeOK ==
  /\ aliases \in Maps
  /\ slot \in [Hosts -> Maps \cup {NoName}]
  /\ asked \in [Lookups -> [step : {"none", "loading", "loaded", "registered", "deleted"},
                            host : Hosts \cup {NoName}, id : Identifiers \cup {NoName},
                            name : Names \cup {NoName}, seen : Maps \cup {NoName}]]
  /\ excuse \in [Hosts -> SUBSET {"partial", "overlap", "elsewhere"}]

(* Between requests the map of a process is the table, as long as it was    *)
(* loaded before anything was registered through it, no other process       *)
(* wrote, and no write overlapped another request of the process.           *)
MapsAgree ==
  \A p \in Hosts :
    slot[p] # NoName /\ Busy(p) = {} /\ excuse[p] = {} => slot[p] = aliases
=============================================================================
