------------------------------- MODULE Surface -------------------------------
(***************************************************************************)
(* The two doors of the service: HTTP, used by PalaceClient, the admin     *)
(* command line and anyone else, and gRPC, used by PalaceGrpcClient.  One  *)
(* call is made through both, each at its own pace, and the model follows  *)
(* what becomes of it: the request the client makes of it, the scope its   *)
(* path or RPC requires (auth/scopes.py, grpc/auth_interceptor.py), the    *)
(* handler it reaches and the argument the service is given.               *)
(*                                                                         *)
(* A call is named after the client's method, a handler after the call it  *)
(* is for.  Of a call's arguments one is of interest; the others are as    *)
(* usual.  Paths are written without /v1, which all but the public ones    *)
(* start with, and id stands for any value of a path parameter.            *)
(***************************************************************************)
EXTENDS Naturals, Sequences

VARIABLES
  call,  \* the call that is made
  http,  \* what becomes of it over HTTP
  rpc    \* what becomes of it over gRPC

surfaceVars == <<call, http, rpc>>

Omitted == "omitted"  \* not given; None
Falsy == "falsy"      \* 0, 0.0, FALSE, "" and {}: proto3 cannot tell it from Omitted
Bare == <<>>          \* no defaults

(* Tables of which each has names of its own, as one table. *)
Joined(tables) ==
  [name \in UNION {DOMAIN t : t \in tables} |->
     (CHOOSE t \in tables : name \in DOMAIN t)[name]]

(* The first row of a table that fits. *)
FirstFit(table, Fit(_)) ==
  table[CHOOSE n \in DOMAIN table : Fit(table[n]) /\ \A m \in 1 .. n - 1 : ~Fit(table[m])]

Default(table, param) == IF param \in DOMAIN table THEN table[param] ELSE Omitted

-----------------------------------------------------------------------------
(* PalaceClient: the request of each method, and the defaults of its        *)
(* signature.  What defaults to None is left out of the request.            *)

Send(verb, path, defaults) == [verb |-> verb, path |-> path, defaults |-> defaults]

MemoryCalls ==
  [add |-> Send("POST", <<"memories", "batch">>, Bare),
   create |-> Send("POST", <<"memories">>, [memory_type |-> "semantic", importance |-> "1.0"]),
   search |-> Send("POST", <<"memories", "search">>, [limit |-> "10", min_score |-> Falsy]),
   get |-> Send("GET", <<"memories", "id">>, Bare),
   update |-> Send("PATCH", <<"memories", "id">>, Bare),
   delete |-> Send("DELETE", <<"memories", "id">>, Bare),
   get_all |-> Send("POST", <<"memories", "list">>, [limit |-> "50", offset |-> Falsy]),
   delete_all |-> Send("DELETE", <<"users", "id", "memories">>, Bare),
   list_for_user |-> Send("GET", <<"users", "id", "memories">>, Bare)]

SessionCalls ==
  [create_session |-> Send("POST", <<"sessions">>, Bare),
   get_session |-> Send("GET", <<"sessions", "id">>, Bare),
   add_message |-> Send("POST", <<"sessions", "id", "messages">>, Bare),
   update_session |-> Send("PATCH", <<"sessions", "id">>, Bare),
   delete_session |-> Send("DELETE", <<"sessions", "id">>, Bare),
   assemble_context |-> Send("POST", <<"context">>, Bare)]

EpisodeCalls ==
  [reflect_session |-> Send("POST", <<"reflection", "session">>, [mode |-> "async"]),
   search_episodes |->
     Send("POST", <<"episodes", "search">>, [limit |-> "5", min_significance |-> Falsy]),
   get_recent_episodes |-> Send("GET", <<"users", "id", "episodes", "recent">>, [limit |-> "5"])]

FeelingCalls ==
  [record_emotional_context |-> Send("POST", <<"emotional", "record">>, Bare),
   get_emotional_context |-> Send("GET", <<"users", "id", "emotional-context">>, Bare),
   extract_topics |-> Send("POST", <<"topics", "extract">>, Bare),
   get_topic_recurrence |-> Send("GET", <<"users", "id", "topic-recurrence">>, Bare)]

ArcCalls ==
  [synthesize_narratives |-> Send("POST", <<"synthesis", "narratives">>,
                                  [lookback_episodes |-> "20", mode |-> "async"]),
   get_active_arcs |-> Send("GET", <<"users", "id", "arcs", "active">>, [limit |-> "10"]),
   get_job |-> Send("GET", <<"jobs", "id">>, Bare)]

DynamicsCalls ==
  [promote_memory |-> Send("POST", <<"memories", "id", "promote">>,
                           [grade |-> "3", signal_type |-> "used_in_response"]),
   demote_memory |-> Send("POST", <<"memories", "id", "demote">>, [reason |-> "user_correction"]),
   get_dynamics |-> Send("GET", <<"memories", "id", "dynamics">>, Bare),
   score_memory |-> Send("POST", <<"memories", "id", "score">>, Bare),
   prune_access_logs |-> Send("POST", <<"maintenance", "prune-access-logs">>, Bare)]

IntentionCalls ==
  [set_intention |-> Send("POST", <<"intentions">>, [priority |-> Falsy, fire_once |-> "true"]),
   check_intentions |-> Send("POST", <<"intentions", "check">>, Bare),
   format_intentions |-> Send("POST", <<"intentions", "format">>, [max |-> "3"]),
   list_intentions |-> Send("GET", <<"users", "id", "intentions">>,
                            [fired |-> "all", limit |-> "50"]),
   delete_intention |-> Send("DELETE", <<"intentions", "id">>, Bare),
   cleanup_expired_intentions |-> Send("POST", <<"maintenance", "cleanup-intentions">>, Bare)]

RetrievalCalls ==
  [assemble_layered_context |-> Send("POST", <<"context", "layered">>,
     [max_l1_chars |-> "3200", max_l2_chars |-> "12000", max_recent_messages |-> "20",
      use_fsrs |-> "true", memory_limit |-> "10", episode_limit |-> "5",
      min_episode_significance |-> "0.3", include_graph |-> Falsy, graph_depth |-> "1",
      graph_max_neighbors |-> "50"]),
   supersede_memory |-> Send("POST", <<"memories", "id", "supersede">>,
                             [reason |-> "manual_correction"]),
   get_supersessions |-> Send("GET", <<"memories", "id", "supersedes">>, Bare),
   health |-> Send("GET", <<"health">>, Bare)]

(* mypalace-admin; its "job" is the client's get_job. *)
AdminCalls ==
  [deep_health |-> Send("GET", <<"health", "deep">>, Bare),
   keys_list |-> Send("GET", <<"admin", "keys">>, Bare),
   keys_mint |-> Send("POST", <<"admin", "keys">>, Bare),
   keys_revoke |-> Send("DELETE", <<"admin", "keys", "id">>, Bare),
   tenants_list |-> Send("GET", <<"admin", "tenants">>, Bare),
   tenants_create |-> Send("POST", <<"admin", "tenants">>, Bare),
   stats |-> Send("GET", <<"admin", "stats">>, Bare),
   audit |-> Send("GET", <<"admin", "audit">>, Bare),
   reembed |-> Send("POST", <<"admin", "reembed">>, Bare),
   export |-> Send("GET", <<"admin", "export">>, Bare)]

ClientCalls ==
  Joined({MemoryCalls, SessionCalls, EpisodeCalls, FeelingCalls, ArcCalls,
          DynamicsCalls, IntentionCalls, RetrievalCalls, AdminCalls})

-----------------------------------------------------------------------------
(* The routes, in the order the application includes their routers.  The    *)
(* handlers behind Find answer 404 when what they are asked for is not      *)
(* there; "id" in a route is a parameter, and matches any segment.          *)

Route(verb, path, handler) ==
  [verb |-> verb, path |-> path, handler |-> handler, finds |-> FALSE]
Find(verb, path, handler) ==
  [verb |-> verb, path |-> path, handler |-> handler, finds |-> TRUE]

KeyRoutes ==
  << Route("POST", <<"admin", "keys">>, "keys_mint"), Route("GET", <<"admin", "keys">>, "keys_list"),
     Find("DELETE", <<"admin", "keys", "id">>, "keys_revoke") >>
TenantRoutes ==
  << Route("POST", <<"admin", "tenants">>, "tenants_create"),
     Route("GET", <<"admin", "tenants">>, "tenants_list"),
     Find("DELETE", <<"admin", "tenants", "id">>, "delete_tenant") >>
DataRoutes ==
  << Route("GET", <<"admin", "stats">>, "stats"), Route("GET", <<"admin", "export">>, "export"),
     Route("POST", <<"admin", "import">>, "import_data"),
     Route("POST", <<"admin", "reembed">>, "reembed"), Route("GET", <<"admin", "audit">>, "audit") >>
AliasRoutes ==
  << Route("POST", <<"admin", "entities", "aliases">>, "register_alias"),
     Route("GET", <<"admin", "entities", "aliases">>, "list_aliases"),
     Route("GET", <<"admin", "entities", "resolve">>, "resolve_identifier"),
     Find("DELETE", <<"admin", "entities", "aliases", "id">>, "delete_alias") >>
TraitRoutes ==
  << Route("GET", <<"admin", "personality", "traits">>, "list_traits"),
     Route("POST", <<"admin", "personality", "traits">>, "create_trait"),
     Find("PATCH", <<"admin", "personality", "traits", "id">>, "update_trait"),
     Find("DELETE", <<"admin", "personality", "traits", "id">>, "delete_trait") >>
MemoryRoutes ==
  << Route("POST", <<"memories">>, "create"), Route("POST", <<"memories", "batch">>, "add"),
     Route("POST", <<"memories", "list">>, "get_all"),
     Route("POST", <<"memories", "search">>, "search"), Find("GET", <<"memories", "id">>, "get"),
     Find("PATCH", <<"memories", "id">>, "update"), Find("DELETE", <<"memories", "id">>, "delete"),
     Find("POST", <<"memories", "id", "supersede">>, "supersede_memory"),
     Route("GET", <<"memories", "id", "supersedes">>, "get_supersessions"),
     Route("GET", <<"memories", "id", "history">>, "get_memory_history"),
     Route("GET", <<"users", "id", "memories">>, "list_for_user"),
     Route("DELETE", <<"users", "id", "memories">>, "delete_all") >>
SessionRoutes ==
  << Route("POST", <<"sessions">>, "create_session"), Find("GET", <<"sessions", "id">>, "get_session"),
     Route("POST", <<"sessions", "id", "messages">>, "add_message"),
     Find("PATCH", <<"sessions", "id">>, "update_session"),
     Find("DELETE", <<"sessions", "id">>, "delete_session"),
     Route("POST", <<"context">>, "assemble_context") >>
EpisodeRoutes ==
  << Route("POST", <<"episodes", "search">>, "search_episodes"),
     Route("POST", <<"reflection", "session">>, "reflect_session"),
     Route("GET", <<"users", "id", "episodes", "recent">>, "get_recent_episodes") >>
ArcRoutes ==
  << Route("POST", <<"synthesis", "narratives">>, "synthesize_narratives"),
     Route("GET", <<"users", "id", "arcs", "active">>, "get_active_arcs"),
     Find("GET", <<"jobs", "id">>, "get_job") >>
DynamicsRoutes ==
  << Route("POST", <<"memories", "id", "promote">>, "promote_memory"),
     Route("POST", <<"memories", "id", "demote">>, "demote_memory"),
     Find("GET", <<"memories", "id", "dynamics">>, "get_dynamics"),
     Route("POST", <<"memories", "id", "score">>, "score_memory") >>
IntentionRoutes ==
  << Route("POST", <<"intentions">>, "set_intention"),
     Route("POST", <<"intentions", "check">>, "check_intentions"),
     Route("POST", <<"intentions", "format">>, "format_intentions"),
     Find("DELETE", <<"intentions", "id">>, "delete_intention"),
     Route("GET", <<"users", "id", "intentions">>, "list_intentions") >>
OtherRoutes ==
  << Route("POST", <<"maintenance", "prune-access-logs">>, "prune_access_logs"),
     Route("POST", <<"maintenance", "cleanup-intentions">>, "cleanup_expired_intentions"),
     Route("POST", <<"context", "layered">>, "assemble_layered_context"),
     Route("POST", <<"context", "vch">>, "search_vch"),
     Route("POST", <<"emotional", "record">>, "record_emotional_context"),
     Route("GET", <<"users", "id", "emotional-context">>, "get_emotional_context"),
     Route("POST", <<"topics", "extract">>, "extract_topics"),
     Route("GET", <<"users", "id", "topic-recurrence">>, "get_topic_recurrence"),
     Route("GET", <<"graph", "neighbors">>, "get_neighbors") >>
HealthRoutes ==
  << Route("GET", <<"health">>, "health"), Route("GET", <<"health", "deep">>, "deep_health") >>

AllRoutes ==
  HealthRoutes \o KeyRoutes \o TenantRoutes \o DataRoutes \o AliasRoutes \o TraitRoutes
    \o MemoryRoutes \o SessionRoutes \o EpisodeRoutes \o ArcRoutes \o DynamicsRoutes
    \o IntentionRoutes \o OtherRoutes

Fits(path, pattern, any) ==
  Len(path) = Len(pattern) /\ \A n \in DOMAIN pattern : pattern[n] \in {any, path[n]}

Routed(verb, path) ==
  FirstFit(AllRoutes, LAMBDA r : r.verb = verb /\ Fits(path, r.path, "id"))

(* What no client calls is called by its route. *)
Operations == {AllRoutes[n].handler : n \in DOMAIN AllRoutes}
DirectCalls ==
  [op \in Operations \ DOMAIN ClientCalls |->
     LET r == FirstFit(AllRoutes, LAMBDA s : s.handler = op)
     IN Send(r.verb, r.path, Bare)]
Sent == Joined({ClientCalls, DirectCalls})

-----------------------------------------------------------------------------
(* The defaults of the request models and of the handlers' parameters, and  *)
(* of the services for what the handlers do not pass on.                    *)

MemoryBodies ==
  [create |-> [memory_type |-> "semantic", importance |-> "1.0"],
   get_all |-> [limit |-> "50", offset |-> Falsy],
   search |-> [limit |-> "10", min_score |-> Falsy]]
EpisodeBodies ==
  [reflect_session |-> [mode |-> "async"],
   synthesize_narratives |-> [lookback_episodes |-> "20", mode |-> "async"],
   search_episodes |-> [limit |-> "5", min_significance |-> Falsy]]
RecentBodies == [get_recent_episodes |-> [limit |-> "5"], get_active_arcs |-> [limit |-> "10"]]
DynamicsBodies ==
  [promote_memory |-> [grade |-> "3", signal_type |-> "used_in_response"],
   demote_memory |-> [reason |-> "user_correction"]]
IntentionBodies ==
  [set_intention |-> [agent_id |-> "clara", priority |-> Falsy, fire_once |-> "true"],
   check_intentions |-> [agent_id |-> "clara"],
   format_intentions |-> [max |-> "3"],
   list_intentions |-> [fired |-> "all", limit |-> "50"]]
LayeredBodies ==
  [assemble_layered_context |->
     [max_recent_messages |-> "20", use_fsrs |-> "true", memory_limit |-> "10",
      episode_limit |-> "5", min_episode_significance |-> "0.3", include_graph |-> Falsy,
      graph_depth |-> "1", graph_max_neighbors |-> "50"]]
SupersedeBodies == [supersede_memory |-> [reason |-> "manual_correction"]]

Bodies ==
  Joined({MemoryBodies, EpisodeBodies, RecentBodies, DynamicsBodies, IntentionBodies,
          LayeredBodies, SupersedeBodies})

-----------------------------------------------------------------------------
(* auth/scopes: the first rule that fits decides.  The star at the end of a *)
(* rule matches the rest of the path, slashes and all.                      *)

PublicPaths ==
  {<<"health">>, <<"health", "deep">>, <<"live">>, <<"ready">>, <<"metrics">>, <<"docs">>,
   <<"redoc">>, <<"openapi.json">>, <<"docs", "oauth2-redirect">>}

Rule(verb, glob, scope) == [verb |-> verb, glob |-> glob, scope |-> scope]

(* A slip: what everything else requires is looked at before what reading   *)
(* does.                                                                    *)
ScopeRulesShuffled ==
  << Rule("*", <<"admin", "*">>, "admin"), Rule("*", <<"admin">>, "admin"),
     Rule("*", <<"maintenance", "*">>, "admin"), Rule("*", <<"maintenance">>, "admin"),
     Rule("POST", <<"memories", "search">>, "read"), Rule("POST", <<"memories", "list">>, "read"),
     Rule("*", <<"*">>, "write"), Rule("GET", <<"*">>, "read") >>

ScopeRules ==
  << Rule("*", <<"admin", "*">>, "admin"), Rule("*", <<"admin">>, "admin"),
     Rule("*", <<"maintenance", "*">>, "admin"), Rule("*", <<"maintenance">>, "admin"),
     Rule("POST", <<"memories", "search">>, "read"), Rule("POST", <<"memories", "list">>, "read"),
     Rule("POST", <<"episodes", "search">>, "read"), Rule("POST", <<"intentions", "check">>, "read"),
     Rule("POST", <<"intentions", "format">>, "read"), Rule("POST", <<"context">>, "read"),
     Rule("POST", <<"context", "*">>, "read"), Rule("GET", <<"*">>, "read"),
     Rule("*", <<"*">>, "write") >>

GlobFits(path, glob) ==
  IF glob[Len(glob)] = "*"
  THEN Len(path) >= Len(glob) /\ Fits(SubSeq(path, 1, Len(glob)), glob, "*")
  ELSE path = glob

RequiredScope(verb, path) ==
  FirstFit(ScopeRules, LAMBDA r : r.verb \in {"*", verb} /\ GlobFits(path, r.glob)).scope

-----------------------------------------------------------------------------
(* PalaceGrpcClient: the RPC of each method, and the defaults of its        *)
(* signature.  None becomes "" on the way.                                  *)

Rpc(method, defaults) == [method |-> method, defaults |-> defaults]

MemoryRpcs ==
  [create |-> Rpc("CreateMemory", [memory_type |-> "semantic", importance |-> "1.0"]),
   get |-> Rpc("GetMemory", Bare),
   delete |-> Rpc("DeleteMemory", Bare),
   search |-> Rpc("SearchMemories", [limit |-> "10", min_score |-> Falsy]),
   get_all |-> Rpc("ListMemories", [limit |-> "50", offset |-> Falsy])]
SessionRpcs ==
  [create_session |-> Rpc("CreateSession", Bare), get_session |-> Rpc("GetSession", Bare),
   add_message |-> Rpc("AddMessage", Bare), update_session |-> Rpc("UpdateSession", Bare),
   delete_session |-> Rpc("DeleteSession", Bare)]
EpisodeRpcs ==
  [reflect_session |-> Rpc("ReflectSession", [mode |-> "async"]),
   search_episodes |-> Rpc("SearchEpisodes", [limit |-> "5", min_significance |-> Falsy]),
   get_recent_episodes |-> Rpc("GetRecentEpisodes", [limit |-> "5"])]
ArcRpcs ==
  [synthesize_narratives |->
     Rpc("SynthesizeNarratives", [lookback_episodes |-> "20", mode |-> "async"]),
   get_active_arcs |-> Rpc("GetActiveArcs", [limit |-> "10"])]
IntentionRpcs ==
  [set_intention |-> Rpc("SetIntention",
                         [agent_id |-> "clara", priority |-> Falsy, fire_once |-> "true"]),
   check_intentions |-> Rpc("CheckIntentions", [agent_id |-> "clara"]),
   format_intentions |-> Rpc("FormatIntentions", [max |-> "3"]),
   list_intentions |-> Rpc("ListIntentions", [fired |-> "all", limit |-> "50"]),
   delete_intention |-> Rpc("DeleteIntention", Bare)]
DynamicsRpcs ==
  [promote_memory |-> Rpc("PromoteMemory", [grade |-> "3", signal_type |-> "used_in_response"]),
   demote_memory |-> Rpc("DemoteMemory", [reason |-> "user_correction"]),
   get_dynamics |-> Rpc("GetDynamics", Bare), score_memory |-> Rpc("ScoreMemory", Bare)]
RetrievalRpcs ==
  [assemble_layered_context |-> Rpc("AssembleLayered",
     [max_l1_chars |-> "3200", max_l2_chars |-> "12000", max_recent_messages |-> "20",
      use_fsrs |-> "true", memory_limit |-> "10", episode_limit |-> "5",
      min_episode_significance |-> "0.3", include_graph |-> Falsy, graph_depth |-> "1",
      graph_max_neighbors |-> "50"])]
IngestionRpcs ==
  [supersede_memory |-> Rpc("SupersedeMemory", [reason |-> "manual_correction"]),
   get_supersessions |-> Rpc("GetSupersessions", Bare)]
JobRpcs == [get_job |-> Rpc("GetJob", Bare)]

Rpcs ==
  Joined({MemoryRpcs, SessionRpcs, EpisodeRpcs, ArcRpcs, IntentionRpcs, DynamicsRpcs,
          RetrievalRpcs, IngestionRpcs, JobRpcs})

(* RPC_SCOPE names the package palace.v1; the stubs call mypalace.v1, which *)
(* it does not mention, and what it does not mention requires write.        *)
ReadRpcs ==
  {"GetMemory", "SearchMemories", "ListMemories", "GetSession", "SearchEpisodes",
   "GetRecentEpisodes", "GetActiveArcs", "CheckIntentions", "FormatIntentions", "ListIntentions",
   "GetDynamics", "AssembleLayered", "GetSupersessions", "GetJob"}
StubPath(method) == <<"mypalace.v1", method>>
RpcScope(method) ==
  IF StubPath(method) \in {"palace.v1"} \X ReadRpcs THEN "read" ELSE "write"

(* The servicers: what each makes of a parameter that has proto3's zero     *)
(* value, of those that both clients offer.  Those behind Finder answer     *)
(* NOT_FOUND when what they are asked for is not there.                     *)
Servicer(makes) == [makes |-> makes, finds |-> FALSE]
Finder(makes) == [makes |-> makes, finds |-> TRUE]

MemoryServicer ==
  [create |-> Servicer([memory_type |-> "semantic", agent_id |-> Omitted, source |-> Omitted,
                        importance |-> "1.0", metadata |-> Omitted]),
   get |-> Finder(Bare), delete |-> Finder(Bare),
   search |-> Servicer([user_id |-> Omitted, agent_id |-> Omitted, memory_type |-> Omitted,
                        limit |-> "10", min_score |-> Falsy]),
   get_all |-> Servicer([user_id |-> Omitted, agent_id |-> Omitted, memory_type |-> Omitted,
                         limit |-> "50", offset |-> Falsy])]
SessionServicer ==
  [create_session |-> Servicer([title |-> Omitted]), get_session |-> Finder(Bare),
   add_message |-> Servicer([role |-> Falsy, content |-> Falsy]),
   update_session |-> Finder([title |-> Omitted, summary |-> Omitted]),
   delete_session |-> Finder(Bare)]
EpisodeServicer ==
  [reflect_session |-> Servicer([mode |-> "async", agent_id |-> Omitted, session_id |-> Omitted]),
   search_episodes |-> Servicer([limit |-> "5", min_significance |-> Falsy]),
   get_recent_episodes |-> Servicer([limit |-> "5"])]
ArcServicer ==
  [synthesize_narratives |->
     Servicer([mode |-> "async", agent_id |-> Omitted, lookback_episodes |-> "20"]),
   get_active_arcs |-> Servicer([limit |-> "10"])]
IntentionServicer ==
  [set_intention |-> Servicer([agent_id |-> "clara", expires_at |-> Omitted,
                               source_memory_id |-> Omitted, priority |-> Falsy,
                               fire_once |-> Falsy]),
   check_intentions |-> Servicer([context |-> Omitted, agent_id |-> "clara"]),
   format_intentions |-> Servicer([max |-> "3"]),
   list_intentions |-> Servicer([fired |-> "all", limit |-> "50"]),
   delete_intention |-> Finder(Bare)]
DynamicsServicer ==
  [promote_memory |-> Servicer([grade |-> "3", signal_type |-> "used_in_response"]),
   demote_memory |-> Servicer([reason |-> "user_correction"]), get_dynamics |-> Finder(Bare),
   score_memory |-> Servicer([semantic_score |-> Falsy])]
RetrievalServicer ==
  [assemble_layered_context |-> Servicer(
     [agent_id |-> Omitted, session_id |-> Omitted, max_l1_chars |-> Omitted,
      max_l2_chars |-> Omitted, max_recent_messages |-> "20", use_fsrs |-> Falsy,
      memory_limit |-> "10", episode_limit |-> "5", min_episode_significance |-> Falsy,
      include_graph |-> Falsy, graph_depth |-> "1", graph_max_neighbors |-> "50"])]
IngestionServicer ==
  [supersede_memory |-> Finder([reason |-> "manual_correction", metadata |-> Omitted]),
   get_supersessions |-> Servicer(Bare)]
JobServicer == [get_job |-> Finder(Bare)]

Servicers ==
  Joined({MemoryServicer, SessionServicer, EpisodeServicer, ArcServicer,
          IntentionServicer, DynamicsServicer, RetrievalServicer, IngestionServicer,
          JobServicer})

-----------------------------------------------------------------------------
(* Calls. *)

AllScopes == {"read", "write", "admin"}

(* What is odd is well-typed, and no value the parameter may have. *)
Checked == {"mode", "fired", "grade", "expires_at"}
Required == {"role", "content", "semantic_score"}
Values(param) ==
  {"usual", Falsy} \cup (IF param \in Required THEN {} ELSE {Omitted})
    \cup (IF param = "limit" THEN {"large"} ELSE {})
    \cup (IF param \in Checked THEN {"odd"} ELSE {})

PlainCalls ==
  [op : Operations, param : {"none"}, value : {Omitted}, key : SUBSET AllScopes, there : BOOLEAN]
ArgumentCalls ==
  UNION {UNION {[op : {op}, param : {p}, value : Values(p), key : {{"read", "write"}},
                 there : {TRUE}] : p \in DOMAIN Servicers[op].makes} : op \in DOMAIN Servicers}
SurfaceCalls == PlainCalls \cup ArgumentCalls

NoCall == [op |-> "none", param |-> "none", value |-> Omitted, key |-> {}, there |-> FALSE]

Unanswered == [kind |-> "none", op |-> "none", argument |-> Omitted]
Waiting == [at |-> "sent", answer |-> Unanswered]
Unopened == [at |-> "absent", answer |-> Unanswered]
Granted == [at |-> "granted", answer |-> Unanswered]
Answered(kind, op, argument) ==
  [at |-> "answered", answer |-> [kind |-> kind, op |-> op, argument |-> argument]]
Denied == Answered("forbidden", "none", Omitted)

(* The one handler that does not look before it writes. *)
Breaks(op, there) == op = "add_message" /\ ~there

Outcome(op, finds, argument) ==
  IF call.param \in Checked /\ argument \in {Falsy, "odd"} THEN Answered("refused", op, Omitted)
  ELSE IF finds /\ ~call.there THEN Answered("missing", op, Omitted)
  ELSE IF Breaks(op, call.there) THEN Answered("failed", op, Omitted)
  ELSE Answered("served", op, argument)

-----------------------------------------------------------------------------
SurfaceInit == call = NoCall /\ http = Unopened /\ rpc = Unopened

Call(c) ==
  /\ call = NoCall
  /\ call' = c
  /\ http' = Waiting
  /\ rpc' = IF c.op \in DOMAIN Rpcs THEN Waiting ELSE Unopened

(* AuthMiddleware. *)
Admit ==
  /\ http.at = "sent"
  /\ LET path == Sent[call.op].path
         granted == path \in PublicPaths \/ RequiredScope(Sent[call.op].verb, path) \in call.key
     IN http' = IF granted THEN Granted ELSE Denied
  /\ UNCHANGED <<call, rpc>>

(* The handler: what the client sends, else what the request model has;     *)
(* a list is cut at MAX_LIST_LIMIT.                                         *)
Given(defaults) == IF call.value = Omitted THEN Default(defaults, call.param) ELSE call.value
HttpArgument ==
  LET sent == Given(Sent[call.op].defaults)
      body == IF call.op \in DOMAIN Bodies THEN Bodies[call.op] ELSE Bare
  IN IF sent = Omitted THEN Default(body, call.param)
     ELSE IF sent = "large" /\ call.op = "get_all" THEN "500"
     ELSE sent

Handle ==
  /\ http.at = "granted"
  /\ LET r == Routed(Sent[call.op].verb, Sent[call.op].path)
     IN http' = Outcome(r.handler, r.finds, HttpArgument)
  /\ UNCHANGED <<call, rpc>>

(* AuthInterceptor. *)
Intercept ==
  /\ rpc.at = "sent"
  /\ rpc' = IF RpcScope(Rpcs[call.op].method) \in call.key THEN Granted ELSE Denied
  /\ UNCHANGED <<call, http>>

(* The servicer's method. *)
RpcArgument ==
  LET sent == Given(Rpcs[call.op].defaults)
  IN IF sent \in {Omitted, Falsy} THEN Default(Servicers[call.op].makes, call.param) ELSE sent

HandleRpc ==
  /\ rpc.at = "granted"
  /\ rpc' = Outcome(call.op, Servicers[call.op].finds, RpcArgument)
  /\ UNCHANGED <<call, http>>

SurfaceNext ==
  \/ \E c \in SurfaceCalls : Call(c)
  \/ Admit \/ Handle \/ Intercept \/ HandleRpc

SurfaceSpec == SurfaceInit /\ [][SurfaceNext]_surfaceVars

-----------------------------------------------------------------------------
Kinds == {"none", "forbidden", "refused", "missing", "failed", "served"}

(* Every variable stays within its range. *)
SurfaceTypeOK ==
  /\ call.op \in Operations \cup {"none"} /\ call.key \subseteq AllScopes
  /\ \A door \in {http, rpc} : /\ door.at \in {"absent", "sent", "granted", "answered"}
                               /\ door.answer.kind \in Kinds
                               /\ door.answer.op \in Operations \cup {"none"}

(* What the calls do to the rows, apart from access counters, fired flags   *)
(* and jobs that prune them.                                                *)
Administers ==
  {"keys_mint", "keys_list", "keys_revoke", "tenants_create", "tenants_list", "delete_tenant",
   "stats", "export", "import_data", "reembed", "audit", "register_alias", "list_aliases",
   "resolve_identifier", "delete_alias", "list_traits", "create_trait", "update_trait",
   "delete_trait", "prune_access_logs", "cleanup_expired_intentions"}
Changes ==
  {"add", "create", "update", "delete", "delete_all", "create_session", "add_message",
   "update_session", "delete_session", "reflect_session", "record_emotional_context",
   "extract_topics", "synthesize_narratives", "promote_memory", "demote_memory", "score_memory",
   "set_intention", "delete_intention", "supersede_memory"}
Reads == Operations \ (Administers \cup Changes)

(* A call reaches the handler it is meant for and no other: a reading key   *)
(* changes nothing, whatever the verb or the door; only an admin key runs   *)
(* the service; and over HTTP a reading key may do all that only reads.     *)
KeysHold ==
  /\ \A door \in {http, rpc} : door.at = "answered" =>
       /\ door.answer.op \in {call.op, "none"}
       /\ door.answer.kind = "served" /\ call.op \in Administers => "admin" \in call.key
       /\ door.answer.kind = "served" /\ call.op \in Changes => "write" \in call.key
  /\ http.answer.kind = "forbidden" /\ "read" \in call.key => call.op \notin Reads

(* A caller with both scopes is answered the same at either door, though    *)
(* the defaults of an argument are written down in four places, except      *)
(* where proto3 cannot carry what he gave, and for the cut list.            *)
Lossy ==
  \/ call.value = Falsy /\ Servicers[call.op].makes[call.param] # Falsy
  \/ call.value = "large" /\ call.op = "get_all"
DoorsAgree ==
  http.at = "answered" /\ rpc.at = "answered" /\ {"read", "write"} \subseteq call.key =>
    Lossy \/ http.answer = rpc.answer

(* The same call is understood the same at both doors, and neither lets a   *)
(* key do more than its scopes.                                             *)
DoorsHold == KeysHold /\ DoorsAgree
=============================================================================
