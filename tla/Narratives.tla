----------------------------- MODULE Narratives -----------------------------
(***************************************************************************)
(* What becomes of conversations in the background: reflection makes       *)
(* episodes of them (mypalace/episode_service.py) and synthesis makes arcs *)
(* of episodes (mypalace/arc_service.py), both by way of a language model, *)
(* both run by workers that may break off and be run again (JobQueue).     *)
(* The episodes of one user are points in Qdrant; its arcs are rows.       *)
(* There is a collection of points for each tenant, but what reads them    *)
(* looks in that of the default tenant, whoever's they are.                *)
(*                                                                         *)
(* Of the model it is assumed that it knows a story when it sees one: it   *)
(* tells no story twice in one answer and refers to the arc of a story     *)
(* that it is shown.                                                       *)
(***************************************************************************)
EXTENDS Integers, Sequences, FiniteSets

CONSTANTS
  TenantIds,        \* tenants, each with a collection
  DefaultTenantId,  \* settings.default_tenant_id
  Reflections,  \* reflection jobs, one for each conversation
  Syntheses,    \* synthesis jobs
  Points,       \* ids for episodes, by their order in Qdrant (uuid4)
  Stories,      \* what episodes and arcs are about
  ArcIds,       \* ids for arcs
  Lookback,     \* how many episodes synthesis asks for
  Scroll,       \* how many get_recent takes off Qdrant: max(4 Lookback, 50)
  Shown,        \* how many active arcs synthesis reads (10)
  NoStory,      \* no episode, no arc
  MaxBreaks     \* bound: attempts that break off in one behaviour

ASSUME NarrativesAssumption ==
  /\ DefaultTenantId \in TenantIds
  /\ Points \subseteq Nat /\ Points \cap ArcIds = {}
  /\ NoStory \notin Stories
  /\ Lookback \in Nat \ {0} /\ Scroll \in Nat \ {0} /\ Shown \in Nat \ {0}
  /\ MaxBreaks \in Nat

VARIABLES
  tenantId,    \* the tenant of the user
  collections, \* the points in each tenant's collection
  episode,   \* an episode: its story, its job and its timestamp
  reflect,   \* where a reflection stands: the stories to write, what it wrote
  moment,    \* the clock: reflections begun
  arc,       \* an arc: its story, its status and updated_at
  synth,     \* where a synthesis stands
  stir,      \* the clock of updated_at
  announced, \* the episodes and arcs that events were published about
  breaks,    \* the reflections that broke off
  broken,    \* attempts that broke off so far
  missed,    \* auxiliary: newer episodes that get_recent passed over
  doubtful   \* auxiliary: stories of which a synthesis could not see the arc

episodes == <<tenantId, collections, episode, reflect, moment, breaks>>
arcs == <<arc, synth, stir, missed, doubtful>>
narrativeVars == <<episodes, arcs, announced, broken>>

NoEpisode == [story |-> NoStory, job |-> NoStory, time |-> 0]
NoArc == [story |-> NoStory, status |-> "none", time |-> 0]
Unstarted == [at |-> "off", left |-> {}, known |-> {}, wrote |-> {}]

NarrativesInit ==
  /\ tenantId \in TenantIds
  /\ collections = [t \in TenantIds |-> {}]
  /\ episode = [e \in Points |-> NoEpisode]
  /\ reflect = [j \in Reflections |-> Unstarted]
  /\ moment = 0
  /\ arc = [a \in ArcIds |-> NoArc]
  /\ synth = [k \in Syntheses |-> Unstarted]
  /\ stir = 0
  /\ announced = {} /\ breaks = {} /\ broken = 0
  /\ missed = {} /\ doubtful = {}

WrittenEpisodes == {e \in Points : episode[e] # NoEpisode}
Made == {a \in ArcIds : arc[a] # NoArc}

-----------------------------------------------------------------------------
(* reflect_session. *)

(* The model's answer; what is not JSON breaks it off.  All episodes of an  *)
(* attempt have one timestamp.                                              *)
Reflect(j) ==
  /\ reflect[j].at \in {"off", "failed"}
  /\ moment' = moment + 1
  /\ \E tale \in SUBSET Stories :
       reflect' = [reflect EXCEPT ![j] = [at |-> "writing", left |-> tale, known |-> {moment + 1},
                                          wrote |-> {}]]
  /\ UNCHANGED <<tenantId, collections, episode, breaks, arcs, announced, broken>>

(* Embedded and upserted into the collection of the tenant, each under an   *)
(* id of its own.                                                           *)
WriteEpisode(j) ==
  LET r == reflect[j] IN
  /\ r.at = "writing"
  /\ \E s \in r.left, e \in Points \ WrittenEpisodes, now \in r.known :
       /\ episode' = [episode EXCEPT ![e] = [story |-> s, job |-> j, time |-> now]]
       /\ collections' = [collections EXCEPT ![tenantId] = @ \cup {e}]
       /\ reflect' = [reflect EXCEPT ![j].left = @ \ {s}, ![j].wrote = @ \cup {e}]
  /\ UNCHANGED <<tenantId, moment, breaks, arcs, announced, broken>>

(* The events, when all are written. *)
TellEpisodes(j) ==
  LET r == reflect[j] IN
  /\ r.at = "writing" /\ r.left = {}
  /\ announced' = announced \cup r.wrote
  /\ reflect' = [reflect EXCEPT ![j].at = "done"]
  /\ UNCHANGED <<tenantId, collections, episode, moment, breaks, arcs, broken>>

(* The embedder, Qdrant or the worker fails; what is written stays. *)
BreakReflection(j) ==
  /\ broken < MaxBreaks
  /\ broken' = broken + 1
  /\ reflect[j].at = "writing"
  /\ reflect' = [reflect EXCEPT ![j].at = "failed"]
  /\ breaks' = breaks \cup {j}
  /\ UNCHANGED <<tenantId, collections, episode, moment, arcs, announced>>

-----------------------------------------------------------------------------
(* synthesize_narratives. *)

FirstBy(set, n, before(_, _)) == {x \in set : Cardinality({y \in set : before(y, x)}) < n}

(* The collection that everything which reads episodes looks in.            *)
Collection == collections[DefaultTenantId]

(* get_recent: of the user's points in that collection the first Scroll by  *)
(* id, and the newest of those.                                             *)
Newer(d, e) == episode[d].time > episode[e].time
Newest(set) == FirstBy(set, Lookback, Newer)
Recent == Newest(FirstBy(Collection, Scroll, LAMBDA d, e : d < e))

ReadEpisodes(k) ==
  /\ synth[k].at \in {"off", "failed"}
  /\ synth' = [synth EXCEPT ![k] = [at |-> "reading", left |-> {episode[e].story : e \in Recent},
                                    known |-> {}, wrote |-> {}]]
  /\ missed' = missed \cup {e \in Newest(WrittenEpisodes) : \A d \in Recent : Newer(e, d)}
  /\ UNCHANGED <<episodes, arc, stir, doubtful, announced, broken>>

(* get_active: the arcs that changed last. *)
Later(a, b) == arc[a].time > arc[b].time
ActiveArcs == FirstBy({a \in Made : arc[a].status = "active"}, Shown, Later)

(* The arcs are read, and the model answers about some of the stories. *)
ReadArcs(k) ==
  /\ synth[k].at = "reading"
  /\ \E chosen \in SUBSET synth[k].left :
       synth' = [synth EXCEPT ![k].at = "writing", ![k].left = chosen, ![k].known = ActiveArcs]
  /\ doubtful' = doubtful \cup {arc[a].story : a \in Made \ ActiveArcs}
  /\ UNCHANGED <<episodes, arc, stir, missed, announced, broken>>

InTheMiddle(k) == synth[k].at = "writing"

(* A slip: all arcs are new. *)
CreateArc(k) ==
  /\ InTheMiddle(k)
  /\ stir' = stir + 1
  /\ \E s \in synth[k].left, status \in {"active", "closed"}, a \in ArcIds \ Made :
       /\ arc' = [arc EXCEPT ![a] = [story |-> s, status |-> status, time |-> stir + 1]]
       /\ synth' = [synth EXCEPT ![k].left = @ \ {s}, ![k].wrote = @ \cup {a}]
       /\ doubtful' = IF \E o \in Syntheses \ {k} : InTheMiddle(o) THEN doubtful \cup {s}
                      ELSE doubtful
  /\ UNCHANGED <<episodes, missed, announced, broken>>

(* One story: the arc that the model refers to is updated, or one is made.  *)
(* Each is a transaction; another synthesis may have read the arcs before.  *)
PutArc(k) ==
  /\ InTheMiddle(k)
  /\ stir' = stir + 1
  /\ \E s \in synth[k].left, status \in {"active", "closed"} :
       LET old == {a \in synth[k].known : arc[a].story = s} IN
       \E a \in IF old # {} THEN old ELSE ArcIds \ Made :
         /\ arc' = [arc EXCEPT ![a] = [story |-> s, status |-> status, time |-> stir + 1]]
         /\ synth' = [synth EXCEPT ![k].left = @ \ {s}, ![k].wrote = @ \cup {a}]
         /\ doubtful' = IF old = {} /\ \E o \in Syntheses \ {k} : InTheMiddle(o)
                        THEN doubtful \cup {s} ELSE doubtful
  /\ UNCHANGED <<episodes, missed, announced, broken>>

TellArcs(k) ==
  /\ InTheMiddle(k) /\ synth[k].left = {}
  /\ announced' = announced \cup synth[k].wrote
  /\ synth' = [synth EXCEPT ![k].at = "done"]
  /\ UNCHANGED <<episodes, arc, stir, missed, doubtful, broken>>

BreakSynthesis(k) ==
  /\ broken < MaxBreaks
  /\ broken' = broken + 1
  /\ synth[k].at \in {"reading", "writing"}
  /\ synth' = [synth EXCEPT ![k].at = "failed"]
  /\ UNCHANGED <<episodes, arc, stir, missed, doubtful, announced>>

NarrativesNext ==
  \/ \E j \in Reflections :
       Reflect(j) \/ WriteEpisode(j) \/ TellEpisodes(j) \/ BreakReflection(j)
  \/ \E k \in Syntheses :
       ReadEpisodes(k) \/ ReadArcs(k) \/ PutArc(k) \/ TellArcs(k) \/ BreakSynthesis(k)

NarrativesSpec == NarrativesInit /\ [][NarrativesNext]_narrativeVars

-----------------------------------------------------------------------------
(* Every variable stays within its range. *)
NarrativesTypeOK ==
  /\ tenantId \in TenantIds
  /\ collections \in [TenantIds -> SUBSET Points]
  /\ episode \in [Points -> [story : Stories \cup {NoStory}, job : Reflections \cup {NoStory},
                             time : Nat]]
  /\ moment \in Nat /\ stir \in Nat
  /\ reflect \in [Reflections -> [at : {"off", "writing", "done", "failed"}, left : SUBSET Stories,
                                  known : SUBSET Nat, wrote : SUBSET Points]]
  /\ arc \in [ArcIds -> [story : Stories \cup {NoStory}, status : {"none", "active", "closed"},
                         time : Nat]]
  /\ synth \in [Syntheses -> [at : {"off", "reading", "writing", "done", "failed"},
                              left : SUBSET Stories, known : SUBSET ArcIds,
                              wrote : SUBSET ArcIds]]
  /\ announced \subseteq Points \cup ArcIds
  /\ breaks \subseteq Reflections /\ broken \in 0 .. MaxBreaks
  /\ missed \subseteq Points /\ doubtful \subseteq Stories

(* A conversation has two episodes of a story only when its reflection      *)
(* broke off and was run again; and none is announced before the attempt    *)
(* that wrote it is through.                                                *)
EpisodesOnce ==
  \A d, e \in WrittenEpisodes :
    /\ d # e /\ episode[d].job = episode[e].job /\ episode[d].story = episode[e].story
         => episode[d].job \in breaks
    /\ e \in announced /\ episode[d].job = episode[e].job /\ episode[d].time = episode[e].time
         => d \in announced

(* A story has one arc, however often syntheses break off and are run       *)
(* again, unless two of them overlapped or one could not see the arc: it    *)
(* was closed, or ten others had changed since.                             *)
OneArcPerStory ==
  \A a, b \in Made : a # b /\ arc[a].story = arc[b].story => arc[a].story \in doubtful

(* Synthesis is given the newest episodes as long as the user has no more   *)
(* than get_recent takes off Qdrant, 50 at least.  The docstring of         *)
(* get_recent ("Recent episodes for a user, newest first") says so of every *)
(* user.                                                                    *)
RecentAreNewest == missed # {} => Cardinality(WrittenEpisodes) > Scroll

(* It holds of the users of the default tenant.                             *)
FewAreRecent == tenantId = DefaultTenantId => RecentAreNewest

NarrativesHold == EpisodesOnce /\ OneArcPerStory /\ FewAreRecent
=============================================================================
