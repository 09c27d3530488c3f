--------------------------- MODULE RoadmapVersions ---------------------------
(***************************************************************************)
(* The roadmap of one user, version by version: what an analysis proposes  *)
(* on the version it has read (roadmap/service.py), how a proposal and the *)
(* published version are compiled into the next one (compiler_reference.py *)
(* and V3RoadmapCompiler.java, which publishes), how drafts are applied,   *)
(* cancelled, and versions restored (V3RoadmapService), and what is laid   *)
(* over a version when it is shown: capabilities, projects and employment  *)
(* the user has proved since.  The order of the graph and what a posting   *)
(* asks for are choices.                                                   *)
(***************************************************************************)
EXTENDS Integers, Sequences, FiniteSets, TLC

CONSTANTS
    Postings,
    Ways,           \* posting -> the ways an analysis may take it (position and track)
    Releases,       \* the prerequisites that releases of the graph state: sets of <<c, d>>
    Legacy,         \* what the user's map holds before the first version
    Evidenced,      \* capabilities that a confirmed part of the career shows
    Months,         \* how long an employment lasts
    Worked, Learnt, \* the targets and the capabilities the user works on
    MaxVersions, MaxDrafts

\* A way: [kind, role, min, max, keys, own, cert]: the experience it asks for, the
\* capabilities of the graph its project requires, those of the user's own, and
\* the status of a certificate it demands.
Unknown == -1
Open == 0
NoWay == [kind |-> "NONE", role |-> "none", min |-> Unknown, max |-> Open, keys |-> {}, own |-> {},
          cert |-> "none"]

States == <<"NOT_STARTED", "CLAIMED", "EVIDENCED", "VERIFIED">>
Level(s) == CHOOSE i \in DOMAIN States : States[i] = s

VARIABLES
    versions,       \* the published versions, the last one is the published one
    drafts,         \* the proposals that wait for the user
    pending,        \* the proposal of an analysis that runs
    states,         \* user_atomic_capabilities
    work,           \* the projects: career_nodes, node_progress and evidence
    records         \* user_employment_records, by role
roadmapVars == <<versions, drafts, pending, states, work, records>>

-----------------------------------------------------------------------------
(* Nodes and relations *)

Capability(c) == <<"CAPABILITY", c>>
Project(p) == <<"TARGET_PROJECT", p>>
Gate(p, what) == <<"CAREER_GATE", p, what>>
Opportunity(p) == <<"OPPORTUNITY", p>>
Employment(role) == <<"EMPLOYMENT_EVENT", role>>
Interval(w) == <<"EXPERIENCE_INTERVAL", w.role, w.min, w.max>>
Synthetic == {"EMPLOYMENT_EVENT", "EXPERIENCE_INTERVAL"}

\* refs: the career stages a capability is part of, the opportunities an
\* employment may start from. atomic: the node stands for one of the graph.
Node(progress, section, way, refs, atomic) ==
    [progress |-> progress, section |-> section, way |-> way, refs |-> refs, atomic |-> atomic]
Edge(from, to, type) == [from |-> from, to |-> to, type |-> type]

Blocking ==
    {"HARD_PREREQUISITE", "UNLOCKS_PROJECT", "REQUIRES_GATE", "UNLOCKS_OPPORTUNITY",
     "POTENTIAL_CAREER_ENTRY", "STARTS_EXPERIENCE", "SATISFIES_EXPERIENCE_GATE"}

Before(S, relations) == {e.from : e \in {x \in relations : x.to \in S}}
After(S, relations) == {e.to : e \in {x \in relations : x.from \in S}}

\* _with_display_ranks: what is left when the nodes no one leads to are taken away,
\* again and again. The round a node is taken in is its rank.
Waiting(nodes, relations) ==
    LET blocking == {e \in relations : e.type \in Blocking}
        left[n \in 0 .. Cardinality(nodes)] ==
          IF n = 0 THEN nodes ELSE After(left[n - 1], blocking)
    IN  left
Cyclic(nodes, relations) == Waiting(nodes, relations)[Cardinality(nodes)] # {}

\* What leads to a node of a set, over relations of every type.
Leading(nodes, relations, goals) ==
    LET Step(S) == S \cup Before(S, relations)
        led[n \in 0 .. Cardinality(nodes)] == IF n = 0 THEN goals ELSE Step(led[n - 1])
    IN  led[Cardinality(nodes)]

-----------------------------------------------------------------------------
(* The contract of what an analysis proposes *)

\* OpportunitySpec.validate_career_stage and GateSpec.validate_gate
ValidWay(w) ==
    /\ w.kind \in {"NEW_GRADUATE", "NO_RESTRICTION"} => w.min = 0 /\ w.max = Open
    /\ w.kind \in {"EXPERIENCE_REQUIRED", "RANGE"} => w.min > 0
    /\ w.max # Open => w.max >= w.min

\* career_stage_ref
Stage(w) == IF w.min <= 0 THEN <<"stage.entry">> ELSE <<"stage.experience", w.min, w.max>>

\* _progress_from_competency of what the backend tells of the user
\* (V3AnalysisRequestFactory): the state of the capability, or the evidence of a
\* confirmed part of the career.
Shows(c) ==
    LET state == IF c \in DOMAIN states THEN states[c] ELSE "NOT_STARTED"
    IN  IF c \in Evidenced /\ state # "VERIFIED" THEN "EVIDENCED" ELSE state

\* The learning closure of the project's capabilities.
Closure(release, keys) ==
    {n[2] : n \in Leading({Capability(k) : k \in keys \cup UNION {{e[1], e[2]} : e \in release}},
                          {Edge(Capability(e[1]), Capability(e[2]), "HARD_PREREQUISITE") : e \in release},
                          {Capability(k) : k \in keys})}

GatesOf(p, w) ==
    (IF w.min > 0 THEN {Gate(p, "experience")} ELSE {})
      \cup (IF w.cert # "none" THEN {Gate(p, "certificate")} ELSE {})

\* RoadmapDraftService.compose: a node of the map is used again as it is, others
\* are created with what the user has shown.
Proposed(current, p, w, release) ==
    LET learnt == Closure(release, w.keys)
        fresh(id) ==
          CASE id[1] = "CAPABILITY" ->
                 Node(IF id[2] \in learnt THEN Shows(id[2]) ELSE "NOT_STARTED", w.role, NoWay,
                      {Stage(w)}, id[2] \in learnt)
            [] id[1] = "CAREER_GATE" /\ id[3] = "certificate" -> Node(w.cert, w.role, w, {}, FALSE)
            [] OTHER -> Node("NOT_STARTED", w.role, w, {}, FALSE)
        ids == {Capability(c) : c \in learnt \cup w.own} \cup {Project(p), Opportunity(p)}
                 \cup GatesOf(p, w)
    IN  [kind |-> "ANALYSIS", base |-> Len(versions), targets |-> {},
         reuse |-> ids \cap DOMAIN current.nodes,
         nodes |-> [id \in ids |-> fresh(id)],
         relations |->
           {Edge(Capability(e[1]), Capability(e[2]), "HARD_PREREQUISITE") :
              e \in {x \in release : {x[1], x[2]} \subseteq learnt}}
             \cup {Edge(Capability(k), Project(p), "UNLOCKS_PROJECT") : k \in w.keys \cup w.own}
             \cup {Edge(Project(p), Opportunity(p), "UNLOCKS_OPPORTUNITY")}
             \cup {Edge(g, Opportunity(p), "REQUIRES_GATE") : g \in GatesOf(p, w)}]

\* RoadmapProposal.validate_operations
ValidProposal(d) == ~Cyclic(DOMAIN d.nodes, d.relations)

\* storeLifecycleDraft
Removal(kind, targets) ==
    [kind |-> kind, base |-> Len(versions), targets |-> targets, reuse |-> {}, nodes |-> <<>>,
     relations |-> {}]

-----------------------------------------------------------------------------
(* compile_preview *)

\* _should_remove_target_node
BelongsTo(id, targets) ==
    id[1] \in {"TARGET_PROJECT", "CAREER_GATE", "OPPORTUNITY"} /\ id[2] \in targets

\* Mutant: the employment of a target that goes stays.
KeptCareer(nodes, targets) == {id \in DOMAIN nodes : ~BelongsTo(id, targets)}

\* Removing a target takes the employment and the intervals as well: they are
\* built anew from the gates that remain.
Remaining(nodes, targets) ==
    {id \in DOMAIN nodes : /\ ~BelongsTo(id, targets)
                           /\ ~(targets # {} /\ id[1] \in Synthetic)}

\* _updated_existing: the progress, the project and the opportunity stay.
Updated(old, new) ==
    [old EXCEPT !.refs = @ \cup new.refs, !.atomic = @ \/ new.atomic]

Merged(current, d) ==
    LET left == Remaining(current.nodes, d.targets)
        nodes == [id \in left \cup DOMAIN d.nodes |->
                    IF id \notin DOMAIN d.nodes THEN current.nodes[id]
                    ELSE IF id \in d.reuse THEN Updated(current.nodes[id], d.nodes[id])
                    ELSE d.nodes[id]]
    IN  [nodes |-> nodes,
         relations |-> {e \in current.relations : {e.from, e.to} \subseteq DOMAIN nodes}
                         \cup d.relations]

\* Mutant: only what leads to a project at once is kept.
LeadsAtOnce(nodes, relations) ==
    LET others == {id \in DOMAIN nodes : id[1] # "CAPABILITY"}
    IN  others \cup {e.from : e \in {x \in relations : x.to \in others}}

\* _prune_orphan_capabilities: what is kept because something needs it
Needed(nodes, relations) ==
    Leading(DOMAIN nodes, relations, {id \in DOMAIN nodes : id[1] # "CAPABILITY"})

Pruned(s) ==
    LET kept == {id \in DOMAIN s.nodes : \/ id \in Needed(s.nodes, s.relations)
                                         \/ s.nodes[id].progress # "NOT_STARTED"
                                         \/ s.nodes[id].section = "common"}
    IN  [nodes |-> [id \in kept |-> s.nodes[id]],
         relations |-> {e \in s.relations : {e.from, e.to} \subseteq kept}]

\* _career_graph_members: the gates of experience that ask for months, the
\* opportunities that ask for none, and what stands between them.
Asking(s) ==
    {e \in s.relations : /\ e.type = "REQUIRES_GATE" /\ e.from[3] = "experience"
                         /\ s.nodes[e.to].way.min > 0}
Entries(s, target) ==
    {id \in DOMAIN s.nodes : /\ id[1] = "OPPORTUNITY" /\ id # target
                             /\ s.nodes[id].way.role = s.nodes[target].way.role
                             /\ s.nodes[id].way.min = 0}
CareerRelations(s) ==
    UNION {LET w == s.nodes[e.to].way
           IN  {Edge(o, Employment(w.role), "POTENTIAL_CAREER_ENTRY") : o \in Entries(s, e.to)}
                 \cup {Edge(Employment(w.role), Interval(w), "STARTS_EXPERIENCE"),
                       Edge(Interval(w), e.from, "SATISFIES_EXPERIENCE_GATE")} : e \in Asking(s)}
CareerNodes(s) ==
    LET askedFor(role) == {e \in Asking(s) : s.nodes[e.to].way.role = role}
        old(id) == IF id \in DOMAIN s.nodes THEN s.nodes[id] ELSE Node("NOT_STARTED", id[2], NoWay, {}, FALSE)
        sources(id) == IF id[1] # "EMPLOYMENT_EVENT" THEN {}
                       ELSE UNION {Entries(s, e.to) : e \in askedFor(id[2])}
        ids == UNION {{Employment(s.nodes[e.to].way.role), Interval(s.nodes[e.to].way)} : e \in Asking(s)}
    IN  [id \in ids |-> [old(id) EXCEPT !.refs = @ \cup sources(id)]]

WithCareer(s) ==
    [nodes |-> CareerNodes(s) @@ s.nodes, relations |-> s.relations \cup CareerRelations(s)]

Assembled(current, d) ==
    WithCareer(IF d.targets = {} THEN Merged(current, d) ELSE Pruned(Merged(current, d)))

\* compile_preview and the codes of V3RoadmapCompiler
Refusal(current, d) ==
    CASE d.base # Len(versions) -> "V3_ROADMAP_STALE_PROPOSAL"
      [] ~d.reuse \subseteq Remaining(current.nodes, d.targets) -> "V3_ROADMAP_REUSED_NODE_MISSING"
      [] (DOMAIN d.nodes \ d.reuse) \cap Remaining(current.nodes, d.targets) # {} ->
           "V3_ROADMAP_INVALID_PROPOSAL"
      [] LET s == Assembled(current, d) IN Cyclic(DOMAIN s.nodes, s.relations) -> "V3_ROADMAP_CYCLE"
      [] OTHER -> "none"

-----------------------------------------------------------------------------
(* What is laid over a version *)

\* V3CareerProgressOverlay: the months count from evidence, the gate from
\* verified ones.
Record(role) == IF role \in DOMAIN records THEN records[role] ELSE [state |-> "REJECTED", months |-> 0]
EmploymentState(role) ==
    IF Record(role).state \in {"EVIDENCED", "VERIFIED"} THEN Record(role).state ELSE "NOT_STARTED"
IntervalState(id) ==
    LET r == Record(id[2])
    IN  CASE r.state = "VERIFIED" /\ r.months >= id[3] -> "VERIFIED"
          [] r.state \in {"EVIDENCED", "VERIFIED"} /\ r.months > 0 -> "EVIDENCED"
          [] OTHER -> "NOT_STARTED"

\* V3ProjectProgressService.overlay
ProjectState(node, job, known) ==
    LET ready == \A k \in node.way.keys : k \in DOMAIN known /\ known[k] = "VERIFIED"
    IN  CASE ready /\ job.done -> "VERIFIED"
          [] job.evidence -> "EVIDENCED"
          [] ready -> "CLAIMED"
          [] OTHER -> "NOT_STARTED"

\* A verified interval verifies the gates it satisfies; nothing takes it back.
Over(s, known, jobs) ==
    LET state(id) ==
          CASE id[1] = "CAPABILITY" /\ id[2] \in DOMAIN known -> known[id[2]]
            [] id[1] = "TARGET_PROJECT" /\ id[2] \in DOMAIN jobs ->
                 ProjectState(s.nodes[id], jobs[id[2]], known)
            [] id[1] = "EMPLOYMENT_EVENT" -> EmploymentState(id[2])
            [] id[1] = "EXPERIENCE_INTERVAL" -> IntervalState(id)
            [] /\ id[1] = "CAREER_GATE"
               /\ \E e \in s.relations : /\ e.type = "SATISFIES_EXPERIENCE_GATE" /\ e.to = id
                                         /\ IntervalState(e.from) = "VERIFIED" -> "VERIFIED"
            [] OTHER -> s.nodes[id].progress
    IN  [s EXCEPT !.nodes = [id \in DOMAIN s.nodes |-> [s.nodes[id] EXCEPT !.progress = state(id)]]]

\* currentRoadmapInTransaction: before the first version it is the competencies.
Current ==
    IF versions = <<>> THEN [nodes |-> Legacy, relations |-> {}]
    ELSE Over(versions[Len(versions)].map, states, work)

-----------------------------------------------------------------------------
(* Analyses and drafts *)

NoProposal == [Removal("NONE", {}) EXCEPT !.base = 0]
Idle == pending.kind = "NONE"
More == Len(versions) < MaxVersions

\* The analysis reads the map when it is asked for; what it proposes against the
\* contract is an error of its own.
StartAnalysis ==
    /\ Idle /\ More /\ Cardinality(drafts) < MaxDrafts
    /\ \E p \in Postings, release \in Releases : \E w \in {x \in Ways[p] : ValidWay(x)} :
         /\ pending' = Proposed(Current, p, w, release)
         /\ ValidProposal(pending')
    /\ UNCHANGED <<versions, drafts, states, work, records>>

\* V3AnalysisJobProcessor.complete: drafts of other analyses are left alone.
FinishAnalysis ==
    /\ ~Idle
    /\ drafts' \in {drafts \cup {pending}, drafts}
    /\ pending' = NoProposal
    /\ UNCHANGED <<versions, states, work, records>>

\* createTargetRemovalDraft and createResetDraft, which compile what they store
DraftRemoval ==
    /\ More /\ drafts = {}
    /\ LET targets == {id[2] : id \in {x \in DOMAIN Current.nodes : x[1] = "OPPORTUNITY"}}
       IN  \E d \in {Removal("REMOVE_TARGET", {p}) : p \in targets}
                      \cup {Removal("RESET_TARGETS", t) : t \in {targets} \ {{}}} :
             /\ Refusal(Current, d) = "none"
             /\ drafts' = {d}
    /\ UNCHANGED <<versions, pending, states, work, records>>

Cancel ==
    /\ \E d \in drafts : drafts' = drafts \ {d}
    /\ UNCHANGED <<versions, pending, states, work, records>>

-----------------------------------------------------------------------------
(* Publication *)

\* Mutant: registering a capability starts it again.
StartedAgain(known, s) ==
    [c \in {id[2] : id \in {x \in DOMAIN s.nodes : s.nodes[x].atomic}} |-> "NOT_STARTED"] @@ known

\* V3AtomicCapabilityStateService.synchronize: a capability is registered once,
\* and starts at the start whatever the draft says of it.
Registered(known, s) ==
    known @@ [c \in {id[2] : id \in {x \in DOMAIN s.nodes : s.nodes[x].atomic}} |-> "NOT_STARTED"]

NewJob(w) == [way |-> w, done |-> FALSE, evidence |-> FALSE, earned |-> NoWay]

\* Mutant: a project that has become another one stays completed.
StillDone(jobs, s) ==
    LET shown == {id[2] : id \in {x \in DOMAIN s.nodes : x[1] = "TARGET_PROJECT"}}
    IN  [p \in shown |-> IF p \notin DOMAIN jobs THEN NewJob(s.nodes[Project(p)].way)
                         ELSE [jobs[p] EXCEPT !.way = s.nodes[Project(p)].way]] @@ jobs

\* V3ProjectProgressService.synchronize: a project that has become another one is
\* to be done again; its evidence stays.
Assigned(jobs, s) ==
    LET shown == {id[2] : id \in {x \in DOMAIN s.nodes : x[1] = "TARGET_PROJECT"}}
        job(p, w) == IF p \notin DOMAIN jobs THEN NewJob(w)
                     ELSE IF jobs[p].way = w THEN jobs[p]
                     ELSE [jobs[p] EXCEPT !.way = w, !.done = FALSE]
    IN  [p \in shown |-> job(p, s.nodes[Project(p)].way)] @@ jobs

Publish(s, kind, targets) ==
    versions' = Append(versions, [map |-> s, kind |-> kind, targets |-> targets])

\* V3RoadmapService.apply, under the lock of the user's row
Apply ==
    \E d \in drafts :
      /\ More /\ Refusal(Current, d) = "none"
      /\ LET s == Assembled(Current, d)
         IN  /\ states' = Registered(states, s)
             /\ work' = Assigned(work, s)
             /\ Publish(Over(s, states', work'), d.kind, d.targets)
      /\ drafts' = drafts \ {d}
      /\ UNCHANGED <<pending, records>>

\* restoreVersion: nothing is registered or assigned, drafts are left alone.
Restore ==
    /\ More
    /\ \E v \in DOMAIN versions : Publish(Over(versions[v].map, states, work), "RESTORED", {})
    /\ UNCHANGED <<drafts, pending, states, work, records>>

-----------------------------------------------------------------------------
(* What the user does meanwhile *)

Learn ==
    /\ \E c \in DOMAIN states \cap Learnt : /\ states[c] # "VERIFIED"
                                         /\ states' = [states EXCEPT ![c] = "VERIFIED"]
    /\ UNCHANGED <<versions, drafts, pending, work, records>>

\* A project is judged by what career_nodes holds of it.
WorkOn ==
    /\ \E p \in DOMAIN work \cap Worked :
         /\ Project(p) \in DOMAIN Current.nodes
         /\ \/ ~work[p].evidence /\ work' = [work EXCEPT ![p].evidence = TRUE]
            \/ /\ work[p].evidence /\ ~work[p].done
               /\ work' = [work EXCEPT ![p].done = TRUE, ![p].earned = work[p].way]
    /\ UNCHANGED <<versions, drafts, pending, states, records>>

\* V3EmploymentService.submit and the operator's review
Employ ==
    /\ \E role \in {id[2] : id \in {x \in DOMAIN Current.nodes : x[1] = "EMPLOYMENT_EVENT"}},
          m \in Months :
         /\ role \notin DOMAIN records
         /\ records' = (role :> [state |-> "EVIDENCED", months |-> m]) @@ records
    /\ UNCHANGED <<versions, drafts, pending, states, work>>
ReviewEmployment ==
    /\ \E role \in DOMAIN records, verdict \in {"VERIFIED", "REJECTED"} :
         /\ records[role].state = "EVIDENCED"
         /\ records' = [records EXCEPT ![role].state = verdict]
    /\ UNCHANGED <<versions, drafts, pending, states, work>>

RoadmapInit ==
    /\ versions = <<>> /\ drafts = {} /\ pending = NoProposal
    /\ states = <<>> /\ work = <<>> /\ records = <<>>

RoadmapNext ==
    \/ StartAnalysis \/ FinishAnalysis \/ DraftRemoval \/ Cancel \/ Apply \/ Restore
    \/ Learn \/ WorkOn \/ Employ \/ ReviewEmployment

-----------------------------------------------------------------------------
(* Properties *)

\* Whatever was added, removed or restored: a gate of experience that asks for
\* months can be met, by an interval that starts from an employment every entry
\* opportunity of the role may lead to, and no employment or interval is left of a
\* target that went (compiler_reference.py:43, 280; V3RoadmapCompiler).
CareerStepsStand ==
    versions # <<>> =>
      LET s == Current
          bare == [nodes |-> [id \in {x \in DOMAIN s.nodes : x[1] \notin Synthetic} |-> s.nodes[id]],
                   relations |-> {e \in s.relations : {e.from[1], e.to[1]} \cap Synthetic = {}}]
          fresh == WithCareer(bare)
      IN  /\ DOMAIN fresh.nodes = DOMAIN s.nodes /\ fresh.relations = s.relations
          /\ \A id \in DOMAIN s.nodes :
               id[1] = "EMPLOYMENT_EVENT" => s.nodes[id].refs = fresh.nodes[id].refs

\* A draft that is not outdated can be applied, unless two releases of the graph
\* have put two capabilities in opposite orders; what removes targets always can,
\* so there is a way out of that (compiler_reference.py:56-61; V3RoadmapService).
DraftsCanBeApplied ==
    /\ \A d \in drafts : d.base = Len(versions) =>
         Refusal(Current, d) \in (IF d.kind = "ANALYSIS" THEN {"none", "V3_ROADMAP_CYCLE"} ELSE {"none"})
    /\ Refusal(Current, Removal("RESET_TARGETS", Postings)) = "none"

\* A project shown as verified in a version that was applied was completed as it
\* is shown there, not as what it was before it was removed and planned anew
\* (V3ProjectProgressService.synchronize). A version that was restored shows the
\* project of then with the work of now.
VerifiedAsShown ==
    versions # <<>> /\ versions[Len(versions)].kind # "RESTORED" =>
      LET shown == Current.nodes
      IN  \A p \in {q \in DOMAIN work : Project(q) \in DOMAIN shown} :
            shown[Project(p)].progress = "VERIFIED" => work[p].earned = shown[Project(p)].way

\* Removing targets takes nothing a remaining target needs and nothing the user
\* has begun, and leaves nothing of what was removed
\* (compiler_reference.py:195-240).
RemovalIsExact ==
    (Len(versions') > Len(versions) /\ versions'[Len(versions')].targets # {}) =>
      LET before == Current
          after == versions'[Len(versions')].map
          gone == versions'[Len(versions')].targets
          stays == {id \in DOMAIN before.nodes :
                      id[1] \in {"TARGET_PROJECT", "OPPORTUNITY", "CAREER_GATE"} /\ id[2] \notin gone}
      IN  /\ stays \cup (Leading(DOMAIN before.nodes, before.relations, stays)
                           \cap {id \in DOMAIN before.nodes : id[1] = "CAPABILITY"})
               \subseteq DOMAIN after.nodes
          /\ \A id \in DOMAIN before.nodes :
               id[1] = "CAPABILITY" /\ before.nodes[id].progress # "NOT_STARTED" => id \in DOMAIN after.nodes
          /\ \A id \in DOMAIN after.nodes :
               /\ id[1] \in {"TARGET_PROJECT", "OPPORTUNITY", "CAREER_GATE"} => id \in stays
               /\ id[1] = "CAPABILITY" /\ id \notin Leading(DOMAIN after.nodes, after.relations, stays) =>
                    after.nodes[id].progress # "NOT_STARTED" \/ after.nodes[id].section = "common"

\* What both maps show of it is not less in the second
Keeps(before, after) ==
    \A id \in DOMAIN before \cap DOMAIN after :
      \/ id[1] = "CAPABILITY" /\ id[2] \in DOMAIN states
      \/ id[1] = "CAREER_GATE" /\ id[3] = "experience"
      => Level(before[id].progress) <= Level(after[id].progress)

\* No version that is published, applied or restored, takes back what the user has
\* proved of a registered capability, nor a gate that work has met
\* (V3AtomicCapabilityStateService, V3CareerProgressOverlay).
ProvedStaysProved == versions # <<>> => Keeps(Current.nodes, Current'.nodes)
=============================================================================
