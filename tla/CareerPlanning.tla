--------------------------- MODULE CareerPlanning ---------------------------
(***************************************************************************)
(* From a selected position to a draft of the user's roadmap: the project  *)
(* a language model drafts and the compiler that takes, repairs or refuses *)
(* it (project_planning/service.py), the capabilities its tasks stand for  *)
(* (normalization/service.py), their learning closure, which the graph     *)
(* server answers (CapabilityGraph), and the operations on the roadmap     *)
(* (roadmap/service.py) under their contract (contracts/roadmap.py).  What *)
(* the model drafts is a choice.                                           *)
(***************************************************************************)
EXTENDS CapabilityGraph, TLC

CONSTANTS
    Positions,      \* the selected position of an analysis, see Learnable
    Drafts,         \* what the language model may answer
    Roadmaps        \* what the user's roadmap holds already

\* A position: category and obligation of each requirement, what the tasks may
\* refer to besides, the experience it asks for, and what the user has proved.
\*   [category, obligation, duties, kind, months, verified]
\* A draft: [tasks: key -> [caps, reqs, deps], unresolved].
\* A roadmap: node -> progress, with the tasks of its project.
LearningCategories == {"TECHNOLOGY", "TECHNICAL_CAPABILITY", "DOMAIN_KNOWLEDGE"}
FormalCategories == {"CREDENTIAL", "CERTIFICATION", "LANGUAGE"}

VARIABLES
    position,
    stage,          \* where the analysis stands, or how it failed
    catalog,        \* the catalog it has read
    blueprint,
    proposal
planningVars == <<position, stage, catalog, blueprint, proposal, served, query, answer>>

Nothing == [tasks |-> <<>>, unresolved |-> {}, excluded |-> {}]
Failed(code) == stage' = code

-----------------------------------------------------------------------------
(* The project: what the draft becomes *)

RequirementIds(p) == DOMAIN p.category \cup p.duties

\* LEARNING_CATEGORIES and the obligation: what a project has to teach.
Learnable(p) ==
    {r \in DOMAIN p.category : /\ p.category[r] \in LearningCategories
                               /\ p.obligation[r] \in {"REQUIRED", "PREFERRED"}}

\* _necessity. A duty counts as required.
Necessity(p, requirements) ==
    LET obligations == {IF r \in p.duties THEN "REQUIRED" ELSE p.obligation[r] : r \in requirements}
    IN  IF "REQUIRED" \in obligations THEN "REQUIRED"
        ELSE IF "PREFERRED" \in obligations THEN "RECOMMENDED"
        ELSE "EXTENSION"

Dependencies(tasks) == UNION {{<<t, d>> : d \in tasks[t].deps} : t \in DOMAIN tasks}

\* _validate_task_dependencies
DependenciesStand(p, tasks) ==
    /\ Acyclic(Dependencies(tasks))
    /\ \A t \in DOMAIN tasks : Necessity(p, tasks[t].reqs) = "REQUIRED" =>
         \A d \in tasks[t].deps : Necessity(p, tasks[d].reqs) # "EXTENSION"

\* _compile_draft: why a draft is refused. A task that depends on itself is
\* refused where it is built, in words that ask for no repair.
Fatal(draft) == \E t \in DOMAIN draft.tasks : t \in draft.tasks[t].deps
Unknowns(p, draft) ==
    \/ ~draft.unresolved \subseteq RequirementIds(p)
    \/ \E t \in DOMAIN draft.tasks :
         \/ ~draft.tasks[t].deps \subseteq DOMAIN draft.tasks
         \/ ~draft.tasks[t].caps \subseteq catalog.capabilities
         \/ ~draft.tasks[t].reqs \subseteq RequirementIds(p)

Covered(p, draft) == Learnable(p) \cap UNION {draft.tasks[t].reqs : t \in DOMAIN draft.tasks}
Missing(p, draft) == Learnable(p) \ (Covered(p, draft) \cup draft.unresolved)

\* Mutant: what the second draft leaves out stays out.
Forgetful(p, draft, lenient) == draft.unresolved \cap Learnable(p)

\* The first draft must account for every learnable requirement, what the
\* second leaves out is left to an operator.
Unresolved(p, draft, lenient) ==
    (draft.unresolved \cap Learnable(p)) \cup (IF lenient THEN Missing(p, draft) ELSE {})

Compiles(p, draft, lenient) ==
    /\ ~Unknowns(p, draft)
    /\ lenient \/ Missing(p, draft) = {}
    /\ DependenciesStand(p, draft.tasks)

Blueprint(p, draft, lenient) ==
    [tasks |-> [t \in DOMAIN draft.tasks |->
                  draft.tasks[t] @@ [necessity |-> Necessity(p, draft.tasks[t].reqs)]],
     unresolved |-> Unresolved(p, draft, lenient)]

\* CompanyProjectBlueprint.validate_blueprint: a project of nothing is refused,
\* outside of what plan() catches.
Accept(p, draft, lenient) ==
    IF DOMAIN draft.tasks = {} /\ Unresolved(p, draft, lenient) = {}
    THEN Failed("INTERNAL_ERROR") /\ UNCHANGED blueprint
    ELSE stage' = "PLANNED" /\ blueprint' = Blueprint(p, draft, lenient)

ReadCatalog ==
    /\ stage = "STARTED"
    /\ \/ stage' = "CATALOG" /\ catalog' = served
       \/ Failed("CAPABILITY_NOT_AVAILABLE") /\ UNCHANGED catalog
    /\ UNCHANGED <<position, blueprint, proposal, graphVars>>

\* ProjectPlanningService.plan: one draft, and one more if it can be repaired.
PlanProject ==
    /\ stage = "CATALOG"
    /\ \/ Failed("AI_PROVIDER_UNAVAILABLE") /\ UNCHANGED blueprint
       \/ \E draft \in Drafts :
            CASE Compiles(position, draft, FALSE) /\ ~Fatal(draft) -> Accept(position, draft, FALSE)
              [] Fatal(draft) /\ ~Unknowns(position, draft) ->
                   Failed("CONTRACT_VALIDATION_FAILED") /\ UNCHANGED blueprint
              [] OTHER -> stage' = "REPAIR" /\ UNCHANGED blueprint
    /\ UNCHANGED <<position, catalog, proposal, graphVars>>

RepairProject ==
    /\ stage = "REPAIR"
    /\ \E draft \in Drafts :
         IF Compiles(position, draft, TRUE) /\ ~Fatal(draft)
         THEN Accept(position, draft, TRUE)
         ELSE Failed("CONTRACT_VALIDATION_FAILED") /\ UNCHANGED blueprint
    /\ UNCHANGED <<position, catalog, proposal, graphVars>>

-----------------------------------------------------------------------------
(* The capabilities of the project and their prerequisites *)

\* _disposition
Disposition(category) ==
    CASE category \in LearningCategories -> "LEARNING_CAPABILITY"
      [] category \in {"RESPONSIBILITY", "PORTFOLIO"} -> "PROJECT_CONTEXT"
      [] category \in FormalCategories \cup {"EXPERIENCE"} -> "CAREER_GATE"
      [] category = "BEHAVIORAL" -> "FIT_ONLY"
      [] category = "EMPLOYMENT_CONDITION" -> "EMPLOYMENT_INFORMATION"
      [] OTHER -> "REVIEW_REQUIRED"

CapabilitiesOf(tasks, r) == UNION {tasks[t].caps : t \in {u \in DOMAIN tasks : r \in tasks[u].reqs}}

\* compile_project_normalization: a requirement is what its tasks train.
Decision(p, b, r) ==
    LET count == Cardinality(CapabilitiesOf(b.tasks, r))
    IN  CASE Disposition(p.category[r]) = "REVIEW_REQUIRED" -> "UNRESOLVED"
          [] Disposition(p.category[r]) # "LEARNING_CAPABILITY" -> "NOT_APPLICABLE"
          [] count = 0 -> "NEW_CANDIDATE_PROPOSED"
          [] count = 1 -> "AUTO_SELECTED"
          [] OTHER -> "SPLIT_REQUIRED"

ProjectCapabilities(b) == UNION {b.tasks[t].caps : t \in DOMAIN b.tasks}

\* get_learning_closure as the analysis asks: what the project needs, down to
\* what the user has verified. No version is asked for.
Question(p, b) ==
    [targets |-> ProjectCapabilities(b), tasks |-> {}, boundary |-> p.verified \cap catalog.capabilities,
     necessities |-> {"REQUIRED"}, include |-> {"HARD_PREREQUISITE", "RECOMMENDED_FOUNDATION"},
     active |-> "none", pin |-> {}, depth |-> 20]

EmptyClosure == [kind |-> "CLOSURE", version |-> catalog.version, nodes |-> {}, edges |-> {},
                 targets |-> {}, boundary |-> {}, order |-> <<>>]

LookUpGraph ==
    /\ stage = "PLANNED"
    /\ query' = Question(position, blueprint)
    /\ answer' \in IF query'.targets = {} THEN {EmptyClosure} ELSE Receive(served, query')
    /\ CASE answer'.kind = "UNAVAILABLE" -> Failed("CAPABILITY_NOT_AVAILABLE")
         [] answer'.kind = "CONTRACT_ERROR" -> Failed("CONTRACT_VALIDATION_FAILED")
         [] OTHER -> stage' = "LINKED"
    /\ UNCHANGED <<position, catalog, blueprint, proposal, served>>

\* A new release is served while the analysis goes on.
Redeploy ==
    /\ stage \in {"CATALOG", "PLANNED"}
    /\ \E r \in Releases : served' = Active(r)
    /\ UNCHANGED <<position, stage, catalog, blueprint, proposal, query, answer>>

-----------------------------------------------------------------------------
(* The draft of the roadmap *)

\* _curriculum_targets
RequiredKeys(b) ==
    UNION {b.tasks[t].caps : t \in {u \in DOMAIN b.tasks : b.tasks[u].necessity = "REQUIRED"}}
PreferredKeys(b) == ProjectCapabilities(b) \ RequiredKeys(b)

\* What no capability of the graph stands for becomes a node of the user's own,
\* if the project names it as unresolved.
Provisional(p, b) ==
    {r \in b.unresolved \cap Learnable(p) : Decision(p, b, r) = "NEW_CANDIDATE_PROPOSED"}

Mapped(b) == UNION {b.tasks[t].reqs : t \in DOMAIN b.tasks}

\* What is left out is named.
Excluded(p, b) ==
    {r \in DOMAIN p.category : r \notin Learnable(p) \/ r \notin Provisional(p, b) \cup Mapped(b)}

\* _add_gates: months of experience, and the formal requirements.
ExperienceMonths(p) ==
    CASE p.kind \in {"EXPERIENCE_REQUIRED", "RANGE"} -> p.months
      [] p.kind = "EXPERIENCED_TRACK" -> p.months
      [] OTHER -> 0
Gates(p) ==
    (IF ExperienceMonths(p) > 0 THEN {"experience"} ELSE {})
      \cup {r \in DOMAIN p.category : p.category[r] \in FormalCategories /\ p.obligation[r] = "REQUIRED"}

Project == <<"project", "">>
Opportunity == <<"opportunity", "">>
Capability(c) == <<"capability", c>>
Candidate(r) == <<"candidate", r>>
Gate(g) == <<"gate", g>>

\* The nodes the proposal is about.
Nodes(p, b, c) ==
    {Capability(k) : k \in c.nodes} \cup {Candidate(r) : r \in Provisional(p, b)}
      \cup {Gate(g) : g \in Gates(p)} \cup {Project, Opportunity}

\* A node that exists is reused with its progress; a new capability starts with
\* what the user has proved.
Operation(p, roadmap, node) ==
    IF node \in DOMAIN roadmap.progress
    THEN [action |-> "REUSE_NODE", progress |-> roadmap.progress[node]]
    ELSE [action |-> "CREATE",
          progress |-> IF node[1] = "capability" /\ node[2] \in p.verified
                       THEN "VERIFIED" ELSE "NOT_STARTED"]

\* The relations of the closure, and what leads to the project, from there to
\* the opportunity, and through the gates.
Relations(p, b, c) ==
    {[from |-> Capability(e.from), to |-> Capability(e.to), type |-> e.type] : e \in c.edges}
      \cup {[from |-> Capability(k), to |-> Project, type |-> "UNLOCKS_PROJECT"] : k \in RequiredKeys(b)}
      \cup {[from |-> Capability(k), to |-> Project, type |-> "BONUS_SUPPORTS_PROJECT"] :
              k \in PreferredKeys(b)}
      \cup {[from |-> Candidate(r), to |-> Project,
             type |-> IF p.obligation[r] = "REQUIRED" THEN "UNLOCKS_PROJECT"
                      ELSE "BONUS_SUPPORTS_PROJECT"] : r \in Provisional(p, b)}
      \cup {[from |-> Project, to |-> Opportunity, type |-> "UNLOCKS_OPPORTUNITY"]}
      \cup {[from |-> Gate(g), to |-> Opportunity, type |-> "REQUIRES_GATE"] : g \in Gates(p)}

Blocking == {"HARD_PREREQUISITE", "CONDITIONAL_PREREQUISITE", "UNLOCKS_PROJECT", "REQUIRES_GATE",
             "UNLOCKS_OPPORTUNITY"}

\* RoadmapProposal.validate_operations, ProjectSpec.validate_capabilities and
\* OpportunitySpec.validate_career_stage: who asks for experience asks for some.
ValidProposal(p, b, ops, relations, project) ==
    /\ \A e \in relations : {e.from, e.to} \subseteq DOMAIN ops /\ e.from # e.to
    /\ Acyclic(Edges(relations, Blocking))
    /\ project.required \cap project.preferred = {}
    /\ p.kind \in {"EXPERIENCE_REQUIRED", "RANGE"} => p.months > 0

\* RoadmapDraftService.compose and _require_actionable_roadmap_proposal
Compose(roadmap) ==
    LET ops == [n \in Nodes(position, blueprint, answer) |-> Operation(position, roadmap, n)]
        relations == Relations(position, blueprint, answer)
        project == [required |-> RequiredKeys(blueprint), preferred |-> PreferredKeys(blueprint)]
        tasks == IF ops[Project].action = "REUSE_NODE" THEN roadmap.tasks ELSE DOMAIN blueprint.tasks
    IN  CASE ~ProjectCapabilities(blueprint) \subseteq answer.targets -> Failed("CONTRACT_VALIDATION_FAILED")
                                                                           /\ UNCHANGED proposal
          [] ~ValidProposal(position, blueprint, ops, relations, project) ->
               Failed("INTERNAL_ERROR") /\ UNCHANGED proposal
          [] tasks = {} -> Failed("CONTRACT_VALIDATION_FAILED") /\ UNCHANGED proposal
          [] OTHER ->
               /\ stage' = "COMPLETED"
               /\ proposal' = [ops |-> ops, relations |-> relations, project |-> project,
                               tasks |-> tasks, version |-> answer.version,
                               excluded |-> Excluded(position, blueprint)]

ComposeRoadmap ==
    /\ stage = "LINKED"
    /\ \E roadmap \in Roadmaps : Compose(roadmap)
    /\ UNCHANGED <<position, catalog, blueprint, graphVars>>

-----------------------------------------------------------------------------
PlanningInit ==
    /\ GraphInit
    /\ position \in Positions /\ stage = "STARTED"
    /\ catalog = Packaged /\ blueprint = Nothing /\ proposal = Nothing

PlanningNext ==
    \/ ReadCatalog \/ PlanProject \/ RepairProject \/ LookUpGraph \/ Redeploy \/ ComposeRoadmap

-----------------------------------------------------------------------------
(* Properties *)

\* Whatever the model drafts, whatever was repaired and whatever the graph says:
\* a learnable requirement of the posting is trained by a task of the project or
\* has a node of its own, and is never among what is left out (the checks of
\* project_planning/service.py:484-491, the decision of normalization/service.py
\* :274-331 and the targets of roadmap/service.py:517-555 fit together). A roadmap
\* that has the project already keeps the tasks it has.
NoRequirementForgotten ==
    stage = "COMPLETED" =>
      \A r \in Learnable(position) :
        \/ \E t \in proposal.tasks \cap DOMAIN blueprint.tasks : r \in blueprint.tasks[t].reqs
        \/ Candidate(r) \in DOMAIN proposal.ops
        \/ r \notin proposal.excluded /\ proposal.ops[Project].action = "REUSE_NODE"

\* What is compiled from an accepted project meets the contract of a proposal,
\* unless the posting gives a range of experience from zero months, or the
\* project is one of nothing (roadmap/service.py:425, contracts/roadmap.py:185,
\* contracts/project_planning.py:67).
OnlyKnownInternalErrors ==
    stage = "INTERNAL_ERROR" =>
      \/ position.kind = "RANGE" /\ position.months = 0
      \/ Learnable(position) = {} /\ blueprint = Nothing

\* Everything the user has to do before the opportunity leads to it: no node of
\* a proposal hangs in the air, except a capability the user has verified and
\* the prerequisites of one (roadmap/service.py:264-415).
EveryStepLeadsToTheOpportunity ==
    stage = "COMPLETED" =>
      LET edges == {<<e.from, e.to>> : e \in proposal.relations}
          Step(S) == S \cup {e[1] : e \in {x \in edges : x[2] \in S}}
          leads[n \in 0 .. Cardinality(DOMAIN proposal.ops)] ==
            IF n = 0 THEN {Opportunity} ELSE Step(leads[n - 1])
      IN  \A n \in DOMAIN proposal.ops :
            n \in leads[Cardinality(DOMAIN proposal.ops)] \/ n \in {Capability(c) : c \in position.verified}
=============================================================================
