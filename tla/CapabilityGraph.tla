--------------------------- MODULE CapabilityGraph ---------------------------
(***************************************************************************)
(* The capability graph: the releases an operator publishes, what a server *)
(* accepts to load, and the learning closure it answers with               *)
(* (capability_graph/release.py, contracts/capability_graph.py), as the    *)
(* client of the analysis checks it (port.py).  A release is data: the     *)
(* set Releases says which ones may lie at the configured path.            *)
(***************************************************************************)
EXTENDS Naturals, FiniteSets, FiniteSetsExt

CONSTANTS
    Releases,       \* what may lie at the configured path of the release
    Packaged,       \* the release the package carries
    Queries         \* what may be asked

\* relation: [from, to, type, accepts]; accepts is the set of values of the one
\* condition a conditional prerequisite has, and empty for all others.
Traversable == {"HARD_PREREQUISITE", "RECOMMENDED_FOUNDATION", "CONDITIONAL_PREREQUISITE"}

NoClosure == [kind |-> "NONE"]
Failure(kind) == [kind |-> kind]

VARIABLES
    served,         \* the release the server has loaded
    query,          \* the question of the client
    answer          \* what it got
graphVars == <<served, query, answer>>

-----------------------------------------------------------------------------
(* A release *)

\* _reject_cycles: in every set of nodes one leads out of it, or nowhere.
Acyclic(edges) ==
    LET nodes == UNION {{e[1], e[2]} : e \in edges}
    IN  \A S \in SUBSET nodes \ {{}} : \E n \in S : \A m \in S : <<n, m>> \notin edges

Edges(relations, types) == {<<r.from, r.to>> : r \in {x \in relations : x.type \in types}}

\* CapabilityGraphEdge.validate_conditions
ValidRelation(r) ==
    /\ r.from # r.to
    /\ r.type = "CONDITIONAL_PREREQUISITE" <=> r.accepts # {}

\* GraphRelease.validate_release: references resolve, and neither the
\* prerequisites nor the tasks run in a circle.
ValidRelease(r) ==
    /\ \A e \in r.relations : ValidRelation(e) /\ {e.from, e.to} \subseteq r.capabilities
    /\ \A t \in DOMAIN r.tasks : r.tasks[t] \subseteq DOMAIN r.tasks /\ t \notin r.tasks[t]
    /\ \A q \in r.requirements : q.task \in DOMAIN r.tasks /\ q.capability \in r.capabilities
    /\ Acyclic(Edges(r.relations, Traversable))
    /\ Acyclic(UNION {{<<t, d>> : d \in r.tasks[t]} : t \in DOMAIN r.tasks})

\* load_graph_release
Loads(r) == ValidRelease(r) /\ r.approved /\ r.hashed

\* load_active_graph_release: what cannot be loaded is replaced by the packaged
\* release.
Active(r) == IF Loads(r) THEN r ELSE Packaged

-----------------------------------------------------------------------------
(* The closure of a query *)

\* _resolve_project_tasks: the tasks asked for and all they depend on.
Resolved(r, tasks) ==
    LET Step(T) == T \cup UNION {r.tasks[t] : t \in T}
        after[n \in 0 .. Cardinality(DOMAIN r.tasks)] ==
          IF n = 0 THEN tasks ELSE Step(after[n - 1])
    IN  after[Cardinality(DOMAIN r.tasks)]

\* The requirements of these tasks of the necessity that is asked for.
Selected(r, q) ==
    {x \in r.requirements : x.task \in Resolved(r, q.tasks) /\ x.necessity \in q.necessities}

TargetsOf(r, q) == q.targets \cup {x.capability : x \in Selected(r, q)}

\* edge_applies: conditional prerequisites count whatever types are asked for.
\* An active condition has one value: of several the last.
Applies(e, q) ==
    /\ e.type \in q.include \cup {"CONDITIONAL_PREREQUISITE"}
    /\ e.accepts # {} => q.active \in e.accepts

Applicable(r, q) == {e \in r.relations : Applies(e, q)}

\* Mutant: what the user has learned is looked behind as well.
IncludedThrough(r, q, boundary) ==
    LET Step(S) == S \cup {e.from : e \in {x \in Applicable(r, q) : x.to \in S}}
        after[d \in 0 .. q.depth] ==
          IF d = 0 THEN TargetsOf(r, q) \cup boundary ELSE Step(after[d - 1])
    IN  after[q.depth]

\* The frontier: prerequisites of what is included, so many steps deep; there
\* is no need to look behind what the user has learned.
Included(r, q, boundary) ==
    LET Step(S) == S \cup {e.from : e \in {x \in Applicable(r, q) : x.to \in S \ boundary}}
        after[d \in 0 .. q.depth] ==
          IF d = 0 THEN TargetsOf(r, q) \cup boundary ELSE Step(after[d - 1])
    IN  after[q.depth]

\* _learning_order: the layer of a capability is the longest way to it.
LearningOrder(keys, edges) ==
    LET within == {e \in edges : {e.from, e.to} \subseteq keys}
        Step(S) == {e.to : e \in {x \in within : x.from \in S}}
        beyond[n \in 0 .. Cardinality(keys)] == IF n = 0 THEN keys ELSE Step(beyond[n - 1])
    IN  [k \in keys |-> Max({n \in 0 .. Cardinality(keys) : k \in beyond[n]})]

\* get_learning_closure
Closure(r, q) ==
    LET boundary == q.boundary \cap r.capabilities
        included == Included(r, q, boundary)
        edges == {e \in Applicable(r, q) : {e.from, e.to} \subseteq included}
    IN  [kind |-> "CLOSURE", version |-> r.version, hashed |-> TRUE,
         targets |-> TargetsOf(r, q), boundary |-> boundary,
         tasks |-> Resolved(r, q.tasks),
         origins |-> ({"DIRECT_CAPABILITY"} \X q.targets)
                       \cup ({"PROJECT_TASK_REQUIREMENT"} \X {x.capability : x \in Selected(r, q)}),
         nodes |-> included, edges |-> edges,
         order |-> LearningOrder(included \ boundary, edges),
         warned |-> q.boundary \ r.capabilities]

\* CapabilityGraphClosure.validate_graph
ValidClosure(c) ==
    /\ c.targets \cup c.boundary \cup DOMAIN c.order \subseteq c.nodes
    /\ \A e \in c.edges : {e.from, e.to} \subseteq c.nodes
    /\ Acyclic(Edges(c.edges, {"HARD_PREREQUISITE"}))

-----------------------------------------------------------------------------
(* The server and its client *)

\* CapabilityGraphQueryRequest.validate_keys, and the refusals of the port. A
\* question may be pinned to one version.
Answer(r, q) ==
    IF \/ q.targets \cup q.tasks = {}
       \/ ~q.include \subseteq Traversable
       \/ q.pin \notin {{}, {r.version}}
       \/ ~q.targets \subseteq r.capabilities
       \/ ~q.tasks \subseteq DOMAIN r.tasks
    THEN Failure("CONTRACT_ERROR")
    ELSE IF ValidClosure(Closure(r, q)) THEN Closure(r, q) ELSE Failure("CONTRACT_ERROR")

\* HttpCapabilityGraphPort.get_learning_closure: what the client takes.
Accepts(q, c) ==
    /\ c.kind = "CLOSURE"
    /\ q.pin \in {{}, {c.version}}
    /\ q.targets \subseteq c.targets
    /\ c.hashed

\* A call may not get through, or the server may fail.
Receive(r, q) ==
    {IF Accepts(q, Answer(r, q)) THEN Answer(r, q) ELSE Failure("CONTRACT_ERROR"),
     Failure("UNAVAILABLE")}

\* A server starts with what lies at its path. A bound: not after the answer,
\* which it could not change.
Deploy ==
    /\ answer = NoClosure
    /\ \E r \in Releases : served' = Active(r)
    /\ UNCHANGED <<query, answer>>

Ask ==
    /\ answer = NoClosure
    /\ \E q \in Queries : /\ query' = q
                          /\ answer' \in Receive(served, q)
    /\ UNCHANGED served

GraphInit == served = Packaged /\ query = (CHOOSE q \in Queries : TRUE) /\ answer = NoClosure
GraphNext == Deploy \/ Ask

-----------------------------------------------------------------------------
(* Properties *)

Answering == answer.kind = "CLOSURE"

\* The closure is what it is meant to be, in terms of ways through the graph:
\* the targets, what the user has learned, and whatever leads to a target in at
\* most maxDepth steps over nothing the user has learned
\* (release.py:218-232 against the query).
ClosureIsWhatLeadsToTargets ==
    LET r == served
        Ways(n) == {w \in [0 .. n -> r.capabilities] :
                      /\ w[n] \in answer.targets
                      /\ \A i \in 1 .. n : /\ w[i] \notin answer.boundary
                                           /\ \E e \in Applicable(r, query) :
                                                e.from = w[i - 1] /\ e.to = w[i]}
        MaxWay == Min({query.depth, Cardinality(r.capabilities)})
    IN  Answering /\ answer.version = r.version =>
          answer.nodes = answer.boundary \cup {w[0] : w \in UNION {Ways(n) : n \in 0 .. MaxWay}}

\* The learning order never puts a capability before, or beside, a prerequisite
\* of it, and leaves out exactly what the user has learned (release.py:351-378).
PrerequisitesComeFirst ==
    Answering =>
      /\ DOMAIN answer.order = answer.nodes \ answer.boundary
      /\ \A e \in answer.edges :
           {e.from, e.to} \subseteq DOMAIN answer.order => answer.order[e.from] < answer.order[e.to]

\* A release a server loads answers every well-formed question about it: no
\* closure it computes fails the contract it is sent under
\* (GraphRelease.validate_release against CapabilityGraphClosure.validate_graph).
LoadedReleaseAnswers ==
    answer = NoClosure => \A q \in Queries :
      /\ q.targets \subseteq served.capabilities /\ q.tasks \subseteq DOMAIN served.tasks
      /\ q.targets \cup q.tasks # {} /\ q.pin = {} /\ q.include \subseteq Traversable
      => Answer(served, q).kind = "CLOSURE"
=============================================================================
