------------------------------ MODULE Contract ------------------------------
(***************************************************************************)
(* The MXML contract of the constraint harness: what parse_mxml,           *)
(* validate_mxml and build_dag make of a source document.                  *)
(*                                                                         *)
(* A source is the element tree reduced to what those checks tell apart:   *)
(*   header    the XML is well formed, the root is <mxml version=..>, and  *)
(*             the required elements and attributes are there              *)
(*   limits    four integers, -1 standing for a text that _parse_int       *)
(*             refuses (absent, not a number, or negative)                 *)
(*   axioms    the set of axiom references                                 *)
(*   commands  a sequence of [id, isolation]                               *)
(*   tasks     a sequence of [id, command, depends_on, revision_limit],    *)
(*             where revision_limit is "absent", "integer" or "text"       *)
(***************************************************************************)
EXTENDS Integers, FiniteSets, Sequences

Ids(decls) == {decls[i].id : i \in DOMAIN decls}

\* The declaration repeats the id of an earlier one (the parser's `seen` set).
Repeated(decls, i) == \E j \in 1..(i - 1) : decls[j].id = decls[i].id

ParsesLimits(limits) == \A name \in DOMAIN limits : limits[name] >= 0

ParsesCommands(commands) ==
    /\ commands # <<>>
    /\ \A i \in DOMAIN commands : /\ ~Repeated(commands, i)
                                  /\ commands[i].isolation \in {"none", "process"}

(***************************************************************************)
(* The first faulty task decides how _parse_tasks ends: a repeated id is   *)
(* an MXMLParseError, a revision_limit that int() refuses is a ValueError, *)
(* which no caller expects.                                                *)
(***************************************************************************)
TaskFaults(tasks) ==
    {i \in DOMAIN tasks : Repeated(tasks, i) \/ tasks[i].revision_limit = "text"}

ParseTasks(tasks) ==
    IF tasks = <<>> THEN "MXMLParseError"
    ELSE IF TaskFaults(tasks) = {} THEN "ok"
    ELSE LET first == CHOOSE i \in TaskFaults(tasks) : \A j \in TaskFaults(tasks) : i <= j
         IN  IF Repeated(tasks, first) THEN "MXMLParseError" ELSE "ValueError"

ParseMxml(src) ==
    IF src.header /\ ParsesLimits(src.limits) /\ ParsesCommands(src.commands)
    THEN ParseTasks(src.tasks)
    ELSE "MXMLParseError"

\* DAG.edges: every declared task with the ids it depends on.
Edges(src) ==
    [t \in Ids(src.tasks) |->
        UNION {src.tasks[i].depends_on : i \in {j \in DOMAIN src.tasks : src.tasks[j].id = t}}]

(***************************************************************************)
(* What the depth first search of validate_mxml decides: every non-empty   *)
(* set of declared tasks has a member that depends on no member.  A name   *)
(* that is not declared has no successors there, so it closes no cycle.    *)
(***************************************************************************)
Acyclic(edges) ==
    \A S \in SUBSET DOMAIN edges : S # {} => \E t \in S : edges[t] \cap S = {}

ValidateMxml(src) ==
    /\ src.limits.max_workers >= 1
    /\ src.limits.timeout_seconds >= 1
    /\ Len(src.tasks) <= src.limits.max_tasks
    /\ \A i \in DOMAIN src.tasks : src.tasks[i].command \in Ids(src.commands)
    /\ Acyclic(Edges(src))

(***************************************************************************)
(* Kahn's algorithm in build_dag: the n-th entry is a task whose           *)
(* in_degree has fallen to zero, that is, all of whose dependencies were   *)
(* taken before.  The order inside the queue is left open.                 *)
(***************************************************************************)
KahnOrder(edges) ==
    LET Taken(order) == {order[i] : i \in DOMAIN order}
        Order[n \in 0..Cardinality(DOMAIN edges)] ==
            IF n = 0 THEN <<>>
            ELSE LET before == Order[n - 1]
                     queue  == {t \in DOMAIN edges \ Taken(before) :
                                    edges[t] \subseteq Taken(before)}
                 IN  IF queue = {} THEN before
                     ELSE Append(before, CHOOSE t \in queue : TRUE)
    IN  Order[Cardinality(DOMAIN edges)]

MissingDependency(edges) == \E t \in DOMAIN edges : ~(edges[t] \subseteq DOMAIN edges)

BuildsDag(edges) ==
    /\ ~MissingDependency(edges)
    /\ \A t \in DOMAIN edges : t \notin edges[t]
    /\ Len(KahnOrder(edges)) = Cardinality(DOMAIN edges)

\* Variant: one finished dependency is enough.
ReadyOnAny(edges, completed) ==
    {t \in DOMAIN edges \ completed : edges[t] = {} \/ edges[t] \cap completed # {}}


\* DAG.ready
ReadyTasks(edges, completed) ==
    {t \in DOMAIN edges \ completed : edges[t] \subseteq completed}
=============================================================================
