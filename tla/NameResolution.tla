--------------------------- MODULE NameResolution ---------------------------
(***************************************************************************)
(* Names, from the file to the answer: which names an endpoint reads and   *)
(* how the planner resolves them (src/planner.rs), which constants the     *)
(* linter calls unused (src/linter.rs), what the gateway binds             *)
(* (src/runtime/functions.rs), and what the planned layers then compute    *)
(* (src/runtime/mod.rs).  The layers of a dependency graph are PlanDefs.   *)
(*                                                                         *)
(* An optional expression is a sequence of at most one.  What an upstream  *)
(* or a command answers is a function of what it was sent; it answers or   *)
(* it fails.                                                               *)
(***************************************************************************)
EXTENDS PipeOps, Functions

Plans(n) == INSTANCE PlanDefs WITH N <- n

Let(var, value) == [kind |-> "let", var |-> var, value |-> value]
Command(var) == [kind |-> "command", var |-> var]
\* fetch, grpc::call and db::query: the expressions sent, and the fallback.
\* (A url and a body, a payload, a source and parameters.)
Call(kind, var, sent, fallback) ==
    [kind |-> kind, var |-> var, sent |-> sent, fallback |-> fallback]
PipeStep(var, source, operations) ==
    [kind |-> "pipe", var |-> var, source |-> source, operations |-> operations]

Elements(seq) == {seq[i] : i \in DOMAIN seq}

-----------------------------------------------------------------------------
(* Reads.                                                                   *)

RECURSIVE collect_expr_reads(_, _)
collect_expr_reads(e, bound) ==
    LET OfParts(parts) == UNION {collect_expr_reads(parts[i], bound) : i \in DOMAIN parts}
    IN  IF e.tag = "var" THEN {e.name} \ bound ELSE OfParts(Parts(e))

Reads(exprs) == UNION {collect_expr_reads(exprs[i], {}) : i \in DOMAIN exprs}

\* Mutant of collect_pipe_op_reads: the initial value is taken to be inside.
OpReadsInside(op) ==
    CASE op.shape = "closure" -> collect_expr_reads(op.value, {op.param})
      [] op.shape = "reduce" ->
           collect_expr_reads(op.initial, {op.acc, op.param})
             \cup collect_expr_reads(op.value, {op.acc, op.param})
      [] op.shape = "expr" -> collect_expr_reads(op.value, {})
      [] op.shape = "none" -> {}

collect_pipe_op_reads(op) ==
    CASE op.shape = "closure" -> collect_expr_reads(op.value, {op.param})
      [] op.shape = "reduce" ->
           collect_expr_reads(op.initial, {}) \cup collect_expr_reads(op.value, {op.acc, op.param})
      [] op.shape = "expr" -> collect_expr_reads(op.value, {})
      [] op.shape = "none" -> {}

step_reads(step) ==
    CASE step.kind = "let" -> Reads(<<step.value>>)
      [] step.kind = "command" -> {}
      [] step.kind \in {"fetch", "grpc", "db"} -> Reads(step.sent) \cup Reads(step.fallback)
      [] step.kind = "pipe" ->
           Reads(<<step.source>>)
             \cup UNION {collect_pipe_op_reads(op) : op \in Elements(step.operations)}

response_reads(endpoint) ==
    Reads(endpoint.body) \cup Reads(endpoint.headers) \cup Reads(endpoint.cookies)

\* endpoint.rules are the rules of all secure options, in order.
secure_reads(endpoint) ==
    UNION {Reads(rule.secret) \cup Reads(rule.username) \cup Reads(rule.password)
             \cup Reads(rule.checks) : rule \in Elements(endpoint.rules)}

-----------------------------------------------------------------------------
(* The planner up to the layers.                                            *)

ContextVars == {"basic", "body", "env", "jwt", "query", "headers", "cookies"}
\* Mutant of is_endpoint_context_var: path parameters are forgotten.
OnlyContextVar(name, endpoint) == name \in ContextVars

is_endpoint_context_var(name, endpoint) == name \in ContextVars \cup endpoint.params

Globals(file) == {db.name : db \in Elements(file.dbs)} \cup {c.name : c \in Elements(file.constants)}

\* The steps each step waits for: those that produce a name it reads, wherever
\* they are, unless the name is known to mean something else.
Dependencies(steps, known) ==
    [s \in 0 .. (Len(steps) - 1) |->
       {i - 1 : i \in {j \in DOMAIN steps : /\ steps[j].var \in step_reads(steps[s + 1])
                                             /\ steps[j].var \notin known}}]

\* The plan of one endpoint, or the error it is rejected with.
build_endpoint_plan(endpoint, globals) ==
    LET steps == endpoint.steps
        n == Len(steps)
        Producers(name) == {i \in DOMAIN steps : steps[i].var = name}
        Known(name) == name \in globals \/ is_endpoint_context_var(name, endpoint)
        Unresolved(names) == {name \in names : ~Known(name)}
        graph == Dependencies(steps, {name \in {steps[i].var : i \in DOMAIN steps} : Known(name)})
        Rejected(error) == [error |-> error, layers |-> << >>]
    IN  IF \E i, j \in DOMAIN steps : i # j /\ steps[i].var = steps[j].var
          THEN Rejected("duplicate")
        ELSE IF \/ \E i \in DOMAIN steps : \E name \in Unresolved(step_reads(steps[i])) :
                     Producers(name) = {}
                \/ Unresolved(secure_reads(endpoint)) # {}
                \/ \E name \in Unresolved(response_reads(endpoint)) : Producers(name) = {}
          THEN Rejected("undefined")
        ELSE IF Plans(n)!HasCycle(graph) THEN Rejected("cycle")
        ELSE [error |-> "none", layers |-> Plans(n)!PlanOf(graph, endpoint.sync)]

build_plan(file) ==
    [i \in DOMAIN file.endpoints |-> build_endpoint_plan(file.endpoints[i], Globals(file))]

Planned(file) == \A i \in DOMAIN file.endpoints : build_plan(file)[i].error = "none"

-----------------------------------------------------------------------------
(* The linter's constants.  Its collectors are the planner's, word for word.*)

collect_endpoint_reads(endpoint) ==
    secure_reads(endpoint) \cup UNION {step_reads(s) : s \in Elements(endpoint.steps)}
      \cup response_reads(endpoint)

\* The constants read by an endpoint, or by a constant that is used.
RECURSIVE UsedFrom(_, _)
UsedFrom(used, constants) ==
    LET names == {c.name : c \in Elements(constants)}
        more == UNION {Reads(<<c.value>>) : c \in {d \in Elements(constants) : d.name \in used}}
    IN  IF (more \cap names) \subseteq used THEN used
        ELSE UsedFrom(used \cup (more \cap names), constants)

\* Mutant of used_constants: what used constants read is not looked at.
UsedByEndpoints(file) ==
    LET read == UNION {collect_endpoint_reads(e) : e \in Elements(file.endpoints)}
    IN  read \cap {c.name : c \in Elements(file.constants)}

used_constants(file) ==
    LET read == UNION {collect_endpoint_reads(e) : e \in Elements(file.endpoints)}
    IN  UsedFrom(read \cap {c.name : c \in Elements(file.constants)}, file.constants)

-----------------------------------------------------------------------------
(* What the gateway binds, and what a request computes.                     *)

\* Constants are evaluated in source order on the databases, env and the
\* constants before them; an error stops the start of the gateway.
RECURSIVE ConstantsBound(_, _)
ConstantsBound(scope, constants) ==
    IF constants = << >> THEN [ok |-> TRUE, scope |-> scope]
    ELSE LET value == eval_expr(Head(constants).value, scope)
         IN  IF IsError(value) THEN [ok |-> FALSE, scope |-> scope]
             ELSE ConstantsBound(Bound(scope, Head(constants).name, value), Tail(constants))

\* env_file is empty, or the one file that is named: whether it can be read, its entries.
load_env_file(env_file) ==
    IF env_file = << >> THEN [readable |-> TRUE, entries |-> Obj(<< >>)] ELSE env_file[1]

gateway_vars(file) ==
    LET dbs == [name \in {db.name : db \in Elements(file.dbs)} |->
                  (CHOOSE db \in Elements(file.dbs) : db.name = name).url]
        env == load_env_file(file.env_file)
    IN  IF ~env.readable THEN [ok |-> FALSE, scope |-> dbs]
        ELSE ConstantsBound(Bound(dbs, "env", env.entries), file.constants)

\* fetch_http, call_grpc and query_db: everything sent is evaluated first, the
\* fallback only when the call has failed.
CallValue(step, sent, scope, answered) ==
    IF AnyError(sent) THEN FirstError(sent)
    ELSE IF answered THEN Arr(sent)
    ELSE IF step.fallback # << >> THEN eval_expr(step.fallback[1], scope)
    ELSE Failure

execute_step(step, scope, answered) ==
    CASE step.kind = "let" -> eval_expr(step.value, scope)
      [] step.kind = "command" -> IF answered THEN Str(<< >>) ELSE Failure
      [] step.kind = "pipe" -> execute_pipe(step.source, step.operations, scope)
      [] step.kind \in {"fetch", "grpc", "db"} -> 
           CallValue(step, [i \in DOMAIN step.sent |-> eval_expr(step.sent[i], scope)], scope, answered)

\* Mutant of JoinLayer: a step that fails leaves its name unbound.
JoinSuccesses(layer, steps, value, scope) ==
    LET done == {s \in layer : ~IsError(value[s])}
    IN  [ok |-> TRUE,
         scope |-> [name \in {steps[s + 1].var : s \in done} |->
                      value[CHOOSE s \in done : steps[s + 1].var = name]] @@ scope]

\* A layer is joined: its values are bound, or the first error ends the request.
JoinLayer(layer, steps, value, scope) ==
    IF AnyError(value) THEN [ok |-> FALSE, scope |-> scope]
    ELSE [ok |-> TRUE,
          scope |-> [name \in {steps[s + 1].var : s \in layer} |->
                       value[CHOOSE s \in layer : steps[s + 1].var = name]] @@ scope]

\* Layers one after the other, each on the variables of those before it.
RECURSIVE RunLayers(_, _, _, _)
RunLayers(layers, steps, run, answered) ==
    IF layers = << >> \/ ~run.ok THEN run
    ELSE RunLayers(Tail(layers), steps,
                   JoinLayer(Head(layers), steps,
                             [s \in Head(layers) |-> execute_step(steps[s + 1], run.scope, answered)],
                             run.scope),
                   answered)

\* The body, the headers and the cookies.
eval_response(endpoint, run) ==
    IF run.ok THEN eval_expr(Array(endpoint.body \o endpoint.headers \o endpoint.cookies), run.scope)
    ELSE Failure

execute(endpoint, layers, scope, answered) ==
    eval_response(endpoint, RunLayers(layers, endpoint.steps, [ok |-> TRUE, scope |-> scope], answered))

-----------------------------------------------------------------------------
(* What the parts promise one another.                                      *)

\* The value of a step is a function of the names the planner says it reads,
\* and with these bound no name is found undefined: the dependencies are all there is.
StepNeedsOnlyItsReads(step, scope, answered) ==
    LET known == step_reads(step) \cap DOMAIN scope
        Agree(value, lean) == /\ Same(value, lean)
                              /\ step_reads(step) \subseteq DOMAIN scope => value.t # "undefined"
    IN  Agree(execute_step(step, scope, answered), execute_step(step, Restrict(scope, known), answered))

\* The value of a name as the file reads: what the gateway or the request
\* binds it to, or what its step computes from the values of the names it reads.
RECURSIVE Meaning(_, _, _, _)
Meaning(name, endpoint, base, answered) ==
    LET steps == endpoint.steps
        producers == {i \in DOMAIN steps : steps[i].var = name}
        step == steps[CHOOSE i \in producers : TRUE]
        read == [r \in step_reads(step) |-> Meaning(r, endpoint, base, answered)]
        scope == Restrict(read, {r \in DOMAIN read : read[r].t # "undefined"})
        NoError(value) == IF IsError(value) THEN Failure ELSE value
    IN  IF name \in DOMAIN base \/ producers = {} THEN get_var(base, name)
        ELSE IF AnyError(scope) THEN Failure
        ELSE NoError(execute_step(step, scope, answered))

ResponseMeaning(endpoint, base, answered) ==
    LET value == [name \in {s.var : s \in Elements(endpoint.steps)} |->
                    Meaning(name, endpoint, base, answered)]
    IN  IF AnyError(value) THEN Failure
        ELSE eval_expr(Array(endpoint.body \o endpoint.headers \o endpoint.cookies),
                       base @@ value)

\* An accepted endpoint without sync blocks computes what it says, whatever
\* the layers, as long as no step has the name of something else in scope.
LayersComputeTheMeaning(endpoint, file, base, answered) ==
    LET plan == build_endpoint_plan(endpoint, Globals(file))
        shadows == {s.var : s \in Elements(endpoint.steps)} \cap DOMAIN base
    IN  (plan.error = "none" /\ endpoint.sync = {} /\ shadows = {}) =>
          Same(execute(endpoint, plan.layers, base, answered),
               ResponseMeaning(endpoint, base, answered))

\* The planner rejects exactly what has no meaning: with unique names, an
\* endpoint is accepted if and only if each name it reads is in scope or is
\* computed, from what is in scope, in finitely many steps.
RECURSIVE Computable(_, _, _)
Computable(names, endpoint, known) ==
    LET next == names \cup {s.var : s \in {t \in Elements(endpoint.steps) :
                                             step_reads(t) \subseteq known \cup names}}
    IN  IF next = names THEN names ELSE Computable(next, endpoint, known)

AcceptsWhatIsComputable(endpoint, file) ==
    LET known == Globals(file) \cup ContextVars \cup endpoint.params
        vars == {s.var : s \in Elements(endpoint.steps)}
        computed == Computable({}, endpoint, known)
    IN  build_endpoint_plan(endpoint, Globals(file)).error = "none"
          <=> /\ Cardinality(vars) = Len(endpoint.steps)
              /\ vars \subseteq computed
              /\ response_reads(endpoint) \subseteq known \cup computed
              /\ secure_reads(endpoint) \subseteq known

\* Deleting the constants the linter calls unused changes neither what is
\* accepted, nor whether the gateway starts when it did, nor any answer.
UnusedConstantsCanGo(file, base, answered) ==
    LET used == used_constants(file)
        lean == [file EXCEPT !.constants = SelectSeq(@, LAMBDA c : c.name \in used)]
        Agree(before, after) ==
            /\ build_plan(lean) = build_plan(file)
            /\ before.ok => after.ok
            /\ (before.ok /\ Planned(file)) =>
                 \A i \in DOMAIN file.endpoints :
                     Same(execute(file.endpoints[i], build_plan(file)[i].layers, base @@ before.scope, answered),
                          execute(file.endpoints[i], build_plan(file)[i].layers, base @@ after.scope, answered))
    IN  Agree(gateway_vars(file), gateway_vars(lean))
=============================================================================
