------------------------------- MODULE Exports -------------------------------
(***************************************************************************)
(* What the exports of src/export.rs tell of a file: the edges of the      *)
(* graph, the operations of the OpenAPI document.                          *)
(***************************************************************************)
EXTENDS NameResolution

-----------------------------------------------------------------------------
(* export_dot.                                                              *)

\* The names of functions count, and nothing is bound.
RECURSIVE collect_expr_deps(_)
collect_expr_deps(e) ==
    LET OfParts(parts) == UNION {collect_expr_deps(parts[i]) : i \in DOMAIN parts}
    IN  OfParts(Parts(e)) \cup (IF e.tag \in {"var", "function"} THEN {e.name} ELSE {})

Deps(exprs) == UNION {collect_expr_deps(exprs[i]) : i \in DOMAIN exprs}

\* Bound names are taken out of everything collected for the step so far.
collect_pipe_op_deps(op, deps) ==
    CASE op.shape = "closure" -> (deps \cup collect_expr_deps(op.value)) \ {op.param}
      [] op.shape = "reduce" ->
           (deps \cup collect_expr_deps(op.initial) \cup collect_expr_deps(op.value)) \ {op.acc, op.param}
      [] op.shape = "expr" -> deps \cup collect_expr_deps(op.value)
      [] op.shape = "none" -> deps

RECURSIVE PipeDeps(_, _)
PipeDeps(operations, deps) ==
    IF operations = << >> THEN deps
    ELSE PipeDeps(Tail(operations), collect_pipe_op_deps(Head(operations), deps))

\* step_var_and_deps: the fallback of a call is not looked at.
step_deps(step) ==
    CASE step.kind = "let" -> Deps(<<step.value>>)
      [] step.kind = "command" -> {}
      [] step.kind \in {"fetch", "grpc", "db"} -> Deps(step.sent)
      [] step.kind = "pipe" -> PipeDeps(step.operations, Deps(<<step.source>>))

-----------------------------------------------------------------------------
(* What holds of them.                                                      *)

\* The edges into a step are the names it reads, as the planner sees them, and
\* those of the functions it calls, but for names a fallback reads and for those
\* a closure of the step binds.
EdgesAreReads(step, functions) ==
    LET bound == IF step.kind # "pipe" THEN {}
                 ELSE UNION {CASE op.shape = "closure" -> {op.param}
                               [] op.shape = "reduce" -> {op.acc, op.param}
                               [] OTHER -> {} : op \in Elements(step.operations)}
        fallback == IF step.kind \in {"fetch", "grpc", "db"} THEN Reads(step.fallback) ELSE {}
    IN  /\ step_deps(step) \ functions \subseteq step_reads(step)
        /\ (step_reads(step) \ (bound \cup fallback)) \subseteq step_deps(step)
=============================================================================
