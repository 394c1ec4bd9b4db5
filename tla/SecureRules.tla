---------------------------- MODULE SecureRules ----------------------------
(***************************************************************************)
(* The variables of a request (src/runtime/functions.rs) and the secure    *)
(* rules that admit it (src/runtime/security/functions.rs).                *)
(*                                                                         *)
(* The Authorization header is no credentials, Basic credentials or a      *)
(* bearer token.  A token is the text it is signed with, its claims and    *)
(* whether the library finds it current.  An optional expression is a      *)
(* sequence of at most one.                                                *)
(***************************************************************************)
EXTENDS Expressions

NoCredentials == [kind |-> "none"]
Bearer(key, claims, current) == [kind |-> "bearer", key |-> key, claims |-> claims, current |-> current]
BasicCredentials(username, password) ==
    [kind |-> "basic", username |-> username, password |-> password]

JwtRule(secret, checks) ==
    [scheme |-> "JWT", secret |-> secret, username |-> << >>, password |-> << >>, checks |-> checks]
BasicRule(username, password, checks) ==
    [scheme |-> "Basic", secret |-> << >>, username |-> username, password |-> password,
     checks |-> checks]

TextUsername == <<117, 115, 101, 114, 110, 97, 109, 101>>
TextPassword == <<112, 97, 115, 115, 119, 111, 114, 100>>

\* Later bindings hide earlier ones: the gateway's variables, the path
\* parameters, then query, headers, cookies and body.
insert_request_vars(static_vars, params, context) == context @@ params @@ static_vars

Rejected(vars) == [ok |-> FALSE, vars |-> vars]

\* Mutant of evaluate_checks: one check that passes is enough.
AnyCheck(checks, vars) ==
    [ok |-> checks = << >> \/ \E i \in DOMAIN checks :
               LET value == eval_expr(checks[i], vars) IN ~IsError(value) /\ truthy(value),
     vars |-> vars]

evaluate_checks(checks, vars) ==
    [ok |-> \A i \in DOMAIN checks :
               LET value == eval_expr(checks[i], vars) IN ~IsError(value) /\ truthy(value),
     vars |-> vars]

\* A rule without a secret, and one whose secret cannot be evaluated, let
\* nobody in.
SecretIs(secret, key, vars) ==
    /\ secret # << >>
    /\ LET value == eval_expr(secret[1], vars) IN ~IsError(value) /\ as_string(value) = key

decode_jwt_claims(rule, authorization, vars) ==
    /\ authorization.kind = "bearer"
    /\ authorization.current
    /\ SecretIs(rule.secret, authorization.key, vars)

\* A credential that is not configured is not compared.
ExpectedIs(expected, given, vars) == expected = << >> \/ SecretIs(expected, given, vars)

authorize_rule(rule, authorization, vars) ==
    CASE rule.scheme = "JWT" ->
           IF decode_jwt_claims(rule, authorization, vars)
             THEN evaluate_checks(rule.checks, Bound(vars, "jwt", authorization.claims))
             ELSE Rejected(vars)
      [] rule.scheme = "Basic" ->
           IF /\ authorization.kind = "basic"
              /\ ExpectedIs(rule.username, authorization.username, vars)
              /\ ExpectedIs(rule.password, authorization.password, vars)
             THEN evaluate_checks(rule.checks, Bound(vars, "basic",
                    Obj((TextUsername :> Str(authorization.username))
                          @@ (TextPassword :> Str(authorization.password)))))
             ELSE Rejected(vars)
      [] OTHER -> Rejected(vars)

\* The rules of all secure options in their order, each on the variables the
\* one before has left.
RECURSIVE authorize_endpoint(_, _, _)
authorize_endpoint(rules, authorization, vars) ==
    IF rules = << >> THEN [ok |-> TRUE, vars |-> vars]
    ELSE LET first == authorize_rule(Head(rules), authorization, vars)
         IN  IF first.ok THEN authorize_endpoint(Tail(rules), authorization, first.vars) ELSE first

-----------------------------------------------------------------------------
\* What being authorised means, whatever the order of the rules: every rule is
\* of the scheme of the credentials given, these are the ones it asks for, they
\* are bound, and its checks hold of the variables the request is run with.
Holds(rule, authorization, vars) ==
    /\ CASE rule.scheme = "JWT" ->
              /\ decode_jwt_claims(rule, authorization, vars)
              /\ get_var(vars, "jwt") = authorization.claims
         [] rule.scheme = "Basic" ->
              /\ authorization.kind = "basic"
              /\ ExpectedIs(rule.username, authorization.username, vars)
              /\ ExpectedIs(rule.password, authorization.password, vars)
         [] OTHER -> FALSE
    /\ \A i \in DOMAIN rule.checks :
         LET value == eval_expr(rule.checks[i], vars) IN ~IsError(value) /\ truthy(value)
=============================================================================
