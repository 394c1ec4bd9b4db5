-------------------------- MODULE SecuredRequests --------------------------
(***************************************************************************)
(* RequestPipeline with the secure rules of src/runtime/security: what     *)
(* EndpointRuntime::handle binds and asks before the first step.           *)
(***************************************************************************)
EXTENDS RequestPipeline, SecureRules

CONSTANT StaticVars     \* what gateway_vars binds

\* The variables of the gateway and of the request, and what the rules of its
\* endpoint make of them.
RuleVerdict(content) ==
    authorize_endpoint(Endpoints[content.endpoint].rules, content.authorization,
                       insert_request_vars(StaticVars, content.params, content.context))
=============================================================================
