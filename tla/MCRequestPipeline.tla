-------------------------- MODULE MCRequestPipeline --------------------------
\* SecuredRequests with a limited endpoint behind tokens, one behind two rules on
\* Basic credentials, and clients that come directly, with a header that does not
\* count, and through the trusted proxy, which names them in one header or the other.
EXTENDS SecuredRequests

CONSTANTS a1, a2, proxy, junk

Secret == <<115>>
User == <<117>>
Admin == Str(<<97>>)
Guest == Str(<<103>>)

MCAddress == {a1, a2, proxy}
MCTrustedProxies == {proxy}
MCStaticVars == [secret |-> Str(Secret), user |-> Str(User)]
MCEndpoints ==
    [items |-> [limited |-> TRUE, status |-> 200, rules |->
        <<JwtRule(<<Var("secret")>>, <<BinaryOp(Var("jwt"), "!=", Lit(Null)),
                                       BinaryOp(Var("jwt"), "==", Lit(Admin))>>)>>],
     users |-> [limited |-> FALSE, status |-> 201, rules |->
        <<BasicRule(<<Var("user")>>, << >>, << >>),
          BasicRule(<< >>, <<Var("secret")>>,
                    <<BinaryOp(Property(Var("basic"), TextUsername), "==", Var("id"))>>)>>]]

MCContent(endpoint, from, peer, forwarded_for, real_ip, authorization, id) ==
    [endpoint |-> endpoint, from |-> from, peer |-> peer,
     forwarded_for |-> forwarded_for, real_ip |-> real_ip,
     authorization |-> authorization, params |-> id,
     context |-> [query |-> Obj(<< >>), body |-> Null]]
MCId(text) == [id |-> Str(text)]
MCContents ==
    <<MCContent("items", a1, a1, <<a2>>, << >>, Bearer(Secret, Admin, TRUE), << >>),
      MCContent("items", a1, proxy, <<a1, a2>>, <<a2>>, Bearer(Secret, Guest, TRUE), << >>),
      MCContent("items", a2, proxy, <<junk>>, <<a2>>, Bearer(User, Admin, TRUE), << >>),
      MCContent("users", a1, a1, << >>, << >>, BasicCredentials(User, Secret), MCId(User))>>
=============================================================================
