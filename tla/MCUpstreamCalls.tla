--------------------------- MODULE MCUpstreamCalls ---------------------------
\* UpstreamCalls with a call of each sort: fetches with and without retries,
\* queries that share a source or not, gRPC calls that share a .proto.
EXTENDS UpstreamCalls

CONSTANTS s1, s2

Default == [kind |-> "http", source |-> s1, retries |-> 0, delay |-> FALSE,
            timeout |-> TRUE, fallback |-> "none"]

Sorts ==
    <<[Default EXCEPT !.retries = 2, !.delay = TRUE, !.fallback = "value"],
      [Default EXCEPT !.retries = 1, !.timeout = FALSE],
      [Default EXCEPT !.kind = "db", !.fallback = "value"],
      [Default EXCEPT !.kind = "db", !.timeout = FALSE],
      [Default EXCEPT !.kind = "db", !.source = s2, !.fallback = "fails"],
      [Default EXCEPT !.kind = "grpc", !.fallback = "value"],
      [Default EXCEPT !.kind = "grpc", !.timeout = FALSE]>>

\* The calls are numbered, and asked in the order of Sorts: other orders are the
\* same up to the names of the calls.  A fetch meets no other call, so one of
\* them is enough.
MCRequests ==
    {[c \in Call |-> Sorts[sort[c]]] : sort \in
        {f \in [Call -> 1 .. 7] : \A c, d \in Call : c < d => f[c] <= f[d] /\ f[d] > 2}}
=============================================================================
