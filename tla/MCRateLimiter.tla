---------------------------- MODULE MCRateLimiter ----------------------------
\* RateLimiter with its clients spread over the shards in turn.
EXTENDS RateLimiter, TLC

CONSTANTS c1, c2, c3, c4

MCTwoClients == {c1, c2}
MCThreeClients == {c1, c2, c3}
MCFourClients == {c1, c2, c3, c4}
MCShardOf == [c \in Client |-> IF c \in {c1, c3} THEN 1 ELSE ShardCount]

\* Calls are interchangeable, and so are the clients of a single shard.
TaskSymmetry == Permutations(Task)
Symmetry == Permutations(Task) \cup Permutations(Client)
=============================================================================
