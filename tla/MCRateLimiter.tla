--------------------------- MODULE MCRateLimiter ---------------------------
EXTENDS RateLimiter, TLC

In(route, method, peer, forwarded) ==
    [route |-> route, method |-> method, peer |-> peer, forwarded |-> forwarded]

\* A client with and without a forged header, a proxy that speaks for the
\* same client, and a request that is not limited.
SmallInputs ==
    {In("auth", "POST", "a", "none"), In("auth", "POST", "a", "b"),
     In("auth", "POST", "proxy", "a"), In("other", "GET", "a", "none")}

SmallLimits == [b \in Buckets |-> IF b = "auth" THEN 2 ELSE 0]

AnyRequest == Permutations(Requests)
=============================================================================
