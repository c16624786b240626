--------------------------- MODULE MCApiHandlers ---------------------------
EXTENDS ApiHandlers, TLC

OneCreation ==
    {[type |-> "mock", url |-> "url", enabled |-> "on",
      config |-> [key |-> "k1", note |-> "none"]]}

\* A note, a new key, another provider, an empty endpoint, out of service, and
\* a key that is erased by extra_config.
SmallPatches ==
    {[NoPatch EXCEPT !.note = "n1"], [NoPatch EXCEPT !.key = "k2"],
     [NoPatch EXCEPT !.type = "custom_http"], [NoPatch EXCEPT !.url = "empty"],
     [NoPatch EXCEPT !.enabled = "off"], [NoPatch EXCEPT !.extra = "none"]}

AnyRequest == Permutations(Requests)
=============================================================================
