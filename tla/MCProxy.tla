------------------------------ MODULE MCProxy -------------------------------
(* TLC instance of the generic proxy.                                      *)
EXTENDS Proxy

CONSTANTS r1, r2

\* A method of every fate: malformed, denied, without a route, for a backend of
\* each version, the old one with the transport it speaks and without.
MCMethods == {<<"new">>, <<"other", "Get">>, <<"lost", "Get">>,
              <<"new", "Get">>, <<"old", "Get">>, <<"gob", "Get">>}
MCEntries == {<<"lost", "*">>, <<"new", "*">>, <<"old", "Get">>, <<"gob", "Get">>}

Target(transport, speaks) == [transport |-> transport, speaks |-> speaks]
MCTargets == [s \in {"new", "old", "gob", "other"} |->
    CASE s = "old" -> Target("", {"legacy"})
      [] s = "gob" -> Target("legacy", {"legacy"})
      [] OTHER     -> Target("auto", {"json", "legacy"})]

\* r1 comes through the auth middleware and claims to be somebody else, r2 does
\* not come through it.
Keys == IdentityHeaderKeys \cup {"Cookie"}
MCMetadata == [r \in {r1, r2} |->
    [k \in Keys |-> IF k \in {"X-User-Id", "X-Request-Id", "Cookie"} THEN "claimed" ELSE ""]]
MCInbound == [r \in {r1, r2} |->
    [k \in Keys |-> IF r = r1 /\ k \in {"X-User-Id", "X-Groups", "Cookie"}
                    THEN <<"trusted">> ELSE <<>>]]
=============================================================================
