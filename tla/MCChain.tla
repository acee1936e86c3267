------------------------------ MODULE MCChain ------------------------------
EXTENDS ServiceChain

\* Scenario 1, where switches come and go and nothing is sent.
MCGraph == [switches |-> {1, 2, 3}, hosts |-> {}, saved |-> {},
            maxEvents |-> 5, maxDowns |-> 2, maxSends |-> 0, maxCopies |-> 0, maxTrail |-> 0]

\* Two switches, which can both be forgotten.
MCPair == [MCGraph EXCEPT !.switches = {1, 2}, !.maxDowns = 3]

\* Four switches, of which one goes down: the others may then be in two parts.
MCParts == [MCGraph EXCEPT !.switches = 1..4, !.maxEvents = 2, !.maxDowns = 1]

\* Scenario 1 with its hosts, not yet seen; a host sends when nothing is in the
\* network, or at any time but one packet less.
MCData == [switches |-> {1, 2, 3}, hosts |-> {1, 3}, saved |-> {},
           maxEvents |-> 1, maxDowns |-> 0, maxSends |-> 4, maxCopies |-> 0, maxTrail |-> 4]

MCRace == [MCData EXCEPT !.maxSends = 3, !.maxCopies = 3]

\* A switch restarts while hosts that are known send.
MCFault == [MCData EXCEPT !.saved = {1, 3}, !.maxEvents = 2, !.maxDowns = 1, !.maxSends = 3]

\* Scenario 2: three hosts, so that rules are written for several partners.
MCWide == [switches |-> 1..5, hosts |-> {1, 4, 5}, saved |-> {1, 4, 5},
           maxEvents |-> 0, maxDowns |-> 0, maxSends |-> 3, maxCopies |-> 0, maxTrail |-> 4]

MCNetworks == {MCGraph, MCPair, MCParts, MCData, MCRace, MCFault, MCWide}

MCBothWays == {<<1, 2, 3, 4, 5>>, <<5, 4, 3, 2, 1>>}
=============================================================================
