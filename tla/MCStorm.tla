------------------------------ MODULE MCStorm ------------------------------
EXTENDS StormController

CONSTANTS h1, h2, h3

MCSwitchOf == [h \in Hosts |-> CASE h = h1 -> 1 [] h = h2 -> 2 [] OTHER -> 2]

\* The first test case of mininetScript.py, with three switches: a ring.
MCRing == [hosts |-> {h1}, cables |-> {{1, 2}, {2, 3}, {3, 1}},
           maxEvents |-> 2, maxDowns |-> 2, maxSends |-> 1]

\* Two switches and one cable, so that nothing is redundant.
MCLine == [hosts |-> {h1, h2, h3}, cables |-> {{1, 2}},
           maxEvents |-> 1, maxDowns |-> 1, maxSends |-> 3]

MCBoth == {MCRing, MCLine}

\* A ring with two hosts, and few events.
MCSmallRing == {[MCRing EXCEPT !.hosts = {h1, h2}, !.maxDowns = 1]}

\* Python goes through the small integers of a set in ascending order; the
\* other order is added so that nothing rests on that.
MCBothWays == {<<1, 2, 3>>, <<3, 2, 1>>}
=============================================================================
