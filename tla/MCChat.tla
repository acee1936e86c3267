------------------------------- MODULE MCChat -------------------------------
EXTENDS ChatSystem, TLC

CONSTANTS c1, c2, c3, zero, line

\* A client and its user name are one model value; no name is a prefix of
\* another.
MCNameOf == [c \in Clients |-> c]
MCName == Clients \cup {zero, line}
MCPrefix == {<<n, n>> : n \in MCName}

\* The name of c1 is a proper prefix of the name of c2 ("ann" and "anna").
MCPrefixAB == MCPrefix \cup {<<c1, c2>>}

Perms == Permutations(Clients)
=============================================================================
