------------------------------ MODULE Pairing ------------------------------
(***************************************************************************)
(* What the chat program promises, with no server, table or message in it: *)
(* users enter, two users who are free may be connected one-to-one, and a  *)
(* user who leaves sets the other one free (ReadMe.txt, Features 2 to 4).  *)
(***************************************************************************)
EXTENDS Naturals, FiniteSets

CONSTANT Users

VARIABLES online,   \* users inside the application
          pairs     \* <<u, v>> and <<v, u>> for each chat

vars == <<online, pairs>>

Paired(u) == \E v \in Users : <<u, v>> \in pairs

Init == online = {} /\ pairs = {}

Join(u) == /\ u \notin online
           /\ online' = online \cup {u}
           /\ UNCHANGED pairs

Connect(u, v) == /\ {u, v} \subseteq online /\ u # v
                 /\ ~Paired(u) /\ ~Paired(v)
                 /\ pairs' = pairs \cup {<<u, v>>, <<v, u>>}
                 /\ UNCHANGED online

Leave(u) == /\ u \in online
            /\ online' = online \ {u}
            /\ pairs' = {p \in pairs : u \notin {p[1], p[2]}}

\* The server stops, and with it every chat.
Shutdown == online' = {} /\ pairs' = {}

Next == \/ \E u \in Users : Join(u) \/ Leave(u)
        \/ \E u, v \in Users : Connect(u, v)
        \/ Shutdown

Spec == Init /\ [][Next]_vars
=============================================================================
