----------------------------- MODULE ClientLife -----------------------------
(***************************************************************************)
(* The life of a client as its server sees it on the connection: the part  *)
(* of client.c that ChatSystem builds on.  A name is sent first and        *)
(* nothing more until the welcome has come; after "bye" nothing is sent    *)
(* and the connection is closed.                                           *)
(***************************************************************************)
EXTENDS Naturals, Sequences

VARIABLES phase,   \* as in ChatSystem
          sent     \* the kinds of the messages sent, in order

vars == <<phase, sent>>

Init == phase = "naming" /\ sent = <<>>

SendName == /\ phase = "naming"
            /\ phase' = "greeting"
            /\ sent' = Append(sent, "name")

Welcome == phase = "greeting" /\ phase' = "chatting" /\ UNCHANGED sent

Say(kind) == /\ phase = "chatting"
             /\ sent' = Append(sent, kind)
             /\ UNCHANGED phase

Bye == /\ phase = "chatting"
       /\ sent' = Append(sent, "bye")
       /\ phase' = "leaving"

Close == phase = "leaving" /\ phase' = "gone" /\ UNCHANGED sent

\* Ctrl-C, or the loss of the server.
Die == /\ phase \in {"naming", "greeting", "chatting", "leaving"}
       /\ phase' \in {"gone", "dropped"}
       /\ UNCHANGED sent

Next == \/ SendName \/ Welcome \/ Bye \/ Close \/ Die
        \/ \E kind \in {"request", "connect", "text"} : Say(kind)

Spec == Init /\ [][Next]_vars
=============================================================================
