---------------------------- MODULE MCDuplicator ----------------------------
(* Small instances of Duplicator.                                          *)
EXTENDS Duplicator

MCSock == {"client", "prod", "dup"}
MCBase == [client |-> 0, prod |-> 20, dup |-> 40]

OneMode == {{}, {"-a"}, {"-s"}}
AsynchMode == {{"-a"}}
SynchMode == {{"-s"}}

\* Values of Reply and MaxReply.
None == [s \in {"prod", "dup"} |-> 0]
One == [s \in {"prod", "dup"} |-> 1]
OneAndTwo == [prod |-> 1, dup |-> 2]
TwoOfClone == [prod |-> 0, dup |-> 2]
Many == [s \in {"prod", "dup"} |-> 13]

\* The client may half-close; everybody may go away.
AnyLeaving == {<<"client", "half">>} \cup {<<s, "closed">> : s \in Sock}
EndsLeaving == {<<s, "closed">> : s \in Sock}
ClientLeaving == {<<"client", "closed">>}
CloneLeaving == {<<"dup", "closed">>}
NoneLeaving == {}
=============================================================================
