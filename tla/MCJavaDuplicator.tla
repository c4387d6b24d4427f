-------------------------- MODULE MCJavaDuplicator --------------------------
(* Small instances of JavaDuplicator.                                      *)
EXTENDS JavaDuplicator

MCSock == {"client", "prod", "replica"}
MCBase == [client |-> 0, prod |-> 20, replica |-> 40]
MCModes == BOOLEAN

\* Values of Reply and MaxReply.
NoReply == [s \in {"prod", "replica"} |-> 0]
One == [s \in {"prod", "replica"} |-> 1]

\* Everybody may go away, the client may half-close; or everybody may half-close
\* and the replica go away.
MostLeaving == (Sock \X {"closed"}) \cup {<<"client", "half">>}
CleanLeaving == (Sock \X {"half"}) \cup {<<"replica", "closed">>}
=============================================================================
