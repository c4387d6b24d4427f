---------------------------- MODULE MCAggregator ----------------------------
(* Small instances of Aggregator: one or two production connections and    *)
(* one of the clone.                                                       *)
EXTENDS Aggregator

MCProd == {"p1", "p2"}
MCClone == {"c1"}
OneProd == {"p1"}
MCSock == {"p1", "p2", "b1", "b2", "c1"}
OneSock == {"p1", "b1", "c1"}
MCBackend == [p1 |-> "b1", p2 |-> "b2"]
OneBackend == [p1 |-> "b1"]
MCBase == [p1 |-> 0, b1 |-> 10, p2 |-> 20, b2 |-> 30, c1 |-> 40]
OneBase == [p1 |-> 0, b1 |-> 10, c1 |-> 40]

\* Values of MaxSent.
OneTalks == [p1 |-> 1, b1 |-> 2, p2 |-> 0, b2 |-> 1, c1 |-> 0]
OneReplies == [p1 |-> 0, b1 |-> 3, c1 |-> 1]
Silent == [p1 |-> 0, b1 |-> 0, p2 |-> 0, b2 |-> 0, c1 |-> 0]

\* Values of Leaving.
CloneLeaving == {<<"c1", "half">>}
BackendLeaving == {<<"c1", "closed">>, <<"b1", "closed">>}
NoneLeaving == {}
=============================================================================
