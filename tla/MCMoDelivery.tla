---------------------------- MODULE MCMoDelivery ----------------------------
(* Instances of MoDelivery for TLC. *)
EXTENDS MoDelivery

CONSTANTS s1, h1, h2, p1, p2

\* Plain HTTP and SMPP routes, and a failover route over two connectors.
MCRoutes == {[type |-> t, mode |-> "simple", n |-> 1] : t \in {"http", "smpps"}}
            \cup {[type |-> "http", mode |-> "failover", n |-> 2]}

\* A short message, a long one, its last part after one that an earlier message
\* left behind, and the two receipts of a message.
Scene(msgs, old) == [msgs |-> msgs, old |-> old]
MCScenes == {Scene({s1}, {}), Scene(PartsOfLong, {}), Scene({<<Long, 2>>}, {1}),
             Scene({h1, h2}, {}), Scene({p1, p2}, {})}
MCShortScene == {Scene({s1}, {})}
=============================================================================
