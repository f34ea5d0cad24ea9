------------------------------ MODULE MCJCli ------------------------------
(* Small instances of JCli for TLC. *)
EXTENDS JCli

CONSTANTS u1, u2, n1, g1, f1, s1, s2

MCEntries == {}

\* One group with one user, a running connector, a filter.
MCProfile ==
    [users |-> <<NewUser(u1, n1, g1, 0)>>, groups |-> <<[gid |-> g1, enabled |-> TRUE]>>,
     filters |-> (f1 :> "both"), httpccs |-> {},
     smppcs |-> (s1 :> [started |-> TRUE, pending |-> FALSE])]

\* Administrators who work on the same things at the same time.
MCUses == {{"user", "group"}, {"user", "load"}, {"group", "load"}, {"persist", "load"}, {"smppccm"},
           {"smppccm", "load"}, {"mtrouter"}, {"morouter", "httpccm"}, {"mtinterceptor"},
           {"mointerceptor"}, {"filter"}}

=============================================================================
