---------------------------- MODULE MCSmppServer ----------------------------
(* Instances of SmppServer for TLC. *)
EXTENDS SmppServer

CONSTANTS u1, u2, n1, n2

A(u, n) == [uid |-> u, name |-> n]

\* Usernames and uids go together one to one.
MCAccounts == {A(u1, n1), A(u2, n2)}

\* A username that two uids have in turn.
MCPassedOn == {A(u1, n1), A(u2, n1)}
=============================================================================
