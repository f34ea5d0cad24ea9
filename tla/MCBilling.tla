----------------------------- MODULE MCBilling -----------------------------
(* Small instances of Billing for TLC. *)
EXTENDS Billing, TLC

CONSTANTS m1, m2, o1, o2

\* The second message is a long one.
MCParts == m1 :> 1 @@ m2 :> 2
MCShort == m1 :> 1 @@ m2 :> 1

MCQuota(b, c, p) == [balance |-> b, whole |-> FALSE, submit_sm_count |-> c, percent |-> p]
MCQuotas == {MCQuota(5, None, 50), MCQuota(4, 2, None), MCQuota(None, 1, 50)}
MCAsync == {MCQuota(3, None, 50)}
MCUpdates == {-3, 2}

=============================================================================
