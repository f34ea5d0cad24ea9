------------------------ MODULE MCSMPPClientManager ------------------------
(* Small instances of SMPPClientManager for TLC. *)
EXTENDS SMPPClientManager, TLC

CONSTANTS m1, m2, l1, l2

MCRetrialCount == "ESME_RTHROTTLED" :> 2
MCRetrialDelay == "ESME_RTHROTTLED" :> 30

\* Two errors, one of them retried without a delay.
MCRetrialCounts == "ESME_RTHROTTLED" :> 3 @@ "ESME_RSYSERR" :> 2
MCRetrialDelays == "ESME_RTHROTTLED" :> 30 @@ "ESME_RSYSERR" :> 0

Symmetry == Permutations(Msgs) \cup Permutations(Listeners)

=============================================================================
