---------------------------- MODULE MCDLRLookup ----------------------------
(* A small instance of DLRLookup for TLC. *)
EXTENDS DLRLookup, TLC

CONSTANTS m1, r1, r2, d1

MCKinds == r1 :> "submit_sm_resp" @@ r2 :> "submit_sm_resp" @@ d1 :> "deliver_sm"
MCMsgOf == [d \in Dlrs |-> m1]

=============================================================================
