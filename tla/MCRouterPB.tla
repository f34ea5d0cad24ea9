----------------------------- MODULE MCRouterPB -----------------------------
(* Small instances of RouterPB for TLC. *)
EXTENDS RouterPB

MCEntries == {[kind |-> "default", value |-> 1], [kind |-> "static", value |-> 1]}

=============================================================================
