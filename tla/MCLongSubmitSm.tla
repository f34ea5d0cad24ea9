--------------------------- MODULE MCLongSubmitSm ---------------------------
(* Instances of LongSubmitSm for TLC. *)
EXTENDS LongSubmitSm

CONSTANTS m1, m2

C(b, l) == [bits |-> b, len |-> l]

\* Around the limits of one, two and the most parts.
MCEdges == {C(7, 160), C(7, 307), C(7, 460), C(8, 141), C(16, 141), C(16, 268)}

MCContents == [m \in Msgs |-> IF m = m1 THEN MCEdges ELSE {C(8, 268)}]
=============================================================================
