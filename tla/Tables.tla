------------------------------- MODULE Tables -------------------------------
(***************************************************************************)
(* What the router and the SMPP server do to the Python lists of users and *)
(* groups: the loop that looks for the first record of a kind, the last    *)
(* element, and list.remove.  These are SequencesExt's operators of the    *)
(* same names.  SequencesExt itself brings Bags with it, and each proof    *)
(* obligation in the scope of Bags takes many times as long to prepare.    *)
(***************************************************************************)
EXTENDS Integers, Sequences, FiniteSetsExt

\* The place of the first element that passes the test, 0 when none does.
SelectInSeq(table, Test(_)) ==
    LET found == {i \in 1 .. Len(table) : Test(table[i])}
    IN  IF found # {} THEN Min(found) ELSE 0

\* The table without its i-th element.
RemoveAt(table, i) == SubSeq(table, 1, i - 1) \o SubSeq(table, i + 1, Len(table))

\* The element that was appended last.
Last(table) == table[Len(table)]
=============================================================================
