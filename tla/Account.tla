------------------------------ MODULE Account ------------------------------
(***************************************************************************)
(* What billing promises (misc/doc/sources/billing/index.rst): a prepaid   *)
(* account pays for messages, in one go or in instalments, and a message   *)
(* never costs more than its price.  The administrator may set the balance *)
(* to anything, or make it unlimited, between two payments.                *)
(***************************************************************************)
EXTENDS Integers

CONSTANTS
    Msgs,    \* messages
    Price,   \* what each message costs
    None     \* an unlimited balance, or no account at all

VARIABLES
    balance,  \* what is left
    paid,     \* what has been taken for each message
    admin     \* calls of the administrator

Init ==
    /\ balance \in Int \cup {None}
    /\ paid = [m \in Msgs |-> 0]
    /\ admin = 0

\* Money moves from the balance to a message, which gets no more than its price.
Pay(m) ==
    /\ balance # None
    /\ balance' \in 0 .. (balance - 1)
    /\ paid' = [paid EXCEPT ![m] = @ + (balance - balance')]
    /\ paid'[m] =< Price[m]
    /\ UNCHANGED admin

\* The administrator, and nobody else, changes the balance without taking the
\* money for a message.
Administer ==
    /\ admin' = admin + 1
    /\ balance' \in Int \cup {None}
    /\ UNCHANGED paid

Next == (\E m \in Msgs : Pay(m)) \/ Administer

Spec == Init /\ [][Next]_<<balance, paid, admin>>

=============================================================================
