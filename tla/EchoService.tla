----------------------------- MODULE EchoService -----------------------------
(***************************************************************************)
(* What a concurrent echo server promises: a service for each client, of   *)
(* which the others notice nothing.  What a client asks for is due to it,  *)
(* and it is given what is due to it, in this order, once.  There is no    *)
(* thread, no descriptor, no buffer and no network in it.  Once it is      *)
(* broken it promises nothing any more.                                    *)
(***************************************************************************)
EXTENDS Naturals, Sequences, SequencesExt

CONSTANT Customers  \* the clients

VARIABLES due,      \* the answers to all that each client has asked for
          given,    \* the answers that it has got
          broken    \* nothing is promised any more

Init == /\ due = [c \in Customers |-> << >>]
        /\ given = [c \in Customers |-> << >>]
        /\ broken = FALSE

\* c asks for something: more is due to it, behind what was due before.
Ask(c) == /\ IsStrictPrefix(due[c], due'[c])
          /\ due' = [due EXCEPT ![c] = due'[c]]
          /\ UNCHANGED given

\* c gets some more of what is due to it.
Give(c) == /\ IsStrictPrefix(given[c], given'[c])
           /\ IsPrefix(given'[c], due[c])
           /\ given' = [given EXCEPT ![c] = given'[c]]
           /\ UNCHANGED due

Next == \/ (\E c \in Customers : Ask(c) \/ Give(c)) /\ UNCHANGED broken
        \/ broken' = TRUE

Spec == Init /\ [][Next]_<<due, given, broken>>
=============================================================================
