--------------------------- MODULE DeliveryLedger ---------------------------
(***************************************************************************)
(* What the deliveries of a message promise, whoever performs them and     *)
(* whatever fails: at-least-once sending with honest books.  A recipient   *)
(* gets another copy only as long as nobody knows of a copy that got       *)
(* through.  An operation closes its books once, for all its recipients    *)
(* together: with entries that say what happened, or, when it fails, with  *)
(* none.  Nothing is sent and no entry changes after that, and the status  *)
(* of the message moves only with the entries that justify it.             *)
(***************************************************************************)
EXTENDS Naturals

CONSTANTS Tasks,  \* the operations
          Legs    \* the recipients

VARIABLES
    open,    \* the operations that have not closed their books
    copies,  \* copies[t][l]: what the provider took for recipient l
    doubts,  \* doubts[t][l]: how many of those t does not know of
    entry,   \* entry[t][l]: what the books of t say
    status   \* what the message says of its deliveries

vars == <<open, copies, doubts, entry, status>>

Entries == {"none", "delivered", "failed"}

Init ==
    /\ open = Tasks
    /\ copies = [t \in Tasks |-> [l \in Legs |-> 0]]
    /\ doubts = [t \in Tasks |-> [l \in Legs |-> 0]]
    /\ entry = [t \in Tasks |-> [l \in Legs |-> "none"]]
    /\ status \in {"none", "pending"}

OneMore(count, t, l) == [count EXCEPT ![t][l] = @ + 1]

\* A copy that gets through; the operation may fail over the lost answer.
Send(t, l) ==
    /\ t \in open
    /\ copies[t][l] = doubts[t][l]
    /\ copies' = OneMore(copies, t, l)
    /\ \/ UNCHANGED <<doubts, open>>
       \/ /\ doubts' = OneMore(doubts, t, l)
          /\ open' \in {open, open \ {t}}
    /\ UNCHANGED <<entry, status>>

Honest(e, t) ==
    \A l \in Legs : /\ e[l] = "delivered" => copies[t][l] = doubts[t][l] + 1
                    /\ e[l] = "failed" => copies[t][l] = doubts[t][l]
                    /\ e[l] = "none" => copies[t][l] = 0

Has(e, result) == \E l \in Legs : e[l] = result

\* What entries that are being booked may make of the status.
Tells(e) ==
    \/ UNCHANGED status
    \/ status = "none" /\ status' = "pending"
    \/ status # "none" /\ status' = "delivered" /\ Has(e, "delivered")
    \/ status # "none" /\ status' = "failed" /\ Has(e, "failed") /\ ~ Has(e, "delivered")

Book(t) ==
    /\ t \in open /\ open' = open \ {t}
    /\ \E e \in [Legs -> Entries] :
          Honest(e, t) /\ entry' = [entry EXCEPT ![t] = e] /\ Tells(e)
    /\ UNCHANGED <<copies, doubts>>

Fail(t) ==
    /\ t \in open /\ open' = open \ {t}
    /\ UNCHANGED <<copies, doubts, entry, status>>

Next == \E t \in Tasks : Book(t) \/ Fail(t) \/ \E l \in Legs : Send(t, l)

Spec == Init /\ [][Next]_vars
=============================================================================
