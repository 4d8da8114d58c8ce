---------------------------- MODULE MCForwarding ----------------------------
\* Forwarding for TLC: the bodies a PUT may send and the environments.
EXTENDS Forwarding, TLC

Environment(p, i, m) == [phone |-> p, sip |-> i, sim |-> m]

\* Nothing configured, and scenarios B and C of the README.
Environments ==
    {Environment(FALSE, FALSE, FALSE), Environment(FALSE, TRUE, FALSE),
     Environment(TRUE, TRUE, TRUE)}

\* What the settings page saves: a number, SIP instead of it, all endpoints.
PageForms ==
    {[phone |-> TRUE, mode |-> "phone"], [phone |-> FALSE, mode |-> "sip"],
     [mode |-> "simultaneous", sim |-> TRUE, sip |-> TRUE]}

RequestSymmetry == Permutations(Requests)
=============================================================================
