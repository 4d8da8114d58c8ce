--------------------------- MODULE CallLifecycle ---------------------------
(***************************************************************************)
(* What the record of a call in Redis promises, whoever reads it: it is    *)
(* opened at most once, as INCOMING; it moves only along the transition    *)
(* table; it may vanish at any time; and once it has vanished it comes     *)
(* back, if ever, only as COMPLETED.  If it vanished under a handler that  *)
(* still worked on the call, that handler may bring it back in any state   *)
(* but INCOMING, and from there it moves along the table again.            *)
(***************************************************************************)
EXTENDS CallState

CONSTANT Calls

\* status[c] is "NEW" before the record of c exists, the CallStatus in the
\* record while it exists, and "GONE" when it is gone or will never exist.
\* late is the set of calls whose record vanished under such a handler.
VARIABLES status, late

vars == <<status, late>>

Init ==
    /\ status = [c \in Calls |-> "NEW"]
    /\ late = {}

Open(c) ==
    /\ status[c] = "NEW"
    /\ status' = [status EXCEPT ![c] = "INCOMING"]
    /\ UNCHANGED late

\* Calls that are never recorded: emergency callbacks, or Redis is unreachable,
\* or the backend, which may take many of them along.
Skip(lost) ==
    /\ \A c \in lost : status[c] = "NEW"
    /\ status' = [c \in Calls |-> IF c \in lost THEN "GONE" ELSE status[c]]
    /\ UNCHANGED late

Move(c) ==
    /\ status[c] \in CallStatus
    /\ \E t \in AllowedTransitions[status[c]] : status' = [status EXCEPT ![c] = t]
    /\ UNCHANGED late

\* The state goes with the record; an attestation that was stored after the
\* state had gone makes a record without one, which vanishes too.
Vanish(c) ==
    /\ status[c] \in CallStatus \cup {"GONE"}
    /\ status' = [status EXCEPT ![c] = "GONE"]
    /\ late' \in {late, late \cup {c}}

\* A completion that was being written while the record expired, or whatever a
\* handler was about to write that stalled for longer than the record lives.
Return(c) ==
    /\ status[c] = "GONE"
    /\ \E t \in IF c \in late THEN CallStatus \ {"INCOMING"} ELSE {"COMPLETED"} :
           status' = [status EXCEPT ![c] = t]
    /\ UNCHANGED late

Next ==
    \/ \E c \in Calls : Open(c) \/ Move(c) \/ Vanish(c) \/ Return(c)
    \/ \E lost \in SUBSET Calls : Skip(lost)

Spec == Init /\ [][Next]_vars
=============================================================================
