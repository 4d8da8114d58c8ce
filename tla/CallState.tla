----------------------------- MODULE CallState -----------------------------
(***************************************************************************)
(* The states of a call and the transitions between them that              *)
(* CallStateMachine.ALLOWED_TRANSITIONS permits (core/call_state.py).      *)
(* Constant-level: shared by the abstract life cycle and by the webhooks.  *)
(***************************************************************************)

\* A hash field, or the whole hash, that is not in Redis.
Absent == "ABSENT"

CallStatus ==
    {"INCOMING", "TRIAGE", "NUMBER_LOOKUP", "SCREENING", "INTERVIEWING",
     "DECIDING", "FORWARDING", "MESSAGING", "BLOCKING", "ENGAGING",
     "COMPLETED", "FAILED"}

\* Plausible bug: the screening entry loses its DTMF exit.
MutantNoDecidingExit ==
    [s \in CallStatus |->
        CASE s = "INCOMING"      -> {"TRIAGE", "FAILED"}
          [] s = "TRIAGE"        -> {"NUMBER_LOOKUP", "FORWARDING", "BLOCKING", "FAILED"}
          [] s = "NUMBER_LOOKUP" -> {"SCREENING", "FAILED"}
          [] s = "SCREENING"     -> {"INTERVIEWING", "FAILED"}
          [] s = "DECIDING"      -> {"FORWARDING", "MESSAGING", "FAILED"}
          [] s \in {"FORWARDING", "MESSAGING", "BLOCKING"} -> {"COMPLETED", "FAILED"}
          [] OTHER               -> {}]

\* Plausible bug: a hang-up during triage is allowed to complete the call.
MutantCompleteFromTriage ==
    [s \in CallStatus |->
        CASE s = "INCOMING"      -> {"TRIAGE", "FAILED"}
          [] s = "TRIAGE"        -> {"NUMBER_LOOKUP", "FORWARDING", "BLOCKING",
                                     "FAILED", "COMPLETED"}
          [] s = "NUMBER_LOOKUP" -> {"SCREENING", "FAILED"}
          [] s = "SCREENING"     -> {"DECIDING", "FAILED"}
          [] s = "DECIDING"      -> {"FORWARDING", "MESSAGING", "FAILED"}
          [] s \in {"FORWARDING", "MESSAGING", "BLOCKING"} -> {"COMPLETED", "FAILED"}
          [] OTHER               -> {}]

\* ALLOWED_TRANSITIONS[s]: the states a call in state s may move to.
AllowedTransitions ==
    [s \in CallStatus |->
        CASE s = "INCOMING"      -> {"TRIAGE", "FAILED"}
          [] s = "TRIAGE"        -> {"NUMBER_LOOKUP", "FORWARDING", "BLOCKING", "FAILED"}
          [] s = "NUMBER_LOOKUP" -> {"SCREENING", "FAILED"}
          [] s = "SCREENING"     -> {"INTERVIEWING", "DECIDING", "FAILED"}
          [] s = "INTERVIEWING"  -> {"DECIDING", "FAILED"}
          [] s = "DECIDING"      -> {"FORWARDING", "MESSAGING", "BLOCKING",
                                     "ENGAGING", "FAILED"}
          [] s \in {"FORWARDING", "MESSAGING", "BLOCKING", "ENGAGING"}
                                 -> {"COMPLETED", "FAILED"}
          [] s \in {"COMPLETED", "FAILED"} -> {}]
=============================================================================
