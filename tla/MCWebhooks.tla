----------------------------- MODULE MCWebhooks -----------------------------
\* Webhooks for TLC: which failures a run allows.  Calls share nothing but
\* the backend process, so one call under every failure is checked.
EXTENDS Webhooks

EveryFault == FaultKinds
=============================================================================
