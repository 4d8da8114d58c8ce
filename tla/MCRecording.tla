----------------------------- MODULE MCRecording ------------------------------
\* Recording for TLC: every kind of fault.
EXTENDS Recording

EveryFault == RecordingFaults
=============================================================================
