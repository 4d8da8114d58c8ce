---------------------------- MODULE ResultStream ----------------------------
(***************************************************************************)
(* What a streaming transcription promises its consumer, whatever order    *)
(* callbacks, queue and feed come in: the results that make a segment      *)
(* (they have a text and numbers in range), each once, in the order the    *)
(* service said them, up to where the service cut the stream with an error *)
(* or a close.  The stream ends without an exception only if the consumer  *)
(* has heard everything that was said, and with one, once open, only if he *)
(* has heard everything that was said before the cut.                      *)
(***************************************************************************)
EXTENDS Naturals, Sequences

CONSTANT None

VARIABLES
    said,    \* how many results the service has said; a result is its number
    heard,   \* those the consumer got
    cut,     \* how many were said before the cut, None without one
    outcome  \* "opening", "open", "returned", "raised" or "left"

vars == <<said, heard, cut, outcome>>

Init == said = 0 /\ heard = <<>> /\ cut = None /\ outcome = "opening"

Live == outcome \in {"opening", "open"}

Say ==
    /\ Live /\ said' = said + 1
    /\ UNCHANGED <<heard, cut, outcome>>

Cut ==
    /\ Live /\ cut = None /\ cut' = said
    /\ UNCHANGED <<said, heard, outcome>>

\* The next result that was said before the cut.
HearNext ==
    /\ Len(heard) < IF cut = None THEN said ELSE cut
    /\ heard' = Append(heard, Len(heard) + 1)

Open ==
    /\ outcome = "opening" /\ outcome' = "open"
    /\ HearNext \/ UNCHANGED heard
    /\ UNCHANGED <<said, cut>>

Hear ==
    /\ outcome = "open" /\ HearNext
    /\ UNCHANGED <<said, cut, outcome>>

Return ==
    /\ outcome = "open" /\ outcome' = "returned"
    /\ cut = said /\ Len(heard) = said
    /\ UNCHANGED <<said, heard, cut>>

Raise ==
    /\ \/ outcome = "opening"
       \/ outcome = "open" /\ Len(heard) = cut
    /\ outcome' = "raised"
    /\ UNCHANGED <<said, heard, cut>>

\* The consumer may leave at any time.
Abandon ==
    /\ Live /\ outcome' = "left"
    /\ UNCHANGED <<said, heard, cut>>

Next == Say \/ Cut \/ Open \/ Hear \/ Return \/ Raise \/ Abandon

Spec == Init /\ [][Next]_vars
=============================================================================
