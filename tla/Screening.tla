------------------------------ MODULE Screening ------------------------------
(***************************************************************************)
(* The AI screening of one call (core/screening.py): the orchestrator's    *)
(* methods are coroutines on shared state, so while one waits for the LLM  *)
(* others run.  A task is one running method; every await of the LLM is a  *)
(* step.  Nothing in the orchestrator keeps two utterances, or the end of  *)
(* the call and an utterance, from being handled at the same time.         *)
(***************************************************************************)
EXTENDS Naturals, FiniteSets

CONSTANTS Tasks,          \* the method calls that may run at the same time
          Answers,        \* the classifications the LLM may come up with
          MaxStarts,      \* bound: how often the call's screening is started
          MaxUtterances   \* bound: the utterances in one conversation

\* What classify_intent may return.  category: scam and robocall, or another;
\* legitimate: True, False or anything else; confidence: any number, which
\* nothing holds to 0.0 to 1.0, by its sign and whether it reaches 0.7 ("low":
\* above zero but below 0.7), or not a number.
Classifications == [category   : {"scam", "other"},
                    legitimate : {"yes", "no", "null"},
                    confidence : {"negative", "zero", "low", "high", "bad"}]

ASSUME ScreeningAssumption ==
    /\ IsFiniteSet(Tasks)
    /\ Answers \subseteq Classifications
    /\ MaxStarts \in Nat /\ MaxUtterances \in Nat

VARIABLES
    conv,      \* conv[i]: the _ConversationState that the i-th start created
    started,   \* the number of starts so far
    current,   \* the conversation in _sessions, 0 if there is none
    task,      \* task[t]: what t waits for, and its conversation
    farewells, \* farewells[i]: the recommendations the caller was told
    result,    \* result[i]: what end_screening returned for conversation i
    overlap    \* overlap[i]: two classifications of i were under way at once

vars == <<conv, started, current, task, farewells, result, overlap>>

MIN_EXCHANGES_FOR_CLASSIFICATION == 3
MAX_EXCHANGES_BEFORE_FORCE == 5

Starts == 1..MaxStarts
Recommendations == {"forward", "message", "block"}

Failed == [category |-> "other", legitimate |-> "null", confidence |-> "zero"]
NoAnswer == [category |-> "none", legitimate |-> "null", confidence |-> "zero"]

\* "replied" counts the utterances answered by the conversational LLM.
Conversation == [exchanges  : 0..MaxUtterances,
                 replied    : 0..MaxUtterances,
                 classified : BOOLEAN,
                 answer     : Classifications \cup {NoAnswer}]

\* "reply": complete; "farewell" and "end": classify_intent, called by
\* handle_transcript and by end_screening.
Waits == {"idle", "reply", "farewell", "end"}

Results == [heard : 0..MaxUtterances, recommendation : Recommendations,
            classified : BOOLEAN, trust : {"raise", "keep", "lower", "raised"}]
NoResult == [heard |-> 0]

TypeOK ==
    /\ conv \in [Starts -> Conversation]
    /\ started \in 0..MaxStarts
    /\ current \in 0..started
    /\ task \in [Tasks -> [wait : Waits, of : 0..started]]
    /\ farewells \in [Starts -> SUBSET Recommendations]
    /\ result \in [Starts -> Results \cup {NoResult}]
    /\ overlap \in [Starts -> BOOLEAN]

Idle == [wait |-> "idle", of |-> 0]

Init ==
    /\ conv = [i \in Starts |-> [exchanges |-> 0, replied |-> 0,
                                 classified |-> FALSE, answer |-> NoAnswer]]
    /\ started = 0
    /\ current = 0
    /\ task = [t \in Tasks |-> Idle]
    /\ farewells = [i \in Starts |-> {}]
    /\ result = [i \in Starts |-> NoResult]
    /\ overlap = [i \in Starts |-> FALSE]

-----------------------------------------------------------------------------
(* What a classification means.                                            *)

\* _map_recommendation compares the confidence with 0.7, which raises if it
\* is not a number; _run_classification then falls back to Failed.
Understood(a) ==
    IF a.category # "scam" /\ a.legitimate # "null" /\ a.confidence = "bad"
    THEN Failed ELSE a

\* _map_recommendation; "message" until there is an answer.
Recommendation(a) ==
    CASE a.category = "scam" -> "block"
      [] a.category # "scam" /\ a.legitimate = "yes" /\ a.confidence = "high" -> "forward"
      [] a.category # "scam" /\ a.legitimate = "no" /\ a.confidence = "high"  -> "block"
      [] OTHER -> "message"

\* What _compute_trust_adjustment multiplies the confidence with: -1.0 or -0.5,
\* 0.5, or nothing at all.
Factor(a) ==
    CASE a.category = "scam" -> "minus"
      [] a.category = "other" /\ a.legitimate = "no"  -> "minus"
      [] a.category = "other" /\ a.legitimate = "yes" -> "plus"
      [] OTHER -> "none"

\* _compute_trust_adjustment by its sign, which is that of factor and confidence
\* together: a negative confidence turns it.  "raised" is a TypeError.
Trust(a) ==
    CASE Factor(a) = "none" \/ a.confidence = "zero" -> "keep"
      [] Factor(a) # "none" /\ a.confidence = "bad"  -> "raised"
      [] Factor(a) = "plus"  /\ a.confidence \in {"low", "high"} -> "raise"
      [] Factor(a) = "plus"  /\ a.confidence = "negative"        -> "lower"
      [] Factor(a) = "minus" /\ a.confidence \in {"low", "high"} -> "lower"
      [] Factor(a) = "minus" /\ a.confidence = "negative"        -> "raise"

Outcome(k) == [heard          |-> k.exchanges,
               recommendation |-> Recommendation(k.answer),
               classified     |-> k.classified,
               trust          |-> Trust(k.answer)]

-----------------------------------------------------------------------------
(* _classify_and_farewell and _run_classification, up to the await.        *)

Classifying(i) == \E t \in Tasks : task[t].wait \in {"farewell", "end"} /\ task[t].of = i

\* t has conversation i classified for the purpose w ("farewell" or "end").
Classify(t, i, w) ==
    /\ task' = [task EXCEPT ![t] = [wait |-> w, of |-> i]]
    /\ overlap' = [overlap EXCEPT ![i] = @ \/ Classifying(i)]
    /\ UNCHANGED <<farewells, result>>

\* Plausible bug: the flag is not looked at, every farewell classifies again.
MutantFarewell(t, i) == Classify(t, i, "farewell")

\* Without an await if the intent is known already.
Farewell(t, i) ==
    \/ /\ ~conv[i].classified
       /\ Classify(t, i, "farewell")
    \/ /\ conv[i].classified
       /\ farewells' = [farewells EXCEPT ![i] = @ \cup {Recommendation(conv[i].answer)}]
       /\ task' = [task EXCEPT ![t] = Idle]
       /\ UNCHANGED <<result, overlap>>

-----------------------------------------------------------------------------
(* The methods.                                                            *)

\* start_screening; a conversation that is under way is replaced.
Start ==
    /\ started < MaxStarts
    /\ started' = started + 1
    /\ current' = started + 1
    /\ UNCHANGED <<conv, task, farewells, result, overlap>>

\* The utterance that handle_transcript is about to count is the last one
\* the LLM may not answer.
Forced(i) == conv[i].exchanges + 1 >= MAX_EXCHANGES_BEFORE_FORCE

\* handle_transcript with a final, non-empty segment: any other, or one
\* without a session, changes nothing.
Hear(t) ==
    /\ task[t] = Idle
    /\ current # 0
    /\ conv[current].exchanges < MaxUtterances
    /\ conv' = [conv EXCEPT ![current].exchanges = @ + 1]
    /\ \/ /\ Forced(current)
          /\ Farewell(t, current)
       \/ /\ ~Forced(current)
          /\ task' = [task EXCEPT ![t] = [wait |-> "reply", of |-> current]]
          /\ UNCHANGED <<farewells, result, overlap>>
    /\ UNCHANGED <<started, current>>

\* Plausible bug: only the third utterance itself triggers the classification.
MutantDue(i) ==
    conv[i].exchanges = MIN_EXCHANGES_FOR_CLASSIFICATION /\ ~conv[i].classified

Due(i) ==
    conv[i].exchanges >= MIN_EXCHANGES_FOR_CLASSIFICATION /\ ~conv[i].classified

\* complete has returned, or raised and is replaced by a polite sentence.
\* The reply may hold an ASSESSMENT, which triggers the classification too.
Reply(t) ==
    LET i == task[t].of
    IN  /\ task[t].wait = "reply"
        /\ conv' = [conv EXCEPT ![i].replied = @ + 1]
        /\ \/ Farewell(t, i)
           \/ /\ ~Due(i)
              /\ task' = [task EXCEPT ![t] = Idle]
              /\ UNCHANGED <<farewells, result, overlap>>
        /\ UNCHANGED <<started, current>>

\* classify_intent has returned a, or raised: a = Failed.
Learn(i, a) ==
    conv' = [conv EXCEPT ![i].classified = TRUE, ![i].answer = Understood(a)]

FarewellClassified(t, a) ==
    LET i == task[t].of
    IN  /\ task[t].wait = "farewell"
        /\ Learn(i, a)
        /\ farewells' = [farewells EXCEPT ![i] = @ \cup {Recommendation(Understood(a))}]
        /\ task' = [task EXCEPT ![t] = Idle]
        /\ UNCHANGED <<started, current, result, overlap>>

\* Plausible bug: the session stays registered until the result is there.
MutantEnd(t) ==
    /\ task[t] = Idle
    /\ current # 0
    /\ \/ /\ ~conv[current].classified
          /\ Classify(t, current, "end")
       \/ /\ conv[current].classified
          /\ result' = [result EXCEPT ![current] = Outcome(conv[current])]
          /\ UNCHANGED <<task, farewells, overlap>>
    /\ UNCHANGED <<conv, started, current>>

\* end_screening takes the session out first.
End(t) ==
    /\ task[t] = Idle
    /\ current # 0
    /\ current' = 0
    /\ \/ /\ ~conv[current].classified
          /\ Classify(t, current, "end")
       \/ /\ conv[current].classified
          /\ result' = [result EXCEPT ![current] = Outcome(conv[current])]
          /\ UNCHANGED <<task, farewells, overlap>>
    /\ UNCHANGED <<conv, started>>

EndClassified(t, a) ==
    LET i == task[t].of
    IN  /\ task[t].wait = "end"
        /\ Learn(i, a)
        /\ result' = [result EXCEPT ![i] = Outcome(conv'[i])]
        /\ task' = [task EXCEPT ![t] = Idle]
        /\ UNCHANGED <<started, current, farewells, overlap>>

-----------------------------------------------------------------------------
Next ==
    \/ Start
    \/ \E t \in Tasks :
          \/ Hear(t) \/ Reply(t) \/ End(t)
          \/ \E a \in Answers \cup {Failed} : FarewellClassified(t, a) \/ EndClassified(t, a)

Spec == Init /\ [][Next]_vars

-----------------------------------------------------------------------------
(* Properties.                                                             *)

InFlight(i) == \E t \in Tasks : task[t].of = i

\* From the third utterance on the intent is known as soon as nothing is in
\* flight, in whatever order the LLM answers, and the LLM never makes conversation
\* beyond the fourth, even if utterances are handled concurrently
\* (screening.py:131-133, 163-167).
ClassifiedInTime ==
    \A i \in Starts :
        /\ conv[i].exchanges >= MIN_EXCHANGES_FOR_CLASSIFICATION /\ ~InFlight(i)
              => conv[i].classified
        /\ conv[i].replied < MAX_EXCHANGES_BEFORE_FORCE

\* The result accounts for every utterance that was accepted: once
\* end_screening has taken the session, none is added (screening.py:107, 182),
\* although it waits for the LLM before it makes the result.  And the result
\* rests on a classification or its fallback (screening.py:193-206).
NothingHeardAfterEnd ==
    \A i \in Starts : result[i] # NoResult =>
        /\ result[i].heard = conv[i].exchanges
        /\ result[i].classified

\* The caller is told what the result says, unless two classifications of the
\* conversation ran at once: intent_classified is read before the await and
\* written after it (screening.py:229-237).
FarewellIsResult ==
    \A i \in Starts : result[i] # NoResult /\ ~overlap[i] =>
        farewells[i] \subseteq {result[i].recommendation}

\* The docstring at screening.py:179-180: end_screening returns a
\* ScreeningResult with transcript, classification and recommendation.
EndReturnsResult ==
    \A i \in Starts : result[i] # NoResult => result[i].trust # "raised"
=============================================================================
