----------------------------- MODULE MCScreening -----------------------------
\* Screening for TLC: the answers of the LLM.
EXTENDS Screening, TLC

EveryAnswer == Classifications

TaskSymmetry == Permutations(Tasks)

\* One answer for each recommendation; the scam's confidence is negative.
TypicalAnswers ==
    {[category |-> "other", legitimate |-> "yes", confidence |-> "high"],
     [category |-> "scam", legitimate |-> "yes", confidence |-> "negative"],
     [category |-> "other", legitimate |-> "no", confidence |-> "low"]}
=============================================================================
