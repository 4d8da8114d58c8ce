------------------------------- MODULE MCIntel --------------------------------
\* Intel for TLC: answers that differ in every way the score tells apart.
EXTENDS Intel

\* A landline with a known carrier and a name, and nothing at all.
Landline == [line |-> "landline", carrier |-> TRUE, cnam |-> TRUE]
TwoAnswers == {Landline, Unanswered}

\* One report short of the threshold, and the missing one.
Reported(bad, good) == [bad |-> bad, good |-> good]
Almost == {Reported(4, 0)}
UpToThreshold == Almost \cup {Reported(5, 0)}

\* A list names everything, or what nobody asks for.
TwoLists == {Numbers, Numbers \ Asked}
=============================================================================
