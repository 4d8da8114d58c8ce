------------------------------ MODULE MCDelivery ------------------------------
\* Delivery for TLC: the settings and classifications that tell cases apart.
EXTENDS Delivery, TLC

TaskSymmetry == Permutations(Tasks)

\* Rows an administrator completed with a caretaker.
Row(channel, fork, threshold) ==
    [channel |-> channel, fork |-> fork, named |-> TRUE, threshold |-> threshold]

NamedRows == {Row("email", TRUE, "urgent"), Row("sms", TRUE, "normal"),
              Row("unknown", TRUE, "low"), Row("email", TRUE, "unknown"),
              Row("email", FALSE, "low"), NoSettings}

\* What a user can save himself.
SavedRows == {Row("sms", TRUE, "normal"), Row("email", FALSE, "low")}

Answer(medical, urgency, priority) ==
    [medical |-> medical, urgency |-> urgency, priority |-> priority]

\* One answer for each priority, an unknown one and a medical call.
EveryPriority == {Answer(FALSE, "low", p) : p \in {"absent", "low", "urgent", "unknown"}}
                    \cup {Answer(TRUE, "low", "low")}
=============================================================================
