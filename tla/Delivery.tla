------------------------------- MODULE Delivery -------------------------------
(***************************************************************************)
(* The message of one call on its way to the user and to the caretaker:    *)
(* process_call_to_message (messaging/processor.py), deliver_message       *)
(* (messaging/delivery_service.py) and the forward endpoint                *)
(* (api/v1/messages.py).  A task is one call of one of them with a         *)
(* database session of its own: its rows are seen by others when it        *)
(* commits, and what it sent stays sent when it does not.  The provider    *)
(* behind an adapter may accept a message without the adapter learning it. *)
(***************************************************************************)
EXTENDS Naturals, FiniteSets

CONSTANTS Tasks,       \* the calls of the three operations
          Operations,  \* those that happen: "process", "deliver", "forward"
          Earlier,     \* the messages an earlier call of the first may have left
          Rows,        \* the settings rows the user may have at the start
          Saved,       \* the rows the settings endpoint may save later
          Caretaker,   \* the caretaker's possible preferred channels
          Answers,     \* what classify_intent may return
          Faults,      \* of "lost", "exception" and "rollback", those that happen
          MaxEdits     \* bound: how often the settings are saved

\* discord is like telegram: its address is neither an e-mail nor a number.
Adapters == {"email", "sms", "telegram"}
Channels == Adapters \cup {"unknown"}
Priorities == {"urgent", "normal", "low"}

\* UserSettings: preferred_channel and caretaker_fork_priority are free text;
\* named: caretaker_user_id is set.
Settings == [channel   : Channels, fork : BOOLEAN, named : BOOLEAN,
             threshold : Priorities \cup {"unknown"}]
NoSettings == [channel |-> "none"]

\* The prompt asks for an urgency; the processor looks for a priority.
Classifications == [medical  : BOOLEAN, urgency : {"high", "medium", "low"},
                    priority : Priorities \cup {"absent", "unknown"}]
NoAnswer == [priority |-> "none"]

ASSUME DeliveryAssumption ==
    /\ Operations \subseteq {"process", "deliver", "forward"}
    /\ Earlier \subseteq Priorities
    /\ Rows \subseteq Settings \cup {NoSettings} /\ Saved \subseteq Settings
    /\ Caretaker \subseteq Channels \cup {"none"}
    /\ Answers \subseteq Classifications
    /\ Faults \subseteq {"lost", "exception", "rollback"}
    /\ MaxEdits \in Nat

VARIABLES
    settings,  \* the user's committed settings row
    edits,     \* how often it was saved
    caretaker, \* the caretaker's channel, "none" without a settings row
    message,   \* the committed messages row
    task,      \* task[t]: where t is and what its session holds
    table,     \* table[t][leg]: status of the committed message_deliveries row
    accepted,  \* accepted[t][leg]: how often the provider took the message
    lost       \* lost[t][leg]: how often t was told otherwise

vars == <<settings, edits, caretaker, message, task, table, accepted, lost>>

MAX_RETRIES == 3

Legs == {"user", "caretaker"}
Statuses == {"none", "pending", "delivered", "failed"}
NoRows == [l \in Legs |-> "none"]

Messages == [priority : Priorities \cup {"none"}, status : Statuses,
             via : Channels \cup {"none"}]
NoMessage == [priority |-> "none", status |-> "none", via |-> "none"]

\* A row as the processor commits it.
Fresh(priority) == [priority |-> priority, status |-> "pending", via |-> "none"]

\* "done": committed; "raised": the operation raised, so that its session is
\* rolled back; "undone": rolled back for another reason, or crashed.
Ended == {"done", "raised", "undone"}
Places == Ended \cup {"new", "settings", "send", "caretaker", "commit"}

New == [op |-> "none", pc |-> "new", leg |-> "user", tries |-> 0, seen |-> NoSettings,
        answer |-> NoAnswer, priority |-> "none", rows |-> NoRows,
        loaded |-> NoMessage, channel |-> [l \in Legs |-> "none"]]

Runs == [op : Operations \cup {"none"}, pc : Places, leg : Legs, tries : 0..MAX_RETRIES - 1,
         seen : Settings \cup {NoSettings}, answer : Classifications \cup {NoAnswer},
         priority : Priorities \cup {"none"}, rows : [Legs -> Statuses], loaded : Messages,
         channel : [Legs -> Channels \cup {"none"}]]

TypeOK ==
    /\ settings \in Settings \cup {NoSettings}
    /\ edits \in 0..MaxEdits
    /\ caretaker \in Channels \cup {"none"}
    /\ message \in Messages
    /\ task \in [Tasks -> Runs]
    /\ table \in [Tasks -> [Legs -> Statuses]]
    /\ accepted \in [Tasks -> [Legs -> 0..MAX_RETRIES]]
    /\ lost \in [Tasks -> [Legs -> 0..MAX_RETRIES]]

Init ==
    /\ settings \in Rows
    /\ edits = 0
    /\ caretaker \in Caretaker
    /\ message \in {NoMessage} \cup {Fresh(p) : p \in Earlier}
    /\ task = [t \in Tasks |-> New]
    /\ table = [t \in Tasks |-> NoRows]
    /\ accepted = [t \in Tasks |-> [l \in Legs |-> 0]]
    /\ lost = [t \in Tasks |-> [l \in Legs |-> 0]]

-----------------------------------------------------------------------------
(* Who is told, and where.                                                 *)

\* The priority of a new message.
PriorityOf(a) ==
    CASE a.medical -> "urgent"
      [] ~a.medical /\ a.priority \in Priorities -> a.priority
      [] OTHER -> "normal"

\* Plausible bug: the threshold is compared the wrong way round.
MutantMeets(priority, threshold) ==
    \/ priority = "low" \/ threshold = "urgent"
    \/ priority = "normal" /\ threshold = "normal"

\* _meets_priority_threshold: at least as urgent; an unknown threshold counts
\* as urgent in forking.py, and deliver_message raises.
Meets(priority, threshold) ==
    \/ priority = "urgent" \/ threshold = "low"
    \/ priority = "normal" /\ threshold = "normal"

Forks(s, priority) ==
    s # NoSettings /\ s.fork /\ s.named /\ Meets(priority, s.threshold)

\* The threshold that deliver_message cannot read as a MessagePriority.
Unreadable(s) == s # NoSettings /\ s.fork /\ s.named /\ s.threshold = "unknown"

\* The address an operation takes from the user's row; "asked": a forward
\* goes to the recipient in the request.
Address(op, channel) ==
    CASE op = "forward" -> "asked"
      [] op # "forward" /\ channel = "sms" -> "phone"
      [] op = "deliver" /\ channel = "telegram" -> "phone"
      [] OTHER -> "email"

\* The address the provider behind an adapter can deliver to.
Suits(op, channel) ==
    \/ op = "forward"
    \/ Address(op, channel) = CASE channel = "email"    -> "email"
                                [] channel = "sms"      -> "phone"
                                [] channel = "telegram" -> "chat"

-----------------------------------------------------------------------------
(* Steps of a task.                                                        *)

PreferredChannel(s) == IF s = NoSettings THEN "email" ELSE s.channel

AfterLeg(op, leg) ==
    IF leg = "user" /\ op # "forward" THEN "caretaker" ELSE "commit"

\* The task r turns to a leg.  deliver_message_to_channel adds a pending row
\* before it sends, deliver_message adds none; without an adapter for the
\* channel nothing is recorded or sent.
Turn(r, leg, channel) ==
    LET to == [r EXCEPT !.leg = leg, !.channel[leg] = channel]
    IN  IF channel \in Adapters
        THEN [to EXCEPT !.pc = "send",
                        !.rows[leg] = IF r.op = "deliver" THEN "none" ELSE "pending"]
        ELSE [to EXCEPT !.pc = AfterLeg(r.op, leg)]

Recorded(r, status) ==
    [r EXCEPT !.rows[r.leg] = status, !.tries = 0, !.pc = AfterLeg(r.op, r.leg)]

\* Plausible bug: the pending row is not updated when the adapter raises.
MutantAnswered(r, answer) ==
    CASE answer = "success" -> Recorded(r, "delivered")
      [] answer = "failure" /\ r.op = "deliver" /\ r.tries < MAX_RETRIES - 1 ->
            [r EXCEPT !.tries = @ + 1]
      [] answer = "exception" /\ r.op = "deliver" -> [r EXCEPT !.pc = "raised"]
      [] answer = "exception" /\ r.op # "deliver" ->
            [r EXCEPT !.tries = 0, !.pc = AfterLeg(r.op, r.leg)]
      [] OTHER -> Recorded(r, "failed")

\* Plausible bug: deliver_message does not stop at a success.
MutantAnsweredAgain(r, answer) ==
    CASE r.op = "deliver" /\ r.tries < MAX_RETRIES - 1 -> [r EXCEPT !.tries = @ + 1]
      [] answer = "success" -> Recorded(r, "delivered")
      [] OTHER -> Recorded(r, "failed")

\* Plausible bug: deliver_message_to_channel lets the adapter's exception pass.
MutantAnsweredRaises(r, answer) ==
    CASE answer = "success" -> Recorded(r, "delivered")
      [] answer = "failure" /\ r.op = "deliver" /\ r.tries < MAX_RETRIES - 1 ->
            [r EXCEPT !.tries = @ + 1]
      [] answer = "exception" -> [r EXCEPT !.pc = "raised"]
      [] OTHER -> Recorded(r, "failed")

\* What the answer of an adapter does to the task r.  deliver_message tries
\* MAX_RETRIES times, and raises what the adapter raises, without a row;
\* deliver_message_to_channel makes it a failure.
Answered(r, answer) ==
    CASE answer = "success" -> Recorded(r, "delivered")
      [] answer = "failure" /\ r.op = "deliver" /\ r.tries < MAX_RETRIES - 1 ->
            [r EXCEPT !.tries = @ + 1]
      [] answer = "exception" /\ r.op = "deliver" -> [r EXCEPT !.pc = "raised"]
      [] OTHER -> Recorded(r, "failed")

\* The caretaker fork of the task r.  fork_message_to_caretaker needs a settings
\* row of the caretaker; deliver_message falls back to e-mail, and raises on
\* a threshold that is no MessagePriority.
Asked(r) ==
    CASE r.op = "deliver" /\ Unreadable(r.seen) -> [r EXCEPT !.pc = "raised"]
      [] \/ ~Forks(r.seen, r.priority) /\ ~(r.op = "deliver" /\ Unreadable(r.seen))
         \/ Forks(r.seen, r.priority) /\ r.op = "process" /\ caretaker = "none" ->
            [r EXCEPT !.pc = "commit"]
      [] OTHER -> Turn(r, "caretaker", IF caretaker = "none" THEN "email" ELSE caretaker)

\* SQLAlchemy updates a column only if the value set is not the value loaded.
Updated(r, status, via) ==
    [message EXCEPT !.status = IF status = r.loaded.status THEN @ ELSE status,
                    !.via    = IF via = r.loaded.via THEN @ ELSE via]

\* Plausible bug: an attempt is taken for a success.
MutantMessageAfter(r) ==
    CASE r.op = "process" -> Fresh(r.priority)
      [] r.op = "deliver" /\ r.rows # NoRows ->
            Updated(r, "delivered", PreferredChannel(r.seen))
      [] OTHER -> message

\* Plausible bug: one failure is enough for "failed".
MutantMessageFails(r) ==
    LET failure == \E l \in Legs : r.rows[l] = "failed"
    IN  CASE r.op = "process" -> Fresh(r.priority)
          [] r.op = "deliver" /\ failure -> Updated(r, "failed", r.loaded.via)
          [] r.op = "deliver" /\ r.rows # NoRows /\ ~failure ->
                Updated(r, "delivered", PreferredChannel(r.seen))
          [] OTHER -> message

\* The messages row when the task r commits.  Only deliver_message updates the
\* status: one success is enough, and via is the user's channel all the same.
MessageAfter(r) ==
    LET success == \E l \in Legs : r.rows[l] = "delivered"
    IN  CASE r.op = "process" -> Fresh(r.priority)
          [] r.op = "deliver" /\ success ->
                Updated(r, "delivered", PreferredChannel(r.seen))
          [] r.op = "deliver" /\ r.rows # NoRows /\ ~success ->
                Updated(r, "failed", r.loaded.via)
          [] OTHER -> message

-----------------------------------------------------------------------------
(* Actions.                                                                *)

Idle(t) == task[t].pc = "new"
Becomes(t, r) == task' = [task EXCEPT ![t] = r]

\* process_call_to_message up to its flush, once per call.
Process(t) ==
    /\ "process" \in Operations /\ Idle(t)
    /\ message = NoMessage /\ \A u \in Tasks : task[u].op # "process"
    /\ \E a \in Answers :
        Becomes(t, [New EXCEPT !.op = "process", !.pc = "settings",
                               !.answer = a, !.priority = PriorityOf(a)])
    /\ UNCHANGED <<settings, edits, caretaker, message, table, accepted, lost>>

Deliver(t) ==
    /\ "deliver" \in Operations /\ Idle(t)
    /\ message # NoMessage
    /\ Becomes(t, [New EXCEPT !.op = "deliver", !.pc = "settings",
                              !.priority = message.priority, !.loaded = message])
    /\ UNCHANGED <<settings, edits, caretaker, message, table, accepted, lost>>

Forward(t) ==
    /\ "forward" \in Operations /\ Idle(t)
    /\ message # NoMessage
    /\ \E c \in Channels :
        Becomes(t, Turn([New EXCEPT !.op = "forward", !.priority = message.priority],
                        "user", c))
    /\ UNCHANGED <<settings, edits, caretaker, message, table, accepted, lost>>

\* The processor skips both legs of a user without a settings row.
ReadSettings(t) ==
    /\ task[t].pc = "settings"
    /\ LET r == [task[t] EXCEPT !.seen = settings]
       IN  Becomes(t, IF r.op = "process" /\ settings = NoSettings
                      THEN [r EXCEPT !.pc = "commit"]
                      ELSE Turn(r, "user", PreferredChannel(settings)))
    /\ UNCHANGED <<settings, edits, caretaker, message, table, accepted, lost>>

\* One adapter.send: what the provider did, and what the adapter made of it.
\* The adapters turn an httpx.HTTPError into a failure; anything else they
\* raise (an unreadable answer, an invalid URL) is an exception.
Send(t) ==
    /\ task[t].pc = "send"
    /\ LET leg == task[t].leg IN
       \E took \in BOOLEAN, answer \in {"success", "failure", "exception"} :
        /\ took => Suits(task[t].op, task[t].channel[leg])
        /\ answer = "success" => took
        /\ (took /\ answer # "success") => "lost" \in Faults
        /\ answer = "exception" => "exception" \in Faults
        /\ Becomes(t, Answered(task[t], answer))
        /\ accepted' = [accepted EXCEPT ![t][leg] = @ + IF took THEN 1 ELSE 0]
        /\ lost' = [lost EXCEPT ![t][leg] =
                        @ + IF took /\ answer # "success" THEN 1 ELSE 0]
    /\ UNCHANGED <<settings, edits, caretaker, message, table>>

AskCaretaker(t) ==
    /\ task[t].pc = "caretaker"
    /\ Becomes(t, Asked(task[t]))
    /\ UNCHANGED <<settings, edits, caretaker, message, table, accepted, lost>>

Commit(t) ==
    /\ task[t].pc = "commit"
    /\ Becomes(t, [task[t] EXCEPT !.pc = "done"])
    /\ message' = MessageAfter(task[t])
    /\ table' = [table EXCEPT ![t] = task[t].rows]
    /\ UNCHANGED <<settings, edits, caretaker, accepted, lost>>

\* The process dies, the request is cancelled or a statement fails, which the
\* session answers by refusing everything after it: nothing is committed.
RollBack(t) ==
    /\ "rollback" \in Faults
    /\ task[t].pc \notin Ended \cup {"new"}
    /\ Becomes(t, [task[t] EXCEPT !.pc = "undone"])
    /\ UNCHANGED <<settings, edits, caretaker, message, table, accepted, lost>>

\* PUT /settings; the endpoint has no caretaker_user_id to set.
SaveSettings ==
    /\ edits < MaxEdits
    /\ \E s \in Saved :
        settings' = [s EXCEPT !.named = settings # NoSettings /\ settings.named]
    /\ edits' = edits + 1
    /\ UNCHANGED <<caretaker, message, task, table, accepted, lost>>

Step(t) == ReadSettings(t) \/ Send(t) \/ AskCaretaker(t) \/ Commit(t)

Next ==
    \/ \E t \in Tasks : Process(t) \/ Deliver(t) \/ Forward(t) \/ Step(t) \/ RollBack(t)
    \/ SaveSettings

Spec == Init /\ [][Next]_vars

-----------------------------------------------------------------------------
(* Properties.                                                             *)

\* The operations that have neither committed nor failed.
Open == {t \in Tasks : task[t].pc \notin Ended}

Ledger == INSTANCE DeliveryLedger
          WITH open <- Open, copies <- accepted, doubts <- lost,
               entry <- table, status <- message.status

\* Processor, retries, fork and forward endpoint implement at-least-once delivery
\* with honest books: no copy is sent after one is known to have got through or
\* after the rows were committed, rows are committed once and together, and the
\* status follows the rows that are committed with it (delivery_service.py:101-299).
ImplementsLedger == Ledger!Spec

\* No committed row is false: "delivered" was accepted by the provider, of
\* "failed" the provider accepted nothing but what it failed to say, and no row
\* stays pending, whatever the adapter did (delivery_service.py:258-290).
LedgerHonest ==
    \A t \in Tasks, l \in Legs :
        /\ table[t][l] # "pending"
        /\ table[t][l] = "delivered" => accepted[t][l] = lost[t][l] + 1
        /\ table[t][l] = "failed" => accepted[t][l] = lost[t][l]

\* What the provider took has a row when the operation is over, whatever adapters
\* and the other leg did, unless it was rolled back from outside or deliver_message
\* raised: on a threshold it cannot read, which costs the user's row, or out of
\* an adapter; and then a copy known to have got through loses its row only if it
\* is the user's and the caretaker's leg raised.  Processor and forward endpoint
\* never raise (delivery_service.py:43, 87, 163, 200, 267-279).
LossExplained ==
    \A t \in Tasks, l \in Legs :
        accepted[t][l] > 0 /\ table[t][l] = "none" /\ task[t].pc \in {"done", "raised"} =>
            /\ task[t].op = "deliver"
            /\ \/ Unreadable(task[t].seen) /\ l = "user"
               \/ /\ "exception" \in Faults
                  /\ accepted[t][l] > lost[t][l] => l = "user" /\ task[t].leg = "caretaker"

\* Nobody gets a message of one operation twice, unless the provider's answer to
\* the first was lost, and never more than MAX_RETRIES times; only
\* deliver_message retries (_send_with_retry).
DuplicatesOnlyAfterLoss ==
    \A t \in Tasks, l \in Legs :
        /\ accepted[t][l] <= lost[t][l] + 1
        /\ accepted[t][l] > 1 => task[t].op = "deliver"

\* The fork does not depend on the user's own delivery: a committed operation tried
\* to tell the caretaker if and only if the settings it read ask for it and
\* the caretaker can be told (processor.py:101-119, delivery_service.py:174-209).
ForkIsIndependent ==
    \A t \in Tasks :
        LET s == task[t].seen
            rank == [urgent |-> 0, normal |-> 1, low |-> 2, unknown |-> 0]
            asked == s # NoSettings /\ s.fork /\ s.named
                        /\ rank[task[t].priority] <= rank[s.threshold]
            tellable == \/ caretaker \in Adapters
                        \/ caretaker = "none" /\ task[t].op = "deliver"
        IN  task[t].pc = "done" /\ task[t].op # "forward" =>
                (table[t]["caretaker"] # "none" <=> asked /\ tellable)

\* The messages row agrees with its deliveries: it says "delivered" or names a
\* channel only if a send was recorded as delivered, and "failed" only if one
\* was recorded as failed (delivery_service.py:211-220).
StatusTells ==
    LET recorded(status) == \E t \in Tasks, l \in Legs :
                                task[t].op = "deliver" /\ table[t][l] = status
    IN  /\ message.status = "delivered" \/ message.via # "none" => recorded("delivered")
        /\ message.status = "failed" => recorded("failed")
        /\ message.status = "pending" => ~recorded("delivered") /\ ~recorded("failed")
=============================================================================
