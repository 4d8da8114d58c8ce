--------------------------- MODULE DeliveryProofs ----------------------------
(***************************************************************************)
(* Proofs about Delivery for any tasks, settings, answers and failures.    *)
(* Books says, for each leg of each task, how the provider's count, the    *)
(* row and the place of the task belong together; Story, how the messages  *)
(* row and the tasks that work on it do; Fork, for which tasks the         *)
(* caretaker's leg has been or will be tried; Raised, where a task was     *)
(* when it raised.                                                         *)
(***************************************************************************)
EXTENDS Delivery, TLAPS

Sending(t, l) == task[t].pc = "send" /\ task[t].leg = l

\* The leg has not been reached.
Ahead(t, l) ==
    \/ task[t].pc \in {"new", "settings"}
    \/ l = "caretaker" /\ (task[t].pc = "caretaker" \/ Sending(t, "user"))

\* What a finished leg has in its row, r being the task's record.
Settled(r, t, l) ==
    /\ r.rows[l] # "pending"
    /\ r.rows[l] = "delivered" => accepted[t][l] = lost[t][l] + 1
    /\ r.rows[l] = "failed" => accepted[t][l] = lost[t][l]
    /\ r.rows[l] = "none" => accepted[t][l] = 0

Untouched(r, t, l) == r.rows[l] = "none" /\ accepted[t][l] = 0

Waiting(r, t, l) ==
    /\ accepted[t][l] = lost[t][l] /\ accepted[t][l] <= r.tries
    /\ r.rows[l] = IF r.op = "deliver" THEN "none" ELSE "pending"

Book(t, l) ==
    /\ lost[t][l] <= accepted[t][l] /\ accepted[t][l] <= lost[t][l] + 1
    /\ accepted[t][l] > 1 => task[t].op = "deliver"
    /\ Ahead(t, l) => Untouched(task[t], t, l)
    /\ Sending(t, l) => Waiting(task[t], t, l)
    /\ ~Ahead(t, l) /\ ~Sending(t, l) /\ task[t].pc \notin {"raised", "undone"} => Settled(task[t], t, l)

Tries(t) ==
    /\ task[t].pc \in {"new", "settings", "caretaker"} => task[t].tries = 0
    /\ task[t].pc = "send" /\ task[t].tries > 0 => task[t].op = "deliver"
    /\ table[t] = IF task[t].pc = "done" THEN task[t].rows ELSE NoRows
    /\ task[t].pc = "new" => task[t] = New

Books == \A t \in Tasks : Tries(t) /\ \A l \in Legs : Book(t, l)

-----------------------------------------------------------------------------
(* What the parts of an operation do to its task.                          *)

LEMMA NewRun == New \in Runs
  BY DEF New, Runs, Places, Ended, Legs, NoRows, Statuses, NoMessage, Messages, MAX_RETRIES

LEMMA TurnFacts ==
    ASSUME NEW r \in Runs, NEW leg \in Legs, NEW channel \in Channels
    PROVE  LET n == Turn(r, leg, channel)
           IN  /\ n \in Runs /\ n.op = r.op /\ n.tries = r.tries /\ n.seen = r.seen
               /\ n.priority = r.priority /\ n.loaded = r.loaded
               /\ \A l \in Legs \ {leg} : n.rows[l] = r.rows[l]
               /\ channel \in Adapters =>
                     /\ n.pc = "send" /\ n.leg = leg
                     /\ n.rows[leg] = IF r.op = "deliver" THEN "none" ELSE "pending"
               /\ channel \notin Adapters =>
                     n.pc = AfterLeg(r.op, leg) /\ n.rows = r.rows
<1> DEFINE to == [r EXCEPT !.leg = leg, !.channel[leg] = channel]
<1>1. to \in Runs /\ to.leg = leg /\ to.rows = r.rows
  BY DEF Runs
<1>2. AfterLeg(r.op, leg) \in Places
  BY DEF AfterLeg, Places
<1>3. CASE channel \in Adapters
  <2>1. Turn(r, leg, channel) =
           [to EXCEPT !.pc = "send",
                      !.rows[leg] = IF r.op = "deliver" THEN "none" ELSE "pending"]
    BY <1>3 DEF Turn
  <2> DEFINE row == IF r.op = "deliver" THEN "none" ELSE "pending"
             rows == [r.rows EXCEPT ![leg] = row]
  <2>2. rows \in [Legs -> Statuses] /\ rows[leg] = row /\ \A l \in Legs \ {leg} : rows[l] = r.rows[l]
    BY DEF Runs, Statuses
  <2>3. Turn(r, leg, channel) = [[to EXCEPT !.pc = "send"] EXCEPT !.rows = rows]
    BY <1>1, <2>1 DEF Runs
  <2> HIDE DEF rows
  <2>4. Turn(r, leg, channel) \in Runs
    BY <1>1, <2>2, <2>3 DEF Runs, Places
  <2> QED BY <1>1, <1>3, <2>2, <2>3, <2>4 DEF Runs
<1>4. CASE channel \notin Adapters
  <2>1. Turn(r, leg, channel) = [to EXCEPT !.pc = AfterLeg(r.op, leg)]
    BY <1>4 DEF Turn
  <2> QED BY <1>1, <1>2, <1>4, <2>1 DEF Runs
<1> QED BY <1>3, <1>4

LEMMA RecordedFacts ==
    ASSUME NEW r \in Runs, NEW status \in Statuses
    PROVE  LET n == Recorded(r, status)
           IN  /\ n \in Runs /\ n.op = r.op /\ n.tries = 0 /\ n.seen = r.seen
               /\ n.priority = r.priority /\ n.loaded = r.loaded /\ n.leg = r.leg
               /\ \A l \in Legs \ {r.leg} : n.rows[l] = r.rows[l]
               /\ n.rows[r.leg] = status
               /\ n.pc = AfterLeg(r.op, r.leg)
<1>1. AfterLeg(r.op, r.leg) \in Places
  BY DEF AfterLeg, Places
<1> DEFINE rows == [r.rows EXCEPT ![r.leg] = status]
<1>2. /\ rows \in [Legs -> Statuses] /\ rows[r.leg] = status
      /\ \A l \in Legs \ {r.leg} : rows[l] = r.rows[l]
  BY DEF Runs
<1>3. Recorded(r, status) = [r EXCEPT !.rows = rows, !.tries = 0, !.pc = AfterLeg(r.op, r.leg)]
  BY DEF Recorded, Runs
<1> HIDE DEF rows
<1>4. Recorded(r, status) \in Runs
  <2>1. 0 \in 0..MAX_RETRIES - 1
    BY DEF MAX_RETRIES
  <2> QED BY <1>1, <1>2, <1>3, <2>1 DEF Runs
<1> DEFINE n == Recorded(r, status)
<1>5. /\ n.op = r.op /\ n.tries = 0 /\ n.seen = r.seen /\ n.priority = r.priority
      /\ n.loaded = r.loaded /\ n.leg = r.leg /\ n.rows = rows
      /\ n.pc = AfterLeg(r.op, r.leg)
  BY <1>3 DEF Runs
<1>6. \A l \in Legs \ {r.leg} : n.rows[l] = r.rows[l]
  BY <1>2, <1>5
<1>7. n.rows[r.leg] = status
  BY <1>2, <1>5
<1> QED BY <1>4, <1>5, <1>6, <1>7

\* The processor has read its settings, or deliver_message has.
LEMMA SeenRun ==
    ASSUME NEW r \in Runs, NEW s \in Settings \cup {NoSettings}
    PROVE  LET n == [r EXCEPT !.seen = s]
           IN  /\ n \in Runs /\ n.seen = s /\ n.op = r.op /\ n.pc = r.pc /\ n.leg = r.leg
               /\ n.tries = r.tries /\ n.priority = r.priority /\ n.loaded = r.loaded
               /\ n.rows = r.rows
  BY DEF Runs

LEMMA PlacedRun ==
    ASSUME NEW r \in Runs, NEW pc \in Places
    PROVE  LET n == [r EXCEPT !.pc = pc]
           IN  /\ n \in Runs /\ n.pc = pc /\ n.op = r.op /\ n.leg = r.leg
               /\ n.tries = r.tries /\ n.priority = r.priority /\ n.loaded = r.loaded
               /\ n.rows = r.rows /\ n.seen = r.seen
  BY DEF Runs

\* A preferred channel is a channel: e-mail without a row.
LEMMA PreferredIsChannel ==
    ASSUME NEW s \in Settings \cup {NoSettings} PROVE PreferredChannel(s) \in Channels
  BY DEF PreferredChannel, Settings, Channels, Adapters

\* A new message always has a priority.
LEMMA PrioritiesOnly == ASSUME NEW a \in Classifications PROVE PriorityOf(a) \in Priorities
  BY DEF PriorityOf, Priorities, Classifications

\* What an answer of the adapter leads to.
LEMMA AnsweredFacts ==
    ASSUME NEW r \in Runs, NEW answer \in {"success", "failure", "exception"}
    PROVE  LET n == Answered(r, answer)
           IN  \/ n = Recorded(r, "delivered") /\ answer = "success"
               \/ n = Recorded(r, "failed") /\ answer # "success"
               \/ n = [r EXCEPT !.pc = "raised"] /\ r.op = "deliver" /\ answer = "exception"
               \/ /\ n = [r EXCEPT !.tries = r.tries + 1]
                  /\ r.tries < MAX_RETRIES - 1 /\ r.op = "deliver" /\ answer # "success"
<1>1. CASE answer = "success"
  BY <1>1 DEF Answered
<1>2. CASE answer = "failure" /\ r.op = "deliver" /\ r.tries < MAX_RETRIES - 1
  BY <1>2 DEF Answered
<1>3. CASE answer = "exception" /\ r.op = "deliver"
  BY <1>3 DEF Answered
<1>4. CASE answer # "success" /\ ~(answer = "failure" /\ r.op = "deliver" /\ r.tries < MAX_RETRIES - 1)
           /\ ~(answer = "exception" /\ r.op = "deliver")
  BY <1>4 DEF Answered
<1> QED BY <1>1, <1>2, <1>3, <1>4

LEMMA TriedRun ==
    ASSUME NEW r \in Runs, r.tries < MAX_RETRIES - 1
    PROVE  LET n == [r EXCEPT !.tries = r.tries + 1]
           IN  /\ n \in Runs /\ n.tries = r.tries + 1 /\ n.op = r.op /\ n.pc = r.pc
               /\ n.leg = r.leg /\ n.priority = r.priority /\ n.loaded = r.loaded
               /\ n.rows = r.rows /\ n.seen = r.seen
<1>1. r.tries + 1 \in 0..MAX_RETRIES - 1
  BY DEF Runs, MAX_RETRIES
<1> QED BY <1>1 DEF Runs

-----------------------------------------------------------------------------
(* The books.                                                              *)

LEMMA Numbers ==
    ASSUME TypeOK, NEW t \in Tasks, NEW l \in Legs
    PROVE  accepted[t][l] \in Nat /\ lost[t][l] \in Nat /\ task[t].tries \in Nat
<1>1. \A x \in 0..MAX_RETRIES : x \in Nat
  BY DEF MAX_RETRIES
<1>2. accepted[t][l] \in 0..MAX_RETRIES /\ lost[t][l] \in 0..MAX_RETRIES
  BY DEF TypeOK
<1>3. task[t].tries \in Nat
  BY DEF TypeOK, Runs, MAX_RETRIES
<1> QED BY <1>1, <1>2, <1>3

\* Only the task t and its rows and counts change.
LEMMA BooksKept ==
    ASSUME TypeOK, Books, NEW t \in Tasks, NEW n \in Runs, task' = [task EXCEPT ![t] = n],
           \A u \in Tasks \ {t} : /\ table'[u] = table[u]
                                  /\ accepted'[u] = accepted[u] /\ lost'[u] = lost[u],
           Tries(t)', \A l \in Legs : Book(t, l)'
    PROVE  Books'
<1>1. \A u \in Tasks \ {t} : task'[u] = task[u]
  BY DEF TypeOK
<1>2. ASSUME NEW u \in Tasks \ {t} PROVE Tries(u)'
  <2>1. Tries(u) /\ task'[u] = task[u] /\ table'[u] = table[u]
    BY <1>1 DEF Books
  <2> QED BY <2>1 DEF Tries
<1>3. \A u \in Tasks \ {t}, l \in Legs : Book(u, l)'
  BY <1>1 DEF Books, Book, Ahead, Sending, Untouched, Waiting, Settled
<1> QED BY <1>2, <1>3 DEF Books

\* A task turns to a leg that it has not reached; the other is over, or comes
\* later.
LEMMA TurnBooks ==
    ASSUME TypeOK, Books, NEW t \in Tasks, NEW r \in Runs, NEW leg \in Legs, NEW channel \in Channels,
           r.tries = 0, Becomes(t, Turn(r, leg, channel)),
           UNCHANGED <<table, accepted, lost>>, table[t] = NoRows,
           \A l \in Legs : accepted[t][l] > 1 => r.op = "deliver",
           Untouched(r, t, leg),
           \A l \in Legs \ {leg} : IF leg = "user" THEN Untouched(r, t, l) ELSE Settled(r, t, l)
    PROVE  Books'
<1> DEFINE n == Turn(r, leg, channel)
<1>1. /\ n \in Runs /\ n.op = r.op /\ n.tries = 0
      /\ \A l \in Legs \ {leg} : n.rows[l] = r.rows[l]
      /\ channel \in Adapters => /\ n.pc = "send" /\ n.leg = leg
                                 /\ n.rows[leg] = IF r.op = "deliver" THEN "none" ELSE "pending"
      /\ channel \notin Adapters => n.pc = AfterLeg(r.op, leg) /\ n.rows = r.rows
  BY TurnFacts
<1> HIDE DEF n
<1>2. task' = [task EXCEPT ![t] = n] /\ task'[t] = n
  BY <1>1 DEF Becomes, TypeOK, n
<1>3. n.pc \in {"send", "caretaker", "commit"} /\ (n.pc = "send" => channel \in Adapters)
  BY <1>1 DEF AfterLeg
<1>4. Tries(t)'
  BY <1>1, <1>2, <1>3 DEF Tries
<1>5. ASSUME NEW l \in Legs PROVE Book(t, l)'
  <2>1. /\ accepted[t][l] \in Nat /\ lost[t][l] \in Nat
        /\ lost[t][l] <= accepted[t][l] /\ accepted[t][l] <= lost[t][l] + 1
    BY Numbers DEF Books, Book
  <2>2. CASE l = leg
    <3>1. accepted[t][l] = 0 /\ lost[t][l] = 0 /\ r.rows[l] = "none"
      BY <2>1, <2>2 DEF Untouched
    <3>2. CASE channel \in Adapters
      <4>1. ~Ahead(t, l)' /\ Sending(t, l)'
        BY <1>1, <1>2, <2>2, <3>2 DEF Ahead, Sending
      <4>2. Waiting(task[t], t, l)'
        BY <1>1, <1>2, <2>2, <3>1, <3>2 DEF Waiting
      <4> QED BY <1>2, <2>1, <3>1, <4>1, <4>2 DEF Book
    <3>3. CASE channel \notin Adapters
      <4>1. ~Sending(t, l)'
        BY <1>1, <1>2, <3>3 DEF Sending, AfterLeg
      <4>2. Untouched(task[t], t, l)' /\ Settled(task[t], t, l)'
        BY <1>1, <1>2, <3>1, <3>3 DEF Untouched, Settled
      <4> QED BY <1>2, <2>1, <3>1, <4>1, <4>2 DEF Book
    <3> QED BY <3>2, <3>3
  <2>3. CASE l # leg
    <3>1. n.rows[l] = r.rows[l]
      BY <1>1, <2>3
    <3>2. accepted[t][l] > 1 => n.op = "deliver"
      BY <1>1
    <3>3. ~Sending(t, l)'
      BY <1>1, <1>2, <1>3, <2>3 DEF Sending
    <3>4. CASE leg = "user"
      <4>1. accepted[t][l] = 0 /\ n.rows[l] = "none"
        BY <2>3, <3>1, <3>4 DEF Untouched
      <4>2. Untouched(task[t], t, l)' /\ Settled(task[t], t, l)'
        BY <1>2, <4>1 DEF Untouched, Settled
      <4> QED BY <1>2, <2>1, <3>3, <4>1, <4>2 DEF Book
    <3>5. CASE leg = "caretaker"
      <4>1. Settled(r, t, l) /\ l = "user"
        BY <2>3, <3>5 DEF Legs
      <4>2. Settled(task[t], t, l)'
        BY <1>2, <3>1, <4>1 DEF Settled
      <4>3. ~Ahead(t, l)'
        BY <1>2, <1>3, <4>1 DEF Ahead
      <4> QED BY <1>2, <2>1, <3>2, <3>3, <4>2, <4>3 DEF Book
    <3> QED BY <3>4, <3>5 DEF Legs
  <2> QED BY <2>2, <2>3
<1> QED BY <1>1, <1>2, <1>4, <1>5, BooksKept

\* One send: the counts of its leg move with the row.
LEMMA SendBooks ==
    ASSUME TypeOK, Books, NEW t \in Tasks, Send(t)
    PROVE  /\ Books'
           /\ task' \in [Tasks -> Runs]
           /\ accepted' \in [Tasks -> [Legs -> 0..MAX_RETRIES]]
           /\ lost' \in [Tasks -> [Legs -> 0..MAX_RETRIES]]
<1>0. PICK r \in Runs : r = task[t]
  BY DEF TypeOK
<1> DEFINE leg == r.leg
<1>1. PICK took \in BOOLEAN, answer \in {"success", "failure", "exception"} :
         /\ answer = "success" => took
         /\ Becomes(t, Answered(r, answer))
         /\ accepted' = [accepted EXCEPT ![t][r.leg] = @ + IF took THEN 1 ELSE 0]
         /\ lost' = [lost EXCEPT ![t][r.leg] =
                        @ + IF took /\ answer # "success" THEN 1 ELSE 0]
  BY <1>0 DEF Send
<1>2. r \in Runs /\ r.pc = "send" /\ table' = table /\ leg \in Legs
  BY <1>0 DEF Send, TypeOK, Runs
<1> DEFINE n == Answered(r, answer)
           got == accepted[t][leg]
           more == IF took THEN 1 ELSE 0
           missed == IF took /\ answer # "success" THEN 1 ELSE 0
<1>3. /\ got \in Nat /\ lost[t][leg] = got /\ got <= r.tries /\ r.tries \in 0..MAX_RETRIES - 1
      /\ r.rows[leg] = IF r.op = "deliver" THEN "none" ELSE "pending"
      /\ r.tries > 0 => r.op = "deliver"
  BY <1>0, <1>2, Numbers DEF Books, Book, Sending, Waiting, Tries, Runs
<1>4. /\ n \in Runs /\ n.op = r.op /\ \A l \in Legs \ {leg} : n.rows[l] = r.rows[l]
      /\ \/ /\ n.pc = AfterLeg(r.op, leg) /\ n.tries = 0
            /\ \/ n.rows[leg] = "delivered" /\ answer = "success"
               \/ n.rows[leg] = "failed" /\ answer # "success"
         \/ n.pc = "raised" /\ answer # "success"
         \/ /\ n.pc = "send" /\ n.leg = leg /\ answer # "success" /\ n.rows = r.rows
            /\ n.tries = r.tries + 1 /\ n.tries \in 0..MAX_RETRIES - 1 /\ r.op = "deliver"
  <2>1. CASE n = Recorded(r, "delivered") /\ answer = "success"
    BY <1>2, <2>1, RecordedFacts DEF Statuses
  <2>2. CASE n = Recorded(r, "failed") /\ answer # "success"
    BY <1>2, <2>2, RecordedFacts DEF Statuses
  <2>3. CASE n = [r EXCEPT !.pc = "raised"] /\ answer = "exception"
    <3>1. "raised" \in Places
      BY DEF Places, Ended
    <3> QED BY <1>2, <2>3, <3>1, PlacedRun
  <2>4. CASE /\ n = [r EXCEPT !.tries = r.tries + 1]
             /\ r.tries < MAX_RETRIES - 1 /\ r.op = "deliver" /\ answer # "success"
    <3>1. r.tries + 1 \in 0..MAX_RETRIES - 1
      BY <1>3, <2>4 DEF MAX_RETRIES
    <3> QED BY <1>2, <2>4, <3>1, TriedRun
  <2> QED BY <1>2, <2>1, <2>2, <2>3, <2>4, AnsweredFacts
<1> HIDE DEF n
<1>5. task' = [task EXCEPT ![t] = n] /\ task'[t] = n /\ task' \in [Tasks -> Runs]
  BY <1>1, <1>4 DEF Becomes, TypeOK, n
<1>6. /\ accepted'[t][leg] = got + more
      /\ lost'[t][leg] = got + missed
      /\ \A l \in Legs \ {leg} : accepted'[t][l] = accepted[t][l] /\ lost'[t][l] = lost[t][l]
      /\ \A u \in Tasks \ {t} : accepted'[u] = accepted[u] /\ lost'[u] = lost[u]
  BY <1>1, <1>2, <1>3 DEF TypeOK
<1>7. got + more \in 0..MAX_RETRIES /\ got + missed \in 0..MAX_RETRIES
  BY <1>3 DEF MAX_RETRIES
<1>8. /\ accepted' \in [Tasks -> [Legs -> 0..MAX_RETRIES]]
      /\ lost' \in [Tasks -> [Legs -> 0..MAX_RETRIES]]
  BY <1>1, <1>2, <1>3, <1>7 DEF TypeOK
<1>9. n.pc \in {"caretaker", "commit", "raised", "send"}
  BY <1>4 DEF AfterLeg
<1>10. Tries(t)'
  <2>1. Tries(t)
    BY DEF Books
  <2> QED BY <1>0, <1>2, <1>3, <1>4, <1>5, <1>9, <2>1 DEF Tries, MAX_RETRIES
<1>11. Book(t, leg)'
  <2>1. /\ got + missed <= got + more /\ got + more <= got + missed + 1
        /\ got + more > 1 => n.op = "deliver"
    BY <1>1, <1>3, <1>4
  <2>2. CASE n.pc = "send"
    <3>1. Sending(t, leg)' /\ ~Ahead(t, leg)'
      BY <1>2, <1>4, <1>5, <2>2 DEF Sending, Ahead, AfterLeg
    <3>2. Waiting(task[t], t, leg)'
      BY <1>3, <1>4, <1>5, <1>6, <2>2 DEF Waiting, AfterLeg
    <3> QED BY <1>5, <1>6, <2>1, <2>2, <3>1, <3>2 DEF Book
  <2>3. CASE n.pc = "raised"
    <3>1. ~Ahead(t, leg)' /\ ~Sending(t, leg)' /\ task'[t].pc = "raised"
      BY <1>5, <2>3 DEF Sending, Ahead
    <3> QED BY <1>5, <1>6, <2>1, <3>1 DEF Book
  <2>4. CASE n.pc \notin {"send", "raised"}
    <3>1. /\ n.pc = AfterLeg(r.op, leg)
          /\ \/ n.rows[leg] = "delivered" /\ answer = "success"
             \/ n.rows[leg] = "failed" /\ answer # "success"
      BY <1>4, <2>4
    <3>2. ~Ahead(t, leg)' /\ ~Sending(t, leg)'
      BY <1>5, <2>4, <3>1 DEF Sending, Ahead, AfterLeg
    <3>3. Settled(n, t, leg)'
      BY <1>1, <1>3, <1>6, <3>1 DEF Settled
    <3>4. Settled(task[t], t, leg)'
      BY <1>5, <3>3 DEF Settled
    <3> QED BY <1>5, <1>6, <2>1, <3>2, <3>4 DEF Book
  <2> QED BY <2>2, <2>3, <2>4
<1>12. ASSUME NEW l \in Legs \ {leg} PROVE Book(t, l)'
  <2>1. Book(t, l) /\ n.rows[l] = r.rows[l] /\ accepted'[t][l] = accepted[t][l] /\ lost'[t][l] = lost[t][l]
    BY <1>4, <1>6 DEF Books
  <2>2. ~Sending(t, l) /\ ~Sending(t, l)'
    BY <1>0, <1>2, <1>4, <1>5, <1>9 DEF Sending, AfterLeg
  <2>3. CASE leg = "user"
    <3>1. Untouched(task[t], t, l)
      BY <1>0, <1>2, <2>1, <2>3 DEF Book, Ahead, Sending, Legs
    <3>2. accepted[t][l] = 0 /\ n.rows[l] = "none"
      BY <1>0, <2>1, <3>1 DEF Untouched
    <3>3. Untouched(task[t], t, l)' /\ Settled(task[t], t, l)'
      BY <1>5, <2>1, <3>2 DEF Untouched, Settled
    <3> QED BY <1>0, <1>4, <1>5, <2>1, <2>2, <3>2, <3>3 DEF Book
  <2>4. CASE leg = "caretaker"
    <3>1. l = "user" /\ ~Ahead(t, l) /\ ~Ahead(t, l)'
      BY <1>0, <1>2, <1>5, <1>9, <2>4 DEF Ahead, Sending, Legs
    <3>2. Settled(r, t, l)
      BY <1>0, <1>2, <2>1, <2>2, <3>1 DEF Book
    <3>3. Settled(task[t], t, l)'
      BY <1>5, <2>1, <3>2 DEF Settled
    <3> QED BY <1>0, <1>4, <1>5, <2>1, <2>2, <3>1, <3>3 DEF Book
  <2> QED BY <1>2, <2>3, <2>4 DEF Legs
<1>13. \A l \in Legs : Book(t, l)'
  BY <1>11, <1>12
<1>14. Books'
  BY <1>2, <1>4, <1>5, <1>6, <1>10, <1>13, BooksKept
<1> QED BY <1>5, <1>8, <1>14

\* Only the place of a task changes, and neither leg moves from ahead to over but
\* with no row and nothing accepted.
LEMMA PlacedBooks ==
    ASSUME TypeOK, Books, NEW t \in Tasks, NEW n \in Runs, Becomes(t, n),
           n.op = task[t].op, n.rows = task[t].rows, n.pc \in Ended \cup {"commit"},
           task[t].pc \in {"settings", "caretaker", "commit"} \/ n.pc = "undone",
           accepted' = accepted, lost' = lost,
           table' = [table EXCEPT ![t] = IF n.pc = "done" THEN n.rows ELSE NoRows]
    PROVE  Books'
<1>1. task' = [task EXCEPT ![t] = n] /\ task'[t] = n /\ table'[t] = IF n.pc = "done" THEN n.rows ELSE NoRows
  BY DEF Becomes, TypeOK
<1>2. Tries(t)'
  BY <1>1 DEF Tries, Ended
<1>3. ASSUME NEW l \in Legs PROVE Book(t, l)'
  <2>1. ~Ahead(t, l)' /\ ~Sending(t, l)'
    BY <1>1 DEF Ahead, Sending, Ended
  <2>2. Book(t, l)
    BY DEF Books
  <2>3. CASE n.pc \in {"raised", "undone"}
    BY <1>1, <2>1, <2>2, <2>3 DEF Book
  <2>4. CASE n.pc \notin {"raised", "undone"}
    <3>1. Settled(task[t], t, l) \/ Untouched(task[t], t, l)
      BY <2>2, <2>4 DEF Book, Sending, Ahead
    <3>2. lost[t][l] = accepted[t][l] \/ accepted[t][l] # 0
      BY <2>2, Numbers DEF Book
    <3>3. Settled(task[t], t, l)'
      BY <1>1, <3>1, <3>2 DEF Settled, Untouched
    <3> QED BY <1>1, <2>1, <2>2, <3>3 DEF Book
  <2> QED BY <2>3, <2>4
<1>4. \A u \in Tasks \ {t} : table'[u] = table[u]
  BY DEF TypeOK
<1> QED BY <1>1, <1>2, <1>3, <1>4, BooksKept

\* A task begins: process_call_to_message or deliver_message.
LEMMA BegunBooks ==
    ASSUME TypeOK, Books, NEW t \in Tasks, Idle(t), NEW n \in Runs, Becomes(t, n),
           n.pc = "settings", n.rows = NoRows, n.tries = 0,
           UNCHANGED <<table, accepted, lost>>
    PROVE  Books'
<1>1. task' = [task EXCEPT ![t] = n] /\ task'[t] = n
  BY DEF Becomes, TypeOK
<1>2. Tries(t)'
  BY <1>1 DEF Books, Tries, Idle
<1>3. ASSUME NEW l \in Legs PROVE Book(t, l)'
  <2>1. Untouched(task[t], t, l) /\ Book(t, l)
    BY DEF Books, Book, Ahead, Idle
  <2>2. accepted[t][l] = 0 /\ n.rows[l] = "none"
    BY <2>1 DEF Untouched, NoRows
  <2>3. Ahead(t, l)' /\ ~Sending(t, l)' /\ Untouched(task[t], t, l)'
    BY <1>1, <2>2 DEF Ahead, Sending, Untouched
  <2> QED BY <1>1, <2>1, <2>2, <2>3 DEF Book
<1> QED BY <1>1, <1>2, <1>3, BooksKept

LEMMA ProcessBooks ==
    ASSUME TypeOK, Books, NEW t \in Tasks, Process(t), DeliveryAssumption
    PROVE  Books' /\ task' \in [Tasks -> Runs]
<1>1. PICK a \in Answers : Becomes(t, [New EXCEPT !.op = "process", !.pc = "settings",
                                      !.answer = a, !.priority = PriorityOf(a)])
  BY DEF Process
<1> DEFINE n == [New EXCEPT !.op = "process", !.pc = "settings",
                           !.answer = a, !.priority = PriorityOf(a)]
<1>2. a \in Classifications /\ PriorityOf(a) \in Priorities
  BY PrioritiesOnly DEF DeliveryAssumption
<1>3. "process" \in Operations
  BY DEF Process
<1>4. n \in Runs /\ n.pc = "settings" /\ n.rows = New.rows /\ n.tries = New.tries
  BY <1>2, <1>3, NewRun DEF Runs, Places
<1>5. New.rows = NoRows /\ New.tries = 0
  BY DEF New
<1>6. Becomes(t, n)
  BY <1>1
<1> HIDE DEF n
<1>7. Books'
  BY <1>4, <1>5, <1>6, BegunBooks DEF Process
<1>8. task' \in [Tasks -> Runs]
  BY <1>4, <1>6 DEF Becomes, TypeOK
<1> QED BY <1>7, <1>8

LEMMA DeliverBooks ==
    ASSUME TypeOK, Books, NEW t \in Tasks, Deliver(t)
    PROVE  Books' /\ task' \in [Tasks -> Runs]
<1> DEFINE n == [New EXCEPT !.op = "deliver", !.pc = "settings",
                           !.priority = message.priority, !.loaded = message]
<1>1. message \in Messages /\ message.priority \in Priorities \cup {"none"}
  BY DEF TypeOK, Messages
<1>2. "deliver" \in Operations /\ Becomes(t, n)
  BY DEF Deliver
<1>3. n \in Runs /\ n.pc = "settings" /\ n.rows = New.rows /\ n.tries = New.tries
  BY <1>1, <1>2, NewRun DEF Runs, Places
<1>4. New.rows = NoRows /\ New.tries = 0
  BY DEF New
<1> HIDE DEF n
<1>5. Books'
  BY <1>2, <1>3, <1>4, BegunBooks DEF Deliver
<1>6. task' \in [Tasks -> Runs]
  BY <1>2, <1>3 DEF Becomes, TypeOK
<1> QED BY <1>5, <1>6

LEMMA ForwardBooks ==
    ASSUME TypeOK, Books, NEW t \in Tasks, Forward(t)
    PROVE  Books' /\ task' \in [Tasks -> Runs]
<1> DEFINE r == [New EXCEPT !.op = "forward", !.priority = message.priority]
<1>1. PICK c \in Channels : Becomes(t, Turn(r, "user", c))
  BY DEF Forward
<1>2. message.priority \in Priorities \cup {"none"} /\ "forward" \in Operations
  BY DEF TypeOK, Messages, Forward
<1>3. r \in Runs /\ r.rows = New.rows /\ r.tries = New.tries
  BY <1>2, NewRun DEF Runs
<1>4. New.rows = NoRows /\ New.tries = 0 /\ "user" \in Legs
  BY DEF New, Legs
<1> HIDE DEF r
<1>5. table[t] = NoRows
  BY DEF Forward, Idle, Books, Tries
<1>6. ASSUME NEW l \in Legs PROVE Untouched(r, t, l)
  <2>1. Untouched(task[t], t, l)
    BY DEF Forward, Idle, Books, Book, Ahead
  <2>2. r.rows[l] = "none"
    BY <1>3, <1>4 DEF NoRows
  <2> QED BY <2>1, <2>2 DEF Untouched
<1>7. Books'
  <2>1. \A l \in Legs : accepted[t][l] > 1 => r.op = "deliver"
    BY <1>6 DEF Untouched
  <2>2. UNCHANGED <<table, accepted, lost>>
    BY DEF Forward
  <2> QED BY <1>1, <1>3, <1>4, <1>5, <1>6, <2>1, <2>2, TurnBooks
<1>8. task' \in [Tasks -> Runs]
  <2>1. Turn(r, "user", c) \in Runs
    BY <1>3, <1>4, TurnFacts
  <2> QED BY <1>1, <2>1 DEF Becomes, TypeOK
<1> QED BY <1>7, <1>8

\* A running task has no committed rows.
LEMMA NotYet ==
    ASSUME TypeOK, Books, NEW t \in Tasks, task[t].pc # "done"
    PROVE  table[t] = NoRows /\ table = [table EXCEPT ![t] = NoRows]
<1>1. table[t] = NoRows
  BY DEF Books, Tries
<1> QED BY <1>1 DEF TypeOK

LEMMA ReadBooks ==
    ASSUME TypeOK, Books, NEW t \in Tasks, ReadSettings(t)
    PROVE  Books' /\ task' \in [Tasks -> Runs]
<1>0. PICK o \in Runs : o = task[t]
  BY DEF TypeOK
<1> DEFINE r == [o EXCEPT !.seen = settings]
<1>1. /\ o.pc = "settings" /\ UNCHANGED <<table, accepted, lost>>
      /\ Becomes(t, IF r.op = "process" /\ settings = NoSettings
                      THEN [r EXCEPT !.pc = "commit"]
                      ELSE Turn(r, "user", PreferredChannel(settings)))
  BY <1>0 DEF ReadSettings
<1>2. settings \in Settings \cup {NoSettings}
  BY DEF TypeOK
<1>3. r \in Runs /\ r.op = o.op /\ r.rows = o.rows /\ r.tries = o.tries
  BY <1>2, SeenRun
<1> HIDE DEF r
<1>4. table[t] = NoRows /\ table = [table EXCEPT ![t] = NoRows]
  BY <1>0, <1>1, NotYet
<1>5. r.tries = 0 /\ \A l \in Legs : Untouched(r, t, l)
  BY <1>0, <1>1, <1>3 DEF Books, Tries, Book, Ahead, Untouched
<1>6. CASE r.op = "process" /\ settings = NoSettings
  <2> DEFINE n == [r EXCEPT !.pc = "commit"]
  <2>1. n \in Runs /\ n.pc = "commit" /\ n.op = r.op /\ n.rows = r.rows
    BY <1>3, PlacedRun DEF Places
  <2>2. Becomes(t, n)
    BY <1>1, <1>6
  <2> HIDE DEF n
  <2>3. Books'
    BY <1>0, <1>1, <1>3, <1>4, <2>1, <2>2, PlacedBooks DEF Ended
  <2> QED BY <2>1, <2>2, <2>3 DEF Becomes, TypeOK
<1>7. CASE ~(r.op = "process" /\ settings = NoSettings)
  <2>1. PreferredChannel(settings) \in Channels /\ "user" \in Legs
    BY <1>2, PreferredIsChannel DEF Legs
  <2>2. Becomes(t, Turn(r, "user", PreferredChannel(settings)))
    BY <1>1, <1>7
  <2>3. \A l \in Legs : accepted[t][l] > 1 => r.op = "deliver"
    BY <1>5 DEF Untouched
  <2>4. Books'
    BY <1>1, <1>3, <1>4, <1>5, <2>1, <2>2, <2>3, TurnBooks
  <2>5. Turn(r, "user", PreferredChannel(settings)) \in Runs
    BY <1>3, <2>1, TurnFacts
  <2> QED BY <2>2, <2>4, <2>5 DEF Becomes, TypeOK
<1> QED BY <1>6, <1>7

\* What asking for the caretaker leads to.
LEMMA AskedFacts ==
    ASSUME NEW r \in Runs, caretaker \in Channels \cup {"none"}
    PROVE  \/ /\ r.op = "deliver" /\ Unreadable(r.seen)
              /\ Asked(r) = [r EXCEPT !.pc = "raised"]
           \/ /\ ~(r.op = "deliver" /\ Unreadable(r.seen))
              /\ \/ ~Forks(r.seen, r.priority)
                 \/ r.op = "process" /\ caretaker = "none"
              /\ Asked(r) = [r EXCEPT !.pc = "commit"]
           \/ \E channel \in Channels :
                 /\ ~(r.op = "deliver" /\ Unreadable(r.seen))
                 /\ Forks(r.seen, r.priority)
                 /\ ~(r.op = "process" /\ caretaker = "none")
                 /\ channel = IF caretaker = "none" THEN "email" ELSE caretaker
                 /\ Asked(r) = Turn(r, "caretaker", channel)
<1> DEFINE unreadable == r.op = "deliver" /\ Unreadable(r.seen)
           none == \/ ~Forks(r.seen, r.priority)
                   \/ Forks(r.seen, r.priority) /\ r.op = "process" /\ caretaker = "none"
           channel == IF caretaker = "none" THEN "email" ELSE caretaker
<1>1. channel \in Channels
  BY DEF Channels, Adapters
<1>2. CASE unreadable
  BY <1>2 DEF Asked
<1>3. CASE ~unreadable /\ none
  BY <1>3 DEF Asked
<1>4. CASE ~unreadable /\ ~none
  BY <1>1, <1>4 DEF Asked
<1> QED BY <1>2, <1>3, <1>4

LEMMA AskBooks ==
    ASSUME TypeOK, Books, NEW t \in Tasks, AskCaretaker(t)
    PROVE  Books' /\ task' \in [Tasks -> Runs]
<1>0. PICK r \in Runs : r = task[t]
  BY DEF TypeOK
<1>1. r.pc = "caretaker" /\ UNCHANGED <<table, accepted, lost>> /\ Becomes(t, Asked(r))
  BY <1>0 DEF AskCaretaker
<1>2. table[t] = NoRows /\ table = [table EXCEPT ![t] = NoRows]
  BY <1>0, <1>1, NotYet
<1>3. ASSUME NEW pc \in {"raised", "commit"}, Asked(r) = [r EXCEPT !.pc = pc]
      PROVE  Books' /\ task' \in [Tasks -> Runs]
  <2> DEFINE n == [r EXCEPT !.pc = pc]
  <2>1. n \in Runs /\ n.pc = pc /\ n.op = r.op /\ n.rows = r.rows
    BY PlacedRun DEF Places, Ended
  <2>2. Becomes(t, n)
    BY <1>1, <1>3
  <2> HIDE DEF n
  <2>3. Books'
    BY <1>0, <1>1, <1>2, <2>1, <2>2, PlacedBooks DEF Ended
  <2> QED BY <2>1, <2>2, <2>3 DEF Becomes, TypeOK
<1>4. ASSUME NEW channel \in Channels, Asked(r) = Turn(r, "caretaker", channel)
      PROVE  Books' /\ task' \in [Tasks -> Runs]
  <2>1. "caretaker" \in Legs /\ Becomes(t, Turn(r, "caretaker", channel))
    BY <1>1, <1>4 DEF Legs
  <2>2. r.tries = 0
    BY <1>0, <1>1 DEF Books, Tries
  <2>3. Untouched(r, t, "caretaker")
    BY <1>0, <1>1, <2>1 DEF Books, Book, Ahead
  <2>4. Settled(r, t, "user")
    <3>1. ~Ahead(t, "user") /\ ~Sending(t, "user") /\ task[t].pc = "caretaker" /\ "user" \in Legs
      BY <1>0, <1>1 DEF Ahead, Sending, Legs
    <3> QED BY <1>0, <3>1 DEF Books, Book
  <2>5. \A l \in Legs : accepted[t][l] > 1 => r.op = "deliver"
    BY <1>0 DEF Books, Book
  <2>6. \A l \in Legs \ {"caretaker"} : Settled(r, t, l)
    BY <2>4 DEF Legs
  <2>7. Books'
    BY <1>1, <1>2, <2>1, <2>2, <2>3, <2>5, <2>6, TurnBooks
  <2>8. Turn(r, "caretaker", channel) \in Runs
    BY <2>1, TurnFacts
  <2> QED BY <2>1, <2>7, <2>8 DEF Becomes, TypeOK
<1>5. caretaker \in Channels \cup {"none"}
  BY DEF TypeOK
<1> QED BY <1>3, <1>4, <1>5, AskedFacts

LEMMA RollBackBooks ==
    ASSUME TypeOK, Books, NEW t \in Tasks, RollBack(t)
    PROVE  Books' /\ task' \in [Tasks -> Runs]
<1>0. PICK r \in Runs : r = task[t]
  BY DEF TypeOK
<1> DEFINE n == [r EXCEPT !.pc = "undone"]
<1>1. n \in Runs /\ n.pc = "undone" /\ n.op = r.op /\ n.rows = r.rows
  BY PlacedRun DEF Places, Ended
<1>2. Becomes(t, n) /\ UNCHANGED <<table, accepted, lost>> /\ r.pc # "done"
  BY <1>0 DEF RollBack, Ended
<1> HIDE DEF n
<1>3. table = [table EXCEPT ![t] = NoRows]
  BY <1>0, <1>2, NotYet
<1>4. Books'
  BY <1>0, <1>1, <1>2, <1>3, PlacedBooks DEF Ended
<1> QED BY <1>1, <1>2, <1>4 DEF Becomes, TypeOK

LEMMA CommitBooks ==
    ASSUME TypeOK, Books, NEW t \in Tasks, Commit(t)
    PROVE  /\ Books' /\ task' \in [Tasks -> Runs]
           /\ table' \in [Tasks -> [Legs -> Statuses]]
<1>0. PICK r \in Runs : r = task[t]
  BY DEF TypeOK
<1> DEFINE n == [r EXCEPT !.pc = "done"]
<1>1. n \in Runs /\ n.pc = "done" /\ n.op = r.op /\ n.rows = r.rows
  BY PlacedRun DEF Places, Ended
<1>2. /\ Becomes(t, n) /\ UNCHANGED <<accepted, lost>> /\ r.pc = "commit"
      /\ table' = [table EXCEPT ![t] = r.rows]
  BY <1>0 DEF Commit
<1> HIDE DEF n
<1>3. Books'
  BY <1>0, <1>1, <1>2, PlacedBooks DEF Ended
<1>4. r.rows \in [Legs -> Statuses]
  BY DEF Runs
<1> QED BY <1>1, <1>2, <1>3, <1>4 DEF Becomes, TypeOK

\* The four things a commit does to the messages row.
LEMMA AfterFacts ==
    ASSUME NEW r \in Runs
    PROVE  LET success == \E l \in Legs : r.rows[l] = "delivered"
           IN  \/ r.op = "process" /\ MessageAfter(r) = Fresh(r.priority)
               \/ /\ r.op = "deliver" /\ success
                  /\ MessageAfter(r) = Updated(r, "delivered", PreferredChannel(r.seen))
               \/ /\ r.op = "deliver" /\ r.rows # NoRows /\ ~success
                  /\ MessageAfter(r) = Updated(r, "failed", r.loaded.via)
               \/ /\ r.op # "process" /\ (r.op = "deliver" => r.rows = NoRows)
                  /\ MessageAfter(r) = message
<1> DEFINE success == \E l \in Legs : r.rows[l] = "delivered"
<1>1. CASE r.op = "process"
  BY <1>1 DEF MessageAfter
<1>2. CASE r.op = "deliver" /\ success
  BY <1>2 DEF MessageAfter
<1>3. CASE r.op = "deliver" /\ r.rows # NoRows /\ ~success
  BY <1>3 DEF MessageAfter
<1>4. CASE /\ r.op # "process" /\ ~(r.op = "deliver" /\ success)
           /\ ~(r.op = "deliver" /\ r.rows # NoRows /\ ~success)
  BY <1>4 DEF MessageAfter
<1> QED BY <1>1, <1>2, <1>3, <1>4

\* The messages row stays a messages row.
LEMMA MessageTyped ==
    ASSUME TypeOK, NEW t \in Tasks
    PROVE  MessageAfter(task[t]) \in Messages
<1>0. PICK r \in Runs : r = task[t]
  BY DEF TypeOK
<1>1. Fresh(r.priority) \in Messages
  BY DEF Fresh, Messages, Runs, Statuses
<1>2. ASSUME NEW status \in Statuses, NEW via \in Channels \cup {"none"}
      PROVE  Updated(r, status, via) \in Messages
  BY DEF Updated, TypeOK, Messages
<1>3. PreferredChannel(r.seen) \in Channels /\ r.loaded.via \in Channels \cup {"none"}
  BY PreferredIsChannel DEF Runs, Messages
<1>4. Updated(r, "delivered", PreferredChannel(r.seen)) \in Messages
  BY <1>2, <1>3 DEF Statuses
<1>5. Updated(r, "failed", r.loaded.via) \in Messages
  BY <1>2, <1>3 DEF Statuses
<1>6. message \in Messages
  BY DEF TypeOK
<1> HIDE DEF TypeOK
<1>7. MessageAfter(r) \in Messages
  BY <1>1, <1>4, <1>5, <1>6, AfterFacts
<1> QED BY <1>0, <1>7

LEMMA SavedSettings ==
    ASSUME TypeOK, DeliveryAssumption, SaveSettings
    PROVE  /\ settings' \in Settings /\ edits' \in 0..MaxEdits
           /\ UNCHANGED <<caretaker, message, task, table, accepted, lost>>
<1>1. PICK s \in Saved : settings' = [s EXCEPT !.named = settings # NoSettings /\ settings.named]
  BY DEF SaveSettings
<1>2. (settings # NoSettings /\ settings.named) \in BOOLEAN /\ s \in Settings
  BY DEF DeliveryAssumption
<1>3. settings' \in Settings
  BY <1>1, <1>2 DEF Settings
<1>4. edits' \in 0..MaxEdits
  BY DEF SaveSettings, TypeOK, DeliveryAssumption
<1> QED BY <1>3, <1>4 DEF SaveSettings

LEMMA TheStart ==
    ASSUME Init, DeliveryAssumption PROVE TypeOK /\ Books
<1>1. /\ settings \in Settings \cup {NoSettings} /\ edits \in 0..MaxEdits
      /\ caretaker \in Channels \cup {"none"}
  BY DEF Init, DeliveryAssumption
<1>2. message \in Messages
  BY DEF Init, DeliveryAssumption, Fresh, NoMessage, Messages, Statuses, Priorities
<1>3. task \in [Tasks -> Runs]
  BY NewRun DEF Init
<1>4. table \in [Tasks -> [Legs -> Statuses]]
  BY DEF Init, NoRows, Statuses
<1>5. accepted \in [Tasks -> [Legs -> 0..MAX_RETRIES]] /\ lost \in [Tasks -> [Legs -> 0..MAX_RETRIES]]
  BY DEF Init, MAX_RETRIES
<1>6. ASSUME NEW t \in Tasks PROVE Tries(t) /\ \A l \in Legs : Book(t, l)
  <2>1. task[t] = New /\ table[t] = NoRows /\ \A l \in Legs : accepted[t][l] = 0 /\ lost[t][l] = 0
    BY DEF Init
  <2>2. New.pc = "new" /\ New.tries = 0 /\ \A l \in Legs : New.rows[l] = "none"
    BY DEF New, NoRows
  <2>3. Tries(t)
    BY <2>1, <2>2 DEF Tries
  <2>4. \A l \in Legs : Ahead(t, l) /\ ~Sending(t, l) /\ Untouched(task[t], t, l)
    BY <2>1, <2>2 DEF Ahead, Sending, Untouched
  <2> QED BY <2>1, <2>3, <2>4 DEF Book
<1> QED BY <1>1, <1>2, <1>3, <1>4, <1>5, <1>6 DEF TypeOK, Books

\* Every step keeps the types and the books.
LEMMA EveryStep ==
    ASSUME TypeOK, Books, DeliveryAssumption, [Next]_vars PROVE TypeOK' /\ Books'
<1>1. ASSUME NEW t \in Tasks, Process(t) PROVE TypeOK' /\ Books'
  BY <1>1, ProcessBooks DEF Process, TypeOK
<1>2. ASSUME NEW t \in Tasks, Deliver(t) PROVE TypeOK' /\ Books'
  BY <1>2, DeliverBooks DEF Deliver, TypeOK
<1>3. ASSUME NEW t \in Tasks, Forward(t) PROVE TypeOK' /\ Books'
  BY <1>3, ForwardBooks DEF Forward, TypeOK
<1>4. ASSUME NEW t \in Tasks, ReadSettings(t) PROVE TypeOK' /\ Books'
  BY <1>4, ReadBooks DEF ReadSettings, TypeOK
<1>5. ASSUME NEW t \in Tasks, Send(t) PROVE TypeOK' /\ Books'
  <2>1. UNCHANGED <<settings, edits, caretaker, message, table>>
    BY <1>5 DEF Send
  <2> QED BY <1>5, <2>1, SendBooks DEF TypeOK
<1>6. ASSUME NEW t \in Tasks, AskCaretaker(t) PROVE TypeOK' /\ Books'
  BY <1>6, AskBooks DEF AskCaretaker, TypeOK
<1>7. ASSUME NEW t \in Tasks, Commit(t) PROVE TypeOK' /\ Books'
  BY <1>7, CommitBooks, MessageTyped DEF Commit, TypeOK
<1>8. ASSUME NEW t \in Tasks, RollBack(t) PROVE TypeOK' /\ Books'
  BY <1>8, RollBackBooks DEF RollBack, TypeOK
<1>9. CASE SaveSettings
  <2>1. TypeOK'
    BY <1>9, SavedSettings DEF TypeOK
  <2>2. Books'
    BY <1>9, SavedSettings
       DEF Books, Tries, Book, Ahead, Sending, Untouched, Waiting, Settled
  <2> QED BY <2>1, <2>2
<1>10. CASE UNCHANGED vars
  BY <1>10 DEF vars, TypeOK, Books, Tries, Book, Ahead, Sending, Untouched, Waiting, Settled
<1> QED BY <1>1, <1>2, <1>3, <1>4, <1>5, <1>6, <1>7, <1>8, <1>9, <1>10 DEF Next, Step

LEMMA TheBooks == Spec => [](TypeOK /\ Books)
<1>1. Init => TypeOK /\ Books
  BY TheStart, DeliveryAssumption
<1>2. TypeOK /\ Books /\ [Next]_vars => (TypeOK /\ Books)'
  BY EveryStep, DeliveryAssumption
<1> QED BY <1>1, <1>2, PTL DEF Spec

\* What the tasks, the rows and the counts hold is well-formed, however the
\* operations, the answers of the adapters and the failures interleave.
THEOREM DeliveryTypeCorrect == Spec => []TypeOK
<1> QED BY TheBooks, PTL

LEMMA HonestBooks == ASSUME TypeOK, Books PROVE LedgerHonest
<1> SUFFICES ASSUME NEW t \in Tasks, NEW l \in Legs
             PROVE  /\ table[t][l] # "pending"
                    /\ table[t][l] = "delivered" => accepted[t][l] = lost[t][l] + 1
                    /\ table[t][l] = "failed" => accepted[t][l] = lost[t][l]
  BY DEF LedgerHonest
<1>1. CASE task[t].pc = "done"
  <2>1. table[t] = task[t].rows
    BY <1>1 DEF Books, Tries
  <2>2. Settled(task[t], t, l)
    BY <1>1 DEF Books, Book, Ahead, Sending
  <2> QED BY <2>1, <2>2 DEF Settled
<1>2. CASE task[t].pc # "done"
  BY <1>2 DEF Books, Tries, NoRows
<1> QED BY <1>1, <1>2

\* Whatever the adapters raise or return and wherever an operation dies, every
\* row that process_call_to_message, deliver_message or the forward endpoint
\* commits says what the provider did, but for what the provider failed to say.
THEOREM LedgerIsHonest == Spec => []LedgerHonest
<1> QED BY TheBooks, HonestBooks, PTL

\* However often _send_with_retry tries, nobody gets a message of one operation
\* a second time without an answer of the provider having been lost.
THEOREM NoDuplicates == Spec => []DuplicatesOnlyAfterLoss
<1>1. ASSUME Books PROVE DuplicatesOnlyAfterLoss
  BY <1>1 DEF Books, Book, DuplicatesOnlyAfterLoss
<1> QED BY <1>1, TheBooks, PTL

-----------------------------------------------------------------------------
(* The story of the messages row.                                          *)

Logged(status) ==
    \E t \in Tasks, l \in Legs : task[t].op = "deliver" /\ table[t][l] = status

Tells ==
    /\ message.status = "delivered" \/ message.via # "none" => Logged("delivered")
    /\ message.status = "failed" => Logged("failed")
    /\ message.status = "pending" => ~Logged("delivered") /\ ~Logged("failed")

\* What the record r of the task t knows of the messages row.
Knows(r, t) ==
    /\ IF r.op = "none" THEN r.pc = "new" ELSE r.priority \in Priorities
    /\ r.op \in {"deliver", "forward"} => message # NoMessage
    /\ r.op = "process" /\ r.pc \notin Ended => message = NoMessage
    /\ r.op = "process" => \A u \in Tasks \ {t} : task[u].op # "process"
    /\ r.op = "deliver" /\ r.loaded.status # "pending" => message.status # "pending"

Story ==
    /\ message # NoMessage => message.priority \in Priorities /\ message.status # "none"
    /\ \A t \in Tasks : Knows(task[t], t)
    /\ Tells

\* One task goes on, or begins, and commits nothing.
LEMMA StoryKept ==
    ASSUME TypeOK, Story, NEW t \in Tasks, NEW n \in Runs, Becomes(t, n), Knows(n, t),
           UNCHANGED <<message, table>>, n.op = task[t].op \/ table[t] = NoRows
    PROVE  Story'
<1>1. task'[t] = n /\ \A u \in Tasks \ {t} : task'[u] = task[u]
  BY DEF Becomes, TypeOK
<1>2. ASSUME NEW u \in Tasks PROVE Knows(task[u], u)'
  <2>1. CASE u = t
    BY <1>1, <2>1 DEF Knows
  <2>2. CASE u # t
    <3>1. Knows(task[u], u) /\ task'[u] = task[u]
      BY <1>1, <2>2 DEF Story
    <3>2. task[u].op = "process" => n.op # "process"
      BY <2>2 DEF Knows
    <3>3. task[u].op = "process" => \A v \in Tasks \ {u} : task'[v].op # "process"
      BY <1>1, <3>1, <3>2 DEF Knows
    <3> QED BY <3>1, <3>3 DEF Knows
  <2> QED BY <2>1, <2>2
<1>3. ASSUME NEW status \in {"delivered", "failed"} PROVE Logged(status)' <=> Logged(status)
  <2>1. n.op = task[t].op \/ \A l \in Legs : table[t][l] # status
    BY DEF NoRows
  <2>2. \A u \in Tasks, l \in Legs :
            task'[u].op = "deliver" /\ table[u][l] = status
                <=> task[u].op = "deliver" /\ table[u][l] = status
    BY <1>1, <2>1
  <2> QED BY <2>2 DEF Logged
<1>4. Tells'
  BY <1>3 DEF Story, Tells
<1> QED BY <1>2, <1>4 DEF Story

\* A step of a running task that commits nothing.
Quiet(t) ==
    /\ UNCHANGED <<message, table>> /\ task[t].pc \notin Ended \cup {"new"}
    /\ \E n \in Runs : /\ Becomes(t, n) /\ n.pc # "done"
                       /\ n.op = task[t].op /\ n.loaded = task[t].loaded
                       /\ n.priority = task[t].priority

LEMMA SendQuiet ==
    ASSUME TypeOK, NEW t \in Tasks, Send(t) PROVE Quiet(t)
<1>0. PICK r \in Runs : r = task[t]
  BY DEF TypeOK
<1>1. PICK answer \in {"success", "failure", "exception"} : Becomes(t, Answered(r, answer))
  BY <1>0 DEF Send
<1>2. r.pc = "send" /\ UNCHANGED <<message, table>>
  BY <1>0 DEF Send
<1> DEFINE n == Answered(r, answer)
<1>3. n \in Runs /\ n.pc # "done" /\ n.op = r.op /\ n.loaded = r.loaded /\ n.priority = r.priority
  <2>1. ASSUME NEW status \in Statuses, n = Recorded(r, status)
        PROVE /\ n \in Runs /\ n.pc # "done" /\ n.op = r.op
              /\ n.loaded = r.loaded /\ n.priority = r.priority
    BY <2>1, RecordedFacts DEF AfterLeg
  <2>2. CASE n = [r EXCEPT !.pc = "raised"]
    <3>1. "raised" \in Places
      BY DEF Places, Ended
    <3> QED BY <2>2, <3>1, PlacedRun
  <2>3. CASE n = [r EXCEPT !.tries = r.tries + 1] /\ r.tries < MAX_RETRIES - 1
    BY <1>2, <2>3, TriedRun
  <2> QED BY <2>1, <2>2, <2>3, AnsweredFacts DEF Statuses
<1> HIDE DEF n
<1>4. Becomes(t, n)
  BY <1>1 DEF n
<1> QED BY <1>0, <1>2, <1>3, <1>4 DEF Quiet, Ended

LEMMA ReadQuiet ==
    ASSUME TypeOK, NEW t \in Tasks, ReadSettings(t) PROVE Quiet(t)
<1>0. PICK o \in Runs : o = task[t]
  BY DEF TypeOK
<1> DEFINE r == [o EXCEPT !.seen = settings]
<1>1. /\ o.pc = "settings" /\ UNCHANGED <<message, table>>
      /\ Becomes(t, IF r.op = "process" /\ settings = NoSettings
                      THEN [r EXCEPT !.pc = "commit"]
                      ELSE Turn(r, "user", PreferredChannel(settings)))
  BY <1>0 DEF ReadSettings
<1>2. settings \in Settings \cup {NoSettings}
  BY DEF TypeOK
<1>3. r \in Runs /\ r.op = o.op /\ r.loaded = o.loaded /\ r.priority = o.priority
  BY <1>2, SeenRun
<1> HIDE DEF r
<1>4. CASE r.op = "process" /\ settings = NoSettings
  <2> DEFINE n == [r EXCEPT !.pc = "commit"]
  <2>1. n \in Runs /\ n.pc # "done" /\ n.op = r.op /\ n.loaded = r.loaded /\ n.priority = r.priority
    BY <1>3, PlacedRun DEF Places
  <2>2. Becomes(t, n)
    BY <1>1, <1>4
  <2> HIDE DEF n
  <2> QED BY <1>0, <1>1, <1>3, <2>1, <2>2 DEF Quiet, Ended
<1>5. CASE ~(r.op = "process" /\ settings = NoSettings)
  <2> DEFINE n == Turn(r, "user", PreferredChannel(settings))
  <2>1. PreferredChannel(settings) \in Channels /\ "user" \in Legs
    BY <1>2, PreferredIsChannel DEF Legs
  <2>2. n \in Runs /\ n.pc # "done" /\ n.op = r.op /\ n.loaded = r.loaded /\ n.priority = r.priority
    BY <1>3, <2>1, TurnFacts DEF AfterLeg
  <2>3. Becomes(t, n)
    BY <1>1, <1>5
  <2> HIDE DEF n
  <2> QED BY <1>0, <1>1, <1>3, <2>2, <2>3 DEF Quiet, Ended
<1> QED BY <1>4, <1>5

LEMMA AskQuiet ==
    ASSUME TypeOK, NEW t \in Tasks, AskCaretaker(t) PROVE Quiet(t)
<1>0. PICK r \in Runs : r = task[t]
  BY DEF TypeOK
<1>1. r.pc = "caretaker" /\ UNCHANGED <<message, table>> /\ Becomes(t, Asked(r))
  BY <1>0 DEF AskCaretaker
<1> DEFINE n == Asked(r)
<1>2. ASSUME NEW pc \in {"raised", "commit"}, n = [r EXCEPT !.pc = pc]
      PROVE /\ n \in Runs /\ n.pc # "done" /\ n.op = r.op
            /\ n.loaded = r.loaded /\ n.priority = r.priority
  <2>1. pc \in Places
    BY DEF Places, Ended
  <2> QED BY <1>2, <2>1, PlacedRun
<1>3. ASSUME NEW channel \in Channels, n = Turn(r, "caretaker", channel)
      PROVE /\ n \in Runs /\ n.pc # "done" /\ n.op = r.op
            /\ n.loaded = r.loaded /\ n.priority = r.priority
  <2>1. "caretaker" \in Legs
    BY DEF Legs
  <2> QED BY <1>3, <2>1, TurnFacts DEF AfterLeg
<1>4. caretaker \in Channels \cup {"none"}
  BY DEF TypeOK
<1>5. n \in Runs /\ n.pc # "done" /\ n.op = r.op /\ n.loaded = r.loaded /\ n.priority = r.priority
  BY <1>2, <1>3, <1>4, AskedFacts
<1> HIDE DEF n
<1>6. Becomes(t, n)
  BY <1>1 DEF n
<1> QED BY <1>0, <1>1, <1>5, <1>6 DEF Quiet, Ended

LEMMA RollBackQuiet ==
    ASSUME TypeOK, NEW t \in Tasks, RollBack(t) PROVE Quiet(t)
<1>0. PICK r \in Runs : r = task[t]
  BY DEF TypeOK
<1> DEFINE n == [r EXCEPT !.pc = "undone"]
<1>1. n \in Runs /\ n.pc # "done" /\ n.op = r.op /\ n.loaded = r.loaded /\ n.priority = r.priority
  <2>1. "undone" \in Places
    BY DEF Places, Ended
  <2> QED BY <2>1, PlacedRun
<1>2. Becomes(t, n) /\ UNCHANGED <<message, table>> /\ r.pc \notin Ended \cup {"new"}
  BY <1>0 DEF RollBack
<1> HIDE DEF n
<1> QED BY <1>0, <1>1, <1>2 DEF Quiet

LEMMA QuietStory ==
    ASSUME TypeOK, Story, NEW t \in Tasks, Quiet(t) PROVE Story'
<1>1. PICK n \in Runs : /\ Becomes(t, n) /\ n.op = task[t].op
                        /\ n.loaded = task[t].loaded /\ n.priority = task[t].priority
  BY DEF Quiet
<1>2. Knows(n, t)
  BY <1>1 DEF Story, Knows, Quiet
<1> QED BY <1>1, <1>2, StoryKept DEF Quiet

LEMMA NoMessageFacts ==
    /\ NoMessage.priority = "none" /\ NoMessage.status = "none" /\ NoMessage.via = "none"
    /\ "none" \notin Priorities
  BY DEF NoMessage, Priorities

LEMMA ProcessStory ==
    ASSUME TypeOK, Books, Story, NEW t \in Tasks, Process(t), DeliveryAssumption PROVE Story'
<1>1. PICK a \in Answers : Becomes(t, [New EXCEPT !.op = "process", !.pc = "settings",
                                      !.answer = a, !.priority = PriorityOf(a)])
  BY DEF Process
<1> DEFINE n == [New EXCEPT !.op = "process", !.pc = "settings",
                           !.answer = a, !.priority = PriorityOf(a)]
<1>2. a \in Classifications /\ PriorityOf(a) \in Priorities /\ "process" \in Operations
  BY PrioritiesOnly DEF DeliveryAssumption, Process
<1>3. n \in Runs /\ n.op = "process" /\ n.priority \in Priorities
  BY <1>2, NewRun DEF Runs, Places
<1>4. Becomes(t, n)
  BY <1>1
<1> HIDE DEF n
<1>5. /\ message = NoMessage /\ UNCHANGED <<message, table>> /\ table[t] = NoRows
      /\ \A u \in Tasks : task[u].op # "process"
  BY DEF Process, Idle, Books, Tries
<1>6. Knows(n, t)
  BY <1>3, <1>5 DEF Knows
<1> QED BY <1>3, <1>4, <1>5, <1>6, StoryKept

LEMMA DeliverStory ==
    ASSUME TypeOK, Books, Story, NEW t \in Tasks, Deliver(t) PROVE Story'
<1> DEFINE n == [New EXCEPT !.op = "deliver", !.pc = "settings",
                           !.priority = message.priority, !.loaded = message]
<1>1. /\ message # NoMessage /\ message \in Messages /\ message.priority \in Priorities
      /\ UNCHANGED <<message, table>> /\ table[t] = NoRows
  BY DEF Deliver, TypeOK, Story, Idle, Books, Tries
<1>2. "deliver" \in Operations /\ Becomes(t, n)
  BY DEF Deliver
<1>3. n \in Runs /\ n.op = "deliver" /\ n.priority = message.priority /\ n.loaded = message
  BY <1>1, <1>2, NewRun DEF Runs, Places
<1> HIDE DEF n
<1>4. Knows(n, t)
  BY <1>1, <1>3 DEF Knows
<1> QED BY <1>1, <1>2, <1>3, <1>4, StoryKept

LEMMA ForwardStory ==
    ASSUME TypeOK, Books, Story, NEW t \in Tasks, Forward(t) PROVE Story'
<1> DEFINE r == [New EXCEPT !.op = "forward", !.priority = message.priority]
<1>1. PICK c \in Channels : Becomes(t, Turn(r, "user", c))
  BY DEF Forward
<1>2. /\ message # NoMessage /\ message.priority \in Priorities /\ "forward" \in Operations
      /\ UNCHANGED <<message, table>> /\ table[t] = NoRows /\ "user" \in Legs
  BY DEF Forward, Story, Idle, Books, Tries, Legs
<1>3. r \in Runs /\ r.op = "forward" /\ r.priority = message.priority
  BY <1>2, NewRun DEF Runs
<1> HIDE DEF r
<1> DEFINE n == Turn(r, "user", c)
<1>4. n \in Runs /\ n.op = "forward" /\ n.priority = message.priority
  BY <1>2, <1>3, TurnFacts
<1>5. Knows(n, t)
  BY <1>2, <1>4 DEF Knows
<1> HIDE DEF n
<1>6. Becomes(t, n)
  BY <1>1 DEF n
<1> QED BY <1>2, <1>4, <1>5, <1>6, StoryKept

\* A commit: the messages row and the rows of the task become visible together.
LEMMA CommitStory ==
    ASSUME TypeOK, Books, Story, NEW t \in Tasks, Commit(t) PROVE Story'
<1>0. PICK r \in Runs : r = task[t]
  BY DEF TypeOK
<1>1. /\ r.pc = "commit" /\ message' = MessageAfter(r) /\ table' = [table EXCEPT ![t] = r.rows]
      /\ Becomes(t, [r EXCEPT !.pc = "done"])
  BY <1>0 DEF Commit
<1> DEFINE n == [r EXCEPT !.pc = "done"]
<1>2. /\ n \in Runs /\ n.pc = "done" /\ n.op = r.op
      /\ n.priority = r.priority /\ n.loaded = r.loaded
  BY PlacedRun DEF Places, Ended
<1>3. task'[t] = n /\ \A u \in Tasks \ {t} : task'[u] = task[u] /\ table'[u] = table[u]
  BY <1>1, <1>2 DEF Becomes, TypeOK
<1> HIDE DEF n
<1>4. table'[t] = r.rows /\ table[t] = NoRows
  BY <1>0, <1>1 DEF TypeOK, Books, Tries
<1>5. ASSUME NEW status \in {"delivered", "failed"}
      PROVE  Logged(status)' <=>
                \/ Logged(status)
                \/ r.op = "deliver" /\ \E l \in Legs : r.rows[l] = status
  <2>1. \A u \in Tasks \ {t}, l \in Legs :
            task'[u].op = "deliver" /\ table'[u][l] = status
                <=> task[u].op = "deliver" /\ table[u][l] = status
    BY <1>3
  <2>2. \A l \in Legs : table[t][l] # status
    BY <1>4 DEF NoRows
  <2>3. \A l \in Legs : task'[t].op = "deliver" /\ table'[t][l] = status
                           <=> r.op = "deliver" /\ r.rows[l] = status
    BY <1>2, <1>3, <1>4
  <2> QED BY <2>1, <2>2, <2>3 DEF Logged
<1>6. \A u \in Tasks : /\ Knows(task[u], u) /\ task'[u].op = task[u].op
                       /\ task'[u].priority = task[u].priority
                       /\ task'[u].loaded = task[u].loaded
                       /\ task'[u].pc \in Ended \/ task'[u].pc = task[u].pc
                       /\ task'[u].op # "none" \/ task'[u].pc = "new"
  BY <1>0, <1>1, <1>2, <1>3 DEF Story, Ended, Knows
<1>7. CASE r.op = "process"
  <2>1. message = NoMessage /\ r.priority \in Priorities
    BY <1>0, <1>1, <1>7 DEF Story, Knows, Ended
  <2>2. /\ message' # NoMessage /\ message'.priority \in Priorities
        /\ message'.status = "pending" /\ message'.via = "none"
    BY <1>1, <1>7, <2>1, NoMessageFacts DEF MessageAfter, Fresh
  <2>3. \A u \in Tasks : task[u].op \notin {"deliver", "forward"}
    BY <2>1 DEF Story, Knows
  <2>4. \A u \in Tasks : task[u].op = "process" => u = t
    BY <1>0, <1>7 DEF Story, Knows
  <2>5. ASSUME NEW u \in Tasks PROVE Knows(task[u], u)'
    BY <1>2, <1>3, <1>6, <2>3, <2>4 DEF Knows, Ended
  <2>6. Tells'
    BY <1>5, <1>7, <2>2, <2>3 DEF Tells, Logged
  <2> QED BY <2>2, <2>5, <2>6 DEF Story
<1>8. CASE r.op = "deliver" /\ r.rows # NoRows
  <2>1. message # NoMessage /\ message.priority \in Priorities /\ message \in Messages
    BY <1>0, <1>8 DEF Story, Knows, TypeOK
  <2>2. \A l \in Legs : r.rows[l] \in Statuses \ {"pending"}
    <3>1. \A l \in Legs : Settled(r, t, l)
      BY <1>0, <1>1 DEF Books, Book, Ahead, Sending
    <3> QED BY <3>1 DEF Settled, Runs
  <2>3. ASSUME NEW status \in {"delivered", "failed"}, NEW via \in Channels \cup {"none"},
               message' = Updated(r, status, via), Logged(status)',
               via = r.loaded.via \/ status = "delivered"
        PROVE  Story'
    <3>1. /\ message'.priority = message.priority
          /\ message'.status = IF status = r.loaded.status THEN message.status ELSE status
          /\ message'.via = IF via = r.loaded.via THEN message.via ELSE via
      BY <2>1, <2>3 DEF Updated, Messages
    <3>2. message' # NoMessage /\ message'.priority \in Priorities
      BY <2>1, <3>1, NoMessageFacts
    <3>3. message'.status \notin {"none", "pending"}
      BY <1>0, <1>8, <2>1, <3>1 DEF Story, Knows
    <3>4. ASSUME NEW u \in Tasks PROVE Knows(task[u], u)'
      BY <1>6, <2>1, <3>2, <3>3 DEF Knows
    <3>5. Logged("delivered") => Logged("delivered")'
      BY <1>5
    <3>6. Logged("failed") => Logged("failed")'
      BY <1>5
    <3>7. Tells'
      BY <2>3, <3>1, <3>3, <3>5, <3>6 DEF Story, Tells
    <3> QED BY <3>2, <3>3, <3>4, <3>7 DEF Story
  <2>4. PreferredChannel(r.seen) \in Channels /\ r.loaded.via \in Channels \cup {"none"}
    BY PreferredIsChannel DEF Runs, Messages
  <2>5. CASE \E l \in Legs : r.rows[l] = "delivered"
    <3>1. Logged("delivered")'
      BY <1>5, <1>8, <2>5
    <3>2. message' = Updated(r, "delivered", PreferredChannel(r.seen))
      BY <1>1, <1>8, <2>5, AfterFacts
    <3> QED BY <2>3, <2>4, <3>1, <3>2
  <2>6. CASE \A l \in Legs : r.rows[l] # "delivered"
    <3>1. \E l \in Legs : r.rows[l] = "failed"
      <4>1. \E l \in Legs : r.rows[l] # "none"
        BY <1>8 DEF NoRows, Runs
      <4> QED BY <2>2, <2>6, <4>1 DEF Statuses
    <3>2. Logged("failed")'
      BY <1>5, <1>8, <3>1
    <3>3. message' = Updated(r, "failed", r.loaded.via)
      BY <1>1, <1>8, <2>6, AfterFacts
    <3> QED BY <2>3, <2>4, <3>2, <3>3
  <2> QED BY <2>5, <2>6
<1>9. CASE r.op # "process" /\ (r.op = "deliver" => r.rows = NoRows)
  <2>1. message' = message
    BY <1>1, <1>9, AfterFacts DEF NoRows
  <2>2. ASSUME NEW u \in Tasks PROVE Knows(task[u], u)'
    BY <1>6, <2>1 DEF Knows
  <2>3. ASSUME NEW status \in {"delivered", "failed"} PROVE Logged(status)' <=> Logged(status)
    BY <1>5, <1>9 DEF NoRows
  <2>4. Tells'
    BY <2>1, <2>3 DEF Story, Tells
  <2> QED BY <2>1, <2>2, <2>4 DEF Story
<1> QED BY <1>7, <1>8, <1>9

LEMMA StoryStart == ASSUME Init, DeliveryAssumption PROVE Story
<1>1. \A t \in Tasks : task[t].op = "none" /\ table[t] = NoRows
  BY DEF Init, New
<1>2. /\ message # NoMessage => message.priority \in Priorities /\ message.status # "none"
      /\ message.status \in {"none", "pending"} /\ message.via = "none"
  BY DEF Init, DeliveryAssumption, Fresh, NoMessage
<1>3. \A t \in Tasks : Knows(task[t], t)
  BY <1>1 DEF Knows, Init, New
<1>4. ~Logged("delivered") /\ ~Logged("failed")
  BY <1>1 DEF Logged
<1>5. Tells
  BY <1>2, <1>4 DEF Tells
<1> QED BY <1>2, <1>3, <1>5 DEF Story

LEMMA StoryStep ==
    ASSUME TypeOK, Books, Story, DeliveryAssumption, [Next]_vars PROVE Story'
<1>1. ASSUME UNCHANGED <<message, task, table>> PROVE Story'
  BY <1>1 DEF Story, Knows, Tells, Logged
<1>2. CASE SaveSettings
  BY <1>1, <1>2 DEF SaveSettings
<1>3. CASE UNCHANGED vars
  BY <1>1, <1>3 DEF vars
<1>4. ASSUME NEW t \in Tasks, Process(t) \/ Deliver(t) \/ Forward(t) \/ Step(t) \/ RollBack(t)
      PROVE  Story'
  <2>1. Quiet(t) => Story'
    BY QuietStory
  <2> QED BY <1>4, <2>1, ProcessStory, DeliverStory, ForwardStory, CommitStory,
             ReadQuiet, SendQuiet, AskQuiet, RollBackQuiet DEF Step
<1> QED BY <1>2, <1>3, <1>4 DEF Next

\* The messages row agrees with the rows of its deliveries, though every
\* deliver_message works on the copy that it loaded before it sent.
THEOREM StatusIsTold == Spec => []StatusTells
<1>1. Init => Story
  BY StoryStart, DeliveryAssumption
<1>2. TypeOK /\ Books /\ Story /\ [Next]_vars => Story'
  BY StoryStep, DeliveryAssumption
<1>3. Story => StatusTells
  BY DEF Story, Tells, Logged, StatusTells
<1> QED BY <1>1, <1>2, <1>3, TheBooks, PTL DEF Spec

-----------------------------------------------------------------------------
(* The caretaker's leg.                                                    *)

\* The caretaker has an adapter: deliver_message falls back to e-mail.
Tellable(op) == caretaker \in Adapters \/ (caretaker = "none" /\ op = "deliver")

Fork(r) ==
    r.op \in {"process", "deliver"} =>
        /\ r.pc \in {"commit", "done"} =>
              (r.rows["caretaker"] # "none" <=> Forks(r.seen, r.priority) /\ Tellable(r.op))
        /\ r.pc = "send" /\ r.leg = "caretaker" =>
              Forks(r.seen, r.priority) /\ Tellable(r.op)

Forked == \A t \in Tasks : Fork(task[t])

\* The task t becomes n.
LEMMA ForkedKept ==
    ASSUME TypeOK, Forked, NEW t \in Tasks, NEW n, Becomes(t, n), UNCHANGED caretaker, Fork(n)
    PROVE  Forked'
<1>1. task'[t] = n /\ \A u \in Tasks \ {t} : task'[u] = task[u]
  BY DEF Becomes, TypeOK
<1>2. \A u \in Tasks : Fork(task[u])'
  BY <1>1 DEF Forked, Fork, Tellable
<1> QED BY <1>2 DEF Forked

LEMMA BegunForked ==
    ASSUME TypeOK, Forked, DeliveryAssumption, NEW t \in Tasks, Process(t) \/ Deliver(t) \/ Forward(t)
    PROVE  Forked'
<1>2. CASE Process(t)
  <2>1. PICK a \in Answers : Becomes(t, [New EXCEPT !.op = "process", !.pc = "settings",
                                        !.answer = a, !.priority = PriorityOf(a)])
    BY <1>2 DEF Process
  <2> DEFINE n == [New EXCEPT !.op = "process", !.pc = "settings",
                             !.answer = a, !.priority = PriorityOf(a)]
  <2>2. n.pc = "settings"
    BY NewRun DEF Runs
  <2>3. Becomes(t, n)
    BY <2>1
  <2> HIDE DEF n
  <2> QED BY <1>2, <2>2, <2>3, ForkedKept DEF Fork, Process
<1>3. CASE Deliver(t)
  <2> DEFINE n == [New EXCEPT !.op = "deliver", !.pc = "settings",
                             !.priority = message.priority, !.loaded = message]
  <2>1. n.pc = "settings"
    BY NewRun DEF Runs
  <2>2. Becomes(t, n)
    BY <1>3 DEF Deliver
  <2> HIDE DEF n
  <2> QED BY <1>3, <2>1, <2>2, ForkedKept DEF Fork, Deliver
<1>4. CASE Forward(t)
  <2> DEFINE r == [New EXCEPT !.op = "forward", !.priority = message.priority]
  <2>1. PICK c \in Channels : Becomes(t, Turn(r, "user", c))
    BY <1>4 DEF Forward
  <2>2. message.priority \in Priorities \cup {"none"} /\ "forward" \in Operations /\ "user" \in Legs
    BY <1>4 DEF TypeOK, Messages, Forward, Legs
  <2>3. r \in Runs /\ r.op = "forward"
    BY <2>2, NewRun DEF Runs
  <2> HIDE DEF r
  <2> DEFINE n == Turn(r, "user", c)
  <2>4. n.op = "forward"
    BY <2>2, <2>3, TurnFacts
  <2> HIDE DEF n
  <2>5. Becomes(t, n)
    BY <2>1 DEF n
  <2> QED BY <1>4, <2>4, <2>5, ForkedKept DEF Fork, Forward
<1> QED BY <1>2, <1>3, <1>4

LEMMA ReadForked ==
    ASSUME TypeOK, Books, Forked, NEW t \in Tasks, ReadSettings(t) PROVE Forked'
<1>0. PICK o \in Runs : o = task[t]
  BY DEF TypeOK
<1> DEFINE r == [o EXCEPT !.seen = settings]
<1>1. /\ o.pc = "settings" /\ UNCHANGED caretaker
      /\ Becomes(t, IF r.op = "process" /\ settings = NoSettings
                      THEN [r EXCEPT !.pc = "commit"]
                      ELSE Turn(r, "user", PreferredChannel(settings)))
  BY <1>0 DEF ReadSettings
<1>2. settings \in Settings \cup {NoSettings}
  BY DEF TypeOK
<1>3. r \in Runs /\ r.op = o.op /\ r.seen = settings /\ r.rows = o.rows
  BY <1>2, SeenRun
<1> HIDE DEF r
<1>4. CASE r.op = "process" /\ settings = NoSettings
  <2> DEFINE n == [r EXCEPT !.pc = "commit"]
  <2>1. /\ n \in Runs /\ n.pc = "commit" /\ n.op = "process" /\ n.seen = NoSettings
        /\ n.rows = r.rows
    BY <1>3, <1>4, PlacedRun DEF Places
  <2>2. Becomes(t, n)
    BY <1>1, <1>4
  <2> HIDE DEF n
  <2>3. r.rows["caretaker"] = "none"
    BY <1>0, <1>1, <1>3 DEF Books, Book, Ahead, Untouched, Legs
  <2>4. Fork(n)
    BY <2>1, <2>3 DEF Fork, Forks
  <2> QED BY <1>1, <1>2, <1>4, <2>1, <2>2, <2>4, ForkedKept
<1>5. CASE ~(r.op = "process" /\ settings = NoSettings)
  <2> DEFINE n == Turn(r, "user", PreferredChannel(settings))
  <2>1. PreferredChannel(settings) \in Channels /\ "user" \in Legs
    BY <1>2, PreferredIsChannel DEF Legs
  <2>2. /\ n.op = r.op /\ n.seen = settings /\ n.pc # "done"
        /\ n.pc = "send" => n.leg = "user"
        /\ n.pc = "commit" => n.op = "forward"
    BY <1>3, <2>1, TurnFacts DEF AfterLeg
  <2>3. Becomes(t, n)
    BY <1>1, <1>5
  <2> HIDE DEF n
  <2>4. Fork(n)
    BY <2>2 DEF Fork
  <2> QED BY <1>1, <1>2, <2>2, <2>3, <2>4, ForkedKept
<1> QED BY <1>4, <1>5

LEMMA SendForked ==
    ASSUME TypeOK, Forked, NEW t \in Tasks, Send(t) PROVE Forked'
<1>0. PICK r \in Runs : r = task[t]
  BY DEF TypeOK
<1>1. PICK answer \in {"success", "failure", "exception"} : Becomes(t, Answered(r, answer))
  BY <1>0 DEF Send
<1>2. /\ r.pc = "send" /\ UNCHANGED caretaker /\ r.leg \in Legs /\ Fork(r)
  BY <1>0 DEF Send, Forked, Runs
<1> DEFINE n == Answered(r, answer)
<1>3. ASSUME NEW status \in {"delivered", "failed"}, n = Recorded(r, status)
      PROVE  Fork(n)
  <2>1. /\ n.op = r.op /\ n.seen = r.seen /\ n.priority = r.priority
        /\ n.rows[r.leg] = status /\ n.pc = AfterLeg(r.op, r.leg)
    BY <1>3, RecordedFacts DEF Statuses
  <2>2. n.pc \in {"caretaker", "commit"}
    BY <2>1 DEF AfterLeg
  <2>3. n.pc = "commit" /\ r.op # "forward" => r.leg = "caretaker"
    BY <1>2, <2>1 DEF AfterLeg, Legs
  <2> HIDE DEF n
  <2> QED BY <1>2, <2>1, <2>2, <2>3 DEF Fork
<1>4. ASSUME n = [r EXCEPT !.pc = "raised"]
      PROVE  Fork(n)
  <2>1. "raised" \in Places
    BY DEF Places, Ended
  <2>2. n.pc = "raised"
    BY <1>4, <2>1, PlacedRun
  <2> HIDE DEF n
  <2> QED BY <2>2 DEF Fork
<1>5. ASSUME n = [r EXCEPT !.tries = r.tries + 1], r.tries < MAX_RETRIES - 1
      PROVE  Fork(n)
  <2>1. /\ n.op = r.op /\ n.seen = r.seen /\ n.priority = r.priority
        /\ n.pc = "send" /\ n.leg = r.leg
    BY <1>2, <1>5, TriedRun
  <2> HIDE DEF n
  <2> QED BY <1>2, <2>1 DEF Fork
<1>6. Fork(n)
  BY <1>3, <1>4, <1>5, AnsweredFacts
<1> HIDE DEF n
<1>7. Becomes(t, n)
  BY <1>1 DEF n
<1> QED BY <1>2, <1>6, <1>7, ForkedKept

LEMMA AskForked ==
    ASSUME TypeOK, Books, Forked, NEW t \in Tasks, AskCaretaker(t) PROVE Forked'
<1>0. PICK r \in Runs : r = task[t]
  BY DEF TypeOK
<1>1. /\ r.pc = "caretaker" /\ UNCHANGED caretaker /\ Becomes(t, Asked(r))
      /\ "caretaker" \in Legs
      /\ caretaker \in Channels \cup {"none"}
  BY <1>0 DEF AskCaretaker, Legs, TypeOK
<1>2. r.rows["caretaker"] = "none"
  BY <1>0, <1>1 DEF Books, Book, Ahead, Untouched
<1> DEFINE n == Asked(r)
<1>3. ASSUME n = [r EXCEPT !.pc = "raised"]
      PROVE  Fork(n)
  <2>1. "raised" \in Places
    BY DEF Places, Ended
  <2>2. n.pc = "raised"
    BY <1>3, <2>1, PlacedRun
  <2> HIDE DEF n
  <2> QED BY <2>2 DEF Fork
<1>4. ASSUME \/ ~Forks(r.seen, r.priority)
             \/ r.op = "process" /\ caretaker = "none",
             n = [r EXCEPT !.pc = "commit"]
      PROVE  Fork(n)
  <2>1. "commit" \in Places
    BY DEF Places
  <2>2. /\ n.pc = "commit" /\ n.seen = r.seen /\ n.rows = r.rows /\ n.op = r.op
        /\ n.priority = r.priority
    BY <1>4, <2>1, PlacedRun
  <2> HIDE DEF n
  <2>3. ~(Forks(r.seen, r.priority) /\ Tellable(r.op))
    BY <1>4 DEF Tellable, Adapters
  <2> QED BY <1>2, <2>2, <2>3 DEF Fork
<1>5. ASSUME NEW channel \in Channels, Forks(r.seen, r.priority),
             ~(r.op = "process" /\ caretaker = "none"),
             channel = IF caretaker = "none" THEN "email" ELSE caretaker,
             n = Turn(r, "caretaker", channel)
      PROVE  Fork(n)
  <2>1. /\ n.op = r.op /\ n.seen = r.seen /\ n.priority = r.priority
        /\ channel \in Adapters => n.pc = "send"
        /\ channel \notin Adapters => n.pc = "commit" /\ n.rows = r.rows
    BY <1>1, <1>5, TurnFacts DEF AfterLeg
  <2> HIDE DEF n
  <2>2. r.op \in {"process", "deliver"} => (channel \in Adapters <=> Tellable(r.op))
    BY <1>1, <1>5 DEF Tellable, Adapters
  <2> QED BY <1>2, <1>5, <2>1, <2>2 DEF Fork
<1>6. Fork(n)
  BY <1>1, <1>3, <1>4, <1>5, AskedFacts
<1> HIDE DEF n
<1>7. Becomes(t, n)
  BY <1>1 DEF n
<1> QED BY <1>1, <1>6, <1>7, ForkedKept

\* A task commits, fails or is rolled back.
LEMMA EndedForked ==
    ASSUME TypeOK, Forked, NEW t \in Tasks, Commit(t) \/ RollBack(t) PROVE Forked'
<1>0. PICK r \in Runs : r = task[t]
  BY DEF TypeOK
<1>1. /\ UNCHANGED caretaker /\ Fork(r)
      /\ \E pc \in {"done", "undone"} :
            /\ Becomes(t, [r EXCEPT !.pc = pc])
            /\ pc = "done" => r.pc = "commit"
  BY <1>0 DEF Commit, RollBack, Forked
<1>2. PICK pc \in {"done", "undone"} :
         /\ Becomes(t, [r EXCEPT !.pc = pc])
         /\ pc = "done" => r.pc = "commit"
  BY <1>1
<1> DEFINE n == [r EXCEPT !.pc = pc]
<1>3. pc \in Places
  BY DEF Places, Ended
<1>4. /\ n.pc = pc /\ n.op = r.op /\ n.seen = r.seen /\ n.rows = r.rows
      /\ n.priority = r.priority
  BY <1>3, PlacedRun
<1>5. Becomes(t, n)
  BY <1>2
<1> HIDE DEF n
<1>6. Fork(n)
  BY <1>1, <1>2, <1>4 DEF Fork
<1> QED BY <1>1, <1>4, <1>5, <1>6, ForkedKept

LEMMA ForkedStart == ASSUME Init PROVE Forked
<1>1. \A t \in Tasks : task[t].pc = "new"
  BY DEF Init, New
<1> QED BY <1>1 DEF Forked, Fork

LEMMA ForkedStep ==
    ASSUME TypeOK, Books, Forked, DeliveryAssumption, [Next]_vars PROVE Forked'
<1>1. CASE SaveSettings
  BY <1>1 DEF SaveSettings, Forked, Fork, Tellable
<1>2. CASE UNCHANGED vars
  BY <1>2 DEF vars, Forked, Fork, Tellable
<1> QED BY <1>1, <1>2, BegunForked, ReadForked, SendForked, AskForked, EndedForked DEF Next, Step

LEMMA TheForks == Spec => [](TypeOK /\ Books /\ Story /\ Forked)
<1>1. Init => TypeOK /\ Books /\ Story /\ Forked
  BY TheStart, StoryStart, ForkedStart, DeliveryAssumption
<1>2. TypeOK /\ Books /\ Story /\ Forked /\ [Next]_vars => (TypeOK /\ Books /\ Story /\ Forked)'
  BY EveryStep, StoryStep, ForkedStep, DeliveryAssumption
<1> QED BY <1>1, <1>2, PTL DEF Spec

\* As urgent as the threshold, in numbers; what cannot be read counts as urgent.
LEMMA MeetsIsRank ==
    ASSUME NEW p \in Priorities, NEW threshold \in Priorities \cup {"unknown"}
    PROVE  LET rank == [urgent |-> 0, normal |-> 1, low |-> 2, unknown |-> 0]
           IN  Meets(p, threshold) <=> rank[p] <= rank[threshold]
  BY DEF Meets, Priorities

LEMMA ForkedIsIndependent ==
    ASSUME TypeOK, Books, Story, Forked PROVE ForkIsIndependent
<1> DEFINE rank == [urgent |-> 0, normal |-> 1, low |-> 2, unknown |-> 0]
<1> SUFFICES ASSUME NEW t \in Tasks, task[t].pc = "done", task[t].op # "forward"
             PROVE  table[t]["caretaker"] # "none" <=>
                       /\ /\ task[t].seen # NoSettings /\ task[t].seen.fork /\ task[t].seen.named
                          /\ rank[task[t].priority] <= rank[task[t].seen.threshold]
                       /\ \/ caretaker \in Adapters
                          \/ caretaker = "none" /\ task[t].op = "deliver"
  BY DEF ForkIsIndependent
<1> DEFINE r == task[t]
           s == r.seen
<1>1. r \in Runs /\ s \in Settings \cup {NoSettings}
  BY DEF TypeOK, Runs
<1>2. r.op \in {"process", "deliver"} /\ r.priority \in Priorities
  <2>1. r.op # "none"
    BY DEF Story, Knows
  <2> QED BY <1>1, <2>1, DeliveryAssumption DEF Runs, DeliveryAssumption, Story, Knows
<1>3. table[t] = r.rows
  BY DEF Books, Tries
<1>4. table[t]["caretaker"] # "none" <=> Forks(s, r.priority) /\ Tellable(r.op)
  BY <1>2, <1>3 DEF Forked, Fork
<1>5. s # NoSettings => (Meets(r.priority, s.threshold) <=> rank[r.priority] <= rank[s.threshold])
  <2>1. s # NoSettings => s.threshold \in Priorities \cup {"unknown"}
    BY <1>1 DEF Settings
  <2> QED BY <1>2, <2>1, MeetsIsRank
<1> QED BY <1>4, <1>5 DEF Forks, Tellable

\* What happens to the user's own delivery never decides whether the caretaker
\* is told: only the settings read, the priority and the caretaker's channel do.
THEOREM ForksAlone == Spec => []ForkIsIndependent
<1> QED BY TheForks, ForkedIsIndependent, PTL

-----------------------------------------------------------------------------
(* What deliver_message leaves without a row when it raises.               *)

\* Where the task was when it raised: between the legs, or in a leg.
Raised(r, t) ==
    r.pc = "raised" =>
        /\ r.op = "deliver"
        /\ \/ Unreadable(r.seen) /\ accepted[t]["caretaker"] = 0
           \/ /\ "exception" \in Faults
              /\ accepted[t][r.leg] = lost[t][r.leg]
              /\ r.leg = "user" => accepted[t]["caretaker"] = 0

AllRaised == \A t \in Tasks : Raised(task[t], t)

LEMMA RaisedKept ==
    ASSUME TypeOK, AllRaised, NEW t \in Tasks, NEW n, Becomes(t, n),
           \A u \in Tasks \ {t} : accepted'[u] = accepted[u] /\ lost'[u] = lost[u],
           Raised(n, t)'
    PROVE  AllRaised'
<1>1. task'[t] = n /\ \A u \in Tasks \ {t} : task'[u] = task[u]
  BY DEF Becomes, TypeOK
<1>2. ASSUME NEW u \in Tasks \ {t} PROVE Raised(task[u], u)'
  BY <1>1 DEF AllRaised, Raised
<1>3. Raised(task[t], t)'
  BY <1>1 DEF Raised
<1> QED BY <1>2, <1>3 DEF AllRaised

\* A step in which the task does not raise, and sends nothing.
LEMMA NotRaised ==
    ASSUME TypeOK, AllRaised, NEW t \in Tasks, NEW n, Becomes(t, n), n.pc # "raised",
           UNCHANGED <<accepted, lost>>
    PROVE  AllRaised'
<1>1. Raised(n, t)'
  BY DEF Raised
<1> QED BY <1>1, RaisedKept

LEMMA BegunRaised ==
    ASSUME TypeOK, AllRaised, DeliveryAssumption, NEW t \in Tasks, Process(t) \/ Deliver(t) \/ Forward(t)
    PROVE  AllRaised'
<1>1. CASE Process(t)
  <2>1. PICK a \in Answers : Becomes(t, [New EXCEPT !.op = "process", !.pc = "settings",
                                        !.answer = a, !.priority = PriorityOf(a)])
    BY <1>1 DEF Process
  <2> DEFINE n == [New EXCEPT !.op = "process", !.pc = "settings",
                             !.answer = a, !.priority = PriorityOf(a)]
  <2>2. n.pc = "settings" /\ Becomes(t, n)
    BY <2>1, NewRun DEF Runs
  <2> HIDE DEF n
  <2> QED BY <1>1, <2>2, NotRaised DEF Process
<1>2. CASE Deliver(t)
  <2> DEFINE n == [New EXCEPT !.op = "deliver", !.pc = "settings",
                             !.priority = message.priority, !.loaded = message]
  <2>1. n.pc = "settings" /\ Becomes(t, n)
    BY <1>2, NewRun DEF Runs, Deliver
  <2> HIDE DEF n
  <2> QED BY <1>2, <2>1, NotRaised DEF Deliver
<1>3. CASE Forward(t)
  <2> DEFINE r == [New EXCEPT !.op = "forward", !.priority = message.priority]
  <2>1. PICK c \in Channels : Becomes(t, Turn(r, "user", c))
    BY <1>3 DEF Forward
  <2>2. message.priority \in Priorities \cup {"none"} /\ "forward" \in Operations /\ "user" \in Legs
    BY <1>3 DEF TypeOK, Messages, Forward, Legs
  <2>3. r \in Runs
    BY <2>2, NewRun DEF Runs
  <2> HIDE DEF r
  <2> DEFINE n == Turn(r, "user", c)
  <2>4. n.pc # "raised" /\ Becomes(t, n)
    BY <2>1, <2>2, <2>3, TurnFacts DEF AfterLeg
  <2> HIDE DEF n
  <2> QED BY <1>3, <2>4, NotRaised DEF Forward
<1> QED BY <1>1, <1>2, <1>3

LEMMA ReadRaised ==
    ASSUME TypeOK, AllRaised, NEW t \in Tasks, ReadSettings(t) PROVE AllRaised'
<1>0. PICK o \in Runs : o = task[t]
  BY DEF TypeOK
<1> DEFINE r == [o EXCEPT !.seen = settings]
<1>1. /\ UNCHANGED <<accepted, lost>>
      /\ Becomes(t, IF r.op = "process" /\ settings = NoSettings
                      THEN [r EXCEPT !.pc = "commit"]
                      ELSE Turn(r, "user", PreferredChannel(settings)))
  BY <1>0 DEF ReadSettings
<1>2. r \in Runs /\ PreferredChannel(settings) \in Channels /\ "user" \in Legs
  BY SeenRun, PreferredIsChannel DEF TypeOK, Legs
<1> HIDE DEF r
<1>3. CASE r.op = "process" /\ settings = NoSettings
  <2> DEFINE n == [r EXCEPT !.pc = "commit"]
  <2>1. n.pc = "commit" /\ Becomes(t, n)
    BY <1>1, <1>2, <1>3, PlacedRun DEF Places
  <2> HIDE DEF n
  <2> QED BY <1>1, <2>1, NotRaised
<1>4. CASE ~(r.op = "process" /\ settings = NoSettings)
  <2> DEFINE n == Turn(r, "user", PreferredChannel(settings))
  <2>1. n.pc # "raised" /\ Becomes(t, n)
    BY <1>1, <1>2, <1>4, TurnFacts DEF AfterLeg
  <2> HIDE DEF n
  <2> QED BY <1>1, <2>1, NotRaised
<1> QED BY <1>3, <1>4

\* The adapter raises: what the leg has accepted was lost, and the caretaker's leg
\* lies ahead of the user's.
LEMMA SendRaised ==
    ASSUME TypeOK, Books, AllRaised, NEW t \in Tasks, Send(t) PROVE AllRaised'
<1>0. PICK r \in Runs : r = task[t]
  BY DEF TypeOK
<1> DEFINE leg == r.leg
<1>1. PICK took \in BOOLEAN, answer \in {"success", "failure", "exception"} :
         /\ answer = "exception" => "exception" \in Faults
         /\ Becomes(t, Answered(r, answer))
         /\ accepted' = [accepted EXCEPT ![t][r.leg] = @ + IF took THEN 1 ELSE 0]
         /\ lost' = [lost EXCEPT ![t][r.leg] =
                        @ + IF took /\ answer # "success" THEN 1 ELSE 0]
  BY <1>0 DEF Send
<1>2. r.pc = "send" /\ leg \in Legs
  BY <1>0 DEF Send, Runs
<1>3. accepted[t][leg] = lost[t][leg] /\ accepted[t][leg] \in Nat
  BY <1>0, <1>2, Numbers DEF Books, Book, Sending, Waiting
<1>4. leg = "user" => accepted[t]["caretaker"] = 0 /\ "caretaker" \in Legs
  BY <1>0, <1>2 DEF Books, Book, Ahead, Sending, Untouched, Legs
<1>5. /\ \A u \in Tasks \ {t} : accepted'[u] = accepted[u] /\ lost'[u] = lost[u]
      /\ answer # "success" => accepted'[t][leg] = lost'[t][leg]
      /\ \A l \in Legs \ {leg} : accepted'[t][l] = accepted[t][l]
  BY <1>1, <1>2, <1>3 DEF TypeOK
<1> DEFINE n == Answered(r, answer)
<1>6. n.pc = "raised" => /\ answer = "exception" /\ r.op = "deliver"
                         /\ n.op = r.op /\ n.leg = leg
  <2>1. ASSUME NEW status \in Statuses, n = Recorded(r, status) PROVE n.pc # "raised"
    BY <2>1, RecordedFacts DEF AfterLeg
  <2>2. CASE n = [r EXCEPT !.tries = r.tries + 1] /\ r.tries < MAX_RETRIES - 1
    BY <1>2, <2>2, TriedRun
  <2>3. CASE n = [r EXCEPT !.pc = "raised"] /\ r.op = "deliver" /\ answer = "exception"
    BY <2>3, PlacedRun DEF Places, Ended
  <2> QED BY <2>1, <2>2, <2>3, AnsweredFacts DEF Statuses
<1>7. Becomes(t, n)
  BY <1>1
<1> HIDE DEF n
<1>8. Raised(n, t)'
  BY <1>1, <1>2, <1>4, <1>5, <1>6 DEF Raised, Legs
<1> QED BY <1>5, <1>7, <1>8, RaisedKept

\* deliver_message cannot read the threshold: the caretaker's leg lies ahead.
LEMMA AskRaised ==
    ASSUME TypeOK, Books, AllRaised, NEW t \in Tasks, AskCaretaker(t) PROVE AllRaised'
<1>0. PICK r \in Runs : r = task[t]
  BY DEF TypeOK
<1>1. /\ r.pc = "caretaker" /\ UNCHANGED <<accepted, lost>> /\ Becomes(t, Asked(r))
      /\ caretaker \in Channels \cup {"none"} /\ "caretaker" \in Legs
  BY <1>0 DEF AskCaretaker, TypeOK, Legs
<1>2. accepted[t]["caretaker"] = 0
  BY <1>0, <1>1 DEF Books, Book, Ahead, Untouched
<1>3. PICK n : n = Asked(r)
  OBVIOUS
<1>4. n.pc = "raised" => n.op = "deliver" /\ Unreadable(n.seen)
  <2>1. CASE r.op = "deliver" /\ Unreadable(r.seen) /\ n = [r EXCEPT !.pc = "raised"]
    BY <2>1, PlacedRun DEF Places, Ended
  <2>2. CASE n = [r EXCEPT !.pc = "commit"]
    BY <2>2, PlacedRun DEF Places
  <2>3. ASSUME NEW channel \in Channels, n = Turn(r, "caretaker", channel) PROVE n.pc # "raised"
    BY <1>1, <2>3, TurnFacts DEF AfterLeg
  <2> QED BY <1>1, <1>3, <2>1, <2>2, <2>3, AskedFacts
<1>5. Becomes(t, n)
  BY <1>1, <1>3
<1>6. Raised(n, t)'
  BY <1>1, <1>2, <1>4 DEF Raised
<1> QED BY <1>1, <1>5, <1>6, RaisedKept

LEMMA EndedRaised ==
    ASSUME TypeOK, AllRaised, NEW t \in Tasks, Commit(t) \/ RollBack(t) PROVE AllRaised'
<1>0. PICK r \in Runs : r = task[t]
  BY DEF TypeOK
<1>1. PICK pc \in {"done", "undone"} :
         Becomes(t, [r EXCEPT !.pc = pc]) /\ UNCHANGED <<accepted, lost>>
  BY <1>0 DEF Commit, RollBack
<1> DEFINE n == [r EXCEPT !.pc = pc]
<1>2. n.pc # "raised" /\ Becomes(t, n)
  BY <1>1, PlacedRun DEF Places, Ended
<1> HIDE DEF n
<1> QED BY <1>1, <1>2, NotRaised

LEMMA RaisedStart == ASSUME Init PROVE AllRaised
<1>1. \A t \in Tasks : task[t].pc = "new"
  BY DEF Init, New
<1> QED BY <1>1 DEF AllRaised, Raised

LEMMA RaisedStep ==
    ASSUME TypeOK, Books, AllRaised, DeliveryAssumption, [Next]_vars PROVE AllRaised'
<1>1. CASE SaveSettings \/ UNCHANGED vars
  BY <1>1 DEF SaveSettings, vars, AllRaised, Raised
<1> QED BY <1>1, BegunRaised, ReadRaised, SendRaised, AskRaised, EndedRaised DEF Next, Step

LEMMA LossesFollow ==
    ASSUME TypeOK, Books, AllRaised PROVE LossExplained
<1> SUFFICES ASSUME NEW t \in Tasks, NEW l \in Legs, accepted[t][l] > 0,
                    table[t][l] = "none", task[t].pc \in {"done", "raised"}
             PROVE  /\ task[t].op = "deliver"
                    /\ \/ Unreadable(task[t].seen) /\ l = "user"
                       \/ /\ "exception" \in Faults
                          /\ accepted[t][l] > lost[t][l] => l = "user" /\ task[t].leg = "caretaker"
  BY DEF LossExplained
<1>1. task[t].pc = "raised"
  <2> SUFFICES ASSUME task[t].pc = "done" PROVE FALSE
    OBVIOUS
  <2>1. table[t] = task[t].rows
    BY DEF Books, Tries
  <2>2. Settled(task[t], t, l)
    BY DEF Books, Book, Ahead, Sending
  <2> QED BY <2>1, <2>2, Numbers DEF Settled
<1>2. Raised(task[t], t)
  BY DEF AllRaised
<1>3. task[t].leg \in Legs
  BY DEF TypeOK, Runs
<1>4. accepted[t][l] \in Nat /\ lost[t][l] \in Nat
  BY Numbers
<1> QED BY <1>1, <1>2, <1>3, <1>4 DEF Raised, Legs

\* A copy that a provider took is without a row only if deliver_message raised, over
\* an adapter's exception or a threshold, or if the session was rolled back; the
\* processor and the forward endpoint always record what they sent, and
\* a copy known to have arrived loses its row only to what comes after it.
THEOREM LossesAreExplained == Spec => []LossExplained
<1>1. Init => AllRaised
  BY RaisedStart
<1>2. TypeOK /\ Books /\ AllRaised /\ [Next]_vars => AllRaised'
  BY RaisedStep, DeliveryAssumption
<1>3. TypeOK /\ Books /\ AllRaised => LossExplained
  BY LossesFollow
<1> QED BY <1>1, <1>2, <1>3, TheBooks, PTL DEF Spec

-----------------------------------------------------------------------------
(* At-least-once delivery with honest books.                               *)

LEMMA Zeros == NoRows = [l \in Legs |-> "none"]
  BY DEF NoRows

LEMMA LedgerStart == ASSUME Init, DeliveryAssumption PROVE Ledger!Init
<1>1. Open = Tasks
  BY DEF Init, New, Open, Ended
<1>2. message.status \in {"none", "pending"}
  BY DEF Init, NoMessage, Fresh
<1>3. table = [t \in Tasks |-> [l \in Legs |-> "none"]]
  BY Zeros DEF Init
<1> QED BY <1>1, <1>2, <1>3 DEF Init, Ledger!Init

\* A task goes on, or ends.
LEMMA OpenKept ==
    ASSUME TypeOK, NEW t \in Tasks, NEW n, Becomes(t, n), task[t].pc \notin Ended
    PROVE  /\ t \in Open
           /\ Open' = IF n.pc \in Ended THEN Open \ {t} ELSE Open
<1>1. task'[t] = n /\ \A u \in Tasks \ {t} : task'[u] = task[u]
  BY DEF Becomes, TypeOK
<1> QED BY <1>1 DEF Open

\* Nothing is sent or committed: the books stay as they are, or are given up.
LEMMA BooksAside ==
    ASSUME TypeOK, NEW t \in Tasks, NEW n, Becomes(t, n), task[t].pc \notin Ended,
           UNCHANGED <<message, table, accepted, lost>>
    PROVE  Ledger!Fail(t) \/ UNCHANGED Ledger!vars
<1>1. t \in Open /\ (Open' = Open \ {t} \/ Open' = Open)
  BY OpenKept
<1> QED BY <1>1 DEF Ledger!Fail, Ledger!vars

\* A send adds a copy only to a leg that has none that is known of.
LEMMA SendLedger ==
    ASSUME TypeOK, Books, NEW t \in Tasks, Send(t)
    PROVE  \/ Ledger!Fail(t) \/ UNCHANGED Ledger!vars
           \/ \E l \in Legs : Ledger!Send(t, l)
<1>0. PICK r \in Runs : r = task[t]
  BY DEF TypeOK
<1> DEFINE leg == r.leg
<1>1. PICK took \in BOOLEAN, answer \in {"success", "failure", "exception"} :
         /\ answer = "success" => took
         /\ Becomes(t, Answered(r, answer))
         /\ accepted' = [accepted EXCEPT ![t][leg] = @ + IF took THEN 1 ELSE 0]
         /\ lost' = [lost EXCEPT ![t][leg] =
                        @ + IF took /\ answer # "success" THEN 1 ELSE 0]
  BY <1>0 DEF Send
<1>2. r.pc = "send" /\ UNCHANGED <<message, table>> /\ leg \in Legs /\ "send" \notin Ended
  BY <1>0 DEF Send, Runs, Ended
<1>3. accepted[t][leg] = lost[t][leg] /\ accepted[t][leg] \in Nat
  BY <1>0, <1>2, Numbers DEF Books, Book, Sending, Waiting
<1> DEFINE n == Answered(r, answer)
<1>4. n.pc \in Ended => answer # "success"
  <2>1. ASSUME NEW status \in Statuses, n = Recorded(r, status) PROVE n.pc \notin Ended
    BY <2>1, RecordedFacts DEF AfterLeg, Ended
  <2>2. n = Recorded(r, "delivered") \/ answer # "success"
    BY AnsweredFacts
  <2> QED BY <2>1, <2>2 DEF Statuses
<1>5. t \in Open /\ Open' = IF n.pc \in Ended THEN Open \ {t} ELSE Open
  BY <1>0, <1>1, <1>2, OpenKept
<1> HIDE DEF n
<1>6. CASE took
  <2>1. accepted' = Ledger!OneMore(accepted, t, leg)
    BY <1>1, <1>6 DEF Ledger!OneMore
  <2>2. CASE answer = "success"
    <3>1. lost' = lost
      BY <1>1, <1>2, <2>2 DEF TypeOK
    <3>2. Ledger!Send(t, leg)
      BY <1>2, <1>3, <1>4, <1>5, <2>1, <2>2, <3>1 DEF Ledger!Send
    <3> QED BY <1>2, <3>2
  <2>3. CASE answer # "success"
    <3>1. lost' = Ledger!OneMore(lost, t, leg)
      BY <1>1, <1>6, <2>3 DEF Ledger!OneMore
    <3>2. Ledger!Send(t, leg)
      BY <1>2, <1>3, <1>5, <2>1, <3>1 DEF Ledger!Send
    <3> QED BY <1>2, <3>2
  <2> QED BY <2>2, <2>3
<1>7. CASE ~took
  <2>1. accepted' = accepted /\ lost' = lost
    BY <1>1, <1>2, <1>7 DEF TypeOK
  <2>2. UNCHANGED <<message, table, accepted, lost>>
    BY <1>2, <2>1
  <2>3. Becomes(t, n) /\ task[t].pc \notin Ended
    BY <1>0, <1>1, <1>2 DEF n
  <2> QED BY <2>2, <2>3, BooksAside
<1> QED BY <1>6, <1>7

\* A commit books the legs of the task and tells of nothing else.
LEMMA CommitLedger ==
    ASSUME TypeOK, Books, Story, NEW t \in Tasks, Commit(t) PROVE Ledger!Book(t)
<1>0. PICK r \in Runs : r = task[t]
  BY DEF TypeOK
<1>1. /\ r.pc = "commit" /\ message' = MessageAfter(r) /\ table' = [table EXCEPT ![t] = r.rows]
      /\ Becomes(t, [r EXCEPT !.pc = "done"]) /\ UNCHANGED <<accepted, lost>>
  BY <1>0 DEF Commit
<1>2. t \in Open /\ Open' = Open \ {t}
  <2> DEFINE n == [r EXCEPT !.pc = "done"]
  <2>1. n.pc = "done" /\ Becomes(t, n)
    BY <1>1, PlacedRun DEF Places, Ended
  <2> HIDE DEF n
  <2> QED BY <1>0, <1>1, <2>1, OpenKept DEF Ended
<1>3. \A l \in Legs : Settled(r, t, l)
  BY <1>0, <1>1 DEF Books, Book, Ahead, Sending
<1>4. r.rows \in [Legs -> Ledger!Entries]
  BY <1>3 DEF Settled, Runs, Statuses, Ledger!Entries
<1>5. Ledger!Honest(r.rows, t)
  BY <1>3 DEF Settled, Ledger!Honest
<1>6. Ledger!Tells(r.rows)
  <2>1. CASE r.op = "process"
    <3>1. message = NoMessage
      BY <1>0, <1>1, <2>1 DEF Story, Knows, Ended
    <3>2. message.status = "none" /\ message'.status = "pending"
      BY <1>1, <2>1, <3>1, NoMessageFacts DEF MessageAfter, Fresh
    <3> QED BY <3>2 DEF Ledger!Tells
  <2>2. CASE r.op = "deliver" /\ r.rows # NoRows
    <3>1. message.status # "none" /\ message \in Messages
      BY <1>0, <2>2 DEF Story, Knows, TypeOK
    <3>2. ASSUME NEW status, NEW via, message' = Updated(r, status, via)
          PROVE  message'.status = message.status \/ message'.status = status
      BY <3>1, <3>2 DEF Updated, Messages
    <3>3. CASE \E l \in Legs : r.rows[l] = "delivered"
      <4>1. message' = Updated(r, "delivered", PreferredChannel(r.seen))
        BY <1>1, <2>2, <3>3, AfterFacts
      <4>2. Ledger!Has(r.rows, "delivered")
        BY <3>3 DEF Ledger!Has
      <4> QED BY <3>1, <3>2, <4>1, <4>2 DEF Ledger!Tells
    <3>4. CASE \A l \in Legs : r.rows[l] # "delivered"
      <4>1. message' = Updated(r, "failed", r.loaded.via)
        BY <1>1, <2>2, <3>4, AfterFacts
      <4>2. \E l \in Legs : r.rows[l] # "none"
        BY <2>2 DEF NoRows, Runs
      <4>3. Ledger!Has(r.rows, "failed") /\ ~ Ledger!Has(r.rows, "delivered")
        BY <1>4, <3>4, <4>2 DEF Ledger!Has, Ledger!Entries
      <4> QED BY <3>1, <3>2, <4>1, <4>3 DEF Ledger!Tells
    <3> QED BY <3>3, <3>4
  <2>3. CASE r.op # "process" /\ (r.op = "deliver" => r.rows = NoRows)
    <3>1. message' = message
      BY <1>1, <2>3, AfterFacts DEF NoRows
    <3> QED BY <3>1 DEF Ledger!Tells
  <2> QED BY <2>1, <2>2, <2>3
<1> QED BY <1>1, <1>2, <1>4, <1>5, <1>6 DEF Ledger!Book

LEMMA LedgerStep ==
    ASSUME TypeOK, Books, Story, [Next]_vars PROVE [Ledger!Next]_(Ledger!vars)
<1>1. CASE UNCHANGED <<message, task, table, accepted, lost>>
  BY <1>1 DEF Ledger!vars, Open
<1>2. ASSUME NEW t \in Tasks, Quiet(t) \/ Idle(t),
             UNCHANGED <<message, table, accepted, lost>>, NEW n, Becomes(t, n)
      PROVE  [Ledger!Next]_(Ledger!vars)
  <2>1. task[t].pc \notin Ended
    BY <1>2 DEF Quiet, Idle, Ended
  <2> QED BY <1>2, <2>1, BooksAside DEF Ledger!Next
<1>3. ASSUME NEW t \in Tasks, Process(t) \/ Deliver(t) \/ Forward(t)
      PROVE  [Ledger!Next]_(Ledger!vars)
  <2>1. CASE Process(t)
    <3>1. Idle(t) /\ UNCHANGED <<message, table, accepted, lost>>
      BY <2>1 DEF Process
    <3>2. \E n : Becomes(t, n)
      BY <2>1 DEF Process
    <3> QED BY <1>2, <3>1, <3>2
  <2>2. CASE Deliver(t)
    <3>1. Idle(t) /\ UNCHANGED <<message, table, accepted, lost>>
      BY <2>2 DEF Deliver
    <3>2. \E n : Becomes(t, n)
      BY <2>2 DEF Deliver
    <3> QED BY <1>2, <3>1, <3>2
  <2>3. CASE Forward(t)
    <3>1. Idle(t) /\ UNCHANGED <<message, table, accepted, lost>>
      BY <2>3 DEF Forward
    <3>2. \E n : Becomes(t, n)
      BY <2>3 DEF Forward
    <3> QED BY <1>2, <3>1, <3>2
  <2> QED BY <1>3, <2>1, <2>2, <2>3
<1>4. ASSUME NEW t \in Tasks, ReadSettings(t) \/ AskCaretaker(t) \/ RollBack(t)
      PROVE  [Ledger!Next]_(Ledger!vars)
  <2>1. Quiet(t)
    BY <1>4, ReadQuiet, AskQuiet, RollBackQuiet
  <2>2. UNCHANGED <<message, table, accepted, lost>>
    BY <1>4 DEF ReadSettings, AskCaretaker, RollBack
  <2>3. PICK n \in Runs : Becomes(t, n)
    BY <2>1 DEF Quiet
  <2> QED BY <1>2, <2>1, <2>2, <2>3
<1>5. ASSUME NEW t \in Tasks, Send(t) PROVE [Ledger!Next]_(Ledger!vars)
  BY <1>5, SendLedger DEF Ledger!Next
<1>6. ASSUME NEW t \in Tasks, Commit(t) PROVE [Ledger!Next]_(Ledger!vars)
  BY <1>6, CommitLedger DEF Ledger!Next
<1> QED BY <1>1, <1>3, <1>4, <1>5, <1>6 DEF Next, Step, SaveSettings, vars

\* Processing, delivery with its retries, the caretaker's fork and the forward
\* endpoint, with every lost answer, exception and rollback, implement at-least-
\* once delivery with honest books, for any number of operations at once.
THEOREM RefinesLedger == Spec => ImplementsLedger
<1>1. Init => Ledger!Init
  BY LedgerStart, DeliveryAssumption
<1>2. TypeOK /\ Books /\ Story /\ [Next]_vars => [Ledger!Next]_(Ledger!vars)
  BY LedgerStep
<1> QED BY <1>1, <1>2, TheForks, PTL DEF Spec, ImplementsLedger, Ledger!Spec

-----------------------------------------------------------------------------
(* When no answer of a provider is lost.                                   *)

NoDoubts == \A t \in Tasks, l \in Legs : lost[t][l] = 0

LEMMA NoDoubtsStep ==
    ASSUME TypeOK, NoDoubts, [Next]_vars, "lost" \notin Faults PROVE NoDoubts'
<1>1. CASE UNCHANGED lost
  BY <1>1 DEF NoDoubts
<1>2. ASSUME NEW t \in Tasks, Send(t) PROVE UNCHANGED lost
  <2>1. PICK took \in BOOLEAN, answer \in {"success", "failure", "exception"} :
           /\ (took /\ answer # "success") => "lost" \in Faults
           /\ lost' = [lost EXCEPT ![t][task[t].leg] =
                          @ + IF took /\ answer # "success" THEN 1 ELSE 0]
    BY <1>2 DEF Send
  <2>2. lost' = [lost EXCEPT ![t][task[t].leg] = @ + 0]
    BY <2>1
  <2>3. task[t].leg \in Legs
    BY DEF TypeOK, Runs
  <2>4. lost[t][task[t].leg] \in Nat
    BY <2>3, Numbers
  <2> QED BY <2>2, <2>3, <2>4 DEF TypeOK
<1>3. ASSUME NEW t \in Tasks
      PROVE  /\ Process(t) \/ Deliver(t) \/ Forward(t) => UNCHANGED lost
             /\ ReadSettings(t) \/ AskCaretaker(t) \/ Commit(t) \/ RollBack(t) => UNCHANGED lost
  <2>1. Process(t) => UNCHANGED lost
    BY DEF Process
  <2>2. Deliver(t) => UNCHANGED lost
    BY DEF Deliver
  <2>3. Forward(t) => UNCHANGED lost
    BY DEF Forward
  <2>4. ReadSettings(t) => UNCHANGED lost
    BY DEF ReadSettings
  <2>5. AskCaretaker(t) => UNCHANGED lost
    BY DEF AskCaretaker
  <2>6. Commit(t) => UNCHANGED lost
    BY DEF Commit
  <2>7. RollBack(t) => UNCHANGED lost
    BY DEF RollBack
  <2> QED BY <2>1, <2>2, <2>3, <2>4, <2>5, <2>6, <2>7
<1>4. CASE SaveSettings
  BY <1>1, <1>4 DEF SaveSettings
<1>5. CASE UNCHANGED vars
  BY <1>1, <1>5 DEF vars
<1> QED BY <1>1, <1>2, <1>3, <1>4, <1>5 DEF Next, Step

\* Unless a provider accepts a message and the adapter does not learn it, every
\* operation sends every recipient at most one copy, although deliver_message
\* retries, and a committed row says "delivered" exactly if that copy was taken
\* (delivery_service.py:78-98, 258-290).
THEOREM ExactlyOnce ==
    ASSUME "lost" \notin Faults
    PROVE  Spec => [](\A t \in Tasks, l \in Legs :
                         /\ accepted[t][l] <= 1
                         /\ task[t].pc = "done" =>
                               (table[t][l] = "delivered" <=> accepted[t][l] = 1))
<1>1. Init => NoDoubts
  BY DEF Init, NoDoubts
<1>2. TypeOK /\ NoDoubts /\ [Next]_vars => NoDoubts'
  BY NoDoubtsStep
<1>3. TypeOK /\ Books /\ NoDoubts =>
          \A t \in Tasks, l \in Legs :
              /\ accepted[t][l] <= 1
              /\ task[t].pc = "done" => (table[t][l] = "delivered" <=> accepted[t][l] = 1)
  <2> SUFFICES ASSUME TypeOK, Books, NoDoubts, NEW t \in Tasks, NEW l \in Legs
               PROVE  /\ accepted[t][l] <= 1
                      /\ task[t].pc = "done" => (table[t][l] = "delivered" <=> accepted[t][l] = 1)
    OBVIOUS
  <2>1. lost[t][l] = 0 /\ accepted[t][l] \in Nat /\ accepted[t][l] <= lost[t][l] + 1
    BY Numbers DEF NoDoubts, Books, Book
  <2>2. CASE task[t].pc = "done"
    <3>1. table[t] = task[t].rows /\ Settled(task[t], t, l)
      BY <2>2 DEF Books, Tries, Book, Ahead, Sending
    <3>2. table[t][l] \in Statuses
      BY DEF TypeOK
    <3> QED BY <2>1, <3>1, <3>2 DEF Settled, Statuses
  <2> QED BY <2>1, <2>2
<1> QED BY <1>1, <1>2, <1>3, TheBooks, PTL DEF Spec
=============================================================================
