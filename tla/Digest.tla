-------------------------------- MODULE Digest --------------------------------
(***************************************************************************)
(* The daily digest: the Celery task send_daily_digests                    *)
(* (tasks/scheduled.py) and send_daily_digest (messaging/notifications.py) *)
(* for every user. A digest has the messages of the last 24 hours, counted *)
(* from the moment its user's turn comes; nothing is noted of what was     *)
(* sent. A message is dated when its row is flushed and seen when its      *)
(* transaction commits. The task is acknowledged when it is over: a broker *)
(* that loses the worker, or waits too long, delivers it again.            *)
(***************************************************************************)
EXTENDS Naturals, FiniteSets

CONSTANTS Users,      \* the active users
          Messages,   \* messages for them
          Owner,      \* Owner[m]: the user of message m
          Slots,      \* deliveries of the task that may be on at once
          Day,        \* ticks from one beat to the next
          Kinds,      \* of the kinds of faults below, those that happen
          MaxTime,    \* bound: ticks
          MaxFaults   \* bound: faults

FaultKinds == {"adapter", "database", "loop", "child", "worker", "timeout"}

ASSUME DigestAssumption ==
    /\ Owner \in [Messages -> Users]
    /\ IsFiniteSet(Slots)
    /\ Day \in Nat /\ Day > 1 /\ Day % 2 = 0
    /\ Kinds \subseteq FaultKinds
    /\ MaxTime \in Nat \ {0} /\ MaxFaults \in Nat

VARIABLES
    now,        \* the time; messages are created at odd times, digests made at even
    message,    \* message[m]: when it was created, and whether it is committed
    run,        \* run[s]: a delivery of the task
    beat,       \* the beats so far
    pooled,     \* whether the worker's pool keeps a connection of a former loop
    got,        \* got[m]: the digests that reached the user with m
    excuse,     \* history: what befell the digests of a user
    straddled,  \* history: messages a query missed that were not committed yet
    faults      \* faults so far

vars == <<now, message, run, beat, pooled, got, excuse, straddled, faults>>

Unwritten == [created |-> 0, committed |-> FALSE]
NoRun == [pc |-> "idle", due |-> 0, todo |-> {}, usable |-> TRUE]

Rows == [created : 0 .. MaxTime, committed : BOOLEAN]
Runs == [pc : {"idle", "queued", "running"}, due : 0 .. MaxTime,
         todo : SUBSET Users, usable : BOOLEAN]
Excuses == {"adapter", "database", "loop", "child", "late", "again"}

TypeOK ==
    /\ now \in 0 .. MaxTime
    /\ message \in [Messages -> Rows]
    /\ run \in [Slots -> Runs]
    /\ \A s \in Slots : run[s].pc # "running" => run[s].todo = {}
    /\ beat \in 0 .. MaxTime
    /\ pooled \in BOOLEAN
    /\ got \in [Messages -> 0 .. MaxTime + MaxFaults]
    /\ excuse \in [Users -> SUBSET Excuses]
    /\ straddled \subseteq Messages
    /\ faults \in 0 .. MaxFaults

Init ==
    /\ now = 1
    /\ message = [m \in Messages |-> Unwritten]
    /\ run = [s \in Slots |-> NoRun]
    /\ beat = 0
    /\ pooled = FALSE
    /\ got = [m \in Messages |-> 0]
    /\ excuse = [u \in Users |-> {}]
    /\ straddled = {}
    /\ faults = 0

Fault(kind) == /\ kind \in Kinds /\ faults < MaxFaults
               /\ faults' = faults + 1

Excused(users, reason) ==
    [u \in Users |-> IF u \in users THEN excuse[u] \cup {reason} ELSE excuse[u]]

-----------------------------------------------------------------------------
Due == (beat + 1) * Day

\* The scheduler does not let its time pass.
Tick ==
    /\ now < MaxTime /\ now # Due
    /\ now' = now + 1
    /\ UNCHANGED <<message, run, beat, pooled, got, excuse, straddled, faults>>

\* The row of m is flushed, and after the message was sent it is committed.
Create(m) ==
    /\ message[m] = Unwritten /\ now % 2 = 1
    /\ message' = [message EXCEPT ![m].created = now]
    /\ UNCHANGED <<now, run, beat, pooled, got, excuse, straddled, faults>>

CommitMessage(m) ==
    /\ message[m].created > 0 /\ ~ message[m].committed
    /\ message' = [message EXCEPT ![m].committed = TRUE]
    /\ UNCHANGED <<now, run, beat, pooled, got, excuse, straddled, faults>>

\* The beat puts the task into the queue.
Beat(s) ==
    /\ now = Due /\ run[s].pc = "idle"
    /\ beat' = beat + 1
    /\ run' = [run EXCEPT ![s] = [NoRun EXCEPT !.pc = "queued", !.due = now]]
    /\ UNCHANGED <<now, message, pooled, got, excuse, straddled, faults>>

\* A worker begins: the users are read through a pooled connection.  The pool
\* outlives the event loop of the run before; a connection left in it belongs to
\* a loop that is closed, and the statement may raise, which ends the task.
Start(s) ==
    /\ run[s].pc = "queued"
    /\ \/ /\ run' = [run EXCEPT ![s].pc = "running", ![s].todo = Users]
          /\ UNCHANGED <<pooled, excuse, faults>>
       \/ /\ pooled /\ Fault("loop")
          /\ pooled' = FALSE
          /\ run' = [run EXCEPT ![s] = NoRun]
          /\ excuse' = Excused(Users, "loop")
    /\ UNCHANGED <<now, message, beat, got, straddled>>

\* The query of send_daily_digest: created_at >= cutoff.
MutantRecent(m) == message[m].created > 0
Recent(m) == message[m].created > 0 /\ message[m].created + Day >= now

Window(u) == {m \in Messages : Owner[m] = u /\ Recent(m)}
Digest(u) == {m \in Window(u) : message[m].committed}

\* How the run goes on when a send failed or raised: with the other users.
MutantAfterFailure(r, u) == NoRun
MutantStopHalfway(r, u) == [r EXCEPT !.pc = "idle"]
AfterFailure(r, u) == [r EXCEPT !.todo = @ \ {u}]

\* The turn of a user.  Without messages nothing is sent; the channel may have
\* no adapter, or the adapter fail or raise.  In a session in which a statement
\* failed every other one fails.
Serve(s, u) ==
    /\ run[s].pc = "running" /\ u \in run[s].todo /\ now % 2 = 0
    /\ LET r == run[s]
           served == [r EXCEPT !.todo = @ \ {u}]
           late == IF now = r.due THEN excuse ELSE Excused({u}, "late")
       IN \/ /\ r.usable
             /\ run' = [run EXCEPT ![s] = served]
             /\ got' = [m \in Messages |-> IF m \in Digest(u) THEN got[m] + 1 ELSE got[m]]
             /\ straddled' = straddled \cup (Window(u) \ Digest(u))
             /\ excuse' = late
             /\ UNCHANGED faults
          \/ /\ r.usable /\ Digest(u) # {} /\ Fault("adapter")
             /\ run' = [run EXCEPT ![s] = AfterFailure(r, u)]
             /\ excuse' = Excused({u}, "adapter")
             /\ UNCHANGED <<got, straddled>>
          \/ /\ r.usable /\ Fault("database")
             /\ run' = [run EXCEPT ![s] = [served EXCEPT !.usable = FALSE]]
             /\ excuse' = Excused({u}, "database")
             /\ UNCHANGED <<got, straddled>>
          \/ /\ ~ r.usable
             /\ run' = [run EXCEPT ![s] = served]
             /\ excuse' = Excused({u}, "database")
             /\ UNCHANGED <<got, straddled, faults>>
    /\ UNCHANGED <<now, message, beat, pooled>>

\* The commit that has nothing to write, the acknowledgement; the connection
\* goes back into the pool.
Finish(s) ==
    /\ run[s].pc = "running" /\ run[s].todo = {}
    /\ run' = [run EXCEPT ![s] = NoRun]
    /\ pooled' = TRUE
    /\ UNCHANGED <<now, message, beat, got, excuse, straddled, faults>>

\* The child process that ran the task dies: Celery acknowledges it as failed.
ChildLost(s) ==
    /\ run[s].pc = "running" /\ Fault("child")
    /\ run' = [run EXCEPT ![s] = NoRun]
    /\ pooled' = FALSE
    /\ excuse' = Excused(run[s].todo, "child")
    /\ UNCHANGED <<now, message, beat, got, straddled>>

\* The whole worker dies: the task is delivered again and begins anew.
WorkerLost(s) ==
    /\ run[s].pc = "running" /\ Fault("worker")
    /\ run' = [run EXCEPT ![s] = [NoRun EXCEPT !.pc = "queued", !.due = run[s].due]]
    /\ pooled' = FALSE
    /\ excuse' = Excused(Users \ run[s].todo, "again")
    /\ UNCHANGED <<now, message, beat, got, straddled>>

\* The broker's visibility timeout is over while the task still runs.
Redeliver(s, t) ==
    /\ run[s].pc = "running" /\ run[t].pc = "idle" /\ Fault("timeout")
    /\ run' = [run EXCEPT ![t] = [NoRun EXCEPT !.pc = "queued", !.due = run[s].due]]
    /\ excuse' = Excused(Users, "again")
    /\ UNCHANGED <<now, message, beat, pooled, got, straddled>>

Next == \/ Tick
        \/ \E m \in Messages : Create(m) \/ CommitMessage(m)
        \/ \E s \in Slots : \/ Beat(s) \/ Start(s) \/ Finish(s)
                            \/ \E u \in Users : Serve(s, u)
                            \/ ChildLost(s) \/ WorkerLost(s)
                            \/ \E t \in Slots : Redeliver(s, t)

Spec == Init /\ [][Next]_vars

-----------------------------------------------------------------------------
\* The digest after the creation of m has been made, well or ill.
Settled(m) == /\ message[m].created > 0 /\ message[m].created < beat * Day
              /\ \A s \in Slots : run[s].pc = "idle"

\* A message that no digest brought was not committed yet when its user's turn came,
\* or something befell the digests of that very user: his turn came late, his
\* adapter failed, a statement failed before, or the task was lost.  The failure
\* of another user's adapter is no excuse.
MissedExplained ==
    \A m \in Messages :
        Settled(m) /\ got[m] = 0 =>
            \/ m \in straddled
            \/ excuse[Owner[m]] \cap {"adapter", "database", "loop", "child", "late"} # {}

\* A message that came in two digests came in a late one, whose window overlaps
\* with the next, or the task was delivered again.
TwiceExplained ==
    \A m \in Messages : got[m] > 1 => excuse[Owner[m]] \cap {"late", "again"} # {}
=============================================================================
