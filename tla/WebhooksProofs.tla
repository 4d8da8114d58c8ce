--------------------------- MODULE WebhooksProofs ---------------------------
(***************************************************************************)
(* Proofs about Webhooks, for every set of calls and every choice of       *)
(* failures: types, no race between hget and hset, the transition table is *)
(* obeyed, nobody rings through unscreened, and the webhooks implement     *)
(* CallLifecycle.                                                          *)
(***************************************************************************)
EXTENDS Webhooks, TLAPS

OperationsOf(h) ==
    CASE h = "incoming" -> {"ready", "create", "settings", "TRIAGE", "lookup", "FORWARDING",
                            "BLOCKING", "stir", "NUMBER_LOOKUP", "SCREENING", "reply", "done"}
      [] h = "gather"   -> {"ready", "settings", "DECIDING", "FORWARDING", "MESSAGING",
                            "FAILED", "reply", "done"}
      [] h = "status"   -> {"ready", "COMPLETED", "done", "swallowed"}

StepsOf(o) ==
    CASE o \in CallStatus -> {"state", "meta", "write", "expire"}
      [] o = "create"     -> {"write", "expire"}
      [] o = "stir"       -> {"meta", "write", "expire"}
      [] OTHER            -> {"none"}

\* The states the last transition of incoming_call or gather_handler leads to
\* from which a call can complete, and COMPLETED.
Settled == {"FORWARDING", "MESSAGING", "BLOCKING", "ENGAGING", "COMPLETED"}

\* Handler h will not write to the record of c any more.
NoWriteLeft(c, h) ==
    \/ proc[c][h].op \in {"ready", "reply", "done", "swallowed"}
    \/ /\ proc[c][h].op \in {"FORWARDING", "BLOCKING", "SCREENING", "MESSAGING", "FAILED",
                             "COMPLETED"}
       /\ proc[c][h].step = "expire"

Quiet(c) == NoWriteLeft(c, "incoming") /\ NoWriteLeft(c, "gather")

\* The progress of a handler fits its program and what it has read.
Shape ==
    \A c \in Calls, h \in Handlers :
        /\ proc[c][h].op \in OperationsOf(h)
        /\ proc[c][h].step \in StepsOf(proc[c][h].op)
        /\ proc[c][h].step = "write" /\ proc[c][h].op # "create"
               => proc[c][h].got \in Metadata
        /\ proc[c][h].op \in CallStatus /\ proc[c][h].step \in {"meta", "write"} =>
               /\ proc[c][h].saw \in CallStatus
               /\ proc[c][h].op \in AllowedTransitions[proc[c][h].saw]

\* incoming, then gather, then status: the first two never overlap, the third
\* starts when Twilio sends no other webhook any more.
Sequencing ==
    \A c \in Calls :
        /\ proc[c]["gather"].op # "ready" => proc[c]["incoming"].op = "done"
        /\ phase[c] \in {"gathering", "gather"} => proc[c]["incoming"].op = "done"
        /\ proc[c]["status"].op # "ready" => phase[c] = "ended"
        /\ phase[c] = "idle" => proc[c]["incoming"].op = "ready"
        /\ phase[c] = "idle" => state[c] = Absent
        /\ proc[c]["incoming"].op = "create" /\ proc[c]["incoming"].step = "write"
               => state[c] = Absent

\* call_status overlaps incoming and gather, but it gets past its check only
\* once they have made their last write.
LastWriter ==
    \A c \in Calls :
        /\ state[c] \in Settled => Quiet(c)
        /\ proc[c]["status"].step \in {"meta", "write"} => Quiet(c)

Listed == {"whitelist", "blocklist"}

\* A call is greeted only with a record that can still be written: the branch
\* on the contact list and the answer agree, so the gather webhook never finds
\* a record that call_status may complete at the same time.
Routing ==
    \A c \in Calls :
        /\ proc[c]["incoming"].op \in {"FORWARDING", "BLOCKING"} => contact[c] \in Listed
        /\ phase[c] = "incoming" /\ state[c] \in Settled => contact[c] \in Listed
        /\ phase[c] = "gathering" => state[c] \notin Settled
        /\ phase[c] \in {"incoming", "gathering"} => proc[c]["gather"].op = "ready"
        /\ proc[c]["gather"].op # "ready" => digit[c] # "none"

Core == TypeOK /\ Shape /\ Sequencing /\ LastWriter /\ ReadStillCurrent

IInv == Core /\ Routing

-----------------------------------------------------------------------------
(* The table and the programs.                                             *)

\* The table leads to call states, and only a settled call completes.
LEMMA TableFacts ==
    \A s \in CallStatus :
        /\ AllowedTransitions[s] \subseteq CallStatus
        /\ "COMPLETED" \in AllowedTransitions[s] => s \in Settled
  BY DEF AllowedTransitions, CallStatus, Settled

\* What follows an operation belongs to the program of its handler.
LEMMA NextFacts ==
    ASSUME NEW c \in Calls, NEW h \in Handlers, Shape, proc[c][h].step = "expire"
                \/ proc[c][h].op = "settings"
    PROVE  /\ NextOperation(c, h) \in OperationsOf(h) \ {"ready", "create", "swallowed"}
           /\ NoWriteLeft(c, h) => NextOperation(c, h) \in {"reply", "done"}
  <1>1. proc[c][h].op \in OperationsOf(h) /\ proc[c][h].step \in StepsOf(proc[c][h].op)
    BY DEF Shape
  <1>2. CASE h = "incoming"
    BY <1>1, <1>2 DEF NextOperation, AfterIncoming, OperationsOf, NoWriteLeft, StepsOf, CallStatus
  <1>3. CASE h = "gather"
    BY <1>1, <1>3 DEF NextOperation, AfterGather, OperationsOf, NoWriteLeft, StepsOf, CallStatus
  <1>4. CASE h = "status"
    BY <1>1, <1>4 DEF NextOperation, OperationsOf, NoWriteLeft, StepsOf, CallStatus
  <1>5. QED
    BY <1>2, <1>3, <1>4 DEF Handlers

\* The operations of a handler are operations.
LEMMA OperationsFacts ==
    \A h \in Handlers : OperationsOf(h) \subseteq Operations
  BY DEF OperationsOf, Handlers, Operations, CallStatus

\* An operation begins at a step of its own, having read nothing.
LEMMA BeginFacts ==
    ASSUME NEW o \in Operations
    PROVE  /\ Begin(o) \in Progress
           /\ Begin(o).op = o
           /\ Begin(o).step = FirstStep(o)
           /\ FirstStep(o) \in StepsOf(o)
           /\ FirstStep(o) # "expire"
           /\ FirstStep(o) = "write" <=> o = "create"
           /\ FirstStep(o) = "meta" <=> o = "stir"
  BY DEF Begin, FirstStep, StepsOf, Progress, Operations, CallStatus, Steps, Absent

\* One handler moves, the others stay where they are.
LEMMA Moves ==
    ASSUME proc \in [Calls -> [Handlers -> Progress]],
           NEW c \in Calls, NEW h \in Handlers, NEW r \in Progress,
           proc' = [proc EXCEPT ![c][h] = r]
    PROVE  /\ proc' \in [Calls -> [Handlers -> Progress]]
           /\ proc'[c][h] = r
           /\ \A d \in Calls, k \in Handlers :
                 d # c \/ k # h => proc'[d][k] = proc[d][k]
  OBVIOUS

\* Goto moves the one handler only.
LEMMA GotoMoves ==
    ASSUME TypeOK, NEW c \in Calls, NEW h \in Handlers, NEW o \in Operations, Goto(c, h, o)
    PROVE  /\ proc' \in [Calls -> [Handlers -> Progress]]
           /\ proc'[c][h] = Begin(o)
           /\ \A d \in Calls, k \in Handlers :
                 d # c \/ k # h => proc'[d][k] = proc[d][k]
  BY BeginFacts, Moves DEF Goto, TypeOK

-----------------------------------------------------------------------------
(* Every action preserves Core.  First the steps with which a handler goes *)
(* on to another operation and leaves the state in the record alone.       *)

\* A handler that goes on to another of its operations, and leaves the state
\* of the record alone, preserves Core.
LEMMA GoesOn ==
    ASSUME Core, NEW c \in Calls, NEW h \in Handlers,
           NEW o \in OperationsOf(h), Goto(c, h, o),
           InFlight(c, h), o \notin {"ready", "create"},
           NoWriteLeft(c, h) => o \in {"reply", "done"},
           UNCHANGED state,
           \A d \in Calls :
               phase'[d] = phase[d] \/ (phase[d] \in Handlers /\ phase'[d] = "fallback")
    PROVE  Shape' /\ Sequencing' /\ LastWriter' /\ ReadStillCurrent'
  <1>0. o \in Operations
    BY OperationsFacts
  <1>1. /\ proc'[c][h] = Begin(o)
        /\ \A d \in Calls, k \in Handlers : d # c \/ k # h => proc'[d][k] = proc[d][k]
    BY <1>0, GotoMoves DEF Core
  <1>2. Shape'
    BY <1>0, <1>1, BeginFacts DEF Core, Shape, CallStatus
  <1>3. Sequencing'
    BY <1>0, <1>1, BeginFacts DEF Core, Sequencing, Handlers, InFlight
  <1>4. LastWriter'
    BY <1>0, <1>1, BeginFacts DEF Core, LastWriter, Handlers, Quiet, NoWriteLeft, OperationsOf
  <1>5. ReadStillCurrent'
    BY <1>0, <1>1, BeginFacts DEF Core, ReadStillCurrent, CallStatus
  <1>6. QED
    BY <1>2, <1>3, <1>4, <1>5

\* A handler that gives up preserves Core.
LEMMA Abandons ==
    ASSUME Core, NEW c \in Calls, NEW h \in Handlers, InFlight(c, h), Abandon(c, h),
           UNCHANGED state
    PROVE  /\ proc' \in [Calls -> [Handlers -> Progress]]
           /\ phase' \in [Calls -> Phases]
           /\ Shape' /\ Sequencing' /\ LastWriter' /\ ReadStillCurrent'
  <1>1. /\ "done" \in OperationsOf(h)
        /\ "done" \in Operations
    BY DEF OperationsOf, Handlers, Operations
  <1>2. Goto(c, h, "done")
    BY DEF Abandon
  <1>3. /\ phase' \in [Calls -> Phases]
        /\ \A d \in Calls :
              phase'[d] = phase[d] \/ (phase[d] \in Handlers /\ phase'[d] = "fallback")
    BY DEF Abandon, Core, TypeOK, Phases
  <1>4. QED
    BY <1>1, <1>2, <1>3, GoesOn, GotoMoves DEF Core

\* A handler that is at a step, or at an operation that reads the database,
\* is in flight.
LEMMA AtStep ==
    ASSUME Shape, NEW c \in Calls, NEW h \in Handlers,
           \/ proc[c][h].step # "none"
           \/ proc[c][h].op \in {"settings", "lookup", "reply"}
    PROVE  InFlight(c, h)
  BY DEF Shape, InFlight, StepsOf, CallStatus

\* transition reads the state: what it saw is current when it reads it.
LEMMA ReadStateKeeps ==
    ASSUME Core, NEW c \in Calls, NEW h \in Handlers, ReadState(c, h)
    PROVE  Core'
  <1> DEFINE r == [proc[c][h] EXCEPT !.step = "meta", !.saw = state[c]]
  <1>0. proc[c][h] \in Progress /\ state[c] \in CallStatus
    BY DEF Core, TypeOK, ReadState, Permitted
  <1>1. /\ r \in Progress /\ r.op = proc[c][h].op /\ r.step = "meta"
        /\ r.saw = state[c] /\ r.got = proc[c][h].got
    BY <1>0 DEF Progress, Steps
  <1>2. /\ proc' \in [Calls -> [Handlers -> Progress]]
        /\ proc'[c][h] = r
        /\ \A d \in Calls, k \in Handlers : d # c \/ k # h => proc'[d][k] = proc[d][k]
    <2>1. proc' = [proc EXCEPT ![c][h] = r]
      BY DEF ReadState
    <2> HIDE DEF r
    <2>2. QED
      BY <1>1, <2>1, Moves DEF Core, TypeOK
  <1>3. /\ proc[c][h].step = "state" /\ proc[c][h].op \in AllowedTransitions[state[c]]
        /\ UNCHANGED <<state, meta, ttl, phase, caller, contact, digit, fellBack, hungUp, fault>>
    BY DEF ReadState, Permitted, record, history
  <1>4. proc[c][h].op \in CallStatus
    BY <1>0, <1>3, TableFacts
  <1> HIDE DEF r
  <1>5. TypeOK'
    BY <1>2, <1>3 DEF Core, TypeOK
  <1>6. Shape'
    BY <1>0, <1>1, <1>2, <1>3, <1>4 DEF Core, Shape, StepsOf
  <1>7. Sequencing'
    BY <1>1, <1>2, <1>3, <1>4 DEF Core, Sequencing, Handlers, CallStatus
  <1>8. LastWriter'
    <2>1. h = "status" => state[c] \in Settled
      BY <1>0, <1>3, <1>4, TableFacts DEF Core, Shape, OperationsOf, CallStatus
    <2>2. QED
      BY <2>1, <1>1, <1>2, <1>3, <1>4 DEF Core, LastWriter, Quiet, NoWriteLeft, Handlers
  <1>9. ReadStillCurrent'
    BY <1>1, <1>2, <1>3 DEF Core, ReadStillCurrent
  <1>10. QED
    BY <1>5, <1>6, <1>7, <1>8, <1>9 DEF Core

\* transition refuses: the handler gives up, or ignores it.
LEMMA RefuseKeeps ==
    ASSUME Core, NEW c \in Calls, NEW h \in Handlers, Refuse(c, h)
    PROVE  Core'
  <1>1. UNCHANGED <<state, meta, ttl, caller, contact, digit, fellBack, hungUp, fault>>
    BY DEF Refuse, record, history
  <1>2. InFlight(c, h)
    BY AtStep DEF Refuse, Core
  <1>3. CASE h # "status"
    <2>1. Abandon(c, h)
      BY <1>3 DEF Refuse
    <2>2. QED
      BY <1>1, <1>2, <2>1, Abandons DEF Core, TypeOK
  <1>4. CASE h = "status"
    <2> DEFINE r == [proc[c][h] EXCEPT !.op = "swallowed", !.step = "none", !.saw = state[c]]
    <2>1. proc' = [proc EXCEPT ![c][h] = r] /\ phase' = phase
      BY <1>4 DEF Refuse
    <2>2. proc[c][h] \in Progress /\ state[c] \in CallStatus \cup {Absent}
      BY DEF Core, TypeOK
    <2>3. r \in Progress /\ r.op = "swallowed" /\ r.step = "none"
      BY <2>2 DEF Progress, Steps, Operations
    <2> HIDE DEF r
    <2>4. /\ proc' \in [Calls -> [Handlers -> Progress]]
          /\ proc'[c][h] = r
          /\ \A d \in Calls, k \in Handlers : d # c \/ k # h => proc'[d][k] = proc[d][k]
      BY <2>1, <2>3, Moves DEF Core, TypeOK
    <2>5. TypeOK'
      BY <1>1, <2>1, <2>4 DEF Core, TypeOK
    <2>6. Shape'
      <3>1. "swallowed" \in OperationsOf("status") /\ "none" \in StepsOf("swallowed")
        BY DEF OperationsOf, StepsOf, CallStatus
      <3>2. QED
        BY <1>4, <2>3, <2>4, <3>1 DEF Core, Shape, CallStatus
    <2>7. Sequencing' /\ LastWriter'
      BY <1>1, <1>2, <1>4, <2>1, <2>3, <2>4
      DEF Core, Sequencing, LastWriter, Quiet, NoWriteLeft, Handlers, InFlight
    <2>8. ReadStillCurrent'
      BY <1>1, <2>3, <2>4 DEF Core, ReadStillCurrent
    <2>9. QED
      BY <2>5, <2>6, <2>7, <2>8 DEF Core
  <1>5. QED
    BY <1>3, <1>4

\* transition and set_metadata read the metadata.
LEMMA ReadMetaKeeps ==
    ASSUME Core, NEW c \in Calls, NEW h \in Handlers, ReadMeta(c, h)
    PROVE  Core'
  <1> DEFINE g == IF proc[c][h].op = "stir" THEN "attested"
                  ELSE IF meta[c] = Absent THEN "blank" ELSE meta[c]
             r == [proc[c][h] EXCEPT !.step = "write", !.got = g]
  <1>0. proc[c][h] \in Progress /\ meta[c] \in Metadata \cup {Absent}
    BY DEF Core, TypeOK
  <1>1. g \in Metadata
    BY <1>0 DEF Metadata
  <1>2. /\ proc' = [proc EXCEPT ![c][h] = r]
        /\ proc[c][h].step = "meta"
        /\ UNCHANGED <<state, meta, ttl, phase, caller, contact, digit, fellBack, hungUp, fault>>
    BY DEF ReadMeta, record, history
  <1> HIDE DEF g
  <1>3. /\ r \in Progress /\ r.op = proc[c][h].op /\ r.step = "write"
        /\ r.saw = proc[c][h].saw /\ r.got = g
    BY <1>0, <1>1 DEF Progress, Steps
  <1> HIDE DEF r
  <1>4. /\ proc' \in [Calls -> [Handlers -> Progress]]
        /\ proc'[c][h] = r
        /\ \A d \in Calls, k \in Handlers : d # c \/ k # h => proc'[d][k] = proc[d][k]
    BY <1>2, <1>3, Moves DEF Core, TypeOK
  <1>5. TypeOK'
    BY <1>2, <1>4 DEF Core, TypeOK
  <1>6. Shape'
    BY <1>1, <1>2, <1>3, <1>4 DEF Core, Shape, StepsOf
  <1>7. proc[c][h].op # "create"
    BY <1>2 DEF Core, Shape, StepsOf, CallStatus
  <1>8. Sequencing' /\ LastWriter'
    BY <1>2, <1>3, <1>4, <1>7
    DEF Core, Sequencing, LastWriter, Quiet, NoWriteLeft, Handlers
  <1>9. ReadStillCurrent'
    BY <1>2, <1>3, <1>4 DEF Core, ReadStillCurrent
  <1>10. QED
    BY <1>5, <1>6, <1>8, <1>9 DEF Core

\* The writer's own reading was current, and nobody else is about to write.
LEMMA WriteKeeps ==
    ASSUME Core, NEW c \in Calls, NEW h \in Handlers, Write(c, h)
    PROVE  Core'
  <1> DEFINE o == proc[c][h].op
             r == [proc[c][h] EXCEPT !.step = "expire"]
             s == IF o = "create" THEN "INCOMING" ELSE IF o = "stir" THEN state[c] ELSE o
  <1>0. proc[c][h] \in Progress /\ proc[c][h].step = "write"
    BY DEF Core, TypeOK, Write
  <1>1. /\ proc' = [proc EXCEPT ![c][h] = r]
        /\ UNCHANGED <<ttl, phase, caller, contact, digit, fellBack, hungUp, fault>>
    BY DEF Write, history
  <1>2. r \in Progress /\ r.op = o /\ r.step = "expire" /\ r.saw = proc[c][h].saw
    BY <1>0 DEF Progress, Steps
  <1>3. /\ o \in OperationsOf(h)
        /\ o \in CallStatus \cup {"create", "stir"}
        /\ o # "create" => proc[c][h].got \in Metadata
    BY <1>0 DEF Core, Shape, StepsOf
  <1>4. /\ s \in CallStatus \cup {Absent}
        /\ state' = [state EXCEPT ![c] = s]
    BY <1>3 DEF Write, Core, TypeOK, CallStatus
  <1>5. /\ meta' \in [Calls -> Metadata \cup {Absent}]
        /\ meta'[c] # Absent
        /\ \A d \in Calls : d # c => meta'[d] = meta[d]
    BY <1>3 DEF Write, Core, TypeOK, Metadata, Absent
  <1> HIDE DEF r
  <1>6. /\ proc' \in [Calls -> [Handlers -> Progress]]
        /\ proc'[c][h] = r
        /\ \A d \in Calls, k \in Handlers : d # c \/ k # h => proc'[d][k] = proc[d][k]
    BY <1>1, <1>2, Moves DEF Core, TypeOK
  <1>7. TypeOK'
    BY <1>1, <1>4, <1>5, <1>6 DEF Core, TypeOK
  <1>8. Shape'
    BY <1>2, <1>3, <1>6 DEF Core, Shape, StepsOf
  <1>9. /\ h = "gather" => proc[c]["incoming"].op = "done"
        /\ h = "incoming" => proc[c]["gather"].op = "ready"
        /\ h = "status" => Quiet(c)
        /\ h # "status" => proc[c]["status"].step \notin {"meta", "write"}
    <2>1. o \notin {"ready", "done"}
      BY <1>3 DEF CallStatus
    <2>2. h \in Handlers \ {"status"} => ~Quiet(c)
      BY <1>0, <1>3 DEF Handlers, Quiet, NoWriteLeft, CallStatus
    <2>3. QED
      BY <2>1, <2>2, <1>0 DEF Core, Sequencing, LastWriter, Handlers
  <1>10. phase[c] # "idle"
    BY <1>3, <1>9 DEF Core, Sequencing, Handlers, CallStatus
  <1>11. Sequencing'
    BY <1>1, <1>2, <1>3, <1>4, <1>6, <1>9, <1>10
    DEF Core, Sequencing, Handlers, TypeOK, OperationsOf, Quiet, NoWriteLeft
  <1>12. LastWriter'
    BY <1>1, <1>2, <1>3, <1>4, <1>6, <1>9
    DEF Core, LastWriter, Quiet, NoWriteLeft, Handlers, TypeOK, OperationsOf, Settled, CallStatus
  <1>13. ReadStillCurrent'
    BY <1>2, <1>3, <1>4, <1>6, <1>9
    DEF Core, ReadStillCurrent, Quiet, NoWriteLeft, Handlers, TypeOK, CallStatus
  <1>14. QED
    BY <1>7, <1>8, <1>11, <1>12, <1>13 DEF Core

\* The expiry is set and the handler goes on.
LEMMA SetExpiryKeeps ==
    ASSUME Core, NEW c \in Calls, NEW h \in Handlers, SetExpiry(c, h)
    PROVE  Core'
  <1> DEFINE o == NextOperation(c, h)
  <1>1. /\ o \in OperationsOf(h) /\ o \notin {"ready", "create"}
        /\ NoWriteLeft(c, h) => o \in {"reply", "done"}
    BY NextFacts DEF SetExpiry, Core
  <1>2. InFlight(c, h)
    BY AtStep DEF SetExpiry, Core
  <1>3. /\ Goto(c, h, o)
        /\ ttl' = [ttl EXCEPT ![c] = Exists(c)]
        /\ UNCHANGED <<state, meta, phase, caller, contact, digit, fellBack, hungUp, fault>>
    BY DEF SetExpiry, history
  <1> HIDE DEF o
  <1>4. o \in Operations
    BY <1>1, OperationsFacts
  <1>5. proc' \in [Calls -> [Handlers -> Progress]]
    BY <1>3, <1>4, GotoMoves DEF Core
  <1>6. TypeOK'
    BY <1>3, <1>5 DEF Core, TypeOK, Exists
  <1>7. QED
    BY <1>1, <1>2, <1>3, <1>6, GoesOn DEF Core

\* The user settings are read and the handler goes on.
LEMMA ReadSettingsKeeps ==
    ASSUME Core, NEW c \in Calls, NEW h \in Handlers, ReadSettings(c, h)
    PROVE  Core'
  <1> DEFINE o == NextOperation(c, h)
  <1>1. /\ o \in OperationsOf(h) /\ o \notin {"ready", "create"}
        /\ NoWriteLeft(c, h) => o \in {"reply", "done"}
    BY NextFacts DEF ReadSettings, Core
  <1>2. InFlight(c, h)
    BY AtStep DEF ReadSettings, Core
  <1>3. Goto(c, h, o) /\ UNCHANGED <<record, phase, caller, history>>
    BY DEF ReadSettings
  <1> HIDE DEF o
  <1>4. o \in Operations
    BY <1>1, OperationsFacts
  <1>5. proc' \in [Calls -> [Handlers -> Progress]]
    BY <1>3, <1>4, GotoMoves DEF Core
  <1>6. TypeOK'
    BY <1>3, <1>5 DEF Core, TypeOK, record, history
  <1>7. QED
    BY <1>1, <1>2, <1>3, <1>6, GoesOn DEF Core, record

\* The contact is looked up and incoming_call branches on it.
LEMMA LookupContactKeeps ==
    ASSUME Core, NEW c \in Calls, LookupContact(c)
    PROVE  Core'
  <1>0. PICK kind \in {"none", "whitelist", "blocklist"} :
             /\ contact' = [contact EXCEPT ![c] = kind]
             /\ \E o \in AfterLookup(kind) : Goto(c, "incoming", o)
    BY DEF LookupContact
  <1>1. PICK o \in AfterLookup(kind) : Goto(c, "incoming", o)
    BY <1>0
  <1>2. o \in OperationsOf("incoming") \ {"ready", "create"}
    BY <1>1 DEF AfterLookup, OperationsOf
  <1>3. InFlight(c, "incoming") /\ ~NoWriteLeft(c, "incoming")
    BY DEF LookupContact, InFlight, NoWriteLeft
  <1>4. UNCHANGED <<state, meta, ttl, phase, caller, digit, fellBack, hungUp, fault>>
    BY DEF LookupContact, record
  <1>5. "incoming" \in Handlers /\ o \in Operations
    BY <1>2, OperationsFacts DEF Handlers
  <1>6. proc' \in [Calls -> [Handlers -> Progress]]
    BY <1>1, <1>5, GotoMoves DEF Core
  <1>7. TypeOK'
    BY <1>0, <1>4, <1>6 DEF Core, TypeOK
  <1>8. QED
    BY <1>1, <1>2, <1>3, <1>4, <1>5, <1>7, GoesOn DEF Core

\* The handler answers, and is done.
LEMMA ReplyKeeps ==
    ASSUME Core, NEW c \in Calls, NEW h \in Handlers, Reply(c, h)
    PROVE  Core'
  <1>1. /\ Goto(c, h, "done") /\ proc[c][h].op = "reply"
        /\ phase' = IF phase[c] = h THEN [phase EXCEPT ![c] = TwiML(c, h)] ELSE phase
        /\ UNCHANGED <<state, meta, ttl, caller, contact, digit, fellBack, hungUp, fault>>
    BY DEF Reply, record, history
  <1>2. /\ proc' \in [Calls -> [Handlers -> Progress]]
        /\ proc'[c][h] = Begin("done")
        /\ \A d \in Calls, k \in Handlers : d # c \/ k # h => proc'[d][k] = proc[d][k]
    BY <1>1, GotoMoves DEF Core, Operations
  <1>3. Begin("done").op = "done" /\ Begin("done").step = "none"
    BY DEF Begin, FirstStep, CallStatus
  <1>4. TwiML(c, h) \in {"dialing", "rejected", "recording", "gathering"}
    BY DEF TwiML
  <1>5. h \in {"incoming", "gather"}
    BY <1>1 DEF Core, Shape, OperationsOf, Handlers
  <1>6. TypeOK'
    BY <1>1, <1>2, <1>4 DEF Core, TypeOK, Phases
  <1>7. Shape'
    <2>1. "done" \in OperationsOf(h) /\ "none" \in StepsOf("done")
      BY DEF OperationsOf, StepsOf, CallStatus, Handlers
    <2>2. QED
      BY <1>2, <1>3, <2>1 DEF Core, Shape, CallStatus
  <1>8. Sequencing'
    <2>1. \A d \in Calls : phase'[d] = phase[d]
             \/ (d = c /\ phase[d] = h /\ phase'[d] = TwiML(c, h))
      BY <1>1 DEF Core, TypeOK
    <2>2. QED
      BY <1>1, <1>2, <1>3, <1>4, <1>5, <2>1 DEF Core, Sequencing, Handlers
  <1>9. LastWriter' /\ ReadStillCurrent'
    BY <1>1, <1>2, <1>3, <1>5
    DEF Core, LastWriter, ReadStillCurrent, Quiet, NoWriteLeft, Handlers
  <1>10. QED
    BY <1>6, <1>7, <1>8, <1>9 DEF Core

\* A new handler: incoming when the call comes in, gather at a digit, status
\* at the end.  No other handler of the call is about to write.
LEMMA Starts ==
    ASSUME Core, Routing, NEW c \in Calls, NEW h \in Handlers, NEW o \in OperationsOf(h),
           Goto(c, h, o), o # "ready", UNCHANGED <<state, meta>>,
           \A d \in Calls : d # c => phase'[d] = phase[d],
           \/ h = "incoming" /\ phase[c] = "idle" /\ phase'[c] = "incoming"
           \/ h = "gather" /\ phase[c] = "gathering" /\ phase'[c] = "gather" /\ o # "create"
           \/ h = "status" /\ phase[c] = "ended" /\ phase'[c] = "ended" /\ o # "create"
    PROVE  /\ proc' \in [Calls -> [Handlers -> Progress]]
           /\ Shape' /\ Sequencing' /\ LastWriter' /\ ReadStillCurrent'
  <1>0. o \in Operations
    BY OperationsFacts
  <1>1. /\ proc' \in [Calls -> [Handlers -> Progress]]
        /\ proc'[c][h] = Begin(o)
        /\ \A d \in Calls, k \in Handlers : d # c \/ k # h => proc'[d][k] = proc[d][k]
    BY <1>0, GotoMoves DEF Core
  <1>2. Shape'
    BY <1>0, <1>1, BeginFacts DEF Core, Shape, CallStatus
  <1>3. Sequencing'
    BY <1>0, <1>1, BeginFacts DEF Core, Sequencing, Handlers
  <1>4. CASE h = "status"
    <2>1. LastWriter'
      BY <1>0, <1>1, <1>4, BeginFacts
      DEF Core, LastWriter, Handlers, Quiet, NoWriteLeft, OperationsOf
    <2>2. ReadStillCurrent'
      BY <1>0, <1>1, BeginFacts DEF Core, ReadStillCurrent, CallStatus
    <2>3. QED
      BY <1>1, <1>2, <1>3, <2>1, <2>2
  <1>5. CASE h # "status"
    <2>1. proc[c]["status"].op = "ready" /\ proc[c]["status"].step = "none"
      BY <1>5 DEF Core, Sequencing, Shape, StepsOf, Handlers, CallStatus
    <2>2. state[c] \notin Settled
      BY <1>5 DEF Core, Sequencing, Routing, Settled, Absent
    <2>3. LastWriter'
      BY <1>0, <1>1, <1>5, <2>1, <2>2, BeginFacts
      DEF Core, LastWriter, Handlers, Quiet, NoWriteLeft
    <2>4. ReadStillCurrent'
      BY <1>0, <1>1, BeginFacts DEF Core, ReadStillCurrent, CallStatus
    <2>5. QED
      BY <1>1, <1>2, <1>3, <2>3, <2>4
  <1>6. QED
    BY <1>4, <1>5

\* The call comes in: no handler of it has run before.
LEMMA IncomingCallKeeps ==
    ASSUME IInv, NEW c \in Calls, IncomingCall(c)
    PROVE  Core'
  <1> DEFINE o == IncomingStart(caller[c])
  <1>1. o \in OperationsOf("incoming") \ {"ready"} /\ "incoming" \in Handlers
    BY DEF IncomingStart, OperationsOf, Handlers
  <1>2. /\ phase' = [phase EXCEPT ![c] = "incoming"] /\ phase[c] = "idle"
        /\ Goto(c, "incoming", o)
        /\ UNCHANGED <<state, meta, ttl, caller, contact, digit, fellBack, hungUp, fault>>
    BY DEF IncomingCall, record, history
  <1> HIDE DEF o
  <1>3. /\ phase' \in [Calls -> Phases] /\ phase'[c] = "incoming"
        /\ \A d \in Calls : d # c => phase'[d] = phase[d]
    BY <1>2 DEF IInv, Core, TypeOK, Phases
  <1>4. /\ proc' \in [Calls -> [Handlers -> Progress]]
        /\ Shape' /\ Sequencing' /\ LastWriter' /\ ReadStillCurrent'
    BY <1>1, <1>2, <1>3, Starts DEF IInv
  <1>5. TypeOK'
    BY <1>2, <1>3, <1>4 DEF IInv, Core, TypeOK
  <1>6. QED
    BY <1>4, <1>5 DEF Core

\* The caller presses a digit: incoming_call is done with the record.
LEMMA PressKeeps ==
    ASSUME IInv, NEW c \in Calls, NEW d \in {"1", "2", "other"}, Press(c, d)
    PROVE  Core'
  <1> DEFINE o == GatherStart(d)
  <1>1. o \in OperationsOf("gather") \ {"ready"} /\ o # "create" /\ "gather" \in Handlers
    BY DEF GatherStart, OperationsOf, Handlers
  <1>2. /\ phase' = [phase EXCEPT ![c] = "gather"] /\ phase[c] = "gathering"
        /\ digit' = [digit EXCEPT ![c] = d]
        /\ Goto(c, "gather", o)
        /\ UNCHANGED <<state, meta, ttl, caller, contact, fellBack, hungUp, fault>>
    BY DEF Press, record
  <1> HIDE DEF o
  <1>3. /\ phase' \in [Calls -> Phases] /\ phase'[c] = "gather"
        /\ \A e \in Calls : e # c => phase'[e] = phase[e]
    BY <1>2 DEF IInv, Core, TypeOK, Phases
  <1>4. /\ proc' \in [Calls -> [Handlers -> Progress]]
        /\ Shape' /\ Sequencing' /\ LastWriter' /\ ReadStillCurrent'
    BY <1>1, <1>2, <1>3, Starts DEF IInv
  <1>5. TypeOK'
    BY <1>2, <1>3, <1>4 DEF IInv, Core, TypeOK
  <1>6. QED
    BY <1>4, <1>5 DEF Core

\* The status webhook is delivered, or lost on its way.
LEMMA StatusKeeps ==
    ASSUME IInv, NEW c \in Calls, NEW o \in {"COMPLETED", "done"}, Goto(c, "status", o),
           phase[c] = "ended",
           UNCHANGED <<state, meta, ttl, phase, caller, contact, digit, fellBack, hungUp>>,
           fault' \in [Calls -> SUBSET FaultKinds]
    PROVE  Core'
  <1>1. o \in OperationsOf("status") \ {"ready"} /\ o # "create" /\ "status" \in Handlers
    BY DEF OperationsOf, Handlers
  <1>2. /\ proc' \in [Calls -> [Handlers -> Progress]]
        /\ Shape' /\ Sequencing' /\ LastWriter' /\ ReadStillCurrent'
    BY <1>1, Starts DEF IInv
  <1>3. TypeOK'
    BY <1>2 DEF IInv, Core, TypeOK
  <1>4. QED
    BY <1>2, <1>3 DEF Core

\* Steps of Twilio and the caller that no handler takes part in.
LEMMA PhaseKeeps ==
    ASSUME Core, NEW c \in Calls, NEW p \in {"dialing", "fallback", "ended"},
           phase' = [phase EXCEPT ![c] = p],
           phase[c] \notin {"idle", "ended"},
           UNCHANGED <<state, meta, ttl, proc, caller, contact, digit>>,
           fellBack' \in [Calls -> BOOLEAN], hungUp' \in [Calls -> BOOLEAN],
           fault' \in [Calls -> SUBSET FaultKinds]
    PROVE  Core'
  <1>1. \A d \in Calls : phase'[d] = phase[d] \/ (d = c /\ phase'[d] = p)
    BY DEF Core, TypeOK
  <1>2. TypeOK'
    BY DEF Core, TypeOK, Phases
  <1>3. Sequencing'
    BY <1>1 DEF Core, Sequencing
  <1>4. Shape' /\ LastWriter' /\ ReadStillCurrent'
    BY DEF Core, Shape, LastWriter, Quiet, NoWriteLeft, ReadStillCurrent
  <1>5. QED
    BY <1>2, <1>3, <1>4 DEF Core

\* The record is gone: nothing that was read of it counts any more.
LEMMA VanishKeeps ==
    ASSUME Core, NEW c \in Calls, Vanish(c),
           UNCHANGED <<proc, phase, caller, contact, digit, fellBack, hungUp>>,
           fault' \in [Calls -> SUBSET FaultKinds]
    PROVE  Core'
  <1>1. \A d \in Calls : state'[d] = state[d] \/ state'[d] = Absent
    BY DEF Core, TypeOK, Vanish
  <1>2. TypeOK'
    BY DEF Core, TypeOK, Vanish
  <1>3. Shape'
    BY DEF Core, Shape
  <1>4. Sequencing'
    BY <1>1 DEF Core, Sequencing
  <1>5. LastWriter'
    BY <1>1 DEF Core, LastWriter, Quiet, NoWriteLeft, Settled, Absent
  <1>6. ReadStillCurrent'
    BY <1>1 DEF Core, ReadStillCurrent
  <1>7. QED
    BY <1>2, <1>3, <1>4, <1>5, <1>6 DEF Core

\* The process dies: no handler is in flight any more.
LEMMA CrashKeeps ==
    ASSUME Core, Crash
    PROVE  Core'
  <1>1. /\ proc' = [c \in Calls |-> [h \in Handlers |->
                       IF InFlight(c, h) THEN Begin("done") ELSE proc[c][h]]]
        /\ phase' = [c \in Calls |-> IF phase[c] \in {"incoming", "gather"}
                                     THEN "fallback" ELSE phase[c]]
        /\ UNCHANGED <<state, meta, ttl, caller, contact, digit, fellBack, hungUp>>
    BY DEF Crash, record
  <1>2. fault' \in [Calls -> SUBSET FaultKinds]
    BY DEF Crash, Core, TypeOK, FaultKinds
  <1>3. /\ Begin("done") \in Progress
        /\ Begin("done").op = "done" /\ Begin("done").step = "none"
    BY DEF Begin, FirstStep, CallStatus, Progress, Operations, Steps, Absent
  <1>4. \A c \in Calls, h \in Handlers :
            \/ proc'[c][h] = proc[c][h]
            \/ InFlight(c, h) /\ proc'[c][h] = Begin("done")
    BY <1>1
  <1>5. TypeOK'
    BY <1>1, <1>2, <1>3 DEF Core, TypeOK, Phases
  <1>6. Shape'
    <2>1. "none" \in StepsOf("done") /\ \A h \in Handlers : "done" \in OperationsOf(h)
      BY DEF OperationsOf, StepsOf, CallStatus, Handlers
    <2>2. QED
      BY <1>3, <1>4, <2>1 DEF Core, Shape, CallStatus
  <1>7. Sequencing'
    BY <1>1, <1>3, <1>4 DEF Core, Sequencing, InFlight, Handlers, TypeOK
  <1>8. LastWriter'
    BY <1>1, <1>3, <1>4 DEF Core, LastWriter, Quiet, NoWriteLeft, Handlers
  <1>9. ReadStillCurrent'
    BY <1>1, <1>3, <1>4 DEF Core, ReadStillCurrent
  <1>10. QED
    BY <1>5, <1>6, <1>7, <1>8, <1>9 DEF Core

\* Every step preserves Core, action by action.
LEMMA CoreStep == IInv /\ [Next]_vars => Core'
  <1> SUFFICES ASSUME IInv, [Next]_vars PROVE Core'
    OBVIOUS
  <1> USE DEF IInv
  <1>1. ASSUME NEW c \in Calls, NEW h \in Handlers, HandlerStep(c, h)
        PROVE  Core'
    <2>1. CASE RefuseMeta(c, h)
      <3>1. Abandon(c, h) /\ UNCHANGED <<record, caller, history>> /\ InFlight(c, h)
        BY <2>1, AtStep DEF RefuseMeta, Core
      <3>2. QED
        BY <3>1, Abandons DEF Core, TypeOK, record, history
    <2>2. QED
      BY <1>1, <2>1, ReadStateKeeps, RefuseKeeps, ReadMetaKeeps, WriteKeeps, SetExpiryKeeps,
         ReadSettingsKeeps, ReplyKeeps
      DEF HandlerStep
  <1>2. ASSUME NEW c \in Calls, LookupContact(c)
        PROVE  Core'
    BY <1>2, LookupContactKeeps
  <1>3. ASSUME NEW c \in Calls, AnswerFallback(c) \/ CallEnds(c) \/ HangUp(c)
        PROVE  Core'
    <2>1. PICK p \in {"dialing", "fallback", "ended"} :
             /\ phase' = [phase EXCEPT ![c] = p]
             /\ phase[c] \notin {"idle", "ended"}
      BY <1>3 DEF AnswerFallback, CallEnds, HangUp
    <2>2. /\ UNCHANGED <<state, meta, ttl, proc, caller, contact, digit>>
          /\ fellBack' \in [Calls -> BOOLEAN] /\ hungUp' \in [Calls -> BOOLEAN]
          /\ fault' \in [Calls -> SUBSET FaultKinds]
      BY <1>3 DEF AnswerFallback, CallEnds, HangUp, record, history, Core, TypeOK
    <2>3. QED
      BY <2>1, <2>2, PhaseKeeps
  <1>4. ASSUME NEW c \in Calls, WebhookTimeout(c) \/ FallbackUnreachable(c)
        PROVE  Core'
    <2>1. PICK p \in {"dialing", "fallback", "ended"} :
             /\ phase' = [phase EXCEPT ![c] = p]
             /\ phase[c] \notin {"idle", "ended"}
      BY <1>4 DEF WebhookTimeout, FallbackUnreachable
    <2>2. /\ UNCHANGED <<state, meta, ttl, proc, caller, contact, digit, fellBack, hungUp>>
          /\ fault' \in [Calls -> SUBSET FaultKinds]
      BY <1>4, FaultsAssumption
      DEF WebhookTimeout, FallbackUnreachable, Hit, record, Core, TypeOK
    <2>3. fellBack' \in [Calls -> BOOLEAN] /\ hungUp' \in [Calls -> BOOLEAN]
      BY <2>2 DEF Core, TypeOK
    <2>4. QED
      BY <2>1, <2>2, <2>3, PhaseKeeps
  <1>5. ASSUME NEW c \in Calls, IncomingCall(c)
        PROVE  Core'
    BY <1>5, IncomingCallKeeps
  <1>6. ASSUME NEW c \in Calls, NEW d \in {"1", "2", "other"}, Press(c, d)
        PROVE  Core'
    BY <1>6, PressKeeps
  <1>7. ASSUME NEW c \in Calls, NEW s \in {"completed", "failed"}, CallStatusWebhook(c, s)
        PROVE  Core'
    <2>1. PICK o \in {"COMPLETED", "done"} : Goto(c, "status", o)
      BY <1>7 DEF CallStatusWebhook
    <2>2. QED
      BY <1>7, <2>1, StatusKeeps DEF CallStatusWebhook, record, history, Core, TypeOK
  <1>8. ASSUME NEW c \in Calls, StatusUnreachable(c)
        PROVE  Core'
    <2>1. fault' \in [Calls -> SUBSET FaultKinds]
      BY <1>8, FaultsAssumption DEF StatusUnreachable, Hit, Core, TypeOK
    <2>2. QED
      BY <1>8, <2>1, StatusKeeps DEF StatusUnreachable, record
  <1>9. ASSUME NEW c \in Calls, Expire(c) \/ ExpireUnderHandler(c)
        PROVE  Core'
    <2>1. fault' \in [Calls -> SUBSET FaultKinds]
      BY <1>9, FaultsAssumption DEF Expire, ExpireUnderHandler, Hit, history, Core, TypeOK
    <2>2. QED
      BY <1>9, <2>1, VanishKeeps DEF Expire, ExpireUnderHandler, history
  <1>10. ASSUME NEW c \in Calls, NEW h \in Handlers, RedisError(c, h) \/ DatabaseError(c, h)
         PROVE  Core'
    <2>1. InFlight(c, h) /\ Abandon(c, h)
      BY <1>10, AtStep DEF RedisError, DatabaseError, Core
    <2>2. /\ UNCHANGED <<state, meta, caller, contact, digit, fellBack, hungUp>>
          /\ fault' \in [Calls -> SUBSET FaultKinds]
      BY <1>10, FaultsAssumption DEF RedisError, DatabaseError, Hit, record, Core, TypeOK
    <2>3. ttl' = ttl \/ ttl' = [ttl EXCEPT ![c] = Exists(c)]
      BY <1>10 DEF RedisError, DatabaseError, record
    <2>4. TypeOK'
      BY <2>1, <2>2, <2>3, Abandons DEF Core, TypeOK, Exists
    <2>5. QED
      BY <2>1, <2>2, <2>4, Abandons DEF Core
  <1>11. CASE Crash
    BY <1>11, CrashKeeps
  <1>12. CASE UNCHANGED vars
    BY <1>12 DEF vars, Core, TypeOK, Shape, Sequencing, LastWriter, Quiet, NoWriteLeft,
                 ReadStillCurrent
  <1>13. QED
    BY <1>1, <1>2, <1>3, <1>4, <1>5, <1>6, <1>7, <1>8, <1>9, <1>10, <1>11, <1>12
    DEF Next, Backend, Twilio, Failure, Finished

-----------------------------------------------------------------------------
(* Routing, and the dialled calls.                                         *)

\* A call that rings without the fallback has its incoming handler behind it,
\* and was let through by the contact list or by the digit.
Dialled ==
    /\ ScreeningNotBypassed
    /\ \A c \in Calls :
          phase[c] = "dialing" => fellBack[c] \/ proc[c]["incoming"].op = "done"

\* What a step of a handler that keeps its operation, or goes on to o, leaves
\* of the facts Routing and Dialled are about.
LEMMA SameRoute ==
    ASSUME IInv, Dialled, NEW c \in Calls, NEW h \in Handlers, InFlight(c, h),
           UNCHANGED <<caller, contact, digit, fellBack>>,
           \A d \in Calls, k \in Handlers : d # c \/ k # h => proc'[d][k] = proc[d][k],
           proc'[c][h].op # "ready",
           \/ proc'[c][h].op = proc[c][h].op
           \/ proc'[c][h].op \notin {"FORWARDING", "BLOCKING"}
           \/ h # "incoming",
           UNCHANGED state,
           \A d \in Calls :
               phase'[d] = phase[d] \/ (phase[d] \in Handlers /\ phase'[d] = "fallback")
    PROVE  Routing' /\ Dialled'
  <1>1. h = "incoming" => phase[c] \notin {"gathering", "gather"}
    BY DEF IInv, Core, Sequencing, InFlight
  <1>2. Routing'
    BY <1>1 DEF IInv, Routing, InFlight, Handlers
  <1>3. Dialled'
    BY DEF Dialled, ScreeningNotBypassed, Handlers, InFlight
  <1>4. QED
    BY <1>2, <1>3

\* A step to another operation, or out of the handler.
LEMMA GotoRoute ==
    ASSUME IInv, Dialled, NEW c \in Calls, NEW h \in Handlers, InFlight(c, h),
           NEW o \in Operations, o # "ready",
           h # "incoming" \/ o \notin {"FORWARDING", "BLOCKING"},
           Goto(c, h, o), UNCHANGED <<state, caller, contact, digit, fellBack>>,
           \A d \in Calls :
               phase'[d] = phase[d] \/ (phase[d] \in Handlers /\ phase'[d] = "fallback")
    PROVE  Routing' /\ Dialled'
  <1>1. /\ proc'[c][h] = Begin(o) /\ Begin(o).op = o
        /\ \A d \in Calls, k \in Handlers : d # c \/ k # h => proc'[d][k] = proc[d][k]
    BY GotoMoves, BeginFacts DEF IInv, Core
  <1>2. QED
    BY <1>1, SameRoute

\* A handler that gives up rings nobody.
LEMMA AbandonRoute ==
    ASSUME IInv, Dialled, NEW c \in Calls, NEW h \in Handlers, InFlight(c, h), Abandon(c, h),
           UNCHANGED <<state, caller, contact, digit, fellBack>>
    PROVE  Routing' /\ Dialled'
  <1>1. "done" \in Operations
    BY DEF Operations
  <1>2. \A d \in Calls :
            phase'[d] = phase[d] \/ (phase[d] \in Handlers /\ phase'[d] = "fallback")
    BY DEF Abandon, IInv, Core, TypeOK
  <1>3. QED
    BY <1>1, <1>2, GotoRoute DEF Abandon

\* hget: the handler keeps its operation.
LEMMA ReadRoute ==
    ASSUME IInv, Dialled, NEW c \in Calls, NEW h \in Handlers, ReadState(c, h) \/ ReadMeta(c, h)
    PROVE  Routing' /\ Dialled'
  <1>1. InFlight(c, h)
    BY AtStep DEF ReadState, ReadMeta, IInv, Core
  <1>2. proc[c][h] \in Progress
    BY DEF IInv, Core, TypeOK
  <1>3. /\ proc'[c][h].op = proc[c][h].op
        /\ \A d \in Calls, k \in Handlers : d # c \/ k # h => proc'[d][k] = proc[d][k]
    <2>1. CASE ReadState(c, h)
      BY <1>2, <2>1 DEF ReadState, IInv, Core, TypeOK, Progress
    <2>2. CASE ReadMeta(c, h)
      <3> DEFINE g == IF proc[c][h].op = "stir" THEN "attested"
                      ELSE IF meta[c] = Absent THEN "blank" ELSE meta[c]
      <3>1. proc' = [proc EXCEPT ![c][h] = [@ EXCEPT !.step = "write", !.got = g]]
        BY <2>2 DEF ReadMeta
      <3> HIDE DEF g
      <3>2. QED
        BY <1>2, <3>1 DEF IInv, Core, TypeOK, Progress
    <2>3. QED
      BY <2>1, <2>2
  <1>4. UNCHANGED <<state, phase, caller, contact, digit, fellBack>>
    BY DEF ReadState, ReadMeta, record, history
  <1>5. proc[c][h].op # "ready"
    BY <1>1 DEF InFlight
  <1>6. QED
    BY <1>1, <1>3, <1>4, <1>5, SameRoute

\* A refused transition rings nobody.
LEMMA RefuseRoute ==
    ASSUME IInv, Dialled, NEW c \in Calls, NEW h \in Handlers, Refuse(c, h)
    PROVE  Routing' /\ Dialled'
  <1>1. InFlight(c, h)
    BY AtStep DEF Refuse, IInv, Core
  <1>2. UNCHANGED <<state, caller, contact, digit, fellBack>>
    BY DEF Refuse, record, history
  <1>3. CASE h # "status"
    <2>1. Abandon(c, h)
      BY <1>3 DEF Refuse
    <2>2. QED
      BY <1>1, <1>2, <2>1, AbandonRoute
  <1>4. CASE h = "status"
    <2>1. /\ phase' = phase
          /\ proc' = [proc EXCEPT ![c][h] = [@ EXCEPT !.op = "swallowed", !.step = "none",
                                                      !.saw = state[c]]]
      BY <1>4 DEF Refuse
    <2>2. proc[c][h] \in Progress
      BY DEF IInv, Core, TypeOK
    <2>3. /\ proc'[c][h].op = "swallowed"
          /\ \A d \in Calls, k \in Handlers : d # c \/ k # h => proc'[d][k] = proc[d][k]
      BY <2>1, <2>2 DEF IInv, Core, TypeOK, Progress
    <2>4. QED
      BY <1>1, <1>2, <1>4, <2>1, <2>3, SameRoute
  <1>5. QED
    BY <1>3, <1>4

\* A write to the record makes nobody ring.
LEMMA WriteRoute ==
    ASSUME IInv, Dialled, NEW c \in Calls, NEW h \in Handlers, Write(c, h)
    PROVE  Routing' /\ Dialled'
  <1>1. UNCHANGED <<phase, caller, contact, digit, fellBack>> /\ proc[c][h].step = "write"
    BY DEF Write, history
  <1>2. /\ proc'[c][h].op = proc[c][h].op
        /\ \A d \in Calls, k \in Handlers : d # c \/ k # h => proc'[d][k] = proc[d][k]
    BY DEF Write, IInv, Core, TypeOK, Progress
  <1>3. /\ \A d \in Calls : d # c => state'[d] = state[d]
        /\ state'[c] \in Settled => proc[c][h].op \in Settled \/ state[c] \in Settled
    BY DEF Write, IInv, Core, TypeOK, Settled
  <1>4. /\ proc[c][h].op \in OperationsOf(h)
        /\ proc[c][h].op \notin {"ready", "done"}
    BY <1>1 DEF IInv, Core, Shape, StepsOf, CallStatus
  <1>5. h = "incoming" => phase[c] # "gathering"
                          /\ (proc[c][h].op \in Settled => proc[c][h].op \in {"FORWARDING", "BLOCKING"})
    BY <1>4 DEF IInv, Core, Sequencing, OperationsOf, Settled
  <1>6. h # "incoming" => phase[c] \notin {"incoming", "gathering"}
    BY <1>4 DEF IInv, Core, Sequencing, Routing, Handlers
  <1>7. Routing'
    BY <1>1, <1>2, <1>3, <1>5, <1>6 DEF IInv, Routing, Handlers
  <1>8. Dialled'
    BY <1>1, <1>2 DEF Dialled, ScreeningNotBypassed, Handlers
  <1>9. QED
    BY <1>7, <1>8

\* The contact decides the route of the call, before anything is answered.
LEMMA LookupRoute ==
    ASSUME IInv, Dialled, NEW c \in Calls, LookupContact(c)
    PROVE  Routing' /\ Dialled'
  <1>1. PICK kind \in {"none", "whitelist", "blocklist"} :
             /\ contact' = [contact EXCEPT ![c] = kind]
             /\ \E o \in AfterLookup(kind) : Goto(c, "incoming", o)
    BY DEF LookupContact
  <1>2. PICK o \in AfterLookup(kind) : Goto(c, "incoming", o)
    BY <1>1
  <1>3. o \in Operations \ {"ready"} /\ (o \in {"FORWARDING", "BLOCKING"} => kind \in Listed)
    BY DEF AfterLookup, Operations, CallStatus, Listed
  <1>4. /\ proc[c]["incoming"].op = "lookup"
        /\ UNCHANGED <<state, phase, caller, digit, fellBack>>
    BY DEF LookupContact, record
  <1>5. "incoming" \in Handlers /\ "gather" \in Handlers /\ Begin(o).op = o
    BY <1>3, BeginFacts DEF Handlers
  <1>6. /\ proc'[c]["incoming"] = Begin(o)
        /\ \A d \in Calls, k \in Handlers :
              d # c \/ k # "incoming" => proc'[d][k] = proc[d][k]
    BY <1>2, <1>3, <1>5, GotoMoves DEF IInv, Core
  <1>7. state[c] \notin Settled /\ phase[c] \notin {"gathering", "gather"}
    BY <1>4 DEF IInv, Core, LastWriter, Sequencing, Quiet, NoWriteLeft
  <1>8. \A d \in Calls : contact'[d] = IF d = c THEN kind ELSE contact[d]
    BY <1>1 DEF IInv, Core, TypeOK
  <1>9. Routing'
    BY <1>3, <1>4, <1>5, <1>6, <1>7, <1>8 DEF IInv, Routing
  <1>10. phase[c] = "dialing" => fellBack[c]
    BY <1>4 DEF Dialled
  <1>11. Dialled'
    BY <1>4, <1>5, <1>6, <1>8, <1>10 DEF Dialled, ScreeningNotBypassed
  <1>12. QED
    BY <1>9, <1>11

\* Only an answer, to a caller who may get through, makes the callee ring.
LEMMA ReplyRoute ==
    ASSUME IInv, Dialled, NEW c \in Calls, NEW h \in Handlers, Reply(c, h)
    PROVE  Routing' /\ Dialled'
  <1>1. /\ Goto(c, h, "done") /\ proc[c][h].op = "reply"
        /\ UNCHANGED <<state, caller, contact, digit, fellBack>>
    BY DEF Reply, record, history
  <1>2. \A d \in Calls : phase'[d] = phase[d]
             \/ (d = c /\ phase[c] = h /\ phase'[d] = TwiML(c, h))
    BY DEF Reply, IInv, Core, TypeOK
  <1>3. "done" \in Operations
    BY DEF Operations
  <1>4. /\ proc'[c][h] = Begin("done") /\ Begin("done").op = "done"
        /\ \A d \in Calls, k \in Handlers : d # c \/ k # h => proc'[d][k] = proc[d][k]
    BY <1>1, <1>3, GotoMoves, BeginFacts DEF IInv, Core
  <1>5. caller[c] \in {"emergency", "ordinary"} /\ digit[c] \in {"none", "1", "2", "other"}
    BY DEF IInv, Core, TypeOK
  <1>6. CASE h = "incoming"
    <2>1. TwiML(c, h) = "gathering" => contact[c] \notin Listed
      BY <1>6 DEF TwiML, Listed
    <2>2. TwiML(c, h) = "dialing" => caller[c] = "emergency" \/ contact[c] = "whitelist"
      BY <1>6 DEF TwiML
    <2>3. TwiML(c, h) # "incoming"
      BY DEF TwiML
    <2>4. proc[c]["gather"].op = "ready"
      BY <1>1, <1>6 DEF IInv, Core, Sequencing
    <2>5. Routing'
      BY <1>1, <1>2, <1>4, <1>6, <2>1, <2>3, <2>4 DEF IInv, Routing, Handlers
    <2>6. Dialled'
      BY <1>1, <1>2, <1>4, <1>6, <2>2 DEF Dialled, ScreeningNotBypassed, Handlers
    <2>7. QED
      BY <2>5, <2>6
  <1>7. CASE h = "gather"
    <2>1. proc[c]["incoming"].op = "done" /\ digit[c] # "none"
      BY <1>1, <1>7 DEF IInv, Core, Sequencing, Routing
    <2>2. /\ TwiML(c, h) \notin {"gathering", "incoming"}
          /\ TwiML(c, h) = "dialing" => digit[c] = "1"
      BY <1>5, <1>7, <2>1 DEF TwiML
    <2>3. Routing'
      BY <1>1, <1>2, <1>4, <1>7, <2>2 DEF IInv, Routing, Handlers
    <2>4. Dialled'
      BY <1>1, <1>2, <1>4, <1>7, <2>1, <2>2 DEF Dialled, ScreeningNotBypassed, Handlers
    <2>5. QED
      BY <2>3, <2>4
  <1>8. h # "status"
    BY <1>1 DEF IInv, Core, Shape, OperationsOf
  <1>9. QED
    BY <1>6, <1>7, <1>8 DEF Handlers

\* The steps of Twilio that start a handler.
LEMMA StartRoute ==
    ASSUME IInv, Dialled, NEW c \in Calls,
           \/ IncomingCall(c)
           \/ \E d \in {"1", "2", "other"} : Press(c, d)
           \/ \E s \in {"completed", "failed"} : CallStatusWebhook(c, s)
           \/ StatusUnreachable(c)
    PROVE  Routing' /\ Dialled'
  <1>1. CASE IncomingCall(c)
    <2>1. Goto(c, "incoming", IncomingStart(caller[c])) /\ phase[c] = "idle"
          /\ UNCHANGED <<state, caller, contact, digit, fellBack>>
      BY <1>1 DEF IncomingCall, record, history
    <2>2. IncomingStart(caller[c]) \in {"create", "reply"}
      BY DEF IncomingStart
    <2>3. "incoming" \in Handlers /\ IncomingStart(caller[c]) \in Operations
      BY <2>2 DEF Handlers, Operations
    <2>4. /\ proc'[c]["incoming"] = Begin(IncomingStart(caller[c]))
          /\ Begin(IncomingStart(caller[c])).op \notin {"FORWARDING", "BLOCKING"}
          /\ \A d \in Calls, k \in Handlers :
                d # c \/ k # "incoming" => proc'[d][k] = proc[d][k]
      BY <2>1, <2>2, <2>3, GotoMoves, BeginFacts DEF IInv, Core
    <2>5. \A d \in Calls : phase'[d] = IF d = c THEN "incoming" ELSE phase[d]
      BY <1>1 DEF IncomingCall, IInv, Core, TypeOK
    <2>6. state[c] = Absent /\ proc[c]["gather"].op = "ready"
      BY <2>1 DEF IInv, Core, Sequencing
    <2>7. Routing'
      BY <2>1, <2>4, <2>5, <2>6 DEF IInv, Routing, Handlers, Settled, Absent
    <2>8. Dialled'
      BY <2>1, <2>4, <2>5 DEF Dialled, ScreeningNotBypassed, Handlers
    <2>9. QED
      BY <2>7, <2>8
  <1>2. ASSUME NEW d \in {"1", "2", "other"}, Press(c, d)
        PROVE  Routing' /\ Dialled'
    <2>1. /\ Goto(c, "gather", GatherStart(d)) /\ phase[c] = "gathering"
          /\ UNCHANGED <<state, caller, contact, fellBack>>
      BY <1>2 DEF Press, record
    <2>2. "gather" \in Handlers /\ GatherStart(d) \in Operations
      BY DEF Handlers, Operations, GatherStart, CallStatus
    <2>3. \A e \in Calls, k \in Handlers : e # c \/ k # "gather" => proc'[e][k] = proc[e][k]
      BY <2>1, <2>2, GotoMoves DEF IInv, Core
    <2>4. \A e \in Calls : /\ phase'[e] = IF e = c THEN "gather" ELSE phase[e]
                           /\ digit'[e] = IF e = c THEN d ELSE digit[e]
      BY <1>2 DEF Press, IInv, Core, TypeOK
    <2>5. Routing'
      BY <2>1, <2>3, <2>4 DEF IInv, Routing, Handlers
    <2>6. Dialled'
      BY <2>1, <2>3, <2>4 DEF Dialled, ScreeningNotBypassed, Handlers
    <2>7. QED
      BY <2>5, <2>6
  <1>3. ASSUME \/ \E s \in {"completed", "failed"} : CallStatusWebhook(c, s)
               \/ StatusUnreachable(c)
        PROVE  Routing' /\ Dialled'
    <2>1. PICK o \in {"COMPLETED", "done"} : Goto(c, "status", o)
      BY <1>3 DEF CallStatusWebhook, StatusUnreachable
    <2>2. UNCHANGED <<state, phase, caller, contact, digit, fellBack>>
      BY <1>3 DEF CallStatusWebhook, StatusUnreachable, record, history
    <2>3. "status" \in Handlers /\ o \in Operations
      BY DEF Handlers, Operations, CallStatus
    <2>4. \A e \in Calls, k \in Handlers : e # c \/ k # "status" => proc'[e][k] = proc[e][k]
      BY <2>1, <2>3, GotoMoves DEF IInv, Core
    <2>5. QED
      BY <2>2, <2>4 DEF IInv, Routing, Dialled, ScreeningNotBypassed, Handlers
  <1>4. QED
    BY <1>1, <1>2, <1>3

\* Steps that leave the handlers alone, or only stop them.
LEMMA PhaseRoute ==
    ASSUME IInv, Dialled,
           UNCHANGED <<caller, contact, digit>>,
           \A c \in Calls, h \in Handlers :
               proc'[c][h] = proc[c][h]
                   \/ (proc'[c][h].op = "done" /\ proc[c][h].op # "ready"),
           \A c \in Calls : fellBack[c] => fellBack'[c],
           \A c \in Calls : state'[c] = state[c] \/ state'[c] = Absent,
           \A c \in Calls : \/ phase'[c] = phase[c]
                            \/ phase'[c] \in {"fallback", "ended"}
                            \/ phase'[c] = "dialing" /\ fellBack'[c]
    PROVE  Routing' /\ Dialled'
  <1>1. Absent \notin Settled
    BY DEF Absent, Settled
  <1>2. Routing'
    BY <1>1 DEF IInv, Routing, Handlers
  <1>3. Dialled'
    BY DEF Dialled, ScreeningNotBypassed, Handlers
  <1>4. QED
    BY <1>2, <1>3

\* Every step preserves Routing, action by action.
LEMMA RouteStep == IInv /\ Dialled /\ [Next]_vars => Routing' /\ Dialled'
  <1> SUFFICES ASSUME IInv, Dialled, [Next]_vars PROVE Routing' /\ Dialled'
    OBVIOUS
  <1>1. ASSUME NEW c \in Calls, NEW h \in Handlers, HandlerStep(c, h)
        PROVE  Routing' /\ Dialled'
    <2>1. CASE RefuseMeta(c, h)
      <3>1. /\ InFlight(c, h) /\ Abandon(c, h)
            /\ UNCHANGED <<state, caller, contact, digit, fellBack>>
        BY <2>1, AtStep DEF RefuseMeta, IInv, Core, record, history
      <3>2. QED
        BY <3>1, AbandonRoute
    <2>2. CASE SetExpiry(c, h) \/ ReadSettings(c, h)
      <3>1. /\ InFlight(c, h) /\ Goto(c, h, NextOperation(c, h))
            /\ UNCHANGED <<state, phase, caller, contact, digit, fellBack>>
        BY <2>2, AtStep DEF SetExpiry, ReadSettings, IInv, Core, record, history
      <3>2. NextOperation(c, h) \in OperationsOf(h) \ {"ready"}
        BY <2>2, NextFacts DEF SetExpiry, ReadSettings, IInv, Core
      <3>3. h # "incoming" \/ NextOperation(c, h) \notin {"FORWARDING", "BLOCKING"}
        BY DEF NextOperation, AfterIncoming
      <3>4. NextOperation(c, h) \in Operations /\ NextOperation(c, h) # "ready"
        BY <3>2, OperationsFacts
      <3> HIDE DEF NextOperation
      <3>5. QED
        BY <3>1, <3>3, <3>4, GotoRoute
    <2>3. QED
      BY <1>1, <2>1, <2>2, ReadRoute, RefuseRoute, WriteRoute, ReplyRoute DEF HandlerStep
  <1>2. ASSUME NEW c \in Calls, LookupContact(c)
        PROVE  Routing' /\ Dialled'
    BY <1>2, LookupRoute
  <1>3. ASSUME NEW c \in Calls, AnswerFallback(c)
        PROVE  Routing' /\ Dialled'
    BY <1>3, PhaseRoute DEF AnswerFallback, record, IInv, Core, TypeOK
  <1>4. ASSUME NEW c \in Calls, \/ CallEnds(c) \/ HangUp(c)
                                \/ WebhookTimeout(c) \/ FallbackUnreachable(c)
        PROVE  Routing' /\ Dialled'
    <2>1. UNCHANGED <<state, proc, caller, contact, digit, fellBack>>
      BY <1>4 DEF CallEnds, HangUp, WebhookTimeout, FallbackUnreachable, record, history
    <2>2. \A d \in Calls : phase'[d] = phase[d] \/ phase'[d] \in {"fallback", "ended"}
      BY <1>4 DEF CallEnds, HangUp, WebhookTimeout, FallbackUnreachable, IInv, Core, TypeOK
    <2>3. QED
      BY <2>1, <2>2, PhaseRoute
  <1>5. ASSUME NEW c \in Calls,
               \/ IncomingCall(c)
               \/ \E d \in {"1", "2", "other"} : Press(c, d)
               \/ \E s \in {"completed", "failed"} : CallStatusWebhook(c, s)
               \/ StatusUnreachable(c)
        PROVE  Routing' /\ Dialled'
    BY <1>5, StartRoute
  <1>6. ASSUME NEW c \in Calls, Expire(c) \/ ExpireUnderHandler(c)
        PROVE  Routing' /\ Dialled'
    <2>1. \A d \in Calls : state'[d] = state[d] \/ state'[d] = Absent
      BY <1>6 DEF Expire, ExpireUnderHandler, Vanish, IInv, Core, TypeOK
    <2>2. UNCHANGED <<proc, phase, caller, contact, digit, fellBack>>
      BY <1>6 DEF Expire, ExpireUnderHandler, history
    <2>3. QED
      BY <2>1, <2>2, PhaseRoute
  <1>7. ASSUME NEW c \in Calls, NEW h \in Handlers, RedisError(c, h) \/ DatabaseError(c, h)
        PROVE  Routing' /\ Dialled'
    <2>1. InFlight(c, h) /\ Abandon(c, h)
      BY <1>7, AtStep DEF RedisError, DatabaseError, IInv, Core
    <2>2. UNCHANGED <<state, caller, contact, digit, fellBack>>
      BY <1>7 DEF RedisError, DatabaseError, record
    <2>3. QED
      BY <2>1, <2>2, AbandonRoute
  <1>8. CASE Crash
    <2>1. /\ UNCHANGED <<state, caller, contact, digit, fellBack>>
          /\ \A c \in Calls : phase'[c] = phase[c] \/ phase'[c] \in {"fallback", "ended"}
      BY <1>8 DEF Crash, record
    <2>2. Begin("done").op = "done"
      BY DEF Begin
    <2>3. \A c \in Calls, h \in Handlers :
             proc'[c][h] = proc[c][h]
                 \/ (proc'[c][h].op = "done" /\ proc[c][h].op # "ready")
      BY <1>8, <2>2 DEF Crash, InFlight
    <2>4. QED
      BY <2>1, <2>3, PhaseRoute
  <1>9. CASE UNCHANGED vars
    BY <1>9 DEF vars, IInv, Routing, Dialled, ScreeningNotBypassed
  <1>10. QED
    BY <1>1, <1>2, <1>3, <1>4, <1>5, <1>6, <1>7, <1>8, <1>9
    DEF Next, Backend, Twilio, Failure, Finished

\* The invariant holds before the first call.
LEMMA InitIInv == Init => IInv /\ Dialled
  <1> SUFFICES ASSUME Init PROVE IInv /\ Dialled
    OBVIOUS
  <1>1. /\ Begin("ready").op = "ready" /\ Begin("ready").step = "none"
        /\ Begin("ready") \in Progress
    BY DEF Begin, FirstStep, CallStatus, Progress, Operations, Steps, Absent
  <1>2. \A c \in Calls, h \in Handlers : proc[c][h] = Begin("ready")
    BY DEF Init
  <1>3. TypeOK
    BY <1>1 DEF Init, TypeOK, Phases
  <1>4. Shape
    <2>1. "none" \in StepsOf("ready") /\ \A h \in Handlers : "ready" \in OperationsOf(h)
      BY DEF StepsOf, OperationsOf, CallStatus, Handlers
    <2>2. QED
      BY <1>1, <1>2, <2>1 DEF Shape, CallStatus
  <1>5. Sequencing /\ LastWriter /\ ReadStillCurrent
    BY <1>1, <1>2
    DEF Init, Sequencing, LastWriter, Quiet, NoWriteLeft, ReadStillCurrent, Settled, Absent,
        Handlers
  <1>6. Routing /\ Dialled
    BY <1>1, <1>2 DEF Init, Routing, Dialled, ScreeningNotBypassed, Settled, Absent, Handlers
  <1>7. QED
    BY <1>3, <1>4, <1>5, <1>6 DEF IInv, Core

\* IInv and Dialled are an inductive invariant.
LEMMA Invariance == SafeSpec => [](IInv /\ Dialled)
  <1>1. Init => IInv /\ Dialled
    BY InitIInv
  <1>2. (IInv /\ Dialled) /\ [Next]_vars => (IInv /\ Dialled)'
    BY CoreStep, RouteStep DEF IInv
  <1>3. QED
    BY <1>1, <1>2, PTL DEF SafeSpec

-----------------------------------------------------------------------------
(* The theorems.                                                           *)

\* Every variable keeps its type, and a record always has metadata.
THEOREM TypeCorrect == SafeSpec => []TypeOK
  <1>1. IInv /\ Dialled => TypeOK
    BY DEF IInv, Core
  <1>2. QED
    BY <1>1, Invariance, PTL

\* The unlocked check-then-write of CallStateMachine.transition is never
\* overtaken: what a handler read is still there, or expired, when it writes.
THEOREM ReadsAreCurrent == SafeSpec => []ReadStillCurrent
  <1>1. IInv /\ Dialled => ReadStillCurrent
    BY DEF IInv, Core
  <1>2. QED
    BY <1>1, Invariance, PTL

\* The phone rings only for those the screening let through.
THEOREM ScreeningHolds == SafeSpec => []ScreeningNotBypassed
  <1>1. IInv /\ Dialled => ScreeningNotBypassed
    BY DEF Dialled
  <1>2. QED
    BY <1>1, Invariance, PTL

\* Only hset and expiry change the state in a record.
LEMMA StateSteps ==
    [Next]_vars => \/ \E c \in Calls, h \in Handlers : Write(c, h)
                   \/ \E c \in Calls : Vanish(c)
                   \/ UNCHANGED state
  <1>1. ASSUME NEW c \in Calls, NEW h \in Handlers, HandlerStep(c, h)
        PROVE  Write(c, h) \/ UNCHANGED state
    BY <1>1 DEF HandlerStep, ReadState, Refuse, ReadMeta, RefuseMeta, SetExpiry, ReadSettings,
                Reply, record
  <1>2. ASSUME NEW c \in Calls, LookupContact(c) \/ AnswerFallback(c) \/ Twilio(c)
        PROVE  UNCHANGED state
    BY <1>2 DEF LookupContact, AnswerFallback, Twilio, IncomingCall, Press, CallEnds, HangUp,
                CallStatusWebhook, record
  <1>3. ASSUME NEW c \in Calls, Expire(c) \/ Failure(c)
        PROVE  Vanish(c) \/ UNCHANGED state
    BY <1>3 DEF Expire, Failure, RedisError, DatabaseError, WebhookTimeout, ExpireUnderHandler,
                FallbackUnreachable, StatusUnreachable, record
  <1>4. Crash \/ UNCHANGED vars => UNCHANGED state
    BY DEF Crash, record, vars
  <1>5. QED
    BY <1>1, <1>2, <1>3, <1>4 DEF Next, Backend, Finished

\* Every change of an existing record follows ALLOWED_TRANSITIONS.
THEOREM TableObeyed == SafeSpec => AllowedSteps
  <1> DEFINE Allowed == \A c \in Calls :
          state[c] # Absent /\ state'[c] # Absent /\ state'[c] # state[c]
              => state'[c] \in AllowedTransitions[state[c]]
  <1>1. IInv /\ [Next]_vars => [Allowed]_state
    <2> SUFFICES ASSUME IInv, [Next]_vars, UNCHANGED state => FALSE
                 PROVE  Allowed
      OBVIOUS
    <2>1. ASSUME NEW c \in Calls, NEW h \in Handlers, Write(c, h)
          PROVE  Allowed
      <3>1. proc[c][h].step = "write" /\ state \in [Calls -> CallStatus \cup {Absent}]
        BY <2>1 DEF Write, IInv, Core, TypeOK
      <3>2. CASE proc[c][h].op = "create"
        <4>1. h = "incoming"
          BY <3>2 DEF IInv, Core, Shape, OperationsOf, Handlers
        <4>2. state[c] = Absent
          BY <3>1, <3>2, <4>1 DEF IInv, Core, Sequencing
        <4>3. \A d \in Calls : d # c => state'[d] = state[d]
          BY <2>1, <3>1 DEF Write
        <4>4. QED
          BY <4>2, <4>3
      <3>3. CASE proc[c][h].op = "stir"
        BY <2>1, <3>3 DEF Write
      <3>4. CASE proc[c][h].op \in CallStatus
        <4>1. state' = [state EXCEPT ![c] = proc[c][h].op]
          BY <2>1, <3>4 DEF Write, CallStatus
        <4>2. /\ proc[c][h].op \in AllowedTransitions[proc[c][h].saw]
              /\ state[c] \in {proc[c][h].saw, Absent}
          BY <3>1, <3>4 DEF IInv, Core, Shape, ReadStillCurrent
        <4>3. QED
          BY <3>1, <4>1, <4>2
      <3>5. QED
        BY <3>1, <3>2, <3>3, <3>4 DEF IInv, Core, Shape, StepsOf
    <2>2. ASSUME NEW c \in Calls, Vanish(c)
          PROVE  Allowed
      BY <2>2 DEF Vanish, IInv, Core, TypeOK
    <2>3. \/ \E c \in Calls, h \in Handlers : Write(c, h)
          \/ \E c \in Calls : Vanish(c)
          \/ UNCHANGED state
      BY StateSteps
    <2>4. QED
      BY <2>1, <2>2, <2>3
  <1>2. QED
    BY <1>1, Invariance, PTL DEF AllowedSteps, SafeSpec

-----------------------------------------------------------------------------
(***************************************************************************)
(* Webhooks implements CallLifecycle, the attestation is never lost, the   *)
(* record tells what Twilio does with the call, and only failures lead to  *)
(* the fallback, from the same inductive invariant.                        *)
(***************************************************************************)

\* What else is kept: a record that is not created yet has no metadata; a
\* webhook of a live call writes only into a record that is there, unless it
\* stalled; metadata that are about to be written back are not out of date.
Kept(c) ==
    /\ NotYetCreated(c) => meta[c] = Absent
    /\ \A h \in {"incoming", "gather"} :
          /\ "stall" \notin fault[c]
          /\ proc[c][h].op \in CallStatus /\ proc[c][h].step \in {"meta", "write"}
          => state[c] # Absent
    /\ \A h \in Handlers : proc[c][h].step = "write" =>
          /\ proc[c][h].op = "stir" => proc[c][h].got = "attested"
          /\ proc[c][h].op \in CallStatus /\ meta[c] = "attested" => proc[c][h].got = "attested"

Upkeep == \A c \in Calls : Kept(c)

Inv == IInv /\ Dialled /\ Upkeep

-----------------------------------------------------------------------------
(* What a step does to a call.                                             *)

StepOf(c) == Backend(c) \/ Twilio(c) \/ Expire(c) \/ Failure(c)

\* Nothing happens to call c.
Same(c) == /\ state'[c] = state[c] /\ meta'[c] = meta[c] /\ fault'[c] = fault[c]
           /\ phase'[c] = phase[c] /\ proc'[c] = proc[c]

\* The record stays, it is no more to be created than before, and no handler
\* has read anything of it.
Calm(c) ==
    /\ state'[c] = state[c] /\ meta'[c] = meta[c]
    /\ "stall" \in fault'[c] <=> "stall" \in fault[c]
    /\ NotYetCreated(c)' => NotYetCreated(c)
    /\ \A h \in Handlers :
          \/ proc'[c][h] = proc[c][h]
          \/ proc'[c][h].step \notin {"meta", "write"}
          \/ proc'[c][h].op = "stir" /\ proc'[c][h].step = "meta"

\* A step of one call leaves the others alone.
LEMMA Frame ==
    ASSUME TypeOK, NEW c \in Calls, StepOf(c), NEW d \in Calls, d # c
    PROVE  Same(d)
  <1>1. ASSUME NEW h \in Handlers, HandlerStep(c, h)
        PROVE  Same(d)
    BY <1>1 DEF HandlerStep, ReadState, Refuse, ReadMeta, RefuseMeta, Write, SetExpiry,
                ReadSettings, Reply, Abandon, Goto, Same, TypeOK, record, history
  <1>2. CASE LookupContact(c) \/ AnswerFallback(c)
    BY <1>2 DEF LookupContact, AnswerFallback, Goto, Same, TypeOK, record
  <1>3. CASE Twilio(c)
    BY <1>3 DEF Twilio, IncomingCall, Press, CallEnds, HangUp, CallStatusWebhook, Goto, Same,
                TypeOK, record, history
  <1>4. CASE Expire(c)
    BY <1>4 DEF Expire, Vanish, Same, TypeOK, history
  <1>5. CASE Failure(c)
    BY <1>5 DEF Failure, RedisError, DatabaseError, WebhookTimeout, ExpireUnderHandler,
                FallbackUnreachable, StatusUnreachable, Hit, Vanish, Abandon, Goto, Same,
                TypeOK, record
  <1> QED BY <1>1, <1>2, <1>3, <1>4, <1>5 DEF StepOf, Backend

\* A call to which nothing happens is calm.
LEMMA SameIsCalm ==
    ASSUME NEW c \in Calls, Same(c)
    PROVE  Calm(c)
  BY DEF Same, Calm, NotYetCreated

\* A handler that goes on to another operation leaves its call calm.
LEMMA GotoIsCalm ==
    ASSUME Core, NEW c \in Calls, NEW h \in Handlers,
           NEW o \in Operations, o # "create", Goto(c, h, o),
           state'[c] = state[c], meta'[c] = meta[c],
           "stall" \in fault'[c] <=> "stall" \in fault[c],
           phase'[c] = "idle" => phase[c] = "idle"
    PROVE  Calm(c)
  <1>1. /\ proc'[c][h] = Begin(o)
        /\ \A k \in Handlers : k # h => proc'[c][k] = proc[c][k]
    BY GotoMoves DEF Core
  <1>2. Begin(o).op = o /\ Begin(o).step # "write" /\ (Begin(o).step = "meta" => o = "stir")
    BY BeginFacts
  <1>3. NotYetCreated(c)' => NotYetCreated(c)
    BY <1>1, <1>2 DEF NotYetCreated, Handlers
  <1> QED BY <1>1, <1>2, <1>3 DEF Calm

\* A handler that gives up leaves its call calm.
LEMMA AbandonIsCalm ==
    ASSUME Core, NEW c \in Calls, NEW h \in Handlers, Abandon(c, h),
           state'[c] = state[c], meta'[c] = meta[c],
           "stall" \in fault'[c] <=> "stall" \in fault[c]
    PROVE  Calm(c)
  <1>1. Goto(c, h, "done") /\ "done" \in Operations
    BY DEF Abandon, Operations
  <1>2. phase'[c] = "idle" => phase[c] = "idle"
    BY DEF Abandon, Core, TypeOK
  <1> QED BY <1>1, <1>2, GotoIsCalm

\* The steps of the handlers other than those that read or write the record.
LEMMA HandlerIsCalm ==
    ASSUME Core, NEW c \in Calls, NEW h \in Handlers,
           \/ Refuse(c, h) \/ RefuseMeta(c, h) \/ SetExpiry(c, h)
           \/ ReadSettings(c, h) \/ Reply(c, h)
    PROVE  Calm(c)
  <1>1. CASE Refuse(c, h)
    <2>1. UNCHANGED <<state, meta, fault>>
      BY <1>1 DEF Refuse, record, history
    <2>2. CASE Abandon(c, h)
      BY <2>1, <2>2, AbandonIsCalm
    <2>3. CASE ~ Abandon(c, h)
      <3> DEFINE r == [proc[c][h] EXCEPT !.op = "swallowed", !.step = "none", !.saw = state[c]]
      <3>1. proc' = [proc EXCEPT ![c][h] = r] /\ phase' = phase
        BY <1>1, <2>3 DEF Refuse
      <3>2. proc[c][h] \in Progress /\ state[c] \in CallStatus \cup {Absent}
        BY DEF Core, TypeOK
      <3>3. r \in Progress /\ r.step = "none"
        BY <3>2 DEF Progress, Steps, Operations
      <3> HIDE DEF r
      <3>4. proc'[c][h] = r /\ \A k \in Handlers : k # h => proc'[c][k] = proc[c][k]
        BY <3>1, <3>3, Moves DEF Core, TypeOK
      <3> QED BY <2>1, <3>1, <3>3, <3>4 DEF Calm, NotYetCreated, Handlers
    <2> QED BY <2>2, <2>3
  <1>2. CASE RefuseMeta(c, h)
    BY <1>2, AbandonIsCalm DEF RefuseMeta, record, history
  <1>3. CASE SetExpiry(c, h) \/ ReadSettings(c, h)
    <2>1. NextOperation(c, h) \in Operations /\ NextOperation(c, h) # "create"
      BY <1>3, NextFacts, OperationsFacts DEF SetExpiry, ReadSettings, Core
    <2>2. Goto(c, h, NextOperation(c, h)) /\ UNCHANGED <<state, meta, fault, phase>>
      BY <1>3 DEF SetExpiry, ReadSettings, record, history
    <2> HIDE DEF NextOperation
    <2> QED BY <2>1, <2>2, GotoIsCalm
  <1>4. CASE Reply(c, h)
    <2>1. Goto(c, h, "done") /\ "done" \in Operations
      BY <1>4 DEF Reply, Operations
    <2>2. UNCHANGED <<state, meta, fault>>
      BY <1>4 DEF Reply, record, history
    <2>3. phase'[c] = "idle" => phase[c] = "idle"
      BY <1>4 DEF Reply, TwiML, Core, TypeOK
    <2> QED BY <2>1, <2>2, <2>3, GotoIsCalm
  <1> QED BY <1>1, <1>2, <1>3, <1>4

\* The other steps of the backend, of Twilio and of the failures, but for the
\* first webhook and the expiry of the record.
LEMMA OthersAreCalm ==
    ASSUME Core, NEW c \in Calls,
           \/ LookupContact(c) \/ AnswerFallback(c) \/ (Twilio(c) /\ ~ IncomingCall(c))
           \/ (Failure(c) /\ ~ ExpireUnderHandler(c))
    PROVE  Calm(c)
  <1>1. CASE LookupContact(c)
    <2>1. PICK kind \in {"none", "whitelist", "blocklist"} :
             \E o \in AfterLookup(kind) : Goto(c, "incoming", o)
      BY <1>1 DEF LookupContact
    <2>2. PICK o \in AfterLookup(kind) : Goto(c, "incoming", o)
      BY <2>1
    <2>3. UNCHANGED <<state, meta, fault, phase>>
      BY <1>1 DEF LookupContact, record
    <2>4. o \in Operations /\ o # "create" /\ "incoming" \in Handlers
      BY DEF AfterLookup, Operations, CallStatus, Handlers
    <2> QED BY <2>2, <2>3, <2>4, GotoIsCalm
  <1>2. CASE AnswerFallback(c) \/ CallEnds(c) \/ HangUp(c)
    <2>1. /\ UNCHANGED <<state, meta, fault, proc>>
          /\ phase'[c] # "idle"
      BY <1>2 DEF AnswerFallback, CallEnds, HangUp, record, history, Core, TypeOK
    <2> QED BY <2>1 DEF Calm, NotYetCreated
  <1>3. ASSUME NEW d \in {"1", "2", "other"}, Press(c, d)
        PROVE  Calm(c)
    <2>1. Goto(c, "gather", GatherStart(d)) /\ UNCHANGED <<state, meta, fault>>
      BY <1>3 DEF Press, record
    <2>2. phase'[c] # "idle"
      BY <1>3 DEF Press, Core, TypeOK
    <2>3. GatherStart(d) \in Operations /\ GatherStart(d) # "create" /\ "gather" \in Handlers
      BY DEF GatherStart, Operations, CallStatus, Handlers
    <2> HIDE DEF GatherStart
    <2> QED BY <2>1, <2>2, <2>3, GotoIsCalm
  <1>4. ASSUME NEW o \in {"COMPLETED", "done"}, Goto(c, "status", o),
               UNCHANGED <<state, meta, phase>>, "stall" \in fault'[c] <=> "stall" \in fault[c]
        PROVE  Calm(c)
    <2>1. o \in Operations /\ o # "create" /\ "status" \in Handlers
      BY DEF Operations, CallStatus, Handlers
    <2> QED BY <1>4, <2>1, GotoIsCalm
  <1>5. ASSUME NEW s \in {"completed", "failed"}, CallStatusWebhook(c, s)
        PROVE  Calm(c)
    BY <1>4, <1>5 DEF CallStatusWebhook, record, history
  <1>6. ASSUME NEW f \in {"redis", "db", "timeout", "crash"}, Hit(c, f)
        PROVE  "stall" \in fault'[c] <=> "stall" \in fault[c]
    BY <1>6 DEF Hit, Core, TypeOK
  <1>7. ASSUME NEW h \in Handlers, RedisError(c, h) \/ DatabaseError(c, h)
        PROVE  Calm(c)
    <2>1. Abandon(c, h) /\ (Hit(c, "redis") \/ Hit(c, "db")) /\ UNCHANGED <<state, meta>>
      BY <1>7 DEF RedisError, DatabaseError, record
    <2> QED BY <2>1, <1>6, AbandonIsCalm
  <1>8. CASE WebhookTimeout(c) \/ FallbackUnreachable(c)
    <2>1. /\ UNCHANGED <<state, meta, proc>> /\ (Hit(c, "timeout") \/ Hit(c, "crash"))
          /\ phase'[c] # "idle"
      BY <1>8 DEF WebhookTimeout, FallbackUnreachable, record, Core, TypeOK
    <2> QED BY <2>1, <1>6 DEF Calm, NotYetCreated
  <1>9. CASE StatusUnreachable(c)
    <2>1. Hit(c, "crash") /\ Goto(c, "status", "done") /\ UNCHANGED <<state, meta, phase>>
      BY <1>9 DEF StatusUnreachable, record
    <2> QED BY <2>1, <1>4, <1>6
  <1> QED BY <1>1, <1>2, <1>3, <1>5, <1>7, <1>8, <1>9 DEF Twilio, Failure

\* A crash ends handlers and loses calls, and leaves the records alone.
LEMMA CrashIsCalm ==
    ASSUME Core, Crash, NEW c \in Calls
    PROVE  Calm(c)
  <1>1. UNCHANGED <<state, meta>>
    BY DEF Crash, record
  <1>2. "stall" \in fault'[c] <=> "stall" \in fault[c]
    BY DEF Crash, Core, TypeOK
  <1>3. phase'[c] = "idle" => phase[c] = "idle"
    BY DEF Crash, Core, TypeOK
  <1>4. Begin("done").op = "done" /\ Begin("done").step = "none"
    BY DEF Begin, FirstStep, CallStatus
  <1>5. \A h \in Handlers : proc'[c][h] = proc[c][h] \/ proc'[c][h] = Begin("done")
    BY DEF Crash
  <1> QED BY <1>1, <1>2, <1>3, <1>4, <1>5 DEF Calm, NotYetCreated, Handlers

\* What a step does to one call.
LEMMA Classify ==
    ASSUME Core, [Next]_vars, NEW c \in Calls
    PROVE  \/ \E h \in Handlers : ReadState(c, h) \/ ReadMeta(c, h) \/ Write(c, h)
           \/ IncomingCall(c) \/ Expire(c) \/ ExpireUnderHandler(c)
           \/ Calm(c)
  <1>1. ASSUME NEW d \in Calls, StepOf(d), d # c
        PROVE  Calm(c)
    BY <1>1, Frame, SameIsCalm DEF Core
  <1>2. CASE StepOf(c)
    <2>1. ASSUME NEW h \in Handlers, HandlerStep(c, h)
          PROVE  ReadState(c, h) \/ ReadMeta(c, h) \/ Write(c, h) \/ Calm(c)
      BY <2>1, HandlerIsCalm DEF HandlerStep
    <2> QED BY <1>2, <2>1, OthersAreCalm DEF StepOf, Backend, Twilio, Failure
  <1>3. CASE Crash
    BY <1>3, CrashIsCalm
  <1>4. CASE UNCHANGED vars
    BY <1>4, SameIsCalm DEF vars, Same
  <1> QED BY <1>1, <1>2, <1>3, <1>4 DEF Next, StepOf, Finished

\* Every change of the record of c that is not calm: what it reads, what it
\* writes, and what is there before and after.
LEMMA WriteFacts ==
    ASSUME Inv, NEW c \in Calls, NEW h \in Handlers, Write(c, h)
    PROVE  /\ proc'[c][h].op = proc[c][h].op /\ proc'[c][h].step = "expire"
           /\ \A k \in Handlers : k # h => proc'[c][k] = proc[c][k]
           /\ \A k \in Handlers : k # h /\ proc[c][k].step = "write" => proc[c][k].op \notin CallStatus
           /\ phase[c] # "idle" /\ phase'[c] = phase[c] /\ fault'[c] = fault[c]
           /\ ~ NotYetCreated(c)'
           /\ proc[c][h].op = "create" =>
                 /\ NotYetCreated(c) /\ state[c] = Absent
                 /\ state'[c] = "INCOMING" /\ meta'[c] = "plain"
           /\ proc[c][h].op # "create" =>
                 /\ proc[c][h].op \in CallStatus \cup {"stir"}
                 /\ ~ NotYetCreated(c)
                 /\ state'[c] = IF proc[c][h].op = "stir" THEN state[c] ELSE proc[c][h].op
                 /\ meta'[c] = proc[c][h].got
  <1> DEFINE o == proc[c][h].op
             r == [proc[c][h] EXCEPT !.step = "expire"]
  <1>1. /\ proc[c][h] \in Progress /\ proc[c][h].step = "write"
        /\ o \in OperationsOf(h) /\ o \in CallStatus \cup {"create", "stir"}
    BY DEF Inv, IInv, Core, TypeOK, Shape, StepsOf, Write
  <1>2. proc' = [proc EXCEPT ![c][h] = r] /\ UNCHANGED <<phase, fault>>
    BY DEF Write, history
  <1>3. r \in Progress /\ r.op = o /\ r.step = "expire"
    BY <1>1 DEF Progress, Steps
  <1> HIDE DEF r
  <1>4. proc'[c][h] = r /\ \A k \in Handlers : k # h => proc'[c][k] = proc[c][k]
    BY <1>2, <1>3, Moves DEF Inv, IInv, Core, TypeOK
  <1>5. /\ h = "gather" => proc[c]["incoming"].op = "done"
        /\ h = "incoming" => proc[c]["gather"].op = "ready"
        /\ h = "status" => Quiet(c)
        /\ h # "status" => proc[c]["status"].step # "write"
    <2>1. o \notin {"ready", "done"}
      BY <1>1 DEF CallStatus
    <2>2. h \in Handlers \ {"status"} => ~Quiet(c)
      BY <1>1 DEF Handlers, Quiet, NoWriteLeft, CallStatus
    <2> QED BY <1>1, <2>1, <2>2 DEF Inv, IInv, Core, Sequencing, LastWriter, Handlers
  <1>6. \A k \in Handlers : k # h /\ proc[c][k].step = "write" => proc[c][k].op \notin CallStatus
    <2>1. "ready" \notin CallStatus /\ "done" \notin CallStatus
      BY DEF CallStatus
    <2> QED BY <1>5, <2>1 DEF Handlers, Quiet, NoWriteLeft, CallStatus
  <1>7. phase[c] # "idle"
    BY <1>1, <1>5 DEF Inv, IInv, Core, Sequencing, Handlers, CallStatus
  <1>8. o = "create" => h = "incoming"
    BY <1>1 DEF OperationsOf, Handlers
  <1>9. h # "incoming" => proc[c]["incoming"].op # "create"
    BY <1>5 DEF Handlers, Quiet, NoWriteLeft
  <1>10. ~ NotYetCreated(c)'
    BY <1>2, <1>3, <1>4, <1>7, <1>9 DEF NotYetCreated, Handlers
  <1>11. o = "create" => /\ NotYetCreated(c) /\ state[c] = Absent
                         /\ state'[c] = "INCOMING" /\ meta'[c] = "plain"
    BY <1>1, <1>8 DEF NotYetCreated, Inv, IInv, Core, Sequencing, TypeOK, Write
  <1>12. o # "create" => /\ ~ NotYetCreated(c)
                         /\ state'[c] = IF o = "stir" THEN state[c] ELSE o
                         /\ meta'[c] = proc[c][h].got
    BY <1>1, <1>7, <1>9 DEF NotYetCreated, Inv, IInv, Core, TypeOK, Write, Handlers
  <1> QED BY <1>1, <1>2, <1>3, <1>4, <1>6, <1>7, <1>10, <1>11, <1>12

\* The reads of transition and set_metadata.
LEMMA ReadFacts ==
    ASSUME Core, NEW c \in Calls, NEW h \in Handlers, ReadState(c, h) \/ ReadMeta(c, h)
    PROVE  /\ UNCHANGED <<state, meta, phase, fault>>
           /\ proc'[c][h].op = proc[c][h].op
           /\ \A k \in Handlers : k # h => proc'[c][k] = proc[c][k]
           /\ ReadState(c, h) => state[c] # Absent /\ proc'[c][h].step = "meta"
           /\ ReadMeta(c, h) =>
                 /\ proc[c][h].step = "meta" /\ proc[c][h].op # "create"
                 /\ proc'[c][h].step = "write"
                 /\ proc'[c][h].got = IF proc[c][h].op = "stir" THEN "attested"
                                      ELSE IF meta[c] = Absent THEN "blank" ELSE meta[c]
  <1>1. proc[c][h] \in Progress /\ state[c] \in CallStatus \cup {Absent}
        /\ meta[c] \in Metadata \cup {Absent}
    BY DEF Core, TypeOK
  <1>2. CASE ReadState(c, h)
    <2> DEFINE r == [proc[c][h] EXCEPT !.step = "meta", !.saw = state[c]]
    <2>1. /\ proc' = [proc EXCEPT ![c][h] = r] /\ state[c] # Absent
          /\ proc[c][h].step = "state" /\ UNCHANGED <<state, meta, phase, fault>>
      BY <1>2 DEF ReadState, Permitted, record, history
    <2>2. r \in Progress /\ r.op = proc[c][h].op /\ r.step = "meta"
      BY <1>1 DEF Progress, Steps
    <2> HIDE DEF r
    <2>3. proc'[c][h] = r /\ \A k \in Handlers : k # h => proc'[c][k] = proc[c][k]
      BY <2>1, <2>2, Moves DEF Core, TypeOK
    <2>4. ~ ReadMeta(c, h)
      BY <2>1 DEF ReadMeta
    <2> QED BY <2>1, <2>2, <2>3, <2>4
  <1>3. CASE ReadMeta(c, h)
    <2> DEFINE g == IF proc[c][h].op = "stir" THEN "attested"
                    ELSE IF meta[c] = Absent THEN "blank" ELSE meta[c]
               r == [proc[c][h] EXCEPT !.step = "write", !.got = g]
    <2>1. /\ proc' = [proc EXCEPT ![c][h] = r] /\ proc[c][h].step = "meta"
          /\ UNCHANGED <<state, meta, phase, fault>>
      BY <1>3 DEF ReadMeta, record, history
    <2>2. g \in Metadata
      BY <1>1 DEF Metadata
    <2> HIDE DEF g
    <2>3. r \in Progress /\ r.op = proc[c][h].op /\ r.step = "write" /\ r.got = g
      BY <1>1, <2>2 DEF Progress, Steps
    <2> HIDE DEF r
    <2>4. proc'[c][h] = r /\ \A k \in Handlers : k # h => proc'[c][k] = proc[c][k]
      BY <2>1, <2>3, Moves DEF Core, TypeOK
    <2>5. proc[c][h].op # "create"
      BY <2>1 DEF Core, Shape, StepsOf, CallStatus
    <2>6. ~ ReadState(c, h)
      BY <2>1 DEF ReadState
    <2> QED BY <2>1, <2>3, <2>4, <2>5, <2>6 DEF g
  <1> QED BY <1>2, <1>3

\* The first webhook of a call begins to create its record, or answers.
LEMMA IncomingFacts ==
    ASSUME Core, NEW c \in Calls, IncomingCall(c)
    PROVE  /\ NotYetCreated(c)
           /\ UNCHANGED <<state, meta, fault>>
           /\ proc'[c]["incoming"].op \in {"create", "reply"}
           /\ \A k \in Handlers : k # "incoming" => proc'[c][k] = proc[c][k]
  <1>1. /\ Goto(c, "incoming", IncomingStart(caller[c])) /\ phase[c] = "idle"
        /\ UNCHANGED <<state, meta, fault>>
    BY DEF IncomingCall, record, history
  <1>2. IncomingStart(caller[c]) \in {"create", "reply"}
    BY DEF IncomingStart
  <1>3. "incoming" \in Handlers /\ IncomingStart(caller[c]) \in Operations
    BY <1>2 DEF Handlers, Operations
  <1> HIDE DEF IncomingStart
  <1>4. /\ proc'[c]["incoming"] = Begin(IncomingStart(caller[c]))
        /\ \A k \in Handlers : k # "incoming" => proc'[c][k] = proc[c][k]
    BY <1>1, <1>3, GotoMoves DEF Core
  <1> QED BY <1>1, <1>2, <1>3, <1>4, BeginFacts DEF NotYetCreated

-----------------------------------------------------------------------------
(* Upkeep is kept, call by call.                                           *)

\* Every step keeps it.
LEMMA KeptStep ==
    ASSUME Inv, [Next]_vars, NEW c \in Calls
    PROVE  Kept(c)'
  <1>0. Core /\ Kept(c)
    BY DEF Inv, IInv, Upkeep
  <1>1. CASE Calm(c)
    <2>1. "stir" \notin CallStatus
      BY DEF CallStatus
    <2> QED BY <1>0, <1>1, <2>1 DEF Calm, Kept, Handlers
  <1>2. ASSUME NEW h \in Handlers, ReadState(c, h)
        PROVE  Kept(c)'
    <2>1. /\ UNCHANGED <<state, meta, phase, fault>> /\ state[c] # Absent
          /\ proc'[c][h].op = proc[c][h].op /\ proc'[c][h].step = "meta"
          /\ \A k \in Handlers : k # h => proc'[c][k] = proc[c][k]
      BY <1>0, <1>2, ReadFacts
    <2>2. NotYetCreated(c)' => NotYetCreated(c)
      BY <2>1 DEF NotYetCreated, Handlers
    <2> QED BY <1>0, <2>1, <2>2 DEF Kept, Handlers
  <1>3. ASSUME NEW h \in Handlers, ReadMeta(c, h)
        PROVE  Kept(c)'
    <2>1. /\ UNCHANGED <<state, meta, phase, fault>>
          /\ proc'[c][h].op = proc[c][h].op
          /\ proc[c][h].step = "meta" /\ proc'[c][h].step = "write"
          /\ proc[c][h].op # "create"
          /\ proc'[c][h].got = IF proc[c][h].op = "stir" THEN "attested"
                               ELSE IF meta[c] = Absent THEN "blank" ELSE meta[c]
          /\ \A k \in Handlers : k # h => proc'[c][k] = proc[c][k]
      BY <1>0, <1>3, ReadFacts
    <2>2. NotYetCreated(c)' => NotYetCreated(c)
      BY <2>1 DEF NotYetCreated, Handlers
    <2> QED BY <1>0, <2>1, <2>2 DEF Kept, Handlers, Absent
  <1>4. ASSUME NEW h \in Handlers, Write(c, h)
        PROVE  Kept(c)'
    <2>1. /\ proc'[c][h].op = proc[c][h].op /\ proc'[c][h].step = "expire"
          /\ \A k \in Handlers : k # h => proc'[c][k] = proc[c][k]
          /\ \A k \in Handlers : k # h /\ proc[c][k].step = "write" =>
                proc[c][k].op \notin CallStatus
          /\ ~ NotYetCreated(c)' /\ fault'[c] = fault[c]
      BY <1>4, WriteFacts
    <2>2. state'[c] = Absent => state[c] = Absent
      <3>1. CASE proc[c][h].op = "create"
        BY <1>4, <3>1, WriteFacts DEF Absent
      <3>2. CASE proc[c][h].op # "create"
        BY <1>4, <3>2, WriteFacts DEF Absent, CallStatus
      <3> QED BY <3>1, <3>2
    <2> QED BY <1>0, <2>1, <2>2 DEF Kept, Handlers
  <1>5. CASE IncomingCall(c)
    <2>1. "create" \notin CallStatus /\ "reply" \notin CallStatus
      BY DEF CallStatus
    <2> QED BY <1>0, <1>5, <2>1, IncomingFacts DEF Kept, Handlers
  <1>6. CASE Expire(c)
    <2>1. /\ UNCHANGED <<proc, fault>> /\ meta'[c] = Absent
          /\ ~ InFlight(c, "incoming") /\ ~ InFlight(c, "gather")
      BY <1>0, <1>6 DEF Expire, Vanish, history, Core, TypeOK
    <2>2. \A h \in {"incoming", "gather"} : proc[c][h].op \notin CallStatus
      BY <2>1 DEF InFlight, CallStatus
    <2> QED BY <1>0, <2>1, <2>2 DEF Kept, Absent
  <1>7. CASE ExpireUnderHandler(c)
    <2>1. /\ UNCHANGED proc /\ meta'[c] = Absent /\ "stall" \in fault'[c]
      BY <1>0, <1>7 DEF ExpireUnderHandler, Vanish, Hit, Core, TypeOK
    <2> QED BY <1>0, <2>1 DEF Kept, Absent
  <1> QED BY <1>0, <1>1, <1>2, <1>3, <1>4, <1>5, <1>6, <1>7, Classify

\* Inv is an inductive invariant.
LEMMA FullInvariance == SafeSpec => []Inv
  <1>1. Init => Inv
    <2> SUFFICES ASSUME Init PROVE Inv
      OBVIOUS
    <2>1. Begin("ready").op = "ready" /\ Begin("ready").step = "none"
      BY DEF Begin, FirstStep, CallStatus
    <2>2. Upkeep
      BY <2>1 DEF Init, Upkeep, Kept, Handlers
    <2> QED BY <2>2, InitIInv DEF Inv
  <1>2. Inv /\ [Next]_vars => Inv'
    BY CoreStep, RouteStep, KeptStep DEF Inv, IInv, Upkeep
  <1> QED BY <1>1, <1>2, PTL DEF SafeSpec

-----------------------------------------------------------------------------
(* The life cycle.                                                         *)

\* The call goes on without a record.
Drops(c) == StatusOf(c) = "NEW" /\ StatusOf(c)' = "GONE"

\* The record of the call goes, or what was left of it.
Goes(c) == StatusOf(c) \in CallStatus \cup {"GONE"} /\ StatusOf(c)' = "GONE"

\* The record of the call is back, in a state that somebody may write so late.
Returns(c) ==
    /\ StatusOf(c) = "GONE"
    /\ StatusOf(c)' \in IF "stall" \in fault[c] THEN CallStatus \ {"INCOMING"} ELSE {"COMPLETED"}

\* What the life cycle lets a step do to the status of a call.
Legal(c) ==
    \/ /\ "stall" \in fault'[c] <=> "stall" \in fault[c]
       /\ \/ StatusOf(c)' = StatusOf(c)
          \/ Drops(c)
          \/ StatusOf(c) = "NEW" /\ StatusOf(c)' = "INCOMING"
          \/ /\ StatusOf(c) \in CallStatus
             /\ StatusOf(c)' \in AllowedTransitions[StatusOf(c)]
          \/ Goes(c)
          \/ Returns(c)
    \/ "stall" \in fault'[c] /\ Goes(c)

\* A step that leaves the state alone keeps the status, or drops the call.
LEMMA StatusCalm ==
    ASSUME NEW c \in Calls, state'[c] = state[c],
           NotYetCreated(c)' => NotYetCreated(c)
    PROVE  StatusOf(c)' = StatusOf(c) \/ Drops(c)
  BY DEF StatusOf, Drops

\* Every step is legal for every call.
LEMMA LegalStep ==
    ASSUME Inv, [Next]_vars, NEW c \in Calls
    PROVE  Legal(c)
  <1>0. Core /\ Kept(c) /\ state[c] \in CallStatus \cup {Absent}
    BY DEF Inv, IInv, Upkeep, Core, TypeOK
  <1>1. CASE Calm(c) \/ IncomingCall(c)
    BY <1>0, <1>1, IncomingFacts, StatusCalm DEF Calm, Legal
  <1>2. ASSUME NEW h \in Handlers, ReadState(c, h) \/ ReadMeta(c, h)
        PROVE  Legal(c)
    <2>1. /\ UNCHANGED <<state, phase, fault>>
          /\ proc'[c][h].op = proc[c][h].op
          /\ \A k \in Handlers : k # h => proc'[c][k] = proc[c][k]
          /\ proc'[c][h].step = "write" => proc[c][h].op # "create"
      BY <1>0, <1>2, ReadFacts
    <2>2. NotYetCreated(c)' => NotYetCreated(c)
      BY <2>1 DEF NotYetCreated, Handlers
    <2> QED BY <2>1, <2>2, StatusCalm DEF Legal
  <1>3. ASSUME NEW h \in Handlers, Write(c, h)
        PROVE  Legal(c)
    <2>1. fault'[c] = fault[c]
      BY <1>3, WriteFacts
    <2>2. CASE proc[c][h].op = "create"
      BY <1>3, <2>1, <2>2, WriteFacts DEF StatusOf, Legal, Absent
    <2>3. CASE proc[c][h].op = "stir"
      <3>1. state'[c] = state[c] /\ ~ NotYetCreated(c)'
        BY <1>3, <2>3, WriteFacts
      <3> QED BY <2>1, <3>1, StatusCalm DEF Legal
    <2>4. CASE proc[c][h].op \in CallStatus
      <3> DEFINE o == proc[c][h].op
      <3>1. o # "create" /\ o # "stir" /\ o # Absent
        BY <2>4 DEF CallStatus, Absent
      <3>2. state'[c] = o /\ ~ NotYetCreated(c)
        BY <1>3, <3>1, WriteFacts
      <3>3. StatusOf(c)' = o
        BY <3>1, <3>2 DEF StatusOf
      <3>4. CASE state[c] # Absent
        <4>1. /\ o \in AllowedTransitions[proc[c][h].saw]
              /\ state[c] \in {proc[c][h].saw, Absent}
          BY <1>0, <1>3, <2>4 DEF Core, Shape, ReadStillCurrent, Write
        <4>2. StatusOf(c) = state[c]
          BY <3>4 DEF StatusOf
        <4> QED BY <1>0, <2>1, <3>3, <3>4, <4>1, <4>2 DEF Legal
      <3>5. CASE state[c] = Absent
        <4>1. StatusOf(c) = "GONE"
          BY <3>2, <3>5 DEF StatusOf
        <4>2. CASE "stall" \notin fault[c]
          <5>1. h = "status"
            BY <1>0, <1>3, <2>4, <3>5, <4>2 DEF Kept, Handlers, Write
          <5>2. o = "COMPLETED"
            BY <1>0, <2>4, <5>1 DEF Core, Shape, OperationsOf, CallStatus
          <5> QED BY <2>1, <3>3, <4>1, <4>2, <5>2 DEF Legal, Returns
        <4>3. CASE "stall" \in fault[c]
          <5>1. o # "INCOMING"
            BY <1>0, <2>4 DEF Core, Shape, OperationsOf, Handlers
          <5> QED BY <2>1, <2>4, <3>3, <4>1, <4>3, <5>1 DEF Legal, Returns
        <4> QED BY <4>2, <4>3
      <3> QED BY <3>4, <3>5
    <2>5. proc[c][h].op \in CallStatus \cup {"create", "stir"}
      BY <1>3, WriteFacts
    <2> QED BY <2>2, <2>3, <2>4, <2>5
  <1>4. ASSUME Vanish(c), UNCHANGED proc, UNCHANGED phase
        PROVE  Goes(c)
    <2>1. state'[c] = Absent /\ meta[c] # Absent
      BY <1>0, <1>4 DEF Vanish, Exists, Core, TypeOK
    <2>2. ~ NotYetCreated(c) /\ ~ NotYetCreated(c)'
      BY <1>0, <1>4, <2>1 DEF Kept, NotYetCreated
    <2>3. StatusOf(c)' = "GONE"
      BY <2>1, <2>2 DEF StatusOf
    <2>4. StatusOf(c) \in CallStatus \cup {"GONE"}
      BY <1>0, <2>2 DEF StatusOf
    <2> QED BY <2>3, <2>4 DEF Goes
  <1>5. CASE Expire(c)
    BY <1>4, <1>5 DEF Expire, Legal, history
  <1>6. CASE ExpireUnderHandler(c)
    <2>1. "stall" \in fault'[c]
      BY <1>0, <1>6 DEF ExpireUnderHandler, Hit, Core, TypeOK
    <2> QED BY <1>4, <1>6, <2>1 DEF ExpireUnderHandler, Legal
  <1> QED BY <1>0, <1>1, <1>2, <1>3, <1>5, <1>6, Classify

\* A step of one call is a step of the life cycle.
LEMMA OneCall ==
    ASSUME Inv, [Next]_vars, NEW c \in Calls, StepOf(c)
    PROVE  [Lifecycle!Next]_(Lifecycle!vars)
  <1> DEFINE s == [d \in Calls |-> StatusOf(d)]
  <1>0. /\ Lifecycle!CallStatus = CallStatus
        /\ Lifecycle!AllowedTransitions = AllowedTransitions
    BY DEF Lifecycle!CallStatus, Lifecycle!AllowedTransitions, CallStatus, AllowedTransitions
  <1>1. Legal(c)
    BY LegalStep
  <1>2. \A d \in Calls : d # c =>
            /\ StatusOf(d)' = StatusOf(d)
            /\ "stall" \in fault'[d] <=> "stall" \in fault[d]
    BY Frame DEF Inv, IInv, Core, Same, StatusOf, NotYetCreated
  <1>3. s' = [s EXCEPT ![c] = StatusOf(c)']
    BY <1>2
  <1>4. s[c] = StatusOf(c)
    OBVIOUS
  <1>5. "stall" \in fault'[c] => Late' \in {Late, Late \cup {c}}
    BY <1>2 DEF Late
  <1>6. ("stall" \in fault'[c] <=> "stall" \in fault[c]) => Late' = Late
    BY <1>2 DEF Late
  <1>7. CASE StatusOf(c)' = StatusOf(c) /\ Late' = Late
    BY <1>2, <1>7 DEF Lifecycle!vars
  <1>8. CASE Drops(c) /\ Late' = Late
    <2>1. s' = [d \in Calls |-> IF d \in {c} THEN "GONE" ELSE s[d]]
      BY <1>2, <1>8 DEF Drops
    <2>2. Lifecycle!Skip({c})
      BY <1>4, <1>8, <2>1 DEF Drops, Lifecycle!Skip
    <2> QED BY <2>2 DEF Lifecycle!Next
  <1> HIDE DEF s
  <1>9. CASE StatusOf(c) = "NEW" /\ StatusOf(c)' = "INCOMING" /\ Late' = Late
    <2>1. Lifecycle!Open(c)
      BY <1>3, <1>4, <1>9 DEF s, Lifecycle!Open
    <2> QED BY <2>1 DEF Lifecycle!Next
  <1>10. CASE /\ StatusOf(c) \in CallStatus
              /\ StatusOf(c)' \in AllowedTransitions[StatusOf(c)]
              /\ Late' = Late
    <2>1. Lifecycle!Move(c)
      BY <1>0, <1>3, <1>4, <1>10 DEF s, Lifecycle!Move
    <2> QED BY <2>1 DEF Lifecycle!Next
  <1>11. CASE Goes(c) /\ Late' \in {Late, Late \cup {c}}
    <2>1. Lifecycle!Vanish(c)
      BY <1>0, <1>3, <1>4, <1>11 DEF s, Goes, Lifecycle!Vanish
    <2> QED BY <2>1 DEF Lifecycle!Next
  <1>12. CASE Returns(c) /\ Late' = Late
    <2>1. "stall" \in fault[c] <=> c \in Late
      BY DEF Late
    <2>2. Lifecycle!Return(c)
      BY <1>0, <1>3, <1>4, <1>12, <2>1 DEF s, Returns, Lifecycle!Return
    <2> QED BY <2>2 DEF Lifecycle!Next
  <1> QED BY <1>1, <1>5, <1>6, <1>7, <1>8, <1>9, <1>10, <1>11, <1>12 DEF Legal

\* A crash drops the calls whose record was being created, all at once.
LEMMA CrashStep ==
    ASSUME Inv, Crash
    PROVE  [Lifecycle!Next]_(Lifecycle!vars)
  <1> DEFINE lost == {c \in Calls : Drops(c)}
  <1>1. \A c \in Calls : StatusOf(c)' = StatusOf(c) \/ Drops(c)
    BY CrashIsCalm, StatusCalm DEF Calm, Inv, IInv
  <1>2. [c \in Calls |-> StatusOf(c)]' =
            [c \in Calls |-> IF c \in lost THEN "GONE" ELSE StatusOf(c)]
    BY <1>1 DEF Drops
  <1>3. Late' = Late
    BY CrashIsCalm DEF Calm, Inv, IInv, Late
  <1>4. Lifecycle!Skip(lost)
    BY <1>2, <1>3 DEF Drops, Lifecycle!Skip
  <1> QED BY <1>4 DEF Lifecycle!Next

\* Every step of the webhooks is a step of the life cycle, or none.
LEMMA LifecycleStep ==
    Inv /\ [Next]_vars => [Lifecycle!Next]_(Lifecycle!vars)
  <1> SUFFICES ASSUME Inv, [Next]_vars PROVE [Lifecycle!Next]_(Lifecycle!vars)
    OBVIOUS
  <1>1. CASE \E c \in Calls : StepOf(c)
    BY <1>1, OneCall
  <1>2. CASE Crash
    BY <1>2, CrashStep
  <1>3. CASE UNCHANGED vars
    BY <1>3 DEF vars, history, record, StatusOf, NotYetCreated, Late, Lifecycle!vars
  <1> QED BY <1>1, <1>2, <1>3 DEF Next, StepOf, Finished

\* The records implement the life cycle, await by await and whatever fails
\* (call_state.py:140-185): opened once and moved only along the table, stalled
\* handlers included.  What was gone and is there again is COMPLETED, or in the
\* state a handler wrote that had stalled for longer than the TTL, and never
\* INCOMING.
THEOREM RefinesLifecycle == SafeSpec => ImplementsLifecycle
  <1>1. Init => Lifecycle!Init
    BY DEF Init, StatusOf, NotYetCreated, Late, Lifecycle!Init, Absent
  <1>2. Inv /\ [Next]_vars => [Lifecycle!Next]_(Lifecycle!vars)
    BY LifecycleStep
  <1> QED BY <1>1, <1>2, FullInvariance, PTL DEF SafeSpec, ImplementsLifecycle, Lifecycle!Spec

\* An attestation that is stored stays until the record is gone: no handler
\* writes back metadata it read before (call_state.py:207-224).
THEOREM AttestationKept == SafeSpec => AttestationNeverLost
  <1> DEFINE Kind == \A c \in Calls :
          meta[c] = "attested" => meta'[c] \in {"attested", Absent}
  <1>1. Inv /\ [Next]_vars => [Kind]_meta
    <2> SUFFICES ASSUME Inv, [Next]_vars, NEW c \in Calls, meta[c] = "attested"
                 PROVE  meta'[c] \in {"attested", Absent}
      OBVIOUS
    <2>0. Core /\ Kept(c)
      BY DEF Inv, IInv, Upkeep
    <2>1. CASE Calm(c)
      BY <2>1 DEF Calm
    <2>2. CASE IncomingCall(c)
      BY <2>0, <2>2, IncomingFacts
    <2>3. ASSUME NEW h \in Handlers, ReadState(c, h) \/ ReadMeta(c, h)
          PROVE  meta'[c] = meta[c]
      BY <2>0, <2>3, ReadFacts
    <2>4. ASSUME NEW h \in Handlers, Write(c, h)
          PROVE  meta'[c] = "attested"
      <3>1. proc[c][h].op # "create"
        BY <2>0, <2>4, WriteFacts DEF Kept, Absent
      <3>2. proc[c][h].op \in CallStatus \cup {"stir"} /\ meta'[c] = proc[c][h].got
        BY <2>4, <3>1, WriteFacts
      <3>3. proc[c][h].step = "write"
        BY <2>4 DEF Write
      <3> QED BY <2>0, <3>2, <3>3 DEF Kept
    <2>5. CASE Expire(c) \/ ExpireUnderHandler(c)
      BY <2>0, <2>5 DEF Expire, ExpireUnderHandler, Vanish, Core, TypeOK
    <2> QED BY <2>0, <2>1, <2>2, <2>3, <2>4, <2>5, Classify
  <1> QED BY <1>1, FullInvariance, PTL DEF SafeSpec, AttestationNeverLost
-----------------------------------------------------------------------------
(* What the record tells of the call, and who reaches the fallback.        *)

\* The state a record is in before handler h does operation o in it, while
\* Twilio waits for h.
Before(h, o) ==
    CASE h = "incoming" /\ o = "create"                -> Absent
      [] h = "incoming" /\ o \in {"settings", "TRIAGE"} -> "INCOMING"
      [] h = "incoming" /\ o \in {"lookup", "stir", "FORWARDING", "BLOCKING", "NUMBER_LOOKUP"} -> "TRIAGE"
      [] h = "incoming" /\ o = "SCREENING"             -> "NUMBER_LOOKUP"
      [] h = "gather" /\ o \in {"settings", "DECIDING", "FAILED"} -> "SCREENING"
      [] h = "gather" /\ o \in {"FORWARDING", "MESSAGING"} -> "DECIDING"

\* The state operation o leaves behind.
Left(o) == CASE o = "create" -> "INCOMING" [] o = "stir" -> "TRIAGE" [] OTHER -> o

\* The state a record is in when h answers.
Outcome(c, h) ==
    CASE h = "incoming" /\ contact[c] = "whitelist" -> "FORWARDING"
      [] h = "incoming" /\ contact[c] = "blocklist" -> "BLOCKING"
      [] h = "gather" /\ digit[c] = "1"             -> "FORWARDING"
      [] h = "gather" /\ digit[c] = "2"             -> "MESSAGING"
      [] h = "gather" /\ digit[c] = "other"         -> "FAILED"
      [] OTHER                                      -> "SCREENING"

Reached(c, h) ==
    LET o == proc[c][h].op
    IN  CASE o = "reply"                              -> Outcome(c, h)
          [] o # "reply" /\ proc[c][h].step = "expire" -> Left(o)
          [] OTHER                                    -> Before(h, o)

\* The contact or the digit led the handlers to where they are.
Led(c) ==
    /\ LET o == proc[c]["incoming"].op
       IN  /\ o = "FORWARDING" => contact[c] = "whitelist"
           /\ o = "BLOCKING" => contact[c] = "blocklist"
           /\ o \in {"stir", "NUMBER_LOOKUP", "SCREENING"} => contact[c] = "none"
    /\ LET o == proc[c]["gather"].op
       IN  /\ o \in {"settings", "FORWARDING"} => digit[c] = "1"
           /\ o = "DECIDING" => digit[c] \in {"1", "2"}
           /\ o = "MESSAGING" => digit[c] = "2"
           /\ o = "FAILED" => digit[c] = "other"

\* While Twilio waits for a webhook, the handler is on its way and the record
\* where it got to; after its answer nobody writes until the call is over.
Tracked(c) ==
    /\ phase[c] \in {"incoming", "gather"} =>
          InFlight(c, phase[c]) /\ state[c] = Reached(c, phase[c])
    /\ phase[c] = "gathering" => state[c] = "SCREENING"
    /\ phase[c] \in {"dialing", "recording", "rejected"} /\ ~fellBack[c] =>
          /\ ~InFlight(c, "incoming") /\ ~InFlight(c, "gather")
          /\ phase[c] = "dialing" => state[c] \in {"FORWARDING", Absent}
          /\ phase[c] = "recording" => state[c] = "MESSAGING"
          /\ phase[c] = "rejected" => state[c] \in {"BLOCKING", "FAILED"}

\* An emergency callback is answered without a record.
Unrecorded(c) ==
    /\ meta[c] = Absent /\ contact[c] = "unknown"
    /\ proc[c]["incoming"].op \in {"ready", "reply", "done"}
    /\ proc[c]["gather"].op = "ready"
    /\ proc[c]["status"].step \in {"none", "state"}
    /\ phase[c] \in {"idle", "incoming", "dialing", "fallback", "ended"}
    /\ phase[c] = "incoming" => proc[c]["incoming"].op = "reply"

\* Metadata are made up only by call_status, unless a handler stalled.
MadeUp(c) ==
    "stall" \notin fault[c] =>
       /\ meta[c] = "blank" => state[c] = "COMPLETED"
       /\ \A h \in {"incoming", "gather"} :
             proc[c][h].step = "write" /\ proc[c][h].op # "create" => proc[c][h].got # "blank"

\* A call is in the hands of the fallback for a reason.
Excused(c) ==
    phase[c] = "fallback" \/ fellBack[c] =>
        /\ fault[c] # {}
        /\ caller[c] = "emergency" => fault[c] \cap {"timeout", "crash"} # {}

Tale(c) ==
    /\ Led(c) /\ MadeUp(c) /\ Excused(c)
    /\ caller[c] = "ordinary" => Tracked(c)
    /\ caller[c] = "emergency" => Unrecorded(c)

Tales == \A c \in Calls : Tale(c)

\* Only the handler Twilio waits for is in flight while it waits for one.
LEMMA WhoIsInFlight ==
    ASSUME IInv, NEW c \in Calls, NEW h \in Handlers, InFlight(c, h)
    PROVE  /\ phase[c] \in {"incoming", "gather"} => phase[c] = h
           /\ phase[c] \notin {"idle", "gathering"}
           /\ h = "status" => phase[c] = "ended"
  BY DEF IInv, Core, Sequencing, Routing, InFlight, Handlers

\* A step of a handler keeps the record tracked if it does while Twilio waits.
LEMMA TrackedOn ==
    ASSUME IInv, NEW c \in Calls, NEW h \in Handlers, InFlight(c, h), Tracked(c),
           phase'[c] = phase[c], fellBack'[c] = fellBack[c],
           phase[c] = h /\ h # "status" => InFlight(c, h)' /\ state'[c] = Reached(c, h)'
    PROVE  Tracked(c)'
  <1>1. phase[c] \in {"dialing", "recording", "rejected"} => fellBack[c]
    BY WhoIsInFlight DEF Tracked, Handlers
  <1> QED BY <1>1, WhoIsInFlight DEF Tracked

\* The branches of the handlers lead from one reached state to the next.
LEMMA ReachedNext ==
    ASSUME Shape, NEW c \in Calls, NEW h \in {"incoming", "gather"}, Led(c),
           \/ proc[c][h].step = "expire"
           \/ proc[c][h].op = "settings",
           digit[c] \in {"none", "1", "2", "other"}
    PROVE  /\ NextOperation(c, h) = "reply" => Reached(c, h) = Outcome(c, h)
           /\ NextOperation(c, h) # "reply" => Reached(c, h) = Before(h, NextOperation(c, h))
           /\ NextOperation(c, h) \notin {"done", "swallowed", "ready"}
  <1>1. proc[c][h].op \in OperationsOf(h) /\ proc[c][h].step \in StepsOf(proc[c][h].op)
    BY DEF Shape, Handlers
  <1>2. CASE h = "incoming"
    BY <1>1, <1>2 DEF NextOperation, AfterIncoming, OperationsOf, StepsOf, CallStatus,
                      Reached, Before, Left, Outcome, Led
  <1>3. CASE h = "gather"
    BY <1>1, <1>3 DEF NextOperation, AfterGather, OperationsOf, StepsOf, CallStatus,
                      Reached, Before, Left, Outcome, Led
  <1> QED BY <1>2, <1>3

\* What a handler goes on to agrees with the contact and the digit.
LEMMA LedNext ==
    ASSUME Shape, NEW c \in Calls, NEW h \in {"incoming", "gather"}, Led(c),
           \/ proc[c][h].step = "expire"
           \/ proc[c][h].op = "settings"
    PROVE  LET o == NextOperation(c, h)
           IN  /\ h = "incoming" =>
                     /\ o \notin {"FORWARDING", "BLOCKING", "stir"}
                     /\ o \in {"NUMBER_LOOKUP", "SCREENING"} => contact[c] = "none"
               /\ h = "gather" =>
                     /\ o \notin {"settings", "FAILED"}
                     /\ o = "FORWARDING" => digit[c] = "1"
                     /\ o = "DECIDING" => digit[c] \in {"1", "2"}
                     /\ o = "MESSAGING" => digit[c] = "2"
  <1>1. proc[c][h].op \in OperationsOf(h) /\ proc[c][h].step \in StepsOf(proc[c][h].op)
    BY DEF Shape, Handlers
  <1>2. CASE h = "incoming"
    BY <1>1, <1>2 DEF NextOperation, AfterIncoming, OperationsOf, StepsOf, CallStatus, Led
  <1>3. CASE h = "gather"
    BY <1>1, <1>3 DEF NextOperation, AfterGather, OperationsOf, StepsOf, CallStatus, Led
  <1> QED BY <1>2, <1>3

\* The table lets each handler do what it does in a record it finds as it left it.
LEMMA NeverRefused ==
    ASSUME Shape, NEW c \in Calls, NEW h \in {"incoming", "gather"},
           proc[c][h].step = "state", state[c] = Reached(c, h)
    PROVE  Permitted(c, h)
  <1>1. proc[c][h].op \in OperationsOf(h) /\ proc[c][h].step \in StepsOf(proc[c][h].op)
    BY DEF Shape, Handlers
  <1>2. proc[c][h].op \in CallStatus
    BY <1>1 DEF StepsOf
  <1>3. CASE h = "incoming"
    BY <1>1, <1>2, <1>3 DEF OperationsOf, CallStatus, Reached, Before, Permitted,
                            AllowedTransitions, Absent
  <1>4. CASE h = "gather"
    BY <1>1, <1>2, <1>4 DEF OperationsOf, CallStatus, Reached, Before, Permitted,
                            AllowedTransitions, Absent
  <1> QED BY <1>3, <1>4

\* SetExpiry and ReadSettings.
LEMMA GoOnTale ==
    ASSUME Inv, NEW c \in Calls, NEW h \in Handlers, Tale(c), SetExpiry(c, h) \/ ReadSettings(c, h)
    PROVE  Tale(c)'
  <1>0. IInv /\ Core /\ Shape /\ InFlight(c, h) /\ TypeOK
    BY AtStep DEF Inv, IInv, Core, SetExpiry, ReadSettings
  <1>1. /\ Goto(c, h, NextOperation(c, h))
        /\ UNCHANGED <<state, meta, phase, caller, contact, digit, fellBack, fault>>
        /\ proc[c][h].step = "expire" \/ proc[c][h].op = "settings"
    BY DEF SetExpiry, ReadSettings, record, history
  <1>2. /\ NextOperation(c, h) \in OperationsOf(h) \ {"ready", "create", "swallowed"}
        /\ NextOperation(c, h) \in Operations
    BY <1>0, <1>1, NextFacts, OperationsFacts
  <1>3. h = "status" => NextOperation(c, h) = "done"
    BY DEF NextOperation
  <1>4. caller[c] # "emergency"
    <2>1. h = "status" => proc[c][h].op # "settings"
      BY <1>0 DEF Shape, OperationsOf
    <2>2. h # "status" /\ Unrecorded(c) => proc[c][h].op # "settings" /\ proc[c][h].step # "expire"
      BY <1>0 DEF Shape, Unrecorded, StepsOf, CallStatus, Handlers
    <2> QED BY <1>1, <2>1, <2>2 DEF Tale, Unrecorded
  <1> DEFINE o == NextOperation(c, h)
  <1>5. h # "status" =>
           /\ o = "reply" => Reached(c, h) = Outcome(c, h)
           /\ o # "reply" => Reached(c, h) = Before(h, o)
           /\ o \notin {"done", "swallowed", "ready"}
    BY <1>0, <1>1, ReachedNext DEF Tale, TypeOK, Handlers
  <1>6. /\ h = "incoming" =>
              /\ o \notin {"FORWARDING", "BLOCKING", "stir"}
              /\ o \in {"NUMBER_LOOKUP", "SCREENING"} => contact[c] = "none"
        /\ h = "gather" =>
              /\ o \notin {"settings", "FAILED"}
              /\ o = "FORWARDING" => digit[c] = "1"
              /\ o = "DECIDING" => digit[c] \in {"1", "2"}
              /\ o = "MESSAGING" => digit[c] = "2"
    BY <1>0, <1>1, LedNext DEF Tale, Handlers
  <1>7. /\ proc'[c][h].op = o /\ proc'[c][h].step \notin {"expire", "write"}
        /\ \A k \in Handlers : k # h => proc'[c][k] = proc[c][k]
    <2>1. Goto(c, h, o) /\ o \in Operations /\ o # "create"
      BY <1>1, <1>2
    <2> HIDE DEF o
    <2> QED BY <1>0, <2>1, GotoMoves, BeginFacts
  <1> HIDE DEF o
  <1>8. Led(c)'
    BY <1>1, <1>6, <1>7 DEF Tale, Led, Handlers
  <1>9. MadeUp(c)' /\ Excused(c)'
    BY <1>1, <1>7 DEF Tale, MadeUp, Excused, Handlers
  <1>10. Tracked(c) => Tracked(c)'
    <2>1. ASSUME Tracked(c), phase[c] = h, h # "status"
          PROVE  InFlight(c, h)' /\ state'[c] = Reached(c, h)'
      <3>1. h \in {"incoming", "gather"} /\ state[c] = Reached(c, h)
        BY <2>1 DEF Tracked, Handlers
      <3>2. Outcome(c, h)' = Outcome(c, h)
        BY <1>1 DEF Outcome
      <3> QED BY <1>1, <1>5, <1>7, <2>1, <3>1, <3>2 DEF InFlight, Reached
    <2> QED BY <1>0, <1>1, <2>1, TrackedOn
  <1> QED BY <1>1, <1>4, <1>8, <1>9, <1>10 DEF Tale

\* The reads of transition and set_metadata.
LEMMA ReadTale ==
    ASSUME Inv, NEW c \in Calls, NEW h \in Handlers, Tale(c), ReadState(c, h) \/ ReadMeta(c, h)
    PROVE  Tale(c)'
  <1>0. /\ IInv /\ Core /\ Shape /\ TypeOK /\ Kept(c) /\ InFlight(c, h)
        /\ proc[c][h].step \in {"state", "meta"}
    BY AtStep DEF Inv, IInv, Core, Upkeep, ReadState, ReadMeta
  <1>1. /\ UNCHANGED <<state, meta, phase, fault, caller, contact, digit, fellBack>>
        /\ proc'[c][h].op = proc[c][h].op
        /\ \A k \in Handlers : k # h => proc'[c][k] = proc[c][k]
    <2>1. UNCHANGED <<caller, contact, digit, fellBack>>
      BY DEF ReadState, ReadMeta, history
    <2>2. /\ UNCHANGED <<state, meta, phase, fault>>
          /\ proc'[c][h].op = proc[c][h].op
          /\ \A k \in Handlers : k # h => proc'[c][k] = proc[c][k]
      BY <1>0, ReadFacts
    <2> QED BY <2>1, <2>2
  <1>2. /\ ReadState(c, h) => state[c] # Absent /\ proc'[c][h].step = "meta"
        /\ ReadMeta(c, h) =>
              /\ proc'[c][h].step = "write" /\ proc[c][h].step = "meta"
              /\ proc'[c][h].got = IF proc[c][h].op = "stir" THEN "attested"
                                   ELSE IF meta[c] = Absent THEN "blank" ELSE meta[c]
    BY <1>0, ReadFacts
  <1>3. caller[c] # "emergency"
    <2>1. ASSUME Unrecorded(c) PROVE FALSE
      <3>1. h = "status"
        BY <1>0, <2>1 DEF Shape, Unrecorded, StepsOf, CallStatus, Handlers
      <3>2. ReadState(c, h)
        BY <1>2, <2>1, <3>1 DEF Unrecorded
      <3> QED BY <1>0, <1>2, <2>1, <3>2 DEF TypeOK, Unrecorded
    <2> QED BY <2>1 DEF Tale
  <1>4. Led(c)' /\ Excused(c)'
    BY <1>1 DEF Tale, Led, Excused, Handlers
  <1>5. MadeUp(c)'
    <2>1. ASSUME ReadMeta(c, h), h # "status", "stall" \notin fault[c]
          PROVE  proc'[c][h].got # "blank" \/ meta[c] = "blank"
      <3>1. proc[c][h].op \in CallStatus \cup {"stir"}
        BY <1>0, <1>2, <2>1 DEF Shape, StepsOf
      <3>2. proc[c][h].op \in CallStatus => state[c] # Absent
        BY <1>0, <1>2, <2>1 DEF Kept, Handlers
      <3> QED BY <1>0, <1>2, <2>1, <3>1, <3>2 DEF TypeOK
    <2>2. ASSUME meta[c] = "blank", h # "status", "stall" \notin fault[c]
          PROVE  FALSE
      <3>1. Quiet(c)
        BY <1>0, <2>2 DEF Tale, MadeUp, Core, LastWriter, Settled
      <3>2. proc[c][h].op \notin {"ready", "reply", "done", "swallowed"}
        BY <1>0 DEF Shape, StepsOf, CallStatus
      <3> QED BY <1>0, <2>2, <3>1, <3>2 DEF Quiet, NoWriteLeft, Handlers
    <2> QED BY <1>1, <1>2, <2>1, <2>2 DEF Tale, MadeUp, Handlers
  <1>6. Tracked(c) => Tracked(c)'
    <2>1. ASSUME Tracked(c), phase[c] = h, h # "status"
          PROVE  InFlight(c, h)' /\ state'[c] = Reached(c, h)'
      <3>1. h \in {"incoming", "gather"} /\ state[c] = Reached(c, h)
        BY <2>1 DEF Tracked, Handlers
      <3>2. Outcome(c, h)' = Outcome(c, h)
        BY <1>1 DEF Outcome
      <3>3. proc[c][h].step # "expire" /\ proc'[c][h].step # "expire"
        BY <1>0, <1>2
      <3> QED BY <1>0, <1>1, <3>1, <3>2, <3>3 DEF InFlight, Reached
    <2> QED BY <1>0, <1>1, <2>1, TrackedOn
  <1> QED BY <1>1, <1>3, <1>4, <1>5, <1>6 DEF Tale

\* A handler that ends without an answer leaves Twilio to the fallback.
LEMMA AbandonTale ==
    ASSUME Inv, NEW c \in Calls, NEW h \in Handlers, Tale(c), InFlight(c, h), Abandon(c, h),
           UNCHANGED <<state, meta, caller, contact, digit, fellBack>>,
           fault[c] \subseteq fault'[c],
           "stall" \in fault'[c] => "stall" \in fault[c],
           phase[c] = h => fault'[c] # {} /\ caller[c] # "emergency"
    PROVE  Tale(c)'
  <1>0. IInv /\ Core /\ TypeOK
    BY DEF Inv, IInv, Core
  <1>1. Goto(c, h, "done") /\ "done" \in Operations
    BY DEF Abandon, Operations
  <1>2. /\ proc'[c][h].op = "done" /\ proc'[c][h].step = "none"
        /\ \A k \in Handlers : k # h => proc'[c][k] = proc[c][k]
    <2>1. /\ proc'[c][h] = Begin("done")
          /\ \A k \in Handlers : k # h => proc'[c][k] = proc[c][k]
      BY <1>0, <1>1, GotoMoves
    <2> QED BY <2>1 DEF Begin, FirstStep, CallStatus
  <1>3. phase'[c] = IF phase[c] = h THEN "fallback" ELSE phase[c]
    BY <1>0 DEF Abandon, TypeOK
  <1>4. Led(c)' /\ MadeUp(c)'
    BY <1>2 DEF Tale, Led, MadeUp, Handlers
  <1>5. Excused(c)'
    BY <1>3 DEF Tale, Excused
  <1>6. Tracked(c) => Tracked(c)'
    <2>1. CASE phase[c] = h
      BY <1>3, <2>1 DEF Tracked
    <2>2. CASE phase[c] # h
      BY <1>0, <1>3, <2>2, TrackedOn
    <2> QED BY <2>1, <2>2
  <1>7. caller[c] = "emergency" /\ Unrecorded(c) => Unrecorded(c)'
    <2>1. Unrecorded(c) => h # "gather"
      BY DEF Unrecorded, InFlight
    <2> QED BY <1>2, <1>3, <2>1 DEF Unrecorded, Handlers
  <1> QED BY <1>4, <1>5, <1>6, <1>7 DEF Tale

\* A refusal only ever meets call_status, or a handler Twilio has given up.
LEMMA RefuseTale ==
    ASSUME Inv, NEW c \in Calls, NEW h \in Handlers, Tale(c), Refuse(c, h) \/ RefuseMeta(c, h)
    PROVE  Tale(c)'
  <1>0. /\ IInv /\ Core /\ Shape /\ TypeOK /\ InFlight(c, h)
        /\ UNCHANGED <<state, meta, caller, contact, digit, fellBack, fault>>
    BY AtStep DEF Inv, IInv, Core, Refuse, RefuseMeta, record, history
  <1>1. CASE Refuse(c, h) /\ h = "status"
    <2> DEFINE r == [proc[c][h] EXCEPT !.op = "swallowed", !.step = "none", !.saw = state[c]]
    <2>1. proc' = [proc EXCEPT ![c][h] = r] /\ phase' = phase
      BY <1>1 DEF Refuse
    <2>2. proc[c][h] \in Progress /\ state[c] \in CallStatus \cup {Absent}
      BY <1>0 DEF TypeOK
    <2>3. r \in Progress /\ r.step = "none"
      BY <2>2 DEF Progress, Steps, Operations
    <2> HIDE DEF r
    <2>4. proc'[c][h] = r /\ \A k \in Handlers : k # h => proc'[c][k] = proc[c][k]
      BY <1>0, <2>1, <2>3, Moves DEF TypeOK
    <2>5. Led(c)' /\ MadeUp(c)' /\ Excused(c)'
      BY <1>0, <1>1, <2>1, <2>4 DEF Tale, Led, MadeUp, Excused, Handlers
    <2>6. Tracked(c) => Tracked(c)'
      BY <1>0, <1>1, <2>1, TrackedOn
    <2>7. Unrecorded(c) => Unrecorded(c)'
      BY <1>0, <1>1, <2>1, <2>3, <2>4 DEF Unrecorded, Handlers
    <2> QED BY <1>0, <2>5, <2>6, <2>7 DEF Tale
  <1>2. CASE Refuse(c, h) /\ h # "status"
    <2>1. Abandon(c, h) /\ proc[c][h].step = "state" /\ ~ Permitted(c, h)
      BY <1>2 DEF Refuse
    <2>2. h \in {"incoming", "gather"} /\ ~ Unrecorded(c)
      BY <1>0, <1>2, <2>1 DEF Handlers, Shape, Unrecorded, StepsOf, CallStatus
    <2>3. phase[c] # h
      BY <1>0, <2>1, <2>2, NeverRefused DEF Tale, Tracked, TypeOK
    <2> QED BY <1>0, <2>1, <2>3, AbandonTale
  <1>3. CASE RefuseMeta(c, h)
    <2>1. Abandon(c, h) /\ proc[c][h].op = "stir" /\ meta[c] = Absent /\ proc[c][h].step = "meta"
      BY <1>3 DEF RefuseMeta
    <2>2. h = "incoming" /\ ~ Unrecorded(c)
      BY <1>0, <2>1 DEF Handlers, Shape, OperationsOf, Unrecorded
    <2>3. phase[c] # h
      BY <1>0, <2>1, <2>2 DEF Tale, Tracked, TypeOK, Reached, Before, Absent
    <2> QED BY <1>0, <2>1, <2>3, AbandonTale
  <1> QED BY <1>1, <1>2, <1>3

\* A write brings the record to where the operation leads.
LEMMA WriteTale ==
    ASSUME Inv, NEW c \in Calls, NEW h \in Handlers, Tale(c), Write(c, h)
    PROVE  Tale(c)'
  <1>0. /\ IInv /\ Core /\ Shape /\ TypeOK /\ InFlight(c, h) /\ proc[c][h].step = "write"
    BY AtStep DEF Inv, IInv, Core, Write
  <1>1. UNCHANGED <<phase, fault, caller, contact, digit, fellBack>>
    BY DEF Write, history
  <1>2. /\ proc'[c][h].op = proc[c][h].op /\ proc'[c][h].step = "expire"
        /\ \A k \in Handlers : k # h => proc'[c][k] = proc[c][k]
        /\ proc[c][h].op = "create" => state'[c] = "INCOMING" /\ meta'[c] = "plain"
        /\ proc[c][h].op # "create" =>
              /\ proc[c][h].op \in CallStatus \cup {"stir"}
              /\ state'[c] = IF proc[c][h].op = "stir" THEN state[c] ELSE proc[c][h].op
              /\ meta'[c] = proc[c][h].got
    BY WriteFacts
  <1>3. caller[c] # "emergency"
    BY <1>0 DEF Tale, Shape, Unrecorded, StepsOf, CallStatus, Handlers
  <1>4. Led(c)' /\ Excused(c)'
    BY <1>1, <1>2 DEF Tale, Led, Excused, Handlers
  <1>5. MadeUp(c)'
    <2>1. h = "status" => proc[c][h].op = "COMPLETED"
      BY <1>0 DEF Shape, OperationsOf, StepsOf, CallStatus
    <2> QED BY <1>0, <1>1, <1>2, <2>1 DEF Tale, MadeUp, Handlers
  <1>6. Tracked(c) => Tracked(c)'
    <2>1. ASSUME Tracked(c), phase[c] = h, h # "status"
          PROVE  InFlight(c, h)' /\ state'[c] = Reached(c, h)'
      <3>1. h \in {"incoming", "gather"} /\ state[c] = Reached(c, h)
        BY <2>1 DEF Tracked, Handlers
      <3>2. proc[c][h].op # "reply" /\ (proc[c][h].op = "stir" => h = "incoming")
        BY <1>0, <3>1 DEF Shape, StepsOf, OperationsOf, CallStatus
      <3>3. Reached(c, h)' = Left(proc[c][h].op)
        BY <1>2, <3>2 DEF Reached
      <3>4. proc[c][h].op = "stir" => state[c] = "TRIAGE"
        BY <1>0, <3>1, <3>2 DEF Reached, Before
      <3> QED BY <1>0, <1>2, <3>1, <3>2, <3>3, <3>4 DEF InFlight, Left, CallStatus
    <2> QED BY <1>0, <1>1, <2>1, TrackedOn
  <1> QED BY <1>1, <1>3, <1>4, <1>5, <1>6 DEF Tale

\* The contact list decides; the record has been triaged.
LEMMA LookupTale ==
    ASSUME Inv, NEW c \in Calls, Tale(c), LookupContact(c)
    PROVE  Tale(c)'
  <1>0. IInv /\ Core /\ TypeOK
    BY DEF Inv, IInv, Core
  <1>1. /\ proc[c]["incoming"].op = "lookup" /\ "incoming" \in Handlers
        /\ UNCHANGED <<state, meta, phase, caller, digit, fellBack, fault>>
    BY DEF LookupContact, record, Handlers
  <1>2. PICK kind \in {"none", "whitelist", "blocklist"} :
             /\ contact' = [contact EXCEPT ![c] = kind]
             /\ \E o \in AfterLookup(kind) : Goto(c, "incoming", o)
    BY DEF LookupContact
  <1>3. PICK o \in AfterLookup(kind) : Goto(c, "incoming", o)
    BY <1>2
  <1>4. /\ o \in Operations \ {"create", "ready"}
        /\ o \in {"FORWARDING", "BLOCKING", "stir", "NUMBER_LOOKUP"}
        /\ o = "FORWARDING" => kind = "whitelist"
        /\ o = "BLOCKING" => kind = "blocklist"
        /\ o \in {"stir", "NUMBER_LOOKUP"} => kind = "none"
    BY DEF AfterLookup, Operations, CallStatus
  <1>5. /\ proc'[c]["incoming"] = Begin(o) /\ Begin(o).op = o
        /\ Begin(o).step \notin {"expire", "write"}
        /\ \A k \in Handlers : k # "incoming" => proc'[c][k] = proc[c][k]
    BY <1>0, <1>1, <1>3, <1>4, GotoMoves, BeginFacts
  <1>6. contact'[c] = kind
    BY <1>0, <1>2 DEF TypeOK
  <1>7. ~ Unrecorded(c) /\ InFlight(c, "incoming")
    BY <1>1 DEF Unrecorded, InFlight
  <1>8. Led(c)'
    BY <1>1, <1>4, <1>5, <1>6 DEF Tale, Led, Handlers
  <1>9. MadeUp(c)' /\ Excused(c)'
    BY <1>1, <1>5 DEF Tale, MadeUp, Excused, Handlers
  <1>10. Tracked(c) => Tracked(c)'
    <2>1. ASSUME Tracked(c), phase[c] = "incoming"
          PROVE  InFlight(c, "incoming")' /\ state'[c] = Reached(c, "incoming")'
      <3>1. state[c] = "TRIAGE"
        BY <1>1, <2>1, <1>0 DEF Tracked, Reached, Before, Core, Shape, StepsOf, CallStatus
      <3>2. Reached(c, "incoming")' = "TRIAGE"
        BY <1>4, <1>5 DEF Reached, Before
      <3> QED BY <1>1, <1>4, <1>5, <3>1, <3>2 DEF InFlight
    <2> QED BY <1>0, <1>1, <1>7, <2>1, TrackedOn
  <1> QED BY <1>1, <1>7, <1>8, <1>9, <1>10 DEF Tale

\* The answer agrees with the record the handler leaves behind.
LEMMA ReplyTale ==
    ASSUME Inv, NEW c \in Calls, NEW h \in Handlers, Tale(c), Reply(c, h)
    PROVE  Tale(c)'
  <1>0. /\ IInv /\ Core /\ Shape /\ TypeOK /\ InFlight(c, h) /\ proc[c][h].op = "reply"
        /\ UNCHANGED <<state, meta, caller, contact, digit, fellBack, fault>>
    BY AtStep DEF Inv, IInv, Core, Reply, record, history
  <1>1. Goto(c, h, "done") /\ "done" \in Operations
    BY DEF Reply, Operations
  <1>2. /\ proc'[c][h].op = "done" /\ proc'[c][h].step = "none"
        /\ \A k \in Handlers : k # h => proc'[c][k] = proc[c][k]
    <2>1. /\ proc'[c][h] = Begin("done")
          /\ \A k \in Handlers : k # h => proc'[c][k] = proc[c][k]
      BY <1>0, <1>1, GotoMoves
    <2> QED BY <2>1 DEF Begin, FirstStep, CallStatus
  <1>3. phase'[c] = IF phase[c] = h THEN TwiML(c, h) ELSE phase[c]
    BY <1>0 DEF Reply, TypeOK
  <1>4. h \in {"incoming", "gather"}
    BY <1>0 DEF Shape, OperationsOf, Handlers
  <1>5. TwiML(c, h) \in {"dialing", "recording", "rejected", "gathering"}
    BY DEF TwiML
  <1>6. Led(c)' /\ MadeUp(c)'
    BY <1>0, <1>2 DEF Tale, Led, MadeUp, Handlers
  <1>7. Excused(c)'
    BY <1>0, <1>3, <1>5 DEF Tale, Excused
  <1>8. caller[c] = "emergency" /\ Unrecorded(c) => Unrecorded(c)'
    <2>1. Unrecorded(c) => h = "incoming"
      BY <1>0, <1>4 DEF Unrecorded
    <2>2. caller[c] = "emergency" /\ Unrecorded(c) /\ h = "incoming" => TwiML(c, h) = "dialing"
      BY DEF TwiML, Unrecorded
    <2> QED BY <1>0, <1>2, <1>3, <2>1, <2>2 DEF Unrecorded, Handlers
  <1>9. caller[c] = "ordinary" /\ Tracked(c) => Tracked(c)'
    <2>1. CASE phase[c] # h
      BY <1>0, <1>3, <2>1, TrackedOn
    <2>2. CASE phase[c] = h /\ caller[c] = "ordinary" /\ Tracked(c)
      <3>1. state[c] = Outcome(c, h)
        BY <1>0, <1>4, <2>2 DEF Tracked, Reached
      <3>2. ~InFlight(c, "incoming")' /\ ~InFlight(c, "gather")'
        BY <1>0, <1>2, <1>4 DEF Core, Sequencing, InFlight, Handlers
      <3>3. digit[c] # "none" \/ h = "incoming"
        BY <1>0, <1>4 DEF IInv, Routing
      <3>4. /\ TwiML(c, h) = "dialing" => state[c] = "FORWARDING"
            /\ TwiML(c, h) = "recording" => state[c] = "MESSAGING"
            /\ TwiML(c, h) = "rejected" => state[c] \in {"BLOCKING", "FAILED"}
            /\ TwiML(c, h) = "gathering" => state[c] = "SCREENING"
        BY <1>0, <1>4, <2>2, <3>1, <3>3 DEF TwiML, Outcome, TypeOK
      <3> QED BY <1>0, <1>3, <1>5, <2>2, <3>2, <3>4 DEF Tracked
    <2> QED BY <2>1, <2>2
  <1> QED BY <1>0, <1>6, <1>7, <1>8, <1>9 DEF Tale

\* The webhooks start in the record they expect.
LEMMA StartTale ==
    ASSUME Inv, NEW c \in Calls, Tale(c),
           \/ IncomingCall(c)
           \/ \E d \in {"1", "2", "other"} : Press(c, d)
    PROVE  Tale(c)'
  <1>0. IInv /\ Core /\ TypeOK
    BY DEF Inv, IInv, Core
  <1>1. CASE IncomingCall(c)
    <2> DEFINE o == IncomingStart(caller[c])
    <2>1. /\ Goto(c, "incoming", o) /\ phase[c] = "idle" /\ phase'[c] = "incoming"
          /\ UNCHANGED <<state, meta, caller, contact, digit, fellBack, fault>>
      BY <1>0, <1>1 DEF IncomingCall, record, history, TypeOK
    <2>2. /\ o \in {"create", "reply"} /\ "incoming" \in Handlers /\ o \in Operations
          /\ caller[c] = "ordinary" => o = "create"
          /\ caller[c] = "emergency" => o = "reply"
      BY DEF IncomingStart, Handlers, Operations
    <2> HIDE DEF o
    <2>3. /\ proc'[c]["incoming"] = Begin(o) /\ Begin(o).op = o
          /\ Begin(o).step # "expire"
          /\ \A k \in Handlers : k # "incoming" => proc'[c][k] = proc[c][k]
      BY <1>0, <2>1, <2>2, GotoMoves, BeginFacts
    <2>4. Led(c)' /\ Excused(c)'
      BY <2>1, <2>2, <2>3 DEF Tale, Led, Excused, Handlers
    <2>5. MadeUp(c)'
      BY <2>1, <2>2, <2>3, BeginFacts DEF Tale, MadeUp, Handlers
    <2>6. caller[c] = "ordinary" => Tracked(c)'
      <3>1. state[c] = Absent
        BY <1>0, <2>1 DEF Core, Sequencing
      <3> QED BY <2>1, <2>2, <2>3, <3>1 DEF Tracked, InFlight, Reached, Before
    <2>7. Unrecorded(c) /\ caller[c] = "emergency" => Unrecorded(c)'
      BY <2>1, <2>2, <2>3 DEF Unrecorded, Handlers
    <2> QED BY <2>1, <2>4, <2>5, <2>6, <2>7 DEF Tale
  <1>2. ASSUME NEW d \in {"1", "2", "other"}, Press(c, d)
        PROVE  Tale(c)'
    <2> DEFINE o == GatherStart(d)
    <2>1. /\ Goto(c, "gather", o) /\ phase[c] = "gathering" /\ phase'[c] = "gather"
          /\ digit'[c] = d
          /\ UNCHANGED <<state, meta, caller, contact, fellBack, fault>>
      BY <1>0, <1>2 DEF Press, record, TypeOK
    <2>2. /\ o \in {"settings", "DECIDING", "FAILED"} /\ "gather" \in Handlers /\ o \in Operations
          /\ o = "settings" => d = "1"
          /\ o = "DECIDING" => d = "2"
          /\ o = "FAILED" => d = "other"
      BY DEF GatherStart, Handlers, Operations, CallStatus
    <2> HIDE DEF o
    <2>3. /\ proc'[c]["gather"] = Begin(o) /\ Begin(o).op = o
          /\ Begin(o).step \notin {"expire", "write"}
          /\ \A k \in Handlers : k # "gather" => proc'[c][k] = proc[c][k]
      BY <1>0, <2>1, <2>2, GotoMoves, BeginFacts
    <2>4. Led(c)'
      BY <2>1, <2>2, <2>3 DEF Tale, Led, Handlers
    <2>5. MadeUp(c)' /\ Excused(c)'
      BY <2>1, <2>3 DEF Tale, MadeUp, Excused, Handlers
    <2>6. ~ Unrecorded(c)
      BY <2>1 DEF Unrecorded
    <2>7. Tracked(c) => Tracked(c)'
      BY <2>1, <2>2, <2>3 DEF Tracked, InFlight, Reached, Before
    <2> QED BY <2>1, <2>4, <2>5, <2>6, <2>7 DEF Tale
  <1> QED BY <1>1, <1>2

\* The status webhook starts, or finds nobody, when the call is over.
LEMMA StatusTale ==
    ASSUME Inv, NEW c \in Calls, Tale(c), phase[c] = "ended",
           proc[c]["status"].op = "ready",
           NEW o \in {"COMPLETED", "done"}, Goto(c, "status", o),
           UNCHANGED <<state, meta, phase, caller, contact, digit, fellBack>>,
           fault[c] \subseteq fault'[c], "stall" \in fault'[c] => "stall" \in fault[c]
    PROVE  Tale(c)'
  <1>0. /\ TypeOK /\ o \in Operations /\ o # "create" /\ "status" \in Handlers /\ o # "stir"
    BY DEF Inv, IInv, Core, Operations, CallStatus, Handlers
  <1>1. /\ proc'[c]["status"] = Begin(o)
        /\ Begin(o).step \in {"state", "none"}
        /\ \A k \in Handlers : k # "status" => proc'[c][k] = proc[c][k]
    <2>1. Begin(o).step \in {"state", "none"}
      BY DEF Begin, FirstStep, CallStatus
    <2> QED BY <1>0, <2>1, GotoMoves
  <1>2. Led(c)' /\ MadeUp(c)' /\ Excused(c)'
    BY <1>1 DEF Tale, Led, MadeUp, Excused, Handlers
  <1>3. Tracked(c)'
    BY DEF Tracked
  <1>4. Unrecorded(c) => Unrecorded(c)'
    BY <1>1 DEF Unrecorded, Handlers
  <1> QED BY <1>2, <1>3, <1>4 DEF Tale

\* Twilio and the caller go on, without a handler.
LEMMA PhaseTale ==
    ASSUME Inv, NEW c \in Calls, Tale(c),
           \/ AnswerFallback(c) \/ CallEnds(c) \/ HangUp(c)
           \/ WebhookTimeout(c) \/ FallbackUnreachable(c)
    PROVE  Tale(c)'
  <1>0. TypeOK
    BY DEF Inv, IInv, Core
  <1>1. UNCHANGED <<state, meta, proc, caller, contact, digit>>
    BY DEF AnswerFallback, CallEnds, HangUp, WebhookTimeout, FallbackUnreachable, record, history
  <1>2. CASE AnswerFallback(c)
    <2>1. phase[c] = "fallback" /\ phase'[c] = "dialing" /\ fellBack'[c] /\ fault' = fault
      BY <1>0, <1>2 DEF AnswerFallback, TypeOK
    <2> QED BY <1>1, <2>1 DEF Tale, Led, MadeUp, Excused, Tracked, Unrecorded
  <1>3. CASE CallEnds(c) \/ HangUp(c)
    <2>1. phase'[c] = "ended" /\ UNCHANGED <<fellBack, fault>>
      BY <1>0, <1>3 DEF CallEnds, HangUp, history, TypeOK
    <2> QED BY <1>1, <2>1 DEF Tale, Led, MadeUp, Excused, Tracked, Unrecorded
  <1>4. CASE WebhookTimeout(c)
    <2>1. /\ phase'[c] = "fallback" /\ fault'[c] = fault[c] \cup {"timeout"} /\ fellBack' = fellBack
      BY <1>0, <1>4 DEF WebhookTimeout, Hit, TypeOK
    <2> QED BY <1>1, <2>1 DEF Tale, Led, MadeUp, Excused, Tracked, Unrecorded
  <1>5. CASE FallbackUnreachable(c)
    <2>1. /\ phase'[c] = "ended" /\ fault'[c] = fault[c] \cup {"crash"} /\ fellBack' = fellBack
      BY <1>0, <1>5 DEF FallbackUnreachable, Hit, TypeOK
    <2> QED BY <1>1, <2>1 DEF Tale, Led, MadeUp, Excused, Tracked, Unrecorded
  <1> QED BY <1>2, <1>3, <1>4, <1>5

\* The record expires.
LEMMA ExpireTale ==
    ASSUME Inv, NEW c \in Calls, Tale(c), Expire(c) \/ ExpireUnderHandler(c)
    PROVE  Tale(c)'
  <1>1. /\ UNCHANGED <<proc, phase, caller, contact, digit, fellBack>>
        /\ state'[c] = Absent /\ meta'[c] = Absent /\ phase[c] \in {"dialing", "ended"}
        /\ fault[c] \subseteq fault'[c]
    BY DEF Expire, ExpireUnderHandler, Vanish, Hit, history, Inv, IInv, Core, TypeOK
  <1> QED BY <1>1 DEF Tale, Led, MadeUp, Excused, Tracked, Unrecorded, InFlight, Absent

\* A command of Redis or the database fails under a handler.
LEMMA ErrorTale ==
    ASSUME Inv, NEW c \in Calls, NEW h \in Handlers, Tale(c), RedisError(c, h) \/ DatabaseError(c, h)
    PROVE  Tale(c)'
  <1>0. /\ Shape /\ TypeOK /\ InFlight(c, h) /\ Abandon(c, h)
        /\ UNCHANGED <<state, meta, caller, contact, digit, fellBack>>
    BY AtStep DEF Inv, IInv, Core, RedisError, DatabaseError, record
  <1>1. fault'[c] = fault[c] \cup {"redis"} \/ fault'[c] = fault[c] \cup {"db"}
    BY <1>0 DEF RedisError, DatabaseError, Hit, TypeOK
  <1>2. h # "status" => ~ Unrecorded(c) \/ caller[c] = "ordinary"
    BY <1>0 DEF RedisError, DatabaseError, HasRead, Unrecorded, Shape, StepsOf, CallStatus,
                Handlers
  <1>3. phase[c] # "status"
    BY <1>0 DEF TypeOK, Phases
  <1> QED BY <1>0, <1>1, <1>2, <1>3, AbandonTale DEF Tale

\* The process dies: whoever waited for a webhook falls back.
LEMMA CrashTale ==
    ASSUME Inv, NEW c \in Calls, Tale(c), Crash
    PROVE  Tale(c)'
  <1>0. TypeOK
    BY DEF Inv, IInv, Core
  <1>1. /\ UNCHANGED <<state, meta, caller, contact, digit, fellBack>>
        /\ phase'[c] = IF phase[c] \in {"incoming", "gather"} THEN "fallback" ELSE phase[c]
        /\ \A h \in Handlers :
              proc'[c][h] = IF InFlight(c, h) THEN Begin("done") ELSE proc[c][h]
        /\ (\E h \in Handlers : InFlight(c, h)) => fault'[c] = fault[c] \cup {"crash"}
        /\ fault'[c] \in {fault[c], fault[c] \cup {"crash"}}
    BY DEF Crash, record
  <1>2. Begin("done").op = "done" /\ Begin("done").step = "none"
    BY DEF Begin, FirstStep, CallStatus
  <1>3. Led(c)' /\ MadeUp(c)'
    BY <1>1, <1>2 DEF Tale, Led, MadeUp, Handlers
  <1>4. phase[c] \in {"incoming", "gather"} => \E h \in Handlers : InFlight(c, h)
    <2>1. caller[c] \in {"ordinary", "emergency"}
      BY <1>0 DEF TypeOK
    <2>2. caller[c] = "ordinary" /\ phase[c] \in {"incoming", "gather"} => InFlight(c, phase[c])
      BY DEF Tale, Tracked
    <2>3. caller[c] = "emergency" /\ phase[c] \in {"incoming", "gather"} => InFlight(c, "incoming")
      BY DEF Tale, Unrecorded, InFlight
    <2> QED BY <2>1, <2>2, <2>3 DEF Handlers
  <1>5. Excused(c)'
    BY <1>1, <1>4 DEF Tale, Excused
  <1>6. Tracked(c) => Tracked(c)'
    BY <1>1, <1>2 DEF Tracked, InFlight, Handlers
  <1>7. Unrecorded(c) => Unrecorded(c)'
    BY <1>1, <1>2 DEF Unrecorded, InFlight, Handlers
  <1> QED BY <1>1, <1>3, <1>5, <1>6, <1>7 DEF Tale

\* Nothing happens to a call in a step of another one.
LEMMA OtherTale ==
    ASSUME Inv, NEW c \in Calls, StepOf(c), NEW d \in Calls, d # c, Tale(d)
    PROVE  Tale(d)'
  <1>0. TypeOK /\ Same(d)
    BY Frame DEF Inv, IInv, Core
  <1>1. /\ caller'[d] = caller[d] /\ contact'[d] = contact[d]
        /\ digit'[d] = digit[d] /\ fellBack'[d] = fellBack[d]
    <2>1. ASSUME NEW h \in Handlers, HandlerStep(c, h)
          PROVE  UNCHANGED <<caller, contact, digit, fellBack>>
      BY <2>1 DEF HandlerStep, ReadState, Refuse, ReadMeta, RefuseMeta, Write, SetExpiry,
                  ReadSettings, Reply, history
    <2>2. CASE LookupContact(c) \/ AnswerFallback(c)
      BY <1>0, <2>2 DEF LookupContact, AnswerFallback, TypeOK
    <2>3. CASE Twilio(c)
      BY <1>0, <2>3 DEF Twilio, IncomingCall, Press, CallEnds, HangUp, CallStatusWebhook,
                        history, TypeOK
    <2>4. CASE Expire(c) \/ Failure(c)
      BY <2>4 DEF Expire, Failure, RedisError, DatabaseError, WebhookTimeout,
                  ExpireUnderHandler, FallbackUnreachable, StatusUnreachable, history
    <2> QED BY <2>1, <2>2, <2>3, <2>4 DEF StepOf, Backend
  <1> QED BY <1>0, <1>1 DEF Same, Tale, Led, MadeUp, Excused, Tracked, Unrecorded,
                            InFlight, Reached, Outcome

\* Every step keeps the tale of every call.
LEMMA TaleStep ==
    ASSUME Inv, [Next]_vars, NEW c \in Calls, Tale(c)
    PROVE  Tale(c)'
  <1>1. ASSUME NEW d \in Calls, StepOf(d), d # c
        PROVE  Tale(c)'
    BY <1>1, OtherTale
  <1>2. ASSUME NEW h \in Handlers, HandlerStep(c, h)
        PROVE  Tale(c)'
    BY <1>2, ReadTale, RefuseTale, WriteTale, GoOnTale, ReplyTale DEF HandlerStep
  <1>3. ASSUME NEW s \in {"completed", "failed"}, CallStatusWebhook(c, s)
        PROVE  Tale(c)'
    <2>1. PICK o \in {"COMPLETED", "done"} : Goto(c, "status", o)
      BY <1>3 DEF CallStatusWebhook
    <2>2. /\ phase[c] = "ended" /\ proc[c]["status"].op = "ready"
          /\ UNCHANGED <<state, meta, phase, caller, contact, digit, fellBack, fault>>
      BY <1>3 DEF CallStatusWebhook, record, history
    <2> QED BY <2>1, <2>2, StatusTale
  <1>4. CASE StatusUnreachable(c)
    <2>1. /\ phase[c] = "ended" /\ proc[c]["status"].op = "ready" /\ Goto(c, "status", "done")
          /\ UNCHANGED <<state, meta, phase, caller, contact, digit, fellBack>>
          /\ fault'[c] = fault[c] \cup {"crash"}
      BY <1>4 DEF StatusUnreachable, Hit, record, Inv, IInv, Core, TypeOK
    <2> QED BY <2>1, StatusTale
  <1>5. CASE StepOf(c)
    BY <1>2, <1>3, <1>4, <1>5, LookupTale, PhaseTale, StartTale, ExpireTale, ErrorTale
    DEF StepOf, Backend, Twilio, Failure
  <1>6. CASE Crash
    BY <1>6, CrashTale
  <1>7. CASE UNCHANGED vars
    BY <1>7 DEF vars, Tale, Led, MadeUp, Excused, Tracked, Unrecorded, InFlight, Reached, Outcome
  <1> QED BY <1>1, <1>5, <1>6, <1>7 DEF Next, StepOf, Finished

\* Every call has its tale, together with the invariant it rests on.
LEMMA TaleInvariance == SafeSpec => [](Inv /\ Tales)
  <1>1. Init => Tales
    <2> SUFFICES ASSUME Init, NEW c \in Calls PROVE Tale(c)
      BY DEF Tales
    <2>1. Begin("ready").op = "ready" /\ Begin("ready").step = "none"
      BY DEF Begin, FirstStep, CallStatus
    <2> QED BY <2>1 DEF Init, Tale, Led, MadeUp, Excused, Tracked, Unrecorded, Handlers, Absent
  <1>2. Inv /\ Tales /\ [Next]_vars => Tales'
    BY TaleStep DEF Tales
  <1> QED BY <1>1, <1>2, FullInvariance, PTL DEF SafeSpec

\* What Twilio does with a call agrees with its record, unless the fallback took
\* over, an emergency callback leaves no record, and only calls that are over
\* have made-up metadata (webhooks.py:195-261, call_state.py:160-165).
THEOREM RecordTells == SafeSpec => []RecordTellsTheCall
  <1>1. Inv /\ Tales => RecordTellsTheCall
    <2> SUFFICES ASSUME Inv, Tales, NEW c \in Calls
                 PROVE  /\ caller[c] = "ordinary" /\ ~fellBack[c] =>
                              /\ phase[c] = "dialing"   => state[c] \in {"FORWARDING", Absent}
                              /\ phase[c] = "recording" => state[c] = "MESSAGING"
                              /\ phase[c] = "gathering" => state[c] = "SCREENING"
                              /\ phase[c] = "rejected"  => state[c] \in {"BLOCKING", "FAILED"}
                        /\ caller[c] = "emergency" => ~Exists(c)
                        /\ meta[c] = "blank" => state[c] = "COMPLETED" \/ "stall" \in fault[c]
      BY DEF RecordTellsTheCall
    <2> QED BY DEF Tales, Tale, Tracked, Unrecorded, MadeUp, Exists
  <1> QED BY <1>1, TaleInvariance, PTL

\* The webhooks answer 500 only when something fails around them: the handlers
\* never find a record the table does not let them move (webhooks.py:189-252).
THEOREM FallbackHasCause == SafeSpec => []OnlyFaultsReachFallback
  <1>1. Inv /\ Tales => OnlyFaultsReachFallback
    BY DEF Tales, Tale, Excused, OnlyFaultsReachFallback
  <1> QED BY <1>1, TaleInvariance, PTL

-----------------------------------------------------------------------------
(* What can be left to a deployment in which some failures do not happen.  *)

OnlyTheseFaults == \A c \in Calls : fault[c] \subseteq Faults

LEMMA HitsAreFaults ==
  ASSUME OnlyTheseFaults, Inv, NEW c \in Calls, NEW f, Hit(c, f) PROVE OnlyTheseFaults'
  BY DEF OnlyTheseFaults, Hit, Inv, IInv, Core, TypeOK

LEMMA FaultsAreOnlyThese == SafeSpec => []OnlyTheseFaults
  <1>1. Init => OnlyTheseFaults
    BY DEF Init, OnlyTheseFaults
  <1>2. Inv /\ OnlyTheseFaults /\ [Next]_vars => OnlyTheseFaults'
    <2> SUFFICES ASSUME Inv, OnlyTheseFaults, [Next]_vars PROVE OnlyTheseFaults'
      OBVIOUS
    <2>1. CASE UNCHANGED fault
      BY <2>1 DEF OnlyTheseFaults
    <2>2. CASE Crash
      BY <2>2 DEF Crash, OnlyTheseFaults
    <2>3. ASSUME NEW c \in Calls, Failure(c) PROVE OnlyTheseFaults'
      <3>1. \E f : Hit(c, f)
        BY <2>3 DEF Failure, RedisError, DatabaseError, WebhookTimeout, ExpireUnderHandler,
                    FallbackUnreachable, StatusUnreachable
      <3> QED BY <3>1, HitsAreFaults
    <2>4. ASSUME NEW c \in Calls, Backend(c) PROVE UNCHANGED fault
      <3>1. ASSUME NEW h \in Handlers, HandlerStep(c, h) PROVE UNCHANGED fault
        BY <3>1 DEF HandlerStep, ReadState, Refuse, ReadMeta, RefuseMeta, Write, SetExpiry,
                    ReadSettings, Reply, Abandon, history
      <3> QED BY <2>4, <3>1 DEF Backend, LookupContact, AnswerFallback
    <2>5. ASSUME NEW c \in Calls, Twilio(c) PROVE UNCHANGED fault
      BY <2>5 DEF Twilio, IncomingCall, Press, CallEnds, HangUp, CallStatusWebhook, history
    <2>6. ASSUME NEW c \in Calls, Expire(c) PROVE UNCHANGED fault
      BY <2>6 DEF Expire, history
    <2>7. CASE UNCHANGED vars
      BY <2>1, <2>7 DEF vars
    <2> QED BY <2>1, <2>2, <2>3, <2>4, <2>5, <2>6, <2>7 DEF Next, Finished
  <1> QED BY <1>1, <1>2, FullInvariance, PTL DEF SafeSpec

\* As long as nothing fails, no call meets the unscreened fallback, and the
\* telephone rings only for emergencies, whitelisted callers and those who
\* pressed 1: the handlers, interleaved with each other, with callers who hang up
\* and with keys that expire, never get in each other's way (webhooks.py:180-277).
THEOREM HealthyCallsAreScreened ==
  ASSUME Faults = {}
  PROVE  SafeSpec => [](\A c \in Calls :
                          /\ phase[c] # "fallback"
                          /\ phase[c] = "dialing" /\ caller[c] = "ordinary" =>
                                contact[c] = "whitelist" \/ digit[c] = "1")
  <1>1. OnlyFaultsReachFallback /\ ScreeningNotBypassed /\ OnlyTheseFaults =>
          \A c \in Calls : /\ phase[c] # "fallback"
                           /\ phase[c] = "dialing" /\ caller[c] = "ordinary" =>
                                 contact[c] = "whitelist" \/ digit[c] = "1"
    BY DEF OnlyFaultsReachFallback, ScreeningNotBypassed, OnlyTheseFaults
  <1> QED BY <1>1, FallbackHasCause, ScreeningHolds, FaultsAreOnlyThese, PTL

\* An emergency callback needs neither Redis nor the database: as long as the
\* process lives and answers in time it never meets the fallback
\* (webhooks.py:180-186).
THEOREM EmergenciesNeedNoStore ==
  ASSUME Faults \cap {"timeout", "crash"} = {}
  PROVE  SafeSpec => [](\A c \in Calls : caller[c] = "emergency" => phase[c] # "fallback")
  <1>1. OnlyFaultsReachFallback /\ OnlyTheseFaults =>
          \A c \in Calls : caller[c] = "emergency" => phase[c] # "fallback"
    BY DEF OnlyFaultsReachFallback, OnlyTheseFaults
  <1> QED BY <1>1, FallbackHasCause, FaultsAreOnlyThese, PTL
=============================================================================
