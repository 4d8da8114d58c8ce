------------------------------ MODULE Webhooks ------------------------------
(***************************************************************************)
(* Calls as the Twilio webhooks handle them (api/v1/webhooks.py), with the *)
(* record each handler keeps in Redis (core/call_state.py).                *)
(*                                                                         *)
(* The handlers are coroutines.  Every await of Redis or of the database   *)
(* is a point where the other handlers of the same call, Twilio, the       *)
(* expiry of the key and a failure can come in between, so every await is  *)
(* a step here.  A handler is a sequence of operations; an operation that  *)
(* is a CallStatus stands for CallStateMachine.transition to that status,  *)
(* which takes four steps: hget state, hget metadata, hset, expire.        *)
(*                                                                         *)
(* Twilio is the environment: it sends the webhooks, executes the TwiML it *)
(* is answered, gives up on a webhook that does not answer or answers with *)
(* an error and then asks the fallback URL.                                *)
(***************************************************************************)
EXTENDS CallState

CONSTANTS Calls,    \* the calls (call_sid), one record in Redis each
          Faults    \* the kinds of failure that may happen

\* redis, db: an operation raises.  timeout: Twilio stops waiting while the
\* handler keeps running.  stall: a handler is suspended for longer than the
\* TTL of its record.  crash: the backend process dies and restarts.
FaultKinds == {"redis", "db", "timeout", "stall", "crash"}

ASSUME FaultsAssumption == Faults \subseteq FaultKinds

VARIABLES
    \* The Redis hash call_state:{sid}
    state,      \* field "state"
    meta,       \* field "metadata"
    ttl,        \* whether the key has an expiry
    \* The backend
    proc,       \* proc[c][h]: the progress of handler h for call c
    \* Twilio and the caller
    phase,      \* what Twilio is doing with the call
    caller,     \* whether From is an emergency number
    \* What happened to the call, for the properties and the branches on it
    contact,    \* the contact list entry that was found for the caller
    digit,      \* the DTMF digit the caller pressed
    fellBack,   \* the fallback webhook answered the call
    hungUp,     \* the caller hung up
    fault       \* the failures that hit this call

record == <<state, meta, ttl>>
history == <<contact, digit, fellBack, hungUp, fault>>
vars == <<state, meta, ttl, proc, phase, caller,
          contact, digit, fellBack, hungUp, fault>>

Handlers == {"incoming", "gather", "status"}

\* CallStateMetadata: "plain" holds the two numbers, "attested" also the STIR
\* attestation; "blank" is the record made up when the field is missing.
Metadata == {"plain", "attested", "blank"}

\* "incoming" and "gather": Twilio waits for that webhook.
Phases == {"idle", "incoming", "gathering", "gather", "dialing", "recording",
           "rejected", "fallback", "ended"}

\* "ready": not called yet; "reply": about to answer; "done": returned or
\* raised; "swallowed": the ValueError of the status webhook was ignored.
Operations == CallStatus \cup {"create", "settings", "lookup", "stir",
                               "ready", "reply", "done", "swallowed"}
Steps == {"state", "meta", "write", "expire", "none"}

Progress == [op   : Operations,
             step : Steps,
             saw  : CallStatus \cup {Absent},   \* the state transition read
             got  : Metadata \cup {Absent}]     \* the metadata it read

TypeOK ==
    /\ state \in [Calls -> CallStatus \cup {Absent}]
    /\ meta \in [Calls -> Metadata \cup {Absent}]
    /\ ttl \in [Calls -> BOOLEAN]
    /\ proc \in [Calls -> [Handlers -> Progress]]
    /\ phase \in [Calls -> Phases]
    /\ caller \in [Calls -> {"emergency", "ordinary"}]
    /\ contact \in [Calls -> {"unknown", "none", "whitelist", "blocklist"}]
    /\ digit \in [Calls -> {"none", "1", "2", "other"}]
    /\ fellBack \in [Calls -> BOOLEAN]
    /\ hungUp \in [Calls -> BOOLEAN]
    /\ fault \in [Calls -> SUBSET FaultKinds]
    /\ \A c \in Calls : state[c] # Absent \/ ttl[c] => meta[c] # Absent

FirstStep(o) ==
    CASE o \in CallStatus -> "state"
      [] o = "create"     -> "write"
      [] o = "stir"       -> "meta"
      [] OTHER            -> "none"

Begin(o) == [op |-> o, step |-> FirstStep(o), saw |-> Absent, got |-> Absent]

Init ==
    /\ state = [c \in Calls |-> Absent]
    /\ meta = [c \in Calls |-> Absent]
    /\ ttl = [c \in Calls |-> FALSE]
    /\ proc = [c \in Calls |-> [h \in Handlers |-> Begin("ready")]]
    /\ phase = [c \in Calls |-> "idle"]
    /\ caller \in [Calls -> {"emergency", "ordinary"}]
    /\ contact = [c \in Calls |-> "unknown"]
    /\ digit = [c \in Calls |-> "none"]
    /\ fellBack = [c \in Calls |-> FALSE]
    /\ hungUp = [c \in Calls |-> FALSE]
    /\ fault = [c \in Calls |-> {}]

\* The key is there iff its hash has a field; "metadata" is in every write.
Exists(c) == meta[c] # Absent

InFlight(c, h) == proc[c][h].op \notin {"ready", "done", "swallowed"}

Goto(c, h, o) == proc' = [proc EXCEPT ![c][h] = Begin(o)]

-----------------------------------------------------------------------------
(* The handlers, one operation after the other.                            *)

\* What incoming_call does after an operation that is not the lookup.
AfterIncoming(o) ==
    CASE o = "create"        -> "settings"
      [] o = "settings"      -> "TRIAGE"
      [] o = "TRIAGE"        -> "lookup"
      [] o = "stir"          -> "NUMBER_LOOKUP"
      [] o = "NUMBER_LOOKUP" -> "SCREENING"
      [] OTHER               -> "reply"      \* FORWARDING, BLOCKING, SCREENING

\* Plausible bug: only DECIDING is recorded, not what was decided.
MutantAfterGather(o, d) ==
    CASE o = "settings" -> "DECIDING"
      [] OTHER          -> "reply"

\* What gather_handler does after an operation, by the digit.
AfterGather(o, d) ==
    CASE o = "settings"              -> "DECIDING"
      [] o = "DECIDING" /\ d = "1"   -> "FORWARDING"
      [] o = "DECIDING" /\ d # "1"   -> "MESSAGING"
      [] OTHER                       -> "reply"

NextOperation(c, h) ==
    CASE h = "incoming" -> AfterIncoming(proc[c][h].op)
      [] h = "gather"   -> AfterGather(proc[c][h].op, digit[c])
      [] h = "status"   -> "done"

\* Where the branches of incoming_call on the contact lead; without a listed
\* contact the STIR header, if there is one, is stored first.
AfterLookup(kind) ==
    CASE kind = "whitelist" -> {"FORWARDING"}
      [] kind = "blocklist" -> {"BLOCKING"}
      [] kind = "none"      -> {"stir", "NUMBER_LOOKUP"}

\* Plausible bug: any listed contact is forwarded.
MutantTwiMLAnyContact(c, h) ==
    CASE h = "incoming" /\ caller[c] = "emergency"                 -> "dialing"
      [] h = "incoming" /\ contact[c] \in {"whitelist", "blocklist"} -> "dialing"
      [] h = "gather" /\ digit[c] = "1"                            -> "dialing"
      [] h = "gather" /\ digit[c] = "2"                            -> "recording"
      [] h = "gather" /\ digit[c] = "other"                        -> "rejected"
      [] OTHER                                                     -> "gathering"

\* Plausible bug: emergency callbacks are greeted like everybody else.
MutantTwiMLNoEmergency(c, h) ==
    CASE h = "incoming" /\ contact[c] = "whitelist"  -> "dialing"
      [] h = "incoming" /\ contact[c] = "blocklist"  -> "rejected"
      [] h = "gather" /\ digit[c] = "1"              -> "dialing"
      [] h = "gather" /\ digit[c] = "2"              -> "recording"
      [] h = "gather" /\ digit[c] = "other"          -> "rejected"
      [] OTHER                                       -> "gathering"

\* The TwiML that handler h answers with, as the phase it puts the call in.
TwiML(c, h) ==
    CASE h = "incoming" /\ caller[c] = "emergency"   -> "dialing"
      [] h = "incoming" /\ contact[c] = "whitelist"  -> "dialing"
      [] h = "incoming" /\ contact[c] = "blocklist"  -> "rejected"
      [] h = "gather" /\ digit[c] = "1"              -> "dialing"
      [] h = "gather" /\ digit[c] = "2"              -> "recording"
      [] h = "gather" /\ digit[c] = "other"          -> "rejected"
      [] OTHER                                       -> "gathering"

\* The first operation of gather_handler, by the digit.
GatherStart(d) ==
    CASE d = "1" -> "settings"
      [] d = "2" -> "DECIDING"
      [] OTHER   -> "FAILED"

\* Plausible bug: the exception is swallowed and nothing is answered.
MutantAbandon(c, h) ==
    /\ Goto(c, h, "done")
    /\ UNCHANGED phase

\* The handler ends without TwiML; if Twilio still waits, it falls back.
Abandon(c, h) ==
    /\ Goto(c, h, "done")
    /\ phase' = IF phase[c] = h THEN [phase EXCEPT ![c] = "fallback"] ELSE phase

-----------------------------------------------------------------------------
(* CallStateMachine, one action per access to Redis.                       *)

\* Plausible bug: transition no longer looks into the table.
MutantPermitted(c, h) == state[c] # Absent

Permitted(c, h) ==
    /\ state[c] # Absent
    /\ proc[c][h].op \in AllowedTransitions[state[c]]

\* transition: get_state, and the table allows the step.
ReadState(c, h) ==
    /\ proc[c][h].step = "state"
    /\ Permitted(c, h)
    /\ proc' = [proc EXCEPT ![c][h] = [@ EXCEPT !.step = "meta", !.saw = state[c]]]
    /\ UNCHANGED <<record, phase, caller, history>>

\* transition raises ValueError: incoming and gather answer 500, the status
\* webhook ignores it.
Refuse(c, h) ==
    /\ proc[c][h].step = "state"
    /\ ~Permitted(c, h)
    /\ \/ /\ h # "status"
          /\ Abandon(c, h)
       \/ /\ h = "status"
          /\ proc' = [proc EXCEPT ![c][h] = [@ EXCEPT !.op = "swallowed",
                                                      !.step = "none",
                                                      !.saw = state[c]]]
          /\ UNCHANGED phase
    /\ UNCHANGED <<record, caller, history>>

\* Plausible bug: no record is made up when the metadata is missing.
MutantReadMetaNoBlank(c, h) ==
    /\ proc[c][h].step = "meta"
    /\ proc[c][h].op = "stir" => meta[c] # Absent
    /\ proc' = [proc EXCEPT ![c][h] =
                   [@ EXCEPT !.step = "write",
                             !.got = IF proc[c][h].op = "stir" THEN "attested"
                                     ELSE meta[c]]]
    /\ UNCHANGED <<record, phase, caller, history>>

\* hget metadata; transition makes up a blank one if the field is missing.
ReadMeta(c, h) ==
    /\ proc[c][h].step = "meta"
    /\ proc[c][h].op = "stir" => meta[c] # Absent
    /\ proc' = [proc EXCEPT ![c][h] =
                   [@ EXCEPT !.step = "write",
                             !.got = IF proc[c][h].op = "stir" THEN "attested"
                                     ELSE IF meta[c] = Absent THEN "blank"
                                     ELSE meta[c]]]
    /\ UNCHANGED <<record, phase, caller, history>>

\* set_metadata raises ValueError when there is no metadata.
RefuseMeta(c, h) ==
    /\ proc[c][h].step = "meta"
    /\ proc[c][h].op = "stir"
    /\ meta[c] = Absent
    /\ Abandon(c, h)
    /\ UNCHANGED <<record, caller, history>>

\* hset: both fields, whatever they are by now (set_metadata: one field).
\* A key that hset creates has no expiry.
Write(c, h) ==
    /\ proc[c][h].step = "write"
    /\ LET o == proc[c][h].op
       IN  /\ state' = IF o = "stir" THEN state
                       ELSE [state EXCEPT ![c] = IF o = "create" THEN "INCOMING" ELSE o]
           /\ meta' = [meta EXCEPT ![c] = IF o = "create" THEN "plain"
                                          ELSE proc[c][h].got]
    /\ proc' = [proc EXCEPT ![c][h] = [@ EXCEPT !.step = "expire"]]
    /\ UNCHANGED <<ttl, phase, caller, history>>

\* Plausible bug: create forgets the expiry.
MutantSetExpiry(c, h) ==
    /\ proc[c][h].step = "expire"
    /\ ttl' = [ttl EXCEPT ![c] = IF proc[c][h].op = "create" THEN @ ELSE Exists(c)]
    /\ Goto(c, h, NextOperation(c, h))
    /\ UNCHANGED <<state, meta, phase, caller, history>>

\* expire(key, 3600), a no-op on a key that is gone.
SetExpiry(c, h) ==
    /\ proc[c][h].step = "expire"
    /\ ttl' = [ttl EXCEPT ![c] = Exists(c)]
    /\ Goto(c, h, NextOperation(c, h))
    /\ UNCHANGED <<state, meta, phase, caller, history>>

-----------------------------------------------------------------------------
(* The database reads and the answers.                                     *)

\* _get_user_settings
ReadSettings(c, h) ==
    /\ proc[c][h].op = "settings"
    /\ Goto(c, h, NextOperation(c, h))
    /\ UNCHANGED <<record, phase, caller, history>>

\* _lookup_contact: the list may hold anything, the API edits it at any time.
LookupContact(c) ==
    /\ proc[c]["incoming"].op = "lookup"
    /\ \E kind \in {"none", "whitelist", "blocklist"} :
          /\ contact' = [contact EXCEPT ![c] = kind]
          /\ \E o \in AfterLookup(kind) : Goto(c, "incoming", o)
    /\ UNCHANGED <<record, phase, caller, digit, fellBack, hungUp, fault>>

\* The answer takes effect only if Twilio still waits for it.
Reply(c, h) ==
    /\ proc[c][h].op = "reply"
    /\ Goto(c, h, "done")
    /\ phase' = IF phase[c] = h THEN [phase EXCEPT ![c] = TwiML(c, h)] ELSE phase
    /\ UNCHANGED <<record, caller, history>>

\* fallback(): no state, no database.
AnswerFallback(c) ==
    /\ phase[c] = "fallback"
    /\ phase' = [phase EXCEPT ![c] = "dialing"]
    /\ fellBack' = [fellBack EXCEPT ![c] = TRUE]
    /\ UNCHANGED <<record, proc, caller, contact, digit, hungUp, fault>>

-----------------------------------------------------------------------------
(* Twilio and the caller.                                                  *)

\* The first operation of incoming_call: emergency callbacks are answered
\* before the record is created.
IncomingStart(who) == IF who = "emergency" THEN "reply" ELSE "create"

IncomingCall(c) ==
    /\ phase[c] = "idle"
    /\ phase' = [phase EXCEPT ![c] = "incoming"]
    /\ Goto(c, "incoming", IncomingStart(caller[c]))
    /\ UNCHANGED <<record, caller, history>>

Press(c, d) ==
    /\ phase[c] = "gathering"
    /\ phase' = [phase EXCEPT ![c] = "gather"]
    /\ digit' = [digit EXCEPT ![c] = d]
    /\ Goto(c, "gather", GatherStart(d))
    /\ UNCHANGED <<record, caller, contact, fellBack, hungUp, fault>>

\* Nobody pressed a digit, the dial or the recording is over, or Reject.
CallEnds(c) ==
    /\ phase[c] \in {"gathering", "dialing", "recording", "rejected"}
    /\ phase' = [phase EXCEPT ![c] = "ended"]
    /\ UNCHANGED <<record, proc, caller, history>>

\* The caller may hang up at any time, also while a webhook is in flight.
HangUp(c) ==
    /\ phase[c] \notin {"idle", "ended", "rejected"}
    /\ phase' = [phase EXCEPT ![c] = "ended"]
    /\ hungUp' = [hungUp EXCEPT ![c] = TRUE]
    /\ UNCHANGED <<record, proc, caller, contact, digit, fellBack, fault>>

\* call_status acts on completed, no-answer, busy and canceled ("completed"
\* stands for the four); "failed" is not in its list.
CallStatusWebhook(c, s) ==
    /\ phase[c] = "ended"
    /\ proc[c]["status"].op = "ready"
    /\ Goto(c, "status", IF s = "completed" THEN "COMPLETED" ELSE "done")
    /\ UNCHANGED <<record, phase, caller, history>>

\* An hour passes without a write: only a dialled call lasts that long, and
\* a handler of a live call does not run that long.
Vanish(c) ==
    /\ Exists(c) /\ ttl[c]
    /\ phase[c] \in {"dialing", "ended"}
    /\ state' = [state EXCEPT ![c] = Absent]
    /\ meta' = [meta EXCEPT ![c] = Absent]
    /\ ttl' = [ttl EXCEPT ![c] = FALSE]

Expire(c) ==
    /\ Vanish(c)
    /\ ~InFlight(c, "incoming") /\ ~InFlight(c, "gather")
    /\ UNCHANGED <<proc, phase, caller, history>>

-----------------------------------------------------------------------------
(* Failures.                                                               *)

Hit(c, f) ==
    /\ f \in Faults
    /\ fault' = [fault EXCEPT ![c] = @ \cup {f}]

\* A Redis command raises; it may have been executed all the same.
RedisError(c, h) ==
    /\ proc[c][h].step # "none"
    /\ Hit(c, "redis")
    /\ Abandon(c, h)
    /\ UNCHANGED <<caller, contact, digit, fellBack, hungUp>>
    /\ \/ UNCHANGED record
       \/ /\ proc[c][h].step = "expire"
          /\ ttl' = [ttl EXCEPT ![c] = Exists(c)]
          /\ UNCHANGED <<state, meta>>

\* The handler has read from the database: get_db has a transaction to end.
HasRead(c, h) ==
    \/ h = "incoming" /\ caller[c] = "ordinary"
    \/ h = "gather" /\ digit[c] = "1"

\* A query raises, or else the commit of get_db behind the handler, while its
\* answer has not left yet.
DatabaseError(c, h) ==
    /\ \/ proc[c][h].op \in {"settings", "lookup"}
       \/ proc[c][h].op = "reply" /\ HasRead(c, h)
    /\ Hit(c, "db")
    /\ Abandon(c, h)
    /\ UNCHANGED <<record, caller, contact, digit, fellBack, hungUp>>

\* Twilio waits no longer; the handler does not know.
WebhookTimeout(c) ==
    /\ phase[c] \in {"incoming", "gather"}
    /\ Hit(c, "timeout")
    /\ phase' = [phase EXCEPT ![c] = "fallback"]
    /\ UNCHANGED <<record, proc, caller, contact, digit, fellBack, hungUp>>

\* The key expires under a handler Twilio gave up on long ago.
ExpireUnderHandler(c) ==
    /\ Vanish(c)
    /\ InFlight(c, "incoming") \/ InFlight(c, "gather")
    /\ Hit(c, "stall")
    /\ UNCHANGED <<proc, phase, caller, contact, digit, fellBack, hungUp>>

\* The process dies with all its coroutines; Redis keeps what was written.
Crash ==
    LET lost == {c \in Calls : \E h \in Handlers : InFlight(c, h)}
    IN  /\ "crash" \in Faults
        /\ lost # {}
        /\ proc' = [c \in Calls |-> [h \in Handlers |->
                       IF InFlight(c, h) THEN Begin("done") ELSE proc[c][h]]]
        /\ phase' = [c \in Calls |-> IF phase[c] \in {"incoming", "gather"}
                                     THEN "fallback" ELSE phase[c]]
        /\ fault' = [c \in Calls |-> IF c \in lost THEN fault[c] \cup {"crash"}
                                     ELSE fault[c]]
        /\ UNCHANGED <<record, caller, contact, digit, fellBack, hungUp>>

\* The backend is still down: the fallback webhook or the status webhook
\* finds nobody, and Twilio does not repeat it.
FallbackUnreachable(c) ==
    /\ phase[c] = "fallback"
    /\ Hit(c, "crash")
    /\ phase' = [phase EXCEPT ![c] = "ended"]
    /\ UNCHANGED <<record, proc, caller, contact, digit, fellBack, hungUp>>

StatusUnreachable(c) ==
    /\ phase[c] = "ended"
    /\ proc[c]["status"].op = "ready"
    /\ Hit(c, "crash")
    /\ Goto(c, "status", "done")
    /\ UNCHANGED <<record, phase, caller, contact, digit, fellBack, hungUp>>

-----------------------------------------------------------------------------
HandlerStep(c, h) ==
    \/ ReadState(c, h) \/ Refuse(c, h) \/ ReadMeta(c, h) \/ RefuseMeta(c, h)
    \/ Write(c, h) \/ SetExpiry(c, h) \/ ReadSettings(c, h) \/ Reply(c, h)

Backend(c) ==
    \/ \E h \in Handlers : HandlerStep(c, h)
    \/ LookupContact(c)
    \/ AnswerFallback(c)

Twilio(c) ==
    \/ IncomingCall(c)
    \/ \E d \in {"1", "2", "other"} : Press(c, d)
    \/ CallEnds(c)
    \/ HangUp(c)
    \/ \E s \in {"completed", "failed"} : CallStatusWebhook(c, s)

Failure(c) ==
    \/ \E h \in Handlers : RedisError(c, h) \/ DatabaseError(c, h)
    \/ WebhookTimeout(c)
    \/ ExpireUnderHandler(c)
    \/ FallbackUnreachable(c)
    \/ StatusUnreachable(c)

\* Every call is over and its record gone.
Finished ==
    /\ \A c \in Calls : phase[c] = "ended" /\ \A h \in Handlers : ~InFlight(c, h)
    /\ UNCHANGED vars

Next ==
    \/ \E c \in Calls : Backend(c) \/ Twilio(c) \/ Expire(c) \/ Failure(c)
    \/ Crash
    \/ Finished

\* The event loop runs every coroutine that can run; a phase of a call does
\* not last for ever (gather, dial and recording have time limits); Twilio
\* reports the end of a call; Redis expires keys.
Fairness ==
    \A c \in Calls :
        /\ WF_vars(Backend(c))
        /\ WF_vars(CallEnds(c))
        /\ WF_vars(\E s \in {"completed", "failed"} : CallStatusWebhook(c, s))
        /\ WF_vars(Expire(c))

SafeSpec == Init /\ [][Next]_vars
Spec == SafeSpec /\ Fairness

-----------------------------------------------------------------------------
(* The life cycle a reader of the records sees (CallLifecycle).            *)

NotYetCreated(c) ==
    \/ phase[c] = "idle"
    \/ proc[c]["incoming"].op = "create" /\ proc[c]["incoming"].step = "write"

\* The state in the record, as far as there is one.
StatusOf(c) ==
    CASE state[c] # Absent -> state[c]
      [] OTHER             -> IF NotYetCreated(c) THEN "NEW" ELSE "GONE"

\* The calls whose record expired under a handler of incoming or gather.
Late == {c \in Calls : "stall" \in fault[c]}

Lifecycle == INSTANCE CallLifecycle WITH status <- [c \in Calls |-> StatusOf(c)],
                                         late <- Late

\* The records implement the life cycle: a record is opened once, and moves
\* only along the table, although transition checks and writes in separate
\* steps (call_state.py:140-185).  A record that is gone comes back only as
\* COMPLETED, or else because a handler stalled for longer than the TTL; also
\* then it is never opened again, and moves along the table from where it is.
ImplementsLifecycle == Lifecycle!Spec

-----------------------------------------------------------------------------
(* Properties.                                                             *)

\* The state that transition read is still in the record when it writes: no
\* two handlers of a call ever race between hget and hset, whatever fails
\* (call_state.py:142-173 takes no lock and uses no transaction).
ReadStillCurrent ==
    \A c \in Calls, h \in Handlers :
        proc[c][h].op \in CallStatus /\ proc[c][h].step \in {"meta", "write"}
            => state[c] \in {proc[c][h].saw, Absent}

\* A record that exists moves only along ALLOWED_TRANSITIONS, the "strict
\* state machine" of call_state.py:34-58, under every interleaving.
AllowedSteps ==
    [][\A c \in Calls :
          state[c] # Absent /\ state'[c] # Absent /\ state'[c] # state[c]
              => state'[c] \in AllowedTransitions[state[c]]]_state

\* The STIR attestation that incoming_call stored is never overwritten by a
\* handler that read the metadata before (call_state.py:207-224).
AttestationNeverLost ==
    [][\A c \in Calls : meta[c] = "attested" => meta'[c] \in {"attested", Absent}]_meta

\* The callee's phone rings only for an emergency callback, a whitelisted
\* caller, a caller who pressed 1, or through the fallback
\* (webhooks.py:181-252).
ScreeningNotBypassed ==
    \A c \in Calls :
        phase[c] = "dialing" /\ caller[c] = "ordinary" =>
            contact[c] = "whitelist" \/ digit[c] = "1" \/ fellBack[c]

\* Unless the fallback took over, the record agrees with what Twilio is doing
\* with the call: the transitions come before the answer (webhooks.py:195-261).
\* An emergency callback leaves none; made-up metadata without the numbers
\* (call_state.py:160-165) is that of a call that is over, unless a handler
\* stalled for longer than the TTL.
RecordTellsTheCall ==
    \A c \in Calls :
        /\ caller[c] = "ordinary" /\ ~fellBack[c] =>
              /\ phase[c] = "dialing"   => state[c] \in {"FORWARDING", Absent}
              /\ phase[c] = "recording" => state[c] = "MESSAGING"
              /\ phase[c] = "gathering" => state[c] = "SCREENING"
              /\ phase[c] = "rejected"  => state[c] \in {"BLOCKING", "FAILED"}
        /\ caller[c] = "emergency" => ~Exists(c)
        /\ meta[c] = "blank" => state[c] = "COMPLETED" \/ "stall" \in fault[c]

\* The webhooks never answer 500 on their own account: a call reaches the
\* fallback, which skips the screening, only after a failure around them; an
\* emergency callback only after a timeout or a crash, because it needs neither
\* Redis nor the database (webhooks.py:180-186).
OnlyFaultsReachFallback ==
    \A c \in Calls : phase[c] = "fallback" \/ fellBack[c] =>
        /\ fault[c] # {}
        /\ caller[c] = "emergency" => fault[c] \cap {"timeout", "crash"} # {}

\* An emergency callback rings, whatever Redis, the database or Twilio's
\* patience do, unless the caller hangs up or the backend is down.
EmergencyRings ==
    \A c \in Calls :
        phase[c] = "incoming" /\ caller[c] = "emergency"
            ~> phase[c] = "dialing" \/ hungUp[c] \/ "crash" \in fault[c]

\* Every caller gets an answer: greeted, connected or rejected, with the
\* fallback behind the handlers.
CallersAnswered ==
    \A c \in Calls :
        phase[c] \in {"incoming", "gather"}
            ~> \/ phase[c] \in {"gathering", "dialing", "recording", "rejected"}
               \/ hungUp[c] \/ "crash" \in fault[c]

\* Every record is reclaimed in the end, unless Redis or the backend failed
\* while one of its writes was under way.
RecordReclaimed ==
    \A c \in Calls :
        Exists(c) ~> ~Exists(c) \/ fault[c] \cap {"redis", "crash"} # {}
=============================================================================
