# CallScreen in TLA+

TLA+ modules, model-checking configurations and proofs for CallScreen, the
call-screening backend in `src/backend`. Paths below are relative to
`src/backend/src/callscreen` unless they start with `src/`, `README.md` or
`CONTRIBUTING.md` (the repository's own).

Check a run with `tlc -workers 2 -config <cfg> <module>`, the proofs with
`tlapm <module>.tla` for the eight modules named `...Proofs`.

## 1. Inventory

A caller dials a Twilio number. Twilio asks the backend what to do by HTTP
webhooks; the backend answers with TwiML and keeps a record of the call in
Redis. Settings, contacts, messages and call records are in PostgreSQL,
recordings in S3. Every handler is a coroutine on one event loop: each `await`
is a point where other handlers, Twilio, Redis' clock and failures come in.

| Component | State it keeps | Operations | What is hard | What makes it correct |
|---|---|---|---|---|
| Call state machine, `core/call_state.py` | Redis hash `call_state:{sid}`: state, metadata, expiry | create, transition, set_metadata | read, check, write and expire are separate commands, without a lock; the key expires | the table is obeyed; nothing is lost or undone; every record is reclaimed |
| Webhooks, `api/v1/webhooks.py` | none of its own | incoming, gather, status, recording, fallback | hang-ups and Twilio's timeouts overlap handlers; Redis, database and process fail | nobody rings through unscreened; every caller is answered; emergencies always ring; the record matches the call |
| Forwarding, `webhooks.py:46-154`, `api/v1/settings.py`, `config.py` | `user_settings` rows, environment | GET, PUT, resolution of the destination | concurrent requests create or edit one row; rows are created as a side effect of reading | the right telephone rings; edits are not lost |
| AI screening, `core/screening.py` | one conversation per call, in memory | start_screening, handle_transcript, end_screening | methods overlap while they wait for the LLM; the LLM fails or answers oddly | classified in time, bounded, the result agrees with what the caller was told |
| Emergency detection, `core/emergency.py` | a set of extra numbers | is_emergency_number | must not depend on anything | additive only, instant |
| Voice sessions and media streams, `voice/session.py`, `api/ws/media_stream.py` | registry of sessions by call | connect, media, disconnect | reconnects: two connections share or replace a session | a live connection has its session; no session is left behind |
| Speech to text, `voice/stt/deepgram_provider.py` | a queue per stream | streaming, batch with retries | callbacks, sentinel, cancellation, retries | nothing is yielded after the end, the feed task always stops, a success after failed attempts counts |
| Recordings, `core/recording.py`, `core/storage.py` | S3 objects, columns of `call_records` | background task of the recording webhook | three stores and one session, duplicated callbacks, one step failing, a crash | a recording that met no fault is stored, referenced, transcribed and summarized; what is referenced exists |
| Messages, `messaging/` | `messages`, `message_deliveries` | process, deliver with retry, fork to the caretaker, digests | retries after lost answers, partial failure, crash between flush and send | rows and status truthful, duplicates only after a lost answer, the caretaker told exactly when asked for |
| Scheduled tasks, `tasks/scheduled.py` | flags in `number_intel`; nothing about digests | sync, aggregate, digests | Celery redelivers or drops tasks; one phase or one user fails; late runs | reported numbers are flagged in the end; no message is missed or doubled without a reason |
| Number intelligence, `intelligence/` | cached `number_intel` rows, community reports | get_intel, submit_report, aggregate | lookups and the daily task write the same rows; providers fail | flags never lost, a row is of one piece, scores bounded and monotone |
| Rate limiter, `security/rate_limiter.py` | sorted set per client in Redis | one dependency | the clock is read before the pipeline; equal times are one member; rejected requests count too; Redis down | at most the limit per window; nobody refused without a cause |
| Personas, `ai/` | in-memory conversations | select, respond | time-driven escalation | bounded engagement |
| CRUD API, `api/v1/` | rows | check, then insert | concurrent requests | uniqueness |
| MCP server, adapters, templates, middleware, schemas, migrations, frontend, docker, scripts | none or presentation | | | not modelled |

Interactions: webhooks call the state machine and the database; the fallback
webhook calls nothing; the recording webhook starts a background task that talks
to Twilio, S3, the transcriber, the LLM and the database.  The daily Celery tasks
write the rows lookups write and read the messages deliveries write. The media stream feeds voice sessions; the screening
orchestrator takes transcript segments and is not yet wired to the webhooks
(nothing in the repository calls it but its tests), nor does any code create a
`CallRecord`. The hazards of the code, with the lines they bite at and the
properties aimed at them, are listed in `PROJECT.json`.

## 2. Modules

| Module | Models | Kind |
|---|---|---|
| `CallState` | `CallStatus`, `ALLOWED_TRANSITIONS` | constants |
| `CallLifecycle` | what a reader of the records may observe | abstract specification |
| `Webhooks` | webhooks and Redis record, await by await, with Twilio, the caller and failures | state machine |
| `WebhooksProofs` | theorems about `Webhooks`, among them that it implements `CallLifecycle` | proofs |
| `MCWebhooks` | the failures of a run | TLC |
| `Forwarding`, `MCForwarding` | settings API and destination of a call | state machine, TLC |
| `ForwardingProofs` | theorems about `Forwarding` | proofs |
| `Screening`, `MCScreening` | the screening orchestrator | state machine, TLC |
| `ScreeningProofs` | theorems about `Screening` | proofs |
| `Delivery`, `MCDelivery` | processor, delivery with retries, caretaker fork, forward endpoint | state machine, TLC |
| `DeliveryLedger` | what the deliveries of a message promise: at-least-once sending with honest books | abstract specification |
| `DeliveryProofs` | theorems about `Delivery`, among them that it implements `DeliveryLedger` | proofs |
| `Digest`, `MCDigest` | the daily digests under Celery | state machine, TLC |
| `TrustScore` | the composite trust score and the community score | functions |
| `Intel`, `MCIntel` | lookups, reports and the blocklist task over `number_intel`; extends `TrustScore` | state machine, TLC |
| `IntelProofs` | theorems about `TrustScore` and `Intel` | proofs |
| `Recording`, `MCRecording` | the recording callback and its background task | state machine, TLC |
| `BackgroundProofs` | theorems about `Digest` and about `Recording` | proofs |
| `VoiceSessions`, `MCVoiceSessions` | session registry and WebSocket connections | state machine, TLC |
| `VoiceSessionsProofs` | theorems about `VoiceSessions` | proofs |
| `SpeechStream` | one streaming transcription | state machine, checked as it is |
| `ResultStream` | what a streaming transcription promises its consumer | abstract specification |
| `SpeechStreamProofs` | theorems about `SpeechStream`, among them that it implements `ResultStream` | proofs |

Operators named `Mutant...` are plausible bugs. No specification uses them; each
replaces the definition it stands before to show that a property notices.

### Webhooks

State and code:

- `state`, `meta`, `ttl`: the two fields and the expiry of `call_state:{sid}`.
  Metadata is "plain" (the numbers), "attested" (with `stir_attestation`) or
  "blank" (the record `transition` makes up at `call_state.py:160-165`).
- `proc[c][h]`: the progress of handler `h` ("incoming", "gather", "status").
  An operation is a `CallStatus` (a call of `transition`), or `create`,
  `settings` (`_get_user_settings`), `lookup` (`_lookup_contact`), `stir`
  (`set_metadata`), `reply` (the return). `AfterIncoming`, `AfterGather`,
  `AfterLookup` and `GatherStart` are the control flow of the handlers.
- `saw`, `got`: the local variables `current_state` and `metadata` of
  `transition`. One action per Redis command: `ReadState`/`Refuse` (hget state
  and the check of the table), `ReadMeta`/`RefuseMeta` (hget metadata), `Write`
  (hset), `SetExpiry` (expire).
- `phase`: what Twilio does with the call. "incoming" and "gather" mean that it
  waits for that webhook; `Reply` changes the phase only if it still waits.
- `contact`, `digit`, `fellBack`, `hungUp`, `fault`: what happened to the call,
  read by the branches and the properties.

Twilio is the environment. It delivers each webhook at most once (`incoming`
once, `gather` once per pressed digit, and the TwiML of `gather` never gathers
again; `status` once, when the call is over), follows the TwiML, and uses the
fallback URL when a webhook fails, times out or answers 500. Twilio's own
repetition of webhooks is not modelled. A caller may hang up at any time.

Failures, each switched on by the constant `Faults`: "redis" (a command raises,
executed or not), "db" (a query raises, or the commit of `get_db` behind a handler
that has read, before its answer has left), "timeout" (Twilio gives up while the
handler keeps running), "stall" (a handler is suspended for longer than the TTL
of its record, so the key expires under it), "crash" (the process dies with its
coroutines; while it is down, fallback and status webhooks may be lost).

The TTL is an hour. `Expire` therefore needs a call that lasts that long
without a write (dialled, or over) and, without "stall", no webhook of the live
call in flight. The status webhook may be in flight: that is how a record comes
back as COMPLETED after it vanished.

### CallLifecycle

For every reader of the records: opened at most once as INCOMING, moved along
the table, gone at any time, and back, if ever, only as COMPLETED, unless the
record vanished under a handler still at work on the call (`late`): that one may bring
it back in any state but INCOMING, from where it moves along the table again.
`Webhooks!Lifecycle` instantiates it with the refinement mapping: the state in
the record; "NEW" before `create` has written; "GONE" afterwards when there is
no record, or only a STIR attestation stored after it had gone. `late` is the set of
calls hit by "stall"; without that failure it stays empty.

### Forwarding

`row[u]` is the `user_settings` row of `u` (or missing), with the forwarding
columns as set or empty; a request is its SELECT (`Select`) and its flush and
commit (`Commit`, or `Conflict` when the unique `user_id` refuses the second
INSERT). The ORM writes the columns whose value differs from the one read. A
call reads settings (`ReadSettings`) and is forwarded later (`Forward`), as
`incoming_call` does. `Rings` is the set of endpoints in the `<Dial>`; the empty
set is a `<Dial>` of the empty string. `TWILIO_PHONE_NUMBER` is assumed to be
set, as the README of the repository demands.

### Screening

`conv[i]` is the `_ConversationState` that the i-th start made; tasks keep it
across their awaits even if it was taken out of `_sessions` or replaced. A task
waits for `complete` ("reply") or `classify_intent` ("farewell" from
`handle_transcript`, "end" from `end_screening`). `Hear` is `handle_transcript`
up to its first await, `Reply` goes on from there; `Farewell` runs without an
await if the intent is known. The LLM's JSON is reduced to what
`_map_recommendation` and `_compute_trust_adjustment` tell apart: scam or not,
legitimate or not or neither, and a confidence that is negative, zero, positive and
below 0.7, or at least 0.7, or no number: `classify_intent` returns what the LLM sent,
and nothing checks it. `Trust` is the sign of the adjustment, that of the factor -1.0,
-0.5 or 0.5 (`Factor`) and the confidence together.

### Delivery

A task is one call of `process_call_to_message` ("process"), `deliver_message`
("deliver") or `forward_message` ("forward"), for one message. Its session holds
the rows it has added (`task[t].rows`, one per leg: the user and the caretaker)
and the messages row it loaded; `table` and `message` are what was committed.
Per `await` a step: `ReadSettings`, `Send` (one `adapter.send`), `AskCaretaker`,
`Commit`. The user's settings may be saved between them; `seen` is the row the
task works with. `accepted` counts what the provider behind the adapter took,
`lost` how often the adapter learned the contrary, so the properties compare the
rows with what really happened.

Failures: "lost" (the provider accepts, the adapter reports a failure),
"exception" (an adapter raises something other than `httpx.HTTPError`),
"rollback" (crash, cancelled request or failed statement; after a failed
statement a SQLAlchemy session refuses everything until it is rolled back, so
the rows of the task are lost and nothing more is sent). An operation ends "done"
(committed), "undone" (rolled back from outside) or "raised": `deliver_message` lets
an adapter's exception out, on whichever leg and attempt, and raises over a fork
threshold it cannot read; its rows go with it. The other two catch what an adapter
raises. `deliver_message` and
`process_call_to_message` have no caller outside the tests; the model lets them
be called at any time, `process` once for the call, and assumes that their caller
handles the session as `get_db` does. Users are never deleted, and
`messages.user_id` is a foreign key, so the branches for a missing user are
left out.

### DeliveryLedger

The books of all operations on one message. A copy is sent only while nobody knows of
one that got through; an operation closes its books once, for all its recipients, with
entries that say what happened, or with none if it fails; nothing is sent after that;
the status changes only with entries that justify it. `Delivery!Ledger` maps `open` to
the tasks that have not ended, `copies` to `accepted`, `doubts` to `lost`, `entry` to
the committed rows and `status` to that of the messages row. Retries, the order of the
legs, settings and caretakers are gone.

### Digest

`run[s]` is one delivery of `send_daily_digests` by the broker: queued, or with
the users whose turn is still to come. Messages are created at odd times and
digests made at even ones, so "within 24 hours" has no ties. `message` separates
the flush that dates a row from the commit that shows it, because a transaction
may be open while the digest is made. A digest (`Serve`) is the query, the
window counted from that moment, and one send; `got[m]` counts the digests that
reached the user with `m`. Nothing in the program notes that a message was in a
digest.

Faults: "adapter" (no adapter, a failed or raising send), "database" (a failed
statement; the session is shared by all users and never rolled back), "loop" (a
connection the pool kept from the event loop of the run before raises), "child"
(Celery acknowledges a task whose child process died as failed), "worker" (a task
whose worker is lost comes again, `task_acks_late`), "timeout" (the broker's
visibility timeout passes while the task runs). `excuse[u]` remembers which of
them befell the digests of `u`.

### TrustScore and Intel

`TrustScoreOf` is `calculate_trust_score`: eight weighted signals, of which the
absent ones take their weight with them. `Intel` has one table. `lookup[l]` is a
request of `get_intel`: `base` is the row it read, `mine` the row as the ORM
object stands, and `Write` sends the columns that differ (`Updated`) when no
transaction of the task holds the row. `job` is the task `sync_blocklists` with
its two transactions; `pending` is what the session has not flushed yet (the
flush comes with the next query), `held` the rows its transaction has locked. A
second INSERT of a number fails: a lookup is then answered with 500, a phase of
the task is rolled back as a whole and its error swallowed.

`Drivers` says whether `create_engine` finds a driver for the synchronous URL:
`psycopg2` is not among the dependencies, so as deployed it does not. Both builds
are checked. `listed` and `overlapped` are history for the properties. Reports
are counts per number; the daily beat, the list that is fetched, the answers of
providers and the passing of a day are the environment.

### Recording

`task[d]` is the background task of one delivery of the callback. `UseSession`
is one use of its database session: it may succeed, fail and leave the session
unusable, find no connection in the pool (and may succeed later), or be committed
although the answer is lost. An object key has the time in seconds, hence
`clock`. boto3 blocks the event loop, so `Upload` is one step. Faults: "download",
"bucket", "upload", "answer" (stored, but the answer lost), "database", "pool",
"speech" (an attempt of the transcriber fails), "summary" and "crash".
`constructor` is "bare" for the program as it is, in which
`DeepgramSTTProvider()` raises for want of its argument, and "keyed" for one that
passes a key: the code behind that line is checked too.

### VoiceSessions

A session is named after the connection that made it. `Connect` is the handler up
to its first `receive_text`, `Start` the event of that name, `End` every way out
of the loop with its `finally`. Sessions of the past stay in `session`, because a
connection keeps its reference after another one has ended the session. Nothing
is bounded but the number of connections.

### SpeechStream

`reader` is where the generator is, `feed` where `_feed_audio` is, `queue` the
segments and sentinels the callbacks put. A step ends at an await that really
waits: `segments.get()` on a queue that has something goes on at once (`Get`,
`Take`), and a task that is created runs only at the next wait. A feed that is
cancelled before its first step is "dropped": its `finally` never runs and
`CloseStream` is not sent. Cancelling the consumer while the generator waits for
the feed is swallowed by `except asyncio.CancelledError`.

Deepgram's SDK is modelled from its use: `start_listening` returns, callbacks come
between two steps of the event loop (some may come before it returns), `send_media`
and `send_close_stream` do not wait and raise on a broken socket. Results without a
text, and those whose `TranscriptSegment` is refused (a confidence above 1, a negative
time; logged and dropped, `deepgram_provider.py:85`), leave no trace and are left out;
the others are told apart by their number.
Nothing in the repository calls `transcribe_stream` yet, so the consumer and the
audio are arbitrary.

### ResultStream

Results are said, the stream is cut once by an error or a close, and the consumer hears
what was said before the cut, in order. It returns only if everything was heard, and
raises, once open, only if everything before the cut was. `SpeechStream!Stream` maps
`said` to the results that made a segment, `heard` to those yielded, `cut` to the number received
before the first sentinel, and `outcome` to where the generator is (`Seen`); queue,
sentinels, callbacks and feed are gone.

## 3. Runs

| Run | Config | Shows | Distinct states |
|---|---|---|---|
| `faults` | `MCWebhooks_faults.cfg` | one call, every interleaving of its webhooks, all five failures: safety, the refinement of `CallLifecycle`, and under fairness that emergencies ring, callers are answered and records reclaimed | 27,821 |
| `forwarding` | `MCForwarding_edits.cfg` | destinations of calls while two requests edit the settings of two users, in four environments | 4,630,140 |
| `screening` | `MCScreening_races.cfg` | three concurrent tasks, six utterances, one restart | 1,009,146 |
| `delivery` | `MCDelivery_faults.cfg` | two operations on one message, every failure | 1,844,899 |
| `digest` | `MCDigest_days.cfg` | two days, two users, two deliveries of the task at once, two faults of any kind | 4,106,875 |
| `intel` | `MCIntel_sync.cfg` | two lookups of a number while the blocklist task runs | 663,203 |
| `recording` | `MCRecording_faults.cfg` | two deliveries of a callback, every fault, both builds | 355,101 |
| `voice` | `MCVoiceSessions_overlap.cfg` | four connections to two calls | 1,622 |
| `speech` | `SpeechStream_order.cfg` | results, errors, the close, the end of the audio and a leaving consumer in every order | 11,025 |
| `others`, `trust`, `playback` | | the disagreements of section 5 | |

What the properties say and the code they are about stands at their definitions.
The central ones:

- `ReadStillCurrent` (`Webhooks`): the state `transition` read is still in the
  record when it writes, although nothing locks it. It holds because a call has
  one webhook at a time that may change it, and because COMPLETED is reachable
  only from states no other handler leaves; letting a hang-up complete a call in
  TRIAGE breaks it (and `AttestationNeverLost`) at once.
- `RecordTellsTheCall`: what Twilio does agrees with the record unless the
  fallback took over.
- `ScreeningNotBypassed`, `OnlyFaultsReachFallback`, `EmergencyRings`: nobody rings
  through unscreened, only real failures lead to the unscreened fallback, and an
  emergency callback rings whatever is down.
- `ImplementsLifecycle`: the refinement of `CallLifecycle`, stalled handlers included.
- `OwnersSettingsWin`, `PutsMerge` (`Forwarding`): the owner's settings decide, and
  no edit undoes another.
- `ClassifiedInTime`, `NothingHeardAfterEnd`, `FarewellIsResult` (`Screening`): with
  overlapping tasks a conversation is classified when it is due, the result accounts
  for all that was heard, and the caller is told what the result says.
- `ImplementsLedger` (`Delivery`): the refinement of `DeliveryLedger`, for operations
  that overlap and fail in any way.
- `LedgerHonest`, `LossExplained`, `DuplicatesOnlyAfterLoss` (`Delivery`) relate the
  rows to what the providers accepted: what is written is true, what is missing was
  rolled back or lost because `deliver_message` raised, over an unreadable threshold
  (the user's row) or out of an adapter (the user's row, if the caretaker's leg raised,
  or that of a copy whose answer was lost). `ForkIsIndependent` relates the
  caretaker's copy to the settings and not to the user's own delivery, `StatusTells` the aggregate
  status to the rows although the later of two deliveries overwrites it.
- `MissedExplained`, `TwiceExplained` (`Digest`): a message that no digest or two
  digests brought is explained by what befell the digests of that very user, or
  by a commit that came after the query.
- `FlagNeverLost`, `FlagsHaveCause`, `RowsAgree`, `ReportedIsFlagged` (`Intel`): a
  lookup that read a row before it was flagged does not clear the flag; line type
  and score of a row come from one refresh unless the last one overlapped another, a
  mixture that the next refresh to overlap none replaces; a number with
  enough reports is flagged in the end, although a phase that meets a number a
  lookup inserted meanwhile is rolled back whole.
- `NothingDropped`, `SummaryFits`, `VoicemailKept` (`Recording`): a delivery that met
  no fault leaves a reference to an object that exists, a transcript and a summary;
  `NothingUndone`: no later delivery, failure or crash takes them away again.
- `NoLeak`, `StreamIsLive`, `LostOnlyByOverlap` (`VoiceSessions`): with any overlap of
  connections no session is left behind and none sends into a closed stream; the
  price is that the first to end takes the session of the others away.
- `ImplementsStream`, `HeardBeforeEnd`, `FeedIsOver`, `EndsAtLast` (`SpeechStream`): it
  implements `ResultStream`, no error and no close overtakes a result, the feed never
  outlives the generator, and the transcription ends when the audio does.

### Bounds

- `Webhooks`: one call. Records, handlers and phases are per call and the
  actions of one call touch no other; only `Crash` spans calls, and it treats
  each on its own (two calls with crashes were explored once: 3,980,025 states).
  Nothing else is bounded: a call has at most one incoming, one gather and one
  status webhook, so the state space is finite. The theorems are for any set of
  calls.
- `Forwarding`: two users (the owner and another) and two requests in flight,
  enough for every pair of interleaved edits of one row. `MCForwarding` names the
  bodies a PUT sends and the environments. The requests are interchangeable.
- `Screening`: `MaxStarts` = 2 conversations, `MaxUtterances` = 6, one more than
  forces a classification; three tasks, so that an utterance, a farewell and an
  end overlap. The tasks are interchangeable, hence the symmetry. One LLM answer
  per recommendation in `screening`, all of them in `trust`. Deadlock is not
  checked there: after its last start and end the model has nothing left to do.
- `Delivery`: two tasks; either the processor and one that follows it, or, with a
  message committed earlier (`Earlier`), two deliveries or forwards at once, each
  with both its legs and up to `MAX_RETRIES` sends. `MaxEdits` = 1: the settings
  a task has read may be replaced under it. `NamedRows` has each threshold and one
  that is no priority, a channel without an adapter, a fork that is off and a missing
  row;
  `EveryPriority` each result of the mapping to a priority. Deadlock is not
  checked: the tasks end.
- `Digest`: `Day` = 4 ticks and `MaxTime` = 9, so that two beats, a late run and
  the messages before, between and after them fit; two slots, since a redelivery
  needs a run beside the first; `MaxFaults` = 2, so that one fault can follow
  from another (a lost worker, then a late run). Deadlock is not checked: time
  stops at `MaxTime`.
- `Intel`: two lookups of one number, which is all a race on a row needs, and a
  second number that only the task writes, so that a phase that fails on one
  number is seen to lose the other. `Histories` lets a number reach the threshold
  during the run. One fault (`MaxFaults` = 1); liveness needs a bound on them.
- `Recording`: two deliveries in two seconds (`MaxClock` = 1), so that both fall
  into one second or into two; two texts. Every fault may happen any number of
  times. Deadlock is not checked: the tasks end.
- `VoiceSessions`: three connections overlap on one call and a fourth comes when
  one has been cut off, or two on each of two calls; calls and connections are
  interchangeable. The theorems are for any number.
- `SpeechStream`: four results and two errors, so that segments wait on both sides of
  two sentinels and of the close. Deadlock is not checked: the transcription ends.

### Fairness

- `Webhooks!Fairness` is weak: on the steps of the backend for a call (the event
  loop runs every coroutine whose await is over, and Redis and the database answer
  or raise), on the end of a phase (Gather, Dial and Record have timeouts), on the
  status callback (unless it is lost, which "crash" allows) and on the expiry of
  keys. Nothing is assumed of callers and failures.
- `Intel!Fairness` is weak on the beat and the steps of the task together: the
  beat comes every day and a worker takes the task (`celery_app.py:15-34`). Nobody
  has to report, ask or wait for an answer, faults end because they are bounded,
  and the beat does not come while the task is in the queue.
- `Recording!RecordingSpec` is weakly fair to the steps of each background task, which the
  event loop runs on.
- `SpeechStream!Fairness` is weak on the generator and the feed (the event loop runs
  a coroutine whose await is over, and `start_listening` returns), on a consumer
  that got a segment (it asks for the next or leaves), and on the close of a socket
  that is broken or was told to close. Nobody has to leave, speak or fail.

The other modules state safety only. The type invariant of every state machine is
proved; the runs of `Webhooks` and `Digest` check it as well, the others do not repeat
it.

## 4. Proofs

For all values of the constants that satisfy the named assumptions:

| Theorem | States |
|---|---|
| `WebhooksProofs!TypeCorrect` | `SafeSpec => []TypeOK` |
| `WebhooksProofs!ReadsAreCurrent` | `SafeSpec => []ReadStillCurrent` |
| `WebhooksProofs!ScreeningHolds` | `SafeSpec => []ScreeningNotBypassed` |
| `WebhooksProofs!TableObeyed` | `SafeSpec => AllowedSteps` |
| `WebhooksProofs!RefinesLifecycle` | `SafeSpec => ImplementsLifecycle`; what a handler does that stalled past the TTL is part of `CallLifecycle` |
| `WebhooksProofs!AttestationKept` | `SafeSpec => AttestationNeverLost` |
| `WebhooksProofs!RecordTells` | `SafeSpec => []RecordTellsTheCall` |
| `WebhooksProofs!FallbackHasCause` | `SafeSpec => []OnlyFaultsReachFallback` |
| `WebhooksProofs!HealthyCallsAreScreened` | without failures, nobody meets the fallback, and only those may ring who should |
| `WebhooksProofs!EmergenciesNeedNoStore` | without timeouts and crashes, no emergency callback meets the fallback, whatever Redis and the database do |
| `VoiceSessionsProofs!VoiceTypeCorrect` | `Spec => []TypeOK` |
| `VoiceSessionsProofs!SessionsDoNotLeak` | `Spec => []NoLeak` |
| `VoiceSessionsProofs!StreamsAreLive` | `Spec => []StreamIsLive` |
| `VoiceSessionsProofs!LossNeedsOverlap` | `Spec => []LostOnlyByOverlap` |
| `IntelProofs!IntelTypeCorrect` | `Spec => []TypeOK` |
| `IntelProofs!FlagsAreCaused` | `Spec => []FlagsHaveCause` |
| `IntelProofs!FlagKept` | `Spec => FlagNeverLost` |
| `IntelProofs!RowsOfOnePiece` | `Spec => []RowsAgree`: one refresh, or a mixture of overlapping ones that the next single one ends |
| `IntelProofs!OnlyReportsFlag` | without a synchronous driver, only reports flag a number |
| `ScreeningProofs!ScreeningTypeCorrect` | `Spec => []TypeOK` |
| `ScreeningProofs!IntentIsKnown` | `Spec => []ClassifiedInTime` |
| `ScreeningProofs!ResultIsComplete` | `Spec => []NothingHeardAfterEnd` |
| `ScreeningProofs!FarewellsAgree` | `Spec => []FarewellIsResult` |
| `ScreeningProofs!OnlyScamsRaise` | `Spec => []RaisesOnlyForScams` |
| `ScreeningProofs!EndReturns` | if the LLM never gives a scam a confidence that is no number, `Spec => []EndReturnsResult` |
| `ScreeningProofs!OnlyNegativeRewards` | `Spec => []RewardsOnlyNegative`: only a negative confidence lets a blocked caller gain trust, and a forwarded one always does |
| `ScreeningProofs!OneAtATimeAgrees` | if the methods never overlap, every farewell is the recommendation of the result |
| `ForwardingProofs!ForwardingTypeCorrect` | `Spec => []TypeOK` |
| `ForwardingProofs!OwnerWins` | `Spec => []OwnersSettingsWin` |
| `ForwardingProofs!PutsDoMerge` | `Spec => PutsMerge` |
| `DeliveryProofs!DeliveryTypeCorrect` | `Spec => []TypeOK` |
| `DeliveryProofs!RefinesLedger` | `Spec => ImplementsLedger` |
| `DeliveryProofs!LedgerIsHonest` | `Spec => []LedgerHonest` |
| `DeliveryProofs!NoDuplicates` | `Spec => []DuplicatesOnlyAfterLoss` |
| `DeliveryProofs!StatusIsTold` | `Spec => []StatusTells` |
| `DeliveryProofs!ForksAlone` | `Spec => []ForkIsIndependent` |
| `DeliveryProofs!LossesAreExplained` | `Spec => []LossExplained` |
| `DeliveryProofs!ExactlyOnce` | if no answer of a provider is lost, nobody gets two copies of one operation, and a committed row says "delivered" exactly if the copy was taken |
| `BackgroundProofs!DigestTypeCorrect` | `Spec => []TypeOK` |
| `BackgroundProofs!MissesAreExplained` | `Spec => []MissedExplained` |
| `BackgroundProofs!TwiceIsExplained` | `Spec => []TwiceExplained` |
| `BackgroundProofs!UnharmedDigests` | without faults, every message is in one digest unless it was committed after the query or a turn came late |
| `BackgroundProofs!RecordingTypeCorrect` | `RecordingSpec => []RecordingTypeOK` |
| `BackgroundProofs!NothingIsDropped` | `RecordingSpec => []NothingDropped` |
| `BackgroundProofs!SummariesFit` | `RecordingSpec => []SummaryFits` |
| `BackgroundProofs!NothingTakenBack` | `RecordingSpec => NothingUndone` |
| `BackgroundProofs!PlaybackIsNeverAudio` | `RecordingSpec => [](played # "audio")` |
| `SpeechStreamProofs!SpeechTypeCorrect` | `Spec => []TypeOK` |
| `SpeechStreamProofs!RefinesStream` | `Spec => ImplementsStream` |
| `SpeechStreamProofs!NothingOvertaken` | `Spec => []HeardBeforeEnd` |
| `SpeechStreamProofs!FeedNotLeft` | `Spec => []FeedIsOver` |
| `IntelProofs!ScoreInRange` | every score is in `0 .. Full` |
| `IntelProofs!HitNeverRaises` | a blocklist hit never raises a score |

### Webhooks

Assumption: `FaultsAssumption` (the failures are among the five modelled). None
of the properties is inductive alone. The invariant is `IInv == Core /\ Routing`:

- `Shape`: every handler is at an operation of its own program and at a step of
  that operation;
- `Sequencing`: which handlers can be in flight together, given the phase (a
  gather handler only after the incoming one has answered, a status handler only
  when the call is over);
- `LastWriter`: if the record is in a state from which COMPLETED is allowed, the
  handler that put it there has no write left. This is why the status webhook,
  the only one that overlaps others, cannot invalidate what another has read;
- `ReadStillCurrent` itself, needed for its own preservation;
- `Routing` and `Dialled`: the contact and the digit that led a handler to where
  it is, and that a call rings without the fallback only once its incoming
  handler is done.

One lemma per action shows that `Core` is kept (`...Keeps`), one that routing
is kept (`...Route`); `CoreStep` and `RouteStep` put them together. `TableObeyed`
follows from `ReadStillCurrent`: what `Write` puts is allowed after `saw`, and
`saw` is still there.

A second invariant adds `Upkeep`, one `Kept(c)` per call: a call that is not
recorded yet has no metadata, a webhook of a live call writes only into a record
that is there unless it stalled, and metadata about to be written back are not
out of date. Most actions touch neither
record nor history: the lemmas `...IsCalm` say so, `Classify` splits the steps of
a call into calm ones, writes and reads, and `KeptStep` proves only the latter
two. For the refinement, `OneCall` shows that each step of one call is a step of
`CallLifecycle` or a stutter under the mapping, `CrashStep` that a crash at most
drops the calls whose record was being created, all at once, and `LifecycleStep` puts
the calls together. `Legal` lists what a step may do to the status of a call; that a
stalled handler does not leave the table is again `ReadStillCurrent`, whose `saw` may be
gone but is never replaced by another state.

`Tale(c)` says where the record of a call is at every moment Twilio waits for it.
`Reached` is the state the record has at each operation of the handler in flight, and
`Tracked` that it has it: `NeverRefused` shows that the table then permits every
transition, so a handler Twilio waits for never answers 500 of its own accord, and
`ReplyTale` that the answer agrees with the record. `Led` ties contact and digit
to the branch taken, `Unrecorded` describes emergency callbacks, `MadeUp` says that
only `call_status` writes blank metadata unless a handler stalled, and `Excused` is
`OnlyFaultsReachFallback`, which a crash keeps because `Tracked` knows a handler in
flight. There is one lemma per action (`...Tale`), and `TaleStep` puts them together.

`OnlyTheseFaults` (what befell a call is among `Faults`) turns the last two results into
statements about deployments in which some failures do not happen:
`HealthyCallsAreScreened` and `EmergenciesNeedNoStore`.

### VoiceSessions

Assumption: `VoiceAssumption` (`None` is no connection). `IInv` conjoins the type
invariant, `NoLeak`, `StreamIsLive` and `LostOnlyByOverlap` with `Bound`: a
connection that was ever open is bound to a session that was made for its call,
so that "start" writes its stream where a connection of that call will look. Each of the three actions
keeps it (`ConnectInv`, `StartInv`, `EndInv`).

### TrustScore

Assumption: `NoneAssumption`. `SumBounded` bounds the weighted sum by the total
weight, `RoundedBounded` and `RoundedMonotone` carry that through the division,
whatever signals are absent.

### Intel

Assumptions: `IntelAssumption`, `NoneAssumption`. `IInv` conjoins the type invariant
(which needs `ScoreInRange`) and `FlagsHaveCause` with `Mine` (a lookup about to write
holds the flag as it read it), `Asking` (its number is one of those asked for),
`Unflagged` (no row, no flag) and `Caused` (what the task holds, has pending or has
still to do deserves a flag). `FlagNeverLost` follows from `Mine` by `WriteKeepsFlag`: a
lookup writes only the columns that differ from its base, and the flag never does.
`RowsAgree` adds `OnePiece`: the line type and score about to be written come from one
refresh if the row was missing or stale, and are as they were read if it was fresh; a
refresh of a row that is still as it was read writes both. `OnlyReportsFlag` is about the program as deployed,
without a driver for the synchronous URL: `Reported` says that all the task has in hand
has been reported often enough, since the first phase never gets a list.

### Screening

Assumption: `ScreeningAssumption` (the tasks are finitely many). `ClassifiedInTime`
bounds the replies, so `Counted` counts them: those given and those under way
(`Cardinality(Replying(i))`) stay below the limit. `Placed` and `KnownOrUnderWay` say
who works on which conversation and that one that is due is classified or about to
be. `Ending` (one end per conversation, out of reach of new tasks) and `Ended` (what a
result rests on) give `NothingHeardAfterEnd`. `Told` says, for conversations without
overlapping classifications, that at most one task can still decide the verdict, and
that farewells and result follow it. A single task never overlaps (`AloneStep`), hence
`OneAtATimeAgrees`: the exemption in `FarewellIsResult` is due to concurrency alone.

The run `trust` shows that `EndReturnsResult` fails as the code stands. `OnlyScamsRaise`
says exactly when: only for a scam whose confidence is not a number, with a
recommendation to block; `EndReturns` that it is the only cause. `OnlyNegativeRewards`
ties recommendation and adjustment: they agree unless the confidence is negative.
`Grounded` carries both: what a result says is what some answer of the LLM, or the
default, makes of it.

### Forwarding

Assumption: `ForwardingAssumption`. Rows are never deleted. Hence a row a request has
read is still there when it commits (`Seen`), and an owner who had a row when the call
came is found (`Owned`). `StoredIsRow` shows that a form, the defaults and the row make a
row again; `PutsMerge` follows from the columns `Stored` leaves alone.

### Delivery

Assumption: `DeliveryAssumption`. Four invariants, each on top of the former:

- `Books`, per task: `Tries` (which places go with which counter and what is committed)
  and, per leg, `Book`: a leg that lies ahead has no row and nothing accepted, the leg
  being sent has accepted only what was lost and at most as often as it was tried,
  and a leg that is over has a row that says what was accepted. `TurnBooks`,
  `SendBooks`, `PlacedBooks` and `BegunBooks` are the four ways in which a step moves them.
- `Story`, the messages row: `Knows` says what a task may rely on (a delivery has a
  message; a processor at work has none yet and is the only one; a copy that is
  no longer pending was loaded from a row that is not, either), and `Tells` is
  `StatusTells`. Only `CommitStory` has work to do: the other steps are `Quiet`.
- `Forked`: a task at or after its commit has a caretaker's row exactly if the
  settings it read ask for one and the caretaker can be told;
- `AllRaised`: a task that raised is a delivery; it stopped at a threshold it cannot
  read, before the caretaker's leg, or at the leg whose adapter raised, of which
  nothing is known to have got through.

`LossExplained` is what `Books`, for committed tasks, and `AllRaised`, for the others,
leave possible (`LossesFollow`).

The refinement rests on `Books` and `Story`: `SendLedger` shows that a send whose copy
is taken is a `Send` of the ledger (the leg being sent has accepted only what was lost),
`CommitLedger` that a commit is a `Book` with honest entries and a status they justify,
`LedgerStep` that every other step fails the task or changes nothing the ledger sees.
`ExactlyOnce` adds `NoDoubts`: without lost answers there are none.

### Digest

Assumption: `DigestAssumption` (in particular finitely many slots, an even day). The
invariant is `Typed /\ Clock /\ Dated /\ Spent /\ Awaited /\ Apart /\ Once`:

- `Clock` and `Dated`: the time lies between the last beat and the next, and messages
  are created at odd times, committed later and sent after that;
- `Spent`: digests made and deliveries still to serve a user are together no more than
  beats and faults, which bounds `got`;
- `Awaited`: a message that is due, that nobody got and that nothing excuses is within
  the window of a delivery that has still to serve its user. `MissedExplained` is what is
  left of it when no delivery is under way;
- `Apart` and `Once`: if nothing was late or delivered again for a user, the deliveries
  under way are due a day apart, and a message he got is in no other window, from which
  `TwiceExplained` follows.

`UnharmedDigests` adds `Unharmed`: without faults nothing but lateness befalls anyone.

### Recording

Assumption: `RecordingAssumption`. The invariant `RInv` conjoins the type invariant with
`Traced` (what the record refers to is stored, and its texts are those some task heard),
`Encrypted` (nothing is stored in the clear) and, per delivery, `Sound` (what a task has
at each place) and `Left` (what a task without a fault has left in the record). Each
step also keeps `Onward`, from which `NothingUndone` follows: columns once set and
objects once stored stay. `Left` needs `Onward` for the other deliveries: they may write
the same columns, but never empty them. `PlaybackIsNeverAudio` is the finding of
run `playback` for every instance.

### SpeechStream

Assumption: `SpeechAssumption`. `InOrder` says where the results are while the generator
reads: those yielded, then those in the queue up to the first sentinel, without a gap;
and that a generator that stopped by itself has yielded all that came before that
sentinel. `Ends` ties the sentinel to errors and the close, `Fed` the feed to the
generator. `TakeKeeps`, `OnMessageKeeps` and `SentinelKeeps` are the steps that move
the queue.

`StreamStep` maps each step to `ResultStream`: a callback is a result said or the cut, a
segment taken is one heard, by `InOrder` the next one, and the end of the generator is a
return or a raise, by `InOrder` and `Ends` when everything before the cut was heard.

### Only model-checked

Liveness under fairness, which is out of TLAPS' reach: `EmergencyRings`,
`CallersAnswered` and `RecordReclaimed` (`Webhooks`), `ReportedIsFlagged` (`Intel`),
`VoicemailKept` (`Recording`), `EndsAtLast` (`SpeechStream`). All other properties of the
passing runs, and the three refinements, are proved.

## 5. Where code and documents disagree

- `others`: a call to a user without a settings row uses another user's settings.
- `trust`: `end_screening` raises on a scam whose confidence is not a number,
  after it took the session out.
- `playback`: a recording is stored encrypted and played from a URL that leads to
  the ciphertext; `download_recording`, which decrypts, is called by nobody.

Met while modelling, without a run of their own:

- A caller who hangs up before a decision is never marked completed; the comment at
  `webhooks.py:279` knows only two reasons for the `ValueError`. The record goes when
  its key expires (`RecordReclaimed`).
- `CALLSCREEN_FORWARD_SIP_URI` alone (README, Scenario B) rings nothing: the mode
  is still "phone", and an empty telephone number is dialled (`webhooks.py:110`).
- The switch "Automatically forward messages to a caretaker" does nothing, because
  no code sets `caretaker_user_id`.
- The processor reads "priority" where the classifier returns "urgency", so a call
  of high urgency becomes a message of normal priority (`messaging/processor.py`).
- A new settings row has `forward_timeout` 30 (`models/settings.py:52`), so merely
  opening the settings page replaces the global ring timeout (README, line 155).
- `process_call_to_message` delivers to nobody when the user has no settings row
  (`messaging/processor.py:89`), where `deliver_message` uses e-mail.
- `deliver_message` raises after it has sent if `caretaker_fork_priority`, free text
  for PUT /settings, is no `MessagePriority` (`delivery_service.py:43`), and if an
  adapter raises anything but `httpx.HTTPError` on a later attempt or for the caretaker
  (`delivery_service.py:87`, `163`, `200`): the record of what was sent is rolled back.
  `LossExplained` says which rows can be lost this way.
- `end_screening` documents a trust adjustment from -1.0 to 1.0 (`screening.py:280`),
  but multiplies with a confidence nobody checks: a negative one on a scam raises the
  trust of a caller it blocks (`OnlyNegativeRewards`), and one above 1 leaves the range.
- Telegram wants a chat ID (`telegram_adapter.py:27`) and is given an e-mail address
  or a telephone number; `Suits` says that nothing arrives.
- `delivered_via` names the user's channel although only the caretaker's copy may
  have got through (`delivery_service.py:216`).
- The background transcription of README.md:68 never happens: `recording.py` makes
  `DeepgramSTTProvider()` without the key its constructor asks for.
- The comment at `core/recording.py:108-109` says that a database failure should not
  lose the reference to the recording; it does, as nothing tries again.
- The external blocklist is never applied as deployed: `create_engine` with the URL
  stripped of `+asyncpg` wants `psycopg2`, which is no dependency, and the exception
  is swallowed (`tasks/scheduled.py:166`). `_update_blocklist_entries` also returns
  its count when the commit failed.
- The trust score is said to combine all available signals (`trust_score.py:3`), but
  `get_intel` never passes the blocklist flag of the row it has, no code writes
  `call_count` or `disposition_history`, and no caller passes a `StirVerstat`.
- A provider that fails leaves a line type "unknown" and a neutral score, cached for
  24 hours like an answer. Flags are never cleared.
- `list_sessions` is said to list all active sessions; a connection whose session
  another one ended is not in it.

`FarewellIsResult` exempts overlapping classifications: with them the caller can
be told one thing and the result say another. No document claims otherwise, so
it is a hazard and not a finding.

## 6. Plan

Done: `CallState`, `CallLifecycle`, `Webhooks`, `Forwarding`, `Screening`,
`Delivery`, `VoiceSessions`, `Recording`, `Intel` with `TrustScore`, `Digest`,
`SpeechStream`; the proofs of section 4.

Left, in order:

1. A promise for the screening orchestrator (one verdict per conversation, everything
   heard before it) as an abstract specification that `Screening` implements.
2. The same for the digests, if the program ever notes what it sent; as it is, two
   digests of one message are possible and the promise would be `TwiceExplained`.

## 7. Not modelled

- Rate limiter: one atomic Redis pipeline per request, and requests pass when Redis
  fails. What is left is arithmetic on timestamps: the clock is read before the
  pipeline, equal times are one member of the sorted set, refused requests count.
- Text to speech, the mu-law codec, the persona engine and conversation: no code calls them but their
  tests, and which interleavings they will meet is open.
- Contacts and users: a check before an insert, backed by a unique constraint.
  `_lookup_contact` does not look at the owner of the called number; `Webhooks`
  takes its outcome as arbitrary.
- Emergency detection: a pure function of a string; `Webhooks` takes its outcome as
  arbitrary.
- `media` events of the WebSocket (a diagnostic list nothing reads) and
  `send_audio_to_stream` (no caller).
- `is_expired` and `TIMEOUT` (called by nobody), `_build_emergency_forward_twiml`
  (unused), `download_recording`, `delete_recording`, `list_recordings` (no caller),
  signature validation, formatting of TwiML, messages and digests, logging; the MCP
  server, schemas, middleware, migrations, frontend and deployment, which have no
  state of their own.
