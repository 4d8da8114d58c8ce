---------------------------- MODULE SpeechStream ----------------------------
(***************************************************************************)
(* One streaming transcription: DeepgramSTTProvider.transcribe_stream      *)
(* (voice/stt/deepgram_provider.py).  The generator reads a queue that     *)
(* the callbacks of Deepgram's socket fill, while a task feeds the socket  *)
(* with audio; None in the queue is the end.  A step runs from one await   *)
(* to the next.  Deepgram, its SDK, the audio and the consumer of the      *)
(* generator are the environment.                                          *)
(***************************************************************************)
EXTENDS Naturals, Sequences

CONSTANTS MaxResults,  \* bound: how many results with a text Deepgram sends
          MaxErrors,   \* bound: how many errors the socket reports
          Faults,      \* of "connect" and "socket", those that happen
          None         \* the sentinel

ASSUME SpeechAssumption ==
    /\ MaxResults \in Nat /\ MaxErrors \in Nat
    /\ Faults \subseteq {"connect", "socket"} /\ None \notin 0..MaxResults

VARIABLES
    reader,   \* where the generator is
    left,     \* the consumer left it or its task was cancelled
    feed,     \* where feed_task is
    queue,    \* segments
    yielded,  \* the results the consumer got
    errors,   \* the length of error_holder
    audio,    \* "on" until audio_stream ends or raises
    socket,   \* "open", "broken" or "closed"
    told,     \* CloseStream was sent
    received, \* how many results made a segment; a result is its number
    before    \* how many of them before the first error or close

env == <<audio, socket, received>>
vars == <<reader, left, feed, queue, yielded, errors, audio, socket, told, received, before>>

Over == {"returned", "raised", "left"}

\* "dropped": cancelled before its first step, so that none of it ever ran.
Feeds == {"none", "created", "waiting", "cancelled", "ended", "dropped"}

TypeOK ==
    /\ reader \in Over \cup {"connecting", "get", "yielded", "stopping"}
    /\ left \in BOOLEAN
    /\ feed \in Feeds
    /\ queue \in Seq(1..MaxResults \cup {None})
    /\ yielded \in Seq(1..MaxResults)
    /\ errors \in 0..MaxErrors
    /\ audio \in {"on", "over"}
    /\ socket \in {"open", "broken", "closed"}
    /\ told \in BOOLEAN
    /\ received \in 0..MaxResults
    /\ before \in 0..MaxResults \cup {None}

Init ==
    /\ reader = "connecting" /\ left = FALSE /\ feed = "none"
    /\ queue = <<>> /\ yielded = <<>> /\ errors = 0
    /\ audio = "on" /\ socket = "open" /\ told = FALSE
    /\ received = 0 /\ before = None

-----------------------------------------------------------------------------
(* The generator.                                                          *)

\* feed_task.cancel(), f being where the task is.
Cancelled(f) ==
    CASE f = "created" -> "dropped"
      [] f = "waiting" -> "cancelled"
      [] OTHER -> f

\* Plausible bug: the sentinel is yielded like a segment.
MutantTake(f) ==
    /\ queue' = Tail(queue)
    /\ reader' = "yielded" /\ yielded' = Append(yielded, Head(queue)) /\ feed' = f

\* segments.get() returns; f is where feed_task is.
Take(f) ==
    /\ queue' = Tail(queue)
    /\ \/ /\ Head(queue) = None
          /\ reader' = "stopping" /\ feed' = Cancelled(f) /\ UNCHANGED yielded
       \/ /\ Head(queue) # None
          /\ reader' = "yielded" /\ yielded' = Append(yielded, Head(queue)) /\ feed' = f

\* segments.get() is called: it waits only if the queue is empty.
Get(f) ==
    \/ queue # <<>> /\ Take(f)
    \/ queue = <<>> /\ reader' = "get" /\ feed' = f /\ UNCHANGED <<queue, yielded>>

\* start_listening returns; nothing of the feed runs before the next wait.
Listen ==
    /\ reader = "connecting"
    /\ Get("created")
    /\ UNCHANGED <<env, left, errors, told, before>>

\* connect or start_listening raises.
ConnectFails ==
    /\ "connect" \in Faults /\ reader = "connecting"
    /\ reader' = "raised"
    /\ UNCHANGED <<env, left, feed, queue, yielded, errors, told, before>>

Wake ==
    /\ reader = "get" /\ queue # <<>>
    /\ Take(feed)
    /\ UNCHANGED <<env, left, errors, told, before>>

\* The consumer asks for the next segment.
Resume ==
    /\ reader = "yielded"
    /\ Get(feed)
    /\ UNCHANGED <<env, left, errors, told, before>>

\* The consumer closes the generator, or its task is cancelled.  A cancellation
\* while the generator waits for feed_task is swallowed and changes nothing.
Leave ==
    /\ reader \in {"connecting", "get", "yielded"}
    /\ reader' = IF reader = "connecting" THEN "left" ELSE "stopping"
    /\ left' = TRUE
    /\ feed' = Cancelled(feed)
    /\ UNCHANGED <<env, queue, yielded, errors, told, before>>

Outcome == CASE left -> "left" [] ~left /\ errors > 0 -> "raised" [] OTHER -> "returned"

\* await feed_task is over.
Stop ==
    /\ reader = "stopping" /\ feed \in {"ended", "dropped"}
    /\ reader' = Outcome
    /\ UNCHANGED <<env, left, feed, queue, yielded, errors, told, before>>

-----------------------------------------------------------------------------
(* The feed.                                                               *)

FeedStarts ==
    /\ feed = "created"
    /\ feed' = "waiting"
    /\ UNCHANGED <<env, reader, left, queue, yielded, errors, told, before>>

\* Plausible bug: the stream is closed only after the last chunk.
MutantCloseStream == told' = (told \/ (socket = "open" /\ feed = "waiting"))

\* The finally of _feed_audio: a broken socket raises, which is only logged.
CloseStream == told' = (told \/ socket = "open")

\* The audio ends or raises, send_media raises, or the task is cancelled.
FeedEnds ==
    /\ \/ feed = "waiting" /\ (audio = "over" \/ socket # "open")
       \/ feed = "cancelled"
    /\ feed' = "ended"
    /\ CloseStream
    /\ UNCHANGED <<env, reader, left, queue, yielded, errors, before>>

-----------------------------------------------------------------------------
(* The callbacks, and the world.                                           *)

Listening == reader \notin Over /\ socket # "closed"
FirstEnd == before' = IF before = None THEN received ELSE before

\* _on_message, for a result that makes a segment.  One without a text, or whose
\* segment is refused, which is logged, leaves no trace and is not counted.
OnMessage ==
    /\ Listening /\ received < MaxResults
    /\ received' = received + 1
    /\ queue' = Append(queue, received')
    /\ UNCHANGED <<reader, left, feed, yielded, errors, audio, socket, told, before>>

\* Plausible bug: the error is only logged.
MutantOnError ==
    /\ Listening /\ errors < MaxErrors
    /\ queue' = Append(queue, None) /\ FirstEnd
    /\ UNCHANGED <<env, reader, left, feed, yielded, errors, told>>

\* _on_error; the socket may go on.
OnError ==
    /\ Listening /\ errors < MaxErrors
    /\ errors' = errors + 1
    /\ queue' = Append(queue, None) /\ FirstEnd
    /\ UNCHANGED <<env, reader, left, feed, yielded, told>>

\* Plausible bug: only an error puts the sentinel.
MutantOnClose ==
    /\ Listening
    /\ socket' = "closed" /\ FirstEnd
    /\ UNCHANGED <<reader, left, feed, queue, yielded, errors, audio, told, received>>

\* _on_close.
OnClose ==
    /\ Listening
    /\ socket' = "closed"
    /\ queue' = Append(queue, None) /\ FirstEnd
    /\ UNCHANGED <<reader, left, feed, yielded, errors, audio, told, received>>

AudioEnds ==
    /\ audio = "on" /\ audio' = "over"
    /\ UNCHANGED <<reader, left, feed, queue, yielded, errors, socket, told, received, before>>

Break ==
    /\ "socket" \in Faults /\ socket = "open" /\ socket' = "broken"
    /\ UNCHANGED <<reader, left, feed, queue, yielded, errors, audio, told, received, before>>

-----------------------------------------------------------------------------
Generator == Listen \/ Wake \/ Stop
Feed == FeedStarts \/ FeedEnds

Next ==
    \/ Generator \/ ConnectFails \/ Resume \/ Leave \/ Feed
    \/ OnMessage \/ OnError \/ OnClose \/ AudioEnds \/ Break

\* The event loop runs the generator and the feed; a consumer does not hold a
\* segment for ever; Deepgram closes what it was told to close, and a broken
\* socket is found to be closed.
Fairness ==
    /\ WF_vars(Generator) /\ WF_vars(Feed)
    /\ WF_vars(reader = "yielded" /\ (Resume \/ Leave))
    /\ WF_vars((told \/ socket = "broken") /\ OnClose)

Spec == Init /\ [][Next]_vars /\ Fairness

-----------------------------------------------------------------------------
(* Properties.                                                             *)

\* What the consumer sees of the generator; while it stops nothing is over yet.
Seen == CASE reader = "connecting" -> "opening"
          [] reader \in Over -> reader
          [] OTHER -> "open"

Stream == INSTANCE ResultStream
          WITH said <- received, heard <- yielded, cut <- before, outcome <- Seen

\* The generator, its queue, the callbacks and the feed implement a stream of
\* results: nothing is lost, repeated or reordered up to the first error or close,
\* and only who heard everything sees it end without an exception
\* (deepgram_provider.py:46-141).
ImplementsStream == Stream!Spec

\* Neither an error nor a close overtakes a result that came before it, whatever
\* comes while the generator stops; and who sees the stream end without an
\* exception has every result there was (deepgram_provider.py:120-134).
HeardBeforeEnd ==
    /\ reader \in {"returned", "raised"} /\ feed # "none" =>
          yielded = [i \in 1..before |-> i]
    /\ reader = "returned" => errors = 0 /\ before = received

\* However the generator ends, nothing of its feed is left running, and Deepgram
\* was told that the audio is over, unless the socket could not carry it or the
\* feed never ran (deepgram_provider.py:112-131).
FeedIsOver ==
    reader \in Over => \/ feed \in {"none", "dropped"}
                       \/ feed = "ended" /\ (told \/ socket # "open")

\* When the audio is over or the socket broken, the transcription ends, in
\* whatever order sentinels, segments and the end of the feed come.
EndsAtLast == audio = "over" \/ socket # "open" ~> reader \in Over
=============================================================================
