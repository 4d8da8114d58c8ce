------------------------------ MODULE Recording -------------------------------
(***************************************************************************)
(* A voicemail on its way from Twilio to the user: recording_callback      *)
(* (api/v1/webhooks.py) starts process_twilio_recording                    *)
(* (core/recording.py), which downloads the recording, stores it encrypted *)
(* in a bucket (core/storage.py), notes its key in the CallRecord and      *)
(* tries to transcribe and summarize it.  Twilio may deliver the callback  *)
(* more than once; each delivery is a background task with the database    *)
(* session of its request.  boto3 blocks the event loop: an upload is one  *)
(* step.  Nothing in the program deletes an object.                        *)
(* What every module has (Init, Next, TypeOK, ...) bears the name of this  *)
(* one: it is extended beside Digest where both are proved about.          *)
(***************************************************************************)
EXTENDS Naturals

CONSTANTS Deliveries,    \* the times Twilio delivers the callback
          Texts,         \* what a transcription may hear, besides nothing
          Faults,        \* of the kinds below, those that happen
          Constructors,  \* how DeepgramSTTProvider is made: "bare", "keyed"
          MaxClock,      \* bound: seconds
          None, Blank    \* nothing yet, and a transcript of nothing

RecordingFaults == {"download", "bucket", "upload", "answer", "database", "pool",
                    "speech", "summary", "crash"}

ASSUME RecordingAssumption ==
    /\ Faults \subseteq RecordingFaults /\ Constructors \subseteq {"bare", "keyed"}
    /\ None \notin Texts \cup Nat /\ Blank \notin Texts /\ Blank # None
    /\ MaxClock \in Nat

VARIABLES
    clock,        \* seconds, as in the object keys
    bucket,       \* the objects by key; bucket.made: whether it exists
    record,       \* the committed CallRecord
    task,         \* task[d]: the background task of a delivery
    constructor,  \* how this build makes its transcriber
    played        \* what the user's browser got for the recording

recordingVars == <<clock, bucket, record, task, constructor, played>>

MAX_RETRIES == 3

Keys == 0 .. MaxClock
NoRecord == [exists |-> FALSE, ref |-> None, transcript |-> None, summary |-> None]
Unstarted == [pc |-> "unstarted", usable |-> TRUE, key |-> None, text |-> None,
              attempts |-> 0, faults |-> {}]

Places == {"unstarted", "download", "upload", "refer", "transcribe", "save",
           "done", "raised", "lost"}

Buckets == [made : BOOLEAN, objects : [Keys -> {"absent", "encrypted", "plain"}]]
Records == [exists : BOOLEAN, ref : Keys \cup {None},
            transcript : Texts \cup {None}, summary : Texts \cup {None}]
Tasks == [pc : Places, usable : BOOLEAN, key : Keys \cup {None},
          text : Texts \cup {None, Blank}, attempts : 0 .. MAX_RETRIES,
          faults : SUBSET RecordingFaults]

RecordingTypeOK ==
    /\ clock \in Keys
    /\ bucket \in Buckets
    /\ record \in Records
    /\ task \in [Deliveries -> Tasks]
    /\ constructor \in Constructors
    /\ played \in {"nothing", "audio", "ciphertext"}

\* No code of the program creates a CallRecord: whether one is there is open.
RecordingInit ==
    /\ clock = 0
    /\ bucket = [made |-> FALSE, objects |-> [k \in Keys |-> "absent"]]
    /\ record \in {NoRecord, [NoRecord EXCEPT !.exists = TRUE]}
    /\ task = [d \in Deliveries |-> Unstarted]
    /\ constructor \in Constructors
    /\ played = "nothing"

Running(d) == task[d].pc \notin {"unstarted", "done", "raised", "lost"}

Becomes(d, state) == task' = [task EXCEPT ![d] = state]
Hit(state, fault) == [state EXCEPT !.faults = @ \cup {fault}]

ClockTicks ==
    /\ clock < MaxClock
    /\ clock' = clock + 1
    /\ UNCHANGED <<bucket, record, task, constructor, played>>

-----------------------------------------------------------------------------
\* recording_callback: 204 at once, the task afterwards.
Callback(d) ==
    /\ task[d].pc = "unstarted"
    /\ Becomes(d, [task[d] EXCEPT !.pc = "download"])
    /\ UNCHANGED <<clock, bucket, record, constructor, played>>

\* Step 1.  A failed download ends the task.
Download(d) ==
    /\ task[d].pc = "download"
    /\ \/ Becomes(d, [task[d] EXCEPT !.pc = "upload"])
       \/ /\ "download" \in Faults
          /\ Becomes(d, Hit([task[d] EXCEPT !.pc = "raised"], "download"))
    /\ UNCHANGED <<clock, bucket, record, constructor, played>>

\* upload_recording encrypts on the client, whatever reads the object later.
Stored(objects) == [objects EXCEPT ![clock] = "encrypted"]

\* Step 2.  _ensure_bucket, then the object; the bucket cannot be made, the
\* object cannot be stored, or it is stored and the answer lost.
Upload(d) ==
    /\ task[d].pc = "upload"
    /\ \/ /\ bucket' = [made |-> TRUE, objects |-> Stored(bucket.objects)]
          /\ Becomes(d, [task[d] EXCEPT !.pc = "refer", !.key = clock])
       \/ /\ "bucket" \in Faults /\ ~ bucket.made
          /\ Becomes(d, Hit([task[d] EXCEPT !.pc = "raised"], "bucket"))
          /\ UNCHANGED bucket
       \/ /\ "upload" \in Faults
          /\ bucket' = [bucket EXCEPT !.made = TRUE]
          /\ Becomes(d, Hit([task[d] EXCEPT !.pc = "raised"], "upload"))
       \/ /\ "answer" \in Faults
          /\ bucket' = [made |-> TRUE, objects |-> Stored(bucket.objects)]
          /\ Becomes(d, Hit([task[d] EXCEPT !.pc = "raised"], "answer"))
    /\ UNCHANGED <<clock, record, constructor, played>>

\* One use of the task's session: the select and, if there is a record, the
\* UPDATE and its commit.  A session that failed is not rolled back and fails
\* ever after, unless it had only waited in vain for a connection; a commit may
\* be done although its answer is lost.  next: how the task goes on.
UseSession(d, updated, next) ==
    \/ /\ task[d].usable
       /\ record' = IF record.exists THEN updated ELSE record
       /\ Becomes(d, next)
    \/ /\ ~ task[d].usable
       /\ Becomes(d, next) /\ UNCHANGED record
    \/ /\ task[d].usable /\ "pool" \in Faults
       /\ Becomes(d, Hit(next, "pool")) /\ UNCHANGED record
    \/ /\ task[d].usable /\ "database" \in Faults
       /\ record' \in {record, IF record.exists THEN updated ELSE record}
       /\ Becomes(d, Hit([next EXCEPT !.usable = FALSE], "database"))

\* Step 3: recording_ref.  An exception is logged, and step 4 follows.
MutantRefer(d) ==
    /\ task[d].pc = "refer"
    /\ UseSession(d, record, [task[d] EXCEPT !.pc = "transcribe"])
    /\ UNCHANGED <<clock, bucket, constructor, played>>
Refer(d) ==
    /\ task[d].pc = "refer"
    /\ UseSession(d, [record EXCEPT !.ref = task[d].key], [task[d] EXCEPT !.pc = "transcribe"])
    /\ UNCHANGED <<clock, bucket, constructor, played>>

\* transcribe_file: whether an attempt that failed is followed by another.
MutantAgain(attempts) == FALSE
Again(attempts) == attempts < MAX_RETRIES

Heard(state, place, text) == [state EXCEPT !.pc = place, !.text = text]

\* Step 4.  DeepgramSTTProvider() without the key it asks for raises, and the
\* transcription is skipped; otherwise there are three attempts.
Transcribe(d) ==
    /\ task[d].pc = "transcribe"
    /\ IF constructor = "bare" THEN Becomes(d, [task[d] EXCEPT !.pc = "done"])
       ELSE \/ \E text \in Texts : Becomes(d, Heard(task[d], "save", text))
            \/ Becomes(d, Heard(task[d], "done", Blank))
            \/ /\ "speech" \in Faults
               /\ LET failed == Hit([task[d] EXCEPT !.attempts = @ + 1], "speech")
                  IN \/ Again(failed.attempts) /\ Becomes(d, failed)
                     \/ ~ Again(failed.attempts) /\ Becomes(d, [failed EXCEPT !.pc = "done"])
    /\ UNCHANGED <<clock, bucket, record, constructor, played>>

\* What the UPDATE of the second use sets: the transcript, and the summary if
\* the LLM wrote one.
MutantTranscribed(text, summary) == [record EXCEPT !.summary = summary]
MutantTranscribedAnew(text, summary) ==
    [record EXCEPT !.transcript = text, !.summary = summary]
Transcribed(text, summary) ==
    [record EXCEPT !.transcript = text, !.summary = IF summary = None THEN @ ELSE summary]

\* summarize_voicemail and the commit of both columns.
Save(d) ==
    /\ task[d].pc = "save"
    /\ LET done == [task[d] EXCEPT !.pc = "done"]  text == task[d].text
       IN \/ UseSession(d, Transcribed(text, text), done)
          \/ /\ "summary" \in Faults
             /\ UseSession(d, Transcribed(text, None), Hit(done, "summary"))
    /\ UNCHANGED <<clock, bucket, constructor, played>>

\* get_call_recording_url: the URL leads straight to the object.
Play ==
    /\ record.ref # None
    /\ played' = IF bucket.objects[record.ref] = "plain" THEN "audio" ELSE "ciphertext"
    /\ UNCHANGED <<clock, bucket, record, task, constructor>>

\* The process dies: its background tasks are gone.
Crash ==
    /\ "crash" \in Faults
    /\ \E d \in Deliveries : Running(d)
    /\ task' = [d \in Deliveries |-> IF Running(d) THEN Hit([task[d] EXCEPT !.pc = "lost"], "crash")
                                     ELSE task[d]]
    /\ UNCHANGED <<clock, bucket, record, constructor, played>>

-----------------------------------------------------------------------------
Step(d) == Download(d) \/ Upload(d) \/ Refer(d) \/ Transcribe(d) \/ Save(d)

RecordingNext == \/ \E d \in Deliveries : Callback(d) \/ Step(d)
        \/ ClockTicks \/ Play \/ Crash

\* The event loop runs a task on; nothing makes Twilio deliver or a user listen.
RecordingFairness == \A d \in Deliveries : WF_recordingVars(Step(d))

RecordingSpec == RecordingInit /\ [][RecordingNext]_recordingVars /\ RecordingFairness

-----------------------------------------------------------------------------
\* What a delivery leaves behind that met no fault but failing attempts at the
\* transcription: the reference to an object that is there, and, unless it heard
\* nothing or three attempts failed or the transcriber cannot be made, a
\* transcript with a summary.
NothingDropped ==
    \A d \in Deliveries :
        task[d].pc = "done" /\ task[d].faults \subseteq {"speech"} /\ record.exists
            => /\ record.ref # None /\ bucket.objects[record.ref] # "absent"
               /\ \/ constructor = "bare" \/ task[d].text = Blank
                  \/ task[d].attempts = MAX_RETRIES
                  \/ record.transcript # None /\ record.summary # None

\* A summary stands beside a transcript, and is one of it unless two deliveries
\* were transcribed: the later transcript may come without a summary of its own.
SummaryFits ==
    record.summary # None =>
        /\ record.transcript # None
        /\ \/ record.summary = record.transcript
           \/ \E d, e \in Deliveries :
                  task[d].text = record.transcript /\ task[e].text = record.summary

\* What the voicemail has it keeps: no second delivery, no failure and no crash
\* takes a column from the record or an object from the bucket (recording.py:94-162).
NothingUndone ==
    [][ /\ record.ref # None => record'.ref # None
        /\ record.transcript # None => record'.transcript # None
        /\ record.summary # None => record'.summary # None
        /\ \A k \in Keys : bucket.objects[k] # "absent" => bucket'.objects[k] # "absent"
      ]_recordingVars

\* A callback that was accepted leads to a reference in the record, if there is
\* one, or to a fault of its task.
VoicemailKept ==
    \A d \in Deliveries :
        task[d].pc = "download" /\ record.exists
            ~> record.ref # None \/ task[d].faults # {}

\* What the user plays is the recording, not its ciphertext.
PlaybackIsAudio == played # "ciphertext"
=============================================================================
