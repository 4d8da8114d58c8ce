-------------------------- MODULE SpeechStreamProofs --------------------------
(***************************************************************************)
(* Proofs about SpeechStream, for any numbers of results and errors:       *)
(* types, no result is overtaken by the end, and no feed is left behind.   *)
(***************************************************************************)
EXTENDS SpeechStream, TLAPS

\* The generator has not met a sentinel and has not been left.
Reading == reader \in {"connecting", "get", "yielded"}

\* The results come in order: those yielded, then those in the queue up to the
\* first sentinel.
InOrder ==
    /\ \A i \in 1..Len(yielded) : yielded[i] = i
    /\ Reading /\ before = None =>
          /\ received = Len(yielded) + Len(queue)
          /\ \A i \in 1..Len(queue) : queue[i] = Len(yielded) + i
    /\ Reading /\ before # None =>
          /\ Len(yielded) <= before
          /\ before + 1 <= Len(yielded) + Len(queue)
          /\ queue[before + 1 - Len(yielded)] = None
          /\ \A i \in 1..Len(queue) : i <= before - Len(yielded) => queue[i] = Len(yielded) + i
    /\ reader \in {"stopping", "returned", "raised"} /\ ~left /\ feed # "none" =>
          before # None /\ Len(yielded) = before

\* What ended the results, and what came of it.
Ends ==
    /\ left => reader \in {"left", "stopping"}
    /\ reader = "returned" => errors = 0 /\ feed # "none"
    /\ before = None <=> errors = 0 /\ socket # "closed"
    /\ before # None /\ errors = 0 => received = before

\* Where the feed is, by where the generator is.
Fed ==
    /\ feed = "none" => reader \in {"connecting", "raised", "left"}
    /\ reader = "connecting" => feed = "none"
    /\ reader \in {"get", "yielded"} => feed \in {"created", "waiting", "ended"}
    /\ reader = "stopping" => feed \in {"cancelled", "ended", "dropped"}
    /\ reader \in Over => feed \in {"none", "ended", "dropped"}
    /\ feed = "ended" => told \/ socket # "open"

IInv == TypeOK /\ InOrder /\ Ends /\ Fed

-----------------------------------------------------------------------------
(* The queue.                                                              *)

LEMMA TailFacts ==
    ASSUME NEW S, NEW q \in Seq(S), q # <<>>
    PROVE  /\ Head(q) \in S /\ Head(q) = q[1] /\ Len(q) \in Nat /\ Len(q) >= 1
           /\ Tail(q) \in Seq(S) /\ Len(Tail(q)) = Len(q) - 1
           /\ \A i \in 1..Len(Tail(q)) : Tail(q)[i] = q[i + 1]
  OBVIOUS

LEMMA AppendFacts ==
    ASSUME NEW S, NEW q \in Seq(S), NEW x \in S
    PROVE  /\ Append(q, x) \in Seq(S) /\ Len(q) \in Nat /\ Len(Append(q, x)) = Len(q) + 1
           /\ \A i \in 1..Len(q) : Append(q, x)[i] = q[i]
           /\ Append(q, x)[Len(q) + 1] = x
  OBVIOUS

\* What is at the head of the queue while the generator reads: the next result,
\* or a sentinel, and then all results before the first end have been yielded.
LEMMA NextInLine ==
    ASSUME IInv, Reading, queue # <<>>
    PROVE  /\ Head(queue) = None => before # None /\ Len(yielded) = before
           /\ Head(queue) # None =>
                 /\ Head(queue) = Len(yielded) + 1
                 /\ before = None => Len(yielded) < received
                 /\ before # None => Len(yielded) < before
  <1>0. /\ queue \in Seq(1..MaxResults \cup {None}) /\ Len(yielded) \in Nat
        /\ MaxResults \in Nat /\ None \notin 0..MaxResults
        /\ received \in 0..MaxResults /\ before \in 0..MaxResults \cup {None}
    BY SpeechAssumption DEF IInv, TypeOK
  <1>1. /\ Head(queue) \in 1..MaxResults \cup {None} /\ Head(queue) = queue[1]
        /\ Len(queue) \in Nat /\ Len(queue) >= 1
    BY <1>0, TailFacts
  <1>2. CASE before = None
    BY <1>0, <1>1, <1>2 DEF IInv, InOrder
  <1>3. CASE before # None
    <2>1. /\ before \in Nat /\ Len(yielded) <= before
          /\ queue[before + 1 - Len(yielded)] = None
          /\ \A i \in 1..Len(queue) : i <= before - Len(yielded) => queue[i] = Len(yielded) + i
      BY <1>0, <1>3 DEF IInv, InOrder
    <2>2. CASE Len(yielded) = before
      BY <1>0, <1>1, <1>3, <2>1, <2>2
    <2>3. CASE Len(yielded) # before
      <3>1. 1 \in 1..Len(queue) /\ 1 <= before - Len(yielded)
        BY <1>0, <1>1, <2>1, <2>3
      <3>2. Head(queue) = Len(yielded) + 1 /\ Len(yielded) < before
        BY <1>0, <1>1, <2>1, <2>3, <3>1
      <3> QED BY <1>0, <1>3, <3>2
    <2> QED BY <2>2, <2>3
  <1> QED BY <1>2, <1>3

\* A segment, or the first sentinel, leaves the queue.
LEMMA TakeKeeps ==
    ASSUME IInv, Reading, queue # <<>>, NEW f \in {"created", "waiting", "ended"}, Take(f),
           reader = "connecting" => f = "created",
           reader # "connecting" => f = feed,
           UNCHANGED <<env, left, errors, told, before>>
    PROVE  IInv'
  <1> DEFINE S == 1..MaxResults \cup {None}
  <1>0. /\ queue \in Seq(S) /\ yielded \in Seq(1..MaxResults) /\ Len(yielded) \in Nat
        /\ MaxResults \in Nat /\ None \notin 0..MaxResults
        /\ received \in 0..MaxResults /\ before \in 0..MaxResults \cup {None}
    BY SpeechAssumption DEF IInv, TypeOK
  <1>1. /\ Head(queue) \in S /\ Head(queue) = queue[1] /\ Len(queue) \in Nat /\ Len(queue) >= 1
        /\ Tail(queue) \in Seq(S) /\ Len(Tail(queue)) = Len(queue) - 1
        /\ \A i \in 1..Len(Tail(queue)) : Tail(queue)[i] = queue[i + 1]
    BY <1>0, TailFacts
  <1>2. queue' = Tail(queue) /\ UNCHANGED <<audio, socket, received, left, errors, told, before>>
    BY DEF Take, env
  <1>3. ~left /\ feed \in {"none", "created", "waiting", "ended"}
    BY DEF IInv, Ends, Fed, Reading
  <1>4. CASE Head(queue) = None
    <2>1. reader' = "stopping" /\ feed' = Cancelled(f) /\ yielded' = yielded
      BY <1>4 DEF Take
    <2>2. before # None /\ Len(yielded) = before
      <3>1. before # None
        BY <1>0, <1>1, <1>4 DEF IInv, InOrder
      <3> QED BY <1>0, <1>1, <1>4, <3>1 DEF IInv, InOrder
    <2>3. feed' \in {"dropped", "cancelled", "ended"} /\ (feed' = "ended" => f = "ended")
      BY <2>1 DEF Cancelled
    <2>4. TypeOK'
      BY <1>1, <1>2, <2>1, <2>3 DEF IInv, TypeOK, Over, Feeds
    <2>5. InOrder'
      BY <1>2, <2>1, <2>2 DEF IInv, InOrder, Reading
    <2>6. Ends'
      BY <1>2, <1>3, <2>1 DEF IInv, Ends
    <2>7. Fed'
      BY <1>2, <1>3, <2>1, <2>3 DEF IInv, Fed, Over, Reading
    <2> QED BY <2>4, <2>5, <2>6, <2>7 DEF IInv
  <1>5. CASE Head(queue) # None
    <2>1. /\ reader' = "yielded" /\ yielded' = Append(yielded, Head(queue)) /\ feed' = f
          /\ Head(queue) \in 1..MaxResults
      BY <1>1, <1>5 DEF Take
    <2>2. /\ yielded' \in Seq(1..MaxResults) /\ Len(yielded') = Len(yielded) + 1
          /\ \A i \in 1..Len(yielded) : yielded'[i] = yielded[i]
          /\ yielded'[Len(yielded) + 1] = Head(queue)
      BY <1>0, <2>1, AppendFacts
    <2>3. Head(queue) = Len(yielded) + 1 /\ (before # None => Len(yielded) < before)
      <3>1. Head(queue) # None => /\ Head(queue) = Len(yielded) + 1
                                  /\ before # None => Len(yielded) < before
        BY NextInLine
      <3> QED BY <1>5, <3>1
    <2>4. TypeOK'
      BY <1>1, <1>2, <2>1, <2>2 DEF IInv, TypeOK, Over, Feeds
    <2>5. InOrder'
      <3>1. \A i \in 1..Len(yielded') : yielded'[i] = i
        <4>1. \A i \in 1..Len(yielded) : yielded[i] = i
          BY DEF IInv, InOrder
        <4> SUFFICES ASSUME NEW i \in 1..Len(yielded') PROVE yielded'[i] = i
          OBVIOUS
        <4>2. i \in 1..Len(yielded) \/ i = Len(yielded) + 1
          BY <1>0, <2>2
        <4> QED BY <2>2, <2>3, <4>1, <4>2
      <3>2. ASSUME before = None
            PROVE  /\ received = Len(yielded') + Len(queue')
                   /\ \A i \in 1..Len(queue') : queue'[i] = Len(yielded') + i
        BY <1>0, <1>1, <1>2, <2>2, <3>2 DEF IInv, InOrder
      <3>3. ASSUME before # None
            PROVE  /\ Len(yielded') <= before
                   /\ before + 1 <= Len(yielded') + Len(queue')
                   /\ queue'[before + 1 - Len(yielded')] = None
                   /\ \A i \in 1..Len(queue') :
                         i <= before - Len(yielded') => queue'[i] = Len(yielded') + i
        <4>1. /\ before \in Nat /\ Len(yielded) < before
              /\ before + 1 <= Len(yielded) + Len(queue)
              /\ queue[before + 1 - Len(yielded)] = None
              /\ \A i \in 1..Len(queue) : i <= before - Len(yielded) => queue[i] = Len(yielded) + i
          BY <1>0, <2>3, <3>3 DEF IInv, InOrder
        <4>2. before + 1 - Len(yielded') \in 1..Len(Tail(queue))
          BY <1>0, <1>1, <2>2, <4>1
        <4>3. queue'[before + 1 - Len(yielded')] = queue[before + 1 - Len(yielded)]
          BY <1>0, <1>1, <1>2, <2>2, <4>1, <4>2
        <4>4. ASSUME NEW i \in 1..Len(queue'), i <= before - Len(yielded')
              PROVE  queue'[i] = Len(yielded') + i
          <5>1. queue'[i] = queue[i + 1] /\ i + 1 \in 1..Len(queue) /\ i + 1 <= before - Len(yielded)
            BY <1>0, <1>1, <1>2, <2>2, <4>1, <4>4
          <5> QED BY <1>0, <2>2, <4>1, <5>1
        <4> QED BY <1>0, <1>1, <1>2, <2>2, <4>1, <4>3, <4>4
      <3> QED BY <1>2, <2>1, <3>1, <3>2, <3>3 DEF InOrder, Reading
    <2>6. Ends'
      BY <1>2, <1>3, <2>1 DEF IInv, Ends
    <2>7. Fed'
      BY <1>2, <1>3, <2>1 DEF IInv, Fed, Over, Reading
    <2> QED BY <2>4, <2>5, <2>6, <2>7 DEF IInv
  <1> QED BY <1>4, <1>5

\* segments.get() is called.
LEMMA GetKeeps ==
    ASSUME IInv, Reading, NEW f \in {"created", "waiting", "ended"}, Get(f),
           reader = "connecting" => f = "created",
           reader # "connecting" => f = feed,
           UNCHANGED <<env, left, errors, told, before>>
    PROVE  IInv'
  <1>1. CASE queue # <<>>
    BY <1>1, TakeKeeps DEF Get
  <1>2. CASE queue = <<>>
    <2>1. reader' = "get" /\ feed' = f /\ UNCHANGED <<queue, yielded>>
      BY <1>2 DEF Get
    <2>2. /\ UNCHANGED <<audio, socket, received, left, errors, told, before>>
          /\ ~left
      BY DEF env, IInv, Ends, Reading
    <2>3. TypeOK' /\ InOrder' /\ Ends' /\ Fed'
      BY <2>1, <2>2 DEF IInv, TypeOK, InOrder, Ends, Fed, Reading, Over, Feeds
    <2> QED BY <2>3 DEF IInv
  <1> QED BY <1>1, <1>2

\* The steps of the generator.
LEMMA GeneratorKeeps ==
    ASSUME IInv, Generator \/ ConnectFails \/ Resume \/ Leave
    PROVE  IInv'
  <1>1. CASE Listen
    BY <1>1, GetKeeps DEF Listen, Reading
  <1>2. CASE Wake
    BY <1>2, TakeKeeps DEF Wake, Reading, IInv, Fed
  <1>3. CASE Resume
    BY <1>3, GetKeeps DEF Resume, Reading, IInv, Fed
  <1>4. CASE ConnectFails
    <2>1. /\ reader = "connecting" /\ reader' = "raised"
          /\ UNCHANGED <<audio, socket, received, left, feed, queue, yielded, errors, told, before>>
      BY <1>4 DEF ConnectFails, env
    <2> QED BY <2>1 DEF IInv, TypeOK, InOrder, Ends, Fed, Reading, Over
  <1>5. CASE Leave
    <2>1. /\ reader \in {"connecting", "get", "yielded"} /\ left' = TRUE
          /\ reader' = IF reader = "connecting" THEN "left" ELSE "stopping"
          /\ feed' = Cancelled(feed)
          /\ UNCHANGED <<audio, socket, received, queue, yielded, errors, told, before>>
      BY <1>5 DEF Leave, env
    <2>2. /\ reader = "connecting" => feed' = "none"
          /\ reader # "connecting" => /\ feed' \in {"dropped", "cancelled", "ended"}
                                      /\ feed' = "ended" => feed = "ended"
      BY <2>1 DEF IInv, Fed, Cancelled
    <2> QED BY <2>1, <2>2 DEF IInv, TypeOK, InOrder, Ends, Fed, Reading, Over, Feeds
  <1>6. CASE Stop
    <2>1. /\ reader = "stopping" /\ feed \in {"ended", "dropped"}
          /\ reader' = Outcome
          /\ UNCHANGED <<audio, socket, received, left, feed, queue, yielded, errors, told, before>>
      BY <1>6 DEF Stop, env
    <2>2. /\ Outcome \in {"left", "raised", "returned"}
          /\ Outcome = "left" <=> left
          /\ Outcome = "returned" => errors = 0
      BY DEF Outcome, IInv, TypeOK
    <2> QED BY <2>1, <2>2 DEF IInv, TypeOK, InOrder, Ends, Fed, Reading, Over, Feeds
  <1> QED BY <1>1, <1>2, <1>3, <1>4, <1>5, <1>6 DEF Generator

\* The steps of the feed, and of the audio and the socket under it.
LEMMA FeedKeeps ==
    ASSUME IInv, Feed \/ AudioEnds \/ Break
    PROVE  IInv'
  <1>1. CASE FeedStarts
    BY <1>1 DEF FeedStarts, env, IInv, TypeOK, InOrder, Ends, Fed, Reading, Over, Feeds
  <1>2. CASE FeedEnds
    <2>1. /\ feed \in {"waiting", "cancelled"} /\ feed' = "ended"
          /\ told' = (told \/ socket = "open")
          /\ UNCHANGED <<audio, socket, received, reader, left, queue, yielded, errors, before>>
      BY <1>2 DEF FeedEnds, CloseStream, env
    <2>2. told' \in BOOLEAN /\ (told' \/ socket' # "open")
      BY <2>1 DEF IInv, TypeOK
    <2> QED BY <2>1, <2>2 DEF IInv, TypeOK, InOrder, Ends, Fed, Reading, Over, Feeds
  <1>3. CASE AudioEnds
    BY <1>3 DEF AudioEnds, IInv, TypeOK, InOrder, Ends, Fed, Reading
  <1>4. CASE Break
    BY <1>4 DEF Break, IInv, TypeOK, InOrder, Ends, Fed, Reading
  <1> QED BY <1>1, <1>2, <1>3, <1>4 DEF Feed

-----------------------------------------------------------------------------
(* The callbacks.                                                          *)

\* A result comes in behind whatever is in the queue.
LEMMA OnMessageKeeps ==
    ASSUME IInv, OnMessage
    PROVE  IInv'
  <1> DEFINE S == 1..MaxResults \cup {None}
  <1>0. /\ queue \in Seq(S) /\ Len(yielded) \in Nat /\ MaxResults \in Nat
        /\ None \notin 0..MaxResults /\ before \in 0..MaxResults \cup {None}
        /\ received \in 0..MaxResults
    BY SpeechAssumption DEF IInv, TypeOK
  <1>1. /\ received' = received + 1 /\ received' \in 1..MaxResults
        /\ queue' = Append(queue, received') /\ socket # "closed" /\ reader \notin Over
        /\ UNCHANGED <<reader, left, feed, yielded, errors, audio, socket, told, before>>
    BY <1>0 DEF OnMessage, Listening
  <1>2. /\ queue' \in Seq(S) /\ Len(queue) \in Nat /\ Len(queue') = Len(queue) + 1
        /\ \A i \in 1..Len(queue) : queue'[i] = queue[i]
        /\ queue'[Len(queue) + 1] = received'
    BY <1>0, <1>1, AppendFacts
  <1>3. TypeOK'
    BY <1>0, <1>1, <1>2 DEF IInv, TypeOK
  <1>4. InOrder'
    <2>1. ASSUME Reading, before = None
          PROVE  /\ received' = Len(yielded) + Len(queue')
                 /\ \A i \in 1..Len(queue') : queue'[i] = Len(yielded) + i
      <3>1. /\ received = Len(yielded) + Len(queue)
            /\ \A i \in 1..Len(queue) : queue[i] = Len(yielded) + i
        BY <2>1 DEF IInv, InOrder
      <3>2. received' = Len(yielded) + Len(queue')
        BY <1>0, <1>1, <1>2, <3>1
      <3>3. ASSUME NEW i \in 1..Len(queue') PROVE queue'[i] = Len(yielded) + i
        <4>1. i \in 1..Len(queue) \/ i = Len(queue) + 1
          BY <1>2
        <4>2. i = Len(queue) + 1 => queue'[i] = Len(yielded) + i
          BY <1>0, <1>2, <3>2
        <4> QED BY <1>2, <3>1, <4>1, <4>2
      <3> QED BY <3>2, <3>3
    <2>2. ASSUME Reading, before # None
          PROVE  /\ Len(yielded) <= before
                 /\ before + 1 <= Len(yielded) + Len(queue')
                 /\ queue'[before + 1 - Len(yielded)] = None
                 /\ \A i \in 1..Len(queue') :
                       i <= before - Len(yielded) => queue'[i] = Len(yielded) + i
      <3>1. /\ before \in Nat /\ Len(yielded) <= before
            /\ before + 1 <= Len(yielded) + Len(queue)
            /\ queue[before + 1 - Len(yielded)] = None
            /\ \A i \in 1..Len(queue) : i <= before - Len(yielded) => queue[i] = Len(yielded) + i
        BY <1>0, <2>2 DEF IInv, InOrder
      <3>2. before + 1 - Len(yielded) \in 1..Len(queue)
        BY <1>0, <1>2, <3>1
      <3>3. queue'[before + 1 - Len(yielded)] = None
        BY <1>2, <3>1, <3>2
      <3>4. before + 1 <= Len(yielded) + Len(queue')
        BY <1>0, <1>2, <3>1
      <3>5. ASSUME NEW i \in 1..Len(queue'), i <= before - Len(yielded)
            PROVE  queue'[i] = Len(yielded) + i
        <4>1. i \in 1..Len(queue)
          BY <1>0, <1>2, <3>1, <3>5
        <4> QED BY <1>2, <3>1, <3>5, <4>1
      <3> QED BY <3>1, <3>3, <3>4, <3>5
    <2> QED BY <1>1, <2>1, <2>2 DEF IInv, InOrder, Reading
  <1>5. Ends' /\ Fed'
    BY <1>0, <1>1 DEF IInv, Ends, Fed
  <1> QED BY <1>3, <1>4, <1>5 DEF IInv

\* An error or the close puts a sentinel behind the results there are.
LEMMA SentinelKeeps ==
    ASSUME IInv, OnError \/ OnClose
    PROVE  IInv'
  <1> DEFINE S == 1..MaxResults \cup {None}
  <1>0. /\ queue \in Seq(S) /\ Len(yielded) \in Nat /\ MaxResults \in Nat /\ None \in S
        /\ None \notin 0..MaxResults /\ before \in 0..MaxResults \cup {None}
        /\ received \in 0..MaxResults /\ errors \in Nat /\ MaxErrors \in Nat
    BY SpeechAssumption DEF IInv, TypeOK
  <1>1. /\ queue' = Append(queue, None) /\ socket # "closed" /\ reader \notin Over
        /\ before' = IF before = None THEN received ELSE before
        /\ UNCHANGED <<reader, left, feed, yielded, audio, told, received>>
    BY DEF OnError, OnClose, Listening, FirstEnd, env
  <1>2. /\ queue' \in Seq(S) /\ Len(queue) \in Nat /\ Len(queue') = Len(queue) + 1
        /\ \A i \in 1..Len(queue) : queue'[i] = queue[i]
        /\ queue'[Len(queue) + 1] = None
    BY <1>0, <1>1, AppendFacts
  <1>3. before' # None
    BY <1>0, <1>1
  <1>4. /\ errors' \in 0..MaxErrors /\ socket' \in {socket, "closed"}
        /\ errors' # 0 \/ (socket' = "closed" /\ errors' = errors)
    BY <1>0 DEF OnError, OnClose, env, IInv, TypeOK
  <1>5. TypeOK'
    BY <1>0, <1>1, <1>2, <1>4 DEF IInv, TypeOK
  <1>6. InOrder'
    <2>1. ASSUME Reading
          PROVE  /\ Len(yielded) <= before'
                 /\ before' + 1 <= Len(yielded) + Len(queue')
                 /\ queue'[before' + 1 - Len(yielded)] = None
                 /\ \A i \in 1..Len(queue') :
                       i <= before' - Len(yielded) => queue'[i] = Len(yielded) + i
      <3>1. CASE before = None
        <4>1. /\ before' = received /\ received = Len(yielded) + Len(queue)
              /\ \A i \in 1..Len(queue) : queue[i] = Len(yielded) + i
          BY <1>1, <2>1, <3>1 DEF IInv, InOrder
        <4>2. before' + 1 - Len(yielded) = Len(queue) + 1
          BY <1>0, <1>2, <4>1
        <4> QED BY <1>0, <1>2, <4>1, <4>2
      <3>2. CASE before # None
        <4>1. /\ before \in Nat /\ Len(yielded) <= before /\ before' = before
              /\ before + 1 <= Len(yielded) + Len(queue)
              /\ queue[before + 1 - Len(yielded)] = None
              /\ \A i \in 1..Len(queue) : i <= before - Len(yielded) => queue[i] = Len(yielded) + i
          BY <1>0, <1>1, <2>1, <3>2 DEF IInv, InOrder
        <4>2. before + 1 - Len(yielded) \in 1..Len(queue)
          BY <1>0, <1>2, <4>1
        <4>3. queue'[before + 1 - Len(yielded)] = None
          BY <1>2, <4>1, <4>2
        <4>4. before + 1 <= Len(yielded) + Len(queue')
          BY <1>0, <1>2, <4>1
        <4>5. ASSUME NEW i \in 1..Len(queue'), i <= before - Len(yielded)
              PROVE  queue'[i] = Len(yielded) + i
          <5>1. i \in 1..Len(queue)
            BY <1>0, <1>2, <4>1, <4>5
          <5> QED BY <1>2, <4>1, <4>5, <5>1
        <4> QED BY <4>1, <4>3, <4>4, <4>5
      <3> QED BY <3>1, <3>2
    <2>2. reader = "stopping" /\ ~left /\ feed # "none" => before' = before /\ before # None
      BY <1>1 DEF IInv, InOrder
    <2> QED BY <1>1, <1>3, <2>1, <2>2 DEF IInv, InOrder, Reading, Over
  <1>7. Ends'
    <2>1. before # None /\ errors' = 0 => received = before
      BY <1>0, <1>4 DEF IInv, Ends
    <2> QED BY <1>1, <1>3, <1>4, <2>1 DEF IInv, Ends, Over
  <1>8. Fed'
    BY <1>1, <1>4 DEF IInv, Fed
  <1> QED BY <1>5, <1>6, <1>7, <1>8 DEF IInv

-----------------------------------------------------------------------------
(* The theorems.                                                           *)

\* The invariant is inductive.
LEMMA Invariance == Spec => []IInv
  <1>1. Init => IInv
    <2> SUFFICES ASSUME Init PROVE IInv
      OBVIOUS
    <2>1. /\ queue \in Seq(1..MaxResults \cup {None}) /\ Len(queue) = 0
          /\ yielded \in Seq(1..MaxResults) /\ Len(yielded) = 0
      BY DEF Init
    <2>2. TypeOK
      <3>1. 0 \in 0..MaxResults /\ 0 \in 0..MaxErrors
        BY SpeechAssumption
      <3>2. /\ reader = "connecting" /\ left = FALSE /\ feed = "none" /\ errors = 0
            /\ audio = "on" /\ socket = "open" /\ told = FALSE /\ received = 0 /\ before = None
        BY DEF Init
      <3> QED BY <2>1, <3>1, <3>2 DEF TypeOK, Feeds, Over
    <2>3. InOrder
      BY <2>1 DEF Init, InOrder, Reading
    <2>4. Ends /\ Fed
      BY DEF Init, Ends, Fed, Over
    <2> QED BY <2>2, <2>3, <2>4 DEF IInv
  <1>2. IInv /\ [Next]_vars => IInv'
    <2> SUFFICES ASSUME IInv, [Next]_vars PROVE IInv'
      OBVIOUS
    <2>1. CASE UNCHANGED vars
      BY <2>1 DEF vars, IInv, TypeOK, InOrder, Ends, Fed, Reading
    <2> QED BY <2>1, GeneratorKeeps, FeedKeeps, OnMessageKeeps, SentinelKeeps DEF Next
  <1> QED BY <1>1, <1>2, PTL DEF Spec

\* The variables of a transcription keep their types; every segment yielded is
\* a result (deepgram_provider.py:47-135).
THEOREM SpeechTypeCorrect == Spec => []TypeOK
  <1>1. IInv => TypeOK
    BY DEF IInv
  <1> QED BY <1>1, Invariance, PTL

\* No error and no close overtakes a result that came before it, and a stream
\* that ends without an exception has yielded every result
\* (deepgram_provider.py:120-134).
THEOREM NothingOvertaken == Spec => []HeardBeforeEnd
  <1>1. IInv => HeardBeforeEnd
    <2> SUFFICES ASSUME IInv PROVE HeardBeforeEnd
      OBVIOUS
    <2>1. ASSUME reader \in {"returned", "raised"}, feed # "none"
          PROVE  yielded = [i \in 1..before |-> i]
      <3>1. /\ yielded \in Seq(1..MaxResults) /\ Len(yielded) = before
            /\ \A i \in 1..Len(yielded) : yielded[i] = i
        BY <2>1 DEF IInv, TypeOK, InOrder, Ends
      <3> QED BY <3>1
    <2>2. reader = "returned" => errors = 0 /\ before = received
      BY DEF IInv, InOrder, Ends
    <2> QED BY <2>1, <2>2 DEF HeardBeforeEnd
  <1> QED BY <1>1, Invariance, PTL

\* However a transcription ends, no feed is left running, and Deepgram was told,
\* unless the socket could not carry it or the feed never ran
\* (deepgram_provider.py:112-131).
THEOREM FeedNotLeft == Spec => []FeedIsOver
  <1>1. IInv => FeedIsOver
    BY DEF IInv, Fed, FeedIsOver
  <1> QED BY <1>1, Invariance, PTL

-----------------------------------------------------------------------------
(* SpeechStream implements ResultStream, step by step.                     *)

\* A wait for the queue is a hearing or nothing; one with which the generator
\* begins opens the stream.
LEMMA GetIsHeard ==
    ASSUME IInv, Reading, NEW f, Get(f), UNCHANGED <<received, before>>
    PROVE  /\ Stream!HearNext \/ UNCHANGED yielded
           /\ reader' \in {"get", "yielded", "stopping"}
  <1>1. CASE queue = <<>>
    BY <1>1 DEF Get
  <1>2. CASE queue # <<>>
    <2>1. Take(f)
      BY <1>2 DEF Get
    <2>2. CASE Head(queue) = None
      BY <2>1, <2>2 DEF Take
    <2>3. CASE Head(queue) # None
      <3>1. reader' = "yielded" /\ yielded' = Append(yielded, Head(queue))
        BY <2>1, <2>3 DEF Take
      <3>2. Head(queue) = Len(yielded) + 1
        BY <1>2, <2>3, NextInLine
      <3>3. (before = None => Len(yielded) < received) /\ (before # None => Len(yielded) < before)
        BY <1>2, <2>3, NextInLine
      <3> QED BY <3>1, <3>2, <3>3 DEF Stream!HearNext
    <2> QED BY <2>2, <2>3
  <1> QED BY <1>1, <1>2

LEMMA StreamStep == ASSUME IInv, [Next]_vars PROVE [Stream!Next]_Stream!vars
  <1> USE DEF Seen, Over
  <1>1. CASE UNCHANGED vars
    BY <1>1 DEF vars, Stream!vars
  <1>2. CASE Listen
    <2>1. Stream!HearNext \/ UNCHANGED yielded
      BY <1>2, GetIsHeard DEF Listen, env, Reading
    <2>2. reader = "connecting" /\ reader' \in {"get", "yielded", "stopping"}
      BY <1>2, GetIsHeard DEF Listen, env, Reading
    <2>3. UNCHANGED <<received, before>>
      BY <1>2 DEF Listen, env
    <2> QED BY <2>1, <2>2, <2>3 DEF Stream!Open, Stream!Next
  <1>3. CASE Wake \/ Resume
    <2>1. Get(feed) /\ Reading /\ reader # "connecting" /\ UNCHANGED <<received, before>>
      BY <1>3 DEF Wake, Resume, Get, env, Reading
    <2>2. reader' \in {"get", "yielded", "stopping"} /\ (Stream!HearNext \/ UNCHANGED yielded)
      BY <2>1, GetIsHeard
    <2> QED BY <2>1, <2>2 DEF Reading, Stream!Hear, Stream!Next, Stream!vars
  <1>4. CASE ConnectFails
    BY <1>4 DEF ConnectFails, env, Stream!Raise, Stream!Next
  <1>5. CASE Leave
    BY <1>5 DEF Leave, env, Stream!Abandon, Stream!Live, Stream!Next, Stream!vars
  <1>6. CASE Stop
    <2>1. /\ reader = "stopping" /\ reader' = Outcome /\ feed # "none"
          /\ UNCHANGED <<received, yielded, before>>
      BY <1>6 DEF Stop, env
    <2>2. CASE left
      BY <2>1, <2>2 DEF Outcome, Stream!Abandon, Stream!Live, Stream!Next
    <2>3. CASE ~left /\ errors > 0
      <3>1. Len(yielded) = before /\ reader' = "raised"
        BY <2>1, <2>3 DEF IInv, InOrder, Outcome
      <3> QED BY <2>1, <3>1 DEF Stream!Raise, Stream!Next
    <2>4. CASE ~left /\ ~(errors > 0)
      <3>1. Len(yielded) = before /\ before # None /\ reader' = "returned"
        BY <2>1, <2>4 DEF IInv, InOrder, Outcome
      <3>2. received = before
        BY <2>4, <3>1, SpeechAssumption DEF IInv, Ends, TypeOK
      <3> QED BY <2>1, <3>1, <3>2 DEF Stream!Return, Stream!Next
    <2> QED BY <2>2, <2>3, <2>4
  <1>7. CASE Feed \/ AudioEnds \/ Break
    BY <1>7 DEF Feed, FeedStarts, FeedEnds, AudioEnds, Break, env, Stream!vars
  <1>8. CASE OnMessage
    <2>1. /\ reader \notin Over /\ received' = received + 1
          /\ UNCHANGED <<reader, yielded, before>>
      BY <1>8 DEF OnMessage, Listening
    <2>2. Seen \in {"opening", "open"} /\ UNCHANGED Seen
      BY <2>1
    <2> QED BY <2>1, <2>2 DEF Stream!Say, Stream!Live, Stream!Next
  <1>9. CASE OnError \/ OnClose
    <2>1. /\ reader \notin Over /\ FirstEnd /\ UNCHANGED <<reader, yielded, received>>
      BY <1>9 DEF OnError, OnClose, Listening, env
    <2>2. Seen \in {"opening", "open"} /\ UNCHANGED Seen
      BY <2>1
    <2> QED BY <2>1, <2>2 DEF FirstEnd, Stream!Cut, Stream!Live, Stream!Next, Stream!vars
  <1> QED
    BY <1>1, <1>2, <1>3, <1>4, <1>5, <1>6, <1>7, <1>8, <1>9 DEF Next, Generator

\* Await by await, with every order of callbacks, queue, feed and consumer, a
\* streaming transcription is a stream of results (deepgram_provider.py:46-141).
THEOREM RefinesStream == Spec => ImplementsStream
  <1>1. Init => Stream!Init
    BY DEF Init, Stream!Init, Seen, Over
  <1>2. IInv /\ [Next]_vars => [Stream!Next]_Stream!vars
    BY StreamStep
  <1> QED BY <1>1, <1>2, Invariance, PTL DEF Spec, ImplementsStream, Stream!Spec
=============================================================================
