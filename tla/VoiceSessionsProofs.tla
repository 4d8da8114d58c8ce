-------------------------- MODULE VoiceSessionsProofs -------------------------
(***************************************************************************)
(* Proofs about VoiceSessions for any number of calls and connections.     *)
(* The three invariants are inductive together with Bound: a connection    *)
(* that was ever open is bound to a session that was made for its call, so *)
(* that "start" writes its stream where a connection of that call will     *)
(* look, and a new connection never takes over the place of a session that *)
(* exists.                                                                 *)
(***************************************************************************)
EXTENDS VoiceSessions, TLAPS

Bound ==
    /\ \A k \in Calls : registry[k] # None => conn[registry[k]].call = k
    /\ \A c \in Connections : conn[c].pc # "new" =>
           /\ conn[c].call \in Calls
           /\ conn[c].session \in Connections
           /\ conn[conn[c].session].pc # "new"
           /\ session[conn[c].session].call = conn[c].call

Safe == NoLeak /\ StreamIsLive /\ LostOnlyByOverlap

IInv == TypeOK /\ Bound /\ Safe

-----------------------------------------------------------------------------
LEMMA InitInv == Init => IInv
  BY VoiceAssumption DEF Init, IInv, TypeOK, Bound, Safe, NoLeak, StreamIsLive,
     LostOnlyByOverlap, Open, Unmade

\* A new connection: it joins the registered session or registers its own, and
\* in the latter case no session of the call was registered.
LEMMA ConnectInv ==
    ASSUME IInv, NEW c \in Connections, NEW k \in Calls, Connect(c, k)
    PROVE  IInv'
<1> USE VoiceAssumption
<1>1. CASE SessionFor(k, c) # c
  <2>1. registry[k] # None /\ SessionFor(k, c) = registry[k]
    BY <1>1 DEF SessionFor
  <2>2. registry' = registry /\ session' = session /\ cut' = cut
    BY <1>1, <2>1 DEF Connect, IInv, TypeOK
  <2>3. conn' = [conn EXCEPT ![c] = [pc |-> "open", call |-> k, session |-> registry[k]]]
    BY <2>1 DEF Connect
  <2>4. registry[k] \in Connections /\ conn[c].pc = "new"
    BY <2>1 DEF Connect, IInv, TypeOK
  <2>5. TypeOK'
    BY <2>2, <2>3, <2>4 DEF IInv, TypeOK
  <2>6. \A d \in Connections : d # c => conn'[d] = conn[d]
    BY <2>3 DEF IInv, TypeOK
  <2>7. conn'[c] = [pc |-> "open", call |-> k, session |-> registry[k]]
    BY <2>3 DEF IInv, TypeOK
  <2>8. registry[k] # c
    BY <1>1, <2>1
  <2>9. Bound'
    BY <2>1, <2>2, <2>4, <2>6, <2>7, <2>8 DEF IInv, TypeOK, Bound, Safe, NoLeak, Open
  <2>10. NoLeak'
    BY <2>2, <2>4, <2>6 DEF IInv, TypeOK, Safe, NoLeak, Open
  <2>11. StreamIsLive'
    BY <2>2, <2>4, <2>6 DEF IInv, TypeOK, Safe, NoLeak, StreamIsLive, Open
  <2>12. LostOnlyByOverlap'
    BY <2>2, <2>6, <2>7 DEF IInv, TypeOK, Safe, LostOnlyByOverlap, Open
  <2> QED BY <2>5, <2>9, <2>10, <2>11, <2>12 DEF IInv, Safe
<1>2. CASE SessionFor(k, c) = c
  <2>1. conn[c].pc = "new"
    BY DEF Connect
  <2>2. registry[k] = None
    BY <1>2, <2>1 DEF SessionFor, IInv, TypeOK, Safe, NoLeak, Open
  <2>3. /\ conn' = [conn EXCEPT ![c] = [pc |-> "open", call |-> k, session |-> c]]
        /\ registry' = [registry EXCEPT ![k] = c]
        /\ session' = [session EXCEPT ![c] = [call |-> k, stream |-> None, active |-> TRUE]]
        /\ cut' = cut
    BY <1>2 DEF Connect
  <2>4. TypeOK'
    BY <2>3 DEF IInv, TypeOK
  <2>5. /\ \A d \in Connections : d # c => conn'[d] = conn[d] /\ session'[d] = session[d]
        /\ conn'[c] = [pc |-> "open", call |-> k, session |-> c]
        /\ session'[c] = [call |-> k, stream |-> None, active |-> TRUE]
        /\ \A j \in Calls : j # k => registry'[j] = registry[j]
        /\ registry'[k] = c
    BY <2>3 DEF IInv, TypeOK
  <2>6. \A j \in Calls : registry[j] # c
    BY <2>1 DEF IInv, TypeOK, Safe, NoLeak, Open
  <2>7. Bound'
    BY <2>1, <2>5, <2>6 DEF IInv, TypeOK, Bound
  <2>8. NoLeak'
    BY <2>5, <2>6 DEF IInv, TypeOK, Safe, NoLeak, Open
  <2>9. StreamIsLive'
    BY <2>1, <2>5, <2>6 DEF IInv, TypeOK, Safe, StreamIsLive, Open
  <2>10. LostOnlyByOverlap'
    BY <2>1, <2>2, <2>3, <2>5 DEF IInv, TypeOK, Bound, Safe, LostOnlyByOverlap, Open
  <2> QED BY <2>4, <2>7, <2>8, <2>9, <2>10 DEF IInv, Safe
<1> QED BY <1>1, <1>2

\* The stream of c goes to the session c is bound to: if that is registered, it
\* is for the call of c.
LEMMA StartInv ==
    ASSUME IInv, NEW c \in Connections, NEW stream \in {c, None}, Start(c, stream)
    PROVE  IInv'
<1> USE VoiceAssumption
<1>1. /\ Open(c) /\ registry' = registry /\ conn' = conn /\ cut' = cut
      /\ session' = [session EXCEPT ![conn[c].session].stream = stream]
  BY DEF Start
<1>2. conn[c].session \in Connections
  BY <1>1 DEF IInv, Bound, Open
<1>3. TypeOK'
  BY <1>1, <1>2 DEF IInv, TypeOK
<1>4. /\ \A s \in Connections : /\ session'[s].call = session[s].call
                                /\ session'[s].active = session[s].active
      /\ \A s \in Connections \ {conn[c].session} : session'[s] = session[s]
      /\ session'[conn[c].session].stream = stream
  BY <1>1, <1>2 DEF IInv, TypeOK
<1>5. Bound'
  BY <1>1, <1>4 DEF IInv, TypeOK, Bound
<1>6. NoLeak'
  BY <1>1, <1>4 DEF IInv, TypeOK, Safe, NoLeak, Open
<1>7. StreamIsLive'
  BY <1>1, <1>4 DEF IInv, TypeOK, Bound, Safe, NoLeak, StreamIsLive, Open
<1>8. LostOnlyByOverlap'
  BY <1>1 DEF IInv, Safe, LostOnlyByOverlap, Open
<1> QED BY <1>3, <1>5, <1>6, <1>7, <1>8 DEF IInv, Safe

\* The end of c empties the place of its call; what is registered for other
\* calls is held by connections of those calls, and c is none of them.
LEMMA EndInv ==
    ASSUME IInv, NEW c \in Connections, End(c)
    PROVE  IInv'
<1> USE VoiceAssumption
<1> DEFINE k == conn[c].call
           s == registry[k]
<1>1. k \in Calls /\ Open(c)
  BY DEF End, IInv, Bound, Open
<1>2. /\ registry' = [registry EXCEPT ![k] = None]
      /\ session' = IF s = None THEN session ELSE [session EXCEPT ![s].active = FALSE]
      /\ conn' = [conn EXCEPT ![c].pc = "over"]
      /\ cut' = cut \cup {d \in Connections \ {c} : Open(d) /\ conn[d].call = k}
  BY DEF End, Popped
<1>3. s \in Connections \cup {None}
  BY <1>1 DEF IInv, TypeOK
<1>4. TypeOK'
  <2>1. registry' \in [Calls -> Connections \cup {None}]
    BY <1>2 DEF IInv, TypeOK
  <2>2. session' \in [Connections -> [call   : Calls \cup {None},
                                      stream : Connections \cup {None},
                                      active : BOOLEAN]]
    BY <1>2, <1>3 DEF IInv, TypeOK
  <2>3. conn' \in [Connections -> [pc      : {"new", "open", "over"},
                                   call    : Calls \cup {None},
                                   session : Connections \cup {None}]]
    BY <1>2 DEF IInv, TypeOK
  <2>4. cut' \subseteq Connections
    BY <1>2 DEF IInv, TypeOK
  <2> QED BY <2>1, <2>2, <2>3, <2>4 DEF TypeOK
<1>5. /\ \A d \in Connections : d # c => conn'[d] = conn[d]
      /\ conn'[c].pc = "over" /\ conn'[c].call = k /\ conn'[c].session = conn[c].session
      /\ \A j \in Calls : j # k => registry'[j] = registry[j]
      /\ registry'[k] = None
      /\ \A r \in Connections : /\ session'[r].call = session[r].call
                                /\ session'[r].stream = session[r].stream
                                /\ r # s => session'[r] = session[r]
  BY <1>1, <1>2, <1>3 DEF IInv, TypeOK
<1>6. Bound'
  <2>1. \A d \in Connections : /\ conn'[d].call = conn[d].call
                               /\ conn'[d].session = conn[d].session
                               /\ conn'[d].pc # "new" <=> conn[d].pc # "new"
    BY <1>1, <1>5 DEF Open
  <2>2. \A j \in Calls : registry'[j] # None => registry'[j] = registry[j]
    BY <1>5
  <2>3. \A j \in Calls : registry'[j] # None => conn'[registry'[j]].call = j
    BY <2>1, <2>2 DEF IInv, TypeOK, Bound
  <2>4. ASSUME NEW d \in Connections, conn'[d].pc # "new"
        PROVE  /\ conn'[d].call \in Calls
               /\ conn'[d].session \in Connections
               /\ conn'[conn'[d].session].pc # "new"
               /\ session'[conn'[d].session].call = conn'[d].call
    <3>1. /\ conn[d].call \in Calls
          /\ conn[d].session \in Connections
          /\ conn[conn[d].session].pc # "new"
          /\ session[conn[d].session].call = conn[d].call
      BY <2>1, <2>4 DEF IInv, Bound
    <3> QED BY <1>5, <2>1, <3>1
  <2> QED BY <2>3, <2>4 DEF Bound
<1>7. \A j \in Calls : j # k /\ registry[j] # None => registry[j] # s /\ registry[j] # c
  BY <1>1 DEF IInv, Bound
<1>8. NoLeak'
  BY <1>1, <1>5, <1>7 DEF IInv, TypeOK, Safe, NoLeak, Open
<1>9. StreamIsLive'
  BY <1>1, <1>5, <1>7 DEF IInv, TypeOK, Safe, StreamIsLive, Open
<1>10. LostOnlyByOverlap'
  BY <1>1, <1>2, <1>5 DEF IInv, TypeOK, Bound, Safe, LostOnlyByOverlap, Open
<1> QED BY <1>4, <1>6, <1>8, <1>9, <1>10 DEF IInv, Safe

LEMMA Inductive == IInv /\ [Next]_vars => IInv'
<1> SUFFICES ASSUME IInv, [Next]_vars PROVE IInv'
  OBVIOUS
<1>1. CASE UNCHANGED vars
  BY <1>1 DEF vars, IInv, TypeOK, Bound, Safe, NoLeak, StreamIsLive, LostOnlyByOverlap, Open
<1>2. ASSUME NEW c \in Connections, NEW k \in Calls, Connect(c, k) PROVE IInv'
  BY <1>2, ConnectInv
<1>3. ASSUME NEW c \in Connections, NEW stream \in {c, None}, Start(c, stream) PROVE IInv'
  BY <1>3, StartInv
<1>4. ASSUME NEW c \in Connections, End(c) PROVE IInv'
  BY <1>4, EndInv
<1> QED BY <1>1, <1>2, <1>3, <1>4 DEF Next

LEMMA Invariance == Spec => []IInv
<1>1. Init => IInv
  BY InitInv
<1> QED BY <1>1, Inductive, PTL DEF Spec

-----------------------------------------------------------------------------
\* The registry, the sessions and the handlers keep their shape, whatever
\* messages arrive on how many connections.
THEOREM VoiceTypeCorrect == Spec => []TypeOK
<1>1. IInv => TypeOK
  BY DEF IInv
<1> QED BY <1>1, Invariance, PTL

\* end_session in the finally block is enough: no session stays registered
\* once the connection that made it is over.
THEOREM SessionsDoNotLeak == Spec => []NoLeak
<1>1. IInv => NoLeak
  BY DEF IInv, Safe
<1> QED BY <1>1, Invariance, PTL

\* The stream_sid of a registered session belongs to an open connection, however
\* many connections of the call wrote it.
THEOREM StreamsAreLive == Spec => []StreamIsLive
<1>1. IInv => StreamIsLive
  BY DEF IInv, Safe
<1> QED BY <1>1, Invariance, PTL

\* A connection loses its session only when another one of the call ends.
THEOREM LossNeedsOverlap == Spec => []LostOnlyByOverlap
<1>1. IInv => LostOnlyByOverlap
  BY DEF IInv, Safe
<1> QED BY <1>1, Invariance, PTL
=============================================================================
