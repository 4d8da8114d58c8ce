----------------------------- MODULE VoiceSessions ----------------------------
(***************************************************************************)
(* The voice sessions of calls on the air: the registry of                 *)
(* voice/session.py and the WebSocket handler that fills it                *)
(* (api/ws/media_stream.py).  A connection takes the session registered    *)
(* for the call of its URL or registers a new one, and ends whatever is    *)
(* registered when it is over. Nothing keeps a second connection of a call *)
(* away.  The event loop is single-threaded: what lies between two awaits  *)
(* is one step.                                                            *)
(***************************************************************************)

CONSTANTS Calls,        \* call_sids
          Connections,  \* WebSocket connections, each also names its stream
          None          \* no session, no stream

ASSUME VoiceAssumption == None \notin Connections

VARIABLES
    registry,  \* registry[k]: the session registered for call k
    session,   \* session[s]: a session, named after the connection that made it
    conn,      \* conn[c]: the handler of connection c
    cut        \* history: connections during which another one of the call ended

vars == <<registry, session, conn, cut>>

Unmade == [call |-> None, stream |-> None, active |-> FALSE]

TypeOK ==
    /\ registry \in [Calls -> Connections \cup {None}]
    /\ session \in [Connections -> [call   : Calls \cup {None},
                                    stream : Connections \cup {None},
                                    active : BOOLEAN]]
    /\ conn \in [Connections -> [pc      : {"new", "open", "over"},
                                 call    : Calls \cup {None},
                                 session : Connections \cup {None}]]
    /\ cut \subseteq Connections

Init ==
    /\ registry = [k \in Calls |-> None]
    /\ session = [s \in Connections |-> Unmade]
    /\ conn = [c \in Connections |-> [pc |-> "new", call |-> None, session |-> None]]
    /\ cut = {}

Open(c) == conn[c].pc = "open"

\* get_session, and create_session if there is none.
MutantSessionFor(k, c) == c
SessionFor(k, c) ==
    IF registry[k] # None /\ session[registry[k]].active THEN registry[k] ELSE c

\* The socket is accepted.
Connect(c, k) ==
    /\ conn[c].pc = "new"
    /\ LET s == SessionFor(k, c)
       IN /\ conn' = [conn EXCEPT ![c] = [pc |-> "open", call |-> k, session |-> s]]
          /\ registry' = [registry EXCEPT ![k] = s]
          /\ session' = IF s = c
                        THEN [session EXCEPT ![c] = [call |-> k, stream |-> None, active |-> TRUE]]
                        ELSE session
    /\ UNCHANGED cut

\* "start": the stream of this connection, or none if the event names none.
Start(c, stream) ==
    /\ Open(c)
    /\ session' = [session EXCEPT ![conn[c].session].stream = stream]
    /\ UNCHANGED <<registry, conn, cut>>

\* end_session pops what is registered, whoever registered it.
MutantPopped(c) == registry
MutantPoppedOwn(c) ==
    [registry EXCEPT ![conn[c].call] = IF @ = c THEN None ELSE @]
Popped(c) == [registry EXCEPT ![conn[c].call] = None]

\* "stop", a disconnect, or an exception on a message that is no object or
\* carries no base64: in every case the session of the call ends.
End(c) ==
    /\ Open(c)
    /\ LET k == conn[c].call  s == registry[k]
       IN /\ registry' = Popped(c)
          /\ session' = IF s = None THEN session ELSE [session EXCEPT ![s].active = FALSE]
          /\ conn' = [conn EXCEPT ![c].pc = "over"]
          /\ cut' = cut \cup {d \in Connections \ {c} : Open(d) /\ conn[d].call = k}

Next == \E c \in Connections :
            \/ \E k \in Calls : Connect(c, k)
            \/ \E stream \in {c, None} : Start(c, stream)
            \/ End(c)

Spec == Init /\ [][Next]_vars

-----------------------------------------------------------------------------
\* No session outlives its connections: one that is registered is active, is of
\* that call, and the connection that made it is open.
NoLeak ==
    \A k \in Calls : registry[k] # None =>
        /\ session[registry[k]].active /\ session[registry[k]].call = k
        /\ Open(registry[k]) /\ conn[registry[k]].session = registry[k]

\* Audio for a registered session goes to a stream that is still there: its
\* stream is that of an open connection of the same call.
StreamIsLive ==
    \A k \in Calls : registry[k] # None /\ session[registry[k]].stream # None =>
        /\ Open(session[registry[k]].stream)
        /\ conn[session[registry[k]].stream].call = k
        /\ conn[session[registry[k]].stream].session = registry[k]

\* An open connection has lost its session only if another connection of the
\* call ended beside it: connecting alone takes no session away.
LostOnlyByOverlap ==
    \A c \in Connections :
        Open(c) /\ registry[conn[c].call] # conn[c].session => c \in cut
=============================================================================
