----------------------------- MODULE Forwarding -----------------------------
(***************************************************************************)
(* Which telephones a forwarded call rings: the settings of the users      *)
(* (api/v1/settings.py), edited by concurrent requests, and the resolution *)
(* of the destination of a call (api/v1/webhooks.py, config.py).           *)
(*                                                                         *)
(* A request reads the row of its user, then flushes and commits; two      *)
(* steps, because other requests and calls come in between.  The ORM       *)
(* inserts a row that was missing and otherwise writes only the columns    *)
(* whose value differs from the one it read.                               *)
(***************************************************************************)
EXTENDS Naturals

CONSTANTS Users,       \* the users
          Owner,       \* the user whose phone_number is the number called
          Requests,    \* requests to the settings API that may be in flight
          Forms,       \* the bodies a PUT may send: some fields of a row
          AppConfigs   \* the CALLSCREEN_FORWARD_* environments


VARIABLES
    row,      \* row[u]: the user_settings row of u, or NoRow
    req,      \* req[r]: the request in flight: what it read and wants, or Idle
    app,      \* the environment, fixed when the backend starts
    call,     \* the call: "none", "arrived", "ready" to be forwarded, "dialled"
    settings, \* the settings its webhook has read, or NoSettings
    dial,     \* the endpoints it rings
    owned     \* whether Owner had a row when the call arrived

vars == <<row, req, app, call, settings, dial, owned>>

Kinds  == {"phone", "sip", "sim"}
Modes  == {"phone", "sip", "simultaneous"}
Fields == Kinds \cup {"mode"}

\* phone, sip, sim: whether forward_phone_number, forward_sip_uri and
\* simultaneous_ring_numbers hold something; the ring timeout is left out.
Row == [mode : Modes, phone : BOOLEAN, sip : BOOLEAN, sim : BOOLEAN]

DefaultRow == [mode |-> "phone", phone |-> FALSE, sip |-> FALSE, sim |-> FALSE]

NoRow == [missing |-> "row"]
Idle == [missing |-> "request"]
NoSettings == [missing |-> "settings"]
NoForm == <<>>                                   \* what a GET has to store

ASSUME ForwardingAssumption ==
    /\ Owner \in Users
    /\ AppConfigs \subseteq [Kinds -> BOOLEAN]
    /\ \A form \in Forms : /\ DOMAIN form \subseteq Fields
                           /\ \A f \in DOMAIN form \cap Kinds : form[f] \in BOOLEAN
                           /\ "mode" \in DOMAIN form => form["mode"] \in Modes

Request == [user : Users, form : Forms \cup {NoForm}, seen : Row \cup {NoRow}]

\* An endpoint is the one that "app", "twilio" or a user configured.
Endpoints == (Users \cup {"app", "twilio"}) \X Kinds

TypeOK ==
    /\ row \in [Users -> Row \cup {NoRow}]
    /\ req \in [Requests -> Request \cup {Idle}]
    /\ app \in AppConfigs
    /\ call \in {"none", "arrived", "ready", "dialled"}
    /\ settings \in [user : Users, row : Row] \cup {NoSettings}
    /\ dial \subseteq Endpoints
    /\ owned \in BOOLEAN

Init ==
    /\ row = [u \in Users |-> NoRow]
    /\ req = [r \in Requests |-> Idle]
    /\ app \in AppConfigs
    /\ call = "none"
    /\ settings = NoSettings
    /\ dial = {}
    /\ owned = FALSE

-----------------------------------------------------------------------------
(* The settings API.                                                       *)

\* The SELECT of a request.  A GET that finds a row returns it.
Select(r, u, form) ==
    /\ req[r] = Idle
    /\ form = NoForm => row[u] = NoRow
    /\ req' = [req EXCEPT ![r] = [user |-> u, form |-> form, seen |-> row[u]]]
    /\ UNCHANGED <<row, app, call, settings, dial, owned>>

\* Plausible bug: the whole row is written back, as it was read.
MutantStored(seen, form, old) ==
    [f \in Fields |-> IF f \in DOMAIN form THEN form[f]
                      ELSE IF seen = NoRow THEN DefaultRow[f] ELSE seen[f]]

\* The row after the flush, when it is old before: a new one gets the defaults.
Stored(seen, form, old) ==
    IF seen = NoRow
    THEN [f \in Fields |-> IF f \in DOMAIN form THEN form[f] ELSE DefaultRow[f]]
    ELSE [f \in Fields |-> IF f \in DOMAIN form /\ form[f] # seen[f]
                           THEN form[f] ELSE old[f]]

\* Flush and commit.
Commit(r) ==
    /\ req[r] # Idle
    /\ LET u == req[r].user
       IN  /\ req[r].seen = NoRow => row[u] = NoRow
           /\ row' = [row EXCEPT ![u] = Stored(req[r].seen, req[r].form, row[u])]
    /\ req' = [req EXCEPT ![r] = Idle]
    /\ UNCHANGED <<app, call, settings, dial, owned>>

\* The other request has inserted the row first: user_id is unique, the INSERT
\* raises, get_db rolls back, the client gets 500.
Conflict(r) ==
    /\ req[r] # Idle
    /\ req[r].seen = NoRow /\ row[req[r].user] # NoRow
    /\ req' = [req EXCEPT ![r] = Idle]
    /\ UNCHANGED <<row, app, call, settings, dial, owned>>

-----------------------------------------------------------------------------
(* The call.                                                               *)

Arrive ==
    /\ call = "none"
    /\ call' = "arrived"
    /\ owned' = (row[Owner] # NoRow)
    /\ UNCHANGED <<row, req, app, settings, dial>>

\* Plausible bug: the join with the owner of the number is dropped.
MutantUsersFound == {u \in Users : row[u] # NoRow}

\* Whose settings _get_user_settings may return: the owner's, or, if there are
\* none, those of the first row the database happens to return.
UsersFound ==
    IF row[Owner] # NoRow THEN {Owner} ELSE {u \in Users : row[u] # NoRow}

ReadSettings ==
    /\ call = "arrived"
    /\ call' = "ready"
    /\ settings' \in IF UsersFound = {} THEN {NoSettings}
                     ELSE {[user |-> u, row |-> row[u]] : u \in UsersFound}
    /\ UNCHANGED <<row, req, app, dial, owned>>

\* The user's endpoint of a kind, or else the app's.
Configured(kind) ==
    IF settings # NoSettings /\ settings.row[kind] THEN {<<settings.user, kind>>}
    ELSE IF app[kind] THEN {<<"app", kind>>}
    ELSE {}

Phone ==
    IF Configured("phone") = {} /\ Configured("sip") = {}
    THEN {<<"twilio", "phone">>}
    ELSE Configured("phone")

Mode == IF settings = NoSettings THEN "phone" ELSE settings.row.mode

\* _build_forward_twiml.  Phone = {}: the empty string is dialled.
Rings ==
    CASE Mode = "simultaneous" -> Phone \cup Configured("sim") \cup Configured("sip")
      [] Mode = "sip" /\ Configured("sip") # {} -> Configured("sip")
      [] OTHER -> Phone

Forward ==
    /\ call = "ready"
    /\ call' = "dialled"
    /\ dial' = Rings
    /\ UNCHANGED <<row, req, app, settings, owned>>

\* The next call.
HangUp ==
    /\ call = "dialled"
    /\ call' = "none"
    /\ settings' = NoSettings
    /\ dial' = {}
    /\ owned' = FALSE
    /\ UNCHANGED <<row, req, app>>

-----------------------------------------------------------------------------
Next ==
    \/ \E r \in Requests : \/ \E u \in Users, form \in Forms \cup {NoForm} : Select(r, u, form)
                           \/ Commit(r)
                           \/ Conflict(r)
    \/ Arrive \/ ReadSettings \/ Forward \/ HangUp

Spec == Init /\ [][Next]_vars

-----------------------------------------------------------------------------
(* Properties.                                                             *)

\* Once the owner of the number has settings, no call to it rings the phone
\* of another user, in spite of the fallback to the first row
\* (webhooks.py:54-67).
OwnersSettingsWin ==
    call = "dialled" /\ owned =>
        \A e \in dial : e[1] \in {Owner, "app", "twilio"}

\* Two requests that save different fields never undo each other: a request
\* changes no column it was not sent (settings.py:44-60).
PutsMerge ==
    [][\A u \in Users : row[u] # NoRow /\ row'[u] # row[u] =>
          \E r \in Requests :
              /\ req[r] # Idle /\ req'[r] = Idle /\ req[r].user = u
              /\ \A f \in Fields \ DOMAIN req[r].form : row'[u][f] = row[u][f]]_row

\* CONTRIBUTING.md:53-56 and the docstring at webhooks.py:49-53: a call goes by
\* the settings of the user who owns the number, then by the environment.
OthersNeverRing ==
    call = "dialled" => \A e \in dial : e[1] \in {Owner, "app", "twilio"}
=============================================================================
