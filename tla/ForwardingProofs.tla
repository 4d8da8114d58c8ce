-------------------------- MODULE ForwardingProofs ---------------------------
(***************************************************************************)
(* Proofs about Forwarding for any users, requests, forms and environments. *)
(* Rows are never deleted, so a call whose owner had a row when it arrived *)
(* finds that row, whatever the requests do meanwhile: Owned follows it    *)
(* from there to the settings that are read.                               *)
(***************************************************************************)
EXTENDS Forwarding, TLAPS

Owned ==
    owned => /\ row[Owner] # NoRow
             /\ call \in {"ready", "dialled"} => /\ settings # NoSettings
                                                 /\ settings.user = Owner

\* A row that a request has read is still there.
Seen ==
    \A r \in Requests :
        req[r] # Idle /\ req[r].seen # NoRow => row[req[r].user] # NoRow

IInv == TypeOK /\ Seen /\ Owned /\ OwnersSettingsWin

-----------------------------------------------------------------------------
\* A stored row is a row: what a form lacks comes from the defaults or from the
\* row that is there.
LEMMA StoredIsRow ==
    ASSUME NEW form \in Forms \cup {NoForm}, NEW seen \in Row \cup {NoRow},
           NEW old \in Row \cup {NoRow}, seen # NoRow => old # NoRow
    PROVE  Stored(seen, form, old) \in Row
<1> DEFINE default(f) == IF seen = NoRow THEN DefaultRow[f] ELSE old[f]
           new == Stored(seen, form, old)
<1>1. /\ \A f \in DOMAIN form \cap Kinds : form[f] \in BOOLEAN
      /\ "mode" \in DOMAIN form => form["mode"] \in Modes
  BY ForwardingAssumption DEF NoForm
<1>2. DefaultRow \in Row /\ DefaultRow["mode"] \in Modes
      /\ \A f \in Kinds : DefaultRow[f] \in BOOLEAN
  BY DEF DefaultRow, Row, Modes, Kinds
<1>3. old \in Row => old["mode"] \in Modes /\ \A f \in Kinds : old[f] \in BOOLEAN
  BY DEF Row, Kinds
<1>4. new["mode"] \in Modes /\ \A f \in Kinds : new[f] \in BOOLEAN
  BY <1>1, <1>2, <1>3 DEF Stored, Fields, Kinds
<1>5. new = [f \in Fields |-> new[f]]
  BY DEF Stored
<1> QED BY <1>4, <1>5 DEF Row, Fields, Kinds

LEMMA Absent == NoRow \notin Row /\ NoSettings \notin [user : Users, row : Row]
                /\ Idle \notin Request
<1>1. "mode" \notin DOMAIN NoRow /\ "user" \notin DOMAIN NoSettings /\ "user" \notin DOMAIN Idle
  BY DEF NoRow, NoSettings, Idle
<1> QED BY <1>1 DEF Row, Request

\* Whatever a request reads and commits, no row goes away, and it changes only
\* the row of its user.
LEMMA CommitFacts ==
    ASSUME TypeOK, Seen, NEW r \in Requests, Commit(r)
    PROVE  /\ row' \in [Users -> Row \cup {NoRow}]
           /\ \A u \in Users : row[u] # NoRow => row'[u] # NoRow
           /\ req[r] \in Request /\ req' = [req EXCEPT ![r] = Idle]
           /\ \A u \in Users \ {req[r].user} : row'[u] = row[u]
           /\ row'[req[r].user] = Stored(req[r].seen, req[r].form, row[req[r].user])
<1> DEFINE u == req[r].user
           new == Stored(req[r].seen, req[r].form, row[u])
<1>1. req[r] \in Request /\ u \in Users /\ row[u] \in Row \cup {NoRow}
  BY DEF Commit, TypeOK, Request
<1>2. req[r].seen # NoRow => row[u] # NoRow
  BY DEF Commit, Seen
<1>3. new \in Row
  BY <1>1, <1>2, StoredIsRow DEF Request
<1>4. row' = [row EXCEPT ![u] = new] /\ req' = [req EXCEPT ![r] = Idle]
  BY DEF Commit
<1> QED BY <1>1, <1>3, <1>4, Absent DEF TypeOK

LEMMA RequestInv ==
    ASSUME IInv, NEW r \in Requests,
           \/ \E u \in Users, form \in Forms \cup {NoForm} : Select(r, u, form)
           \/ Commit(r)
           \/ Conflict(r)
    PROVE  IInv'
<1> USE DEF IInv
<1>1. CASE \E u \in Users, form \in Forms \cup {NoForm} : Select(r, u, form)
  <2>1. PICK u \in Users, form \in Forms \cup {NoForm} : Select(r, u, form)
    BY <1>1
  <2>2. [user |-> u, form |-> form, seen |-> row[u]] \in Request
    BY DEF Request, TypeOK
  <2>3. TypeOK'
    BY <2>1, <2>2 DEF Select, TypeOK
  <2>4. \A q \in Requests : req'[q] = IF q = r THEN [user |-> u, form |-> form, seen |-> row[u]]
                                      ELSE req[q]
    BY <2>1 DEF Select, TypeOK
  <2>5. Seen'
    BY <2>1, <2>4 DEF Select, Seen
  <2> QED BY <2>1, <2>3, <2>5 DEF Select, Owned, OwnersSettingsWin
<1>2. CASE Commit(r)
  <2>1. UNCHANGED <<app, call, settings, dial, owned>>
    BY <1>2 DEF Commit
  <2>2. TypeOK'
    BY <1>2, <2>1, CommitFacts DEF TypeOK
  <2>3. \A q \in Requests : req'[q] = IF q = r THEN Idle ELSE req[q]
    BY <1>2, CommitFacts DEF TypeOK
  <2>4. Seen'
    BY <1>2, <2>3, CommitFacts DEF Seen, TypeOK, Request
  <2>5. Owned'
    BY <1>2, <2>1, CommitFacts, ForwardingAssumption DEF Owned
  <2> QED BY <2>1, <2>2, <2>4, <2>5 DEF OwnersSettingsWin
<1>3. CASE Conflict(r)
  <2>1. TypeOK' /\ \A q \in Requests : req'[q] = IF q = r THEN Idle ELSE req[q]
    BY <1>3 DEF Conflict, TypeOK
  <2>2. Seen'
    BY <1>3, <2>1 DEF Conflict, Seen
  <2> QED BY <1>3, <2>1, <2>2 DEF Conflict, Owned, OwnersSettingsWin
<1> QED BY <1>1, <1>2, <1>3

\* The settings of the owner, if there are any.
LEMMA ReadSettingsInv == ASSUME IInv, ReadSettings PROVE IInv'
<1> USE DEF IInv
<1>1. UsersFound \subseteq {u \in Users : row[u] \in Row}
  BY ForwardingAssumption DEF UsersFound, TypeOK
<1>2. settings' \in [user : Users, row : Row] \cup {NoSettings}
  BY <1>1 DEF ReadSettings
<1>3. row[Owner] # NoRow => settings' # NoSettings /\ settings'.user = Owner
  <2>1. CASE row[Owner] # NoRow
    <3>1. settings' = [user |-> Owner, row |-> row[Owner]]
      BY <2>1 DEF ReadSettings, UsersFound
    <3>2. settings' \in [user : Users, row : Row]
      BY <3>1, <2>1, ForwardingAssumption DEF TypeOK
    <3> QED BY <3>1, <3>2, Absent
  <2> QED BY <2>1
<1>4. TypeOK'
  BY <1>2 DEF ReadSettings, TypeOK
<1>5. Seen' /\ Owned' /\ OwnersSettingsWin'
  BY <1>3 DEF ReadSettings, Seen, Owned, OwnersSettingsWin
<1> QED BY <1>4, <1>5

\* Every endpoint is the one of the settings that were read, or the app's.
LEMMA ForwardInv == ASSUME IInv, Forward PROVE IInv'
<1> USE DEF IInv
<1>1. \A k \in Kinds : Configured(k) \subseteq Endpoints
  BY DEF Configured, Endpoints, TypeOK
<1>2. \A k \in Kinds : \A e \in Configured(k) :
          e[1] = "app" \/ (settings # NoSettings /\ e[1] = settings.user)
  BY DEF Configured
<1>3. Rings \subseteq Configured("phone") \cup Configured("sip") \cup Configured("sim")
                        \cup {<<"twilio", "phone">>}
  BY DEF Rings, Phone
<1>4. Rings \subseteq Endpoints
  BY <1>1, <1>3 DEF Kinds, Endpoints
<1>5. TypeOK'
  BY <1>4 DEF Forward, TypeOK
<1>6. owned => \A e \in Rings : e[1] \in {Owner, "app", "twilio"}
  BY <1>2, <1>3 DEF Owned, Forward, Kinds
<1>7. Seen' /\ Owned' /\ OwnersSettingsWin'
  BY <1>6 DEF Forward, Seen, Owned, OwnersSettingsWin
<1> QED BY <1>5, <1>7

LEMMA CallInv == ASSUME IInv, Arrive \/ HangUp PROVE IInv'
  BY DEF IInv, Arrive, HangUp, TypeOK, Seen, Owned, OwnersSettingsWin

-----------------------------------------------------------------------------
LEMMA InitInv == Init => IInv
  BY DEF Init, IInv, TypeOK, Seen, Owned, OwnersSettingsWin

LEMMA Inductive == IInv /\ [Next]_vars => IInv'
<1> SUFFICES ASSUME IInv, [Next]_vars PROVE IInv'
  OBVIOUS
<1>1. CASE UNCHANGED vars
  BY <1>1 DEF vars, IInv, TypeOK, Seen, Owned, OwnersSettingsWin
<1>2. CASE Next
  BY <1>2, RequestInv, ReadSettingsInv, ForwardInv, CallInv DEF Next
<1> QED BY <1>1, <1>2

LEMMA Invariance == Spec => []IInv
  BY InitInv, Inductive, PTL DEF Spec

\* Every stored row has all its fields, whichever forms the requests send and
\* whichever rows they read (settings.py:36-62).
THEOREM ForwardingTypeCorrect == Spec => []TypeOK
<1>1. IInv => TypeOK
  BY DEF IInv
<1> QED BY <1>1, Invariance, PTL

\* A call to an owner who had settings when it arrived rings no other user's
\* phones, although the settings are read later (webhooks.py:46-67).
THEOREM OwnerWins == Spec => []OwnersSettingsWin
<1>1. IInv => OwnersSettingsWin
  BY DEF IInv
<1> QED BY <1>1, Invariance, PTL

\* A request changes no field of a row but those it was sent (settings.py:53-62).
THEOREM PutsDoMerge == Spec => PutsMerge
<1> DEFINE Merge == \A u \in Users : row[u] # NoRow /\ row'[u] # row[u] =>
                        \E r \in Requests :
                            /\ req[r] # Idle /\ req'[r] = Idle /\ req[r].user = u
                            /\ \A f \in Fields \ DOMAIN req[r].form : row'[u][f] = row[u][f]
<1>1. IInv /\ [Next]_vars => [Merge]_row
  <2> SUFFICES ASSUME IInv, [Next]_vars, row' # row PROVE Merge
    OBVIOUS
  <2>1. PICK r \in Requests : Commit(r)
    <3>1. Next
      BY DEF vars
    <3>2. \A r \in Requests, u \in Users, form \in Forms \cup {NoForm} : ~Select(r, u, form)
      BY DEF Select
    <3>3. \A r \in Requests : ~Conflict(r)
      BY DEF Conflict
    <3>4. ~(Arrive \/ ReadSettings \/ Forward \/ HangUp)
      BY DEF Arrive, ReadSettings, Forward, HangUp
    <3> QED BY <3>1, <3>2, <3>3, <3>4 DEF Next
  <2> SUFFICES ASSUME NEW u \in Users, row[u] # NoRow, row'[u] # row[u]
               PROVE  /\ req[r] # Idle /\ req'[r] = Idle /\ req[r].user = u
                      /\ \A f \in Fields \ DOMAIN req[r].form : row'[u][f] = row[u][f]
    OBVIOUS
  <2>2. req[r] # Idle /\ req[r].user = u
    BY <2>1, CommitFacts DEF Commit, IInv
  <2>3. req'[r] = Idle
    BY <2>1, CommitFacts DEF IInv, TypeOK
  <2>4. req[r].seen # NoRow
    BY <2>1, <2>2 DEF Commit
  <2>5. row'[u] = [f \in Fields |->
                      IF f \in DOMAIN req[r].form /\ req[r].form[f] # req[r].seen[f]
                      THEN req[r].form[f] ELSE row[u][f]]
    <3>1. row'[u] = Stored(req[r].seen, req[r].form, row[u])
      BY <2>1, <2>2, CommitFacts DEF IInv
    <3> QED BY <2>4, <3>1 DEF Stored
  <2> QED BY <2>2, <2>3, <2>5
<1> QED BY <1>1, Invariance, PTL DEF Spec, PutsMerge
=============================================================================
