--------------------------- MODULE BackgroundProofs --------------------------
(***************************************************************************)
(* Proofs about what runs in the background: the digests (Digest), for     *)
(* every set of users, messages and deliveries of the task and all times,  *)
(* and the recordings (Recording), for every set of deliveries of the      *)
(* callback and every choice of faults.  Both are protocols of runs        *)
(* that are lost, repeated or overlap, and of a session that a failed      *)
(* statement spoils.                                                       *)
(***************************************************************************)
EXTENDS Digest, Recording, FiniteSetTheorems, TLAPS

\* A delivery of the task that is queued or running.
Active(s) == run[s].pc # "idle"

\* Delivery s has still to serve user u.
Pending(s, u) == \/ run[s].pc = "queued"
                 \/ run[s].pc = "running" /\ u \in run[s].todo

PendingFor(u) == {s \in Slots : Pending(s, u)}

\* The digest that delivery s makes in time has message m.
Within(m, s) == /\ message[m].created < run[s].due
                /\ run[s].due <= message[m].created + Day

\* The time is that of the last beat or later, but not past the next one; no
\* delivery is due at a beat that has not come.
Clock ==
    /\ beat * Day <= now /\ now <= beat * Day + Day
    /\ \A s \in Slots : Active(s) => run[s].due <= beat * Day

\* Messages are created at odd times, committed later, and sent after that.
Dated ==
    \A m \in Messages :
        /\ message[m].created <= now
        /\ message[m].created > 0 => message[m].created % 2 = 1
        /\ message[m].committed => message[m].created > 0
        /\ got[m] > 0 => message[m].committed

\* No more digests than beats and faults.
Spent == \A m \in Messages : got[m] + Cardinality(PendingFor(Owner[m])) <= beat + faults

\* What excuses a digest that did not bring a message.
Reasons == {"adapter", "database", "loop", "child", "late"}

\* A message that is due, that nobody got, and that nothing excuses, ...
Forgotten(m) == /\ message[m].created > 0 /\ message[m].created < beat * Day
                /\ got[m] = 0 /\ m \notin straddled
                /\ excuse[Owner[m]] \cap Reasons = {}

\* ... will be in the digest of a delivery that has still to serve its user.
Awaited ==
    \A m \in Messages : Forgotten(m) =>
        \E s \in Slots : Pending(s, Owner[m]) /\ Within(m, s)

\* All digests of u came in time, and none twice, ...
Punctual(u) == excuse[u] \cap {"late", "again"} = {}

\* ... so that the deliveries on their way are due at different beats, ...
Apart ==
    \A u \in Users : Punctual(u) =>
        \A s, t \in Slots : s # t /\ Active(s) /\ Active(t) =>
            run[s].due + Day <= run[t].due \/ run[t].due + Day <= run[s].due

\* ... and a message that u got in one digest is within no other one.
Once ==
    \A m \in Messages : Punctual(Owner[m]) /\ got[m] > 0 =>
        /\ got[m] = 1 /\ message[m].created < beat * Day
        /\ \A s \in Slots : Within(m, s) => ~ Pending(s, Owner[m])

\* TypeOK, except that the bounds of beat and got follow from the other parts.
Typed ==
    /\ now \in Nat /\ now <= MaxTime
    /\ message \in [Messages -> Rows]
    /\ run \in [Slots -> Runs]
    /\ \A s \in Slots : run[s].pc # "running" => run[s].todo = {}
    /\ beat \in Nat
    /\ pooled \in BOOLEAN
    /\ got \in [Messages -> Nat]
    /\ excuse \in [Users -> SUBSET Excuses]
    /\ straddled \subseteq Messages
    /\ faults \in 0 .. MaxFaults

\* The inductive invariant.
IInv == Typed /\ Clock /\ Dated /\ Spent /\ Awaited /\ Apart /\ Once

LEMMA RowFields ==
    /\ \A x \in Rows : x.created \in Nat /\ x.created <= MaxTime /\ x.committed \in BOOLEAN
    /\ \A x \in 0 .. MaxTime, y \in BOOLEAN : [created |-> x, committed |-> y] \in Rows
  BY DigestAssumption DEF Rows

LEMMA RunFields ==
    /\ \A r \in Runs : /\ r.pc \in {"idle", "queued", "running"}
                       /\ r.due \in Nat /\ r.due <= MaxTime
                       /\ r.todo \subseteq Users /\ r.usable \in BOOLEAN
    /\ \A p \in {"idle", "queued", "running"}, d \in 0 .. MaxTime, users \in SUBSET Users,
          b \in BOOLEAN : [pc |-> p, due |-> d, todo |-> users, usable |-> b] \in Runs
  BY DigestAssumption DEF Runs

LEMMA DueFacts == ASSUME beat \in Nat PROVE Due = beat * Day + Day /\ beat * Day \in Nat
                      /\ beat <= beat * Day
  BY DigestAssumption DEF Due

LEMMA FinitePending ==
    ASSUME NEW u PROVE IsFiniteSet(PendingFor(u)) /\ Cardinality(PendingFor(u)) \in Nat
<1>1. PendingFor(u) \in SUBSET Slots
  BY DEF PendingFor
<1> QED BY <1>1, DigestAssumption, FS_Subset, FS_CardinalityType

LEMMA ExcusedFacts ==
    ASSUME Typed, NEW users, NEW reason
    PROVE  /\ Excused(users, reason) \in [Users -> SUBSET (Excuses \cup {reason})]
           /\ \A u \in Users : /\ excuse[u] \subseteq Excused(users, reason)[u]
                               /\ u \in users => reason \in Excused(users, reason)[u]
                               /\ u \notin users => Excused(users, reason)[u] = excuse[u]
  BY DEF Excused, Typed

LEMMA InitInv == Init => IInv
<1> SUFFICES ASSUME Init PROVE IInv
  OBVIOUS
<1> USE DigestAssumption
<1>1. Unwritten \in Rows /\ NoRun \in Runs
  <2>1. 0 \in 0 .. MaxTime /\ {} \in SUBSET Users
    OBVIOUS
  <2> QED BY <2>1, RowFields, RunFields DEF Unwritten, NoRun
<1>2. \A s \in Slots : run[s].pc = "idle" /\ run[s].due = 0 /\ run[s].todo = {}
  BY DEF Init, NoRun
<1>3. Typed
  <2>1. message \in [Messages -> Rows] /\ run \in [Slots -> Runs]
    BY <1>1 DEF Init
  <2>2. got \in [Messages -> Nat] /\ excuse \in [Users -> SUBSET Excuses]
    BY DEF Init
  <2>3. now \in Nat /\ now <= MaxTime /\ beat \in Nat /\ faults \in 0 .. MaxFaults
    BY DEF Init
  <2>4. pooled \in BOOLEAN /\ straddled \subseteq Messages
    BY DEF Init
  <2> QED BY <1>2, <2>1, <2>2, <2>3, <2>4 DEF Typed
<1>4. Clock
  BY <1>2 DEF Init, Clock, Active
<1>5. Dated
  BY DEF Init, Dated, Unwritten
<1>6. \A u : Cardinality(PendingFor(u)) = 0
  BY <1>2, FS_EmptySet DEF PendingFor, Pending
<1>7. Spent
  BY <1>6 DEF Init, Spent
<1>8. Awaited /\ Apart /\ Once
  BY <1>2 DEF Init, Awaited, Forgotten, Apart, Active, Once, Unwritten
<1> QED
  BY <1>3, <1>4, <1>5, <1>7, <1>8 DEF IInv

\* The deliveries that have to serve a user become at most one more.
LEMMA PendingGrows ==
    ASSUME NEW u, NEW s, PendingFor(u)' \subseteq PendingFor(u) \cup {s}
    PROVE  Cardinality(PendingFor(u)') <= Cardinality(PendingFor(u)) + 1
<1>1. /\ IsFiniteSet(PendingFor(u) \cup {s})
      /\ Cardinality(PendingFor(u) \cup {s}) <= Cardinality(PendingFor(u)) + 1
  BY FinitePending, FS_AddElement
<1>2. /\ PendingFor(u)' \in SUBSET (PendingFor(u) \cup {s})
      /\ IsFiniteSet(PendingFor(u)')
  BY <1>1, FS_Subset
<1>3. Cardinality(PendingFor(u)') <= Cardinality(PendingFor(u) \cup {s})
  BY <1>1, <1>2, FS_Subset
<1> QED BY <1>1, <1>2, <1>3, FinitePending, FS_CardinalityType

LEMMA PendingShrinks ==
    ASSUME NEW u, PendingFor(u)' \subseteq PendingFor(u)
    PROVE  Cardinality(PendingFor(u)') <= Cardinality(PendingFor(u))
  BY FinitePending, FS_Subset

\* Spent is kept if nobody has more digests to come.
LEMMA SpentKept ==
    ASSUME Typed, Spent, UNCHANGED <<got, beat>>, faults' \in Nat, faults <= faults',
           \A u \in Users : PendingFor(u)' \subseteq PendingFor(u)
    PROVE  Spent'
<1> SUFFICES ASSUME NEW m \in Messages
             PROVE  got[m] + Cardinality(PendingFor(Owner[m])') <= beat + faults'
  BY DEF Spent
<1>1. Owner[m] \in Users
  BY DigestAssumption
<1>2. Cardinality(PendingFor(Owner[m])') <= Cardinality(PendingFor(Owner[m]))
  BY <1>1, PendingShrinks
<1>3. got[m] + Cardinality(PendingFor(Owner[m])) <= beat + faults
  BY DEF Spent
<1>4. PendingFor(Owner[m])' \in SUBSET PendingFor(Owner[m])
  BY <1>1
<1>5. Cardinality(PendingFor(Owner[m])') \in Nat
  BY <1>4, FinitePending, FS_Subset, FS_CardinalityType
<1>6. got[m] \in Nat /\ beat \in Nat /\ faults \in Nat
  BY DigestAssumption DEF Typed
<1> QED BY <1>2, <1>3, <1>5, <1>6, FinitePending

\* A beat or a fault pays for one more.
LEMMA SpentPaid ==
    ASSUME Typed, Spent, UNCHANGED got, beat' \in Nat, faults' \in Nat,
           beat' + faults' = beat + faults + 1, NEW s,
           \A u \in Users : PendingFor(u)' \subseteq PendingFor(u) \cup {s}
    PROVE  Spent'
<1> SUFFICES ASSUME NEW m \in Messages
             PROVE  got[m] + Cardinality(PendingFor(Owner[m])') <= beat' + faults'
  BY DEF Spent
<1>1. Owner[m] \in Users
  BY DigestAssumption
<1>2. Cardinality(PendingFor(Owner[m])') <= Cardinality(PendingFor(Owner[m])) + 1
  BY <1>1, PendingGrows
<1>3. got[m] + Cardinality(PendingFor(Owner[m])) <= beat + faults
  BY DEF Spent
<1>4. PendingFor(Owner[m])' \in SUBSET (PendingFor(Owner[m]) \cup {s})
  BY <1>1
<1>5. Cardinality(PendingFor(Owner[m])') \in Nat
  BY <1>4, FinitePending, FS_AddElement, FS_Subset, FS_CardinalityType
<1>6. got[m] \in Nat /\ beat \in Nat /\ faults \in Nat
  BY DigestAssumption DEF Typed
<1>7. Cardinality(PendingFor(Owner[m])) \in Nat
  BY FinitePending
<1>8. \A g, a, b, x \in Nat : g + a <= x /\ b <= a + 1 => g + b <= x + 1
  OBVIOUS
<1>9. beat + faults \in Nat
  BY <1>6
<1>10. got[m] + Cardinality(PendingFor(Owner[m])') <= beat + faults + 1
  BY <1>2, <1>3, <1>5, <1>6, <1>7, <1>8, <1>9
<1> QED BY <1>10

-----------------------------------------------------------------------------
LEMMA TickInv == ASSUME IInv, Tick PROVE IInv'
<1> USE DEF IInv
<1>1. UNCHANGED <<message, run, beat, pooled, got, excuse, straddled, faults>>
      /\ now' = now + 1 /\ now < MaxTime /\ now # beat * Day + Day
  BY DueFacts DEF Tick, Typed
<1>2. Typed'
  BY <1>1, DigestAssumption DEF Typed
<1>3. Clock'
  BY <1>1, DueFacts, DigestAssumption DEF Clock, Typed, Active
<1>4. Dated'
  BY <1>1, RowFields DEF Dated, Typed
<1>5. Spent' /\ Awaited' /\ Apart' /\ Once'
  BY <1>1 DEF Spent, Awaited, Apart, Once, PendingFor, Pending, Forgotten, Within, Active,
              Punctual
<1> QED BY <1>2, <1>3, <1>4, <1>5

LEMMA CreateInv == ASSUME IInv, NEW m \in Messages, Create(m) PROVE IInv'
<1> USE DEF IInv
<1>1. /\ message[m].created = 0 /\ ~ message[m].committed /\ now % 2 = 1
      /\ UNCHANGED <<now, run, beat, pooled, got, excuse, straddled, faults>>
  BY DEF Create, Unwritten
<1>2. message \in [Messages -> Rows] /\ now \in 0 .. MaxTime
  BY DigestAssumption DEF Typed
<1>3. \A n \in Messages :
          /\ message'[n].created = IF n = m THEN now ELSE message[n].created
          /\ message'[n].committed = message[n].committed
  BY <1>2 DEF Create, Rows
<1>4. Typed'
  <2>1. message' \in [Messages -> Rows]
    BY <1>2 DEF Create, Rows
  <2> QED BY <1>1, <2>1 DEF Typed
<1>5. Clock'
  BY <1>1 DEF Clock, Active
<1>6. Dated'
  BY <1>1, <1>3 DEF Dated, Typed
<1>7. Spent' /\ Apart'
  BY <1>1 DEF Spent, Apart, PendingFor, Pending, Active, Punctual
<1>8. Awaited'
  <2> SUFFICES ASSUME NEW n \in Messages, Forgotten(n)'
               PROVE  \E s \in Slots : Pending(s, Owner[n])' /\ Within(n, s)'
    BY DEF Awaited
  <2>1. n # m
    <3>1. message'[n].created < beat * Day /\ beat * Day <= now
      BY <1>1 DEF Forgotten, Clock
    <3> QED BY <1>3, <3>1, DueFacts DEF Typed
  <2> QED BY <1>1, <1>3, <2>1 DEF Awaited, Forgotten, Pending, Within
<1>9. Once'
  <2> SUFFICES ASSUME NEW n \in Messages, Punctual(Owner[n])', got'[n] > 0
               PROVE  /\ got'[n] = 1 /\ message'[n].created < beat' * Day
                      /\ \A s \in Slots : Within(n, s)' => ~ Pending(s, Owner[n])'
    BY DEF Once
  <2>1. n # m
    BY <1>1 DEF Dated
  <2> QED BY <1>1, <1>3, <2>1 DEF Once, Punctual, Pending, Within
<1> QED BY <1>4, <1>5, <1>6, <1>7, <1>8, <1>9

LEMMA CommitMessageInv == ASSUME IInv, NEW m \in Messages, CommitMessage(m) PROVE IInv'
<1> USE DEF IInv
<1>1. message[m].created > 0
      /\ UNCHANGED <<now, run, beat, pooled, got, excuse, straddled, faults>>
  BY DEF CommitMessage
<1>2. \A n \in Messages :
          /\ message'[n].created = message[n].created
          /\ message'[n].committed = (message[n].committed \/ n = m)
  <2>1. message \in [Messages -> Rows]
    BY DEF Typed
  <2> QED BY <2>1 DEF CommitMessage, Rows
<1>3. Typed'
  <2>1. message' \in [Messages -> Rows]
    BY DEF CommitMessage, Typed, Rows
  <2> QED BY <1>1, <2>1 DEF Typed
<1>4. Clock'
  BY <1>1 DEF Clock, Active
<1>5. Dated'
  BY <1>1, <1>2 DEF Dated
<1>6. Spent' /\ Apart' /\ Awaited' /\ Once'
  BY <1>1, <1>2 DEF Spent, Apart, PendingFor, Pending, Active, Punctual, Awaited, Once,
                    Forgotten, Within
<1> QED BY <1>3, <1>4, <1>5, <1>6

\* A new delivery is due now, later than all others.
LEMMA BeatInv == ASSUME IInv, NEW s \in Slots, Beat(s) PROVE IInv'
<1> USE DEF IInv
<1> DEFINE new == [NoRun EXCEPT !.pc = "queued", !.due = now]
<1>1. /\ UNCHANGED <<now, message, pooled, got, excuse, straddled, faults>>
      /\ run[s].pc = "idle" /\ beat' = beat + 1 /\ now = beat * Day + Day
      /\ run' = [run EXCEPT ![s] = new]
  BY DueFacts DEF Beat, Typed
<1>2. /\ now \in 0 .. MaxTime /\ now \in Nat
      /\ new \in Runs /\ new.pc = "queued" /\ new.due = now /\ new.todo = {}
  <2>1. now \in 0 .. MaxTime /\ now \in Nat
    BY DigestAssumption DEF Typed
  <2> QED BY <2>1 DEF NoRun, Runs
<1> HIDE DEF new
<1>3. /\ run'[s] = new /\ run' \in [Slots -> Runs]
      /\ \A t \in Slots \ {s} : run'[t] = run[t]
  BY <1>1, <1>2 DEF Typed
<1>4. Typed'
  BY <1>1, <1>2, <1>3 DEF Typed
<1>5. beat' * Day = beat * Day + Day /\ beat * Day \in Nat /\ Day \in Nat
  BY <1>1, DigestAssumption, DueFacts DEF Typed
<1>6. Clock'
  BY <1>1, <1>2, <1>3, <1>5, RunFields, DigestAssumption DEF Clock, Active, Typed
<1>7. Dated'
  BY <1>1 DEF Dated
<1>8. Spent'
  <2>1. \A u \in Users : PendingFor(u)' \subseteq PendingFor(u) \cup {s}
    BY <1>3 DEF PendingFor, Pending
  <2>2. beat' \in Nat /\ faults' \in Nat /\ beat' + faults' = beat + faults + 1
    BY <1>1, DigestAssumption DEF Typed
  <2> QED BY <1>1, <2>1, <2>2, SpentPaid
<1>9. Awaited'
  <2> SUFFICES ASSUME NEW m \in Messages, Forgotten(m)'
               PROVE  \E t \in Slots : Pending(t, Owner[m])' /\ Within(m, t)'
    BY DEF Awaited
  <2>1. CASE message[m].created < beat * Day
    <3>1. PICK t \in Slots : Pending(t, Owner[m]) /\ Within(m, t)
      BY <1>1, <2>1 DEF Awaited, Forgotten
    <3>2. t # s
      BY <1>1, <3>1 DEF Pending
    <3> QED BY <1>1, <1>3, <3>1, <3>2 DEF Pending, Within
  <2>2. CASE ~ (message[m].created < beat * Day)
    <3>1. Within(m, s)'
      BY <1>1, <1>2, <1>3, <1>5, <2>2, RowFields DEF Within, Forgotten, Typed
    <3> QED BY <1>2, <1>3, <3>1 DEF Pending
  <2> QED BY <2>1, <2>2
<1>10. Apart'
  BY <1>1, <1>2, <1>3, <1>5, RunFields DEF Apart, Punctual, Active, Clock, Typed
<1>11. Once'
  <2> SUFFICES ASSUME NEW m \in Messages, Punctual(Owner[m])', got'[m] > 0
               PROVE  /\ got'[m] = 1 /\ message'[m].created < beat' * Day
                      /\ \A t \in Slots : Within(m, t)' => ~ Pending(t, Owner[m])'
    BY DEF Once
  <2>1. /\ got[m] = 1 /\ message[m].created < beat * Day
        /\ \A t \in Slots : Within(m, t) => ~ Pending(t, Owner[m])
    BY <1>1 DEF Once, Punctual
  <2>2. ~ Within(m, s)'
    BY <1>1, <1>2, <1>3, <1>5, <2>1, RowFields DEF Within, Typed
  <2>3. message[m].created < beat' * Day
    BY <1>5, <2>1, RowFields DEF Typed
  <2> QED BY <1>1, <1>3, <2>1, <2>2, <2>3 DEF Within, Pending
<1> QED BY <1>4, <1>6, <1>7, <1>8, <1>9, <1>10, <1>11

-----------------------------------------------------------------------------
(* What the steps of a delivery leave alone.                               *)

LEMMA ClockKept ==
    ASSUME Clock, UNCHANGED <<now, beat>>,
           \A t \in Slots : Active(t)' => run'[t].due <= beat * Day
    PROVE  Clock'
  BY DEF Clock

LEMMA DatedKept == ASSUME Dated, UNCHANGED <<now, message, got>> PROVE Dated'
  BY DEF Dated

\* Excuses are never taken back.
LEMMA ExcuseGrows ==
    ASSUME \A u \in Users : excuse[u] \subseteq excuse'[u]
    PROVE  /\ \A u \in Users : Punctual(u)' => Punctual(u)
           /\ \A m \in Messages :
                  /\ UNCHANGED <<message, beat, got, straddled>> /\ Forgotten(m)'
                  => Forgotten(m)
<1>1. \A m \in Messages : Owner[m] \in Users
  BY DigestAssumption
<1> QED BY <1>1 DEF Punctual, Forgotten

LEMMA AwaitedKept ==
    ASSUME Awaited, UNCHANGED message,
           \A m \in Messages : Forgotten(m)' =>
               /\ Forgotten(m)
               /\ \A t \in Slots : Pending(t, Owner[m]) /\ Within(m, t) =>
                      Pending(t, Owner[m])' /\ run'[t].due = run[t].due
    PROVE  Awaited'
<1> SUFFICES ASSUME NEW m \in Messages, Forgotten(m)'
             PROVE  \E t \in Slots : Pending(t, Owner[m])' /\ Within(m, t)'
  BY DEF Awaited
<1>1. PICK t \in Slots : Pending(t, Owner[m]) /\ Within(m, t)
  BY DEF Awaited
<1>2. Pending(t, Owner[m])' /\ run'[t].due = run[t].due
  BY <1>1
<1> QED BY <1>1, <1>2 DEF Within

LEMMA ApartKept ==
    ASSUME Apart, \A u \in Users : Punctual(u)' => Punctual(u),
           \A t \in Slots : Active(t)' => Active(t) /\ run'[t].due = run[t].due
    PROVE  Apart'
  BY DEF Apart

LEMMA OnceKept ==
    ASSUME Once, UNCHANGED <<message, beat, got>>,
           \A u \in Users : Punctual(u)' =>
               /\ Punctual(u)
               /\ \A t \in Slots : Pending(t, u)' => Pending(t, u) /\ run'[t].due = run[t].due
    PROVE  Once'
<1> SUFFICES ASSUME NEW m \in Messages, Punctual(Owner[m])', got[m] > 0
             PROVE  /\ got[m] = 1 /\ message[m].created < beat * Day
                    /\ \A t \in Slots : Within(m, t)' => ~ Pending(t, Owner[m])'
  BY DEF Once
<1>1. Owner[m] \in Users
  BY DigestAssumption
<1>2. /\ got[m] = 1 /\ message[m].created < beat * Day
      /\ \A t \in Slots : Within(m, t) => ~ Pending(t, Owner[m])
  BY <1>1 DEF Once
<1> QED BY <1>1, <1>2 DEF Within

\* What a fault is.
LEMMA FaultFacts ==
    ASSUME Typed, NEW kind, Fault(kind)
    PROVE  faults' = faults + 1 /\ faults' \in 0 .. MaxFaults /\ faults' \in Nat
           /\ faults <= faults' /\ faults \in Nat
  BY DigestAssumption DEF Typed, Fault

\* A delivery becomes r.
LEMMA RunBecomes ==
    ASSUME Typed, NEW s \in Slots, NEW r \in Runs, run' = [run EXCEPT ![s] = r]
    PROVE  /\ run' \in [Slots -> Runs]
           /\ run'[s] = r
           /\ \A t \in Slots \ {s} : run'[t] = run[t]
  BY DEF Typed

LEMMA NoRunFacts == NoRun \in Runs /\ NoRun.pc = "idle" /\ NoRun.todo = {}
<1>1. 0 \in 0 .. MaxTime /\ {} \in SUBSET Users
  BY DigestAssumption
<1> QED BY <1>1, RunFields DEF NoRun

Queued(d) == [NoRun EXCEPT !.pc = "queued", !.due = d]

LEMMA QueuedFacts ==
    ASSUME NEW d \in 0 .. MaxTime
    PROVE  /\ Queued(d) \in Runs
           /\ Queued(d).pc = "queued" /\ Queued(d).due = d /\ Queued(d).todo = {}
  BY DEF Queued, NoRun, Runs

\* A delivery that is over, or fails, before it has served everybody.
LEMMA StopKeeps ==
    ASSUME IInv, NEW s \in Slots, run' = [run EXCEPT ![s] = NoRun],
           UNCHANGED <<now, message, beat, got, straddled>>,
           pooled' \in BOOLEAN, faults' \in 0 .. MaxFaults, faults <= faults',
           excuse' \in [Users -> SUBSET Excuses],
           \A u \in Users : excuse[u] \subseteq excuse'[u],
           \A u \in Users : Pending(s, u) => excuse'[u] \cap Reasons # {}
    PROVE  IInv'
<1> USE DEF IInv
<1>1. /\ run' \in [Slots -> Runs] /\ run'[s].pc = "idle" /\ run'[s].todo = {}
      /\ \A t \in Slots \ {s} : run'[t] = run[t]
  BY RunBecomes, NoRunFacts
<1>2. Typed'
  BY <1>1 DEF Typed
<1>3. \A t \in Slots : Active(t)' => Active(t) /\ run'[t].due = run[t].due
  BY <1>1 DEF Active
<1>4. \A t \in Slots, u \in Users : /\ Pending(t, u)' => Pending(t, u) /\ run'[t].due = run[t].due
                                    /\ Pending(t, u) /\ t # s => Pending(t, u)' /\ run'[t].due = run[t].due
  BY <1>1 DEF Pending
<1>5. Clock'
  BY <1>3, ClockKept DEF Clock
<1>6. Dated'
  BY DatedKept
<1>7. Spent'
  <2>1. \A u \in Users : PendingFor(u)' \subseteq PendingFor(u)
    BY <1>4 DEF PendingFor
  <2>2. faults' \in Nat
    BY DigestAssumption
  <2> QED BY <2>1, <2>2, SpentKept
<1>8. Awaited'
  <2> SUFFICES ASSUME NEW m \in Messages, Forgotten(m)'
               PROVE  /\ Forgotten(m)
                      /\ \A t \in Slots : Pending(t, Owner[m]) =>
                             Pending(t, Owner[m])' /\ run'[t].due = run[t].due
    BY AwaitedKept
  <2>1. Owner[m] \in Users /\ excuse'[Owner[m]] \cap Reasons = {}
    BY DigestAssumption DEF Forgotten
  <2> QED BY <1>4, <2>1, ExcuseGrows
<1>9. Apart'
  BY <1>3, ApartKept, ExcuseGrows
<1>10. Once'
  BY <1>4, OnceKept, ExcuseGrows
<1> QED BY <1>2, <1>5, <1>6, <1>7, <1>8, <1>9, <1>10

LEMMA StartInv == ASSUME IInv, NEW s \in Slots, Start(s) PROVE IInv'
<1> USE DEF IInv
<1>1. /\ run[s].pc = "queued"
      /\ UNCHANGED <<now, message, beat, got, straddled>>
  BY DEF Start
<1>2. CASE /\ run' = [run EXCEPT ![s].pc = "running", ![s].todo = Users]
           /\ UNCHANGED <<pooled, excuse, faults>>
  <2>1. /\ run' \in [Slots -> Runs] /\ run'[s].pc = "running" /\ run'[s].due = run[s].due
        /\ run'[s].todo = Users
        /\ \A t \in Slots \ {s} : run'[t] = run[t]
    BY <1>2 DEF Typed, Runs
  <2>2. \A u \in Users, t \in Slots : Pending(t, u)' <=> Pending(t, u)
    BY <1>1, <2>1 DEF Pending
  <2>3. \A t \in Slots : run'[t].due = run[t].due /\ (Active(t)' <=> Active(t))
    BY <1>1, <2>1 DEF Active
  <2>4. Typed'
    BY <1>1, <1>2, <2>1 DEF Typed
  <2>5. Clock' /\ Dated'
    BY <1>1, <2>3, ClockKept, DatedKept DEF Clock
  <2>6. Spent'
    <3>1. \A u \in Users : PendingFor(u)' \subseteq PendingFor(u)
      BY <2>2 DEF PendingFor
    <3>2. faults' \in Nat /\ faults <= faults'
      BY <1>2, DigestAssumption DEF Typed
    <3> QED BY <1>1, <3>1, <3>2, SpentKept
  <2>7. \A u \in Users : excuse[u] \subseteq excuse'[u]
    BY <1>2
  <2>8. Awaited'
    <3>1. \A m \in Messages : Owner[m] \in Users
      BY DigestAssumption
    <3> QED BY <1>1, <2>2, <2>3, <2>7, <3>1, AwaitedKept, ExcuseGrows
  <2>9. Apart' /\ Once'
    BY <1>1, <2>2, <2>3, <2>7, ApartKept, OnceKept, ExcuseGrows
  <2> QED BY <2>4, <2>5, <2>6, <2>8, <2>9
<1>3. CASE /\ Fault("loop") /\ pooled' = FALSE /\ run' = [run EXCEPT ![s] = NoRun]
           /\ excuse' = Excused(Users, "loop")
  <2>1. /\ excuse' \in [Users -> SUBSET Excuses]
        /\ \A u \in Users : excuse[u] \subseteq excuse'[u] /\ "loop" \in excuse'[u]
    BY <1>3, ExcusedFacts DEF Excuses
  <2>2. \A u \in Users : excuse'[u] \cap Reasons # {}
    BY <2>1 DEF Reasons
  <2> QED BY <1>1, <1>3, <2>1, <2>2, FaultFacts, StopKeeps
<1> QED BY <1>2, <1>3 DEF Start

LEMMA FinishInv == ASSUME IInv, NEW s \in Slots, Finish(s) PROVE IInv'
<1>1. \A u \in Users : ~ Pending(s, u) /\ excuse'[u] = excuse[u]
  BY DEF Finish, Pending
<1>2. faults' \in 0 .. MaxFaults /\ faults <= faults' /\ excuse' \in [Users -> SUBSET Excuses]
  BY DigestAssumption DEF Finish, IInv, Typed
<1> QED BY <1>1, <1>2, StopKeeps DEF Finish

LEMMA ChildLostInv == ASSUME IInv, NEW s \in Slots, ChildLost(s) PROVE IInv'
<1>1. /\ excuse' \in [Users -> SUBSET Excuses]
      /\ \A u \in Users : excuse[u] \subseteq excuse'[u]
      /\ \A u \in run[s].todo \cap Users : "child" \in excuse'[u]
  BY ExcusedFacts DEF ChildLost, Excuses, IInv
<1>2. \A u \in Users : Pending(s, u) => excuse'[u] \cap Reasons # {}
  BY <1>1 DEF Pending, ChildLost, Reasons
<1>3. faults' \in 0 .. MaxFaults /\ faults <= faults'
  BY FaultFacts DEF ChildLost, IInv
<1> QED BY <1>1, <1>2, <1>3, StopKeeps DEF ChildLost

-----------------------------------------------------------------------------
\* Delivery t begins anew or for the first time, for the users who are excused
\* and for those it has still to serve.
LEMMA RequeueKeeps ==
    ASSUME IInv, NEW t \in Slots, NEW d \in 0 .. MaxTime, d <= beat * Day,
           run' = [run EXCEPT ![t] = Queued(d)], NEW kind, Fault(kind),
           UNCHANGED <<now, message, beat, got, straddled>>, pooled' \in BOOLEAN,
           excuse' \in [Users -> SUBSET Excuses],
           \A u \in Users : excuse[u] \subseteq excuse'[u],
           Active(t) => run[t].due = d,
           \A u \in Users : Punctual(u)' => Active(t) /\ Pending(t, u)
    PROVE  IInv'
<1> USE DEF IInv
<1>1. /\ run' \in [Slots -> Runs] /\ run'[t].pc = "queued" /\ run'[t].todo = {}
      /\ run'[t].due = d
      /\ \A s \in Slots \ {t} : run'[s] = run[s]
  BY QueuedFacts, RunBecomes
<1>2. /\ faults' = faults + 1 /\ faults' \in 0 .. MaxFaults /\ faults' \in Nat /\ faults \in Nat
  BY FaultFacts
<1>3. Typed'
  BY <1>1, <1>2 DEF Typed
<1>4. Clock' /\ Dated'
  BY <1>1, ClockKept, DatedKept DEF Clock, Active
<1>5. Spent'
  <2>1. \A u \in Users : PendingFor(u)' \subseteq PendingFor(u) \cup {t}
    BY <1>1 DEF PendingFor, Pending
  <2>2. beat' \in Nat /\ beat' + faults' = beat + faults + 1
    BY <1>2 DEF Typed
  <2> QED BY <1>2, <2>1, <2>2, SpentPaid
<1>6. \A s \in Slots, u \in Users :
          Pending(s, u) => Pending(s, u)' /\ run'[s].due = run[s].due
  BY <1>1 DEF Pending, Active
<1>7. Awaited'
  <2>1. \A m \in Messages : Owner[m] \in Users
    BY DigestAssumption
  <2> QED BY <1>6, <2>1, AwaitedKept, ExcuseGrows
<1>8. Apart'
  <2> SUFFICES ASSUME NEW u \in Users, Punctual(u)',
                      NEW p \in Slots, NEW q \in Slots, p # q, Active(p)', Active(q)'
               PROVE  run'[p].due + Day <= run'[q].due \/ run'[q].due + Day <= run'[p].due
    BY DEF Apart
  <2>1. Punctual(u) /\ Active(t)
    BY ExcuseGrows
  <2>2. \A s \in Slots : Active(s)' => Active(s) /\ run'[s].due = run[s].due
    BY <1>1, <2>1 DEF Active
  <2> QED BY <2>1, <2>2 DEF Apart
<1>9. Once'
  <2> SUFFICES ASSUME NEW u \in Users, Punctual(u)', NEW s \in Slots, Pending(s, u)'
               PROVE  Punctual(u) /\ Pending(s, u) /\ run'[s].due = run[s].due
    <3>1. \A u \in Users : Punctual(u)' => Punctual(u)
      BY ExcuseGrows
    <3> QED BY <3>1, OnceKept
  <2>1. Punctual(u)
    BY ExcuseGrows
  <2> QED BY <1>1, <2>1 DEF Pending
<1> QED BY <1>3, <1>4, <1>5, <1>7, <1>8, <1>9

LEMMA WorkerLostInv == ASSUME IInv, NEW s \in Slots, WorkerLost(s) PROVE IInv'
<1>1. /\ excuse' \in [Users -> SUBSET Excuses]
      /\ \A u \in Users : excuse[u] \subseteq excuse'[u]
      /\ \A u \in Users \ run[s].todo : "again" \in excuse'[u]
  BY ExcusedFacts DEF WorkerLost, Excuses, IInv
<1>2. run[s].pc = "running" /\ run[s].due \in 0 .. MaxTime /\ run[s].due <= beat * Day
  BY RunFields, DigestAssumption DEF WorkerLost, IInv, Typed, Clock, Active
<1>3. \A u \in Users : Punctual(u)' => Active(s) /\ Pending(s, u)
  BY <1>1, <1>2 DEF Punctual, Active, Pending
<1>4. /\ run' = [run EXCEPT ![s] = Queued(run[s].due)] /\ Fault("worker")
      /\ UNCHANGED <<now, message, beat, got, straddled>> /\ pooled' \in BOOLEAN
  BY DEF WorkerLost, Queued
<1> QED BY <1>1, <1>2, <1>3, <1>4, RequeueKeeps

LEMMA RedeliverInv ==
    ASSUME IInv, NEW s \in Slots, NEW t \in Slots, Redeliver(s, t) PROVE IInv'
<1>1. /\ excuse' \in [Users -> SUBSET Excuses]
      /\ \A u \in Users : excuse[u] \subseteq excuse'[u] /\ "again" \in excuse'[u]
  BY ExcusedFacts DEF Redeliver, Excuses, IInv
<1>2. run[s].due \in 0 .. MaxTime /\ run[s].due <= beat * Day
  BY RunFields, DigestAssumption DEF Redeliver, IInv, Typed, Clock, Active
<1>3. pooled' \in BOOLEAN /\ ~ Active(t) /\ \A u \in Users : ~ Punctual(u)'
  BY <1>1 DEF Redeliver, IInv, Typed, Active, Punctual
<1>4. /\ run' = [run EXCEPT ![t] = Queued(run[s].due)] /\ Fault("timeout")
      /\ UNCHANGED <<now, message, beat, got, straddled>>
  BY DEF Redeliver, Queued
<1> QED BY <1>1, <1>2, <1>3, <1>4, RequeueKeeps

-----------------------------------------------------------------------------
(* The turn of user u in delivery s.                                       *)

\* In every case s goes on with the others, and is due as before.
LEMMA ServeRun ==
    ASSUME IInv, NEW s \in Slots, NEW u \in Users, Serve(s, u)
    PROVE  /\ Pending(s, u) /\ run[s].pc = "running" /\ now % 2 = 0
           /\ UNCHANGED <<now, message, beat, pooled>>
           /\ run' \in [Slots -> Runs]
           /\ \A t \in Slots : /\ run'[t].pc = run[t].pc /\ run'[t].due = run[t].due
                               /\ run'[t].todo = IF t = s THEN run[t].todo \ {u} ELSE run[t].todo
           /\ \A t \in Slots : Active(t)' <=> Active(t)
           /\ \A t \in Slots, v \in Users : Pending(t, v)' <=> Pending(t, v) /\ ~ (t = s /\ v = u)
<1>1. /\ run[s].pc = "running" /\ u \in run[s].todo /\ now % 2 = 0
      /\ UNCHANGED <<now, message, beat, pooled>>
  BY DEF Serve
<1>2. run \in [Slots -> Runs]
  BY DEF IInv, Typed
<1>3. \/ run' = [run EXCEPT ![s] = [run[s] EXCEPT !.todo = @ \ {u}]]
      \/ run' = [run EXCEPT ![s] = [[run[s] EXCEPT !.todo = @ \ {u}] EXCEPT !.usable = FALSE]]
  BY DEF Serve, AfterFailure
<1>4. run' \in [Slots -> Runs]
      /\ \A t \in Slots : /\ run'[t].pc = run[t].pc /\ run'[t].due = run[t].due
                          /\ run'[t].todo = IF t = s THEN run[t].todo \ {u} ELSE run[t].todo
  <2>1. CASE run' = [run EXCEPT ![s] = [run[s] EXCEPT !.todo = @ \ {u}]]
    BY <1>2, <2>1 DEF Runs
  <2>2. CASE run' = [run EXCEPT ![s] = [[run[s] EXCEPT !.todo = @ \ {u}] EXCEPT !.usable = FALSE]]
    BY <1>2, <2>2 DEF Runs
  <2> QED BY <1>3, <2>1, <2>2
<1> QED BY <1>1, <1>4 DEF Active, Pending

\* What does not depend on whether anything was sent.
LEMMA ServeKeeps ==
    ASSUME IInv, NEW s \in Slots, NEW u \in Users, Serve(s, u),
           faults' \in 0 .. MaxFaults, excuse' \in [Users -> SUBSET Excuses],
           got' \in [Messages -> Nat], straddled' \subseteq Messages,
           \A v \in Users : excuse[v] \subseteq excuse'[v],
           \A m \in Messages : got'[m] > 0 => message[m].committed
    PROVE  Typed' /\ Clock' /\ Dated' /\ Apart'
<1> USE DEF IInv
<1>1. Typed'
  BY ServeRun DEF Typed
<1>2. Clock'
  BY ServeRun, ClockKept DEF Clock
<1>3. Dated'
  BY ServeRun DEF Dated
<1>4. Apart'
  BY ServeRun, ApartKept, ExcuseGrows
<1> QED BY <1>1, <1>2, <1>3, <1>4

\* Nothing was sent, and u is excused.
LEMMA ServeFails ==
    ASSUME IInv, NEW s \in Slots, NEW u \in Users, Serve(s, u),
           UNCHANGED <<got, straddled>>, faults' \in 0 .. MaxFaults, faults <= faults',
           NEW reason \in {"adapter", "database"}, excuse' = Excused({u}, reason)
    PROVE  IInv'
<1> USE DEF IInv
<1>1. /\ excuse' \in [Users -> SUBSET Excuses]
      /\ \A v \in Users : excuse[v] \subseteq excuse'[v]
      /\ excuse'[u] \cap Reasons # {}
  BY ExcusedFacts DEF Excuses, Reasons
<1>2. Typed' /\ Clock' /\ Dated' /\ Apart'
  BY <1>1, ServeKeeps DEF Typed, Dated
<1>3. Spent'
  <2>1. \A v \in Users : PendingFor(v)' \subseteq PendingFor(v)
    BY ServeRun DEF PendingFor
  <2>2. faults' \in Nat
    BY DigestAssumption
  <2> QED BY <2>1, <2>2, ServeRun, SpentKept
<1>4. Awaited'
  <2> SUFFICES ASSUME NEW m \in Messages, Forgotten(m)'
               PROVE  /\ Forgotten(m)
                      /\ \A t \in Slots : Pending(t, Owner[m]) =>
                             Pending(t, Owner[m])' /\ run'[t].due = run[t].due
    BY ServeRun, AwaitedKept
  <2>1. Owner[m] \in Users /\ Owner[m] # u
    BY <1>1, DigestAssumption DEF Forgotten
  <2> QED BY <1>1, <2>1, ServeRun, ExcuseGrows
<1>5. Once'
  BY <1>1, ServeRun, OnceKept, ExcuseGrows
<1> QED BY <1>2, <1>3, <1>4, <1>5

\* The digest of u is sent, in time or late.
LEMMA ServeSends ==
    ASSUME IInv, NEW s \in Slots, NEW u \in Users, Serve(s, u),
           got' = [m \in Messages |-> IF m \in Digest(u) THEN got[m] + 1 ELSE got[m]],
           straddled' = straddled \cup (Window(u) \ Digest(u)),
           excuse' = IF now = run[s].due THEN excuse ELSE Excused({u}, "late"),
           UNCHANGED faults
    PROVE  IInv'
<1> USE DEF IInv
<1>1. /\ excuse' \in [Users -> SUBSET Excuses]
      /\ \A v \in Users : excuse[v] \subseteq excuse'[v]
      /\ now # run[s].due => "late" \in excuse'[u]
  BY ExcusedFacts DEF Excuses, Typed
<1>2. /\ got' \in [Messages -> Nat] /\ straddled' \subseteq Messages
      /\ \A m \in Messages : got'[m] = IF m \in Digest(u) THEN got[m] + 1 ELSE got[m]
      /\ \A m \in Messages : got[m] \in Nat
  BY DEF Window, Typed
<1>3. \A m \in Messages :
          m \in Digest(u) <=> /\ Owner[m] = u /\ Recent(m) /\ message[m].committed
  BY DEF Digest, Window
<1>4. Typed' /\ Clock' /\ Dated' /\ Apart'
  <2>1. \A m \in Messages : got'[m] > 0 => message[m].committed
    BY <1>2, <1>3 DEF Dated
  <2>2. faults' \in 0 .. MaxFaults
    BY DEF Typed
  <2> QED BY <1>1, <1>2, <2>1, <2>2, ServeKeeps
<1>5. \A m \in Messages : Owner[m] \in Users
  BY DigestAssumption
\* In time, the digest has exactly the messages it was to have.
<1>6. ASSUME NEW m \in Messages, now = run[s].due
      PROVE  Recent(m) <=> message[m].created > 0 /\ Within(m, s)
  <2>1. /\ message[m].created \in Nat /\ now \in Nat /\ Day \in Nat /\ now % 2 = 0
        /\ message[m].created <= now
        /\ message[m].created > 0 => message[m].created % 2 = 1
    BY ServeRun, RowFields, DigestAssumption DEF Typed, Dated
  <2>2. message[m].created > 0 => message[m].created < now
    BY <2>1
  <2> QED BY <1>6, <2>1, <2>2 DEF Recent, Within
<1>7. Spent'
  <2> SUFFICES ASSUME NEW m \in Messages
               PROVE  got'[m] + Cardinality(PendingFor(Owner[m])') <= beat + faults
    BY ServeRun DEF Spent
  <2>1. got[m] + Cardinality(PendingFor(Owner[m])) <= beat + faults
    BY DEF Spent
  <2>2. CASE Owner[m] = u
    <3>1. PendingFor(u)' = PendingFor(u) \ {s} /\ s \in PendingFor(u)
      BY ServeRun DEF PendingFor
    <3>2. Cardinality(PendingFor(u) \ {s}) = Cardinality(PendingFor(u)) - 1
      BY <3>1, FinitePending, FS_RemoveElement
    <3>3. Cardinality(PendingFor(u)) \in Nat /\ beat \in Nat /\ faults \in Nat
      BY FinitePending, DigestAssumption DEF Typed
    <3>4. got'[m] <= got[m] + 1 /\ got'[m] \in Nat
      BY <1>2
    <3> QED BY <1>2, <2>1, <2>2, <3>1, <3>2, <3>3, <3>4
  <2>3. CASE Owner[m] # u
    <3>1. PendingFor(Owner[m])' = PendingFor(Owner[m])
      BY <1>5, <2>3, ServeRun DEF PendingFor
    <3> QED BY <1>2, <1>3, <2>1, <2>3, <3>1
  <2> QED BY <2>2, <2>3
<1>8. Awaited'
  <2> SUFFICES ASSUME NEW m \in Messages, Forgotten(m)'
               PROVE  /\ Forgotten(m)
                      /\ \A t \in Slots : Pending(t, Owner[m]) /\ Within(m, t) =>
                             Pending(t, Owner[m])' /\ run'[t].due = run[t].due
    BY ServeRun, AwaitedKept
  <2>1. Forgotten(m) /\ m \notin Digest(u) /\ m \notin Window(u)
    <3>1. got'[m] = 0 /\ m \notin straddled' /\ got[m] \in Nat
      BY <1>2 DEF Forgotten
    <3>2. m \notin Digest(u) /\ got[m] = 0
      BY <1>2, <3>1
    <3>3. m \notin Window(u) /\ m \notin straddled
      BY <3>1, <3>2
    <3> QED BY <1>1, <1>5, <3>2, <3>3, ServeRun DEF Forgotten
  <2>2. Owner[m] = u => now = run[s].due
    BY <1>1 DEF Forgotten, Reasons
  <2>3. ~ (Owner[m] = u /\ Within(m, s))
    BY <1>6, <2>1, <2>2 DEF Window, Forgotten
  <2> QED BY <1>5, <2>1, <2>3, ServeRun
<1>9. Once'
  <2> SUFFICES ASSUME NEW m \in Messages, Punctual(Owner[m])', got'[m] > 0
               PROVE  /\ got'[m] = 1 /\ message'[m].created < beat' * Day
                      /\ \A t \in Slots : Within(m, t)' => ~ Pending(t, Owner[m])'
    BY DEF Once
  <2>1. Punctual(Owner[m])
    BY <1>1, <1>5, ExcuseGrows
  <2>2. \A t \in Slots : /\ Pending(t, Owner[m])' => Pending(t, Owner[m])
                         /\ Within(m, t)' <=> Within(m, t)
    BY <1>5, ServeRun DEF Within
  <2>3. CASE got[m] > 0
    <3>1. /\ got[m] = 1 /\ message[m].created < beat * Day
          /\ \A t \in Slots : Within(m, t) => ~ Pending(t, Owner[m])
      BY <2>1, <2>3 DEF Once
    <3>2. m \notin Digest(u)
      <4>1. Owner[m] = u => now = run[s].due
        BY <1>1 DEF Punctual
      <4> QED BY <1>3, <1>6, <3>1, <4>1, ServeRun
    <3> QED BY <1>2, <2>2, <3>1, <3>2, ServeRun
  <2>4. CASE ~ (got[m] > 0)
    <3>1. m \in Digest(u) /\ got'[m] = 1 /\ Owner[m] = u
      BY <1>2, <1>3, <2>4
    <3>2. now = run[s].due
      BY <1>1, <3>1 DEF Punctual
    <3>3. Within(m, s)
      BY <1>3, <1>6, <3>1, <3>2 DEF Recent
    <3>4. message[m].created < beat * Day
      BY <3>3, RowFields, RunFields, DueFacts, ServeRun DEF Within, Clock, Active, Typed
    <3>5. ASSUME NEW t \in Slots, t # s, Within(m, t), Pending(t, u) PROVE FALSE
      <4>1. Active(t) /\ Active(s)
        BY <3>5, ServeRun DEF Pending, Active
      <4>2. run[s].due + Day <= run[t].due \/ run[t].due + Day <= run[s].due
        BY <2>1, <3>1, <3>5, <4>1 DEF Apart
      <4>3. /\ run[s].due \in Nat /\ run[t].due \in Nat /\ message[m].created \in Nat
            /\ Day \in Nat
        BY RowFields, RunFields, DigestAssumption DEF Typed
      <4> QED BY <3>3, <3>5, <4>2, <4>3 DEF Within
    <3> QED BY <2>2, <3>1, <3>4, <3>5, ServeRun
  <2> QED BY <2>3, <2>4
<1> QED BY <1>4, <1>7, <1>8, <1>9

LEMMA ServeInv == ASSUME IInv, NEW s \in Slots, NEW u \in Users, Serve(s, u) PROVE IInv'
<1>1. faults \in 0 .. MaxFaults /\ faults <= faults
  BY DigestAssumption DEF IInv, Typed
<1>2. CASE /\ got' = [m \in Messages |-> IF m \in Digest(u) THEN got[m] + 1 ELSE got[m]]
           /\ straddled' = straddled \cup (Window(u) \ Digest(u))
           /\ excuse' = IF now = run[s].due THEN excuse ELSE Excused({u}, "late")
           /\ UNCHANGED faults
  BY <1>2, ServeSends
<1>3. CASE Fault("adapter") /\ excuse' = Excused({u}, "adapter") /\ UNCHANGED <<got, straddled>>
  BY <1>3, ServeFails, FaultFacts DEF IInv
<1>4. CASE Fault("database") /\ excuse' = Excused({u}, "database") /\ UNCHANGED <<got, straddled>>
  BY <1>4, ServeFails, FaultFacts DEF IInv
<1>5. CASE excuse' = Excused({u}, "database") /\ UNCHANGED <<got, straddled, faults>>
  BY <1>1, <1>5, ServeFails
<1> QED BY <1>2, <1>3, <1>4, <1>5 DEF Serve

-----------------------------------------------------------------------------
LEMMA Inductive == IInv /\ [Next]_vars => IInv'
<1> SUFFICES ASSUME IInv, [Next]_vars PROVE IInv'
  OBVIOUS
<1>1. CASE UNCHANGED vars
  BY <1>1 DEF vars, IInv, Typed, Clock, Dated, Spent, Awaited, Apart, Once, Forgotten, PendingFor,
              Pending, Active, Within, Punctual
<1>2. CASE Next
  BY <1>2, TickInv, CreateInv, CommitMessageInv, BeatInv, StartInv, FinishInv, ServeInv,
     ChildLostInv, WorkerLostInv, RedeliverInv DEF Next
<1> QED BY <1>1, <1>2

LEMMA Invariance == Spec => []IInv
  BY InitInv, Inductive, PTL DEF Spec

\* The variables keep their types; in particular nobody gets a message more often
\* than there were beats and faults: send_daily_digest (messaging/notifications.py)
\* notes nothing of what was sent, so only the deliveries of the task bound it.
THEOREM DigestTypeCorrect == Spec => []TypeOK
<1>1. IInv => TypeOK
  <2> SUFFICES ASSUME IInv PROVE TypeOK
    OBVIOUS
  <2>1. beat <= MaxTime
    <3>1. beat \in Nat /\ beat * Day <= now /\ now \in Nat /\ now <= MaxTime
      BY DEF IInv, Typed, Clock
    <3> QED BY <3>1, DueFacts, DigestAssumption
  <2>2. \A m \in Messages : got[m] \in 0 .. MaxTime + MaxFaults
    <3> SUFFICES ASSUME NEW m \in Messages PROVE got[m] <= MaxTime + MaxFaults
      BY DigestAssumption DEF IInv, Typed
    <3>1. got[m] + Cardinality(PendingFor(Owner[m])) <= beat + faults
      BY DEF IInv, Spent
    <3>2. /\ got[m] \in Nat /\ beat \in Nat /\ faults \in Nat /\ faults <= MaxFaults
          /\ Cardinality(PendingFor(Owner[m])) \in Nat
      BY FinitePending, DigestAssumption DEF IInv, Typed
    <3> QED BY <2>1, <3>1, <3>2, DigestAssumption
  <2> QED BY <2>1, <2>2, DigestAssumption DEF IInv, Typed, TypeOK
<1> QED BY <1>1, Invariance, PTL

\* A message that no digest brought, once the digest after its creation is over,
\* was committed too late, or something befell the digests of that very user:
\* one user's failing adapter never costs another his digest, although
\* send_daily_digests (tasks/scheduled.py) serves all of them in one session.
THEOREM MissesAreExplained == Spec => []MissedExplained
<1>1. IInv => MissedExplained
  <2> SUFFICES ASSUME IInv, NEW m \in Messages, Settled(m), got[m] = 0, m \notin straddled,
                      excuse[Owner[m]] \cap {"adapter", "database", "loop", "child", "late"} = {}
               PROVE  FALSE
    BY DEF MissedExplained
  <2>1. Forgotten(m)
    BY DEF Forgotten, Settled, Reasons
  <2> QED BY <2>1 DEF IInv, Awaited, Pending, Settled
<1> QED BY <1>1, Invariance, PTL

\* A message that came in two digests came in a late one or in a task that was
\* delivered again: otherwise the windows of 24 hours that send_daily_digest looks
\* back do not overlap.
THEOREM TwiceIsExplained == Spec => []TwiceExplained
<1>1. IInv => TwiceExplained
  <2> SUFFICES ASSUME IInv, NEW m \in Messages, got[m] > 1, Punctual(Owner[m]) PROVE FALSE
    BY DEF TwiceExplained, Punctual
  <2>1. got[m] \in Nat
    BY DEF IInv, Typed
  <2> QED BY <2>1 DEF IInv, Once
<1> QED BY <1>1, Invariance, PTL

-----------------------------------------------------------------------------
(* Digests that nothing befalls: what is left is the clock.                *)

\* No session is spoiled, and digests come late at worst.
Unharmed == /\ \A s \in Slots : run[s].usable
            /\ \A u \in Users : excuse[u] \subseteq {"late"}

LEMMA UnharmedStep == Kinds = {} /\ IInv /\ Unharmed /\ [Next]_vars => Unharmed'
<1> SUFFICES ASSUME Kinds = {}, IInv, Unharmed, [Next]_vars PROVE Unharmed'
  OBVIOUS
<1>1. \A kind : ~ Fault(kind)
  BY DEF Fault
<1>2. CASE UNCHANGED <<run, excuse>>
  BY <1>2 DEF Unharmed
<1>3. ASSUME NEW s \in Slots, NEW r \in Runs, run' = [run EXCEPT ![s] = r], r.usable,
             excuse' = excuse
      PROVE  Unharmed'
  BY <1>3, RunBecomes DEF Unharmed, IInv
<1>4. ASSUME NEW s \in Slots, Beat(s) PROVE Unharmed'
  <2>1. Queued(now) \in Runs
    BY QueuedFacts, DigestAssumption DEF IInv, Typed
  <2>2. Queued(now).usable
    BY DEF Queued, NoRun
  <2>3. run' = [run EXCEPT ![s] = Queued(now)] /\ excuse' = excuse
    BY <1>4 DEF Beat, Queued
  <2> QED BY <1>3, <2>1, <2>2, <2>3
<1>5. ASSUME NEW s \in Slots, Start(s) PROVE Unharmed'
  BY <1>1, <1>5 DEF Start, Unharmed, IInv, Typed, Runs
<1>6. ASSUME NEW s \in Slots, Finish(s) PROVE Unharmed'
  BY <1>3, <1>6, NoRunFacts DEF Finish, NoRun
<1>7. ASSUME NEW s \in Slots, NEW u \in Users, Serve(s, u) PROVE Unharmed'
  <2>1. /\ run' = [run EXCEPT ![s] = [run[s] EXCEPT !.todo = @ \ {u}]]
        /\ excuse' = IF now = run[s].due THEN excuse ELSE Excused({u}, "late")
    BY <1>1, <1>7 DEF Serve, Unharmed
  <2>2. \A t \in Slots : run'[t].usable = run[t].usable
    BY <2>1 DEF IInv, Typed, Runs
  <2> QED BY <2>1, <2>2 DEF Unharmed, Excused
<1>8. \A s \in Slots : ~ ChildLost(s) /\ ~ WorkerLost(s) /\ \A t \in Slots : ~ Redeliver(s, t)
  BY <1>1 DEF ChildLost, WorkerLost, Redeliver
<1>9. CASE Tick \/ UNCHANGED vars
  BY <1>2, <1>9 DEF Tick, vars
<1>10. ASSUME NEW m \in Messages, Create(m) \/ CommitMessage(m) PROVE Unharmed'
  BY <1>2, <1>10 DEF Create, CommitMessage
<1> QED BY <1>4, <1>5, <1>6, <1>7, <1>8, <1>9, <1>10 DEF Next

\* If nothing fails, everybody gets every message once, but for the two things
\* that send_daily_digest leaves to the clock: a message committed after the query
\* is missed, and a turn that comes late has another window of 24 hours.
THEOREM UnharmedDigests ==
    ASSUME Kinds = {}
    PROVE  Spec => [](\A m \in Messages :
                       /\ Settled(m) /\ got[m] = 0 => m \in straddled \/ "late" \in excuse[Owner[m]]
                       /\ got[m] > 1 => "late" \in excuse[Owner[m]])
<1> DEFINE Punctually ==
        \A m \in Messages :
           /\ Settled(m) /\ got[m] = 0 => m \in straddled \/ "late" \in excuse[Owner[m]]
           /\ got[m] > 1 => "late" \in excuse[Owner[m]]
<1>1. Init => Unharmed
  BY DEF Init, Unharmed, NoRun
<1>2. IInv /\ Unharmed /\ [Next]_vars => Unharmed'
  BY UnharmedStep
<1>3. MissedExplained /\ TwiceExplained /\ Unharmed => Punctually
  BY DigestAssumption DEF MissedExplained, TwiceExplained, Unharmed
<1> HIDE DEF Punctually
<1>4. Spec => []Punctually
  BY <1>1, <1>2, <1>3, Invariance, MissesAreExplained, TwiceIsExplained, PTL DEF Spec
<1> QED BY <1>4 DEF Punctually

-----------------------------------------------------------------------------
(***************************************************************************)
(* The recordings.  The two systems share nothing.                         *)
(***************************************************************************)

\* The fields of what the variables hold, and how to make such values.
LEMMA TaskFields ==
    \A t \in Tasks : /\ t.pc \in Places /\ t.usable \in BOOLEAN
                      /\ t.key \in Keys \cup {None} /\ t.text \in Texts \cup {None, Blank}
                      /\ t.attempts \in 0 .. 3 /\ t.faults \subseteq RecordingFaults
  BY DEF Tasks, MAX_RETRIES

LEMMA TaskMade ==
    \A pc \in Places, b \in BOOLEAN, k \in Keys \cup {None}, x \in Texts \cup {None, Blank},
       n \in 0 .. 3, fs \in SUBSET RecordingFaults :
        [pc |-> pc, usable |-> b, key |-> k, text |-> x, attempts |-> n, faults |-> fs] \in Tasks
  BY DEF Tasks, MAX_RETRIES

LEMMA RecordFields ==
    \A r \in Records : /\ r.exists \in BOOLEAN /\ r.ref \in Keys \cup {None}
                         /\ r.transcript \in Texts \cup {None} /\ r.summary \in Texts \cup {None}
  BY DEF Records

LEMMA RecordMade ==
    \A b \in BOOLEAN, k \in Keys \cup {None}, x, y \in Texts \cup {None} :
        [exists |-> b, ref |-> k, transcript |-> x, summary |-> y] \in Records
  BY DEF Records

LEMMA BucketFields ==
    \A b \in Buckets : /\ b.made \in BOOLEAN
                         /\ b.objects \in [Keys -> {"absent", "encrypted", "plain"}]
  BY DEF Buckets

-----------------------------------------------------------------------------
\* Some task has this text.
Spoken(text) == \E d \in Deliveries : task[d].text = text
\* Nothing befell this task but failing attempts at the transcription.
Clean(d) == task[d].faults \subseteq {"speech"}

\* What the task of a delivery has done so far.
Sound(d) ==
    /\ task[d].pc = "save" => task[d].text \in Texts
    /\ task[d].pc \in {"unstarted", "download", "upload", "refer", "transcribe"} =>
           task[d].text = None /\ task[d].attempts < 3
    /\ task[d].pc \in {"refer", "transcribe", "save"} => task[d].key # None
    /\ task[d].key # None => bucket.objects[task[d].key] = "encrypted"
    /\ ~ task[d].usable => "database" \in task[d].faults

\* What a task without a fault has left in the record.
Left(d) ==
    Clean(d) /\ record.exists =>
        /\ task[d].pc \in {"transcribe", "save", "done"} => record.ref # None
        /\ task[d].pc = "done" => \/ constructor = "bare" \/ task[d].text = Blank
                                  \/ task[d].attempts = 3
                                  \/ record.transcript # None /\ record.summary # None

\* Where the columns of the record come from.
Traced ==
    /\ record.ref # None => bucket.objects[record.ref] = "encrypted"
    /\ record.transcript # None => Spoken(record.transcript)
    /\ record.summary # None => Spoken(record.summary) /\ record.transcript # None

\* Nothing is stored in the clear, and nothing of it is played.
Encrypted == (\A k \in Keys : bucket.objects[k] # "plain") /\ played # "audio"

\* The inductive invariant.
RInv == /\ RecordingTypeOK /\ Traced /\ Encrypted
        /\ \A d \in Deliveries : Sound(d) /\ Left(d)

LEMMA RInit == ASSUME RecordingInit PROVE RInv
<1>1. Unstarted \in Tasks
  <2>1. /\ "unstarted" \in Places /\ 0 \in 0 .. 3 /\ {} \in SUBSET RecordingFaults
        /\ None \in Keys \cup {None} /\ None \in Texts \cup {None, Blank} /\ TRUE \in BOOLEAN
    BY DEF Places
  <2> QED BY <2>1, TaskMade DEF Unstarted
<1>2. record \in Records /\ record.ref = None /\ record.transcript = None /\ record.summary = None
  <2>1. CASE record = NoRecord
    BY <2>1, RecordMade DEF NoRecord
  <2>2. CASE record = [NoRecord EXCEPT !.exists = TRUE]
    <3>1. record = [exists |-> TRUE, ref |-> None, transcript |-> None, summary |-> None]
      BY <2>2 DEF NoRecord
    <3> QED BY <3>1, RecordMade
  <2> QED BY <2>1, <2>2 DEF RecordingInit
<1>3. clock \in Keys /\ bucket \in Buckets
  BY RecordingAssumption DEF RecordingInit, Keys, Buckets
<1>4. task \in [Deliveries -> Tasks]
  BY <1>1 DEF RecordingInit
<1>5. RecordingTypeOK
  BY <1>2, <1>3, <1>4 DEF RecordingInit, RecordingTypeOK
<1>6. Traced /\ Encrypted
  BY <1>2 DEF RecordingInit, Traced, Encrypted
<1>7. \A d \in Deliveries : Sound(d) /\ Left(d)
  BY DEF RecordingInit, Unstarted, Sound, Left
<1> QED BY <1>5, <1>6, <1>7 DEF RInv

-----------------------------------------------------------------------------
LEMMA PlaceSet ==
    ASSUME NEW t \in Tasks, NEW p \in Places
    PROVE  /\ [t EXCEPT !.pc = p] \in Tasks
           /\ [t EXCEPT !.pc = p].pc = p
           /\ [t EXCEPT !.pc = p].usable = t.usable /\ [t EXCEPT !.pc = p].key = t.key
           /\ [t EXCEPT !.pc = p].text = t.text /\ [t EXCEPT !.pc = p].attempts = t.attempts
           /\ [t EXCEPT !.pc = p].faults = t.faults
  BY DEF Tasks

LEMMA HitFields ==
    ASSUME NEW t \in Tasks, NEW f \in RecordingFaults
    PROVE  /\ Hit(t, f) \in Tasks
           /\ Hit(t, f).pc = t.pc /\ Hit(t, f).usable = t.usable /\ Hit(t, f).key = t.key
           /\ Hit(t, f).text = t.text /\ Hit(t, f).attempts = t.attempts
           /\ Hit(t, f).faults = t.faults \cup {f}
  BY DEF Tasks, Hit

LEMMA KindsAre ==
    {"download", "bucket", "upload", "answer", "database", "pool", "speech", "summary", "crash"}
        = RecordingFaults
  BY DEF RecordingFaults

\* What no step takes back: a column of the record that is set, and an object.
Onward ==
    /\ record'.exists = record.exists /\ constructor' = constructor
    /\ record.ref # None => record'.ref # None
    /\ record.transcript # None => record'.transcript # None
    /\ record.summary # None => record'.summary # None
    /\ \A k \in Keys : bucket.objects[k] = "encrypted" => bucket'.objects[k] = "encrypted"

\* The step of one delivery: the others are as sound as before.
LEMMA OneMoves ==
    ASSUME RInv, NEW d \in Deliveries, task' = [task EXCEPT ![d] = task'[d]],
           task'[d] \in Tasks, Onward, Sound(d)', Left(d)'
    PROVE  task' \in [Deliveries -> Tasks] /\ \A e \in Deliveries : Sound(e)' /\ Left(e)'
<1>1. task \in [Deliveries -> Tasks]
  BY DEF RInv, RecordingTypeOK
<1>2. task' \in [Deliveries -> Tasks] /\ \A e \in Deliveries : e # d => task'[e] = task[e]
  BY <1>1
<1>3. ASSUME NEW e \in Deliveries, e # d PROVE Sound(e)' /\ Left(e)'
  <2>1. task'[e] = task[e] /\ task[e].key \in Keys \cup {None}
    BY <1>1, <1>2, <1>3, TaskFields
  <2>2. Sound(e)'
    BY <2>1 DEF RInv, Sound, Onward
  <2>3. Left(e)'
    BY <2>1 DEF RInv, Left, Clean, Onward
  <2> QED BY <2>2, <2>3
<1> QED BY <1>2, <1>3

\* A text that was heard is still there when a task that had none moves.
LEMMA HeardKept ==
    ASSUME RInv, NEW d \in Deliveries,
           task' = [task EXCEPT ![d] = task'[d]],
           task[d].text # None => task'[d].text = task[d].text,
           NEW x \in Texts, Spoken(x)
    PROVE  Spoken(x)'
<1>1. task \in [Deliveries -> Tasks] /\ x # None
  BY RecordingAssumption DEF RInv, RecordingTypeOK
<1>2. PICK e \in Deliveries : task[e].text = x
  BY DEF Spoken
<1>3. task'[e].text = x
  BY <1>1, <1>2
<1> QED BY <1>3 DEF Spoken

\* A step that leaves the record alone and does not forget a text.
LEMMA TracedKept ==
    ASSUME RInv, NEW d \in Deliveries,
           task' = [task EXCEPT ![d] = task'[d]],
           task[d].text # None => task'[d].text = task[d].text,
           UNCHANGED record, Onward
    PROVE  Traced'
<1>1. record \in Records /\ Traced
  BY DEF RInv, RecordingTypeOK
<1>2. /\ record.ref \in Keys \cup {None} /\ record.transcript \in Texts \cup {None}
      /\ record.summary \in Texts \cup {None}
  BY <1>1, RecordFields
<1>3. record.ref # None => bucket'.objects[record.ref] = "encrypted"
  BY <1>1, <1>2 DEF Traced, Onward
<1>4. record.transcript # None => Spoken(record.transcript)'
  BY <1>1, <1>2, HeardKept DEF Traced
<1>5. record.summary # None => Spoken(record.summary)'
  BY <1>1, <1>2, HeardKept DEF Traced
<1> QED BY <1>1, <1>3, <1>4, <1>5 DEF Traced

\* A statement that is not certain to be done, and needs a row.
Written(updated) == record' = record \/ (record.exists /\ record' = updated)

\* The use of the session: only without a fault the update is certain.
LEMMA SessionUsed ==
    ASSUME RInv, NEW d \in Deliveries, NEW updated \in Records, NEW next \in Tasks,
           UseSession(d, updated, next), next.usable = task[d].usable,
           task[d].faults \subseteq next.faults
    PROVE  /\ task' = [task EXCEPT ![d] = task'[d]] /\ task'[d] \in Tasks
           /\ task'[d].pc = next.pc /\ task'[d].key = next.key /\ task'[d].text = next.text
           /\ task'[d].attempts = next.attempts /\ next.faults \subseteq task'[d].faults
           /\ ~ task'[d].usable => "database" \in task'[d].faults
           /\ Written(updated)
           /\ Clean(d)' /\ record.exists => record' = updated
<1>1. task \in [Deliveries -> Tasks] /\ Sound(d)
  BY DEF RInv, RecordingTypeOK
<1>. record.exists \in BOOLEAN /\ task[d].usable \in BOOLEAN
  BY <1>1, RecordFields, TaskFields DEF RInv, RecordingTypeOK
<1>2. /\ \/ Becomes(d, next) /\ Written(updated)
            /\ (task[d].usable /\ record.exists => record' = updated)
         \/ /\ Becomes(d, Hit(next, "pool")) /\ task[d].usable
            /\ Written(updated)
         \/ /\ Becomes(d, Hit([next EXCEPT !.usable = FALSE], "database"))
            /\ Written(updated)
  BY DEF UseSession, Written
<1>3. CASE /\ Becomes(d, next) /\ Written(updated)
           /\ (task[d].usable /\ record.exists => record' = updated)
  <2>1. task' = [task EXCEPT ![d] = next] /\ task'[d] = next
    BY <1>1, <1>3 DEF Becomes
  <2>2. ~ next.usable => "database" \in next.faults
    BY <1>1 DEF Sound
  <2>3. Clean(d)' => task[d].usable
    BY <2>1, <2>2 DEF Clean
  <2> QED BY <1>3, <2>1, <2>2, <2>3 DEF Written
<1>4. CASE /\ Becomes(d, Hit(next, "pool")) /\ task[d].usable
           /\ Written(updated)
  <2>1. task' = [task EXCEPT ![d] = Hit(next, "pool")] /\ task'[d] = Hit(next, "pool")
    BY <1>1, <1>4 DEF Becomes
  <2>2. "pool" \in RecordingFaults
    BY KindsAre
  <2>3. /\ task'[d] \in Tasks /\ task'[d].pc = next.pc /\ task'[d].usable = next.usable
        /\ task'[d].key = next.key /\ task'[d].text = next.text
        /\ task'[d].attempts = next.attempts /\ task'[d].faults = next.faults \cup {"pool"}
    BY <2>1, <2>2, HitFields
  <2>4. ~ Clean(d)'
    BY <2>3 DEF Clean
  <2> QED BY <1>4, <2>1, <2>3, <2>4
<1>5. CASE /\ Becomes(d, Hit([next EXCEPT !.usable = FALSE], "database"))
           /\ Written(updated)
  <2> DEFINE failed == [next EXCEPT !.usable = FALSE]
  <2>1. /\ failed \in Tasks /\ failed.pc = next.pc /\ failed.key = next.key
        /\ failed.text = next.text /\ failed.attempts = next.attempts
        /\ failed.faults = next.faults
    BY DEF Tasks
  <2> HIDE DEF failed
  <2>2. task' = [task EXCEPT ![d] = Hit(failed, "database")]
        /\ task'[d] = Hit(failed, "database")
    BY <1>1, <1>5 DEF Becomes, failed
  <2>3. "database" \in RecordingFaults
    BY KindsAre
  <2>4. /\ task'[d] \in Tasks /\ task'[d].pc = next.pc
        /\ task'[d].key = next.key /\ task'[d].text = next.text
        /\ task'[d].attempts = next.attempts /\ task'[d].faults = next.faults \cup {"database"}
    BY <2>1, <2>2, <2>3, HitFields
  <2>5. ~ Clean(d)'
    BY <2>4 DEF Clean
  <2> QED BY <1>5, <2>2, <2>4, <2>5
<1> QED BY <1>2, <1>3, <1>4, <1>5

\* The step of a task that leaves the record alone.
LEMMA TaskMovesOn ==
    ASSUME RInv, NEW d \in Deliveries, NEW t \in Tasks,
           Becomes(d, t), UNCHANGED <<clock, record, constructor, played>>,
           bucket' \in Buckets,
           \A k \in Keys : bucket.objects[k] = "encrypted" => bucket'.objects[k] = "encrypted",
           \A k \in Keys : bucket'.objects[k] # "plain",
           task[d].text # None => t.text = task[d].text,
           task'[d] = t => Sound(d)' /\ Left(d)'
    PROVE  RInv' /\ Onward
<1>1. task \in [Deliveries -> Tasks] /\ RecordingTypeOK /\ Encrypted
  BY DEF RInv, RecordingTypeOK
<1>2. task'[d] = t /\ task' = [task EXCEPT ![d] = task'[d]]
  BY <1>1 DEF Becomes
<1>3. Onward
  BY DEF Onward
<1>4. task' \in [Deliveries -> Tasks] /\ \A e \in Deliveries : Sound(e)' /\ Left(e)'
  BY <1>2, <1>3, OneMoves
<1>5. Traced'
  BY <1>2, <1>3, TracedKept
<1>6. RecordingTypeOK' /\ Encrypted'
  BY <1>1, <1>4 DEF RecordingTypeOK, Encrypted, Keys
<1> QED BY <1>3, <1>4, <1>5, <1>6 DEF RInv

LEMMA TaskMoves ==
    ASSUME RInv, NEW d \in Deliveries, NEW t \in Tasks,
           Becomes(d, t), UNCHANGED <<clock, bucket, record, constructor, played>>,
           task[d].text # None => t.text = task[d].text,
           task'[d] = t => Sound(d)' /\ Left(d)'
    PROVE  RInv' /\ Onward
<1>1. /\ bucket' \in Buckets
      /\ \A k \in Keys : bucket.objects[k] = "encrypted" => bucket'.objects[k] = "encrypted"
      /\ \A k \in Keys : bucket'.objects[k] # "plain"
  BY DEF RInv, RecordingTypeOK, Encrypted
<1> QED BY <1>1, TaskMovesOn

LEMMA RCallback ==
    ASSUME RInv, NEW d \in Deliveries, Callback(d) PROVE RInv' /\ Onward
<1>1. task[d] \in Tasks /\ task[d].text = None /\ task[d].attempts < 3 /\ Sound(d)
  BY DEF RInv, RecordingTypeOK, Sound, Callback
<1>2. "download" \in Places
  BY DEF Places
<1> DEFINE t == [task[d] EXCEPT !.pc = "download"]
<1>3. t \in Tasks /\ t.pc = "download" /\ t.text = None /\ t.key = task[d].key
      /\ t.usable = task[d].usable /\ t.attempts = task[d].attempts /\ t.faults = task[d].faults
  BY <1>1, <1>2, PlaceSet
<1>4. Becomes(d, t) /\ UNCHANGED <<clock, bucket, record, constructor, played>>
  BY DEF Callback
<1> HIDE DEF t
<1>5. task'[d] = t => Sound(d)' /\ Left(d)'
  BY <1>1, <1>3, <1>4 DEF Sound, Left
<1> QED BY <1>1, <1>3, <1>4, <1>5, TaskMoves

LEMMA RDownload ==
    ASSUME RInv, NEW d \in Deliveries, Download(d) PROVE RInv' /\ Onward
<1>1. task[d] \in Tasks /\ task[d].text = None /\ task[d].attempts < 3 /\ Sound(d)
  BY DEF RInv, RecordingTypeOK, Sound, Download
<1>2. "upload" \in Places /\ "raised" \in Places /\ "download" \in RecordingFaults
  BY DEF Places, RecordingFaults
<1> DEFINE t(p) == [task[d] EXCEPT !.pc = p]
<1>3. \A p \in {"upload", "raised"} :
         /\ t(p) \in Tasks /\ t(p).pc = p /\ t(p).text = None /\ t(p).key = task[d].key
         /\ t(p).usable = task[d].usable /\ t(p).attempts = task[d].attempts
         /\ t(p).faults = task[d].faults
  BY <1>1, <1>2, PlaceSet
<1>4. /\ Becomes(d, t("upload")) \/ Becomes(d, Hit(t("raised"), "download"))
      /\ UNCHANGED <<clock, bucket, record, constructor, played>>
  BY DEF Download
<1> HIDE DEF t
<1>5. CASE Becomes(d, t("upload"))
  <2>1. task'[d] = t("upload") => Sound(d)' /\ Left(d)'
    BY <1>1, <1>3, <1>4 DEF Sound, Left
  <2> QED BY <1>1, <1>3, <1>4, <1>5, <2>1, TaskMoves
<1>6. CASE Becomes(d, Hit(t("raised"), "download"))
  <2> DEFINE u == Hit(t("raised"), "download")
  <2>1. /\ u \in Tasks /\ u.pc = "raised" /\ u.text = None /\ u.key = task[d].key
        /\ u.usable = task[d].usable /\ task[d].faults \subseteq u.faults
    BY <1>2, <1>3, HitFields
  <2> HIDE DEF u
  <2>2. task'[d] = u => Sound(d)' /\ Left(d)'
    BY <1>1, <1>4, <2>1 DEF Sound, Left
  <2>3. Becomes(d, u)
    BY <1>6 DEF u
  <2> QED BY <1>1, <1>4, <2>1, <2>2, <2>3, TaskMoves
<1> QED BY <1>4, <1>5, <1>6

-----------------------------------------------------------------------------
\* Whatever becomes of the upload, what was encrypted stays, and nothing else is stored.
LEMMA BucketGrows ==
    ASSUME RInv,
           \/ bucket' = [made |-> TRUE, objects |-> Stored(bucket.objects)]
           \/ bucket' = bucket
           \/ bucket' = [bucket EXCEPT !.made = TRUE]
    PROVE  /\ bucket' \in Buckets
           /\ \A k \in Keys : bucket.objects[k] = "encrypted" => bucket'.objects[k] = "encrypted"
           /\ \A k \in Keys : bucket'.objects[k] # "plain"
<1>1. bucket \in Buckets /\ clock \in Keys /\ \A k \in Keys : bucket.objects[k] # "plain"
  BY DEF RInv, RecordingTypeOK, Encrypted
<1>2. CASE bucket' = [made |-> TRUE, objects |-> Stored(bucket.objects)]
  BY <1>1, <1>2 DEF Buckets, Stored
<1>3. CASE bucket' = bucket
  BY <1>1, <1>3
<1>4. CASE bucket' = [bucket EXCEPT !.made = TRUE]
  BY <1>1, <1>4 DEF Buckets
<1> QED BY <1>2, <1>3, <1>4

LEMMA RUpload ==
    ASSUME RInv, NEW d \in Deliveries, Upload(d) PROVE RInv' /\ Onward
<1>1. task[d] \in Tasks /\ task[d].text = None /\ task[d].attempts < 3 /\ Sound(d) /\ clock \in Keys
  BY DEF RInv, RecordingTypeOK, Sound, Upload
<1>2. "refer" \in Places /\ "raised" \in Places
      /\ "bucket" \in RecordingFaults /\ "upload" \in RecordingFaults /\ "answer" \in RecordingFaults
  BY DEF Places, RecordingFaults
<1> DEFINE t == [task[d] EXCEPT !.pc = "refer", !.key = clock]
           u == [task[d] EXCEPT !.pc = "raised"]
<1>3. /\ t \in Tasks /\ t.pc = "refer" /\ t.text = None /\ t.key = clock
      /\ t.usable = task[d].usable /\ t.attempts = task[d].attempts /\ t.faults = task[d].faults
  BY <1>1, <1>2 DEF Tasks
<1>4. /\ u \in Tasks /\ u.pc = "raised" /\ u.text = None /\ u.key = task[d].key
      /\ u.usable = task[d].usable /\ u.faults = task[d].faults
  BY <1>1, <1>2, PlaceSet
<1>5. /\ UNCHANGED <<clock, record, constructor, played>>
      /\ \/ bucket' = [made |-> TRUE, objects |-> Stored(bucket.objects)] /\ Becomes(d, t)
         \/ /\ \/ bucket' = [made |-> TRUE, objects |-> Stored(bucket.objects)]
               \/ bucket' = bucket
               \/ bucket' = [bucket EXCEPT !.made = TRUE]
            /\ \E f \in {"bucket", "upload", "answer"} : Becomes(d, Hit(u, f))
  BY DEF Upload
<1> HIDE DEF t, u
<1>6. /\ bucket' \in Buckets
      /\ \A k \in Keys : bucket.objects[k] = "encrypted" => bucket'.objects[k] = "encrypted"
      /\ \A k \in Keys : bucket'.objects[k] # "plain"
  BY <1>5, BucketGrows
<1>7. CASE bucket' = [made |-> TRUE, objects |-> Stored(bucket.objects)] /\ Becomes(d, t)
  <2>1. bucket'.objects[clock] = "encrypted" /\ clock # None
    <3>1. bucket \in Buckets
      BY DEF RInv, RecordingTypeOK
    <3>2. bucket'.objects = [bucket.objects EXCEPT ![clock] = "encrypted"]
      BY <1>7 DEF Stored
    <3> QED BY <1>1, <3>1, <3>2, BucketFields, RecordingAssumption DEF Keys
  <2>2. task'[d] = t => Sound(d)' /\ Left(d)'
    BY <1>1, <1>3, <2>1 DEF Sound, Left
  <2> QED BY <1>1, <1>3, <1>5, <1>6, <1>7, <2>2, TaskMovesOn
<1>8. ASSUME NEW f \in {"bucket", "upload", "answer"}, Becomes(d, Hit(u, f)) PROVE RInv' /\ Onward
  <2> DEFINE v == Hit(u, f)
  <2>0. f \in RecordingFaults
    BY <1>2
  <2>1. /\ v \in Tasks /\ v.pc = "raised" /\ v.text = None /\ v.key = task[d].key
        /\ v.usable = task[d].usable /\ task[d].faults \subseteq v.faults
    BY <1>4, <2>0, HitFields
  <2>2. Becomes(d, v)
    BY <1>8
  <2> HIDE DEF v
  <2>3. task'[d] = v => Sound(d)' /\ Left(d)'
    BY <1>1, <1>6, <2>1, TaskFields DEF Sound, Left
  <2> QED BY <1>1, <1>5, <1>6, <2>1, <2>2, <2>3, TaskMovesOn
<1> QED BY <1>5, <1>7, <1>8

-----------------------------------------------------------------------------
(* The transcription.                                                      *)

LEMMA RTranscribe ==
    ASSUME RInv, NEW d \in Deliveries, Transcribe(d) PROVE RInv' /\ Onward
<1>1. /\ task[d] \in Tasks /\ task[d].text = None /\ Sound(d) /\ Left(d)
      /\ task[d].pc = "transcribe" /\ task[d].key # None /\ task[d].attempts < 3
      /\ UNCHANGED <<clock, bucket, record, constructor, played>>
  <2>1. task[d].pc = "transcribe" /\ UNCHANGED <<clock, bucket, record, constructor, played>>
    BY DEF Transcribe
  <2>2. task[d] \in Tasks /\ Sound(d) /\ Left(d)
    BY DEF RInv, RecordingTypeOK
  <2> QED BY <2>1, <2>2 DEF Sound
<1>2. "done" \in Places /\ "save" \in Places /\ "speech" \in RecordingFaults
  BY DEF Places, RecordingFaults
<1>3. ASSUME constructor = "bare", Becomes(d, [task[d] EXCEPT !.pc = "done"]) PROVE RInv' /\ Onward
  <2> DEFINE t == [task[d] EXCEPT !.pc = "done"]
  <2>1. /\ t \in Tasks /\ t.pc = "done" /\ t.text = None /\ t.key = task[d].key
        /\ t.usable = task[d].usable /\ t.faults = task[d].faults
    BY <1>1, <1>2, PlaceSet
  <2>2. Becomes(d, t)
    BY <1>3
  <2> HIDE DEF t
  <2>3. task'[d] = t => Sound(d)' /\ Left(d)'
    BY <1>1, <1>3, <2>1 DEF Sound, Left, Clean
  <2> QED BY <1>1, <2>1, <2>2, <2>3, TaskMoves
<1>4. ASSUME NEW x \in Texts, Becomes(d, Heard(task[d], "save", x)) PROVE RInv' /\ Onward
  <2> DEFINE t == Heard(task[d], "save", x)
  <2>1. /\ t \in Tasks /\ t.pc = "save" /\ t.text = x /\ t.key = task[d].key
        /\ t.usable = task[d].usable /\ t.faults = task[d].faults
    BY <1>1, <1>2 DEF Tasks, Heard
  <2>2. Becomes(d, t)
    BY <1>4
  <2> HIDE DEF t
  <2>3. task'[d] = t => Sound(d)' /\ Left(d)'
    BY <1>1, <2>1 DEF Sound, Left, Clean
  <2> QED BY <1>1, <2>1, <2>2, <2>3, TaskMoves
<1>5. ASSUME Becomes(d, Heard(task[d], "done", Blank)) PROVE RInv' /\ Onward
  <2> DEFINE t == Heard(task[d], "done", Blank)
  <2>1. /\ t \in Tasks /\ t.pc = "done" /\ t.text = Blank /\ t.key = task[d].key
        /\ t.usable = task[d].usable /\ t.faults = task[d].faults
    BY <1>1, <1>2 DEF Tasks, Heard
  <2>2. Becomes(d, t)
    BY <1>5
  <2> HIDE DEF t
  <2>3. task'[d] = t => Sound(d)' /\ Left(d)'
    BY <1>1, <2>1 DEF Sound, Left, Clean
  <2> QED BY <1>1, <2>1, <2>2, <2>3, TaskMoves
\* An attempt failed: another one, or the third was the last.
<1>6. ASSUME NEW t \in Tasks, Becomes(d, t), t.text = None, t.key = task[d].key,
             t.usable = task[d].usable, t.faults = task[d].faults \cup {"speech"},
             \/ t.pc = "transcribe" /\ t.attempts < 3
             \/ t.pc = "done" /\ t.attempts = 3
      PROVE RInv' /\ Onward
  <2>1. task'[d] = t => Sound(d)' /\ Left(d)'
    BY <1>1, <1>6 DEF Sound, Left, Clean
  <2> QED BY <1>1, <1>6, <2>1, TaskMoves
<1>7. ASSUME LET failed == Hit([task[d] EXCEPT !.attempts = @ + 1], "speech")
             IN \/ Again(failed.attempts) /\ Becomes(d, failed)
                \/ ~ Again(failed.attempts) /\ Becomes(d, [failed EXCEPT !.pc = "done"])
      PROVE RInv' /\ Onward
  <2> DEFINE tried == [task[d] EXCEPT !.attempts = @ + 1]
             failed == Hit(tried, "speech")
  <2>1. task[d].attempts \in 0 .. 3 /\ task[d].attempts + 1 \in 0 .. 3
    BY <1>1, TaskFields
  <2>2. /\ tried \in Tasks /\ tried.pc = "transcribe" /\ tried.text = None
        /\ tried.key = task[d].key /\ tried.usable = task[d].usable
        /\ tried.faults = task[d].faults /\ tried.attempts = task[d].attempts + 1
    BY <1>1, <2>1 DEF Tasks, MAX_RETRIES
  <2> HIDE DEF tried
  <2>3. /\ failed \in Tasks /\ failed.pc = "transcribe" /\ failed.text = None
        /\ failed.key = task[d].key /\ failed.usable = task[d].usable
        /\ failed.faults = task[d].faults \cup {"speech"}
        /\ failed.attempts = task[d].attempts + 1
    BY <1>2, <2>2, HitFields
  <2>4. \/ Becomes(d, failed) /\ failed.attempts < 3
        \/ Becomes(d, [failed EXCEPT !.pc = "done"]) /\ failed.attempts = 3
    BY <1>7, <2>1, <2>3 DEF tried, Again, MAX_RETRIES
  <2> HIDE DEF failed
  <2>5. CASE Becomes(d, failed) /\ failed.attempts < 3
    BY <1>6, <2>3, <2>5
  <2>6. CASE Becomes(d, [failed EXCEPT !.pc = "done"]) /\ failed.attempts = 3
    <3> DEFINE over == [failed EXCEPT !.pc = "done"]
    <3>1. /\ over \in Tasks /\ over.pc = "done" /\ over.text = None
          /\ over.key = task[d].key /\ over.usable = task[d].usable
          /\ over.faults = task[d].faults \cup {"speech"} /\ over.attempts = 3
      BY <1>2, <2>3, <2>6, PlaceSet
    <3>2. Becomes(d, over)
      BY <2>6
    <3> HIDE DEF over
    <3> QED BY <1>6, <3>1, <3>2
  <2> QED BY <2>4, <2>5, <2>6
<1>8. \/ constructor = "bare" /\ Becomes(d, [task[d] EXCEPT !.pc = "done"])
      \/ \E x \in Texts : Becomes(d, Heard(task[d], "save", x))
      \/ Becomes(d, Heard(task[d], "done", Blank))
      \/ LET failed == Hit([task[d] EXCEPT !.attempts = @ + 1], "speech")
         IN \/ Again(failed.attempts) /\ Becomes(d, failed)
            \/ ~ Again(failed.attempts) /\ Becomes(d, [failed EXCEPT !.pc = "done"])
  BY DEF Transcribe
<1> QED BY <1>3, <1>4, <1>5, <1>7, <1>8

-----------------------------------------------------------------------------
(* The uses of the session.                                                *)

\* A use of the session keeps the invariant if the row it writes does.
LEMMA SessionKeeps ==
    ASSUME RInv, NEW d \in Deliveries,
           NEW updated \in Records, NEW next \in Tasks, UseSession(d, updated, next),
           UNCHANGED <<clock, bucket, constructor, played>>,
           next.usable = task[d].usable, task[d].faults \subseteq next.faults,
           next.text = task[d].text, next.key = task[d].key,
           next.pc \in {"transcribe", "done"},
           next.pc = "transcribe" => next.text = None /\ next.attempts < 3 /\ next.key # None,
           updated.exists = record.exists,
           record.ref # None => updated.ref # None,
           record.transcript # None => updated.transcript # None,
           record.summary # None => updated.summary # None,
           updated.ref # None => bucket.objects[updated.ref] = "encrypted",
           updated.transcript \in {record.transcript, task[d].text},
           updated.summary \in {record.summary, task[d].text},
           updated.summary # None => updated.transcript # None,
           Clean(d)' /\ record.exists => updated.ref # None,
           next.pc = "done" => updated.transcript # None /\ (updated.summary # None \/ ~ Clean(d)')
    PROVE  RInv' /\ Onward
<1>1. /\ task' = [task EXCEPT ![d] = task'[d]] /\ task'[d] \in Tasks
      /\ task'[d].pc = next.pc /\ task'[d].key = next.key /\ task'[d].text = next.text
      /\ task'[d].attempts = next.attempts /\ next.faults \subseteq task'[d].faults
      /\ ~ task'[d].usable => "database" \in task'[d].faults
      /\ Written(updated)
      /\ Clean(d)' /\ record.exists => record' = updated
  BY SessionUsed
<1>2. /\ task \in [Deliveries -> Tasks] /\ record \in Records /\ Traced /\ Sound(d)
      /\ RecordingTypeOK /\ Encrypted
  BY DEF RInv, RecordingTypeOK
<1>3. Onward /\ record' \in Records
  BY <1>1, <1>2 DEF Onward, Written
<1>4. Sound(d)'
  BY <1>1, <1>2 DEF Sound
<1>5. Left(d)'
  BY <1>1, <1>3 DEF Left, Onward
<1>6. task' \in [Deliveries -> Tasks] /\ \A e \in Deliveries : Sound(e)' /\ Left(e)'
  BY <1>1, <1>3, <1>4, <1>5, OneMoves
<1>7. Traced'
  <2>1. CASE record' = record
    BY <1>1, <1>3, <2>1, TracedKept
  <2>2. CASE record' = updated
    <3>1. Spoken(task[d].text)'
      <4>1. task'[d].text = task[d].text
        BY <1>1
      <4> QED BY <4>1 DEF Spoken
    <3>2. \A x \in Texts : Spoken(x) => Spoken(x)'
      BY <1>1, HeardKept
    <3>3. updated.transcript # None => Spoken(updated.transcript)'
      BY <1>2, <3>1, <3>2, RecordFields DEF Traced, Spoken
    <3>4. updated.summary # None => Spoken(updated.summary)'
      BY <1>2, <3>1, <3>2, RecordFields DEF Traced, Spoken
    <3> QED BY <2>2, <3>3, <3>4 DEF Traced
  <2> QED BY <1>1, <2>1, <2>2 DEF Written
<1>8. RecordingTypeOK' /\ Encrypted'
  BY <1>2, <1>3, <1>6 DEF RecordingTypeOK, Encrypted, Keys
<1> QED BY <1>3, <1>6, <1>7, <1>8 DEF RInv

LEMMA RRefer ==
    ASSUME RInv, NEW d \in Deliveries, Refer(d) PROVE RInv' /\ Onward
<1> DEFINE updated == [record EXCEPT !.ref = task[d].key]
           next == [task[d] EXCEPT !.pc = "transcribe"]
<1>1. /\ task[d].pc = "refer" /\ UseSession(d, updated, next)
      /\ UNCHANGED <<clock, bucket, constructor, played>>
  BY DEF Refer
<1>2. task[d] \in Tasks /\ record \in Records /\ Sound(d) /\ Traced
  BY DEF RInv, RecordingTypeOK
<1>3. "transcribe" \in Places
  BY DEF Places
<1>4. /\ next \in Tasks /\ next.pc = "transcribe" /\ next.usable = task[d].usable
      /\ next.key = task[d].key /\ next.text = task[d].text
      /\ next.attempts = task[d].attempts /\ next.faults = task[d].faults
  BY <1>2, <1>3, PlaceSet
<1>5. /\ updated \in Records /\ updated.exists = record.exists /\ updated.ref = task[d].key
      /\ updated.transcript = record.transcript /\ updated.summary = record.summary
  BY <1>2, TaskFields DEF Records
<1> HIDE DEF updated, next
<1>6. /\ task[d].text = None /\ task[d].attempts < 3 /\ task[d].key # None
      /\ bucket.objects[task[d].key] = "encrypted"
      /\ record.summary # None => record.transcript # None
  BY <1>1, <1>2 DEF Sound, Traced
<1> QED BY <1>1, <1>4, <1>5, <1>6, SessionKeeps

LEMMA RSave ==
    ASSUME RInv, NEW d \in Deliveries, Save(d) PROVE RInv' /\ Onward
<1> DEFINE done == [task[d] EXCEPT !.pc = "done"]
<1>1. /\ task[d].pc = "save" /\ UNCHANGED <<clock, bucket, constructor, played>>
      /\ \/ UseSession(d, Transcribed(task[d].text, task[d].text), done)
         \/ UseSession(d, Transcribed(task[d].text, None), Hit(done, "summary"))
  BY DEF Save
<1>2. task[d] \in Tasks /\ record \in Records /\ Sound(d) /\ Left(d) /\ Traced
  BY DEF RInv, RecordingTypeOK
<1>3. "done" \in Places /\ "summary" \in RecordingFaults /\ None \notin Texts
  BY RecordingAssumption DEF Places, RecordingFaults
<1>4. /\ done \in Tasks /\ done.pc = "done" /\ done.usable = task[d].usable
      /\ done.key = task[d].key /\ done.text = task[d].text
      /\ done.attempts = task[d].attempts /\ done.faults = task[d].faults
  BY <1>2, <1>3, PlaceSet
<1>5. task[d].text \in Texts /\ task[d].text # None
  BY <1>1, <1>2, <1>3 DEF Sound
<1>6. ASSUME NEW y \in {task[d].text, None}
      PROVE  LET updated == Transcribed(task[d].text, y)
             IN /\ updated \in Records /\ updated.exists = record.exists
                /\ updated.ref = record.ref /\ updated.transcript = task[d].text
                /\ updated.summary = IF y = None THEN record.summary ELSE y
  BY <1>2, <1>5 DEF Records, Transcribed
<1>7. /\ record.ref # None => bucket.objects[record.ref] = "encrypted"
      /\ Clean(d) /\ record.exists => record.ref # None
  BY <1>1, <1>2 DEF Traced, Left
<1> HIDE DEF done
<1>8. CASE UseSession(d, Transcribed(task[d].text, task[d].text), done)
  <2> DEFINE updated == Transcribed(task[d].text, task[d].text)
  <2>1. /\ updated \in Records /\ updated.exists = record.exists /\ updated.ref = record.ref
        /\ updated.transcript = task[d].text /\ updated.summary = task[d].text
    BY <1>5, <1>6
  <2>2. UseSession(d, updated, done)
    BY <1>8
  <2> HIDE DEF updated
  <2>3. Clean(d)' => Clean(d)
    BY <1>4, <2>1, <2>2, SessionUsed DEF Clean
  <2> QED BY <1>1, <1>4, <1>5, <1>7, <2>1, <2>2, <2>3, SessionKeeps
<1>9. CASE UseSession(d, Transcribed(task[d].text, None), Hit(done, "summary"))
  <2> DEFINE updated == Transcribed(task[d].text, None)
             next == Hit(done, "summary")
  <2>1. /\ updated \in Records /\ updated.exists = record.exists /\ updated.ref = record.ref
        /\ updated.transcript = task[d].text /\ updated.summary = record.summary
    BY <1>6
  <2>2. UseSession(d, updated, next)
    BY <1>9
  <2>3. /\ next \in Tasks /\ next.pc = "done" /\ next.usable = task[d].usable
        /\ next.key = task[d].key /\ next.text = task[d].text
        /\ next.faults = task[d].faults \cup {"summary"}
    BY <1>3, <1>4, HitFields
  <2> HIDE DEF updated, next
  <2>4. task[d].faults \subseteq next.faults /\ ~ Clean(d)'
    BY <2>1, <2>2, <2>3, SessionUsed DEF Clean
  <2> QED BY <1>1, <1>5, <1>7, <2>1, <2>2, <2>3, <2>4, SessionKeeps
<1> QED BY <1>1, <1>8, <1>9

-----------------------------------------------------------------------------
LEMMA RTick == ASSUME RInv, ClockTicks PROVE RInv' /\ Onward
<1>1. clock' \in Keys /\ UNCHANGED <<bucket, record, task, constructor, played>>
  BY RecordingAssumption DEF ClockTicks, RInv, RecordingTypeOK, Keys
<1> QED BY <1>1 DEF RInv, RecordingTypeOK, Traced, Encrypted, Sound, Left,
         Clean, Spoken, Keys, Onward

LEMMA RPlay == ASSUME RInv, Play PROVE RInv' /\ Onward
<1>1. UNCHANGED <<clock, bucket, record, task, constructor>>
  BY DEF Play
<1>2. played' = "ciphertext"
  BY DEF Play, RInv, Traced
<1> QED
  BY <1>1, <1>2 DEF RInv, RecordingTypeOK, Traced, Encrypted, Sound, Left,
         Clean, Spoken, Keys, Onward

LEMMA RCrash == ASSUME RInv, Crash PROVE RInv' /\ Onward
<1>1. /\ task \in [Deliveries -> Tasks] /\ record \in Records /\ Traced
      /\ RecordingTypeOK /\ Encrypted
      /\ UNCHANGED <<clock, bucket, record, constructor, played>>
  BY DEF RInv, RecordingTypeOK, Crash
<1>2. "lost" \in Places /\ "crash" \in RecordingFaults
  BY DEF Places, RecordingFaults
<1>3. ASSUME NEW d \in Deliveries
      PROVE  \/ task'[d] = task[d]
             \/ /\ task'[d] \in Tasks /\ task'[d].pc = "lost"
                /\ task'[d].text = task[d].text /\ task'[d].key = task[d].key
                /\ task'[d].usable = task[d].usable
                /\ task'[d].faults = task[d].faults \cup {"crash"}
  <2> DEFINE t == [task[d] EXCEPT !.pc = "lost"]
  <2>1. /\ t \in Tasks /\ t.pc = "lost" /\ t.text = task[d].text /\ t.key = task[d].key
        /\ t.usable = task[d].usable /\ t.faults = task[d].faults
    BY <1>1, <1>2, PlaceSet
  <2>2. task'[d] = task[d] \/ task'[d] = Hit(t, "crash")
    BY DEF Crash
  <2> HIDE DEF t
  <2> QED BY <1>2, <2>1, <2>2, HitFields
<1>4. task' \in [Deliveries -> Tasks]
  <2>1. task' = [d \in Deliveries |-> task'[d]]
    BY DEF Crash
  <2> QED BY <1>1, <1>3, <2>1
<1>5. \A d \in Deliveries : Sound(d)' /\ Left(d)'
  <2> SUFFICES ASSUME NEW d \in Deliveries PROVE Sound(d)' /\ Left(d)'
    OBVIOUS
  <2>1. Sound(d) /\ Left(d)
    BY DEF RInv
  <2> QED BY <1>1, <1>3, <2>1 DEF Sound, Left, Clean
<1>6. \A x : Spoken(x) => Spoken(x)'
  BY <1>3 DEF Spoken
<1>7. Traced'
  BY <1>1, <1>6 DEF Traced, Spoken
<1>8. RecordingTypeOK' /\ Encrypted'
  BY <1>1, <1>4 DEF RecordingTypeOK, Encrypted, Keys
<1> QED BY <1>1, <1>5, <1>7, <1>8 DEF RInv, Onward

LEMMA RInductive == ASSUME RInv, [RecordingNext]_recordingVars PROVE RInv' /\ Onward
<1>1. CASE UNCHANGED recordingVars
  BY <1>1 DEF recordingVars, RInv, RecordingTypeOK, Traced, Encrypted, Sound, Left,
         Clean, Spoken, Keys, Onward
<1>2. CASE RecordingNext
  BY <1>2, RCallback, RDownload, RUpload, RRefer, RTranscribe, RSave, RTick, RPlay, RCrash
     DEF RecordingNext, Step
<1> QED BY <1>1, <1>2

LEMMA RInvariance == RecordingSpec => []RInv
<1>1. RecordingInit => RInv
  BY RInit
<1>2. RInv /\ [RecordingNext]_recordingVars => RInv'
  BY RInductive
<1> QED BY <1>1, <1>2, PTL DEF RecordingSpec

\* Bucket, record and tasks keep their types: above all, transcribe_file
\* (voice/stt/deepgram_provider.py) makes no more than MAX_RETRIES attempts.
THEOREM RecordingTypeCorrect == RecordingSpec => []RecordingTypeOK
<1>1. RInv => RecordingTypeOK
  BY DEF RInv
<1> QED BY <1>1, RInvariance, PTL

\* A task of process_twilio_recording (core/recording.py) that ends without a fault
\* has left a reference to an object that is there, and a transcript with a summary
\* if it could hear one, whatever other deliveries of the callback do meanwhile.
THEOREM NothingIsDropped == RecordingSpec => []NothingDropped
<1>1. RInv => NothingDropped
  <2> SUFFICES ASSUME RInv, NEW d \in Deliveries,
                      task[d].pc = "done", Clean(d), record.exists
               PROVE  /\ record.ref # None /\ bucket.objects[record.ref] # "absent"
                      /\ \/ constructor = "bare" \/ task[d].text = Blank
                         \/ task[d].attempts = MAX_RETRIES
                         \/ record.transcript # None /\ record.summary # None
    BY DEF NothingDropped, Clean
  <2> QED BY DEF RInv, Left, Traced, MAX_RETRIES
<1> QED BY <1>1, RInvariance, PTL

\* A summary stands beside a transcript, and both are of texts that deliveries of
\* this callback heard, in whatever order their UPDATEs are done.
THEOREM SummariesFit == RecordingSpec => []SummaryFits
<1>1. RInv => SummaryFits
  BY DEF RInv, SummaryFits, Traced, Spoken
<1> QED BY <1>1, RInvariance, PTL

\* upload_recording (core/storage.py) encrypts every object, and
\* get_call_recording_url (api/v1/calls.py) leads past the decryption: no user ever
\* hears a recording.  Where a run of MCRecording shows one playback of ciphertext,
\* this says that there is no other kind.
THEOREM PlaybackIsNeverAudio == RecordingSpec => [](played # "audio")
<1>1. RInv => played # "audio"
  BY DEF RInv, Encrypted
<1> QED BY <1>1, RInvariance, PTL

\* A reference, a transcript or a summary that is in the record stays there, and so
\* does an object: no second delivery, no fault and no crash undoes what a task of
\* process_twilio_recording has achieved.
THEOREM NothingTakenBack == RecordingSpec => NothingUndone
<1>1. RInv /\ [RecordingNext]_recordingVars =>
        [ /\ record.ref # None => record'.ref # None
          /\ record.transcript # None => record'.transcript # None
          /\ record.summary # None => record'.summary # None
          /\ \A k \in Keys : bucket.objects[k] # "absent" => bucket'.objects[k] # "absent"
        ]_recordingVars
  <2> SUFFICES ASSUME RInv, [RecordingNext]_recordingVars
               PROVE  /\ record.ref # None => record'.ref # None
                      /\ record.transcript # None => record'.transcript # None
                      /\ record.summary # None => record'.summary # None
                      /\ \A k \in Keys :
                            bucket.objects[k] # "absent" => bucket'.objects[k] # "absent"
    OBVIOUS
  <2>1. Onward
    BY RInductive
  <2>2. \A k \in Keys : bucket.objects[k] \in {"absent", "encrypted"}
    BY BucketFields DEF RInv, RecordingTypeOK, Encrypted
  <2> QED BY <2>1, <2>2 DEF Onward
<1> QED BY <1>1, RInvariance, PTL DEF RecordingSpec, NothingUndone
=============================================================================
