------------------------------ MODULE IntelProofs -----------------------------
(***************************************************************************)
(* Proofs about TrustScore and Intel for any signals, numbers, lookups,    *)
(* lists and answers: a score is a score, the table keeps its types, a     *)
(* committed flag is never cleared, and none is set without a cause.       *)
(***************************************************************************)
EXTENDS Intel, TLAPS

-----------------------------------------------------------------------------
(* The trust score is a score, although calculate_trust_score never needs  *)
(* its clamp; and a blocklist hit never makes a number more trusted.       *)


\* Every component that is present is between 0 and Full.
Scores == (0 .. Full) \cup {None}

LEMMA StirIsScore == ASSUME NEW x PROVE StirScore(x) \in Scores
  BY DEF StirScore, Scores, Full, Neutral

LEMMA LineIsScore == ASSUME NEW x PROVE LineScore(x) \in 0 .. 9000
  BY DEF LineScore, Neutral

LEMMA CarrierIsScore == ASSUME NEW x, NEW y PROVE CarrierScore(x, y) \in Scores
<1> DEFINE n == LineScore(y)
<1>1. n \in 0 .. 9000
  BY LineIsScore
<1> HIDE DEF n
<1>2. n + 0 \in Scores /\ n + 1000 \in Scores /\ None \in Scores
  BY <1>1 DEF Scores, Full
<1>3. n + (IF x = TRUE THEN 1000 ELSE 0) \in Scores
  BY <1>2
<1> QED BY <1>2, <1>3 DEF CarrierScore, n

LEMMA CnamIsScore == ASSUME NEW x PROVE CnamScore(x) \in Scores
  BY DEF CnamScore, Scores, Full

LEMMA BlocklistIsScore == ASSUME NEW x PROVE BlocklistScore(x) \in Scores
  BY DEF BlocklistScore, Scores, Full

LEMMA HitScore == ASSUME NEW x, x = TRUE PROVE BlocklistScore(x) = 0
<1>1. x # None
  BY NoneAssumption
<1>2. BlocklistScore(x) = IF x THEN 0 ELSE 9000
  BY <1>1, Zenon DEF BlocklistScore
<1> QED BY <1>2

LEMMA MissScore == ASSUME NEW x \in BOOLEAN, ~ x PROVE BlocklistScore(x) = 9000
<1>1. x # None
  BY NoneAssumption
<1> QED BY <1>1 DEF BlocklistScore

LEMMA FtcIsScore == ASSUME NEW x PROVE FtcScore(x) \in Scores
  BY DEF FtcScore, Scores, Full

LEMMA MedicalIsScore == ASSUME NEW x PROVE MedicalScore(x) \in Scores
  BY DEF MedicalScore, Scores, Full, Neutral

LEMMA HistoryIsScore == ASSUME NEW x, NEW y PROVE HistoryScore(x, y) \in Scores
  BY DEF HistoryScore, Scores, Full

\* A part of the sum is at most Full times its weight, and absent with it.
LEMMA PartBounded ==
    ASSUME NEW w \in 1 .. 100, NEW x \in Scores
    PROVE  /\ Part(w, x) \in Nat /\ Weight(w, x) \in Nat
           /\ Part(w, x) <= Full * Weight(w, x)
<1>1. CASE x = None
  BY <1>1 DEF Part, Weight, Full
<1>2. CASE x # None
  <2>1. x \in 0 .. 10000
    BY <1>2 DEF Scores, Full
  <2>2. Part(w, x) = w * x /\ Weight(w, x) = w
    BY <1>2 DEF Part, Weight
  <2>3. w * x \in Nat /\ w * x <= w * 10000
    BY <2>1
  <2> QED BY <2>2, <2>3 DEF Full
<1> QED BY <1>1, <1>2

\* The sums without the part of the blocklist.
OtherSum(s) == Part(20, StirScore(s.stir)) + Part(12, CarrierScore(s.carrier, s.line))
             + Part(8, CnamScore(s.cnam)) + Part(15, s.community)
             + Part(15, FtcScore(s.ftc)) + Part(10, MedicalScore(s.medical))
             + Part(5, HistoryScore(s.calls, s.history))
OtherTotal(s) == Weight(20, StirScore(s.stir)) + Weight(12, CarrierScore(s.carrier, s.line))
               + Weight(8, CnamScore(s.cnam)) + Weight(15, s.community)
               + Weight(15, FtcScore(s.ftc)) + Weight(10, MedicalScore(s.medical))
               + Weight(5, HistoryScore(s.calls, s.history))

LEMMA SumBounded ==
    ASSUME NEW s \in Signals
    PROVE  /\ WeightedSum(s) \in Nat /\ WeightTotal(s) \in Nat
           /\ WeightedSum(s) <= Full * WeightTotal(s)
           /\ OtherSum(s) \in Nat /\ OtherTotal(s) \in Nat
           /\ WeightedSum(s) = OtherSum(s) + Part(15, BlocklistScore(s.hit))
           /\ WeightTotal(s) = OtherTotal(s) + Weight(15, BlocklistScore(s.hit))
<1>1. s.community \in Scores
  BY DEF Signals, Scores
<1> DEFINE InPart(w, x) == /\ Part(w, x) \in Nat /\ Weight(w, x) \in Nat
                           /\ Part(w, x) <= 10000 * Weight(w, x)
<1>2. /\ InPart(20, StirScore(s.stir)) /\ InPart(12, CarrierScore(s.carrier, s.line))
      /\ InPart(8, CnamScore(s.cnam)) /\ InPart(15, BlocklistScore(s.hit))
      /\ InPart(15, s.community) /\ InPart(15, FtcScore(s.ftc))
      /\ InPart(10, MedicalScore(s.medical)) /\ InPart(5, HistoryScore(s.calls, s.history))
  BY <1>1, PartBounded, StirIsScore, CarrierIsScore, CnamIsScore, BlocklistIsScore,
     FtcIsScore, MedicalIsScore, HistoryIsScore DEF Full
<1> QED BY <1>2 DEF WeightedSum, WeightTotal, OtherSum, OtherTotal, Full

\* Rounding a quotient keeps its bound and its order.
LEMMA Quotient ==
    ASSUME NEW a \in Nat, NEW b \in Nat, b > 0
    PROVE  /\ a \div b \in Nat
           /\ b * (a \div b) <= a /\ a < b * (a \div b) + b
  OBVIOUS

LEMMA RoundedBounded ==
    ASSUME NEW sum \in Nat, NEW total \in Nat, total > 0, sum <= Full * total
    PROVE  Rounded(sum, total) \in 0 .. Full
<1> DEFINE q == (2 * sum + total) \div (2 * total)
<1>1. q \in Nat /\ (2 * total) * q <= 2 * sum + total
  BY Quotient
<1>2. (2 * total) * q <= 20001 * total
  BY <1>1 DEF Full
<1>3. ASSUME q >= 10001 PROVE FALSE
  <2>1. (2 * total) * q >= (2 * total) * 10001
    BY <1>1, <1>3
  <2> QED BY <1>1, <1>2, <2>1
<1> QED BY <1>1, <1>3 DEF Rounded, Full

LEMMA RoundedMonotone ==
    ASSUME NEW a \in Nat, NEW b \in Nat, NEW total \in Nat, total > 0, a <= b
    PROVE  Rounded(a, total) <= Rounded(b, total)
<1> DEFINE p == (2 * a + total) \div (2 * total)
           q == (2 * b + total) \div (2 * total)
<1>1. p \in Nat /\ (2 * total) * p <= 2 * a + total
  BY Quotient
<1>2. q \in Nat /\ 2 * b + total < (2 * total) * q + 2 * total
  BY Quotient
<1>3. ASSUME p > q PROVE FALSE
  <2>1. (2 * total) * p >= (2 * total) * (q + 1)
    BY <1>1, <1>2, <1>3
  <2>2. (2 * total) * (q + 1) = (2 * total) * q + 2 * total
    BY <1>2
  <2> QED BY <1>1, <1>2, <2>1, <2>2
<1> QED BY <1>1, <1>2, <1>3 DEF Rounded

-----------------------------------------------------------------------------
\* calculate_trust_score returns a value between 0.0 and 1.0 for whatever
\* signals are present: the clamp before the return never changes it.
THEOREM ScoreInRange == \A s \in Signals : TrustScoreOf(s) \in 0 .. Full
<1> SUFFICES ASSUME NEW s \in Signals PROVE TrustScoreOf(s) \in 0 .. Full
  OBVIOUS
<1>1. CASE WeightTotal(s) = 0
  BY <1>1 DEF TrustScoreOf, Neutral, Full
<1>2. CASE WeightTotal(s) # 0
  BY <1>2, SumBounded, RoundedBounded DEF TrustScoreOf
<1> QED BY <1>1, <1>2

\* A blocklist hit that reaches the score never raises it: the hit and the
\* absence of one weigh the same, and the hit adds nothing.
THEOREM HitNeverRaises ==
    \A s \in Signals : TrustScoreOf([s EXCEPT !.hit = TRUE])
                          <= TrustScoreOf([s EXCEPT !.hit = FALSE])
<1> SUFFICES ASSUME NEW s \in Signals
             PROVE  TrustScoreOf([s EXCEPT !.hit = TRUE])
                       <= TrustScoreOf([s EXCEPT !.hit = FALSE])
  OBVIOUS
<1> DEFINE t == [s EXCEPT !.hit = TRUE]
           f == [s EXCEPT !.hit = FALSE]
<1>1. t \in Signals /\ f \in Signals /\ t.hit = TRUE /\ f.hit = FALSE
  BY DEF Signals
<1>2. OtherSum(t) = OtherSum(f) /\ OtherTotal(t) = OtherTotal(f)
  <2>1. /\ t.stir = f.stir /\ t.line = f.line /\ t.carrier = f.carrier
        /\ t.cnam = f.cnam /\ t.community = f.community /\ t.ftc = f.ftc
        /\ t.medical = f.medical /\ t.calls = f.calls /\ t.history = f.history
    BY DEF Signals
  <2> QED BY <2>1, Zenon DEF OtherSum, OtherTotal
<1> HIDE DEF t, f
<1>3. BlocklistScore(t.hit) = 0
  <2>1. t.hit = TRUE
    BY <1>1
  <2> QED BY <2>1, HitScore
<1>4. BlocklistScore(f.hit) = 9000
  <2>1. f.hit \in BOOLEAN /\ ~ f.hit
    BY <1>1
  <2> QED BY <2>1, MissScore
<1>5. /\ Part(15, 0) = 0 /\ Part(15, 9000) = 135000
      /\ Weight(15, 0) = 15 /\ Weight(15, 9000) = 15
  <2>1. 0 # None /\ 9000 # None
    BY NoneAssumption
  <2> QED BY <2>1 DEF Part, Weight
<1>6. /\ WeightedSum(t) = OtherSum(t) + 0 /\ WeightTotal(t) = OtherTotal(t) + 15
      /\ WeightedSum(f) = OtherSum(f) + 135000 /\ WeightTotal(f) = OtherTotal(f) + 15
      /\ OtherSum(f) \in Nat /\ OtherTotal(f) \in Nat
  BY <1>1, <1>3, <1>4, <1>5, SumBounded
<1>7. /\ WeightTotal(t) = WeightTotal(f) /\ WeightTotal(t) \in Nat /\ WeightTotal(t) > 0
      /\ WeightedSum(t) \in Nat /\ WeightedSum(f) \in Nat
      /\ WeightedSum(t) <= WeightedSum(f)
  BY <1>2, <1>6
<1>8. Rounded(WeightedSum(t), WeightTotal(t)) <= Rounded(WeightedSum(f), WeightTotal(f))
  BY <1>7, RoundedMonotone
<1>9. /\ TrustScoreOf(t) = Rounded(WeightedSum(t), WeightTotal(t))
      /\ TrustScoreOf(f) = Rounded(WeightedSum(f), WeightTotal(f))
  BY <1>7 DEF TrustScoreOf
<1>10. TrustScoreOf(t) <= TrustScoreOf(f)
  BY <1>8, <1>9
<1> QED BY <1>10 DEF t, f

-----------------------------------------------------------------------------
(* The invariant.                                                          *)

\* A lookup that is about to write has the flag as it read it.
Mine == \A l \in Lookups : lookup[l].pc = "flush" =>
            /\ lookup[l].mine.hit = lookup[l].base.hit
            /\ lookup[l].mine.age = "fresh"

\* A lookup that works has a number.
Asking == \A l \in Lookups : lookup[l].pc \in {"ask", "flush"} => lookup[l].number \in Asked

\* A row that is not there has no flag.
Unflagged == \A n \in Numbers : row[n].hit => Exists(n)

\* What the task is about to flag has a cause.
Cause(n) == n \in listed \/ reports[n].bad >= BLOCKLIST_THRESHOLD
InHand(n) == n \in job.todo \/ n \in job.held \/ (job.pending # None /\ job.pending.number = n)
Caused == \A n \in Numbers : InHand(n) => Cause(n)

\* A lookup that asks has found no fresh row, and was given one of the
\* attestations there are; one that is about to write has line type and score of
\* one refresh or, if the row it found was fresh, as it read them.
OnePiece == \A l \in Lookups :
    /\ lookup[l].pc = "ask" =>
           /\ lookup[l].base.age # "fresh"
           /\ lookup[l].stir \in {ParseVerstat(v) : v \in Verstats}
    /\ lookup[l].pc = "flush" =>
           \/ /\ lookup[l].base.age # "fresh"
              /\ Fits(lookup[l].mine.line, lookup[l].mine.score)
           \/ /\ lookup[l].base.age = "fresh"
              /\ lookup[l].mine.line = lookup[l].base.line
              /\ lookup[l].mine.score = lookup[l].base.score

LookupStates == [pc     : {"idle", "ask", "flush", "refused"},
                 number : Asked \cup {None},
                 stir   : StirValues \cup {None},
                 base   : NumberIntel, mine : NumberIntel]

IInv == TypeOK /\ Mine /\ Asking /\ Unflagged /\ Caused /\ FlagsHaveCause

-----------------------------------------------------------------------------
(* Types of what the actions compute.                                      *)

LEMMA RowTypes == NoRow \in NumberIntel /\ NewRow \in NumberIntel
                  /\ NoRow.hit = FALSE /\ NewRow.hit = FALSE
  BY DEF NoRow, NewRow, NumberIntel, LineTypes

LEMMA CommunityIsScore ==
    ASSUME NEW b \in Nat, NEW g \in Nat
    PROVE  CommunityScore(b, g) \in (0 .. Full) \cup {None}
<1>1. CASE b + g < MIN_REPORTS_FOR_SCORE
  BY <1>1 DEF CommunityScore
<1>2. CASE ~ (b + g < MIN_REPORTS_FOR_SCORE)
  <2>1. b + g \in Nat /\ b + g > 0 /\ Full * g \in Nat /\ Full * g <= Full * (b + g)
    BY <1>2 DEF MIN_REPORTS_FOR_SCORE, Full
  <2>2. Rounded(Full * g, b + g) \in 0 .. Full
    BY <2>1, RoundedBounded
  <2> QED BY <1>2, <2>2 DEF CommunityScore
<1> QED BY <1>1, <1>2

LEMMA UpsertType ==
    ASSUME NEW b \in NumberIntel, NEW s \in Signals, NEW x \in 0 .. Full
    PROVE  /\ Upsert(b, s, x) \in NumberIntel
           /\ Upsert(b, s, x).hit = b.hit /\ Upsert(b, s, x).age = "fresh"
           /\ Upsert(b, s, x).line = Preferred(s.line, "unknown") /\ Upsert(b, s, x).score = x
<1>1. /\ Preferred(s.carrier, b.carrier) \in BOOLEAN \cup {None}
      /\ Preferred(s.line, "unknown") \in LineTypes
      /\ Preferred(s.cnam, b.cnam) \in BOOLEAN \cup {None}
      /\ Preferred(s.stir, b.stir) \in StirValues \cup {None}
  BY DEF NumberIntel, Signals, Preferred, LineTypes
<1> QED BY <1>1 DEF Upsert, NumberIntel

LEMMA UpdatedType ==
    ASSUME NEW r \in NumberIntel, NEW b \in NumberIntel, NEW m \in NumberIntel
    PROVE  /\ Updated(r, b, m) \in NumberIntel
           /\ m.hit = b.hit => Updated(r, b, m).hit = r.hit
           /\ Updated(r, b, m).age \in {m.age, r.age}
           /\ r.line = b.line => Updated(r, b, m).line = m.line
           /\ r.score = b.score => Updated(r, b, m).score = m.score
           /\ m.line = b.line => Updated(r, b, m).line = r.line
           /\ m.score = b.score => Updated(r, b, m).score = r.score
  BY DEF Updated, NumberIntel, Columns

LEMMA SignalsType ==
    ASSUME NEW a \in Answers, NEW v \in StirValues \cup {None},
           NEW c \in (0 .. Full) \cup {None}
    PROVE  [SignalsOf(a, v) EXCEPT !.community = c] \in Signals
  BY IntelAssumption DEF SignalsOf, NoSignals, Signals, AnswerSet

-----------------------------------------------------------------------------
LEMMA InitInv == Init => IInv
<1> SUFFICES ASSUME Init PROVE IInv
  OBVIOUS
<1>1. TypeOK
  BY RowTypes, IntelAssumption DEF Init, TypeOK, Idle, NoJob
<1>2. Mine /\ Asking
  BY DEF Init, Mine, Asking, Idle
<1>3. Unflagged /\ FlagsHaveCause
  BY RowTypes DEF Init, Unflagged, FlagsHaveCause
<1>4. Caused
  BY DEF Init, Caused, InHand, NoJob
<1> QED BY <1>1, <1>2, <1>3, <1>4 DEF IInv

-----------------------------------------------------------------------------
(* One lemma per action.                                                   *)

LEMMA ReportInv == ASSUME IInv, NEW n \in Numbers, Report(n) PROVE IInv'
<1> USE DEF IInv, Report
<1>1. TypeOK'
  BY DEF TypeOK
<1>2. /\ \A m \in Numbers : reports'[m].bad \in Nat /\ reports'[m].bad >= reports[m].bad
      /\ \A m \in Numbers : reports[m].bad \in Nat
  BY IntelAssumption, <1>1 DEF TypeOK
<1>3. \A m \in Numbers : Cause(m) => Cause(m)'
  BY <1>2 DEF Cause, BLOCKLIST_THRESHOLD
<1>4. Mine' /\ Asking' /\ Unflagged'
  BY DEF Mine, Asking, Unflagged, Exists
<1>5. Caused' /\ FlagsHaveCause'
  BY <1>3 DEF Caused, InHand, FlagsHaveCause, Cause
<1> QED BY <1>1, <1>4, <1>5

\* The state a lookup is in after its first query.
LEMMA AskFacts ==
    ASSUME IInv, NEW l \in Lookups, NEW n \in Asked, NEW v \in Verstats, Ask(l, n, ParseVerstat(v))
    PROVE  \E me \in LookupStates :
               /\ lookup' = [lookup EXCEPT ![l] = me]
               /\ me.pc \in {"ask", "flush"} => me.number \in Asked
               /\ me.pc = "ask" => me.stir = ParseVerstat(v) /\ me.base.age # "fresh"
               /\ me.pc = "flush" =>
                     /\ me.mine.hit = me.base.hit /\ me.mine.age = "fresh" /\ me.base.age = "fresh"
                     /\ me.mine.line = me.base.line /\ me.mine.score = me.base.score
<1> USE DEF IInv, LookupStates
<1> DEFINE stir == ParseVerstat(v)
           found == row[n]
           attested == [found EXCEPT !.stir = stir]
           me == [Idle EXCEPT !.number = n, !.stir = stir, !.base = found]
           asking == [me EXCEPT !.pc = "ask"]
           writing == [me EXCEPT !.pc = "flush", !.mine = attested]
<1>1. stir \in StirValues \cup {None} /\ n \in Numbers
  BY IntelAssumption DEF ParseVerstat, StirValues
<1> HIDE DEF stir, attested, asking, writing, me, found
<1>2. /\ found \in NumberIntel /\ attested \in NumberIntel
      /\ attested.hit = found.hit /\ attested.age = found.age
      /\ attested.line = found.line /\ attested.score = found.score
  <2>1. found \in NumberIntel
    BY <1>1 DEF TypeOK, found
  <2> QED BY <1>1, <2>1 DEF NumberIntel, attested
<1>3. /\ Idle \in LookupStates /\ Idle.pc = "idle"
      /\ me \in LookupStates /\ me.number = n /\ me.base = found /\ me.stir = stir
  <2>1. Idle \in LookupStates /\ Idle.pc = "idle"
    BY RowTypes DEF Idle
  <2> QED BY <1>1, <1>2, <2>1 DEF me
<1>4. CASE found.age # "fresh"
  <2>1. lookup' = [lookup EXCEPT ![l] = asking]
    BY <1>4 DEF Ask, stir, found, me, asking
  <2>2. /\ asking \in LookupStates /\ asking.pc = "ask" /\ asking.number \in Asked
        /\ asking.stir = ParseVerstat(v) /\ asking.base = found
    BY <1>3 DEF asking, stir
  <2> QED BY <1>4, <2>1, <2>2
<1>5. CASE found.age = "fresh" /\ stir \in {None, found.stir}
  <2>1. lookup' = [lookup EXCEPT ![l] = Idle]
    BY <1>5 DEF Ask, stir, found
  <2> QED BY <1>3, <2>1
<1>6. CASE found.age = "fresh" /\ stir \notin {None, found.stir}
  <2>1. lookup' = [lookup EXCEPT ![l] = writing]
    BY <1>6 DEF Ask, stir, found, attested, me, writing
  <2>2. /\ writing \in LookupStates /\ writing.number \in Asked /\ writing.pc = "flush"
        /\ writing.mine = attested /\ writing.base = found
    BY <1>2, <1>3 DEF writing
  <2> QED BY <1>2, <1>6, <2>1, <2>2
<1> QED BY <1>4, <1>5, <1>6

LEMMA AskInv ==
    ASSUME IInv, NEW l \in Lookups, NEW n \in Asked, NEW v \in Verstats, Ask(l, n, ParseVerstat(v))
    PROVE  IInv' /\ (OnePiece => OnePiece')
<1>1. PICK me \in LookupStates :
          /\ lookup' = [lookup EXCEPT ![l] = me]
          /\ me.pc \in {"ask", "flush"} => me.number \in Asked
          /\ me.pc = "ask" => me.stir = ParseVerstat(v) /\ me.base.age # "fresh"
          /\ me.pc = "flush" =>
                /\ me.mine.hit = me.base.hit /\ me.mine.age = "fresh" /\ me.base.age = "fresh"
                /\ me.mine.line = me.base.line /\ me.mine.score = me.base.score
  BY AskFacts
<1>2. TypeOK'
  BY <1>1 DEF Ask, IInv, TypeOK, LookupStates
<1>3. Mine' /\ Asking'
  BY <1>1 DEF IInv, Mine, Asking, TypeOK
<1>4. Unflagged' /\ Caused' /\ FlagsHaveCause'
  BY DEF Ask, IInv, Unflagged, Exists, Caused, InHand, Cause, FlagsHaveCause
<1>5. OnePiece => OnePiece'
  BY <1>1 DEF IInv, OnePiece, TypeOK
<1> QED BY <1>2, <1>3, <1>4, <1>5 DEF IInv

LEMMA RefreshInv ==
    ASSUME IInv, NEW l \in Lookups, Refresh(l)
    PROVE  IInv' /\ (OnePiece => OnePiece')
<1> USE DEF IInv
<1> DEFINE me == lookup[l]
           base == IF me.base = NoRow THEN NewRow ELSE me.base
           history == reports[me.number]
           Signal(answer) == [SignalsOf(answer, me.stir) EXCEPT
                                 !.community = CommunityScore(history.bad, history.good)]
<1>1. PICK answer \in Answers :
          lookup' = [lookup EXCEPT ![l].pc = "flush",
                       ![l].mine = Upsert(base, Signal(answer), TrustScoreOf(Signal(answer)))]
  BY DEF Refresh
<1> DEFINE signals == Signal(answer)
           mine == Upsert(base, signals, TrustScoreOf(signals))
           writing == [me EXCEPT !.pc = "flush", !.mine = mine]
<1>2. me.pc = "ask" /\ me.number \in Asked /\ me.number \in Numbers /\ me \in LookupStates
  BY IntelAssumption DEF Refresh, TypeOK, Asking, LookupStates
<1>3. history \in Histories /\ history.bad \in Nat /\ history.good \in Nat
  BY <1>2, IntelAssumption DEF TypeOK
<1>4. signals \in Signals /\ TrustScoreOf(signals) \in 0 .. Full
  BY <1>2, <1>3, CommunityIsScore, SignalsType, ScoreInRange DEF LookupStates
<1>5. base \in NumberIntel /\ base.hit = me.base.hit
  BY <1>2, RowTypes DEF LookupStates
<1>6. /\ mine \in NumberIntel /\ mine.hit = me.base.hit /\ mine.age = "fresh"
      /\ mine.line = Preferred(signals.line, "unknown") /\ mine.score = TrustScoreOf(signals)
  BY <1>4, <1>5, UpsertType
<1>7. lookup' = [lookup EXCEPT ![l] = writing]
  BY <1>1 DEF TypeOK
<1>8. OnePiece => me.base.age # "fresh" /\ Fits(mine.line, mine.score)
  <2> SUFFICES ASSUME OnePiece PROVE me.base.age # "fresh" /\ Fits(mine.line, mine.score)
    OBVIOUS
  <2>1. PICK v \in Verstats : me.stir = ParseVerstat(v)
    BY <1>2 DEF OnePiece
  <2>2. signals.line = answer.line
    BY DEF SignalsOf, NoSignals
  <2>3. mine.line = Preferred(answer.line, "unknown")
        /\ mine.score = TrustScoreOf([SignalsOf(answer, ParseVerstat(v)) EXCEPT
                            !.community = CommunityScore(history.bad, history.good)])
    BY <1>6, <2>1, <2>2
  <2>4. me.base.age # "fresh"
    BY <1>2 DEF OnePiece
  <2> QED BY <1>3, <2>3, <2>4 DEF Fits
<1> HIDE DEF mine, base, signals, Signal
<1>9. /\ writing \in LookupStates /\ writing.pc = "flush" /\ writing.mine = mine
      /\ writing.base = me.base /\ writing.number = me.number
  BY <1>2, <1>6 DEF LookupStates
<1> HIDE DEF writing
<1>10. TypeOK'
  BY <1>7, <1>9 DEF Refresh, TypeOK, LookupStates
<1>11. Mine' /\ Asking'
  BY <1>2, <1>6, <1>7, <1>9 DEF Mine, Asking, TypeOK
<1>12. Unflagged' /\ Caused' /\ FlagsHaveCause'
  BY DEF Refresh, Unflagged, Exists, Caused, InHand, Cause, FlagsHaveCause
<1>13. OnePiece => OnePiece'
  BY <1>7, <1>8, <1>9 DEF OnePiece, TypeOK
<1> QED BY <1>10, <1>11, <1>12, <1>13

\* The flag of a row survives a lookup's write: the row it read may be older
\* than the flag, but an UPDATE has only what the lookup changed.
LEMMA WriteKeepsFlag ==
    ASSUME IInv, NEW l \in Lookups, Write(l)
    PROVE  /\ row' \in [Numbers -> NumberIntel]
           /\ \A n \in Numbers : row'[n].hit = row[n].hit
           /\ \A n \in Numbers : row'[n].hit => row'[n].age # "absent"
<1> USE DEF IInv
<1> DEFINE me == lookup[l]
           written == IF me.base = NoRow THEN me.mine
                      ELSE Updated(row[me.number], me.base, me.mine)
<1>1. me.pc = "flush" /\ me.number \in Numbers /\ me.base \in NumberIntel
      /\ me.mine \in NumberIntel /\ me.mine.hit = me.base.hit /\ me.mine.age = "fresh"
      /\ row[me.number] \in NumberIntel
  BY IntelAssumption DEF Write, TypeOK, Mine, Asking
<1>2. CASE me.base = NoRow /\ Exists(me.number)
  BY <1>2 DEF Write, TypeOK, Unflagged, Exists
<1>3. CASE ~ (me.base = NoRow /\ Exists(me.number))
  <2>1. row' = [row EXCEPT ![me.number] = written]
    BY <1>3 DEF Write
  <2>2. written \in NumberIntel /\ written.hit = row[me.number].hit
        /\ (written.hit => written.age # "absent")
    <3>1. CASE me.base = NoRow
      BY <1>1, <1>3, <3>1, RowTypes DEF Unflagged, NumberIntel
    <3>2. CASE me.base # NoRow
      BY <1>1, <3>2, UpdatedType DEF Unflagged, Exists
    <3> QED BY <3>1, <3>2
  <2> HIDE DEF written
  <2> QED BY <1>1, <2>1, <2>2 DEF TypeOK, Unflagged, Exists
<1> QED BY <1>2, <1>3

LEMMA WriteInv == ASSUME IInv, NEW l \in Lookups, Write(l) PROVE IInv'
<1> USE DEF IInv
<1>1. lookup' \in {[lookup EXCEPT ![l] = [Idle EXCEPT !.pc = "refused"]],
                   [lookup EXCEPT ![l] = Idle]}
      /\ UNCHANGED <<reports, job, listed, faults>>
  BY DEF Write
<1>2. overlapped' \subseteq Numbers
  BY IntelAssumption DEF Write, TypeOK, Asking
<1>3. TypeOK'
  BY <1>1, <1>2, WriteKeepsFlag, RowTypes DEF TypeOK, Idle
<1>4. Mine' /\ Asking'
  BY <1>1 DEF Mine, Asking, TypeOK, Idle
<1>5. Unflagged' /\ FlagsHaveCause' /\ Caused'
  BY <1>1, WriteKeepsFlag DEF Unflagged, Exists, FlagsHaveCause, Caused, InHand, Cause
<1> QED BY <1>3, <1>4, <1>5

LEMMA LookupFailsInv == ASSUME IInv, NEW l \in Lookups, LookupFails(l) PROVE IInv'
<1> USE DEF IInv, LookupFails
<1>1. TypeOK'
  BY RowTypes, IntelAssumption DEF TypeOK, Idle
<1>2. Mine' /\ Asking'
  BY DEF Mine, Asking, TypeOK, Idle
<1>3. Unflagged' /\ Caused' /\ FlagsHaveCause'
  BY DEF Unflagged, Exists, Caused, InHand, Cause, FlagsHaveCause
<1> QED BY <1>1, <1>2, <1>3

LEMMA AgeInv == ASSUME IInv, NEW n \in Numbers, Age(n) PROVE IInv'
<1> USE DEF IInv, Age
<1>1. TypeOK'
  BY DEF TypeOK, NumberIntel
<1>2. \A m \in Numbers : row'[m].hit = row[m].hit /\ (Exists(m) => Exists(m)')
  BY DEF TypeOK, NumberIntel, Exists
<1>3. Mine' /\ Asking'
  BY DEF Mine, Asking
<1>4. Unflagged' /\ Caused' /\ FlagsHaveCause'
  BY <1>2 DEF Unflagged, Caused, InHand, Cause, FlagsHaveCause
<1> QED BY <1>1, <1>3, <1>4

\* The steps of the task that write no row only move numbers about, or drop them.
LEMMA JobInv ==
    ASSUME IInv,
           \/ Beat \/ Fetch \/ CountReports \/ FlushPending \/ PhaseFails \/ WorkerLost
           \/ \E n \in Numbers : ListUpdate(n) \/ SelectFlagged(n)
    PROVE  IInv'
<1> USE DEF IInv
<1> DEFINE Jobs == [pc      : {"idle", "queued", "list", "count", "community"},
                    todo    : SUBSET Numbers,
                    pending : [number : Numbers, new : BOOLEAN] \cup {None},
                    held    : SUBSET Numbers]
<1>1. job \in Jobs /\ UNCHANGED <<reports, row, lookup, overlapped>>
  BY DEF TypeOK, Beat, Fetch, CountReports, FlushPending, PhaseFails, WorkerLost, ListUpdate,
         SelectFlagged
<1>2. faults' \in 0 .. MaxFaults /\ listed \subseteq listed' /\ listed' \subseteq Numbers
  <2>1. CASE Fetch
    <3>1. PICK list \in Lists \cup {{}} : listed' = listed \cup list /\ faults' = faults
      BY <2>1 DEF Fetch
    <3> QED BY <3>1, IntelAssumption DEF TypeOK
  <2>2. CASE PhaseFails \/ WorkerLost
    BY <2>2, IntelAssumption DEF TypeOK, PhaseFails, WorkerLost
  <2>3. CASE UNCHANGED <<listed, faults>>
    BY <2>3 DEF TypeOK
  <2> QED BY <2>1, <2>2, <2>3 DEF Beat, CountReports, FlushPending, ListUpdate, SelectFlagged
<1>3. /\ job' \in Jobs
      /\ \A n \in Numbers : InHand(n)' => InHand(n) \/ n \in listed' \/ n \in Flagged
  <2>1. CASE Beat
    BY <1>1, <2>1 DEF Beat, InHand
  <2>2. CASE Fetch
    <3>1. PICK list \in Lists \cup {{}} :
              /\ listed' = listed \cup list
              /\ job' \in {[NoJob EXCEPT !.pc = "count"], [NoJob EXCEPT !.pc = "list", !.todo = list]}
      BY <2>2 DEF Fetch
    <3>2. list \subseteq Numbers
      BY IntelAssumption
    <3> QED BY <3>1, <3>2 DEF InHand, NoJob
  <2>3. CASE CountReports
    BY <1>1, <2>3 DEF CountReports, InHand, NoJob, Flagged
  <2>4. CASE FlushPending
    BY <1>1, <2>4 DEF FlushPending, InHand, NoJob, AfterPhase
  <2>5. CASE PhaseFails
    BY <1>1, <2>5 DEF PhaseFails, InHand, NoJob, AfterPhase
  <2>6. CASE WorkerLost
    BY <1>1, <2>6 DEF WorkerLost, InHand, NoJob
  <2>7. ASSUME NEW n \in Numbers, ListUpdate(n)
        PROVE  job' \in Jobs /\ \A m \in Numbers : InHand(m)' => InHand(m)
    <3>1. CASE job' = [job EXCEPT !.todo = @ \ {n}, !.held = @ \cup {n}]
      BY <1>1, <2>7, <3>1 DEF ListUpdate, InHand
    <3>2. CASE job' = [job EXCEPT !.todo = @ \ {n}, !.pending = [number |-> n, new |-> TRUE]]
      BY <1>1, <2>7, <3>2 DEF ListUpdate, InHand
    <3> QED BY <2>7, <3>1, <3>2 DEF ListUpdate
  <2>8. ASSUME NEW n \in Numbers, SelectFlagged(n)
        PROVE  job' \in Jobs /\ \A m \in Numbers : InHand(m)' => InHand(m)
    BY <1>1, <2>8 DEF SelectFlagged, InHand, Exists
  <2> QED BY <2>1, <2>2, <2>3, <2>4, <2>5, <2>6, <2>7, <2>8
<1>4. TypeOK'
  BY <1>1, <1>2, <1>3 DEF TypeOK
<1>5. Caused' /\ FlagsHaveCause'
  BY <1>1, <1>2, <1>3 DEF Caused, Cause, FlagsHaveCause, Flagged
<1>6. Mine' /\ Asking' /\ Unflagged'
  BY <1>1 DEF Mine, Asking, Unflagged, Exists
<1> QED BY <1>4, <1>5, <1>6

\* The commit flags what the phase holds, and nothing else.
LEMMA CommitFlagsInv == ASSUME IInv, CommitFlags PROVE IInv'
<1> USE DEF IInv
<1>1. \A n \in Numbers :
          /\ row'[n] \in NumberIntel
          /\ row'[n].hit <=> row[n].hit \/ n \in job.held
          /\ row'[n].hit => row'[n].age # "absent"
  <2> SUFFICES ASSUME NEW n \in Numbers
               PROVE  /\ row'[n] \in NumberIntel
                      /\ row'[n].hit <=> row[n].hit \/ n \in job.held
                      /\ row'[n].hit => row'[n].age # "absent"
    OBVIOUS
  <2>1. row[n] \in NumberIntel
    BY DEF TypeOK
  <2>2. CASE n \notin job.held
    BY <2>1, <2>2 DEF CommitFlags, Unflagged, Exists
  <2>3. CASE n \in job.held
    <3> DEFINE old == IF Exists(n) THEN row[n] ELSE NewRow
    <3>1. old \in NumberIntel /\ old.age # "absent"
      BY <2>1, RowTypes DEF Exists, NewRow
    <3>2. row'[n] = [old EXCEPT !.hit = TRUE]
      BY <2>3 DEF CommitFlags
    <3> HIDE DEF old
    <3> QED BY <2>3, <3>1, <3>2 DEF NumberIntel
  <2> QED BY <2>2, <2>3
<1>2. TypeOK'
  BY <1>1 DEF CommitFlags, TypeOK, NoJob, AfterPhase
<1>3. Unflagged'
  BY <1>1 DEF Unflagged, Exists
<1>4. FlagsHaveCause'
  BY <1>1 DEF CommitFlags, FlagsHaveCause, Caused, InHand, Cause
<1>5. Caused'
  BY DEF CommitFlags, Caused, InHand, NoJob
<1>6. Mine' /\ Asking'
  BY DEF CommitFlags, Mine, Asking
<1> QED BY <1>2, <1>3, <1>4, <1>5, <1>6

-----------------------------------------------------------------------------
(* Line types and scores.                                                  *)

\* A write brings line type and score of one refresh, or leaves them alone, or
\* is a refresh of a row that is no longer as it was read.
LEMMA WriteOnePiece ==
    ASSUME IInv, OnePiece, RowsAgree, NEW l \in Lookups, Write(l)
    PROVE  RowsAgree'
<1> USE DEF IInv
<1> DEFINE me == lookup[l]
           number == me.number
           same == row[number].line = me.base.line /\ row[number].score = me.base.score
<1>1. /\ me.pc = "flush" /\ number \in Numbers /\ row[number] \in NumberIntel
      /\ me.base \in NumberIntel /\ me.mine \in NumberIntel
  BY IntelAssumption DEF Write, TypeOK, Asking
<1>2. CASE me.base = NoRow /\ Exists(number)
  BY <1>2 DEF Write, RowsAgree
<1>3. CASE me.base = NoRow /\ ~ Exists(number)
  <2>1. /\ row' = [row EXCEPT ![number] = me.mine]
        /\ overlapped \ {number} \subseteq overlapped'
    BY <1>3 DEF Write
  <2>2. Fits(me.mine.line, me.mine.score)
    BY <1>1, <1>3 DEF OnePiece, NoRow, NewRow
  <2> QED BY <1>1, <2>1, <2>2 DEF RowsAgree, TypeOK
<1>4. CASE me.base # NoRow
  <2> DEFINE written == Updated(row[number], me.base, me.mine)
  <2>1. /\ row' = [row EXCEPT ![number] = written]
        /\ overlapped' = IF me.base.age = "fresh" THEN overlapped
                         ELSE IF same THEN overlapped \ {number} ELSE overlapped \cup {number}
    BY <1>4 DEF Write
  <2>2. /\ written.line = IF me.mine.line # me.base.line THEN me.mine.line ELSE row[number].line
        /\ written.score = IF me.mine.score # me.base.score THEN me.mine.score
                           ELSE row[number].score
    BY DEF Updated, Columns
  <2> HIDE DEF written
  <2>3. number \notin overlapped' /\ written.score # None => Fits(written.line, written.score)
    <3>1. CASE me.base.age = "fresh"
      <4>1. written.line = row[number].line /\ written.score = row[number].score
        BY <1>1, <2>2, <3>1 DEF OnePiece
      <4> QED BY <1>1, <2>1, <3>1, <4>1 DEF RowsAgree
    <3>2. CASE me.base.age # "fresh" /\ same
      <4>1. written.line = me.mine.line /\ written.score = me.mine.score
        BY <2>2, <3>2
      <4> QED BY <1>1, <3>2, <4>1 DEF OnePiece
    <3>3. CASE me.base.age # "fresh" /\ ~ same
      BY <2>1, <3>3
    <3> QED BY <3>1, <3>2, <3>3
  <2> QED BY <1>1, <2>1, <2>3 DEF RowsAgree, TypeOK
<1> QED BY <1>2, <1>3, <1>4

LEMMA RowsStep == IInv /\ OnePiece /\ RowsAgree /\ [Next]_vars => OnePiece' /\ RowsAgree'
<1> SUFFICES ASSUME IInv, OnePiece, RowsAgree, [Next]_vars PROVE OnePiece' /\ RowsAgree'
  OBVIOUS
<1>1. CASE UNCHANGED <<row, lookup, overlapped>>
  BY <1>1 DEF OnePiece, RowsAgree
<1>2. ASSUME NEW n \in Numbers, Age(n) PROVE OnePiece' /\ RowsAgree'
  BY <1>2 DEF Age, OnePiece, RowsAgree, IInv, TypeOK, NumberIntel
<1>3. ASSUME NEW l \in Lookups, NEW n \in Asked, NEW v \in Verstats, Ask(l, n, ParseVerstat(v))
      PROVE  OnePiece' /\ RowsAgree'
  BY <1>3, AskInv DEF Ask, RowsAgree
<1>4. ASSUME NEW l \in Lookups, Refresh(l) PROVE OnePiece' /\ RowsAgree'
  BY <1>4, RefreshInv DEF Refresh, RowsAgree
<1>5. ASSUME NEW l \in Lookups, Write(l) PROVE OnePiece' /\ RowsAgree'
  BY <1>5, WriteOnePiece DEF Write, OnePiece, Idle, IInv, TypeOK
<1>6. ASSUME NEW l \in Lookups, LookupFails(l) PROVE OnePiece' /\ RowsAgree'
  BY <1>6 DEF LookupFails, OnePiece, RowsAgree, Idle, IInv, TypeOK
<1>7. CASE CommitFlags
  <2>1. \A n \in Numbers :
            \/ row'[n].line = row[n].line /\ row'[n].score = row[n].score
            \/ row'[n].score = None
    <3> SUFFICES ASSUME NEW n \in Numbers
                 PROVE  \/ row'[n].line = row[n].line /\ row'[n].score = row[n].score
                        \/ row'[n].score = None
      OBVIOUS
    <3>1. row[n] \in NumberIntel /\ NewRow \in NumberIntel /\ NewRow.score = None
      BY RowTypes DEF IInv, TypeOK, NewRow
    <3>2. row'[n] \in {row[n], [row[n] EXCEPT !.hit = TRUE], [NewRow EXCEPT !.hit = TRUE]}
      BY <1>7 DEF CommitFlags
    <3> QED BY <3>1, <3>2 DEF NumberIntel
  <2> QED BY <1>7, <2>1 DEF CommitFlags, OnePiece, RowsAgree
<1> QED BY <1>1, <1>2, <1>3, <1>4, <1>5, <1>6, <1>7
        DEF Next, vars, LookupStep, JobStep, Report, Beat, Fetch, ListUpdate, CountReports,
            SelectFlagged, FlushPending, PhaseFails, WorkerLost

-----------------------------------------------------------------------------
LEMMA Inductive == IInv /\ [Next]_vars => IInv'
<1> SUFFICES ASSUME IInv, [Next]_vars PROVE IInv'
  OBVIOUS
<1>1. CASE UNCHANGED vars
  BY <1>1 DEF vars, IInv, TypeOK, Mine, Asking, Unflagged, Exists, Caused, InHand, Cause,
              FlagsHaveCause
<1>2. CASE \E n \in Numbers : Report(n) \/ Age(n)
  BY <1>2, ReportInv, AgeInv
<1>3. CASE \E l \in Lookups : \E n \in Asked, v \in Verstats : Ask(l, n, ParseVerstat(v))
  BY <1>3, AskInv
<1>4. CASE \E l \in Lookups : LookupStep(l) \/ LookupFails(l)
  BY <1>4, RefreshInv, WriteInv, LookupFailsInv DEF LookupStep
<1>5. CASE Beat \/ JobStep \/ PhaseFails \/ WorkerLost
  BY <1>5, JobInv, CommitFlagsInv DEF JobStep
<1> QED BY <1>1, <1>2, <1>3, <1>4, <1>5 DEF Next

LEMMA Invariance == Spec => []IInv
  BY InitInv, Inductive, PTL DEF Spec

\* The table keeps its types: a refresh makes a score, and a column that no
\* provider fills stays what it was (service.py:149-191).
THEOREM IntelTypeCorrect == Spec => []TypeOK
<1>1. IInv => TypeOK
  BY DEF IInv
<1> QED BY <1>1, Invariance, PTL

\* No number is flagged without a cause, however the phases of the task, the
\* lookups and the failures interleave (community.py:130-168, scheduled.py:163-187).
THEOREM FlagsAreCaused == Spec => []FlagsHaveCause
<1>1. IInv => FlagsHaveCause
  BY DEF IInv
<1> QED BY <1>1, Invariance, PTL

\* A committed flag is never cleared: a lookup that read the row before it was
\* flagged writes only what it changed itself (service.py:160-189).
THEOREM FlagKept == Spec => FlagNeverLost
<1> DEFINE Kept == \A n \in Numbers : row[n].hit => row'[n].hit
<1>1. IInv /\ [Next]_vars => [Kept]_vars
  <2> SUFFICES ASSUME IInv, Next, NEW n \in Numbers, row[n].hit PROVE row'[n].hit
    OBVIOUS
  <2>1. CASE UNCHANGED row
    BY <2>1
  <2>2. ASSUME NEW l \in Lookups, Write(l) PROVE row'[n].hit
    BY <2>2, WriteKeepsFlag
  <2>3. ASSUME NEW m \in Numbers, Age(m) PROVE row'[n].hit
    BY <2>3 DEF Age, IInv, TypeOK, NumberIntel
  <2>4. CASE CommitFlags
    BY <2>4, RowTypes DEF CommitFlags, IInv, TypeOK, NumberIntel, Unflagged, Exists
  <2> QED BY <2>1, <2>2, <2>3, <2>4
          DEF Next, LookupStep, JobStep, Report, Ask, Refresh, LookupFails, Beat, Fetch,
              ListUpdate, CountReports, SelectFlagged, FlushPending, PhaseFails, WorkerLost
<1> QED BY <1>1, Invariance, PTL DEF Spec, FlagNeverLost

\* Line type and score of a row come from one refresh unless the last one
\* overlapped another of the number, although each lookup writes what it changed
\* of a row it read before the providers answered (service.py:57-91).  A mixture
\* that overlapping refreshes make ends with the next refresh that overlaps none.
THEOREM RowsOfOnePiece == Spec => []RowsAgree
<1>1. Init => OnePiece /\ RowsAgree
  BY DEF Init, Idle, OnePiece, RowsAgree, NoRow, NewRow
<1> QED BY <1>1, RowsStep, Invariance, PTL DEF Spec

-----------------------------------------------------------------------------
(* The blocklist as it is deployed: create_engine finds no driver for the  *)
(* synchronous URL (tasks/scheduled.py), psycopg2 not being a dependency.  *)

\* What is flagged, or about to be, has been reported often enough.
Reported ==
    \A n \in Numbers : row[n].hit \/ InHand(n) => reports[n].bad >= BLOCKLIST_THRESHOLD

LEMMA CommitFlagsOnlyHeld ==
    ASSUME TypeOK, CommitFlags
    PROVE  \A n \in Numbers : row'[n].hit => row[n].hit \/ n \in job.held
<1> SUFFICES ASSUME NEW n \in Numbers, n \notin job.held PROVE row'[n] = row[n]
  OBVIOUS
<1> QED BY DEF CommitFlags

LEMMA ReportedStep == TRUE \notin Drivers /\ IInv /\ Reported /\ [Next]_vars => Reported'
<1> SUFFICES ASSUME TRUE \notin Drivers, IInv, Reported, [Next]_vars PROVE Reported'
  OBVIOUS
<1>1. CASE UNCHANGED <<row, job, reports>>
  BY <1>1 DEF Reported, InHand
<1>2. ASSUME NEW n \in Numbers, Report(n) PROVE Reported'
  <2>1. /\ \A m \in Numbers : reports'[m].bad \in Nat /\ reports'[m].bad >= reports[m].bad
        /\ \A m \in Numbers : reports[m].bad \in Nat
    BY <1>2, ReportInv, IntelAssumption DEF Report, IInv, TypeOK
  <2> QED BY <1>2, <2>1 DEF Report, Reported, InHand, BLOCKLIST_THRESHOLD
<1>3. ASSUME NEW n \in Numbers, Age(n) PROVE Reported'
  <2>1. \A m \in Numbers : row'[m].hit = row[m].hit
    BY <1>3 DEF Age, IInv, TypeOK, NumberIntel
  <2> QED BY <1>3, <2>1 DEF Age, Reported, InHand
<1>4. ASSUME NEW l \in Lookups, Write(l) PROVE Reported'
  BY <1>4, WriteKeepsFlag DEF Write, Reported, InHand
<1>5. CASE CommitFlags
  BY <1>5, CommitFlagsOnlyHeld DEF CommitFlags, Reported, InHand, NoJob, IInv
<1>6. ASSUME \A n \in Numbers : InHand(n)' => InHand(n) \/ n \in Flagged, UNCHANGED <<row, reports>>
      PROVE  Reported'
  BY <1>6 DEF Reported, Flagged
<1>7. CASE Beat
  BY <1>6, <1>7 DEF Beat, InHand, IInv, TypeOK
<1>8. CASE Fetch
  <2>1. job' = [NoJob EXCEPT !.pc = "count"]
    BY <1>8, IntelAssumption DEF Fetch
  <2> QED BY <1>6, <1>8, <2>1 DEF Fetch, InHand, NoJob
<1>9. CASE CountReports
  BY <1>6, <1>9 DEF CountReports, InHand, NoJob
<1>10. CASE FlushPending
  BY <1>6, <1>10 DEF FlushPending, InHand, NoJob, IInv, TypeOK
<1>11. CASE PhaseFails
  BY <1>6, <1>11 DEF PhaseFails, InHand, NoJob
<1>12. CASE WorkerLost
  BY <1>6, <1>12 DEF WorkerLost, InHand, NoJob
<1>13. ASSUME NEW n \in Numbers, ListUpdate(n) PROVE Reported'
  <2>1. job.pending = None /\ n \in job.todo /\ UNCHANGED <<row, reports>>
    BY <1>13 DEF ListUpdate
  <2>2. CASE job' = [job EXCEPT !.todo = @ \ {n}, !.held = @ \cup {n}]
    BY <1>6, <2>1, <2>2 DEF InHand, IInv, TypeOK
  <2>3. CASE job' = [job EXCEPT !.todo = @ \ {n}, !.pending = [number |-> n, new |-> TRUE]]
    BY <1>6, <2>1, <2>3 DEF InHand, IInv, TypeOK
  <2> QED BY <1>13, <2>2, <2>3 DEF ListUpdate
<1>14. ASSUME NEW n \in Numbers, SelectFlagged(n) PROVE Reported'
  BY <1>6, <1>14 DEF SelectFlagged, InHand, IInv, TypeOK
<1>15. ASSUME NEW l \in Lookups, Refresh(l) \/ LookupFails(l) PROVE Reported'
  BY <1>1, <1>15 DEF Refresh, LookupFails
<1>16. ASSUME NEW l \in Lookups, NEW n \in Asked, NEW v \in Verstats, Ask(l, n, ParseVerstat(v))
       PROVE  Reported'
  BY <1>1, <1>16 DEF Ask
<1>17. CASE UNCHANGED vars
  BY <1>1, <1>17 DEF vars
<1> QED BY <1>2, <1>3, <1>4, <1>5, <1>7, <1>8, <1>9, <1>10, <1>11, <1>12, <1>13, <1>14,
           <1>15, <1>16, <1>17 DEF Next, LookupStep, JobStep

\* As deployed only reports flag a number, whatever the external lists name:
\* without a driver the first phase of sync_blocklists never has anything to do.
THEOREM OnlyReportsFlag ==
    ASSUME TRUE \notin Drivers
    PROVE  Spec => [](\A n \in Numbers : row[n].hit => reports[n].bad >= BLOCKLIST_THRESHOLD)
<1>1. Init => Reported
  BY RowTypes DEF Init, Reported, InHand, NoJob
<1>2. IInv /\ Reported /\ [Next]_vars => Reported'
  BY ReportedStep
<1>3. Reported => \A n \in Numbers : row[n].hit => reports[n].bad >= BLOCKLIST_THRESHOLD
  BY DEF Reported
<1> QED BY <1>1, <1>2, <1>3, Invariance, PTL DEF Spec
=============================================================================
