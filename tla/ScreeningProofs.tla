--------------------------- MODULE ScreeningProofs ---------------------------
(***************************************************************************)
(* Proofs about Screening for any number of concurrent method calls,       *)
(* conversations and utterances.  The properties are inductive together    *)
(* with where the tasks are (Placed), the replies under way (Counted: what *)
(* the LLM has answered and may still answer is less than the limit), the  *)
(* ends under way (Ending: at most one per conversation, which nobody can  *)
(* reach any more), what a result rests on (Ended) and, for conversations  *)
(* without overlapping classifications, who may still change what the      *)
(* caller is told (Told).                                                  *)
(***************************************************************************)
EXTENDS Screening, FiniteSetTheorems, TLAPS

Placed == \A t \in Tasks : task[t].of = 0 <=> task[t].wait = "idle"

Replying(i) == {t \in Tasks : task[t].wait = "reply" /\ task[t].of = i}

Counted ==
    \A i \in Starts :
        /\ conv[i].replied + Cardinality(Replying(i)) <= conv[i].exchanges
        /\ conv[i].replied + Cardinality(Replying(i)) < MAX_EXCHANGES_BEFORE_FORCE

\* The first half of ClassifiedInTime; Counted implies the second.
KnownOrUnderWay ==
    \A i \in Starts :
        conv[i].exchanges >= MIN_EXCHANGES_FOR_CLASSIFICATION /\ ~InFlight(i)
            => conv[i].classified

Ending ==
    \A t \in Tasks : task[t].wait = "end" =>
        /\ task[t].of # current
        /\ \A u \in Tasks : task[u].wait = "end" /\ task[u].of = task[t].of => u = t

Ended ==
    \A i \in Starts : result[i] # NoResult =>
        /\ i <= started
        /\ i # current
        /\ \A t \in Tasks : ~(task[t].wait = "end" /\ task[t].of = i)
        /\ conv[i].classified

Classifies(t, i) == task[t].wait \in {"farewell", "end"} /\ task[t].of = i

OneVerdict(i) ==
    /\ \A t \in Tasks : Classifies(t, i) => ~conv[i].classified
    /\ \A t, u \in Tasks : Classifies(t, i) /\ Classifies(u, i) => t = u
    /\ farewells[i] # {} => conv[i].classified
    /\ farewells[i] \subseteq {Recommendation(conv[i].answer)}
    /\ result[i] # NoResult => result[i].recommendation = Recommendation(conv[i].answer)

Told == \A i \in Starts : ~overlap[i] => OneVerdict(i)

IInv == /\ TypeOK /\ Placed /\ Counted /\ KnownOrUnderWay
        /\ Ending /\ Ended /\ NothingHeardAfterEnd /\ Told

-----------------------------------------------------------------------------
(* What a classification means.                                            *)

\* A recommendation is one of the three, and every confidence leads to one of
\* the adjustments (screening.py:259-297).
LEMMA Verdicts ==
    ASSUME NEW a \in Classifications \cup {NoAnswer}
    PROVE  /\ Recommendation(a) \in Recommendations
           /\ Trust(a) \in {"raise", "keep", "lower", "raised"}
<1>1. Recommendation(a) \in Recommendations
  BY DEF Recommendation, Recommendations
<1>2. Factor(a) \in {"minus", "plus", "none"}
  BY DEF Factor
<1>3. a.confidence \in {"negative", "zero", "low", "high", "bad"}
  BY DEF Classifications, NoAnswer
<1> QED BY <1>1, <1>2, <1>3 DEF Trust

LEMMA Answering ==
    ASSUME NEW a \in Answers \cup {Failed}
    PROVE  Understood(a) \in Classifications
  BY ScreeningAssumption DEF Understood, Failed, Classifications

\* What end_screening returns for a classified conversation.
LEMMA Outcomes ==
    ASSUME NEW k \in Conversation, k.classified
    PROVE  /\ Outcome(k) \in Results /\ Outcome(k) # NoResult
           /\ Outcome(k).heard = k.exchanges
           /\ Outcome(k).classified
           /\ Outcome(k).recommendation = Recommendation(k.answer)
<1>1. k.answer \in Classifications \cup {NoAnswer} /\ k.exchanges \in 0..MaxUtterances
  BY DEF Conversation
<1>2. "trust" \in DOMAIN Outcome(k) /\ "trust" \notin DOMAIN NoResult
  BY DEF Outcome, NoResult
<1> QED BY <1>1, <1>2, Verdicts DEF Outcome, Results

-----------------------------------------------------------------------------
(* The replies under way.                                                  *)

LEMMA FiniteReplies ==
    ASSUME NEW i PROVE IsFiniteSet(Replying(i)) /\ Cardinality(Replying(i)) \in Nat
<1>1. Replying(i) \in SUBSET Tasks
  BY DEF Replying
<1> QED BY <1>1, ScreeningAssumption, FS_Subset, FS_CardinalityType

LEMMA ReplyBegins ==
    ASSUME TypeOK, NEW t \in Tasks, task[t] = Idle, NEW i \in Starts,
           task' = [task EXCEPT ![t] = [wait |-> "reply", of |-> i]]
    PROVE  /\ Cardinality(Replying(i)') = Cardinality(Replying(i)) + 1
           /\ \A j \in Starts \ {i} : Replying(j)' = Replying(j)
<1>1. t \notin Replying(i)
  BY DEF Replying, Idle
<1>2. \A u \in Tasks : task'[u] = IF u = t THEN [wait |-> "reply", of |-> i] ELSE task[u]
  BY DEF TypeOK
<1>3. Replying(i)' = Replying(i) \cup {t}
  BY <1>2 DEF Replying
<1>4. Cardinality(Replying(i) \cup {t}) = Cardinality(Replying(i)) + 1
  BY <1>1, FiniteReplies, FS_AddElement
<1>5. \A j \in Starts \ {i} : Replying(j)' = Replying(j)
  BY <1>2 DEF Replying, Idle
<1> QED BY <1>3, <1>4, <1>5

LEMMA ReplyEnds ==
    ASSUME TypeOK, NEW t \in Tasks, NEW i \in Starts, task[t].wait = "reply", task[t].of = i,
           NEW x, x.wait # "reply", task' = [task EXCEPT ![t] = x]
    PROVE  /\ Cardinality(Replying(i)) >= 1
           /\ Cardinality(Replying(i)') = Cardinality(Replying(i)) - 1
           /\ \A j \in Starts \ {i} : Replying(j)' = Replying(j)
<1>1. t \in Replying(i)
  BY DEF Replying
<1>2. \A u \in Tasks : task'[u] = IF u = t THEN x ELSE task[u]
  BY DEF TypeOK
<1>3. Replying(i)' = Replying(i) \ {t}
  BY <1>2 DEF Replying
<1>4. Cardinality(Replying(i) \ {t}) = Cardinality(Replying(i)) - 1
  BY <1>1, FiniteReplies, FS_RemoveElement
<1>5. Cardinality(Replying(i)) # 0
  BY <1>1, FiniteReplies, FS_EmptySet
<1>6. \A j \in Starts \ {i} : Replying(j)' = Replying(j)
  BY <1>2 DEF Replying
<1> QED BY <1>3, <1>4, <1>5, <1>6, FiniteReplies

LEMMA NoReply ==
    ASSUME TypeOK, NEW t \in Tasks, task[t].wait # "reply",
           NEW x, x.wait # "reply", task' = [task EXCEPT ![t] = x]
    PROVE  \A j \in Starts : Replying(j)' = Replying(j)
<1>1. \A u \in Tasks : task'[u] = IF u = t THEN x ELSE task[u]
  BY DEF TypeOK
<1> QED BY <1>1 DEF Replying

-----------------------------------------------------------------------------
(* Counted and the types, action by action.                                *)

LEMMA InitInv == Init => IInv
<1> SUFFICES ASSUME Init PROVE IInv
  OBVIOUS
<1>1. TypeOK
  BY ScreeningAssumption DEF Init, TypeOK, Conversation, Idle, Waits, Starts
<1>2. \A i \in Starts : Replying(i) = {}
  BY DEF Init, Replying, Idle
<1>3. Counted
  <2>1. \A i \in Starts : Cardinality(Replying(i)) = 0
    BY <1>2, FS_EmptySet
  <2> QED BY <2>1 DEF Init, Counted, MAX_EXCHANGES_BEFORE_FORCE
<1> QED BY <1>1, <1>3
        DEF Init, IInv, Placed, KnownOrUnderWay, Ending, Ended, NothingHeardAfterEnd, Told,
            OneVerdict, Classifies, Idle, MIN_EXCHANGES_FOR_CLASSIFICATION

\* A new conversation has no result and no end under way.
LEMMA StartInv == ASSUME IInv, Start PROVE IInv'
<1> USE ScreeningAssumption DEF IInv
<1>1. TypeOK'
  BY DEF Start, TypeOK, Starts
<1>2. Placed' /\ KnownOrUnderWay' /\ NothingHeardAfterEnd' /\ Told'
  BY DEF Start, Placed, KnownOrUnderWay, InFlight, NothingHeardAfterEnd, Told,
         OneVerdict, Classifies
<1>3. Counted'
  BY DEF Start, Counted, Replying
<1>4. \A i \in 0..started : i \in Nat /\ i # started + 1
  BY DEF TypeOK
<1>5. Ending'
  BY <1>4 DEF Start, TypeOK, Ending
<1>6. Ended'
  BY <1>4 DEF Start, TypeOK, Ended, Starts
<1> QED BY <1>1, <1>2, <1>3, <1>5, <1>6

-----------------------------------------------------------------------------
(* What the caller is told.                                                *)

\* The farewell of a conversation that is classified already: only what the
\* caller is told changes, and it is what the classification says.
LEMMA ToldAgain ==
    ASSUME TypeOK, Told, NEW i \in Starts, conv[i].classified,
           farewells' = [farewells EXCEPT ![i] = @ \cup {Recommendation(conv[i].answer)}],
           UNCHANGED <<result, overlap>>,
           \A j \in Starts : /\ conv'[j].classified = conv[j].classified
                             /\ conv'[j].answer = conv[j].answer,
           \A j \in Starts, t \in Tasks : Classifies(t, j)' => Classifies(t, j)
    PROVE  Told'
<1> SUFFICES ASSUME NEW j \in Starts, ~overlap'[j] PROVE OneVerdict(j)'
  BY DEF Told
<1>1. OneVerdict(j)
  BY DEF Told
<1>2. farewells'[j] = IF j = i THEN farewells[i] \cup {Recommendation(conv[i].answer)}
                      ELSE farewells[j]
  BY DEF TypeOK
<1> QED BY <1>1, <1>2 DEF OneVerdict

\* The caller is told nothing new.
LEMMA ToldNothing ==
    ASSUME TypeOK, Told, UNCHANGED <<farewells, result, overlap>>,
           \A j \in Starts : /\ conv'[j].classified = conv[j].classified
                             /\ conv'[j].answer = conv[j].answer,
           \A j \in Starts, t \in Tasks : Classifies(t, j)' => Classifies(t, j)
    PROVE  Told'
  BY DEF Told, OneVerdict

\* A classification begins: if no other of the conversation is under way, it
\* is the only one, and the conversation is not classified.
LEMMA ToldLater ==
    ASSUME TypeOK, Told, NEW t \in Tasks, NEW i \in Starts, NEW w \in {"farewell", "end"},
           ~conv[i].classified, task[t].wait \in {"idle", "reply"}, Classify(t, i, w),
           \A j \in Starts : /\ conv'[j].classified = conv[j].classified
                             /\ conv'[j].answer = conv[j].answer
    PROVE  Told'
<1>1. \A u \in Tasks : task'[u] = IF u = t THEN [wait |-> w, of |-> i] ELSE task[u]
  BY DEF Classify, TypeOK
<1>2. /\ farewells' = farewells /\ result' = result
      /\ \A j \in Starts : overlap'[j] <=> overlap[j] \/ (j = i /\ Classifying(i))
  BY DEF Classify, TypeOK
<1>3. \A u \in Tasks, j \in Starts : Classifies(u, j)' <=> Classifies(u, j) \/ (u = t /\ j = i)
  BY <1>1 DEF Classifies
<1>4. \A u \in Tasks : Classifies(u, i) => Classifying(i)
  BY DEF Classifies, Classifying
<1> SUFFICES ASSUME NEW j \in Starts, ~overlap'[j] PROVE OneVerdict(j)'
  BY DEF Told
<1>5. OneVerdict(j)
  BY <1>2 DEF Told
<1> QED BY <1>2, <1>3, <1>4, <1>5 DEF OneVerdict

\* The answer of a classification: if it is the only one, nobody has been told
\* anything yet, and nobody will classify again.
LEMMA ToldAnswer ==
    ASSUME TypeOK, Told, NEW t \in Tasks, NEW i \in Starts, NEW a, Classifies(t, i),
           Learn(i, a), task' = [task EXCEPT ![t] = Idle], overlap' = overlap,
           \A j \in Starts \ {i} : farewells'[j] = farewells[j] /\ result'[j] = result[j],
           \/ /\ farewells'[i] = farewells[i] \cup {Recommendation(Understood(a))}
              /\ result'[i] = result[i]
           \/ /\ farewells'[i] = farewells[i]
              /\ result'[i].recommendation = Recommendation(Understood(a)),
           result[i] # NoResult => conv[i].classified
    PROVE  Told'
<1>1. \A u \in Tasks, j \in Starts : Classifies(u, j)' <=> Classifies(u, j) /\ u # t
  BY DEF TypeOK, Classifies, Idle
<1>2. conv'[i].classified /\ conv'[i].answer = Understood(a)
  BY DEF Learn, TypeOK, Conversation
<1>3. \A j \in Starts \ {i} : conv'[j] = conv[j]
  BY DEF Learn, TypeOK
<1> SUFFICES ASSUME NEW j \in Starts, ~overlap'[j] PROVE OneVerdict(j)'
  BY DEF Told
<1>4. OneVerdict(j)
  BY DEF Told
<1>5. CASE j = i
  BY <1>1, <1>2, <1>4, <1>5 DEF OneVerdict
<1>6. CASE j # i
  BY <1>1, <1>3, <1>4, <1>6 DEF OneVerdict
<1> QED BY <1>5, <1>6

-----------------------------------------------------------------------------
(* What is known, and what has ended.                                      *)

LEMMA KnownKept ==
    ASSUME TypeOK, KnownOrUnderWay, NEW t \in Tasks, NEW i \in Starts, task[t].of \in {0, i},
           NEW x, task' = [task EXCEPT ![t] = x],
           \A j \in Starts \ {i} : conv'[j] = conv[j],
           \/ x.of = i
           \/ conv'[i].classified
           \/ ~(conv'[i].exchanges >= MIN_EXCHANGES_FOR_CLASSIFICATION)
    PROVE  KnownOrUnderWay'
<1>1. \A u \in Tasks : task'[u] = IF u = t THEN x ELSE task[u]
  BY DEF TypeOK
<1>2. \A j \in Starts \ {i} : InFlight(j) => InFlight(j)'
  BY <1>1 DEF InFlight, Starts
<1>3. x.of = i => InFlight(i)'
  BY <1>1 DEF InFlight
<1> QED BY <1>2, <1>3 DEF KnownOrUnderWay

\* No conversation ends, and what has a result hears nothing more.
LEMMA EndsKept ==
    ASSUME TypeOK, Ending, Ended, NothingHeardAfterEnd,
           NEW t \in Tasks, NEW x, x.wait # "end", task' = [task EXCEPT ![t] = x],
           UNCHANGED <<started, current, result>>,
           \A j \in Starts : conv[j].classified => conv'[j].classified,
           \A j \in Starts \ {current} : conv'[j].exchanges = conv[j].exchanges
    PROVE  Ending' /\ Ended' /\ NothingHeardAfterEnd'
<1>1. \A u \in Tasks : task'[u] = IF u = t THEN x ELSE task[u]
  BY DEF TypeOK
<1>2. Ending'
  BY <1>1 DEF Ending
<1>3. Ended'
  BY <1>1 DEF Ended
<1>4. NothingHeardAfterEnd'
  BY DEF Ended, NothingHeardAfterEnd
<1> QED BY <1>2, <1>3, <1>4

\* Conversation i gets its result: it is nobody's current one any more.
LEMMA ResultIsFinal ==
    ASSUME TypeOK, Placed, Ending, Ended, NothingHeardAfterEnd, NEW i \in Starts, i <= started,
           conv'[i] \in Conversation, conv'[i].classified,
           result' = [result EXCEPT ![i] = Outcome(conv'[i])],
           started' = started, current' \in {0, current}, i # current',
           \A j \in Starts \ {i} : conv'[j] = conv[j],
           \A u \in Tasks : task'[u].wait = "end" => task'[u] = task[u] /\ task[u].of # i
    PROVE  Ending' /\ Ended' /\ NothingHeardAfterEnd'
<1>1. result'[i] = Outcome(conv'[i]) /\ \A j \in Starts \ {i} : result'[j] = result[j]
  BY DEF TypeOK
<1>2. /\ result'[i].heard = conv'[i].exchanges
      /\ result'[i].classified
  BY <1>1, Outcomes
<1>3. \A u \in Tasks : task'[u].wait = "end" => task'[u].of # current'
  BY DEF Ending, Placed
<1>4. Ending'
  BY <1>3 DEF Ending
<1>5. Ended'
  BY <1>1 DEF Ended, Starts
<1>6. NothingHeardAfterEnd'
  BY <1>1, <1>2 DEF NothingHeardAfterEnd
<1> QED BY <1>4, <1>5, <1>6

-----------------------------------------------------------------------------
(* The actions.                                                            *)

LEMMA TaskTyped ==
    ASSUME TypeOK, Placed, NEW t \in Tasks, NEW x \in [wait : Waits, of : 0..started],
           x.of = 0 <=> x.wait = "idle", task' = [task EXCEPT ![t] = x]
    PROVE  task' \in [Tasks -> [wait : Waits, of : 0..started]] /\ Placed'
<1>1. \A u \in Tasks : task'[u] = IF u = t THEN x ELSE task[u]
  BY DEF TypeOK
<1> QED BY <1>1 DEF TypeOK, Placed

\* The counts of the conversations other than i stay; i's are given.
LEMMA CountKept ==
    ASSUME Counted, NEW i \in Starts,
           conv'[i].replied + Cardinality(Replying(i)') <= conv'[i].exchanges,
           conv'[i].replied + Cardinality(Replying(i)') < MAX_EXCHANGES_BEFORE_FORCE,
           \A j \in Starts \ {i} : conv'[j] = conv[j] /\ Replying(j)' = Replying(j)
    PROVE  Counted'
<1> SUFFICES ASSUME NEW j \in Starts
             PROVE  /\ conv'[j].replied + Cardinality(Replying(j)') <= conv'[j].exchanges
                    /\ conv'[j].replied + Cardinality(Replying(j)') < MAX_EXCHANGES_BEFORE_FORCE
  BY DEF Counted
<1>1. CASE j = i
  BY <1>1
<1>2. CASE j # i
  <2>1. Replying(j)' = Replying(j) /\ conv'[j] = conv[j]
    BY <1>2
  <2> QED BY <2>1 DEF Counted
<1> QED BY <1>1, <1>2

\* Farewell, whichever way it goes on, in terms of the lemmas above.
LEMMA FarewellTold ==
    ASSUME TypeOK, Told, NEW t \in Tasks, NEW i \in Starts, task[t].wait \in {"idle", "reply"},
           Farewell(t, i),
           \A j \in Starts : /\ conv'[j].classified = conv[j].classified
                             /\ conv'[j].answer = conv[j].answer
    PROVE  Told'
<1>1. CASE ~conv[i].classified
  BY <1>1, ToldLater DEF Farewell
<1>2. CASE conv[i].classified
  <2>1. task' = [task EXCEPT ![t] = Idle]
    BY <1>2 DEF Farewell
  <2>2. \A j \in Starts, u \in Tasks : Classifies(u, j)' => Classifies(u, j)
    BY <2>1 DEF TypeOK, Classifies, Idle
  <2> QED BY <1>2, <2>2, ToldAgain DEF Farewell
<1> QED BY <1>1, <1>2

LEMMA FarewellFacts ==
    ASSUME TypeOK, NEW t \in Tasks, NEW i \in Starts, i <= started, Farewell(t, i)
    PROVE  /\ result' = result
           /\ farewells' \in [Starts -> SUBSET Recommendations]
           /\ overlap' \in [Starts -> BOOLEAN]
           /\ \E x \in [wait : {"farewell", "idle"}, of : 0..started] :
                 /\ task' = [task EXCEPT ![t] = x]
                 /\ x.of = 0 <=> x.wait = "idle"
                 /\ x.of = i \/ conv[i].classified
<1>1. CASE ~conv[i].classified
  <2> DEFINE x == [wait |-> "farewell", of |-> i]
  <2>1. /\ task' = [task EXCEPT ![t] = x] /\ UNCHANGED <<farewells, result>>
        /\ overlap' = [overlap EXCEPT ![i] = @ \/ Classifying(i)]
    BY <1>1 DEF Farewell, Classify
  <2>2. x \in [wait : {"farewell", "idle"}, of : 0..started] /\ x.of # 0 /\ x.of = i
    BY DEF Starts, TypeOK
  <2>3. overlap' \in [Starts -> BOOLEAN]
    BY <2>1 DEF TypeOK, Classifying
  <2> QED BY <2>1, <2>2, <2>3 DEF TypeOK
<1>2. CASE conv[i].classified
  <2>1. Recommendation(conv[i].answer) \in Recommendations
    BY Verdicts DEF TypeOK, Conversation
  <2>2. Idle \in [wait : {"farewell", "idle"}, of : 0..started]
    BY DEF Idle, TypeOK
  <2> QED BY <1>2, <2>1, <2>2 DEF Farewell, TypeOK, Idle
<1> QED BY <1>1, <1>2

\* An utterance is counted; the fifth and later ones go to no LLM.
LEMMA HearInv == ASSUME IInv, NEW t \in Tasks, Hear(t) PROVE IInv'
<1> USE ScreeningAssumption DEF IInv
<1> DEFINE i == current
<1>1. /\ task[t] = Idle /\ task[t].wait = "idle" /\ task[t].of = 0
      /\ i \in Starts /\ i <= started
      /\ conv[i].exchanges + 1 <= MaxUtterances
      /\ UNCHANGED <<started, current>>
  BY DEF Hear, TypeOK, Starts, Conversation, Idle
<1>2. conv' = [conv EXCEPT ![i].exchanges = @ + 1]
  BY DEF Hear
<1>3. /\ conv' \in [Starts -> Conversation]
      /\ conv'[i].exchanges = conv[i].exchanges + 1
      /\ \A j \in Starts \ {i} : conv'[j] = conv[j]
      /\ \A j \in Starts : /\ conv'[j].classified = conv[j].classified
                           /\ conv'[j].answer = conv[j].answer
                           /\ conv'[j].replied = conv[j].replied
  BY <1>1, <1>2 DEF TypeOK, Conversation
<1>4. \A j \in Starts : /\ conv[j].replied \in Nat /\ conv[j].exchanges \in Nat
                        /\ Cardinality(Replying(j)) \in Nat
  BY FiniteReplies DEF TypeOK, Conversation
<1>5. CASE Forced(i) /\ Farewell(t, i)
  <2>1. PICK x \in [wait : {"farewell", "idle"}, of : 0..started] :
           /\ task' = [task EXCEPT ![t] = x]
           /\ x.of = 0 <=> x.wait = "idle"
           /\ x.of = i \/ conv[i].classified
    BY <1>1, <1>5, FarewellFacts
  <2>a. x \in [wait : Waits, of : 0..started] /\ x.wait # "reply" /\ x.wait # "end"
    BY DEF Waits
  <2>2. TypeOK' /\ Placed'
    BY <1>1, <1>3, <1>5, <2>1, <2>a, FarewellFacts, TaskTyped DEF TypeOK
  <2>3. \A j \in Starts : Replying(j)' = Replying(j)
    BY <1>1, <2>1, <2>a, NoReply
  <2>4. Counted'
    <3>1. /\ conv[i].replied + Cardinality(Replying(i)) <= conv[i].exchanges
          /\ conv[i].replied + Cardinality(Replying(i)) < MAX_EXCHANGES_BEFORE_FORCE
      BY <1>1 DEF Counted
    <3>2. /\ conv'[i].replied + Cardinality(Replying(i)) <= conv'[i].exchanges
          /\ conv'[i].replied + Cardinality(Replying(i)) < MAX_EXCHANGES_BEFORE_FORCE
      BY <1>1, <1>3, <1>4, <3>1
    <3> QED BY <1>1, <1>3, <2>3, <3>2, CountKept
  <2>5. KnownOrUnderWay'
    BY <1>1, <1>3, <2>1, KnownKept
  <2>6. Ending' /\ Ended' /\ NothingHeardAfterEnd'
    BY <1>1, <1>3, <1>5, <2>1, <2>a, EndsKept, FarewellFacts
  <2>7. Told'
    BY <1>1, <1>3, <1>5, FarewellTold DEF Idle
  <2> QED BY <2>2, <2>4, <2>5, <2>6, <2>7
<1>6. CASE ~Forced(i) /\ task' = [task EXCEPT ![t] = [wait |-> "reply", of |-> i]]
           /\ UNCHANGED <<farewells, result, overlap>>
  <2> DEFINE x == [wait |-> "reply", of |-> i]
  <2>1. x \in [wait : Waits, of : 0..started] /\ x.of # 0
    BY <1>1 DEF Waits, Starts, TypeOK
  <2>2. TypeOK' /\ Placed'
    BY <1>1, <1>3, <1>6, <2>1, TaskTyped DEF TypeOK
  <2>3. /\ Cardinality(Replying(i)') = Cardinality(Replying(i)) + 1
        /\ \A j \in Starts \ {i} : Replying(j)' = Replying(j)
    BY <1>1, <1>6, ReplyBegins
  <2>4. conv[i].exchanges + 1 < MAX_EXCHANGES_BEFORE_FORCE
    BY <1>1, <1>4, <1>6 DEF Forced, MAX_EXCHANGES_BEFORE_FORCE
  <2>5. Counted'
    <3>1. conv[i].replied + Cardinality(Replying(i)) <= conv[i].exchanges
      BY <1>1 DEF Counted
    <3>2. /\ conv'[i].replied + Cardinality(Replying(i)') <= conv'[i].exchanges
          /\ conv'[i].replied + Cardinality(Replying(i)') < MAX_EXCHANGES_BEFORE_FORCE
      BY <1>1, <1>3, <1>4, <2>3, <2>4, <3>1 DEF MAX_EXCHANGES_BEFORE_FORCE
    <3> QED BY <1>1, <1>3, <2>3, <3>2, CountKept
  <2>6. KnownOrUnderWay'
    BY <1>1, <1>3, <1>6, KnownKept
  <2>7. Ending' /\ Ended' /\ NothingHeardAfterEnd'
    BY <1>1, <1>3, <1>6, EndsKept
  <2>8. \A j \in Starts, u \in Tasks : Classifies(u, j)' => Classifies(u, j)
    BY <1>6 DEF TypeOK, Classifies
  <2>9. Told'
    BY <1>3, <1>6, <2>8, ToldNothing
  <2> QED BY <2>2, <2>5, <2>6, <2>7, <2>9
<1> QED BY <1>5, <1>6 DEF Hear

\* The LLM has answered: one reply less is under way.
LEMMA ReplyInv == ASSUME IInv, NEW t \in Tasks, Reply(t) PROVE IInv'
<1> USE ScreeningAssumption DEF IInv
<1>a. task[t].wait = "reply" /\ task[t].of \in Starts /\ task[t].of <= started
  BY DEF Reply, TypeOK, Placed, Starts
<1> PICK i \in Starts : i = task[t].of
  BY <1>a
<1>1. /\ task[t].wait = "reply" /\ task[t].of = i /\ i <= started
      /\ UNCHANGED <<started, current>>
      /\ conv' = [conv EXCEPT ![i].replied = @ + 1]
      /\ \/ Farewell(t, i)
         \/ /\ ~Due(i)
            /\ task' = [task EXCEPT ![t] = Idle]
            /\ UNCHANGED <<farewells, result, overlap>>
  BY <1>a DEF Reply
<1>2. \A j \in Starts : /\ conv[j].replied \in Nat /\ conv[j].exchanges \in 0..MaxUtterances
                        /\ Cardinality(Replying(j)) \in Nat
  BY FiniteReplies DEF TypeOK, Conversation
<1>3. Cardinality(Replying(i)) # 0
  <2>1. t \in Replying(i)
    BY <1>1 DEF Replying
  <2> QED BY <2>1, FiniteReplies, FS_EmptySet
<1>4. conv[i].replied + 1 \in 0..MaxUtterances
  BY <1>1, <1>2, <1>3 DEF Counted
<1>5. /\ conv' \in [Starts -> Conversation]
      /\ conv'[i].replied = conv[i].replied + 1
      /\ \A j \in Starts \ {i} : conv'[j] = conv[j]
      /\ \A j \in Starts : /\ conv'[j].classified = conv[j].classified
                           /\ conv'[j].answer = conv[j].answer
                           /\ conv'[j].exchanges = conv[j].exchanges
  BY <1>1, <1>4 DEF TypeOK, Conversation
<1>6. PICK x \in [wait : {"farewell", "idle"}, of : 0..started] :
           /\ task' = [task EXCEPT ![t] = x]
           /\ x.of = 0 <=> x.wait = "idle"
           /\ \/ x.of = i \/ conv[i].classified
              \/ ~(conv[i].exchanges >= MIN_EXCHANGES_FOR_CLASSIFICATION)
  <2>1. CASE Farewell(t, i)
    BY <1>1, <2>1, FarewellFacts
  <2>2. CASE ~Due(i) /\ task' = [task EXCEPT ![t] = Idle]
    <3>1. Idle \in [wait : {"farewell", "idle"}, of : 0..started]
      BY DEF Idle, TypeOK
    <3> QED BY <2>2, <3>1 DEF Due, Idle
  <2> QED BY <1>1, <2>1, <2>2
<1>7. /\ result' = result
      /\ farewells' \in [Starts -> SUBSET Recommendations]
      /\ overlap' \in [Starts -> BOOLEAN]
  BY <1>1, FarewellFacts DEF TypeOK
<1>8. x \in [wait : Waits, of : 0..started] /\ x.wait # "reply" /\ x.wait # "end"
  BY DEF Waits
<1>9. TypeOK' /\ Placed'
  BY <1>1, <1>5, <1>6, <1>7, <1>8, TaskTyped DEF TypeOK
<1>10. /\ Cardinality(Replying(i)') = Cardinality(Replying(i)) - 1
      /\ \A j \in Starts \ {i} : Replying(j)' = Replying(j)
  BY <1>1, <1>6, <1>8, ReplyEnds
<1>11. Counted'
  <2>1. /\ conv[i].replied + Cardinality(Replying(i)) <= conv[i].exchanges
        /\ conv[i].replied + Cardinality(Replying(i)) < MAX_EXCHANGES_BEFORE_FORCE
    BY <1>1 DEF Counted
  <2>2. conv'[i].replied + Cardinality(Replying(i)') = conv[i].replied + Cardinality(Replying(i))
    BY <1>1, <1>2, <1>5, <1>10
  <2>3. /\ conv'[i].replied + Cardinality(Replying(i)') <= conv'[i].exchanges
        /\ conv'[i].replied + Cardinality(Replying(i)') < MAX_EXCHANGES_BEFORE_FORCE
    BY <1>1, <1>5, <2>1, <2>2
  <2> QED BY <1>1, <1>5, <1>10, <2>3, CountKept
<1>12. KnownOrUnderWay'
  BY <1>1, <1>5, <1>6, KnownKept
<1>13. Ending' /\ Ended' /\ NothingHeardAfterEnd'
  BY <1>1, <1>5, <1>6, <1>7, <1>8, EndsKept
<1>14. Told'
  <2>1. CASE Farewell(t, i)
    BY <1>1, <1>5, <2>1, FarewellTold
  <2>2. CASE task' = [task EXCEPT ![t] = Idle] /\ UNCHANGED <<farewells, result, overlap>>
    <3>1. \A j \in Starts, u \in Tasks : Classifies(u, j)' => Classifies(u, j)
      BY <2>2 DEF TypeOK, Classifies, Idle
    <3> QED BY <1>5, <2>2, <3>1, ToldNothing
  <2> QED BY <1>1, <2>1, <2>2
<1> QED BY <1>9, <1>11, <1>12, <1>13, <1>14

LEMMA Learned ==
    ASSUME TypeOK, NEW i \in Starts, NEW a, Understood(a) \in Classifications, Learn(i, a)
    PROVE  /\ conv' \in [Starts -> Conversation]
           /\ conv'[i] \in Conversation
           /\ conv'[i].classified /\ conv'[i].answer = Understood(a)
           /\ \A j \in Starts \ {i} : conv'[j] = conv[j]
           /\ \A j \in Starts : /\ conv'[j].exchanges = conv[j].exchanges
                                /\ conv'[j].replied = conv[j].replied
<1> DEFINE k == [conv[i] EXCEPT !.classified = TRUE, !.answer = Understood(a)]
<1>1. conv' = [conv EXCEPT ![i] = k]
  BY DEF Learn, TypeOK
<1>2. /\ k \in Conversation /\ k.classified /\ k.answer = Understood(a)
      /\ k.exchanges = conv[i].exchanges /\ k.replied = conv[i].replied
  BY DEF TypeOK, Conversation
<1>3. \A j \in Starts : conv'[j] = IF j = i THEN k ELSE conv[j]
  BY <1>1 DEF TypeOK
<1>4. conv' \in [Starts -> Conversation]
  BY <1>1, <1>2 DEF TypeOK
<1> QED BY <1>2, <1>3, <1>4

\* classify_intent has answered handle_transcript.
LEMMA FarewellClassifiedInv ==
    ASSUME IInv, NEW t \in Tasks, NEW a \in Answers \cup {Failed}, FarewellClassified(t, a)
    PROVE  IInv'
<1> USE ScreeningAssumption DEF IInv
<1>a. task[t].wait = "farewell" /\ task[t].of \in Starts /\ task[t].of <= started
  BY DEF FarewellClassified, TypeOK, Placed, Starts
<1> PICK i \in Starts : i = task[t].of
  BY <1>a
<1>1. /\ task[t].wait = "farewell" /\ task[t].of = i
      /\ Learn(i, a)
      /\ farewells' = [farewells EXCEPT ![i] = @ \cup {Recommendation(Understood(a))}]
      /\ task' = [task EXCEPT ![t] = Idle]
      /\ UNCHANGED <<started, current, result, overlap>>
  BY <1>a DEF FarewellClassified
<1>2. Understood(a) \in Classifications
  BY Answering
<1>3. /\ conv' \in [Starts -> Conversation]
      /\ conv'[i].classified
      /\ \A j \in Starts \ {i} : conv'[j] = conv[j]
      /\ \A j \in Starts : /\ conv'[j].exchanges = conv[j].exchanges
                           /\ conv'[j].replied = conv[j].replied
  BY <1>1, <1>2, Learned
<1>4. Idle.wait = "idle" /\ Idle.of = 0 /\ Idle \in [wait : Waits, of : 0..started]
  BY DEF Idle, Waits, TypeOK
<1>5. Recommendation(Understood(a)) \in Recommendations
  BY <1>2, Verdicts
<1>6. TypeOK' /\ Placed'
  BY <1>1, <1>3, <1>4, <1>5, TaskTyped DEF TypeOK
<1>7. \A j \in Starts : Replying(j)' = Replying(j)
  BY <1>1, <1>4, NoReply
<1>8. Counted'
  BY <1>3, <1>7 DEF Counted
<1>9. KnownOrUnderWay'
  BY <1>1, <1>3, <1>4, KnownKept
<1>10. Ending' /\ Ended' /\ NothingHeardAfterEnd'
  BY <1>1, <1>3, <1>4, EndsKept
<1>11. Classifies(t, i)
  BY <1>1 DEF Classifies
<1>12. \A j \in Starts \ {i} : farewells'[j] = farewells[j] /\ result'[j] = result[j]
  BY <1>1 DEF TypeOK
<1>13. /\ farewells'[i] = farewells[i] \cup {Recommendation(Understood(a))}
       /\ result'[i] = result[i]
  BY <1>1 DEF TypeOK
<1>14. result[i] # NoResult => conv[i].classified
  BY DEF Ended
<1>15. Told'
  BY <1>1, <1>11, <1>12, <1>13, <1>14, ToldAnswer
<1> QED BY <1>6, <1>8, <1>9, <1>10, <1>15

\* end_screening takes the session out, and returns at once or classifies.
LEMMA EndInv == ASSUME IInv, NEW t \in Tasks, End(t) PROVE IInv'
<1> USE ScreeningAssumption DEF IInv
<1>1. PICK i \in Starts :
         /\ i = current /\ i <= started /\ current' = 0
         /\ task[t] = Idle /\ task[t].wait = "idle" /\ task[t].of = 0
         /\ UNCHANGED <<conv, started>>
         /\ \/ /\ ~conv[i].classified
               /\ Classify(t, i, "end")
            \/ /\ conv[i].classified
               /\ result' = [result EXCEPT ![i] = Outcome(conv[i])]
               /\ UNCHANGED <<task, farewells, overlap>>
  BY DEF End, TypeOK, Starts, Idle
<1>2. result[i] = NoResult
  BY <1>1 DEF Ended
<1>3. CASE ~conv[i].classified /\ Classify(t, i, "end")
  <2> DEFINE x == [wait |-> "end", of |-> i]
  <2>1. /\ task' = [task EXCEPT ![t] = x] /\ UNCHANGED <<farewells, result>>
        /\ overlap' \in [Starts -> BOOLEAN]
    BY <1>3 DEF Classify, TypeOK, Classifying
  <2>2. x \in [wait : Waits, of : 0..started] /\ x.of # 0 /\ x.wait # "reply"
    BY <1>1 DEF Waits, TypeOK, Starts
  <2>3. TypeOK' /\ Placed'
    BY <1>1, <2>1, <2>2, TaskTyped DEF TypeOK
  <2>4. \A j \in Starts : Replying(j)' = Replying(j)
    BY <1>1, <2>1, <2>2, NoReply
  <2>5. Counted'
    BY <1>1, <2>4 DEF Counted
  <2>6. KnownOrUnderWay'
    BY <1>1, <2>1, KnownKept
  <2>7. \A u \in Tasks : task'[u] = IF u = t THEN x ELSE task[u]
    BY <2>1 DEF TypeOK
  <2>8. Ending'
    BY <1>1, <2>2, <2>7 DEF Ending, Placed
  <2>9. Ended' /\ NothingHeardAfterEnd'
    BY <1>1, <1>2, <2>1, <2>7 DEF Ended, NothingHeardAfterEnd, Starts
  <2>10. Told'
    BY <1>1, <1>3, ToldLater
  <2> QED BY <2>3, <2>5, <2>6, <2>8, <2>9, <2>10
<1>4. CASE /\ conv[i].classified /\ result' = [result EXCEPT ![i] = Outcome(conv[i])]
           /\ UNCHANGED <<task, farewells, overlap>>
  <2>1. conv[i] \in Conversation
    BY DEF TypeOK
  <2>2. Outcome(conv[i]) \in Results
    BY <1>4, <2>1, Outcomes
  <2>3. TypeOK' /\ Placed'
    BY <1>1, <1>4, <2>2 DEF TypeOK, Placed
  <2>4. Counted' /\ KnownOrUnderWay'
    <3>1. conv' = conv /\ task' = task
      BY <1>1, <1>4
    <3>2. \A j \in Starts : Replying(j)' = Replying(j) /\ InFlight(j)' = InFlight(j)
      BY <3>1 DEF Replying, InFlight
    <3> QED BY <3>1, <3>2 DEF Counted, KnownOrUnderWay
  <2>5. \A u \in Tasks : task'[u].wait = "end" => task'[u] = task[u] /\ task[u].of # i
    BY <1>1, <1>4 DEF Ending
  <2>6. Ending' /\ Ended' /\ NothingHeardAfterEnd'
    <3>1. /\ i # current' /\ current' \in {0, current} /\ started' = started
          /\ conv'[i] = conv[i]
          /\ result' = [result EXCEPT ![i] = Outcome(conv'[i])]
          /\ \A j \in Starts \ {i} : conv'[j] = conv[j]
      BY <1>1, <1>4 DEF Starts
    <3> QED BY <1>1, <1>4, <2>1, <2>5, <3>1, ResultIsFinal
  <2>7. Outcome(conv[i]).recommendation = Recommendation(conv[i].answer)
    BY <1>4, <2>1, Outcomes
  <2>8. /\ \A j \in Starts \ {i} : result'[j] = result[j]
        /\ result'[i] = Outcome(conv[i])
    BY <1>4 DEF TypeOK
  <2>9. Told'
    BY <1>1, <1>4, <2>7, <2>8 DEF Told, OneVerdict, Classifies
  <2> QED BY <2>3, <2>4, <2>6, <2>9
<1> QED BY <1>1, <1>3, <1>4

\* classify_intent has answered end_screening.
LEMMA EndClassifiedInv ==
    ASSUME IInv, NEW t \in Tasks, NEW a \in Answers \cup {Failed}, EndClassified(t, a)
    PROVE  IInv'
<1> USE ScreeningAssumption DEF IInv
<1>a. task[t].wait = "end" /\ task[t].of \in Starts /\ task[t].of <= started
  BY DEF EndClassified, TypeOK, Placed, Starts
<1> PICK i \in Starts : i = task[t].of
  BY <1>a
<1>1. /\ task[t].wait = "end" /\ task[t].of = i /\ i <= started
      /\ Learn(i, a)
      /\ result' = [result EXCEPT ![i] = Outcome(conv'[i])]
      /\ task' = [task EXCEPT ![t] = Idle]
      /\ UNCHANGED <<started, current, farewells, overlap>>
  BY <1>a DEF EndClassified
<1>2. Understood(a) \in Classifications
  BY Answering
<1>3. /\ conv' \in [Starts -> Conversation]
      /\ conv'[i] \in Conversation
      /\ conv'[i].classified /\ conv'[i].answer = Understood(a)
      /\ \A j \in Starts \ {i} : conv'[j] = conv[j]
      /\ \A j \in Starts : /\ conv'[j].exchanges = conv[j].exchanges
                           /\ conv'[j].replied = conv[j].replied
  BY <1>1, <1>2, Learned
<1>4. Idle.wait = "idle" /\ Idle.of = 0 /\ Idle \in [wait : Waits, of : 0..started]
  BY DEF Idle, Waits, TypeOK
<1>5. /\ Outcome(conv'[i]) \in Results
      /\ Outcome(conv'[i]).recommendation = Recommendation(Understood(a))
  BY <1>3, Outcomes
<1>6. TypeOK' /\ Placed'
  BY <1>1, <1>3, <1>4, <1>5, TaskTyped DEF TypeOK
<1>7. \A j \in Starts : Replying(j)' = Replying(j)
  BY <1>1, <1>4, NoReply
<1>8. Counted'
  BY <1>3, <1>7 DEF Counted
<1>9. KnownOrUnderWay'
  BY <1>1, <1>3, <1>4, KnownKept
<1>10. \A u \in Tasks : task'[u] = IF u = t THEN Idle ELSE task[u]
  BY <1>1 DEF TypeOK
<1>11. i # current /\ \A u \in Tasks : task'[u].wait = "end" => task'[u] = task[u] /\ task[u].of # i
  BY <1>1, <1>4, <1>10 DEF Ending
<1>12. Ending' /\ Ended' /\ NothingHeardAfterEnd'
  BY <1>1, <1>3, <1>11, ResultIsFinal DEF TypeOK
<1>13. Classifies(t, i)
  BY <1>1 DEF Classifies
<1>14. \A j \in Starts \ {i} : farewells'[j] = farewells[j] /\ result'[j] = result[j]
  BY <1>1 DEF TypeOK
<1>15. /\ farewells'[i] = farewells[i]
       /\ result'[i].recommendation = Recommendation(Understood(a))
  BY <1>1, <1>5 DEF TypeOK
<1>16. result[i] # NoResult => conv[i].classified
  BY DEF Ended
<1>17. Told'
  BY <1>1, <1>13, <1>14, <1>15, <1>16, ToldAnswer
<1> QED BY <1>6, <1>8, <1>9, <1>12, <1>17

-----------------------------------------------------------------------------
LEMMA Inductive == IInv /\ [Next]_vars => IInv'
<1> SUFFICES ASSUME IInv, [Next]_vars PROVE IInv'
  OBVIOUS
<1>1. CASE UNCHANGED vars
  BY <1>1 DEF vars, IInv, TypeOK, Placed, Counted, Replying, KnownOrUnderWay, InFlight, Ending,
     Ended, NothingHeardAfterEnd, Told, OneVerdict, Classifies
<1>2. CASE Next
  BY <1>2, StartInv, HearInv, ReplyInv, EndInv, FarewellClassifiedInv, EndClassifiedInv DEF Next
<1> QED BY <1>1, <1>2

LEMMA Invariance == Spec => []IInv
  BY InitInv, Inductive, PTL DEF Spec

\* The conversations, the tasks and the results keep their types; above all no
\* conversation has more answers than utterances (screening.py:102-171).
THEOREM ScreeningTypeCorrect == Spec => []TypeOK
<1>1. IInv => TypeOK
  BY DEF IInv
<1> QED BY <1>1, Invariance, PTL

\* However many utterances are handled at once and in whatever order the LLM
\* answers, the intent is known in time and the LLM makes no conversation
\* beyond the fourth utterance (screening.py:131-133, 163-167).
THEOREM IntentIsKnown == Spec => []ClassifiedInTime
<1>1. IInv => ClassifiedInTime
  <2> SUFFICES ASSUME IInv, NEW i \in Starts PROVE conv[i].replied < MAX_EXCHANGES_BEFORE_FORCE
    BY DEF IInv, KnownOrUnderWay, ClassifiedInTime
  <2>1. conv[i].replied \in Nat /\ Cardinality(Replying(i)) \in Nat
    BY FiniteReplies DEF IInv, TypeOK, Conversation
  <2>2. conv[i].replied + Cardinality(Replying(i)) < MAX_EXCHANGES_BEFORE_FORCE
    BY DEF IInv, Counted
  <2> QED BY <2>1, <2>2 DEF MAX_EXCHANGES_BEFORE_FORCE
<1> QED BY <1>1, Invariance, PTL

\* A result accounts for everything that was heard, nothing is heard after it,
\* although end_screening waits for the LLM in between, and it rests on a
\* classification (screening.py:171-217).
THEOREM ResultIsComplete == Spec => []NothingHeardAfterEnd
<1>1. IInv => NothingHeardAfterEnd
  BY DEF IInv
<1> QED BY <1>1, Invariance, PTL

\* Without overlapping classifications the caller is told what the result says
\* (screening.py:219-257).
THEOREM FarewellsAgree == Spec => []FarewellIsResult
<1>1. IInv => FarewellIsResult
  <2> SUFFICES ASSUME IInv, NEW i \in Starts, result[i] # NoResult, ~overlap[i]
               PROVE  farewells[i] \subseteq {result[i].recommendation}
    BY DEF FarewellIsResult
  <2>1. OneVerdict(i)
    BY DEF IInv, Told
  <2> QED BY <2>1 DEF OneVerdict
<1> QED BY <1>1, Invariance, PTL

-----------------------------------------------------------------------------
(* When end_screening raises, and when it rewards.                         *)

\* What a conversation holds is an answer of the LLM, its fallback, or nothing.
Given(a) == a = NoAnswer \/ \E b \in Answers \cup {Failed} : a = Understood(b)

RaisesOnlyForScams ==
    \A i \in Starts : result[i] # NoResult /\ result[i].trust = "raised" =>
        /\ result[i].recommendation = "block"
        /\ \E a \in Answers : a.category = "scam" /\ a.confidence = "bad"

RewardsOnlyNegative ==
    \A i \in Starts : result[i] # NoResult =>
        /\ result[i].recommendation = "forward" => result[i].trust = "raise"
        /\ result[i].recommendation = "block" /\ result[i].trust = "raise" =>
              \E a \in Answers : a.category = "scam" /\ a.confidence = "negative"

Grounded == /\ \A i \in Starts : Given(conv[i].answer)
            /\ RaisesOnlyForScams /\ RewardsOnlyNegative

LEMMA GivenAnswer ==
    ASSUME NEW a, Given(a), a # NoAnswer
    PROVE  /\ a \in Classifications
           /\ a.category = "scam" => a \in Answers
<1>1. PICK b \in Answers \cup {Failed} : a = Understood(b)
  BY DEF Given
<1>2. b \in Classifications /\ a \in Classifications
  BY <1>1, ScreeningAssumption DEF Classifications, Failed, Understood
<1> QED BY <1>1, <1>2 DEF Understood, Failed

\* What kind of answer leads to a TypeError, and what kind to a trust adjustment that
\* contradicts the recommendation.
LEMMA Judged ==
    ASSUME NEW a, Given(a)
    PROVE  /\ Trust(a) = "raised" =>
                  Recommendation(a) = "block" /\ a.category = "scam" /\ a.confidence = "bad"
           /\ Recommendation(a) = "forward" => Trust(a) = "raise"
           /\ Recommendation(a) = "block" /\ Trust(a) = "raise" =>
                  a.category = "scam" /\ a.confidence = "negative"
<1>1. CASE a = NoAnswer
  BY <1>1 DEF Trust, Factor, Recommendation, NoAnswer
<1>2. CASE a # NoAnswer
  <2>1. /\ a.category \in {"scam", "other"} /\ a.legitimate \in {"yes", "no", "null"}
        /\ a.confidence \in {"negative", "zero", "low", "high", "bad"}
    BY <1>2, GivenAnswer DEF Classifications
  <2>2. a.confidence = "bad" => a.category = "scam" \/ a.legitimate = "null"
    <3>1. PICK b \in Answers \cup {Failed} : a = Understood(b)
      BY <1>2 DEF Given
    <3> QED BY <2>1, <3>1 DEF Understood, Failed
  <2>3. CASE a.category = "scam"
    <3>1. Recommendation(a) = "block" /\ Factor(a) = "minus"
      BY <2>3 DEF Recommendation, Factor
    <3> QED BY <2>1, <2>3, <3>1 DEF Trust
  <2>4. CASE a.category = "other" /\ a.legitimate = "yes"
    <3>1. Recommendation(a) \in {"forward", "message"} /\ Factor(a) = "plus"
      BY <2>4 DEF Recommendation, Factor
    <3>2. Recommendation(a) = "forward" => a.confidence = "high"
      BY <2>4 DEF Recommendation
    <3> QED BY <2>1, <2>2, <2>4, <3>1, <3>2 DEF Trust
  <2>5. CASE a.category = "other" /\ a.legitimate = "no"
    <3>1. Recommendation(a) \in {"block", "message"} /\ Factor(a) = "minus"
      BY <2>5 DEF Recommendation, Factor
    <3>2. Recommendation(a) = "block" => a.confidence = "high"
      BY <2>5 DEF Recommendation
    <3> QED BY <2>1, <2>2, <2>5, <3>1, <3>2 DEF Trust
  <2>6. CASE a.category = "other" /\ a.legitimate = "null"
    <3>1. Recommendation(a) = "message" /\ Factor(a) = "none"
      BY <2>6 DEF Recommendation, Factor
    <3> QED BY <3>1 DEF Trust
  <2> QED BY <2>1, <2>3, <2>4, <2>5, <2>6
<1> QED BY <1>1, <1>2

LEMMA OutcomeJudged ==
    ASSUME NEW k, Given(k.answer)
    PROVE  LET o == Outcome(k)
           IN  /\ o.trust = "raised" =>
                     /\ o.recommendation = "block"
                     /\ \E a \in Answers : a.category = "scam" /\ a.confidence = "bad"
               /\ o.recommendation = "forward" => o.trust = "raise"
               /\ o.recommendation = "block" /\ o.trust = "raise" =>
                     \E a \in Answers : a.category = "scam" /\ a.confidence = "negative"
<1>1. /\ Outcome(k).trust = Trust(k.answer)
      /\ Outcome(k).recommendation = Recommendation(k.answer)
  BY DEF Outcome
<1>2. k.answer.category = "scam" => k.answer \in Answers
  BY GivenAnswer DEF NoAnswer
<1> QED BY <1>1, <1>2, Judged

\* A result is made of what its conversation holds, the others are kept.
LEMMA GroundedKept ==
    ASSUME Grounded, conv \in [Starts -> Conversation],
           \A i \in Starts : Given(conv'[i].answer),
           \A i \in Starts : \/ result'[i] = result[i]
                             \/ \E k : Given(k.answer) /\ result'[i] = Outcome(k)
    PROVE  Grounded'
<1>1. ASSUME NEW i \in Starts, result'[i] # NoResult
      PROVE  /\ result'[i].trust = "raised" =>
                   /\ result'[i].recommendation = "block"
                   /\ \E a \in Answers : a.category = "scam" /\ a.confidence = "bad"
             /\ result'[i].recommendation = "forward" => result'[i].trust = "raise"
             /\ result'[i].recommendation = "block" /\ result'[i].trust = "raise" =>
                   \E a \in Answers : a.category = "scam" /\ a.confidence = "negative"
  <2>1. CASE result'[i] = result[i]
    BY <1>1, <2>1 DEF Grounded, RaisesOnlyForScams, RewardsOnlyNegative
  <2>2. CASE \E k : Given(k.answer) /\ result'[i] = Outcome(k)
    BY <1>1, <2>2, OutcomeJudged
  <2> QED BY <2>1, <2>2
<1> QED BY <1>1 DEF Grounded, RaisesOnlyForScams, RewardsOnlyNegative

LEMMA GroundedStep == ASSUME IInv, Grounded, [Next]_vars PROVE Grounded'
<1>1. /\ conv \in [Starts -> Conversation] /\ result \in [Starts -> Results \cup {NoResult}]
      /\ current \in 0..started /\ started \in 0..MaxStarts
      /\ task \in [Tasks -> [wait : Waits, of : 0..started]]
      /\ \A i \in Starts : Given(conv[i].answer)
  BY DEF IInv, TypeOK, Grounded
<1>2. CASE UNCHANGED <<conv, result>>
  BY <1>2 DEF Grounded, RaisesOnlyForScams, RewardsOnlyNegative
<1>3. CASE Start
  BY <1>2, <1>3 DEF Start
<1>4. ASSUME NEW t \in Tasks, Hear(t) \/ Reply(t) PROVE Grounded'
  <2>1. /\ UNCHANGED result
        /\ \E i : \/ conv' = [conv EXCEPT ![i].exchanges = @ + 1]
                  \/ conv' = [conv EXCEPT ![i].replied = @ + 1]
    BY <1>4 DEF Hear, Reply, Farewell, Classify
  <2>2. \A i \in Starts : conv'[i].answer = conv[i].answer
    BY <1>1, <2>1 DEF Conversation
  <2> QED BY <1>1, <2>1, <2>2, GroundedKept
<1>5. ASSUME NEW t \in Tasks, End(t) PROVE Grounded'
  <2>1. /\ UNCHANGED conv
        /\ \/ UNCHANGED result
           \/ result' = [result EXCEPT ![current] = Outcome(conv[current])]
    BY <1>5 DEF End, Classify
  <2>2. current \in Starts
    BY <1>1, <1>5, ScreeningAssumption DEF End, Starts
  <2>3. \A i \in Starts : result'[i] = result[i] \/ result'[i] = Outcome(conv[i])
    BY <1>1, <2>1, <2>2
  <2> QED BY <1>1, <2>1, <2>3, GroundedKept
<1>6. ASSUME NEW t \in Tasks, NEW a \in Answers \cup {Failed},
             FarewellClassified(t, a) \/ EndClassified(t, a)
      PROVE  Grounded'
  <2> DEFINE i == task[t].of
  <2>1. /\ conv' = [conv EXCEPT ![i].classified = TRUE, ![i].answer = Understood(a)]
        /\ UNCHANGED result \/ result' = [result EXCEPT ![i] = Outcome(conv'[i])]
    BY <1>6 DEF FarewellClassified, EndClassified, Learn
  <2>2. \A j \in Starts : Given(conv'[j].answer)
    <3> SUFFICES ASSUME NEW j \in Starts PROVE Given(conv'[j].answer)
      OBVIOUS
    <3>1. conv'[j].answer = conv[j].answer \/ conv'[j].answer = Understood(a)
      BY <1>1, <2>1 DEF Conversation
    <3> QED BY <1>1, <1>6, <3>1 DEF Given
  <2>3. \A j \in Starts : result'[j] = result[j] \/ result'[j] = Outcome(conv'[j])
    BY <1>1, <2>1
  <2> QED BY <1>1, <2>2, <2>3, GroundedKept
<1> QED BY <1>2, <1>3, <1>4, <1>5, <1>6 DEF Next, vars

LEMMA GroundedInvariance == Spec => []Grounded
<1>1. Init => Grounded
  BY DEF Init, Grounded, RaisesOnlyForScams, RewardsOnlyNegative, Given
<1>2. IInv /\ Grounded /\ [Next]_vars => Grounded'
  BY GroundedStep
<1> QED BY <1>1, <1>2, Invariance, PTL DEF Spec

\* end_screening fails to return a result (the TypeError of
\* _compute_trust_adjustment, screening.py:289) only for a scam whose confidence is
\* not a number, and then it is a recommendation to block that is lost.
THEOREM OnlyScamsRaise == Spec => []RaisesOnlyForScams
<1>1. Grounded => RaisesOnlyForScams
  BY DEF Grounded
<1> QED BY <1>1, GroundedInvariance, PTL

\* So its docstring (screening.py:179-180) holds as long as the LLM gives every
\* scam a confidence that is a number, whatever its other answers are.
THEOREM EndReturns ==
    ASSUME \A a \in Answers : a.category = "scam" => a.confidence # "bad"
    PROVE  Spec => []EndReturnsResult
<1>1. RaisesOnlyForScams => EndReturnsResult
  BY DEF RaisesOnlyForScams, EndReturnsResult
<1> QED BY <1>1, OnlyScamsRaise, PTL

\* The trust adjustment of a result contradicts its recommendation only if the LLM
\* gives a scam a negative confidence, which nothing excludes (screening.py:
\* 278-297): then a caller who is to be blocked is trusted more.  Who is to be
\* forwarded always is, whatever tasks overlapped.
THEOREM OnlyNegativeRewards == Spec => []RewardsOnlyNegative
<1>1. Grounded => RewardsOnlyNegative
  BY DEF Grounded
<1> QED BY <1>1, GroundedInvariance, PTL

-----------------------------------------------------------------------------
(* When the methods of a call do not overlap.                              *)

NoneOverlap == \A i \in Starts : ~overlap[i]

LEMMA AloneStep ==
    ASSUME IInv, NoneOverlap, [Next]_vars, \A t, u \in Tasks : t = u
    PROVE  NoneOverlap'
<1>1. CASE UNCHANGED overlap
  BY <1>1 DEF NoneOverlap
<1>2. ASSUME NEW t \in Tasks, NEW i, NEW w, Classify(t, i, w),
             task[t].wait \notin {"farewell", "end"}
      PROVE  NoneOverlap'
  <2>1. ~Classifying(i)
    BY <1>2 DEF Classifying
  <2>2. overlap' = [overlap EXCEPT ![i] = @ \/ Classifying(i)]
    BY <1>2 DEF Classify
  <2>3. overlap \in [Starts -> BOOLEAN]
    BY DEF IInv, TypeOK
  <2> QED BY <2>1, <2>2, <2>3 DEF NoneOverlap
<1>3. ASSUME NEW t \in Tasks, NEW i, Farewell(t, i), task[t].wait \notin {"farewell", "end"}
      PROVE  NoneOverlap'
  BY <1>1, <1>2, <1>3 DEF Farewell
<1>4. ASSUME NEW t \in Tasks, Hear(t) \/ End(t) PROVE NoneOverlap'
  <2>1. task[t].wait \notin {"farewell", "end"}
    BY <1>4 DEF Hear, End, Idle
  <2> QED BY <1>1, <1>2, <1>3, <1>4, <2>1 DEF Hear, End
<1>5. ASSUME NEW t \in Tasks, Reply(t) PROVE NoneOverlap'
  BY <1>1, <1>3, <1>5 DEF Reply
<1> QED BY <1>1, <1>4, <1>5 DEF Next, vars, Start, FarewellClassified, EndClassified

\* If the methods of a call run one after the other, the caller is told what the
\* result says, whatever the LLM answers: only overlapping methods can make
\* them differ (screening.py:219-257).
THEOREM OneAtATimeAgrees ==
    ASSUME \A t, u \in Tasks : t = u
    PROVE  Spec => [](\A i \in Starts : result[i] # NoResult =>
                          farewells[i] \subseteq {result[i].recommendation})
<1>1. Init => NoneOverlap
  BY DEF Init, NoneOverlap
<1>2. IInv /\ NoneOverlap /\ [Next]_vars => NoneOverlap'
  BY AloneStep
<1>3. FarewellIsResult /\ NoneOverlap =>
          \A i \in Starts : result[i] # NoResult =>
              farewells[i] \subseteq {result[i].recommendation}
  BY DEF FarewellIsResult, NoneOverlap
<1> QED BY <1>1, <1>2, <1>3, Invariance, FarewellsAgree, PTL DEF Spec
=============================================================================
