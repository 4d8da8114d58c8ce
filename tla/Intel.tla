-------------------------------- MODULE Intel ---------------------------------
(***************************************************************************)
(* What the program knows about telephone numbers: the table number_intel, *)
(* written by lookups (NumberIntelService.get_intel, one request each with *)
(* a transaction of its own) and by the daily task sync_blocklists, which  *)
(* flags the numbers of an external list and those with enough bad reports *)
(* (tasks/scheduled.py, intelligence/community.py).  Transactions read     *)
(* what is committed; a row that one has written stays locked until its    *)
(* end; a second INSERT of a number fails.                                 *)
(***************************************************************************)
EXTENDS Naturals, TrustScore

CONSTANTS Numbers,     \* telephone numbers
          Asked,       \* those the lookups ask for
          Lookups,     \* get_intel calls that may run at once
          Answers,     \* what _run_providers may bring
          Verstats,    \* the StirVerstat values a lookup is given, or None
          Lists,       \* the external lists that may be fetched
          Drivers,     \* whether create_engine finds a synchronous driver
          Earlier,     \* the reports a number may have at the start
          Histories,   \* bound: the reports it may have later
          MaxFaults    \* bound: database errors and lost workers

\* An answer: the fields of NumberIntelResult a provider of this program fills.
Unanswered == [line |-> None, carrier |-> None, cnam |-> None]
AnswerSet == [line    : LineTypes \cup {None},
              carrier : BOOLEAN \cup {None},
              cnam    : BOOLEAN \cup {None}]

ASSUME IntelAssumption ==
    /\ Asked \subseteq Numbers /\ Lists \subseteq SUBSET Numbers
    /\ Answers \subseteq AnswerSet /\ Drivers \subseteq BOOLEAN
    /\ Earlier \subseteq Histories /\ Histories \subseteq [bad : Nat, good : Nat]
    /\ MaxFaults \in Nat

VARIABLES
    reports,     \* reports[n]: the committed reports of each kind
    row,         \* row[n]: the committed row of number_intel
    lookup,      \* lookup[l]: the state of a get_intel call
    job,         \* the sync_blocklists task
    listed,      \* history: numbers an external list has named
    overlapped,  \* history: numbers whose last refresh had read another row
    faults       \* faults so far

vars == <<reports, row, lookup, job, listed, overlapped, faults>>

BLOCKLIST_THRESHOLD == 5

-----------------------------------------------------------------------------
\* NumberIntel; age is last_updated against CACHE_TTL, "absent" without a row.
\* call_count and disposition_history are never written by the program.
NumberIntel == [line    : LineTypes,
                carrier : BOOLEAN \cup {None},
                cnam    : BOOLEAN \cup {None},
                stir    : StirValues \cup {None},
                hit     : BOOLEAN,
                score   : (0 .. Full) \cup {None},
                age     : {"absent", "never", "fresh", "stale"}]
Columns == {"line", "carrier", "cnam", "stir", "hit", "score", "age"}

NewRow == [line |-> "unknown", carrier |-> None, cnam |-> None, stir |-> None,
           hit |-> FALSE, score |-> None, age |-> "never"]
NoRow == [NewRow EXCEPT !.age = "absent"]
Exists(n) == row[n].age # "absent"

Idle == [pc |-> "idle", number |-> None, stir |-> None, base |-> NoRow, mine |-> NoRow]
NoJob == [pc |-> "idle", todo |-> {}, pending |-> None, held |-> {}]

TypeOK ==
    /\ reports \in [Numbers -> Histories]
    /\ row \in [Numbers -> NumberIntel]
    /\ lookup \in [Lookups -> [pc     : {"idle", "ask", "flush", "refused"},
                               number : Asked \cup {None},
                               stir   : StirValues \cup {None},
                               base   : NumberIntel, mine : NumberIntel]]
    /\ job \in [pc      : {"idle", "queued", "list", "count", "community"},
                todo    : SUBSET Numbers,
                pending : [number : Numbers, new : BOOLEAN] \cup {None},
                held    : SUBSET Numbers]
    /\ listed \subseteq Numbers /\ overlapped \subseteq Numbers
    /\ faults \in 0 .. MaxFaults

\* Reports may have come in before; the table is still empty.
Init ==
    /\ reports \in [Numbers -> Earlier]
    /\ row = [n \in Numbers |-> NoRow]
    /\ lookup = [l \in Lookups |-> Idle]
    /\ job = NoJob
    /\ listed = {} /\ overlapped = {}
    /\ faults = 0

-----------------------------------------------------------------------------
\* Reports.

\* create_report: submit_report and its commit; a failure leaves nothing.
Report(n) ==
    /\ \/ reports' = [reports EXCEPT ![n].bad = @ + 1]
       \/ reports' = [reports EXCEPT ![n].good = @ + 1]
    /\ reports'[n] \in Histories
    /\ UNCHANGED <<row, lookup, job, listed, overlapped, faults>>

-----------------------------------------------------------------------------
\* Lookups.

\* parse_stir_verstat
ParseVerstat(verstat) ==
    CASE verstat = None       -> None
      [] verstat = "Passed-A" -> "A"
      [] verstat = "Passed-B" -> "B"
      [] verstat = "Passed-C" -> "C"
      [] verstat = "Failed"   -> "failed"
      [] OTHER                -> "unknown"

\* _merge_results: a field that is None does not replace another.
Preferred(value, default) == IF value # None THEN value ELSE default

SignalsOf(answer, stir) == [NoSignals EXCEPT !.line = answer.line,
                                             !.carrier = answer.carrier,
                                             !.cnam = answer.cnam,
                                             !.stir = stir]

\* The columns _upsert sets in a row.  No answer carries a blocklist hit.
MutantUpsertKeepsLine(base, signals, score) ==
    [base EXCEPT !.carrier = Preferred(signals.carrier, @),
                 !.line = Preferred(signals.line, @),
                 !.score = score, !.age = "fresh"]
Upsert(base, signals, score) ==
    [base EXCEPT !.carrier = Preferred(signals.carrier, @),
                 !.line = Preferred(signals.line, "unknown"),
                 !.cnam = Preferred(signals.cnam, @),
                 !.stir = Preferred(signals.stir, @),
                 !.score = score,
                 !.age = "fresh"]

\* An UPDATE has the columns whose value is no longer the one that was read.
MutantUpdated(stored, base, mine) == mine
Updated(stored, base, mine) ==
    [c \in Columns |-> IF mine[c] # base[c] THEN mine[c] ELSE stored[c]]

\* get_number_intel, for a user who may ask and a number that is one, as far
\* as _get_cached and _is_stale: a fresh row only gets the new attestation.
Ask(l, n, stir) ==
    /\ lookup[l].pc \in {"idle", "refused"}
    /\ LET found == row[n]
           me == [Idle EXCEPT !.number = n, !.stir = stir, !.base = found]
       IN lookup' = [lookup EXCEPT ![l] =
              IF found.age # "fresh" THEN [me EXCEPT !.pc = "ask"]
              ELSE IF stir \in {None, found.stir} THEN Idle
              ELSE [me EXCEPT !.pc = "flush", !.mine = [found EXCEPT !.stir = stir]]]
    /\ UNCHANGED <<reports, row, job, listed, overlapped, faults>>

\* The providers answer or fail, the reports are read, the score is made.
Refresh(l) ==
    /\ lookup[l].pc = "ask"
    /\ \E answer \in Answers :
           LET me == lookup[l]
               signals == [SignalsOf(answer, me.stir) EXCEPT
                              !.community = CommunityScore(reports[me.number].bad,
                                                           reports[me.number].good)]
               base == IF me.base = NoRow THEN NewRow ELSE me.base
           IN lookup' = [lookup EXCEPT ![l].pc = "flush",
                            ![l].mine = Upsert(base, signals, TrustScoreOf(signals))]
    /\ UNCHANGED <<reports, row, job, listed, overlapped, faults>>

\* The INSERT or UPDATE waits until the task lets go of the row; an INSERT that
\* comes second fails, which the endpoint answers with 500.  Nothing follows but
\* the commit by get_db, and no other row is locked: both are one step.
Write(l) ==
    LET me == lookup[l]  n == me.number
    IN /\ me.pc = "flush" /\ n \notin job.held
       /\ IF me.base = NoRow /\ Exists(n)
          THEN /\ lookup' = [lookup EXCEPT ![l] = [Idle EXCEPT !.pc = "refused"]]
               /\ UNCHANGED <<row, overlapped>>
          ELSE /\ row' = [row EXCEPT ![n] = IF me.base = NoRow THEN me.mine
                                           ELSE Updated(@, me.base, me.mine)]
               /\ overlapped' = IF me.base.age = "fresh" THEN overlapped
                                ELSE IF row[n].line = me.base.line /\ row[n].score = me.base.score
                                THEN overlapped \ {n} ELSE overlapped \cup {n}
               /\ lookup' = [lookup EXCEPT ![l] = Idle]
       /\ UNCHANGED <<reports, job, listed, faults>>

\* A statement or the commit fails, or the process ends: all is rolled back.
LookupFails(l) ==
    /\ lookup[l].pc \notin {"idle", "refused"} /\ faults < MaxFaults
    /\ faults' = faults + 1
    /\ lookup' = [lookup EXCEPT ![l] = [Idle EXCEPT !.pc = "refused"]]
    /\ UNCHANGED <<reports, row, job, listed, overlapped>>

\* A day passes since a row was refreshed.
Age(n) ==
    /\ row[n].age = "fresh"
    /\ row' = [row EXCEPT ![n].age = "stale"]
    /\ UNCHANGED <<reports, lookup, job, listed, overlapped, faults>>

-----------------------------------------------------------------------------
\* sync_blocklists.  Each phase is one transaction; the second follows the
\* first however it ended.

\* The beat puts the task into the queue.
Beat ==
    /\ job.pc = "idle"
    /\ job' = [job EXCEPT !.pc = "queued"]
    /\ UNCHANGED <<reports, row, lookup, listed, overlapped, faults>>

\* The list is fetched; an error and an empty list alike mean no first phase,
\* and so does an engine that cannot be created.
Fetch ==
    /\ job.pc = "queued"
    /\ \E list \in Lists \cup {{}}, driver \in Drivers :
           /\ job' = IF list = {} \/ ~ driver THEN [NoJob EXCEPT !.pc = "count"]
                     ELSE [NoJob EXCEPT !.pc = "list", !.todo = list]
           /\ listed' = listed \cup list
    /\ UNCHANGED <<reports, row, lookup, overlapped, faults>>

\* _update_blocklist_entries: UPDATE, and a new object if it matched no row.
ListUpdate(n) ==
    /\ job.pc = "list" /\ job.pending = None /\ n \in job.todo
    /\ \/ /\ Exists(n)
          /\ job' = [job EXCEPT !.todo = @ \ {n}, !.held = @ \cup {n}]
       \/ /\ ~ Exists(n)
          /\ job' = [job EXCEPT !.todo = @ \ {n}, !.pending = [number |-> n, new |-> TRUE]]
    /\ UNCHANGED <<reports, row, lookup, listed, overlapped, faults>>

\* The phase is over: the next one follows, or the task is acknowledged.
MutantAfterPhase == "idle"
AfterPhase == IF job.pc = "list" THEN "count" ELSE "idle"

\* aggregate_blocklist: the numbers with enough bad reports
MutantFlagged == {n \in Numbers : reports[n].bad >= BLOCKLIST_THRESHOLD - 1}
Flagged == {n \in Numbers : reports[n].bad >= BLOCKLIST_THRESHOLD}

CountReports ==
    /\ job.pc = "count"
    /\ job' = IF Flagged = {} THEN NoJob
              ELSE [NoJob EXCEPT !.pc = "community", !.todo = Flagged]
    /\ UNCHANGED <<reports, row, lookup, listed, overlapped, faults>>

\* Each number is looked up; what is to be written waits for the next flush.
SelectFlagged(n) ==
    /\ job.pc = "community" /\ job.pending = None /\ n \in job.todo
    /\ job' = [job EXCEPT !.todo = @ \ {n},
                          !.pending = IF row[n].hit THEN None
                                      ELSE [number |-> n, new |-> ~ Exists(n)]]
    /\ UNCHANGED <<reports, row, lookup, listed, overlapped, faults>>

\* The flush before the next query or the commit; a second INSERT fails, and
\* the phase with it.
FlushPending ==
    /\ job.pending # None
    /\ job' = IF job.pending.new /\ Exists(job.pending.number)
              THEN [NoJob EXCEPT !.pc = AfterPhase]
              ELSE [job EXCEPT !.held = @ \cup {job.pending.number}, !.pending = None]
    /\ UNCHANGED <<reports, row, lookup, listed, overlapped, faults>>

CommitFlags ==
    /\ job.pc \in {"list", "community"} /\ job.pending = None /\ job.todo = {}
    /\ row' = [n \in Numbers |->
                  IF n \notin job.held THEN row[n]
                  ELSE [(IF Exists(n) THEN row[n] ELSE NewRow) EXCEPT !.hit = TRUE]]
    /\ job' = [NoJob EXCEPT !.pc = AfterPhase]
    /\ UNCHANGED <<reports, lookup, listed, overlapped, faults>>

\* A database error ends the phase: it is logged and swallowed.
PhaseFails ==
    /\ job.pc \in {"list", "count", "community"} /\ faults < MaxFaults
    /\ faults' = faults + 1
    /\ job' = [NoJob EXCEPT !.pc = AfterPhase]
    /\ UNCHANGED <<reports, row, lookup, listed, overlapped>>

\* The worker dies.  The task is not acknowledged yet and comes again, unless
\* only the child process died: Celery then acknowledges it as failed.
WorkerLost ==
    /\ job.pc \in {"list", "count", "community"} /\ faults < MaxFaults
    /\ faults' = faults + 1
    /\ \E pc \in {"queued", "idle"} : job' = [NoJob EXCEPT !.pc = pc]
    /\ UNCHANGED <<reports, row, lookup, listed, overlapped>>

-----------------------------------------------------------------------------
LookupStep(l) == Refresh(l) \/ Write(l)
JobStep == \/ Fetch \/ CountReports \/ FlushPending \/ CommitFlags
           \/ \E n \in Numbers : ListUpdate(n) \/ SelectFlagged(n)

Next == \/ \E n \in Numbers : Report(n) \/ Age(n)
        \/ \E l \in Lookups :
               \/ \E n \in Asked, v \in Verstats : Ask(l, n, ParseVerstat(v))
               \/ LookupStep(l) \/ LookupFails(l)
        \/ Beat \/ JobStep \/ PhaseFails \/ WorkerLost

\* The beat comes every day and a worker takes the task; nothing makes anybody
\* report, ask or stay for the answer.
Fairness == WF_vars(Beat \/ JobStep)

Spec == Init /\ [][Next]_vars /\ Fairness

-----------------------------------------------------------------------------
\* A flag that was committed is never cleared again, by a lookup that read the
\* row before it was set and writes it afterwards least of all.
FlagNeverLost == [][\A n \in Numbers : row[n].hit => row'[n].hit]_vars

\* A number is flagged only for a cause: a list named it, or at least as many
\* bad reports as the threshold asks for; legitimate reports do not count.
FlagsHaveCause ==
    \A n \in Numbers : row[n].hit => n \in listed \/ reports[n].bad >= BLOCKLIST_THRESHOLD

\* A refresh may make this line type and this score of the same signals.
Fits(line, score) ==
    \E answer \in Answers, v \in Verstats, h \in Histories :
        /\ line = Preferred(answer.line, "unknown")
        /\ score = TrustScoreOf([SignalsOf(answer, ParseVerstat(v)) EXCEPT
                                    !.community = CommunityScore(h.bad, h.good)])

\* The line type and the score of a row come from one refresh, unless the last
\* one overlapped another of the number: both then write what they changed, and
\* the row is a mixture, until a refresh that overlaps none replaces it
\* (service.py:57-91, 149-191).
RowsAgree ==
    \A n \in Numbers \ overlapped :
        row[n].score # None => Fits(row[n].line, row[n].score)

\* A number with enough bad reports is flagged in the end, although the list
\* may fail every day, the database now and then, and lookups insert the number
\* under the task.
ReportedIsFlagged ==
    \A n \in Numbers : reports[n].bad >= BLOCKLIST_THRESHOLD ~> row[n].hit
=============================================================================
