------------------------------ MODULE TrustScore ------------------------------
(***************************************************************************)
(* The composite trust score of a number (intelligence/trust_score.py): a  *)
(* weighted mean of the signals that are present.  Weights are in          *)
(* hundredths and scores in ten-thousandths, the precision calculate_      *)
(* trust_score rounds to; Python rounds a tie to the even neighbour and    *)
(* Rounded up, so a score may differ in its last digit.                    *)
(***************************************************************************)
EXTENDS Integers

CONSTANT None  \* a signal that is absent
ASSUME NoneAssumption == None \notin Int /\ None \notin BOOLEAN

Full == 10000
Neutral == 5000

StirValues == {"A", "B", "C", "failed", "unknown"}
LineTypes == {"landline", "mobile", "voip", "unknown"}

\* NumberIntelResult and the other arguments of calculate_trust_score;
\* carrier: whether the name that is present is not empty; cnam: whether the
\* text that is present is not blank.
Signals == [stir      : StirValues \cup {None},
            line      : LineTypes \cup {None},
            carrier   : BOOLEAN \cup {None},
            cnam      : BOOLEAN \cup {None},
            hit       : BOOLEAN \cup {None},
            community : (0 .. Full) \cup {None},
            ftc       : Nat \cup {None},
            medical   : BOOLEAN \cup {None},
            calls     : Nat,
            history   : BOOLEAN]

NoSignals == [stir |-> None, line |-> None, carrier |-> None, cnam |-> None,
              hit |-> None, community |-> None, ftc |-> None, medical |-> None,
              calls |-> 0, history |-> FALSE]

StirScore(stir) ==
    CASE stir = None     -> None
      [] stir = "A"      -> 10000
      [] stir = "B"      -> 7000
      [] stir = "C"      -> 4000
      [] stir = "failed" -> 1000
      [] OTHER           -> Neutral

LineScore(line) ==
    CASE line = "landline" -> 8000
      [] line = "mobile"   -> 6000
      [] line = "voip"     -> 3000
      [] OTHER             -> Neutral

\* None of the line scores reaches 1.0 - 0.1, so the cap of the bonus is idle.
CarrierScore(carrier, line) ==
    IF carrier = None /\ line = None THEN None
    ELSE LineScore(line) + (IF carrier = TRUE THEN 1000 ELSE 0)

CnamScore(cnam) == IF cnam = None THEN None ELSE IF cnam THEN 8000 ELSE 3000

BlocklistScore(hit) == IF hit = None THEN None ELSE IF hit THEN 0 ELSE 9000

FtcScore(count) ==
    CASE count = None -> None
      [] count = 0    -> 9000
      [] OTHER        -> IF count <= 2 THEN 6000
                         ELSE IF count <= 5 THEN 3000
                         ELSE IF count <= 10 THEN 1000 ELSE 0

MedicalScore(medical) ==
    IF medical = None THEN None ELSE IF medical THEN 10000 ELSE Neutral

HistoryScore(calls, history) ==
    IF history \/ calls >= 3 THEN 7000 ELSE IF calls >= 1 THEN 6000 ELSE None

\* What a present signal adds to weighted_sum and to weight_total.
Part(weight, score) == IF score = None THEN 0 ELSE weight * score
Weight(weight, score) == IF score = None THEN 0 ELSE weight

WeightedSum(s) == Part(20, StirScore(s.stir))
                + Part(12, CarrierScore(s.carrier, s.line))
                + Part(8, CnamScore(s.cnam))
                + Part(15, BlocklistScore(s.hit))
                + Part(15, s.community)
                + Part(15, FtcScore(s.ftc))
                + Part(10, MedicalScore(s.medical))
                + Part(5, HistoryScore(s.calls, s.history))

WeightTotal(s) == Weight(20, StirScore(s.stir))
                + Weight(12, CarrierScore(s.carrier, s.line))
                + Weight(8, CnamScore(s.cnam))
                + Weight(15, BlocklistScore(s.hit))
                + Weight(15, s.community)
                + Weight(15, FtcScore(s.ftc))
                + Weight(10, MedicalScore(s.medical))
                + Weight(5, HistoryScore(s.calls, s.history))

Rounded(sum, total) == (2 * sum + total) \div (2 * total)

TrustScoreOf(s) == IF WeightTotal(s) = 0 THEN Neutral
                   ELSE Rounded(WeightedSum(s), WeightTotal(s))

\* get_community_score, from the numbers of bad and legitimate reports.
MIN_REPORTS_FOR_SCORE == 3
CommunityScore(bad, good) ==
    IF bad + good < MIN_REPORTS_FOR_SCORE THEN None
    ELSE Rounded(Full * good, bad + good)
=============================================================================
