------------------------------ MODULE Scoring -------------------------------
(***************************************************************************)
(* Risk scoring and the simulation of a reassignment: workforce_risk/scoring *)
(* (overload.py, family.py, confidence.py), simulation/candidates.py and     *)
(* service.py, and the scoring tools of the MCP server.                      *)
(*                                                                         *)
(* A score is computed from the factors that have a value and evidence.  A   *)
(* version of the rules belongs to one family: overload, which has factors   *)
(* it cannot do without, no protective ones and a tool that refuses a        *)
(* correlation id it has seen, or one of the other two, which are scored     *)
(* alike.  Scores are computed while the situation changes, each with the    *)
(* rules in the configuration file at that time; a simulation puts two of    *)
(* them side by side.  Weights are hundredths, and the coverage is their     *)
(* exact sum.                                                                *)
(***************************************************************************)
EXTENDS Integers, FiniteSets, Functions

CONSTANTS Factors,
          Rules,       \* version |-> [overload, weights, caps, protective, mandatory]
          MaxValue,    \* bound: the raw value of a factor
          CorrelationIds

ASSUME ScoringAssumption ==
    /\ IsFiniteSet(Factors) /\ MaxValue \in Nat
    /\ \A v \in DOMAIN Rules :
           /\ Rules[v].weights \in [Factors -> 1 .. 100]
           /\ Rules[v].caps \in [Factors -> Nat \ {0}]
           /\ Rules[v].overload \in BOOLEAN
           /\ Rules[v].protective \subseteq Factors /\ Rules[v].mandatory \subseteq Factors
           /\ IF Rules[v].overload THEN Rules[v].protective = {} ELSE Rules[v].mandatory = {}
           /\ SumFunction(Rules[v].weights) = 100

VARIABLES values,   \* each factor's value, or NoValue: unknown or without evidence
          fresh,    \* the evidence is not older than max_evidence_age_hours
          rules,    \* the version in the configuration file
          used,     \* _correlations
          scoredNow,   \* the score of the situation as it is
          scoredMoved, \* the score with the work reassigned
          simulation

ovars == <<values, fresh, rules, used, scoredNow, scoredMoved, simulation>>

NoValue == -1

NoResult == [score |-> NoValue, confidence |-> "none"]

ScoringInit ==
    /\ values = [f \in Factors |-> 0]
    /\ fresh = TRUE
    /\ rules \in DOMAIN Rules
    /\ used = {}
    /\ scoredNow = NoResult /\ scoredMoved = NoResult /\ simulation = <<>>

----------------------------------------------------------------------------
(* overload.py, family.py, common.py, confidence.py.                          *)

Usable(vals) == {f \in Factors : vals[f] # NoValue}

\* A factor without a value is left out of the sums.
Counted(vals, term) == [f \in Factors |-> IF f \in Usable(vals) THEN term[f] ELSE 0]

Coverage(vals, r) == SumFunction(Counted(vals, r.weights))

Confidence_Lax(coverage) ==
    IF coverage >= 70 THEN "high" ELSE IF coverage >= 75 THEN "medium"
    ELSE IF coverage >= 60 THEN "low" ELSE "insufficient-data"

Confidence(coverage) ==
    IF coverage >= 90 THEN "high" ELSE IF coverage >= 75 THEN "medium"
    ELSE IF coverage >= 60 THEN "low" ELSE "insufficient-data"

Capped(value, cap) == IF value < cap THEN value ELSE cap

\* The points of a factor, in thousandths: its capped share, or what is left of it for
\* one that protects, times its weight.
Points_IgnoresDirection(vals, r, f) == (r.weights[f] * 1000 * Capped(vals[f], r.caps[f])) \div r.caps[f]

Points(vals, r, f) ==
    LET share == Capped(vals[f], r.caps[f])
    IN (r.weights[f] * 1000
           * (IF f \in r.protective THEN r.caps[f] - share ELSE share)) \div r.caps[f]

\* round(): to the nearest, and to the even one of two.
Rounded(thousandths) ==
    LET whole == thousandths \div 1000
        rest == thousandths % 1000
    IN IF rest > 500 \/ (rest = 500 /\ whole % 2 = 1) THEN whole + 1 ELSE whole

risk_level_for_score_Drifted(score) ==
    IF score <= 29 THEN "low" ELSE IF score <= 54 THEN "medium"
    ELSE IF score <= 69 THEN "high" ELSE "critical"

risk_level_for_score(score) ==
    IF score <= 29 THEN "low" ELSE IF score <= 54 THEN "medium"
    ELSE IF score <= 74 THEN "high" ELSE "critical"

Insufficient(version) ==
    [score |-> NoValue, confidence |-> "insufficient-data", version |-> version]

Score(vals, isFresh, version) ==
    LET r == Rules[version]
        confidence == Confidence(Coverage(vals, r))
        points == [f \in Factors |-> Points(vals, r, f)]
        score == Rounded(SumFunction(Counted(vals, points)))
    IN IF ~isFresh \/ ~(r.mandatory \subseteq Usable(vals))
          \/ confidence = "insufficient-data"
       THEN Insufficient(version)
       ELSE [score |-> score, confidence |-> confidence,
             level |-> risk_level_for_score(score), version |-> version]

----------------------------------------------------------------------------
(* The tools.  The overload tool takes the correlation id before it computes the  *)
(* score, for good: it fails for an id that was used, whether or not its answer      *)
(* arrived.                                                                     *)

Correlated(id) ==
    IF Rules[rules].overload THEN id \notin used /\ used' = used \cup {id}
    ELSE used' = used

ScoreTool(id, result) ==
    /\ Correlated(id)
    /\ result' = Score(values, fresh, rules)

ScoreCurrent(id) ==
    /\ ScoreTool(id, scoredNow)
    /\ simulation' = <<>>
    /\ UNCHANGED <<values, fresh, rules, scoredMoved>>

ScoreProposed(id) ==
    /\ ScoreTool(id, scoredMoved)
    /\ simulation' = <<>>
    /\ UNCHANGED <<values, fresh, rules, scoredNow>>

\* The answer is lost, or loading the configuration fails.
AnswerIsLost(id) ==
    /\ Rules[rules].overload /\ Correlated(id)
    /\ UNCHANGED <<values, fresh, rules, scoredNow, scoredMoved, simulation>>

\* assess_candidate.
EligibleResult(result) ==
    /\ result.score # NoValue
    /\ result.confidence \in {"medium", "high"}
    /\ Rules[result.version].overload => result.score < 75

same_scoring_rules(a, b) == a.version = b.version

\* simulate_reassignment.
Simulate ==
    /\ scoredNow # NoResult /\ scoredMoved # NoResult
    /\ EligibleResult(scoredMoved) /\ same_scoring_rules(scoredNow, scoredMoved)
    /\ simulation' = <<scoredNow, scoredMoved>>
    /\ UNCHANGED <<values, fresh, rules, used, scoredNow, scoredMoved>>

\* Work is planned, done or reassigned; evidence appears, is lost or goes stale.
SituationChanges ==
    /\ \/ /\ \E f \in Factors, v \in {NoValue} \cup 0 .. MaxValue : values' = [values EXCEPT ![f] = v]
          /\ UNCHANGED fresh
       \/ fresh' = ~fresh /\ UNCHANGED values
    /\ UNCHANGED <<rules, used, scoredNow, scoredMoved, simulation>>

\* A deployment replaces the configuration file, which every call reads again.
ConfigurationChanges(version) ==
    /\ version # rules /\ Rules[version].overload = Rules[rules].overload
    /\ rules' = version
    /\ UNCHANGED <<values, fresh, used, scoredNow, scoredMoved, simulation>>

ScoringNext ==
    \/ \E id \in CorrelationIds : ScoreCurrent(id) \/ ScoreProposed(id) \/ AnswerIsLost(id)
    \/ Simulate \/ SituationChanges
    \/ \E version \in DOMAIN Rules : ConfigurationChanges(version)

ScoringSpec == ScoringInit /\ [][ScoringNext]_ovars

----------------------------------------------------------------------------
(* Properties.                                                              *)

HasScore == Score(values, fresh, rules).score # NoValue

\* While the same evidence is there, a situation in which no factor that raises the
\* risk falls and none that lowers it rises never scores lower: caps, protective
\* factors and rounding do not turn the order around.
FollowsTheSituation ==
    LET r == Rules[rules] IN
    /\ values' # values /\ HasScore /\ rules' = rules /\ fresh' = fresh
    /\ Usable(values') = Usable(values)
    /\ \A f \in Factors : IF f \in r.protective THEN values'[f] <= values[f]
                          ELSE values'[f] >= values[f]
    => Score(values', fresh', rules').score >= Score(values, fresh, rules).score

ScoreFollowsTheSituation == [][FollowsTheSituation]_ovars

\* What evidence is missing could change a score by as much as its confidence says and
\* no more: 10 points when it is high, 25 when medium, 40 when low (one more for the
\* rounding), and never downwards.
GapsAreWithinConfidence ==
    Usable(values) # Factors /\ HasScore =>
        LET result == Score(values, fresh, rules)
            margin == CASE result.confidence = "high" -> 11
                        [] result.confidence = "medium" -> 26
                        [] result.confidence = "low" -> 41
        IN \A v \in {0, MaxValue} :
              LET whole == [f \in Factors |-> IF values[f] = NoValue THEN v ELSE values[f]]
                  complete == Score(whole, fresh, rules).score
              IN result.score <= complete /\ complete <= result.score + margin

\* A simulation compares like with like, and never proposes an assignment that makes
\* the candidate critical: the limit of the candidates, a number of its own, agrees
\* with that of the levels, and no new configuration between the two scores slips through.
SimulationsAreSound ==
    simulation # <<>> =>
        /\ simulation[1].version = simulation[2].version
        /\ Rules[simulation[2].version].overload => simulation[2].level # "critical"
        /\ simulation[2].confidence # "low"
=============================================================================
