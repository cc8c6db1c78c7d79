------------------------ MODULE CalibrationEstimator ------------------------
(***************************************************************************)
(* The arithmetic of a calibration: calibration_estimator.py and the       *)
(* functions of calibration.py that read a finished profile.               *)
(*                                                                         *)
(* Percentages are whole units from 0 to Full (the code's 0.0 to 100.0),   *)
(* so an interpolated threshold is rounded down to a unit.  An attempt is  *)
(* a record [valid, error, stop]: whether it may be learned from, where    *)
(* the gate came to rest relative to the target, and the stop threshold    *)
(* corrected by it.  Its number is its place in the sequence.              *)
(***************************************************************************)
EXTENDS Integers, FiniteSets, Sequences

CONSTANTS
    Full,       \* 100 percent
    Tolerance,  \* CALIBRATION_TARGET_TOLERANCE_PERCENT
    Outlier,    \* CALIBRATION_OUTLIER_ERROR_PERCENT
    Stability   \* CALIBRATION_STABILITY_ATTEMPTS

ASSUME EstimatorAssumption ==
    /\ {Full, Tolerance, Outlier} \subseteq Nat
    /\ Full > 0
    /\ Tolerance <= Outlier
    /\ Stability \in Nat \ {0}

Missing == -1  \* None where a percentage is expected
Unusable == 10 * Full  \* the error of an attempt without one: 1000 percent

Attempts == Seq([valid : BOOLEAN, error : Int, stop : 0 .. Full])

-----------------------------------------------------------------------------
Distance(n) == IF n < 0 THEN -n ELSE n

\* calibration_attempt_abs_error
AbsError(attempt) ==
    IF attempt.valid THEN Distance(attempt.error) ELSE Unusable

\* calibration_attempt_successful
Successful(attempt) == attempt.valid /\ AbsError(attempt) <= Tolerance

\* The attempts a window of Stability of them covers, from its first one.
Window(start) == start .. start + Stability - 1

\* Every window of consecutive successful attempts.
StableWindows(attempts) ==
    {start \in 1 .. Len(attempts) - Stability + 1 :
        \A i \in Window(start) : Successful(attempts[i])}

\* calibration_attempts_stable
AttemptsStable(attempts) == StableWindows(attempts) # {}

\* The summed error of a window: the code divides it by a fixed length.
WindowError(attempts, start) ==
    LET SumTo[i \in 0 .. Stability] ==
            IF i = 0 THEN 0 ELSE SumTo[i - 1] + AbsError(attempts[start + i - 1])
    IN  SumTo[Stability]

\* The window of least error, the latest of several.
BestWindow(attempts) ==
    CHOOSE best \in StableWindows(attempts) :
        \A start \in StableWindows(attempts) :
            \/ WindowError(attempts, best) < WindowError(attempts, start)
            \/ /\ WindowError(attempts, best) = WindowError(attempts, start)
               /\ start <= best

\* Fault: the first attempt of the list is taken, not the best.
FirstOf(attempts, candidates) ==
    CHOOSE best \in candidates : \A i \in candidates : best <= i

\* Python's min(): the first of the least errors.
BestOf(attempts, candidates) ==
    CHOOSE best \in candidates :
        \A i \in candidates :
            \/ AbsError(attempts[best]) < AbsError(attempts[i])
            \/ /\ AbsError(attempts[best]) = AbsError(attempts[i])
               /\ best <= i

ValidOnes(attempts) == {i \in 1 .. Len(attempts) : attempts[i].valid}

NonOutliers(attempts) ==
    {i \in ValidOnes(attempts) : AbsError(attempts[i]) <= Outlier}

\* select_calibration_sample, for at least one attempt
Select(attempts) ==
    IF AttemptsStable(attempts)
    THEN [strategy |-> "stable_window",
          chosen |-> BestOf(attempts, Window(BestWindow(attempts)))]
    ELSE IF NonOutliers(attempts) # {}
    THEN [strategy |-> "best_non_outlier_attempt",
          chosen |-> BestOf(attempts, NonOutliers(attempts))]
    ELSE IF ValidOnes(attempts) # {}
    THEN [strategy |-> "best_attempt",
          chosen |-> BestOf(attempts, ValidOnes(attempts))]
    ELSE [strategy |-> "no_valid_attempt", chosen |-> Len(attempts)]

\* The payload a builder stores for a target.
Sample(target, attempts) ==
    LET selection == Select(attempts)
        attempt == attempts[selection.chosen]
    IN  [target |-> target, strategy |-> selection.strategy,
         valid |-> attempt.valid, error |-> AbsError(attempt),
         stop |-> attempt.stop]

-----------------------------------------------------------------------------
\* median_time_travel_duration_ms: the upper median of a non-empty sequence
Median(durations) ==
    LET below(i) == {j \in DOMAIN durations :
                        \/ durations[j] < durations[i]
                        \/ durations[j] = durations[i] /\ j < i}
        middle == CHOOSE i \in DOMAIN durations :
                        Cardinality(below(i)) = Len(durations) \div 2
    IN  durations[middle]

-----------------------------------------------------------------------------
Clamp(percent) ==
    IF percent < 0 THEN 0 ELSE IF percent > Full THEN Full ELSE percent

Ends == {[target |-> 0, stop |-> 0], [target |-> Full, stop |-> Full]}

\* Fault: an outlier is learned like any other sample.
LearnedWithOutliers(samples) ==
    {[target |-> s.target, stop |-> s.stop] :
        s \in {x \in samples : x.valid /\ x.strategy # "no_valid_attempt"}}

\* The points _calibrated_stop_percent keeps of a direction's samples.
Learned(samples) ==
    {[target |-> s.target, stop |-> s.stop] :
        s \in {x \in samples :
                 /\ x.valid
                 /\ x.strategy # "no_valid_attempt"
                 /\ x.error <= Outlier}}

\* interpolate_stop_percent, between the neighbours of the target
Interpolate(target, points) ==
    LET above == CHOOSE p \in points :
                    /\ target <= p.target
                    /\ \A q \in points : target <= q.target => p.target <= q.target
        below == CHOOSE p \in points :
                    /\ p.target < target
                    /\ \A q \in points : q.target < target => q.target <= p.target
    IN  Clamp(below.stop + ((above.stop - below.stop) * (target - below.target))
                                \div (above.target - below.target))

\* _calibrated_stop_percent, for a target that is not an end
CalibratedStop(target, samples) ==
    IF Learned(samples) = {}
    THEN Missing
    ELSE Interpolate(target, Ends \cup Learned(samples))
=============================================================================
