------------------------------- MODULE Learning -------------------------------
(***************************************************************************)
(* The learning half of the coordinator: what route_request and            *)
(* submit_request do with the feature pipeline, the classifier and the     *)
(* forecaster, the forecaster's loop, and the drift detection of the       *)
(* feedback optimizer's check (coordinator/feedback/optimizer.py), in the  *)
(* routing modes that have them (coordinator/main.py).                     *)
(***************************************************************************)
EXTENDS FeaturePipeline, Classifier, Forecaster

CONSTANTS
    ForecastTicks,      \* the forecaster's interval, in ticks
    CheckTicks,         \* the optimizer's
    AccuracyThreshold,  \* drift_accuracy_threshold, in thousandths
    MaxRequests,        \* bound: how many requests are submitted
    MaxAlerts           \* bound: how far drift alerts are counted

ASSUME LearningAssumption ==
    /\ {ForecastTicks, CheckTicks} \subseteq Nat \ {0}
    /\ {AccuracyThreshold, MaxRequests, MaxAlerts} \subseteq Nat
    /\ MaxAlerts > 1   \* else a second alert would not be seen

VARIABLES
    mode,           \* ROUTING_MODE
    submitted,      \* how many requests were submitted
    forecastWait,   \* what is left of the forecaster's sleep
    checkWait,      \* and of the optimizer's
    driftDetected,  \* the optimizer's _drift_detected
    driftAlerts,    \* how many drift alerts it has raised
    accuracyAlert   \* whether it has raised an accuracy alert

loopVars == <<forecastWait, checkWait, driftDetected, driftAlerts, accuracyAlert>>
learningVars == <<featureVars, classifierVars, forecasterVars, mode, submitted, loopVars>>

HasClassifier == mode \in {"predictive", "ablation_classifier_only"}
HasForecaster == mode \in {"predictive", "ablation_forecaster_only"}

Init ==
    /\ mode \in {"predictive", "ablation_classifier_only", "ablation_forecaster_only"}
    /\ FeatureInit /\ ClassifierInit /\ ForecasterInit
    /\ ~HasClassifier => ~loaded
    /\ ~HasForecaster => ~gru
    /\ submitted = 0
    /\ forecastWait = 0 /\ checkWait = 0
    /\ driftDetected = FALSE /\ driftAlerts = 0 /\ accuracyAlert = FALSE

\* The classes route_request may give a request of which heuristic_classify, the
\* rule of thumb, says "rule".
Predicted(rule) == IF HasClassifier THEN Classes(rule) ELSE {rule}

\* submit_request records the outcome as predicted; nothing corrects it when the
\* node is done.
RecordPrediction(class) ==
    IF HasClassifier THEN RecordOutcome(class, class, Features(0, 0)) ELSE UNCHANGED classifierVars

\* A request is routed and recorded.
Submit(rule) ==
    /\ submitted < MaxRequests
    /\ submitted' = submitted + 1
    /\ Extract
    /\ \E class \in Predicted(rule) :
          /\ IF class = "Heavy" /\ HasForecaster THEN RecordHeavyRequest ELSE UNCHANGED heavyCount
          /\ RecordPrediction(class)
    /\ UNCHANGED <<gru, points, prediction, burst, daaBurst, mode, loopVars>>

\* The forecaster's loop.
Forecast ==
    /\ HasForecaster /\ forecastWait = 0
    /\ ForecastCycle
    /\ forecastWait' = ForecastTicks
    /\ UNCHANGED <<featureVars, classifierVars, mode, submitted, checkWait, driftDetected,
                   driftAlerts, accuracyAlert>>

Alert == driftAlerts' = IF driftAlerts < MaxAlerts THEN driftAlerts + 1 ELSE driftAlerts

\* Broken variant of Check: the drift is not remembered.
CheckForgets ==
    /\ checkWait = 0
    /\ checkWait' = CheckTicks
    /\ IF HasClassifier /\ DriftDetected THEN Alert ELSE UNCHANGED driftAlerts
    /\ UNCHANGED <<featureVars, classifierVars, forecasterVars, mode, submitted, forecastWait,
                   driftDetected, accuracyAlert>>

\* The optimizer's check, as far as it is about drift.
Check ==
    /\ checkWait = 0
    /\ checkWait' = CheckTicks
    /\ IF HasClassifier
       THEN /\ driftDetected' = DriftDetected
            /\ IF DriftDetected /\ ~driftDetected THEN Alert ELSE UNCHANGED driftAlerts
            /\ accuracyAlert' = (accuracyAlert \/ RollingAccuracy < AccuracyThreshold)
       ELSE UNCHANGED <<driftDetected, driftAlerts, accuracyAlert>>
    /\ UNCHANGED <<featureVars, classifierVars, forecasterVars, mode, submitted, forecastWait>>

Tick ==
    /\ checkWait > 0 /\ (HasForecaster => forecastWait > 0)
    /\ checkWait' = checkWait - 1
    /\ forecastWait' = IF HasForecaster THEN forecastWait - 1 ELSE 0
    /\ WindowSlides
    /\ UNCHANGED <<countEma, totalRequests, classifierVars, forecasterVars, mode, submitted,
                   driftDetected, driftAlerts, accuracyAlert>>

Next ==
    \/ \E rule \in Class : Submit(rule)
    \/ Forecast \/ Check \/ Tick

\* The loops' sleeps end; requests need not come.
Fairness == WF_learningVars(Forecast) /\ WF_learningVars(Check) /\ WF_learningVars(Tick)

Spec == Init /\ [][Next]_learningVars /\ Fairness

-----------------------------------------------------------------------------
\* The types; without a classifier or a forecaster nothing is recorded for it.
LearningTypeOK ==
    /\ FeatureTypeOK /\ ClassifierTypeOK /\ ForecasterTypeOK
    /\ submitted \in 0..MaxRequests
    /\ forecastWait \in 0..ForecastTicks /\ checkWait \in 0..CheckTicks
    /\ driftDetected \in BOOLEAN /\ driftAlerts \in 0..MaxAlerts /\ accuracyAlert \in BOOLEAN
    /\ ~HasClassifier => samples = <<>>
    /\ ~HasForecaster => points = <<>> /\ heavyCount = 0

\* Which request sample i is of.
NumberOf(i) == submitted - Len(samples) + i

\* The is_burst feature compares a count over time with an average over requests,
\* which moves with every request however fast they come; still a rate that only
\* stays high is not a burst: a request that is flagged has more requests in its window
\* than the one before it, unless the average was not kept yet at that one (the request
\* that ends the warm-up is flagged in any case).
BurstFeatureNeedsRise ==
    \A i \in 1..(Len(samples) - 1) :
        NumberOf(i) >= WarmupRequests /\ samples[i + 1].burst
            => samples[i].requests < samples[i + 1].requests

\* The forecast is smoothed over a window, so it outlives the traffic it was made
\* of while the average it is compared with falls, and a burst may be announced
\* when it is over; predicted without the GRU, the flag goes down for good once the
\* requests end, and the DAA, which is only told of changes, knows.
BurstEnds == [](~gru) => <>[](~burst /\ ~daaBurst)

\* The windows of the classifier slide under a check that comes once in a while: the
\* alert is raised when drift is first found and not at every check after it.
DriftAlertedOnce ==
    /\ driftAlerts <= 1
    /\ driftDetected => driftAlerts = 1

=============================================================================
