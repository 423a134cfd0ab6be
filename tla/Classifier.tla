------------------------------ MODULE Classifier ------------------------------
(***************************************************************************)
(* The request classifier (coordinator/ml/classifier.py): what a class may *)
(* be the outcome of, and the two windows by which drift is detected.  The *)
(* model itself is a choice of any class with any confidence, or an error. *)
(***************************************************************************)
EXTENDS Integers, Sequences, FiniteSets, SequencesExt

CONSTANTS
    MinSamples,     \* the samples without which no PSI is computed (100)
    MaxSamples,     \* _feature_buffer_max (1000)
    MaxOutcomes     \* _rolling_window_size (500)

ASSUME ClassifierAssumption ==
    /\ {MinSamples, MaxSamples, MaxOutcomes} \subseteq Nat \ {0}
    /\ MinSamples <= MaxSamples

VARIABLES
    loaded,         \* _loaded
    reference,      \* whether set_reference_distribution was called
    outcomes,       \* _outcome_buffer, as whether each prediction was right
    samples         \* _feature_buffer

classifierVars == <<loaded, reference, outcomes, samples>>

Class == {"Light", "Medium", "Heavy"}

\* The reference distribution is set when the model has been loaded.
ClassifierInit ==
    /\ loaded \in BOOLEAN
    /\ reference = loaded
    /\ outcomes = <<>> /\ samples = <<>>

\* What classify may return for a request whose rule of thumb says "rule": the
\* model's class, Medium for want of confidence, or the rule, after an error.
Classes(rule) == IF loaded THEN Class \cup {"Medium", rule} ELSE {rule}

\* Broken variant of LastOf: nothing is ever forgotten.
LastOfAll(s, n) == s

\* The last n of s.
LastOf(s, n) == IF Len(s) > n THEN SubSeq(s, Len(s) - n + 1, Len(s)) ELSE s

RecordOutcome(predicted, actual, features) ==
    /\ outcomes' = LastOf(Append(outcomes, predicted = actual), MaxOutcomes)
    /\ samples' = LastOf(Append(samples, features), MaxSamples)
    /\ UNCHANGED <<loaded, reference>>

\* _rolling_accuracy, in thousandths.
RollingAccuracy ==
    IF outcomes = <<>> THEN 1000
    ELSE (1000 * Len(SelectSeq(outcomes, LAMBDA right : right))) \div Len(outcomes)

-----------------------------------------------------------------------------
\* compute_psi, by the threshold it is compared with: a PSI over the share of the
\* samples in the lowest bin, in thousandths, is above 0.20 outside these shares.
\* The reference has 25 % of latencies, 33 % of queue depths and 75 % of burst
\* flags there.  More bins could only make a PSI larger.
Usual == [latency |-> 88..462, queue |-> 147..553, burst |-> 538..912]

\* How many samples are in the lowest bin: no latency, no queue, no burst.
LowShare(feature) ==
    LET low == {i \in DOMAIN samples :
            CASE feature = "latency" -> samples[i].latency = 0
              [] feature = "queue"   -> samples[i].queue = 0
              [] feature = "burst"   -> ~samples[i].burst}
    IN  (1000 * Cardinality(low)) \div Len(samples)

Drifted ==
    IF ~reference \/ Len(samples) < MinSamples THEN {}
    ELSE {f \in DOMAIN Usual : LowShare(f) \notin Usual[f]}

\* get_drift_info's drift_detected.
DriftDetected == Drifted # {}

ClassifierTypeOK ==
    /\ loaded \in BOOLEAN /\ reference \in BOOLEAN
    /\ outcomes \in Seq(BOOLEAN) /\ Len(outcomes) <= MaxOutcomes
    /\ samples \in Seq([latency : Nat, queue : Nat, requests : Nat, burst : BOOLEAN])
    /\ Len(samples) <= MaxSamples
=============================================================================
