------------------------------ MODULE Scoring ------------------------------
(***************************************************************************)
(* How the detectors with a score are turned into alerts and graded: the   *)
(* thresholds of detectors/ml_anomaly.py, the metrics of evaluate.py, and  *)
(* the three scripts that add them up over runs, multi_run.py,             *)
(* generalization.py and harder_attacks.py.                                *)
(*                                                                         *)
(* A session is its requests in the order of their times, each with its    *)
(* label and the score that each trained model ("view") gives it; the      *)
(* models themselves are scikit-learn's, so any score is possible.  Scores *)
(* are the floating-point numbers, counted in their order.  A ratio is the *)
(* pair of its two numbers.                                                *)
(***************************************************************************)
EXTENDS Integers, FiniteSets, Sequences

CONSTANTS
  Views,       (* the models that may be combined: one-class SVMs without    *)
               (* and with the columns of a write's target                   *)
  Scores,      (* bound of the model: the scores a request can have          *)
  NUM, DEN,    (* target_fpr is NUM / DEN                                    *)
  None,        (* nan and None: nothing to divide by, never flagged          *)
  MAX_ROWS,    (* bounds of the model: requests of a calibrating session,    *)
  MAX_TEST,    (* of a test session,                                         *)
  MAX_RUNS     (* and test sessions                                          *)

ASSUME ViewsAssumption == \E v, w \in Views : Views = {v, w}
ASSUME ScoresAssumption == Scores \subseteq Int
ASSUME NoneAssumption == None \notin Int
ASSUME TargetAssumption == NUM \in Nat /\ DEN \in Nat \ {0} /\ NUM < DEN
ASSUME BoundsAssumption == MAX_ROWS \in Nat /\ MAX_TEST \in Nat /\ MAX_RUNS \in Nat

ATTACKS == {"replay", "injection"}
UNATTRIBUTED == {"unmatched"}
Labels == {"benign", "replay_seed"} \cup ATTACKS \cup UNATTRIBUTED

VARIABLES
  script,     (* the script that runs                                        *)
  threshold,  (* how it sets the threshold of the detector it grades         *)
  detector,   (* the views of it: it alerts if any of them does              *)
  step,       (* calibrate, calibrated, score, failed                        *)
  session,    (* the calibrating session; none before and after              *)
  thr,        (* per view, the lowest score that alerts                      *)
  results,    (* one row per test session                                    *)
  count,      (* history: per label, requests of the test sessions that were *)
              (* flagged and that were not                                   *)
  staged      (* history: per attack, test sessions it was in, and those in  *)
              (* which a request of it was flagged                           *)

vars == <<script, threshold, detector, step, session, thr, results, count, staged>>

Request == [label : Labels, score : [detector -> Scores]]
Sessions(max) == UNION {[1..n -> Request] : n \in 0..max}

LOAO == [replay |-> "loao-tuned-on-replay", injection |-> "loao-tuned-on-injection"]
LeaveOneOut == {LOAO[a] : a \in ATTACKS}
Tuned == {"tune"} \cup LeaveOneOut

\* rule-based and the contamination cut-off ("none"); what each script grades.
Thresholds ==
  [multi_run |-> {"none", "tune"},
   generalization |-> {"none", "tune", "label-free"} \cup LeaveOneOut,
   harder_attacks |-> {"none", "label-free"}]
\* ocsvm-both exists in harder_attacks only.
Detectors(s, t) == IF s = "harder_attacks" /\ t = "label-free" THEN (SUBSET Views) \ {{}}
                   ELSE {{v} : v \in Views}

Init ==
  /\ script \in DOMAIN Thresholds
  /\ threshold \in Thresholds[script]
  /\ detector \in Detectors(script, threshold)
  /\ step = "calibrate"
  /\ session = <<>>
  /\ thr = [v \in detector |-> 0]
  /\ results = <<>>
  /\ count = [l \in Labels |-> [flagged |-> 0, passed |-> 0]]
  /\ staged = [a \in ATTACKS |-> [runs |-> 0, caught |-> 0]]

----------------------------------------------------------------------------
(* Sessions and alerts.                                                    *)

Of(s, labels) == {i \in DOMAIN s : s[i].label \in labels}
scored_mask_All(s) == DOMAIN s

scored_mask(s) == Of(s, {"benign"} \cup ATTACKS)

label_problems(s) == Of(s, UNATTRIBUTED) # {}

\* A request alerts in a view at threshold t.
AlertAt_Above(r, v, t) == r.score[v] > t

AlertAt(r, v, t) == r.score[v] >= t

predict(s, t) == {i \in DOMAIN s : \E v \in detector : AlertAt(s[i], v, t[v])}

----------------------------------------------------------------------------
(* Thresholds.                                                             *)

normal_training_rows(s) == Of(s, {"benign"})

\* floor(target_fpr * n)
Allowed(n) == (NUM * n) \div DEN

\* p sorts the rows: np.sort of their scores is s[p[1]].score[v], s[p[2]].score[v], ...
Sorts(p, s, v, rows) ==
  /\ \A i \in rows : \E k \in DOMAIN p : p[k] = i
  /\ \A j, k \in DOMAIN p : j < k => s[p[j]].score[v] <= s[p[k]].score[v]

\* nextafter: the lowest score above the one that must stay quiet.
normal_quantile_threshold_NoNext(s, v, p) == s[p[Len(p) - Allowed(Len(p))]].score[v]

normal_quantile_threshold(s, v, p) == s[p[Len(p) - Allowed(Len(p))]].score[v] + 1

\* The threshold of view v: one value, however np.sort places the ties.
Quantiles(s, v) ==
  LET rows == normal_training_rows(s)
      sorts == {p \in [1..Cardinality(rows) -> rows] : Sorts(p, s, v, rows)}
  IN {normal_quantile_threshold(s, v, p) : p \in sorts}

calibrate_normal(s) ==
  IF normal_training_rows(s) = {}
  THEN step' = "failed" /\ UNCHANGED thr
  ELSE /\ step' = "calibrated"
       /\ thr' \in [detector -> UNION {Quantiles(s, v) : v \in detector}]
       /\ \A v \in detector : thr'[v] \in Quantiles(s, v)

\* Hits, false alarms and misses among the rows at threshold t of view v.
Hits(s, rows, v, t) ==
  LET alerts == {i \in rows : AlertAt(s[i], v, t)} IN
  [tp |-> Cardinality(alerts \cap Of(s, ATTACKS)),
   fp |-> Cardinality(alerts \ Of(s, ATTACKS)),
   fn |-> Cardinality((rows \ alerts) \cap Of(s, ATTACKS))]

\* key > best: the better F1 = 2tp / (2tp + fp + fn), then the fewer false alarms.
Better(a, b) ==
  LET A == a.tp * (2 * b.tp + b.fp + b.fn)
      B == b.tp * (2 * a.tp + a.fp + a.fn)
  IN A > B \/ (A = B /\ a.fp < b.fp)

\* The lowest of the scores seen that no other beats.
best_f1_threshold(s, rows, v) ==
  LET seen == {s[i].score[v] : i \in rows}
      best == {t \in seen : \A u \in seen : ~Better(Hits(s, rows, v, u), Hits(s, rows, v, t))}
  IN CHOOSE t \in best : \A u \in best : t <= u

LeftOut(t) == {a \in ATTACKS : t \in LeaveOneOut /\ t # LOAO[a]}
\* The tuning session of the threshold: one attack type left out, or none.
without(s, t) == scored_mask(s) \ Of(s, LeftOut(t))

calibrate(s) ==
  LET rows == without(s, threshold) IN
  IF rows \cap Of(s, ATTACKS) = {} \/ rows \cap Of(s, {"benign"}) = {}
  THEN step' = "failed" /\ UNCHANGED thr
  ELSE step' = "calibrated" /\ thr' = [v \in detector |-> best_f1_threshold(s, rows, v)]

\* Of the rule-based detector, and of the cut-off scikit-learn places, any score.
Boundary ==
  /\ threshold = "none"
  /\ step = "calibrate"
  /\ step' = "score"
  /\ thr' \in [detector -> Scores]
  /\ UNCHANGED <<script, threshold, detector, session, results, count, staged>>

Calibrate ==
  /\ threshold # "none"
  /\ step = "calibrate"
  /\ \E s \in Sessions(MAX_ROWS) :
       /\ session' = s
       /\ IF threshold \in Tuned THEN calibrate(s) ELSE calibrate_normal(s)
  /\ UNCHANGED <<script, threshold, detector, results, count, staged>>

\* The thresholds are set; the loop over the run files begins.
score_runs ==
  /\ step = "calibrated"
  /\ step' = "score"
  /\ session' = <<>>
  /\ UNCHANGED <<script, threshold, detector, thr, results, count, staged>>

----------------------------------------------------------------------------
(* One test session.                                                       *)

quality_metrics(s, rows, pred) ==
  LET y == Of(s, ATTACKS) IN
  [TP |-> Cardinality(rows \cap pred \cap y), FP |-> Cardinality((rows \cap pred) \ y),
   FN |-> Cardinality((rows \ pred) \cap y), TN |-> Cardinality(rows \ (pred \cup y))]

per_type_recall(s, rows, pred) ==
  [tp |-> [a \in ATTACKS |-> Cardinality(rows \cap pred \cap Of(s, {a}))],
   n |-> [a \in ATTACKS |-> Cardinality(rows \cap Of(s, {a}))]]

First(rows) == CHOOSE i \in rows : \A j \in rows : i <= j

\* A blank for an attack that was missed, and for one that was not there.
detection_latency_AnyRow(s, pred) ==
  [a \in ATTACKS |-> IF Of(s, {a}) = {} \/ pred = {} THEN None
                     ELSE First(pred) - First(Of(s, {a}))]

detection_latency(s, pred) ==
  [a \in ATTACKS |-> IF Of(s, {a}) \cap pred = {} THEN None
                     ELSE First(Of(s, {a}) \cap pred) - First(Of(s, {a}))]

\* multi_run's row.
score_run(s, rows, pred) ==
  [quality |-> quality_metrics(s, rows, pred),
   per_type |-> per_type_recall(s, rows, pred),
   latency |-> detection_latency(s, pred)]

\* generalization's row: only the attack type left out of the tuning is graded.
Graded_All(s) == scored_mask(s)

Graded(s) == scored_mask(s) \ Of(s, {a \in ATTACKS : threshold = LOAO[a]})

result_row(s, rows, pred) ==
  [quality |-> quality_metrics(s, rows, pred),
   per_type |-> per_type_recall(s, rows, pred)]

\* harder_attacks' row.
score_session(s, rows, pred) ==
  [FP |-> Cardinality((rows \cap pred) \ Of(s, ATTACKS)),
   TN |-> Cardinality(rows \ (pred \cup Of(s, ATTACKS))),
   per_type |-> per_type_recall(s, rows, pred),
   detected |-> [a \in ATTACKS |-> IF rows \cap pred \cap Of(s, {a}) # {} THEN 1 ELSE 0],
   present |-> [a \in ATTACKS |-> IF rows \cap Of(s, {a}) # {} THEN 1 ELSE 0]]

Row(s) ==
  LET rows == Graded(s)
      pred == predict(s, thr)
  IN CASE script = "multi_run" -> score_run(s, rows, pred)
       [] script = "generalization" -> result_row(s, rows, pred)
       [] script = "harder_attacks" -> score_session(s, rows, pred)

Add(s, pred) ==
  /\ results' = Append(results, Row(s))
  /\ count' = [l \in Labels |->
       [flagged |-> count[l].flagged + Cardinality(Of(s, {l}) \cap pred),
        passed |-> count[l].passed + Cardinality(Of(s, {l}) \ pred)]]
  /\ staged' = [a \in ATTACKS |->
       [runs |-> staged[a].runs + (IF Of(s, {a}) = {} THEN 0 ELSE 1),
        caught |-> staged[a].caught + (IF Of(s, {a}) \cap pred = {} THEN 0 ELSE 1)]]

ScoreRun ==
  /\ step = "score"
  /\ Len(results) < MAX_RUNS
  /\ \E s \in Sessions(MAX_TEST) :
       IF label_problems(s)
       THEN step' = "failed" /\ UNCHANGED <<results, count, staged>>
       ELSE Add(s, predict(s, thr)) /\ UNCHANGED step
  /\ UNCHANGED <<script, threshold, detector, session, thr>>

----------------------------------------------------------------------------
(* The summaries over the runs.                                            *)

ratio(num, den) == IF den = 0 THEN None ELSE <<num, den>>

SumTo(column, n) ==
  LET upto[k \in 0..n] == IF k = 0 THEN 0 ELSE upto[k - 1] + column[k] IN upto[n]
Total(column) == SumTo(column, Len(results))
Pooled(field) == Total([k \in DOMAIN results |-> results[k].quality[field]])
PooledOf(field, a) == Total([k \in DOMAIN results |-> results[k].per_type[field][a]])
RowTotal(field) == Total([k \in DOMAIN results |-> results[k][field]])
RowTotalOf(field, a) == Total([k \in DOMAIN results |-> results[k][field][a]])

recall_of == [a \in ATTACKS |-> ratio(PooledOf("tp", a), PooledOf("n", a))]

summarize_multi_run ==
  LET tp == Pooled("TP") fp == Pooled("FP") IN
  [missed |-> [a \in ATTACKS |-> Cardinality({k \in DOMAIN results : results[k].latency[a] = None})],
   precision |-> ratio(tp, tp + fp),
   recall |-> ratio(tp, tp + Pooled("FN")),
   fpr |-> ratio(fp, fp + Pooled("TN")),
   recall_of |-> recall_of]

summarize_generalization ==
  LET tp == Pooled("TP") fp == Pooled("FP") IN
  [recall |-> ratio(tp, tp + Pooled("FN")),
   fpr |-> ratio(fp, fp + Pooled("TN")),
   recall_of |-> recall_of]

summarize_harder_attacks ==
  LET fp == RowTotal("FP") IN
  [fpr |-> ratio(fp, fp + RowTotal("TN")),
   packet_recall |-> recall_of,
   attack_detection |->
     [a \in ATTACKS |-> ratio(RowTotalOf("detected", a), RowTotalOf("present", a))]]

Next ==
  \/ Boundary
  \/ Calibrate
  \/ score_runs
  \/ ScoreRun

Spec == Init /\ [][Next]_vars

----------------------------------------------------------------------------
(* Properties.                                                             *)

\* The threshold has just been set, on session.
Calibrated == step = "calibrated"

\* A label-free threshold raises no more false alarms on the normal session it
\* was set from than it may, ties or not, in each view; a detector of two views,
\* "at most twice" that (ml_anomaly.py:129-134, harder_attacks.py:35-36).
FalseAlarmBudget ==
  Calibrated /\ threshold = "label-free" =>
    LET normal == normal_training_rows(session) IN
    Cardinality(normal \cap predict(session, thr))
      <= Cardinality(detector) * Allowed(Cardinality(normal))

\* F1 of the alerts q is at least that of r, with no more false alarms if equal.
NoWorse(q, r) ==
  LET A == q.TP * (2 * r.TP + r.FP + r.FN)
      B == r.TP * (2 * q.TP + q.FP + q.FN)
  IN A > B \/ (A = B /\ q.FP <= r.FP)

\* As the tuned detector alerts, and as evaluate.py counts, no cut-off whatever
\* does better on the tuning session, though calibrate tries only the scores it
\* has seen there: "the threshold that gives the best F1 on the labeled tuning
\* session" (ml_anomaly.py:102-105,180-183).
BestF1IsBest ==
  Calibrated /\ threshold \in Tuned =>
    LET rows == without(session, threshold)
        graded(t) == quality_metrics(session, rows, predict(session, t))
    IN \A x \in Scores \cup {s + 1 : s \in Scores} :
         NoWorse(graded(thr), graded([v \in detector |-> x]))

\* A threshold tuned on one attack type does not depend on a request of the other,
\* and is graded on no request of its own: "graded on injections it never saw
\* during tuning, and vice versa" (generalization.py:23-26,182-184).
AttackTypesApart ==
  threshold \in LeaveOneOut =>
    /\ Calibrated =>
         LET unseen == Of(session, LeftOut(threshold))
             Other(x) == [i \in DOMAIN session |->
               IF i \in unseen THEN [session[i] EXCEPT !.score = [v \in detector |-> x[i]]]
               ELSE session[i]]
         IN \A x \in [unseen -> Scores], v \in detector :
              best_f1_threshold(Other(x), without(Other(x), threshold), v) = thr[v]
    /\ \A k \in DOMAIN results, a \in ATTACKS :
         results[k].per_type.n[a] > 0 => a \in LeftOut(threshold)

\* How many of the test sessions' requests with these labels were flagged, and how
\* many there were.
Flagged(labels) ==
  LET of(l) == IF l \in labels THEN count[l].flagged ELSE 0
  IN of("replay") + of("injection") + of("benign")
Seen(labels) ==
  LET of(l) == IF l \in labels THEN count[l].flagged + count[l].passed ELSE 0
  IN of("replay") + of("injection") + of("benign")

\* The pooled figures of each script are those of all the runs' scored requests,
\* each counted once under its own label and the others ("unscored", such as the
\* replay's seed) not at all; nothing to divide by is no figure, and not 0
\* (evaluate.py:60-63, multi_run.py:204-217).
EveryScoredRequestGradedOnce ==
  LET graded == IF threshold \in LeaveOneOut THEN LeftOut(threshold) ELSE ATTACKS
      recall(attacks) == ratio(Flagged(attacks), Seen(attacks))
      fpr == ratio(Flagged({"benign"}), Seen({"benign"}))
      of_each == [a \in ATTACKS |-> recall({a} \cap graded)]
  IN CASE script = "multi_run" -> LET s == summarize_multi_run IN
            /\ s.precision = ratio(Flagged(ATTACKS), Flagged(ATTACKS \cup {"benign"}))
            /\ <<s.recall, s.fpr, s.recall_of>> = <<recall(ATTACKS), fpr, of_each>>
       [] script = "generalization" -> LET s == summarize_generalization IN
            <<s.recall, s.fpr, s.recall_of>> = <<recall(graded), fpr, of_each>>
       [] script = "harder_attacks" -> LET s == summarize_harder_attacks IN
            <<s.fpr, s.packet_recall>> = <<fpr, of_each>>

\* An attack counts as missed in a run if none of its requests was flagged, and
\* only then: a false alarm during the attack does not make it caught.  So the
\* "missed" of multi_run.py:176,193 and the "attack detected" of
\* harder_attacks.py:40-43 are two views of one figure, if every run has both
\* attacks; an attack that is not in a run counts as missed in multi_run.
MissedIffNeverFlagged ==
  \A a \in ATTACKS :
    /\ script = "multi_run" /\ staged[a].runs = Len(results) =>
         summarize_multi_run.missed[a] = staged[a].runs - staged[a].caught
    /\ script = "harder_attacks" =>
         summarize_harder_attacks.attack_detection[a] = ratio(staged[a].caught, staged[a].runs)
=============================================================================
