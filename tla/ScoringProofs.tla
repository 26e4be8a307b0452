--------------------------- MODULE ScoringProofs ---------------------------
(* A label-free threshold keeps its budget of false alarms, a tuned one has  *)
(* the best F1 there is, attack types left out of a tuning stay out of it,   *)
(* and the figures over the runs are those of the requests, for any scores,  *)
(* any target, sessions and runs of any length.                              *)
EXTENDS Scoring, FiniteSetTheorems, WellFoundedInduction, TLAPS

USE DEF ATTACKS

\* Of n rows, fewer than n may alert.
LEMMA AllowedRange ==
  ASSUME NEW n \in Nat \ {0}
  PROVE  Allowed(n) \in 0..n-1
<1>1. NUM \in Nat /\ DEN \in Nat \ {0} /\ NUM + 1 <= DEN
  BY TargetAssumption
<1>2. NUM * n \in Nat /\ DEN * n \in Nat
  BY <1>1
<1>3. NUM * n + n <= DEN * n
  BY <1>1
<1>4. NUM * n < DEN * n
  BY <1>2, <1>3
<1> DEFINE q == (NUM * n) \div DEN
<1>5. q \in Int /\ DEN * q <= NUM * n /\ NUM * n < DEN * (q + 1)
  BY <1>1, <1>2
<1> HIDE DEF q
<1>6. DEN * q \in Int /\ DEN * (q + 1) \in Int
  BY <1>1, <1>5
<1>7. q < n
  <2>1. ASSUME q >= n PROVE DEN * q >= DEN * n
    BY <1>1, <1>5, <2>1
  <2>2. ~(DEN * q >= DEN * n)
    BY <1>2, <1>4, <1>5, <1>6
  <2> QED
    BY <1>5, <2>1, <2>2
<1>8. q >= 0
  <2>1. ASSUME q + 1 <= 0 PROVE DEN * (q + 1) <= 0
    BY <1>1, <1>5, <2>1
  <2>2. ~(DEN * (q + 1) <= 0)
    BY <1>2, <1>5, <1>6
  <2> QED
    BY <1>5, <2>1, <2>2
<1> QED
  BY <1>5, <1>7, <1>8 DEF Allowed, q

\* The places of a session are finitely many.
LEMMA SessionRows ==
  ASSUME NEW max, NEW s \in Sessions(max), max \in Nat, NEW labels
  PROVE  /\ IsFiniteSet(Of(s, labels))
         /\ \A i \in Of(s, labels) : s[i] \in Request
<1>1. PICK n \in 0..max : s \in [1..n -> Request]
  BY DEF Sessions
<1>2. IsFiniteSet(1..n)
  BY FS_Interval
<1>3. Of(s, labels) \subseteq 1..n
  BY <1>1 DEF Of
<1> QED
  BY <1>1, <1>2, <1>3, FS_Subset

\* What alerts at a quantile is among the rows that a sort puts behind it.
LEMMA ViewBudget ==
  ASSUME NEW s \in Sessions(MAX_ROWS), NEW v \in detector,
         normal_training_rows(s) # {}, NEW t \in Quantiles(s, v)
  PROVE  LET flagged == {i \in normal_training_rows(s) : AlertAt(s[i], v, t)} IN
         /\ IsFiniteSet(flagged)
         /\ Cardinality(flagged) <= Allowed(Cardinality(normal_training_rows(s)))
<1> DEFINE rows == normal_training_rows(s)
           n == Cardinality(rows)
           flagged == {i \in rows : AlertAt(s[i], v, t)}
<1>1. IsFiniteSet(rows) /\ \A i \in rows : s[i].score[v] \in Int
  <2>1. IsFiniteSet(rows) /\ \A i \in rows : s[i] \in Request
    BY SessionRows, BoundsAssumption DEF normal_training_rows
  <2> QED
    BY <2>1, ScoresAssumption DEF Request
<1>2. n \in Nat \ {0}
  BY <1>1, FS_CardinalityType, FS_EmptySet
<1>3. PICK p \in [1..n -> rows] : Sorts(p, s, v, rows) /\ t = normal_quantile_threshold(s, v, p)
  BY DEF Quantiles
<1> DEFINE k == n - Allowed(n)
           behind == {p[j] : j \in k+1..n}
<1>4. Allowed(n) \in 0..n-1 /\ k \in 1..n
  BY <1>2, AllowedRange
<1>5. Len(p) = n
  BY <1>2, <1>3
<1>6. t = s[p[k]].score[v] + 1
  BY <1>3, <1>5 DEF normal_quantile_threshold
<1>7. flagged \subseteq behind
  <2> SUFFICES ASSUME NEW i \in rows, s[i].score[v] >= t PROVE i \in behind
    BY DEF AlertAt
  <2>1. PICK j \in 1..n : p[j] = i
    BY <1>3 DEF Sorts
  <2>2. ~(j <= k)
    <3> SUFFICES ASSUME j <= k PROVE FALSE
      OBVIOUS
    <3>1. s[p[j]].score[v] <= s[p[k]].score[v]
      BY <1>1, <1>3, <1>4, <2>1 DEF Sorts
    <3> QED
      BY <1>1, <1>3, <1>4, <1>6, <2>1, <3>1
  <2> QED
    BY <1>4, <2>1, <2>2
<1>8. IsFiniteSet(behind) /\ Cardinality(behind) <= Allowed(n)
  <2>1. IsFiniteSet(k+1..n) /\ Cardinality(k+1..n) = Allowed(n)
    <3>1. k + 1 \in Int /\ n \in Int /\ (IF k + 1 > n THEN 0 ELSE n - (k + 1) + 1) = Allowed(n)
      BY <1>2, <1>4
    <3> HIDE DEF k, n
    <3> QED
      BY <3>1, FS_Interval
  <2>2. [j \in k+1..n |-> p[j]] \in Surjection(k+1..n, behind)
    BY DEF Surjection
  <2> QED
    BY <2>1, <2>2, FS_Surjection
<1>9. IsFiniteSet(flagged) /\ Cardinality(flagged) <= Cardinality(behind)
  BY <1>7, <1>8, FS_Subset
<1>10. Cardinality(flagged) \in Nat /\ Cardinality(behind) \in Nat
  BY <1>8, <1>9, FS_CardinalityType
<1> QED
  BY <1>4, <1>8, <1>9, <1>10

----------------------------------------------------------------------------
(* The budget.                                                             *)

\* A detector has one view or two, and a label-free threshold is a quantile of
\* the session it was set from.
QuantileInv ==
  /\ \E v, w : detector = {v, w}
  /\ Calibrated /\ threshold = "label-free" =>
       /\ session \in Sessions(MAX_ROWS)
       /\ normal_training_rows(session) # {}
       /\ \A v \in detector : thr[v] \in Quantiles(session, v)

LEMMA QuantileInit == Init => QuantileInv
<1> SUFFICES ASSUME Init PROVE QuantileInv
  OBVIOUS
<1>1. PICK a, b \in Views : Views = {a, b}
  BY ViewsAssumption
<1>2. detector \in Detectors(script, threshold) /\ step = "calibrate"
  BY DEF Init
<1>3. detector \subseteq {a, b} /\ detector # {}
  <2>1. CASE detector \in (SUBSET Views) \ {{}}
    BY <1>1, <2>1
  <2>2. CASE detector \in {{v} : v \in Views}
    BY <1>1, <2>2
  <2>3. \/ Detectors(script, threshold) = (SUBSET Views) \ {{}}
        \/ Detectors(script, threshold) = {{v} : v \in Views}
    BY Zenon DEF Detectors
  <2> QED
    BY <1>2, <2>1, <2>2, <2>3
<1>4. detector = {a, a} \/ detector = {b, b} \/ detector = {a, b}
  BY <1>3
<1> QED
  BY <1>2, <1>4 DEF QuantileInv, Calibrated

LEMMA QuantileNext == QuantileInv /\ [Next]_vars => QuantileInv'
<1> SUFFICES ASSUME QuantileInv, [Next]_vars PROVE QuantileInv'
  OBVIOUS
<1>1. CASE Boundary
  BY <1>1 DEF Boundary, QuantileInv, Calibrated
<1>2. CASE Calibrate
  <2>1. detector' = detector /\ threshold' = threshold
    BY <1>2 DEF Calibrate
  <2>2. PICK s \in Sessions(MAX_ROWS) :
          session' = s /\ IF threshold \in Tuned THEN calibrate(s) ELSE calibrate_normal(s)
    BY <1>2 DEF Calibrate
  <2>3. ASSUME Calibrated', threshold = "label-free"
        PROVE  /\ normal_training_rows(s) # {}
               /\ \A v \in detector : thr'[v] \in Quantiles(s, v)
    <3>1. threshold \notin Tuned
      BY <2>3 DEF Tuned, LeaveOneOut, LOAO
    <3> QED
      BY <2>2, <2>3, <3>1 DEF calibrate_normal, Calibrated
  <2>4. session' \in Sessions(MAX_ROWS)'
    BY <2>1, <2>2 DEF Sessions, Request
  <2> QED
    BY <2>1, <2>2, <2>3, <2>4 DEF QuantileInv
<1>3. CASE score_runs
  BY <1>3 DEF score_runs, QuantileInv, Calibrated
<1>4. CASE ScoreRun
  <2>1. step' \in {"score", "failed"} /\ detector' = detector
    BY <1>4 DEF ScoreRun
  <2> QED
    BY <2>1 DEF QuantileInv, Calibrated
<1>5. CASE UNCHANGED vars
  BY <1>5 DEF vars, QuantileInv, Calibrated, Sessions, Request
<1> QED
  BY <1>1, <1>2, <1>3, <1>4, <1>5 DEF Next

LEMMA QuantileBudget == QuantileInv => FalseAlarmBudget
<1> SUFFICES ASSUME QuantileInv, Calibrated, threshold = "label-free"
             PROVE  Cardinality(normal_training_rows(session) \cap predict(session, thr))
                      <= Cardinality(detector) * Allowed(Cardinality(normal_training_rows(session)))
  BY DEF FalseAlarmBudget
<1> DEFINE rows == normal_training_rows(session)
           budget == Allowed(Cardinality(rows))
           flagged(v) == {i \in rows : AlertAt(session[i], v, thr[v])}
           alerts == rows \cap predict(session, thr)
<1>1. PICK v, w : detector = {v, w}
  BY DEF QuantileInv
<1>2. /\ session \in Sessions(MAX_ROWS) /\ rows # {}
      /\ thr[v] \in Quantiles(session, v) /\ thr[w] \in Quantiles(session, w)
  BY <1>1 DEF QuantileInv
<1>3. /\ IsFiniteSet(flagged(v)) /\ Cardinality(flagged(v)) <= budget
      /\ IsFiniteSet(flagged(w)) /\ Cardinality(flagged(w)) <= budget
  BY <1>1, <1>2, ViewBudget
<1>4. alerts \subseteq flagged(v) \cup flagged(w)
  BY <1>1 DEF predict
<1>5. budget \in Nat
  <2>1. IsFiniteSet(rows)
    BY <1>2, SessionRows, BoundsAssumption DEF normal_training_rows
  <2>2. Cardinality(rows) \in Nat \ {0}
    BY <1>2, <2>1, FS_CardinalityType, FS_EmptySet
  <2> QED
    BY <2>2, AllowedRange
<1>6. CASE v = w
  <2>1. Cardinality(detector) = 1
    BY <1>1, <1>6, FS_Singleton
  <2>2. alerts \subseteq flagged(v)
    BY <1>4, <1>6
  <2>3. Cardinality(alerts) <= Cardinality(flagged(v)) /\ IsFiniteSet(alerts)
    BY <1>3, <2>2, FS_Subset
  <2>4. Cardinality(alerts) \in Nat /\ Cardinality(flagged(v)) \in Nat
    BY <1>3, <2>3, FS_CardinalityType
  <2> HIDE DEF flagged, alerts, budget
  <2> QED
    BY <1>3, <1>5, <2>1, <2>3, <2>4 DEF alerts, budget
<1>7. CASE v # w
  <2>1. Cardinality(detector) = 2
    <3>1. detector = {v} \cup {w}
      BY <1>1
    <3>2. IsFiniteSet({v}) /\ Cardinality({v}) = 1
      BY FS_Singleton
    <3> QED
      BY <1>7, <3>1, <3>2, FS_AddElement
  <2>2. /\ IsFiniteSet(flagged(v) \cup flagged(w))
        /\ Cardinality(flagged(v) \cup flagged(w))
             = Cardinality(flagged(v)) + Cardinality(flagged(w))
                 - Cardinality(flagged(v) \cap flagged(w))
    BY <1>3, FS_Union
  <2>3. IsFiniteSet(flagged(v) \cap flagged(w))
    BY <1>3, FS_Subset
  <2>4. Cardinality(alerts) <= Cardinality(flagged(v) \cup flagged(w)) /\ IsFiniteSet(alerts)
    BY <1>4, <2>2, FS_Subset
  <2>5. /\ Cardinality(alerts) \in Nat /\ Cardinality(flagged(v) \cap flagged(w)) \in Nat
        /\ Cardinality(flagged(v)) \in Nat /\ Cardinality(flagged(w)) \in Nat
        /\ Cardinality(flagged(v) \cup flagged(w)) \in Nat
    BY <1>3, <2>2, <2>3, <2>4, FS_CardinalityType
  <2> HIDE DEF flagged, alerts, budget
  <2>6. Cardinality(alerts) <= 2 * budget
    BY <1>3, <1>5, <2>2, <2>4, <2>5
  <2> QED
    BY <2>1, <2>6 DEF alerts, budget
<1> QED
  BY <1>6, <1>7

\* A label-free threshold flags at most the allowed share of the normal session
\* it was set from, ties or not, and two views together at most twice that.
THEOREM Budget == Spec => []FalseAlarmBudget
<1>1. Init => QuantileInv
  BY QuantileInit
<1>2. QuantileInv /\ [Next]_vars => QuantileInv'
  BY QuantileNext
<1>3. QuantileInv => FalseAlarmBudget
  BY QuantileBudget
<1> QED
  BY <1>1, <1>2, <1>3, PTL DEF Spec

----------------------------------------------------------------------------
(* The attack types.                                                       *)

\* Session s with the requests of the attack types left out scored otherwise.
Rescored(s, t, x) ==
  [i \in DOMAIN s |->
     IF i \in Of(s, LeftOut(t)) THEN [s[i] EXCEPT !.score = [v \in detector |-> x[i]]] ELSE s[i]]

LEMMA RescoredLabels ==
  ASSUME NEW s \in Sessions(MAX_ROWS), NEW t, NEW x, NEW labels
  PROVE  Of(Rescored(s, t, x), labels) = Of(s, labels)
<1>1. \A i \in DOMAIN s : s[i] \in Request
  BY BoundsAssumption DEF Sessions
<1>2. \A i \in DOMAIN s : Rescored(s, t, x)[i].label = s[i].label
  BY <1>1 DEF Rescored, Request
<1> QED
  BY <1>2 DEF Of, Rescored

\* The tuning looks at no score of them.
LEMMA TunedWithoutThem ==
  ASSUME NEW s \in Sessions(MAX_ROWS), NEW t, NEW x, NEW v
  PROVE  best_f1_threshold(Rescored(s, t, x), without(Rescored(s, t, x), t), v)
           = best_f1_threshold(s, without(s, t), v)
<1> DEFINE o == Rescored(s, t, x)
           rows == without(s, t)
<1>1. without(o, t) = rows
  BY RescoredLabels DEF without, scored_mask
<1>2. \A i \in rows : i \in DOMAIN s /\ o[i] = s[i]
  BY DEF without, scored_mask, Of, Rescored
<1> HIDE DEF o, rows
<1>3. {o[i].score[v] : i \in rows} = {s[i].score[v] : i \in rows}
  BY <1>2
<1>4. \A u : Hits(o, rows, v, u) = Hits(s, rows, v, u)
  <2> TAKE u
  <2>1. {i \in rows : AlertAt(o[i], v, u)} = {i \in rows : AlertAt(s[i], v, u)}
    BY <1>2
  <2>2. Of(o, ATTACKS) = Of(s, ATTACKS)
    BY RescoredLabels DEF o
  <2> QED
    BY <2>1, <2>2 DEF Hits
<1>5. best_f1_threshold(o, rows, v) = best_f1_threshold(s, rows, v)
  <2> DEFINE seen(q) == {q[i].score[v] : i \in rows}
             best(q) == {b \in seen(q) :
                           \A u \in seen(q) : ~Better(Hits(q, rows, v, u), Hits(q, rows, v, b))}
  <2>1. best(o) = best(s)
    <3>1. seen(o) = seen(s)
      BY <1>3
    <3> HIDE DEF seen
    <3>2. \A b, u : Better(Hits(o, rows, v, u), Hits(o, rows, v, b))
                     = Better(Hits(s, rows, v, u), Hits(s, rows, v, b))
      BY <1>4
    <3> QED
      BY <3>1, <3>2
  <2>2. \A q : best_f1_threshold(q, rows, v)
                = (CHOOSE b \in best(q) : \A u \in best(q) : b <= u)
    BY DEF best_f1_threshold
  <2> HIDE DEF best
  <2> QED
    BY <2>1, <2>2
<1> QED
  BY <1>1, <1>5 DEF o, rows

\* The threshold is the best of its tuning session, and no row so far was graded
\* on the attack type that it was tuned on.
ApartInv ==
  /\ script \in DOMAIN Thresholds
  /\ Calibrated /\ threshold \in LeaveOneOut =>
       /\ session \in Sessions(MAX_ROWS)
       /\ \A v \in detector : thr[v] = best_f1_threshold(session, without(session, threshold), v)
  /\ \E S : results \in Seq(S)
  /\ threshold \in LeaveOneOut =>
       \A k \in 1..Len(results), a \in ATTACKS :
         results[k].per_type.n[a] > 0 => a \in LeftOut(threshold)

LEMMA ApartInit == Init => ApartInv
<1> SUFFICES ASSUME Init PROVE ApartInv
  OBVIOUS
<1>1. results = <<>> /\ step = "calibrate" /\ script \in DOMAIN Thresholds
  BY DEF Init
<1>2. results \in Seq({}) /\ Len(results) = 0
  BY <1>1
<1>3. \E S : results \in Seq(S)
  BY <1>2
<1> QED
  BY <1>1, <1>2, <1>3 DEF ApartInv, Calibrated

\* No script grades a row of the attack type tuned on.
LEMMA RowApart ==
  ASSUME script \in DOMAIN Thresholds, threshold \in LeaveOneOut, NEW s, NEW a \in ATTACKS,
         Row(s).per_type.n[a] > 0
  PROVE  a \in LeftOut(threshold)
<1> DEFINE rows == Graded(s)
           pred == predict(s, thr)
<1>1. script \in {"multi_run", "generalization", "harder_attacks"}
  BY DEF Thresholds
<1>2. Row(s).per_type = per_type_recall(s, rows, pred)
  <2>1. CASE script = "multi_run"
    BY <2>1 DEF Row, score_run
  <2>2. CASE script = "generalization"
    BY <2>2 DEF Row, result_row
  <2>3. CASE script = "harder_attacks"
    BY <2>3 DEF Row, score_session
  <2> QED
    BY <1>1, <2>1, <2>2, <2>3
<1>3. Cardinality(rows \cap Of(s, {a})) > 0
  BY <1>2 DEF per_type_recall
<1>4. rows \cap Of(s, {a}) # {}
  BY <1>3, FS_EmptySet
<1>5. threshold # LOAO[a]
  BY <1>4 DEF Graded, Of
<1> QED
  BY <1>5 DEF LeftOut

LEMMA ApartNext == ApartInv /\ [Next]_vars => ApartInv'
<1> SUFFICES ASSUME ApartInv, [Next]_vars PROVE ApartInv'
  OBVIOUS
<1>1. CASE Boundary
  BY <1>1 DEF Boundary, ApartInv, Calibrated
<1>2. CASE Calibrate
  <2>1. UNCHANGED <<script, threshold, detector, results>>
    BY <1>2 DEF Calibrate
  <2>2. PICK s \in Sessions(MAX_ROWS) :
          session' = s /\ IF threshold \in Tuned THEN calibrate(s) ELSE calibrate_normal(s)
    BY <1>2 DEF Calibrate
  <2>3. ASSUME Calibrated', threshold \in LeaveOneOut
        PROVE  thr' = [v \in detector |-> best_f1_threshold(s, without(s, threshold), v)]
    <3>1. calibrate(s)
      BY <2>2, <2>3 DEF Tuned
    <3> QED
      BY <2>3, <3>1 DEF calibrate, Calibrated
  <2>4. session' \in Sessions(MAX_ROWS)'
    BY <2>1, <2>2 DEF Sessions, Request
  <2> QED
    BY <2>1, <2>2, <2>3, <2>4 DEF ApartInv
<1>3. CASE score_runs
  BY <1>3 DEF score_runs, ApartInv, Calibrated
<1>4. CASE ScoreRun
  <2>1. step' \in {"score", "failed"} /\ UNCHANGED <<script, threshold, detector>>
    BY <1>4 DEF ScoreRun
  <2>2. CASE results' = results
    BY <2>1, <2>2 DEF ApartInv, Calibrated
  <2>3. ASSUME NEW s, results' = Append(results, Row(s)) PROVE ApartInv'
    <3>1. PICK S : results \in Seq(S)
      BY DEF ApartInv
    <3> DEFINE T == S \cup {Row(s)}
    <3>2. results \in Seq(T) /\ Row(s) \in T
      BY <3>1
    <3>3. /\ results' \in Seq(T) /\ Len(results') = Len(results) + 1 /\ Len(results) \in Nat
          /\ \A k \in 1..Len(results) : results'[k] = results[k]
          /\ results'[Len(results) + 1] = Row(s)
      BY <2>3, <3>2
    <3>4. ASSUME threshold \in LeaveOneOut, NEW k \in 1..Len(results'), NEW a \in ATTACKS,
                 results'[k].per_type.n[a] > 0
          PROVE  a \in LeftOut(threshold)
      <4>1. CASE k \in 1..Len(results)
        BY <3>3, <3>4, <4>1 DEF ApartInv
      <4>2. CASE k = Len(results) + 1
        BY <3>3, <3>4, <4>2, RowApart DEF ApartInv
      <4> QED
        BY <3>3, <4>1, <4>2
    <3> QED
      BY <2>1, <3>3, <3>4 DEF ApartInv, Calibrated
  <2> QED
    BY <1>4, <2>2, <2>3 DEF ScoreRun, Add
<1>5. CASE UNCHANGED vars
  BY <1>5 DEF vars, ApartInv, Calibrated, Sessions, Request
<1> QED
  BY <1>1, <1>2, <1>3, <1>4, <1>5 DEF Next

LEMMA ApartFollows == ApartInv => AttackTypesApart
<1> SUFFICES ASSUME ApartInv, threshold \in LeaveOneOut PROVE AttackTypesApart
  BY DEF AttackTypesApart
<1> DEFINE unseen == Of(session, LeftOut(threshold))
           Other(x) == [i \in DOMAIN session |->
             IF i \in unseen THEN [session[i] EXCEPT !.score = [v \in detector |-> x[i]]]
             ELSE session[i]]
<1>1. ASSUME Calibrated, NEW x \in [unseen -> Scores], NEW v \in detector
      PROVE  best_f1_threshold(Other(x), without(Other(x), threshold), v) = thr[v]
  <2>1. Other(x) = Rescored(session, threshold, x)
    BY DEF Rescored
  <2> HIDE DEF Other
  <2> QED
    BY <1>1, <2>1, TunedWithoutThem DEF ApartInv
<1>2. DOMAIN results = 1..Len(results)
  BY DEF ApartInv
<1>3. \A k \in DOMAIN results, a \in ATTACKS :
        results[k].per_type.n[a] > 0 => a \in LeftOut(threshold)
  BY <1>2 DEF ApartInv
<1> QED
  BY <1>1, <1>3 DEF AttackTypesApart

\* A threshold tuned on one attack type depends on no request of the other and is
\* graded on none of its own, for any scores and sessions of any length.
THEOREM Apart == Spec => []AttackTypesApart
<1>1. Init => ApartInv
  BY ApartInit
<1>2. ApartInv /\ [Next]_vars => ApartInv'
  BY ApartNext
<1>3. ApartInv => AttackTypesApart
  BY ApartFollows
<1> QED
  BY <1>1, <1>2, <1>3, PTL DEF Spec

----------------------------------------------------------------------------
(* The best threshold.                                                     *)

\* The least of a set of natural numbers.
LEMMA LeastOf ==
  ASSUME NEW S, S \subseteq Nat, S # {}
  PROVE  \E x \in S : \A y \in S : x <= y
<1>1. PICK x \in S : \A y \in S : ~(<<y, x>> \in OpToRel(<, Nat))
  BY NatLessThanWellFounded, WFMin
<1>2. ASSUME NEW y \in S PROVE x <= y
  <2>1. x \in Nat /\ y \in Nat /\ <<y, x>> \in Nat \X Nat
    OBVIOUS
  <2>2. <<y, x>>[1] = y /\ <<y, x>>[2] = x
    OBVIOUS
  <2>3. <<y, x>> \notin {ss \in Nat \X Nat : ss[1] < ss[2]}
    BY <1>1, Zenon DEF OpToRel
  <2>4. ~(<<y, x>>[1] < <<y, x>>[2])
    BY <2>1, <2>3, Zenon
  <2> QED
    BY <2>1, <2>2, <2>4
<1> QED
  BY <1>2

\* A finite set has an element that no other precedes, in any strict order.
LEMMA NothingBefore ==
  ASSUME NEW S, IsFiniteSet(S), S # {}, NEW R,
         \A a, b, c \in S : <<a, b>> \in R /\ <<b, c>> \in R => <<a, c>> \in R,
         \A a \in S : <<a, a>> \notin R
  PROVE  \E x \in S : \A y \in S : <<y, x>> \notin R
<1> DEFINE Before(x) == {y \in S : <<y, x>> \in R}
           Sizes == {Cardinality(Before(x)) : x \in S}
<1>1. \A x \in S : IsFiniteSet(Before(x)) /\ Cardinality(Before(x)) \in Nat
  BY FS_Subset, FS_CardinalityType
<1>2. \A x, y \in S : y \in Before(x) => Before(y) \subseteq Before(x) /\ Before(y) # Before(x)
  OBVIOUS
<1> HIDE DEF Before
<1>3. Sizes \subseteq Nat /\ Sizes # {}
  BY <1>1
<1>4. PICK n \in Sizes : \A m \in Sizes : n <= m
  BY <1>3, LeastOf
<1>5. PICK x \in S : n = Cardinality(Before(x))
  OBVIOUS
<1>6. ASSUME NEW y \in S, y \in Before(x) PROVE FALSE
  <2>1. Before(y) \subseteq Before(x) /\ Before(y) # Before(x)
    BY <1>2, <1>6
  <2>2. /\ Cardinality(Before(y)) <= Cardinality(Before(x))
        /\ Cardinality(Before(y)) # Cardinality(Before(x))
    BY <1>1, <2>1, FS_Subset
  <2>3. Cardinality(Before(y)) \in Sizes
    OBVIOUS
  <2> HIDE DEF Sizes
  <2> QED
    BY <1>1, <1>4, <1>5, <2>2, <2>3
<1> QED
  BY <1>6 DEF Before

\* The lowest of a finite set of integers.
LEMMA Lowest ==
  ASSUME NEW S, IsFiniteSet(S), S # {}, S \subseteq Int
  PROVE  \E x \in S : \A y \in S : x <= y
<1> DEFINE R == {p \in Int \X Int : p[1] < p[2]}
<1>1. \A a, b \in Int : <<a, b>> \in R <=> a < b
  OBVIOUS
<1> HIDE DEF R
<1>2. /\ \A a, b, c \in S : <<a, b>> \in R /\ <<b, c>> \in R => <<a, c>> \in R
      /\ \A a \in S : <<a, a>> \notin R
  <2> SUFFICES ASSUME NEW a \in Int, NEW b \in Int, NEW c \in Int
               PROVE  /\ <<a, b>> \in R /\ <<b, c>> \in R => <<a, c>> \in R
                      /\ <<a, a>> \notin R
    OBVIOUS
  <2>1. (a < b /\ b < c => a < c) /\ ~(a < a)
    OBVIOUS
  <2> QED
    BY <1>1, <2>1, Zenon
<1>3. PICK x \in S : \A y \in S : <<y, x>> \notin R
  BY <1>2, NothingBefore
<1>4. ASSUME NEW y \in S PROVE x <= y
  <2>1. x \in Int /\ y \in Int
    OBVIOUS
  <2>2. ~(y < x)
    BY <1>1, <1>3, <2>1, Zenon
  <2> QED
    BY <2>1, <2>2
<1> QED
  BY <1>4

LEMMA Scale ==
  ASSUME NEW x \in Int, NEW y \in Int, NEW z \in Nat \ {0}
  PROVE  /\ x * z >= y * z <=> x >= y
         /\ x * z > y * z <=> x > y
<1>1. ASSUME NEW a \in Int, NEW b \in Int, a >= b PROVE a * z >= b * z
  BY <1>1
<1>2. ASSUME NEW a \in Int, NEW b \in Int, a > b PROVE a * z > b * z
  <2>1. a >= b + 1
    BY <1>2
  <2>2. a * z >= (b + 1) * z
    BY <1>1, <2>1
  <2>3. (b + 1) * z = b * z + z
    OBVIOUS
  <2>4. a * z \in Int /\ b * z \in Int
    OBVIOUS
  <2> QED
    BY <2>2, <2>3, <2>4
<1>3. x * z \in Int /\ y * z \in Int
  OBVIOUS
<1>4. x > y \/ x = y \/ y > x
  OBVIOUS
<1> QED
  BY <1>1, <1>2, <1>3, <1>4

\* Ratios are compared by their products.
LEMMA Ratios ==
  ASSUME NEW a \in Nat, NEW b \in Nat, NEW c \in Nat,
         NEW p \in Nat \ {0}, NEW q \in Nat \ {0}, NEW r \in Nat \ {0},
         a * q >= b * p, b * r >= c * q
  PROVE  /\ a * r >= c * p
         /\ a * q > b * p \/ b * r > c * q => a * r > c * p
<1>1. /\ a * q \in Int /\ b * p \in Int /\ b * r \in Int /\ c * q \in Int
      /\ a * r \in Int /\ c * p \in Int
  OBVIOUS
<1> DEFINE x == (a * q) * r
           y == (b * p) * r
           z == (c * q) * p
<1>2. /\ x = (a * r) * q /\ y = (b * r) * p /\ z = (c * p) * q
      /\ x \in Int /\ y \in Int /\ z \in Int
  OBVIOUS
<1>3. x >= y /\ (a * q > b * p => x > y)
  BY <1>1, Scale
<1>4. (b * r) * p >= z /\ (b * r > c * q => (b * r) * p > z)
  BY <1>1, Scale
<1> HIDE DEF x, y, z
<1>5. x >= z /\ (a * q > b * p \/ b * r > c * q => x > z)
  BY <1>2, <1>3, <1>4
<1> QED
  BY <1>1, <1>2, <1>5, Scale

LEMMA Summed ==
  ASSUME NEW tp \in Nat, NEW fp \in Nat, NEW fn \in Nat
  PROVE  tp + fn > 0 => 2 * tp + fp + fn \in Nat \ {0}
OBVIOUS

\* What the labels and the alerts of some rows count up to.
Counted(h, n) ==
  /\ h.tp \in Nat /\ h.fp \in Nat /\ h.fn \in Nat
  /\ h.tp + h.fn = n /\ 2 * h.tp + h.fp + h.fn \in Nat \ {0}

\* Better is a strict order: F1 first, the false alarms between equals.
LEMMA BetterIsTransitive ==
  ASSUME NEW n \in Nat \ {0}, NEW a, NEW b, NEW c, Counted(a, n), Counted(b, n), Counted(c, n)
  PROVE  /\ ~Better(a, a)
         /\ Better(a, b) /\ Better(b, c) => Better(a, c)
<1> DEFINE p == 2 * a.tp + a.fp + a.fn
           q == 2 * b.tp + b.fp + b.fn
           r == 2 * c.tp + c.fp + c.fn
<1>1. /\ p \in Nat \ {0} /\ q \in Nat \ {0} /\ r \in Nat \ {0}
      /\ a.tp \in Nat /\ b.tp \in Nat /\ c.tp \in Nat
      /\ a.fp \in Nat /\ b.fp \in Nat /\ c.fp \in Nat
  BY DEF Counted
<1> DEFINE aq == a.tp * q
           bp == b.tp * p
           br == b.tp * r
           cq == c.tp * q
           ar == a.tp * r
           cp == c.tp * p
           ap == a.tp * p
<1>2. /\ Better(a, b) <=> aq > bp \/ (aq = bp /\ a.fp < b.fp)
      /\ Better(b, c) <=> br > cq \/ (br = cq /\ b.fp < c.fp)
      /\ Better(a, c) <=> ar > cp \/ (ar = cp /\ a.fp < c.fp)
      /\ Better(a, a) <=> ap > ap \/ (ap = ap /\ a.fp < a.fp)
  BY Zenon DEF Better
<1> HIDE DEF p, q, r
<1>3. /\ aq \in Int /\ bp \in Int /\ br \in Int /\ cq \in Int
      /\ ar \in Int /\ cp \in Int /\ ap \in Int
  BY <1>1
<1>r. aq >= bp /\ br >= cq => ar >= cp /\ (aq > bp \/ br > cq => ar > cp)
  BY <1>1, Ratios
<1> HIDE DEF aq, bp, br, cq, ar, cp, ap
<1>4. ~Better(a, a)
  BY <1>1, <1>2, <1>3
<1>5. ASSUME Better(a, b), Better(b, c) PROVE Better(a, c)
  <2>1. /\ aq > bp \/ (aq = bp /\ a.fp < b.fp)
        /\ br > cq \/ (br = cq /\ b.fp < c.fp)
    BY <1>2, <1>5
  <2>2. ar > cp \/ (ar = cp /\ a.fp < c.fp)
    BY <1>1, <1>3, <1>r, <2>1
  <2> QED
    BY <1>2, <2>2
<1> QED
  BY <1>4, <1>5

\* The tuning session that best_f1_threshold is given.
Tunable(s, rows) ==
  /\ s \in Sessions(MAX_ROWS) /\ rows \subseteq DOMAIN s
  /\ rows \cap Of(s, ATTACKS) # {}

LEMMA HitsCount ==
  ASSUME NEW v \in detector, NEW s, NEW rows, Tunable(s, rows), NEW t
  PROVE  /\ IsFiniteSet(rows) /\ Cardinality(rows \cap Of(s, ATTACKS)) \in Nat \ {0}
         /\ \A i \in rows : s[i] \in Request
         /\ Counted(Hits(s, rows, v, t), Cardinality(rows \cap Of(s, ATTACKS)))
<1> DEFINE alerts == {i \in rows : AlertAt(s[i], v, t)}
           y == Of(s, ATTACKS)
<1>1. IsFiniteSet(rows) /\ \A i \in rows : s[i] \in Request
  <2>1. PICK n \in 0..MAX_ROWS : s \in [1..n -> Request]
    BY DEF Tunable, Sessions
  <2>2. rows \subseteq 1..n /\ IsFiniteSet(1..n)
    BY <2>1, FS_Interval, BoundsAssumption DEF Tunable
  <2> QED
    BY <2>1, <2>2, FS_Subset
<1>2. /\ IsFiniteSet(alerts \cap y) /\ IsFiniteSet(alerts \ y)
      /\ IsFiniteSet((rows \ alerts) \cap y) /\ IsFiniteSet(rows \cap y)
  <2>1. /\ alerts \cap y \in SUBSET rows /\ alerts \ y \in SUBSET rows
        /\ (rows \ alerts) \cap y \in SUBSET rows /\ rows \cap y \in SUBSET rows
    OBVIOUS
  <2> HIDE DEF alerts, y
  <2> QED
    BY <1>1, <2>1, FS_Subset
<1>3. (alerts \cap y) \cup ((rows \ alerts) \cap y) = rows \cap y
      /\ (alerts \cap y) \cap ((rows \ alerts) \cap y) = {}
  OBVIOUS
<1>4. rows \cap y # {}
  BY DEF Tunable
<1>5. Hits(s, rows, v, t) = [tp |-> Cardinality(alerts \cap y), fp |-> Cardinality(alerts \ y),
                             fn |-> Cardinality((rows \ alerts) \cap y)]
  BY DEF Hits
<1> HIDE DEF alerts, y
<1> DEFINE tp == Cardinality(alerts \cap y)
           fp == Cardinality(alerts \ y)
           fn == Cardinality((rows \ alerts) \cap y)
<1>6. tp \in Nat /\ fp \in Nat /\ fn \in Nat /\ Cardinality(rows \cap y) \in Nat \ {0}
  BY <1>2, <1>4, FS_CardinalityType, FS_EmptySet
<1>7. tp + fn = Cardinality(rows \cap y)
  <2>1. Cardinality((alerts \cap y) \cup ((rows \ alerts) \cap y))
          = tp + fn - Cardinality((alerts \cap y) \cap ((rows \ alerts) \cap y))
    BY <1>2, FS_Union
  <2>2. Cardinality((alerts \cap y) \cap ((rows \ alerts) \cap y)) = 0
    BY <1>3, FS_EmptySet
  <2> HIDE DEF tp, fn
  <2> QED
    BY <1>3, <1>6, <2>1, <2>2
<1>8. /\ Hits(s, rows, v, t).tp = tp /\ Hits(s, rows, v, t).fp = fp
      /\ Hits(s, rows, v, t).fn = fn
  BY <1>5
<1> HIDE DEF tp, fp, fn
<1>9. 2 * tp + fp + fn \in Nat \ {0}
  BY <1>6, <1>7, Summed
<1>10. Counted(Hits(s, rows, v, t), Cardinality(rows \cap y))
  BY <1>6, <1>7, <1>8, <1>9 DEF Counted
<1> QED
  BY <1>1, <1>6, <1>10 DEF y

LEMMA HitsOrder ==
  ASSUME NEW v \in detector, NEW s, NEW rows, Tunable(s, rows), NEW a, NEW b, NEW c
  PROVE  /\ ~Better(Hits(s, rows, v, a), Hits(s, rows, v, a))
         /\ Better(Hits(s, rows, v, a), Hits(s, rows, v, b))
              /\ Better(Hits(s, rows, v, b), Hits(s, rows, v, c))
            => Better(Hits(s, rows, v, a), Hits(s, rows, v, c))
<1> DEFINE n == Cardinality(rows \cap Of(s, ATTACKS))
<1>1. /\ n \in Nat \ {0} /\ Counted(Hits(s, rows, v, a), n)
      /\ Counted(Hits(s, rows, v, b), n) /\ Counted(Hits(s, rows, v, c), n)
  BY HitsCount
<1> HIDE DEF n
<1> QED
  BY <1>1, BetterIsTransitive

\* The scores seen, and the one that is chosen of them.
LEMMA BestOfSeen ==
  ASSUME NEW v \in detector, NEW s, NEW rows, Tunable(s, rows)
  PROVE  LET seen == {s[i].score[v] : i \in rows}
             t == best_f1_threshold(s, rows, v)
         IN  /\ IsFiniteSet(seen) /\ seen \subseteq Int /\ t \in seen
             /\ \A u \in seen : ~Better(Hits(s, rows, v, u), Hits(s, rows, v, t))
<1> DEFINE seen == {s[i].score[v] : i \in rows}
           H(t) == Hits(s, rows, v, t)
           n == Cardinality(rows \cap Of(s, ATTACKS))
           best == {t \in seen : \A u \in seen : ~Better(H(u), H(t))}
<1>1. IsFiniteSet(rows) /\ n \in Nat \ {0} /\ \A i \in rows : s[i] \in Request
      /\ \A t : Counted(H(t), n)
  BY HitsCount
<1>2. seen \subseteq Int /\ seen # {}
  <2>1. \A i \in rows : s[i].score[v] \in Scores
    <3> TAKE i \in rows
    <3>1. s[i].score \in [detector -> Scores]
      BY <1>1 DEF Request
    <3> QED
      BY <3>1
  <2>2. seen \subseteq Int
    BY <2>1, ScoresAssumption
  <2>3. rows # {}
    BY DEF Tunable
  <2> QED
    BY <2>2, <2>3
<1>3. IsFiniteSet(seen)
  <2> DEFINE f == [i \in rows |-> s[i].score[v]]
  <2>1. f \in Surjection(rows, seen)
    BY DEF Surjection
  <2> QED
    BY <1>1, <2>1, FS_Surjection
<1>4. best # {}
  <2> DEFINE R == {p \in seen \X seen : Better(H(p[1]), H(p[2]))}
  <2>1. \A a, b \in seen : <<a, b>> \in R <=> Better(H(a), H(b))
    OBVIOUS
  <2> HIDE DEF R, seen
  <2>2. \A a, b, c \in seen : Better(H(a), H(b)) /\ Better(H(b), H(c)) => Better(H(a), H(c))
    BY HitsOrder
  <2>3. \A a \in seen : ~Better(H(a), H(a))
    BY HitsOrder
  <2>4. \E t \in seen : \A u \in seen : <<u, t>> \notin R
    <3>1. \A a, b, c \in seen : <<a, b>> \in R /\ <<b, c>> \in R => <<a, c>> \in R
      BY <2>1, <2>2, Zenon
    <3>2. \A a \in seen : <<a, a>> \notin R
      BY <2>1, <2>3, Zenon
    <3> QED
      BY <1>2, <1>3, <3>1, <3>2, NothingBefore
  <2> QED
    BY <2>1, <2>4
<1>5. best_f1_threshold(s, rows, v) = CHOOSE t \in best : \A u \in best : t <= u
  BY DEF best_f1_threshold
<1>6. \E t \in best : \A u \in best : t <= u
  <2>1. best \in SUBSET seen
    OBVIOUS
  <2> HIDE DEF best, seen
  <2>2. IsFiniteSet(best) /\ best \subseteq Int
    BY <1>2, <1>3, <2>1, FS_Subset
  <2> QED
    BY <1>4, <2>2, Lowest
<1>7. best_f1_threshold(s, rows, v) \in best
  <2> HIDE DEF best
  <2> QED
    BY <1>5, <1>6
<1> QED
  BY <1>2, <1>3, <1>7

\* As evaluate.py counts, the alerts at a threshold are Hits.
LEMMA GradedAsHits ==
  ASSUME NEW v, detector = {v}, NEW s, NEW rows, Tunable(s, rows),
         NEW t, NEW at, at[v] = t
  PROVE  LET g == quality_metrics(s, rows, predict(s, at))
             h == Hits(s, rows, v, t)
         IN  g.TP = h.tp /\ g.FP = h.fp /\ g.FN = h.fn
<1> DEFINE alerts == {i \in rows : AlertAt(s[i], v, t)}
           pred == predict(s, at)
           y == Of(s, ATTACKS)
<1>1. rows \cap pred = alerts /\ rows \ pred = rows \ alerts
  BY DEF predict, Tunable
<1> HIDE DEF pred
<1>2. /\ quality_metrics(s, rows, pred).TP = Cardinality(rows \cap pred \cap y)
      /\ quality_metrics(s, rows, pred).FP = Cardinality((rows \cap pred) \ y)
      /\ quality_metrics(s, rows, pred).FN = Cardinality((rows \ pred) \cap y)
  BY DEF quality_metrics
<1>3. /\ Hits(s, rows, v, t).tp = Cardinality(alerts \cap y)
      /\ Hits(s, rows, v, t).fp = Cardinality(alerts \ y)
      /\ Hits(s, rows, v, t).fn = Cardinality((rows \ alerts) \cap y)
  BY DEF Hits
<1> HIDE DEF alerts, y
<1> QED
  BY <1>1, <1>2, <1>3 DEF pred

\* Between two scores seen, the alerts do not change; above them all there is none.
LEMMA CutOffsSeen ==
  ASSUME NEW v \in detector, NEW s, NEW rows, Tunable(s, rows), NEW x \in Int
  PROVE  LET seen == {s[i].score[v] : i \in rows}
         IN  \/ \E y \in seen : Hits(s, rows, v, x) = Hits(s, rows, v, y)
             \/ Hits(s, rows, v, x).tp = 0 /\ Hits(s, rows, v, x).fp = 0
<1> DEFINE seen == {s[i].score[v] : i \in rows}
           above == {y \in seen : y >= x}
<1>1. IsFiniteSet(seen) /\ seen \subseteq Int
  BY BestOfSeen
<1>2. CASE above = {}
  <2>1. {i \in rows : AlertAt(s[i], v, x)} = {}
    BY <1>2 DEF AlertAt
  <2>2. /\ Hits(s, rows, v, x).tp = Cardinality({} \cap Of(s, ATTACKS))
        /\ Hits(s, rows, v, x).fp = Cardinality({} \ Of(s, ATTACKS))
    BY <2>1 DEF Hits
  <2> QED
    BY <2>2, FS_EmptySet
<1>3. CASE above # {}
  <2>1. above \in SUBSET seen
    OBVIOUS
  <2>2. IsFiniteSet(above) /\ above \subseteq Int
    BY <1>1, <2>1, FS_Subset
  <2>3. PICK y \in above : \A z \in above : y <= z
    BY <1>3, <2>2, Lowest
  <2>4. \A i \in rows : AlertAt(s[i], v, x) <=> AlertAt(s[i], v, y)
    <3> TAKE i \in rows
    <3>1. s[i].score[v] \in Int /\ y \in Int /\ y >= x /\ s[i].score[v] \in seen
      BY <1>1, <2>3
    <3>2. s[i].score[v] >= x => s[i].score[v] >= y
      BY <2>3, <3>1
    <3> QED
      BY <3>1, <3>2 DEF AlertAt
  <2>5. {i \in rows : AlertAt(s[i], v, x)} = {i \in rows : AlertAt(s[i], v, y)}
    BY <2>4
  <2> QED
    BY <2>5 DEF Hits
<1> QED
  BY <1>2, <1>3

\* The threshold chosen catches an attack: the lowest score seen does.
LEMMA BestCatches ==
  ASSUME NEW v \in detector, NEW s, NEW rows, Tunable(s, rows)
  PROVE  Hits(s, rows, v, best_f1_threshold(s, rows, v)).tp > 0
<1> DEFINE seen == {s[i].score[v] : i \in rows}
           t == best_f1_threshold(s, rows, v)
           n == Cardinality(rows \cap Of(s, ATTACKS))
<1>1. /\ IsFiniteSet(seen) /\ seen \subseteq Int /\ t \in seen
      /\ \A u \in seen : ~Better(Hits(s, rows, v, u), Hits(s, rows, v, t))
  BY BestOfSeen
<1>2. PICK u \in seen : \A z \in seen : u <= z
  BY <1>1, Lowest
<1>3. {i \in rows : AlertAt(s[i], v, u)} = rows
  <2>1. \A i \in rows : s[i].score[v] \in seen /\ s[i].score[v] \in Int /\ u \in Int
    BY <1>1
  <2>2. \A i \in rows : AlertAt(s[i], v, u)
    BY <1>2, <2>1 DEF AlertAt
  <2> QED
    BY <2>2
<1>4. Hits(s, rows, v, u).tp = n
  BY <1>3 DEF Hits
<1>5. n \in Nat \ {0} /\ Counted(Hits(s, rows, v, u), n) /\ Counted(Hits(s, rows, v, t), n)
  BY HitsCount
<1>6. ~Better(Hits(s, rows, v, u), Hits(s, rows, v, t))
  BY <1>1
<1> DEFINE a == Hits(s, rows, v, u)
           b == Hits(s, rows, v, t)
           p == 2 * a.tp + a.fp + a.fn
           q == 2 * b.tp + b.fp + b.fn
<1>7. a.tp \in Nat \ {0} /\ b.tp \in Nat /\ p \in Nat \ {0} /\ q \in Nat \ {0}
  BY <1>4, <1>5 DEF Counted
<1>8. ~(a.tp * q > b.tp * p)
  BY <1>6, Zenon DEF Better
<1> HIDE DEF a, b, p, q
<1>9. CASE b.tp = 0
  <2>1. b.tp * p = 0
    BY <1>7, <1>9
  <2>2. a.tp * q > 0 * q
    BY <1>7, Scale
  <2>3. 0 * q = 0
    BY <1>7
  <2> QED
    BY <1>8, <2>1, <2>2, <2>3
<1> QED
  BY <1>7, <1>9 DEF b

\* Not even between the scores seen is there a better threshold.
LEMMA BestOfAll ==
  ASSUME NEW v, detector = {v}, NEW s, NEW rows, Tunable(s, rows), NEW x \in Int,
         NEW at, at[v] = x, NEW best, best[v] = best_f1_threshold(s, rows, v)
  PROVE  NoWorse(quality_metrics(s, rows, predict(s, best)),
                 quality_metrics(s, rows, predict(s, at)))
<1> DEFINE t == best_f1_threshold(s, rows, v)
           seen == {s[i].score[v] : i \in rows}
           n == Cardinality(rows \cap Of(s, ATTACKS))
           a == Hits(s, rows, v, t)
           b == Hits(s, rows, v, x)
           g == quality_metrics(s, rows, predict(s, best))
           h == quality_metrics(s, rows, predict(s, at))
           p == 2 * a.tp + a.fp + a.fn
           q == 2 * b.tp + b.fp + b.fn
           A == a.tp * q
           B == b.tp * p
<1>1. v \in detector
  OBVIOUS
<1>2. g.TP = a.tp /\ g.FP = a.fp /\ g.FN = a.fn
  BY GradedAsHits
<1>3. h.TP = b.tp /\ h.FP = b.fp /\ h.FN = b.fn
  BY GradedAsHits
<1>4. Counted(a, n) /\ Counted(b, n)
  BY <1>1, HitsCount
<1>5. /\ a.tp \in Nat /\ b.tp \in Nat /\ a.fp \in Nat /\ b.fp \in Nat
      /\ p \in Nat \ {0} /\ q \in Nat \ {0}
  BY <1>4 DEF Counted
<1>6. NoWorse(g, h) <=> A > B \/ (A = B /\ a.fp <= b.fp)
  BY <1>2, <1>3, Zenon DEF NoWorse
<1>7. Better(b, a) <=> B > A \/ (B = A /\ b.fp < a.fp)
  BY Zenon DEF Better
<1>8. \/ \E y \in seen : b = Hits(s, rows, v, y)
      \/ b.tp = 0
  BY <1>1, CutOffsSeen
<1>9. \A u \in seen : ~Better(Hits(s, rows, v, u), a)
  BY <1>1, BestOfSeen
<1>10. a.tp > 0
  BY <1>1, BestCatches
<1>11. ~Better(b, a) \/ b.tp = 0
  BY <1>8, <1>9, Zenon
<1> HIDE DEF a, b, p, q, g, h
<1>12. A \in Int /\ B \in Int
  BY <1>5
<1>13. CASE b.tp = 0
  <2>1. B = 0
    BY <1>5, <1>13
  <2>2. A > 0 * q
    BY <1>5, <1>10, Scale
  <2>3. 0 * q = 0
    BY <1>5
  <2> HIDE DEF A, B
  <2> QED
    BY <1>6, <2>1, <2>2, <2>3 DEF g, h
<1>14. CASE ~Better(b, a)
  <2> HIDE DEF A, B
  <2>1. NoWorse(g, h)
    BY <1>5, <1>6, <1>7, <1>12, <1>14
  <2> QED
    BY <2>1 DEF g, h
<1> QED
  BY <1>11, <1>13, <1>14

----------------------------------------------------------------------------
(* A tuned threshold is set from a session with attacks, of one view.      *)
BestInv ==
  /\ script \in DOMAIN Thresholds
  /\ threshold \in Tuned => \E v : detector = {v}
  /\ Calibrated /\ threshold \in Tuned =>
       /\ Tunable(session, without(session, threshold))
       /\ thr = [v \in detector |->
                   best_f1_threshold(session, without(session, threshold), v)]

LEMMA BestInit == Init => BestInv
<1> SUFFICES ASSUME Init PROVE BestInv
  OBVIOUS
<1>1. /\ script \in DOMAIN Thresholds /\ detector \in Detectors(script, threshold)
      /\ step = "calibrate"
  BY DEF Init
<1>2. threshold \in Tuned => threshold # "label-free"
  BY DEF Tuned, LeaveOneOut, LOAO
<1>3. threshold \in Tuned => \E v : detector = {v}
  BY <1>1, <1>2 DEF Detectors
<1> QED
  BY <1>1, <1>3 DEF BestInv, Calibrated

LEMMA BestNext == BestInv /\ [Next]_vars => BestInv'
<1> SUFFICES ASSUME BestInv, [Next]_vars PROVE BestInv'
  OBVIOUS
<1>1. CASE Boundary
  BY <1>1 DEF Boundary, BestInv, Calibrated
<1>2. CASE Calibrate
  <2>1. UNCHANGED <<script, threshold, detector>>
    BY <1>2 DEF Calibrate
  <2>2. PICK s \in Sessions(MAX_ROWS) :
          session' = s /\ IF threshold \in Tuned THEN calibrate(s) ELSE calibrate_normal(s)
    BY <1>2 DEF Calibrate
  <2>3. ASSUME Calibrated', threshold \in Tuned
        PROVE  /\ without(s, threshold) \cap Of(s, ATTACKS) # {}
               /\ thr' = [v \in detector |-> best_f1_threshold(s, without(s, threshold), v)]
    <3>1. calibrate(s)
      BY <2>2, <2>3
    <3> QED
      BY <2>3, <3>1 DEF calibrate, Calibrated
  <2>4. without(s, threshold) \subseteq DOMAIN s
    BY DEF without, scored_mask, Of
  <2>5. s \in Sessions(MAX_ROWS)'
    BY <2>1 DEF Sessions, Request
  <2>6. ASSUME Calibrated', threshold \in Tuned
        PROVE  /\ Tunable(session, without(session, threshold))'
               /\ thr' = [v \in detector' |->
                            best_f1_threshold(session', without(session', threshold'), v)]
    BY <2>1, <2>2, <2>3, <2>4, <2>5, <2>6 DEF Tunable
  <2> QED
    BY <2>1, <2>6 DEF BestInv
<1>3. CASE score_runs \/ ScoreRun
  <2>1. UNCHANGED <<script, threshold, detector>> /\ ~Calibrated'
    BY <1>3 DEF score_runs, ScoreRun, Add, Calibrated
  <2> QED
    BY <2>1 DEF BestInv
<1>4. CASE UNCHANGED vars
  BY <1>4 DEF vars, BestInv, Calibrated, Tunable, Sessions, Request
<1> QED
  BY <1>1, <1>2, <1>3, <1>4 DEF Next

LEMMA BestFollows == BestInv => BestF1IsBest
<1> SUFFICES ASSUME BestInv, Calibrated, threshold \in Tuned PROVE BestF1IsBest
  BY DEF BestF1IsBest
<1> DEFINE rows == without(session, threshold)
           at(x) == [v \in detector |-> x]
<1>1. PICK v : detector = {v}
  BY DEF BestInv
<1>2. Tunable(session, rows) /\ thr[v] = best_f1_threshold(session, rows, v)
  BY <1>1 DEF BestInv
<1>3. ASSUME NEW x \in Scores \cup {s + 1 : s \in Scores}
      PROVE  NoWorse(quality_metrics(session, rows, predict(session, thr)),
                     quality_metrics(session, rows, predict(session, at(x))))
  <2>1. x \in Int
    BY ScoresAssumption
  <2>2. at(x)[v] = x
    BY <1>1
  <2> HIDE DEF at, rows
  <2> QED
    BY <1>1, <1>2, <2>1, <2>2, BestOfAll
<1> QED
  BY <1>3 DEF BestF1IsBest

\* calibrate finds the best F1 there is, and with the fewest false alarms, though it
\* tries the scores it has seen only: for any scores and sessions of any length.
THEOREM Best == Spec => []BestF1IsBest
<1>1. Init => BestInv
  BY BestInit
<1>2. BestInv /\ [Next]_vars => BestInv'
  BY BestNext
<1>3. BestInv => BestF1IsBest
  BY BestFollows
<1> QED
  BY <1>1, <1>2, <1>3, PTL DEF Spec

----------------------------------------------------------------------------
(* Sums over the runs.                                                     *)

\* g holds the sums of the first k values of c, for all k up to n.
Sums(g, c, n) == g = [k \in 0..n |-> IF k = 0 THEN 0 ELSE g[k - 1] + c[k]]

LEMMA SumsExist ==
  ASSUME NEW c, NEW n \in Nat
  PROVE  \E g : Sums(g, c, n)
<1> DEFINE sumless == {k \in Nat : \A g : ~Sums(g, c, k)}
<1> SUFFICES ASSUME sumless # {} PROVE FALSE
  OBVIOUS
<1>1. PICK m \in sumless : \A k \in sumless : m <= k
  BY LeastOf
<1>2. m # 0
  <2>1. Sums([k \in 0..0 |-> 0], c, 0)
    BY DEF Sums
  <2> QED
    BY <1>1, <2>1
<1>3. m \in Nat /\ m - 1 \in Nat /\ m - 1 \notin sumless
  BY <1>1, <1>2
<1>4. PICK g : Sums(g, c, m - 1)
  BY <1>3
<1> DEFINE h == [k \in 0..m |-> IF k = m THEN g[m - 1] + c[m] ELSE g[k]]
<1>5. \A k \in 0..m : h[k] = IF k = 0 THEN 0 ELSE h[k - 1] + c[k]
  <2> TAKE k \in 0..m
  <2>1. CASE k = m
    BY <1>2, <1>3, <2>1
  <2>2. CASE k # m
    <3>1. k \in 0..m-1 /\ h[k] = g[k] /\ (k # 0 => h[k - 1] = g[k - 1])
      BY <1>3, <2>2
    <3>2. g[k] = IF k = 0 THEN 0 ELSE g[k - 1] + c[k]
      BY <1>4, <3>1 DEF Sums
    <3> QED
      BY <3>1, <3>2
  <2> QED
    BY <2>1, <2>2
<1>6. Sums(h, c, m)
  <2>1. h = [k \in 0..m |-> h[k]]
    OBVIOUS
  <2> HIDE DEF h
  <2> QED
    BY <1>5, <2>1 DEF Sums
<1> QED
  BY <1>1, <1>6

\* Of columns that agree up to n.
LEMMA SumsAgree ==
  ASSUME NEW c, NEW d, NEW n \in Nat, \A k \in 1..n : d[k] = c[k]
  PROVE  \A g, h : Sums(g, c, n) /\ Sums(h, d, n + 1) => g[n] = h[n]
<1> SUFFICES ASSUME NEW g, NEW h, Sums(g, c, n), Sums(h, d, n + 1)
             PROVE  g[n] = h[n]
  OBVIOUS
<1> DEFINE bad == {k \in 0..n : g[k] # h[k]}
<1> SUFFICES ASSUME bad # {} PROVE FALSE
  BY DEF bad
<1>1. PICK k \in bad : \A j \in bad : k <= j
  <2>1. bad \subseteq Nat
    OBVIOUS
  <2> HIDE DEF bad
  <2> QED
    BY <2>1, LeastOf
<1>2. /\ k \in 0..n /\ k \in 0..n+1
      /\ g[k] = (IF k = 0 THEN 0 ELSE g[k - 1] + c[k])
      /\ h[k] = (IF k = 0 THEN 0 ELSE h[k - 1] + d[k])
  BY <1>1 DEF Sums
<1>3. k # 0
  BY <1>1, <1>2
<1>4. k - 1 \in 0..n /\ k \in 1..n /\ ~(k <= k - 1)
  BY <1>2, <1>3
<1>5. g[k - 1] = h[k - 1]
  BY <1>1, <1>4
<1> QED
  BY <1>1, <1>2, <1>4, <1>5

LEMMA SumToSums ==
  ASSUME NEW c, NEW n \in Nat
  PROVE  \E g : Sums(g, c, n) /\ SumTo(c, n) = g[n]
<1> DEFINE g == CHOOSE g : g = [k \in 0..n |-> IF k = 0 THEN 0 ELSE g[k - 1] + c[k]]
<1>1. Sums(g, c, n)
  BY SumsExist DEF Sums
<1>2. SumTo(c, n) = g[n]
  BY DEF SumTo
<1> QED
  BY <1>1, <1>2

LEMMA SumOfNone == \A c : SumTo(c, 0) = 0
<1> TAKE c
<1>1. PICK g : Sums(g, c, 0) /\ SumTo(c, 0) = g[0]
  BY SumToSums
<1> QED
  BY <1>1 DEF Sums

\* One more run adds its own value.
LEMMA SumOfOneMore ==
  ASSUME NEW c, NEW d, NEW n \in Nat, \A k \in 1..n : d[k] = c[k]
  PROVE  SumTo(d, n + 1) = SumTo(c, n) + d[n + 1]
<1>1. PICK g : Sums(g, c, n) /\ SumTo(c, n) = g[n]
  BY SumToSums
<1>2. PICK h : Sums(h, d, n + 1) /\ SumTo(d, n + 1) = h[n + 1]
  BY SumToSums
<1>3. \A e, f : Sums(e, c, n) /\ Sums(f, d, n + 1) => e[n] = f[n]
  BY SumsAgree
<1>5. g[n] = h[n]
  BY <1>1, <1>2, <1>3
<1>4. h[n + 1] = h[n] + d[n + 1]
  BY <1>2 DEF Sums
<1> QED
  BY <1>1, <1>2, <1>4, <1>5

----------------------------------------------------------------------------
(* Graded once.                                                            *)

\* Of n requests of attack a, those that are graded.
Kept(a, n) == IF threshold = LOAO[a] THEN 0 ELSE n
KeptOfBoth(m, n) == Kept("replay", m) + Kept("injection", n)

\* Requests of label l in session s that the detector flags, and that it passes.
FlaggedIn(s, l) == Cardinality(Of(s, {l}) \cap predict(s, thr))
PassedIn(s, l) == Cardinality(Of(s, {l}) \ predict(s, thr))

LEMMA LabelCounts ==
  ASSUME NEW s \in Sessions(MAX_TEST), NEW l
  PROVE  /\ IsFiniteSet(Of(s, {l}) \cap predict(s, thr)) /\ FlaggedIn(s, l) \in Nat
         /\ IsFiniteSet(Of(s, {l}) \ predict(s, thr)) /\ PassedIn(s, l) \in Nat
         /\ Cardinality(Of(s, {l})) = FlaggedIn(s, l) + PassedIn(s, l)
<1>1. IsFiniteSet(Of(s, {l}))
  BY SessionRows, BoundsAssumption
<1> DEFINE F == Of(s, {l}) \cap predict(s, thr)
           P == Of(s, {l}) \ predict(s, thr)
<1>2. IsFiniteSet(F) /\ IsFiniteSet(P) /\ F \cap P = {} /\ F \cup P = Of(s, {l})
  BY <1>1, FS_Subset
<1> HIDE DEF F, P
<1>3. /\ Cardinality(F \cup P) = Cardinality(F) + Cardinality(P) - Cardinality(F \cap P)
      /\ Cardinality(F) \in Nat /\ Cardinality(P) \in Nat
  BY <1>2, FS_Union, FS_CardinalityType
<1>4. Cardinality(F \cap P) = 0
  BY <1>2, FS_EmptySet
<1>5. Cardinality(Of(s, {l})) = Cardinality(F) + Cardinality(P)
  <2>1. Cardinality(F \cup P) = Cardinality(Of(s, {l}))
    BY <1>2, Zenon
  <2> HIDE <1>2
  <2> QED
    BY <1>3, <1>4, <2>1
<1> QED
  BY <1>2, <1>3, <1>5 DEF F, P, FlaggedIn, PassedIn

\* The attack requests of a session that are graded and of which Which holds.
LEMMA KeptCount ==
  ASSUME NEW s \in Sessions(MAX_TEST), NEW which
  PROVE  LET kept(a) == Graded(s) \cap which \cap Of(s, {a})
             n(a) == Cardinality(Of(s, {a}) \cap which)
         IN  /\ \A a \in ATTACKS : IsFiniteSet(kept(a)) /\ Cardinality(kept(a)) = Kept(a, n(a))
             /\ Cardinality(Graded(s) \cap which \cap Of(s, ATTACKS))
                  = KeptOfBoth(n("replay"), n("injection"))
<1> DEFINE kept(a) == Graded(s) \cap which \cap Of(s, {a})
           n(a) == Cardinality(Of(s, {a}) \cap which)
<1>1. ASSUME NEW a \in ATTACKS
      PROVE  /\ IsFiniteSet(kept(a)) /\ Cardinality(kept(a)) = Kept(a, n(a))
             /\ Cardinality(kept(a)) \in Nat
  <2>1. kept(a) = IF threshold = LOAO[a] THEN {} ELSE Of(s, {a}) \cap which
    BY DEF Graded, scored_mask, Of
  <2>2. IsFiniteSet(Of(s, {a}) \cap which)
    BY SessionRows, BoundsAssumption, FS_Subset
  <2> QED
    BY <2>1, <2>2, FS_EmptySet, FS_CardinalityType DEF Kept
<1>2. PICK A, B : A = kept("replay") /\ B = kept("injection")
  OBVIOUS
<1>3. /\ Graded(s) \cap which \cap Of(s, ATTACKS) = A \cup B
      /\ A \cap B = {}
  BY <1>2 DEF Of
<1>4. /\ IsFiniteSet(A) /\ Cardinality(A) \in Nat /\ Cardinality(A) = Kept("replay", n("replay"))
      /\ IsFiniteSet(B) /\ Cardinality(B) \in Nat /\ Cardinality(B) = Kept("injection", n("injection"))
  BY <1>1, <1>2
<1> HIDE DEF kept, n
<1>5. Cardinality(A \cup B) = Cardinality(A) + Cardinality(B) - Cardinality(A \cap B)
  BY <1>4, FS_Union
<1>6. Cardinality(A \cap B) = 0
  BY <1>3, FS_EmptySet
<1>7. Cardinality(A \cup B) = Cardinality(A) + Cardinality(B)
  BY <1>4, <1>5, <1>6
<1>8. Cardinality(Graded(s) \cap which \cap Of(s, ATTACKS)) = KeptOfBoth(n("replay"), n("injection"))
  BY <1>3, <1>4, <1>7 DEF KeptOfBoth
<1> QED
  BY <1>1, <1>8 DEF kept, n

\* What a row says of its session.
LEMMA RowFigures ==
  ASSUME NEW s \in Sessions(MAX_TEST)
  PROVE  LET q == quality_metrics(s, Graded(s), predict(s, thr))
             p == per_type_recall(s, Graded(s), predict(s, thr))
         IN  /\ q.TP = KeptOfBoth(FlaggedIn(s, "replay"), FlaggedIn(s, "injection"))
             /\ q.FN = KeptOfBoth(PassedIn(s, "replay"), PassedIn(s, "injection"))
             /\ q.FP = FlaggedIn(s, "benign") /\ q.TN = PassedIn(s, "benign")
             /\ \A a \in ATTACKS : /\ p.tp[a] = Kept(a, FlaggedIn(s, a))
                                   /\ p.n[a] = Kept(a, FlaggedIn(s, a) + PassedIn(s, a))
<1> DEFINE pred == predict(s, thr)
           rows == Graded(s)
           rest == DOMAIN s \ pred
           y == Of(s, ATTACKS)
<1>1. Cardinality(rows \cap pred \cap y) = KeptOfBoth(FlaggedIn(s, "replay"), FlaggedIn(s, "injection"))
  BY KeptCount DEF FlaggedIn
<1>2. \A a : Of(s, {a}) \ pred = Of(s, {a}) \cap rest
  BY DEF Of
<1>3. Cardinality((rows \ pred) \cap y) = KeptOfBoth(PassedIn(s, "replay"), PassedIn(s, "injection"))
  <2>1. (rows \ pred) \cap y = rows \cap rest \cap y
    BY DEF Of
  <2>2. PassedIn(s, "replay") = Cardinality(Of(s, {"replay"}) \cap rest)
    BY <1>2 DEF PassedIn
  <2>3. PassedIn(s, "injection") = Cardinality(Of(s, {"injection"}) \cap rest)
    BY <1>2 DEF PassedIn
  <2> HIDE DEF rest
  <2> QED
    BY <2>1, <2>2, <2>3, KeptCount
<1>4. (rows \cap pred) \ y = Of(s, {"benign"}) \cap pred
  BY DEF Graded, scored_mask, Of
<1>5. rows \ (pred \cup y) = Of(s, {"benign"}) \ pred
  BY DEF Graded, scored_mask, Of
<1>6. ASSUME NEW a \in ATTACKS
      PROVE  /\ Cardinality(rows \cap pred \cap Of(s, {a})) = Kept(a, FlaggedIn(s, a))
             /\ Cardinality(rows \cap Of(s, {a})) = Kept(a, FlaggedIn(s, a) + PassedIn(s, a))
  <2>1. Cardinality(rows \cap pred \cap Of(s, {a})) = Kept(a, FlaggedIn(s, a))
    BY KeptCount DEF FlaggedIn
  <2>2. rows \cap Of(s, {a}) = rows \cap DOMAIN s \cap Of(s, {a}) /\ Of(s, {a}) = Of(s, {a}) \cap DOMAIN s
    BY DEF Of
  <2>3. Cardinality(rows \cap DOMAIN s \cap Of(s, {a})) = Kept(a, Cardinality(Of(s, {a}) \cap DOMAIN s))
    BY KeptCount
  <2>4. Cardinality(Of(s, {a})) = FlaggedIn(s, a) + PassedIn(s, a)
    BY LabelCounts
  <2> HIDE DEF rows, pred
  <2> QED
    BY <2>1, <2>2, <2>3, <2>4
<1> HIDE DEF rows, pred, y
<1>7. LET q == quality_metrics(s, rows, pred) IN
        /\ q.TP = Cardinality(rows \cap pred \cap y) /\ q.FP = Cardinality((rows \cap pred) \ y)
        /\ q.FN = Cardinality((rows \ pred) \cap y) /\ q.TN = Cardinality(rows \ (pred \cup y))
  BY DEF quality_metrics, y
<1>8. LET p == per_type_recall(s, rows, pred) IN
        \A a \in ATTACKS : /\ p.tp[a] = Cardinality(rows \cap pred \cap Of(s, {a}))
                           /\ p.n[a] = Cardinality(rows \cap Of(s, {a}))
  BY DEF per_type_recall
<1>9. FlaggedIn(s, "benign") = Cardinality(Of(s, {"benign"}) \cap pred)
      /\ PassedIn(s, "benign") = Cardinality(Of(s, {"benign"}) \ pred)
  BY DEF FlaggedIn, PassedIn, pred
<1> QED
  BY <1>1, <1>3, <1>4, <1>5, <1>6, <1>7, <1>8, <1>9 DEF rows, pred

\* One more run, in every column of the results.
LEMMA OneMoreRun ==
  ASSUME NEW S, results \in Seq(S), NEW r, results' = Append(results, r)
  PROVE  /\ \A f : Pooled(f)' = Pooled(f) + r.quality[f]
         /\ \A f, a : PooledOf(f, a)' = PooledOf(f, a) + r.per_type[f][a]
         /\ \A f : RowTotal(f)' = RowTotal(f) + r[f]
         /\ \A f, a : RowTotalOf(f, a)' = RowTotalOf(f, a) + r[f][a]
<1>1. PICK n \in Nat : n = Len(results)
  OBVIOUS
<1>2. /\ results' \in Seq(S \cup {r}) /\ Len(results') = n + 1
      /\ DOMAIN results = 1..n /\ DOMAIN results' = 1..n+1
      /\ results'[n + 1] = r /\ \A k \in 1..n : results'[k] = results[k]
  <2>1. results \in Seq(S \cup {r})
    OBVIOUS
  <2> QED
    BY <1>1, <2>1
<1>3. \A f : Pooled(f)' = Pooled(f) + r.quality[f]
  <2> TAKE f
  <2> DEFINE c == [k \in DOMAIN results |-> results[k].quality[f]]
             d == [k \in DOMAIN results' |-> results'[k].quality[f]]
  <2>1. d[n + 1] = r.quality[f] /\ \A k \in 1..n : d[k] = c[k]
    BY <1>2
  <2>2. Pooled(f) = SumTo(c, n) /\ Pooled(f)' = SumTo(d, n + 1)
    BY <1>1, <1>2 DEF Pooled, Total
  <2> HIDE DEF c, d
  <2> QED
    BY <2>1, <2>2, SumOfOneMore
<1>4. \A f, a : PooledOf(f, a)' = PooledOf(f, a) + r.per_type[f][a]
  <2> TAKE f, a
  <2> DEFINE c == [k \in DOMAIN results |-> results[k].per_type[f][a]]
             d == [k \in DOMAIN results' |-> results'[k].per_type[f][a]]
  <2>1. d[n + 1] = r.per_type[f][a] /\ \A k \in 1..n : d[k] = c[k]
    BY <1>2
  <2>2. PooledOf(f, a) = SumTo(c, n) /\ PooledOf(f, a)' = SumTo(d, n + 1)
    BY <1>1, <1>2 DEF PooledOf, Total
  <2> HIDE DEF c, d
  <2> QED
    BY <2>1, <2>2, SumOfOneMore
<1>5. \A f : RowTotal(f)' = RowTotal(f) + r[f]
  <2> TAKE f
  <2> DEFINE c == [k \in DOMAIN results |-> results[k][f]]
             d == [k \in DOMAIN results' |-> results'[k][f]]
  <2>1. d[n + 1] = r[f] /\ \A k \in 1..n : d[k] = c[k]
    BY <1>2
  <2>2. RowTotal(f) = SumTo(c, n) /\ RowTotal(f)' = SumTo(d, n + 1)
    BY <1>1, <1>2 DEF RowTotal, Total
  <2> HIDE DEF c, d
  <2> QED
    BY <2>1, <2>2, SumOfOneMore
<1>6. \A f, a : RowTotalOf(f, a)' = RowTotalOf(f, a) + r[f][a]
  <2> TAKE f, a
  <2> DEFINE c == [k \in DOMAIN results |-> results[k][f][a]]
             d == [k \in DOMAIN results' |-> results'[k][f][a]]
  <2>1. d[n + 1] = r[f][a] /\ \A k \in 1..n : d[k] = c[k]
    BY <1>2
  <2>2. RowTotalOf(f, a) = SumTo(c, n) /\ RowTotalOf(f, a)' = SumTo(d, n + 1)
    BY <1>1, <1>2 DEF RowTotalOf, Total
  <2> HIDE DEF c, d
  <2> QED
    BY <2>1, <2>2, SumOfOneMore
<1> QED
  BY <1>3, <1>4, <1>5, <1>6

\* Before any run.
LEMMA NoRuns ==
  ASSUME results = <<>>
  PROVE  /\ \A f : Pooled(f) = 0 /\ RowTotal(f) = 0
         /\ \A f, a : PooledOf(f, a) = 0 /\ RowTotalOf(f, a) = 0
BY SumOfNone DEF Pooled, PooledOf, RowTotal, RowTotalOf, Total

\* The runs in which attack a has no latency.
Missed(a) == {k \in DOMAIN results : results[k].latency[a] = None}

\* The figures of the results are those of the history variables.
FiguresInv ==
  /\ script \in DOMAIN Thresholds /\ threshold \in Thresholds[script]
  /\ \E S : results \in Seq(S)
  /\ count \in [Labels -> [flagged : Nat, passed : Nat]]
  /\ staged \in [ATTACKS -> [runs : Nat, caught : Nat]]
  /\ \A a \in ATTACKS :
       /\ PooledOf("tp", a) = Kept(a, count[a].flagged)
       /\ PooledOf("n", a) = Kept(a, count[a].flagged + count[a].passed)
  /\ script # "harder_attacks" =>
       /\ Pooled("TP") = KeptOfBoth(count["replay"].flagged, count["injection"].flagged)
       /\ Pooled("FN") = KeptOfBoth(count["replay"].passed, count["injection"].passed)
       /\ Pooled("FP") = count["benign"].flagged /\ Pooled("TN") = count["benign"].passed
  /\ script = "harder_attacks" =>
       /\ RowTotal("FP") = count["benign"].flagged /\ RowTotal("TN") = count["benign"].passed
       /\ \A a \in ATTACKS : /\ RowTotalOf("detected", a) = staged[a].caught
                             /\ RowTotalOf("present", a) = staged[a].runs
  /\ script = "multi_run" =>
       \A a \in ATTACKS : /\ IsFiniteSet(Missed(a))
                          /\ Cardinality(Missed(a)) + staged[a].caught = Len(results)

LEMMA FiguresInit == Init => FiguresInv
<1> SUFFICES ASSUME Init PROVE FiguresInv
  OBVIOUS
<1>1. /\ script \in DOMAIN Thresholds /\ threshold \in Thresholds[script] /\ results = <<>>
      /\ count = [l \in Labels |-> [flagged |-> 0, passed |-> 0]]
      /\ staged = [a \in ATTACKS |-> [runs |-> 0, caught |-> 0]]
  BY DEF Init
<1>2. results \in Seq({}) /\ Len(results) = 0 /\ DOMAIN results = {}
  BY <1>1
<1>3. \E S : results \in Seq(S)
  BY <1>2
<1>4. \A l \in Labels : count[l].flagged = 0 /\ count[l].passed = 0
  BY <1>1
<1>5. \A a \in ATTACKS : staged[a].runs = 0 /\ staged[a].caught = 0
  BY <1>1
<1>6. \A a : IsFiniteSet(Missed(a)) /\ Cardinality(Missed(a)) = 0
  <2> TAKE a
  <2>1. Missed(a) = {}
    BY <1>2 DEF Missed
  <2> QED
    BY <2>1, FS_EmptySet
<1>7. ATTACKS \cup {"benign"} \subseteq Labels
  BY DEF Labels
<1>8. /\ \A a \in ATTACKS : Kept(a, 0) = 0 /\ Kept(a, 0 + 0) = 0
      /\ KeptOfBoth(0, 0) = 0
  BY DEF Kept, KeptOfBoth
<1>9. /\ count \in [Labels -> [flagged : Nat, passed : Nat]]
      /\ staged \in [ATTACKS -> [runs : Nat, caught : Nat]]
  BY <1>1
<1> QED
  BY <1>1, <1>2, <1>3, <1>4, <1>5, <1>6, <1>7, <1>8, <1>9, NoRuns DEF FiguresInv

\* Each script's row.
LEMMA RowParts ==
  ASSUME script \in DOMAIN Thresholds, NEW s
  PROVE  LET q == quality_metrics(s, Graded(s), predict(s, thr)) IN
         /\ Row(s).per_type = per_type_recall(s, Graded(s), predict(s, thr))
         /\ script # "harder_attacks" => Row(s).quality = q
         /\ script = "harder_attacks" => Row(s).FP = q.FP /\ Row(s).TN = q.TN
         /\ script = "multi_run" => Row(s).latency = detection_latency(s, predict(s, thr))
<1>1. script \in {"multi_run", "generalization", "harder_attacks"}
  BY DEF Thresholds
<1>2. CASE script = "multi_run"
  BY <1>2 DEF Row, score_run
<1>3. CASE script = "generalization"
  BY <1>3 DEF Row, result_row
<1>4. CASE script = "harder_attacks"
  <2>1. Row(s) = score_session(s, Graded(s), predict(s, thr))
    BY <1>4 DEF Row
  <2> QED
    BY <1>4, <2>1 DEF score_session, quality_metrics
<1> QED
  BY <1>1, <1>2, <1>3, <1>4

\* harder_attacks leaves no attack type out.
LEMMA Detected ==
  ASSUME script = "harder_attacks", threshold \in Thresholds[script], NEW s, NEW a \in ATTACKS
  PROVE  /\ Row(s).detected[a] = IF Of(s, {a}) \cap predict(s, thr) = {} THEN 0 ELSE 1
         /\ Row(s).present[a] = IF Of(s, {a}) = {} THEN 0 ELSE 1
<1>1. threshold \in {"none", "label-free"}
  BY DEF Thresholds
<1>2. Of(s, {a}) \subseteq Graded(s)
  BY <1>1 DEF Graded, scored_mask, Of, LOAO
<1>3. Row(s) = score_session(s, Graded(s), predict(s, thr))
  BY DEF Row
<1>4. /\ Row(s).detected[a] = IF Graded(s) \cap predict(s, thr) \cap Of(s, {a}) # {} THEN 1 ELSE 0
      /\ Row(s).present[a] = IF Graded(s) \cap Of(s, {a}) # {} THEN 1 ELSE 0
  BY <1>3 DEF score_session
<1>5. /\ Graded(s) \cap predict(s, thr) \cap Of(s, {a}) = Of(s, {a}) \cap predict(s, thr)
      /\ Graded(s) \cap Of(s, {a}) = Of(s, {a})
  BY <1>2
<1> QED
  BY <1>4, <1>5

\* A latency is a number: None stands for a missed attack alone.
LEMMA NoLatency ==
  ASSUME NEW s \in Sessions(MAX_TEST), NEW pred, NEW a \in ATTACKS
  PROVE  detection_latency(s, pred)[a] = None <=> Of(s, {a}) \cap pred = {}
<1>1. Of(s, {a}) \subseteq Nat
  BY BoundsAssumption DEF Of, Sessions
<1>2. ASSUME NEW rows, rows \subseteq Nat, rows # {} PROVE First(rows) \in Int
  <2>1. \E i \in rows : \A j \in rows : i <= j
    BY <1>2, LeastOf
  <2>2. First(rows) \in rows
    BY <2>1 DEF First
  <2>3. First(rows) \in Nat
    BY <1>2, <2>2, Zenon
  <2> QED
    BY <2>3
<1>3. ASSUME Of(s, {a}) \cap pred # {} PROVE detection_latency(s, pred)[a] \in Int
  <2>1. First(Of(s, {a}) \cap pred) \in Int /\ First(Of(s, {a})) \in Int
    <3>1. Of(s, {a}) \cap pred \subseteq Nat /\ Of(s, {a}) # {}
      BY <1>1, <1>3
    <3> QED
      BY <1>1, <1>2, <1>3, <3>1
  <2>2. detection_latency(s, pred)[a] = First(Of(s, {a}) \cap pred) - First(Of(s, {a}))
    BY <1>3 DEF detection_latency
  <2> QED
    BY <2>1, <2>2
<1>4. Of(s, {a}) \cap pred = {} => detection_latency(s, pred)[a] = None
  BY DEF detection_latency
<1> QED
  BY <1>3, <1>4, NoneAssumption

LEMMA KeptSum ==
  ASSUME NEW m \in Nat, NEW n \in Nat, NEW k \in Nat, NEW l \in Nat
  PROVE  /\ \A a \in ATTACKS : Kept(a, m) + Kept(a, k) = Kept(a, m + k) /\ Kept(a, m) \in Nat
         /\ KeptOfBoth(m, n) + KeptOfBoth(k, l) = KeptOfBoth(m + k, n + l)
BY DEF Kept, KeptOfBoth

\* A graded session adds to the results what it adds to the history.
LEMMA AddFigures ==
  ASSUME FiguresInv, NEW s \in Sessions(MAX_TEST), Add(s, predict(s, thr)),
         UNCHANGED <<script, threshold, detector, thr>>
  PROVE  FiguresInv'
<1>1. PICK S : results \in Seq(S)
  BY DEF FiguresInv
<1>2. PICK n \in Nat : n = Len(results)
  BY <1>1
<1>21. PICK r : r = Row(s)
  OBVIOUS
<1>3. /\ results' = Append(results, r) /\ results' \in Seq(S \cup {r}) /\ Len(results') = n + 1
      /\ DOMAIN results = 1..n /\ DOMAIN results' = 1..n+1
      /\ results'[n + 1] = r /\ \A k \in 1..n : results'[k] = results[k]
  <2>1. results \in Seq(S \cup {r}) /\ results' = Append(results, r)
    BY <1>1, <1>2, <1>21 DEF Add
  <2> QED
    BY <1>2, <1>21, <2>1
<1>4. /\ \A f : Pooled(f)' = Pooled(f) + r.quality[f]
      /\ \A f, a : PooledOf(f, a)' = PooledOf(f, a) + r.per_type[f][a]
      /\ \A f : RowTotal(f)' = RowTotal(f) + r[f]
      /\ \A f, a : RowTotalOf(f, a)' = RowTotalOf(f, a) + r[f][a]
  BY <1>1, <1>3, OneMoreRun
<1> DEFINE F(l) == FlaggedIn(s, l)
           P(l) == PassedIn(s, l)
<1>5. \A l \in Labels : F(l) \in Nat /\ P(l) \in Nat
  BY LabelCounts
<1>6. /\ count' \in [Labels -> [flagged : Nat, passed : Nat]]
      /\ \A l \in Labels : /\ count'[l].flagged = count[l].flagged + F(l)
                           /\ count'[l].passed = count[l].passed + P(l)
                           /\ count[l].flagged \in Nat /\ count[l].passed \in Nat
  <2>1. count' = [l \in Labels |-> [flagged |-> count[l].flagged + F(l), passed |-> count[l].passed + P(l)]]
    BY DEF Add, FlaggedIn, PassedIn
  <2>2. \A l \in Labels : count[l].flagged \in Nat /\ count[l].passed \in Nat
    BY DEF FiguresInv
  <2> HIDE DEF F, P
  <2> QED
    BY <1>5, <2>1, <2>2
<1>7. /\ staged' \in [ATTACKS -> [runs : Nat, caught : Nat]]
      /\ \A a \in ATTACKS :
           /\ staged'[a].runs = staged[a].runs + (IF Of(s, {a}) = {} THEN 0 ELSE 1)
           /\ staged'[a].caught = staged[a].caught
                                    + (IF Of(s, {a}) \cap predict(s, thr) = {} THEN 0 ELSE 1)
           /\ staged[a].runs \in Nat /\ staged[a].caught \in Nat
  <2> DEFINE there(a) == IF Of(s, {a}) = {} THEN 0 ELSE 1
             hit(a) == IF Of(s, {a}) \cap predict(s, thr) = {} THEN 0 ELSE 1
  <2>1. staged' = [a \in ATTACKS |-> [runs |-> staged[a].runs + there(a),
                                     caught |-> staged[a].caught + hit(a)]]
    BY DEF Add
  <2>2. \A a \in ATTACKS : staged[a].runs \in Nat /\ staged[a].caught \in Nat
    BY DEF FiguresInv
  <2>3. \A a \in ATTACKS : there(a) \in Nat /\ hit(a) \in Nat
    OBVIOUS
  <2> HIDE DEF there, hit
  <2>4. staged' \in [ATTACKS -> [runs : Nat, caught : Nat]]
    BY <2>1, <2>2, <2>3
  <2>5. \A a \in ATTACKS : /\ staged'[a].runs = staged[a].runs + there(a)
                           /\ staged'[a].caught = staged[a].caught + hit(a)
    BY <2>1
  <2> QED
    BY <2>2, <2>4, <2>5 DEF there, hit
<1>8. /\ script \in DOMAIN Thresholds /\ threshold \in Thresholds[script] /\ script' = script
      /\ \A a, m : Kept(a, m)' = Kept(a, m)
      /\ \A k, m : KeptOfBoth(k, m)' = KeptOfBoth(k, m)
      /\ ATTACKS \cup {"benign"} \subseteq Labels
  BY DEF FiguresInv, Kept, KeptOfBoth, Labels
<1> HIDE DEF F, P
<1>9. /\ \A a \in ATTACKS : /\ r.per_type["tp"][a] = Kept(a, F(a))
                            /\ r.per_type["n"][a] = Kept(a, F(a) + P(a))
      /\ script # "harder_attacks" =>
           /\ r.quality["TP"] = KeptOfBoth(F("replay"), F("injection"))
           /\ r.quality["FN"] = KeptOfBoth(P("replay"), P("injection"))
           /\ r.quality["FP"] = F("benign") /\ r.quality["TN"] = P("benign")
      /\ script = "harder_attacks" => r["FP"] = F("benign") /\ r["TN"] = P("benign")
  BY <1>2, <1>21, <1>8, RowParts, RowFigures DEF F, P
<1>10. ASSUME NEW a \in ATTACKS
       PROVE  /\ PooledOf("tp", a)' = Kept(a, count'[a].flagged)
              /\ PooledOf("n", a)' = Kept(a, count'[a].flagged + count'[a].passed)
  <2>1. PICK f \in Nat, p \in Nat, m \in Nat, q \in Nat :
          f = count[a].flagged /\ p = count[a].passed /\ m = F(a) /\ q = P(a)
    BY <1>5, <1>6, <1>8
  <2>2. PooledOf("tp", a) = Kept(a, f) /\ PooledOf("n", a) = Kept(a, f + p)
    BY <2>1 DEF FiguresInv
  <2>3. PooledOf("tp", a)' = Kept(a, f) + Kept(a, m) /\ PooledOf("n", a)' = Kept(a, f + p) + Kept(a, m + q)
    BY <1>4, <1>9, <2>1, <2>2
  <2>4. Kept(a, f) + Kept(a, m) = Kept(a, f + m) /\ Kept(a, f + p) + Kept(a, m + q) = Kept(a, f + m + (p + q))
    BY DEF Kept
  <2>5. count'[a].flagged = f + m /\ count'[a].passed = p + q
    BY <1>6, <1>8, <2>1
  <2> QED
    BY <2>3, <2>4, <2>5
<1>11. ASSUME script # "harder_attacks"
       PROVE  /\ Pooled("TP")' = KeptOfBoth(count'["replay"].flagged, count'["injection"].flagged)
              /\ Pooled("FN")' = KeptOfBoth(count'["replay"].passed, count'["injection"].passed)
              /\ Pooled("FP")' = count'["benign"].flagged /\ Pooled("TN")' = count'["benign"].passed
  <2>1. /\ Pooled("TP") = KeptOfBoth(count["replay"].flagged, count["injection"].flagged)
        /\ Pooled("FN") = KeptOfBoth(count["replay"].passed, count["injection"].passed)
        /\ Pooled("FP") = count["benign"].flagged /\ Pooled("TN") = count["benign"].passed
    BY <1>11 DEF FiguresInv
  <2>2. \A l \in ATTACKS \cup {"benign"} :
          /\ count[l].flagged \in Nat /\ count[l].passed \in Nat /\ F(l) \in Nat /\ P(l) \in Nat
          /\ count'[l].flagged = count[l].flagged + F(l) /\ count'[l].passed = count[l].passed + P(l)
    BY <1>5, <1>6, <1>8
  <2>3. PICK a \in Nat, b \in Nat, c \in Nat, d \in Nat :
          /\ a = count["replay"].flagged /\ b = count["injection"].flagged
          /\ c = count["replay"].passed /\ d = count["injection"].passed
    BY <2>2
  <2>4. PICK e \in Nat, f \in Nat, g \in Nat, h \in Nat :
          e = F("replay") /\ f = F("injection") /\ g = P("replay") /\ h = P("injection")
    BY <2>2
  <2>6. /\ Pooled("TP")' = KeptOfBoth(a, b) + KeptOfBoth(e, f)
        /\ Pooled("FN")' = KeptOfBoth(c, d) + KeptOfBoth(g, h)
    BY <1>4, <1>9, <1>11, <2>1, <2>3, <2>4
  <2>7. /\ KeptOfBoth(a, b) + KeptOfBoth(e, f) = KeptOfBoth(a + e, b + f)
        /\ KeptOfBoth(c, d) + KeptOfBoth(g, h) = KeptOfBoth(c + g, d + h)
    BY KeptSum
  <2>8. /\ count'["replay"].flagged = a + e /\ count'["injection"].flagged = b + f
        /\ count'["replay"].passed = c + g /\ count'["injection"].passed = d + h
    BY <2>2, <2>3, <2>4
  <2>5. Pooled("FP")' = count'["benign"].flagged /\ Pooled("TN")' = count'["benign"].passed
    BY <1>4, <1>9, <1>11, <2>1, <2>2
  <2> QED
    BY <2>5, <2>6, <2>7, <2>8
<1>12. ASSUME script = "harder_attacks"
       PROVE  /\ RowTotal("FP")' = count'["benign"].flagged /\ RowTotal("TN")' = count'["benign"].passed
              /\ \A a \in ATTACKS : /\ RowTotalOf("detected", a)' = staged'[a].caught
                                    /\ RowTotalOf("present", a)' = staged'[a].runs
  <2>1. /\ RowTotal("FP") = count["benign"].flagged /\ RowTotal("TN") = count["benign"].passed
        /\ \A a \in ATTACKS : /\ RowTotalOf("detected", a) = staged[a].caught
                              /\ RowTotalOf("present", a) = staged[a].runs
    BY <1>12 DEF FiguresInv
  <2>2. \A a \in ATTACKS :
          /\ r["detected"][a] = IF Of(s, {a}) \cap predict(s, thr) = {} THEN 0 ELSE 1
          /\ r["present"][a] = IF Of(s, {a}) = {} THEN 0 ELSE 1
    BY <1>2, <1>21, <1>8, <1>12, Detected
  <2>3. RowTotal("FP")' = count'["benign"].flagged /\ RowTotal("TN")' = count'["benign"].passed
    BY <1>4, <1>6, <1>8, <1>9, <1>12, <2>1
  <2> QED
    BY <1>4, <1>7, <2>1, <2>2, <2>3
<1>13. ASSUME script = "multi_run", NEW a \in ATTACKS
       PROVE  IsFiniteSet(Missed(a)') /\ Cardinality(Missed(a)') + staged'[a].caught = Len(results')
  <2>1. IsFiniteSet(Missed(a)) /\ Cardinality(Missed(a)) + staged[a].caught = n
    BY <1>2, <1>21, <1>13 DEF FiguresInv
  <2>2. r.latency[a] = None <=> Of(s, {a}) \cap predict(s, thr) = {}
    <3>1. r.latency = detection_latency(s, predict(s, thr))
      BY <1>2, <1>21, <1>8, <1>13, RowParts
    <3>2. detection_latency(s, predict(s, thr))[a] = None <=> Of(s, {a}) \cap predict(s, thr) = {}
      BY NoLatency
    <3> QED
      BY <3>1, <3>2
  <2>3. Missed(a)' = IF r.latency[a] = None THEN Missed(a) \cup {n + 1} ELSE Missed(a)
    BY <1>3 DEF Missed
  <2>4. n + 1 \notin Missed(a)
    BY <1>3 DEF Missed
  <2>5. Cardinality(Missed(a)) \in Nat
    BY <2>1, FS_CardinalityType
  <2>6. PICK m \in Nat, c \in Nat : m = Cardinality(Missed(a)) /\ c = staged[a].caught /\ m + c = n
    BY <1>7, <2>1, <2>5
  <2>7. staged'[a].caught = c + (IF r.latency[a] = None THEN 0 ELSE 1)
    BY <1>7, <2>2, <2>6
  <2>8. /\ IsFiniteSet(Missed(a)')
        /\ Cardinality(Missed(a)') = m + (IF r.latency[a] = None THEN 1 ELSE 0)
    <3>1. /\ IsFiniteSet(Missed(a) \cup {n + 1})
          /\ Cardinality(Missed(a) \cup {n + 1}) = m + 1
      BY <2>1, <2>4, <2>6, FS_AddElement
    <3> QED
      BY <2>1, <2>3, <2>6, <3>1
  <2> HIDE <1>13
  <2> QED
    BY <1>3, <2>6, <2>7, <2>8
<1>14. \E T : results' \in Seq(T)
  BY <1>3
<1> QED
  BY <1>6, <1>7, <1>8, <1>10, <1>11, <1>12, <1>13, <1>14 DEF FiguresInv

LEMMA FiguresNext == FiguresInv /\ [Next]_vars => FiguresInv'
<1> SUFFICES ASSUME FiguresInv, [Next]_vars PROVE FiguresInv'
  OBVIOUS
<1>1. ASSUME UNCHANGED <<script, threshold, results, count, staged>> PROVE FiguresInv'
  BY <1>1 DEF FiguresInv, Pooled, PooledOf, RowTotal, RowTotalOf, Total, Kept, KeptOfBoth, Missed
<1>2. CASE Boundary
  BY <1>1, <1>2 DEF Boundary
<1>3. CASE Calibrate
  BY <1>1, <1>3 DEF Calibrate
<1>4. CASE score_runs
  BY <1>1, <1>4 DEF score_runs
<1>5. CASE ScoreRun
  <2>1. UNCHANGED <<script, threshold, detector, thr>>
    BY <1>5 DEF ScoreRun
  <2>2. PICK s \in Sessions(MAX_TEST) :
          Add(s, predict(s, thr)) \/ UNCHANGED <<results, count, staged>>
    BY <1>5 DEF ScoreRun
  <2> QED
    BY <1>1, <2>1, <2>2, AddFigures
<1>6. CASE UNCHANGED vars
  BY <1>1, <1>6 DEF vars
<1> QED
  BY <1>2, <1>3, <1>4, <1>5, <1>6 DEF Next

\* The counts of the property are those of the invariant.
LEMMA FlaggedSeen ==
  ASSUME FiguresInv, NEW graded,
         graded = IF threshold \in LeaveOneOut THEN LeftOut(threshold) ELSE ATTACKS
  PROVE  LET F(l) == count[l].flagged
             P(l) == count[l].passed
         IN  /\ Flagged(graded) = KeptOfBoth(F("replay"), F("injection"))
             /\ Seen(graded) = KeptOfBoth(F("replay"), F("injection"))
                                 + KeptOfBoth(P("replay"), P("injection"))
             /\ Flagged({"benign"}) = F("benign") /\ Seen({"benign"}) = F("benign") + P("benign")
             /\ Flagged(graded \cup {"benign"}) = Flagged(graded) + F("benign")
             /\ \A a \in ATTACKS : /\ Flagged({a} \cap graded) = Kept(a, F(a))
                                   /\ Seen({a} \cap graded) = Kept(a, F(a) + P(a))
             /\ script # "generalization" => graded = ATTACKS
<1>1. \A l \in ATTACKS \cup {"benign"} : count[l].flagged \in Nat /\ count[l].passed \in Nat
  BY DEF FiguresInv, Labels
<1>2. graded \subseteq ATTACKS /\ \A a \in ATTACKS : a \in graded <=> threshold # LOAO[a]
  BY DEF LeftOut, LeaveOneOut
<1>3. PICK f \in Nat, g \in Nat, h \in Nat :
        f = count["replay"].flagged /\ g = count["injection"].flagged /\ h = count["benign"].flagged
  BY <1>1
<1>4. PICK p \in Nat, q \in Nat, o \in Nat :
        p = count["replay"].passed /\ q = count["injection"].passed /\ o = count["benign"].passed
  BY <1>1
<1>5. \A L : /\ Flagged(L) = (IF "replay" \in L THEN f ELSE 0) + (IF "injection" \in L THEN g ELSE 0)
                              + (IF "benign" \in L THEN h ELSE 0)
            /\ Seen(L) = (IF "replay" \in L THEN f + p ELSE 0) + (IF "injection" \in L THEN g + q ELSE 0)
                           + (IF "benign" \in L THEN h + o ELSE 0)
  BY <1>3, <1>4, Zenon DEF Flagged, Seen
<1>6. \A m \in Nat : /\ Kept("replay", m) = IF "replay" \in graded THEN m ELSE 0
                     /\ Kept("injection", m) = IF "injection" \in graded THEN m ELSE 0
  BY <1>2 DEF Kept
<1>7. "benign" \notin graded
  BY <1>2
<1>8. /\ Flagged(graded) = KeptOfBoth(f, g) /\ Seen(graded) = KeptOfBoth(f, g) + KeptOfBoth(p, q)
      /\ Flagged({"benign"}) = h /\ Seen({"benign"}) = h + o
      /\ Flagged(graded \cup {"benign"}) = Flagged(graded) + h
  <2>1. Flagged({"benign"}) = h /\ Seen({"benign"}) = h + o
    BY <1>5
  <2>2. Flagged(graded) = KeptOfBoth(f, g)
    BY <1>5, <1>6, <1>7 DEF KeptOfBoth
  <2>3. Seen(graded) = KeptOfBoth(f, g) + KeptOfBoth(p, q)
    BY <1>5, <1>6, <1>7 DEF KeptOfBoth
  <2>4. Flagged(graded \cup {"benign"}) = Flagged(graded) + h
    <3>1. /\ "benign" \in graded \cup {"benign"}
          /\ "replay" \in graded \cup {"benign"} <=> "replay" \in graded
          /\ "injection" \in graded \cup {"benign"} <=> "injection" \in graded
      OBVIOUS
    <3> QED
      BY <1>5, <1>7, <3>1
  <2> QED
    BY <2>1, <2>2, <2>3, <2>4
<1>9. ASSUME NEW a \in ATTACKS
      PROVE  /\ Flagged({a} \cap graded) = Kept(a, count[a].flagged)
             /\ Seen({a} \cap graded) = Kept(a, count[a].flagged + count[a].passed)
  <2> DEFINE L == {a} \cap graded
  <2>2. /\ "benign" \notin L
        /\ "replay" \in L <=> a = "replay" /\ "replay" \in graded
        /\ "injection" \in L <=> a = "injection" /\ "injection" \in graded
    BY <1>7
  <2> HIDE DEF L
  <2>3. CASE a = "replay"
    BY <1>3, <1>4, <1>5, <1>6, <2>2, <2>3 DEF L
  <2>4. CASE a = "injection"
    BY <1>3, <1>4, <1>5, <1>6, <2>2, <2>4 DEF L
  <2> QED
    BY <2>3, <2>4
<1>10. script # "generalization" => graded = ATTACKS
  <2> SUFFICES ASSUME script # "generalization" PROVE threshold \notin LeaveOneOut
    OBVIOUS
  <2>1. threshold \in {"none", "tune", "label-free"}
    BY DEF FiguresInv, Thresholds
  <2> QED
    BY <2>1 DEF LeaveOneOut, LOAO
<1> QED
  BY <1>3, <1>4, <1>8, <1>9, <1>10

LEMMA GradedFollows == FiguresInv => EveryScoredRequestGradedOnce
<1> SUFFICES ASSUME FiguresInv PROVE EveryScoredRequestGradedOnce
  OBVIOUS
<1> DEFINE graded == IF threshold \in LeaveOneOut THEN LeftOut(threshold) ELSE ATTACKS
           F(l) == count[l].flagged
           P(l) == count[l].passed
           recall(attacks) == ratio(Flagged(attacks), Seen(attacks))
           fpr == ratio(Flagged({"benign"}), Seen({"benign"}))
           of_each == [a \in ATTACKS |-> recall({a} \cap graded)]
<1>1. /\ Flagged(graded) = KeptOfBoth(F("replay"), F("injection"))
      /\ Seen(graded) = KeptOfBoth(F("replay"), F("injection"))
                          + KeptOfBoth(P("replay"), P("injection"))
      /\ Flagged({"benign"}) = F("benign") /\ Seen({"benign"}) = F("benign") + P("benign")
      /\ Flagged(graded \cup {"benign"}) = Flagged(graded) + F("benign")
      /\ \A a \in ATTACKS : /\ Flagged({a} \cap graded) = Kept(a, F(a))
                            /\ Seen({a} \cap graded) = Kept(a, F(a) + P(a))
      /\ script # "generalization" => graded = ATTACKS
  BY FlaggedSeen
<1> HIDE DEF graded
<1>2. of_each = recall_of
  <2>1. \A a \in ATTACKS : recall({a} \cap graded) = ratio(PooledOf("tp", a), PooledOf("n", a))
    BY <1>1 DEF FiguresInv
  <2> HIDE DEF recall
  <2> QED
    BY <2>1 DEF recall_of
<1> HIDE DEF of_each
<1>3. ASSUME script # "harder_attacks"
      PROVE  /\ Pooled("TP") = Flagged(graded) /\ Pooled("TP") + Pooled("FN") = Seen(graded)
             /\ Pooled("FP") = Flagged({"benign"}) /\ Pooled("FP") + Pooled("TN") = Seen({"benign"})
             /\ Pooled("TP") + Pooled("FP") = Flagged(graded \cup {"benign"})
  BY <1>1, <1>3 DEF FiguresInv
<1>4. CASE script = "multi_run"
  <2>1. graded = ATTACKS
    BY <1>1, <1>4
  <2>2. LET s == summarize_multi_run IN
          /\ s.precision = ratio(Flagged(ATTACKS), Flagged(ATTACKS \cup {"benign"}))
          /\ <<s.recall, s.fpr, s.recall_of>> = <<recall(ATTACKS), fpr, of_each>>
    BY <1>2, <1>3, <1>4, <2>1 DEF summarize_multi_run
  <2> QED
    BY <1>4, <2>2 DEF EveryScoredRequestGradedOnce, of_each, graded
<1>5. CASE script = "generalization"
  <2>1. LET s == summarize_generalization IN
          <<s.recall, s.fpr, s.recall_of>> = <<recall(graded), fpr, of_each>>
    BY <1>2, <1>3, <1>5 DEF summarize_generalization
  <2> QED
    BY <1>5, <2>1 DEF EveryScoredRequestGradedOnce, of_each, graded
<1>6. CASE script = "harder_attacks"
  <2>1. RowTotal("FP") = Flagged({"benign"}) /\ RowTotal("FP") + RowTotal("TN") = Seen({"benign"})
    BY <1>1, <1>6 DEF FiguresInv
  <2>2. LET s == summarize_harder_attacks IN <<s.fpr, s.packet_recall>> = <<fpr, of_each>>
    BY <1>2, <2>1 DEF summarize_harder_attacks
  <2> QED
    BY <1>6, <2>2 DEF EveryScoredRequestGradedOnce, of_each, graded
<1> QED
  BY <1>4, <1>5, <1>6 DEF FiguresInv, Thresholds

LEMMA MissedFollows == FiguresInv => MissedIffNeverFlagged
<1> SUFFICES ASSUME FiguresInv, NEW a \in ATTACKS
             PROVE  /\ script = "multi_run" /\ staged[a].runs = Len(results) =>
                          summarize_multi_run.missed[a] = staged[a].runs - staged[a].caught
                    /\ script = "harder_attacks" =>
                          summarize_harder_attacks.attack_detection[a]
                            = ratio(staged[a].caught, staged[a].runs)
  BY DEF MissedIffNeverFlagged
<1>1. ASSUME script = "multi_run", staged[a].runs = Len(results)
      PROVE  summarize_multi_run.missed[a] = staged[a].runs - staged[a].caught
  <2>1. Cardinality(Missed(a)) \in Nat /\ Cardinality(Missed(a)) + staged[a].caught = staged[a].runs
    BY <1>1, FS_CardinalityType DEF FiguresInv
  <2>2. summarize_multi_run.missed[a] = Cardinality(Missed(a))
    BY DEF summarize_multi_run, Missed
  <2>3. staged[a].caught \in Nat /\ staged[a].runs \in Nat
    BY DEF FiguresInv
  <2> QED
    BY <2>1, <2>2, <2>3
<1>2. ASSUME script = "harder_attacks"
      PROVE  summarize_harder_attacks.attack_detection[a] = ratio(staged[a].caught, staged[a].runs)
  BY <1>2 DEF FiguresInv, summarize_harder_attacks
<1> QED
  BY <1>1, <1>2

\* The pooled precision, recall and false-alarm rate of each script are those of all
\* the runs' scored requests, each counted once under its own label
\* (multi_run.py:204-217, generalization.py:193-222, harder_attacks.py:157-180).
THEOREM GradedOnce == Spec => []EveryScoredRequestGradedOnce
<1>1. Init => FiguresInv
  BY FiguresInit
<1>2. FiguresInv /\ [Next]_vars => FiguresInv'
  BY FiguresNext
<1>3. FiguresInv => EveryScoredRequestGradedOnce
  BY GradedFollows
<1> QED
  BY <1>1, <1>2, <1>3, PTL DEF Spec

\* An attack is counted as missed exactly in the runs in which none of its requests
\* was flagged (multi_run.py:193-202, harder_attacks.py:147,174-177).
THEOREM NeverFlagged == Spec => []MissedIffNeverFlagged
<1>1. Init => FiguresInv
  BY FiguresInit
<1>2. FiguresInv /\ [Next]_vars => FiguresInv'
  BY FiguresNext
<1>3. FiguresInv => MissedIffNeverFlagged
  BY MissedFollows
<1> QED
  BY <1>1, <1>2, <1>3, PTL DEF Spec
=============================================================================
