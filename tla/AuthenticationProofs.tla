------------------------ MODULE AuthenticationProofs ------------------------
(* The authenticated channel, and the comparison that uses it: two machines  *)
(* over one Envelope, each with variables and a specification of its own.    *)
EXTENDS SecureModbus, AuthEval, TLAPS

----------------------------------------------------------------------------
(* The channel delivers in order and at most once, and cannot be made to     *)
(* lock its signers out: for any number of signers, any frames and any       *)
(* counter width.                                                            *)

\* Every sealed envelope carries the tag of its own counter and frame, and was
\* numbered by a signer that has moved past that number since.
SealedProperly == \A e \in sealed :
  /\ e.tag = Tag(KEY, e.counter, e.frame)
  /\ e.counter >= START
  /\ \E s \in Signers : e.counter < next[s]

AcceptedSealed == \A k \in 1..Len(accepted) : accepted[k] \in sealed

SInv == TypeOK /\ SealedProperly /\ AcceptedSealed /\ WindowIsLastAccepted

\* What passes the tag check was sealed.
LEMMA OnlySealedPasses ==
  ASSUME SInv, NEW e \in Arriving, ~BAD_TAG(e)
  PROVE  e \in sealed
<1>1. e.tag = Tag(KEY, e.counter, e.frame)
  BY DEF BAD_TAG
<1>2. e.counter \in Counters /\ e.frame \in AllFrames
  BY DEF Arriving
<1>3. e.tag # NoTag
  BY <1>1, <1>2, NoTagAssumption DEF Sealing
<1>4. PICK x \in sealed : e.tag = x.tag
  BY <1>3 DEF Arriving
<1>5. x.tag = Tag(KEY, x.counter, x.frame)
  BY DEF SInv, SealedProperly
<1>6. e.counter = x.counter /\ e.frame = x.frame
  BY <1>1, <1>4, <1>5 DEF Tag
<1>7. e = Pack(e.counter, e.frame, e.tag)
  BY DEF Arriving, Pack
<1>8. x = Pack(x.counter, x.frame, x.tag)
  <2>1. x \in Envelopes
    BY DEF SInv, TypeOK
  <2> QED
    BY <2>1 DEF Envelopes, Pack
<1>9. e = x
  BY <1>4, <1>6, <1>7, <1>8
<1> QED
  BY <1>9

LEMMA SealType ==
  ASSUME NEW c \in Counters, NEW f \in AllFrames
  PROVE  /\ seal(KEY, c, f) \in Envelopes
         /\ seal(KEY, c, f).tag = Tag(KEY, c, f)
         /\ seal(KEY, c, f).counter = c
         /\ seal(KEY, c, f).frame = f
BY DEF seal, Pack, Envelopes, Tags, Sealing

LEMMA SealStep ==
  ASSUME SInv, NEW s \in Signers, NEW f \in AllFrames, Seal(s, f)
  PROVE  SInv' /\ \E e \in Envelopes : Delivery!Issue(e)
<1> DEFINE e == seal(KEY, next[s], f)
<1>1. next[s] \in Counters /\ next[s] >= START /\ next \in [Signers -> 1..COUNTER_LIMIT]
  BY EnvelopeAssumption DEF SInv, TypeOK, Seal, Counters, START
<1>2. e \in Envelopes /\ e.tag = Tag(KEY, e.counter, e.frame) /\ e.counter = next[s]
  BY <1>1, SealType
<1>3. /\ sealed' = sealed \cup {e}
      /\ next' = [next EXCEPT ![s] = next[s] + 1]
      /\ UNCHANGED <<high_water, verdict, accepted>>
  BY DEF Seal
<1> HIDE DEF e
<1>4. next' \in [Signers -> 1..COUNTER_LIMIT]
  BY <1>1, <1>3, EnvelopeAssumption DEF Counters
<1>5. TypeOK'
  BY <1>2, <1>3, <1>4 DEF SInv, TypeOK
<1>6. SealedProperly'
  <2> SUFFICES ASSUME NEW x \in sealed'
               PROVE  /\ x.tag = Tag(KEY, x.counter, x.frame)
                      /\ x.counter >= START
                      /\ \E r \in Signers : x.counter < next'[r]
    BY DEF SealedProperly
  <2>1. CASE x = e
    <3>1. x.counter < next'[s]
      BY <1>1, <1>2, <1>3, <2>1 DEF Counters
    <3> QED
      BY <1>1, <1>2, <2>1, <3>1
  <2>2. CASE x \in sealed
    <3>1. /\ x.tag = Tag(KEY, x.counter, x.frame)
          /\ x.counter >= START
          /\ x.counter \in Counters
      BY <2>2 DEF SInv, SealedProperly, TypeOK, Envelopes
    <3>2. PICK r \in Signers : x.counter < next[r]
      BY <2>2 DEF SInv, SealedProperly
    <3>3. x.counter < next'[r]
      BY <1>1, <1>3, <3>1, <3>2 DEF Counters
    <3> QED
      BY <3>1, <3>3
  <2> QED
    BY <1>3, <2>1, <2>2
<1>7. AcceptedSealed' /\ WindowIsLastAccepted'
  BY <1>3 DEF SInv, AcceptedSealed, WindowIsLastAccepted
<1>8. Delivery!Issue(e)
  BY <1>3 DEF Delivery!Issue
<1> QED
  BY <1>2, <1>5, <1>6, <1>7, <1>8 DEF SInv

LEMMA VerifyStep ==
  ASSUME SInv, NEW e \in Arriving, Verify(e)
  PROVE  /\ SInv'
         /\ (\E x \in Envelopes : Delivery!Deliver(x)) \/ UNCHANGED <<sealed, accepted>>
<1>0. accepted \in Seq(Envelopes) /\ UNCHANGED <<next, sealed>>
  BY DEF SInv, TypeOK, Verify
<1>1. verdict' \in Verdicts
  BY DEF Verify, Verdict, Verdicts
<1>2. CASE verdict' = "ok"
  <2>1. ~BAD_TAG(e) /\ ~STALE_COUNTER(e, high_water)
    BY <1>2 DEF Verify, Verdict
  <2>2. e \in sealed /\ e \in Envelopes
    BY <2>1, OnlySealedPasses DEF SInv, TypeOK
  <2>3. /\ accepted' = Append(accepted, e) /\ high_water' = e.counter
        /\ e.counter \in Counters /\ high_water \in Counters /\ e.counter > high_water
    BY <1>2, <2>1, <2>2 DEF Verify, STALE_COUNTER, SInv, TypeOK, Envelopes, Counters
  <2>4. /\ Len(accepted') = Len(accepted) + 1 /\ accepted' # <<>>
        /\ accepted'[Len(accepted')] = e
        /\ \A k \in 1..Len(accepted) : accepted'[k] = accepted[k]
    BY <1>0, <2>2, <2>3
  <2>5. TypeOK'
    BY <1>0, <1>1, <2>2, <2>3 DEF SInv, TypeOK
  <2>6. SealedProperly' /\ AcceptedSealed' /\ WindowIsLastAccepted'
    BY <1>0, <2>2, <2>3, <2>4
       DEF SInv, SealedProperly, AcceptedSealed, WindowIsLastAccepted
  <2>7. Delivery!Deliver(e)
    BY <1>0, <2>2, <2>3 DEF Delivery!Deliver, Delivery!LastPlace, SInv, WindowIsLastAccepted
  <2> QED
    BY <2>2, <2>5, <2>6, <2>7 DEF SInv
<1>3. CASE verdict' # "ok"
  <2>1. UNCHANGED <<high_water, accepted>>
    BY <1>3 DEF Verify
  <2> QED
    BY <1>0, <1>1, <2>1 DEF SInv, TypeOK, SealedProperly, AcceptedSealed, WindowIsLastAccepted
<1> QED
  BY <1>2, <1>3

LEMMA SInvInit == Init => SInv /\ Delivery!Init
BY EnvelopeAssumption
   DEF Init, SInv, TypeOK, SealedProperly, AcceptedSealed, WindowIsLastAccepted, START,
       Counters, Delivery!Init

LEMMA SInvStep == SInv /\ [Next]_vars => SInv' /\ [Delivery!Next]_(Delivery!vars)
<1> SUFFICES ASSUME SInv, [Next]_vars PROVE SInv' /\ [Delivery!Next]_(Delivery!vars)
  OBVIOUS
<1>1. ASSUME NEW s \in Signers, NEW f \in AllFrames, Seal(s, f)
      PROVE  SInv' /\ [Delivery!Next]_(Delivery!vars)
  BY <1>1, SealStep DEF Delivery!Next
<1>2. ASSUME NEW e \in Arriving, Verify(e)
      PROVE  SInv' /\ [Delivery!Next]_(Delivery!vars)
  BY <1>2, VerifyStep DEF Delivery!Next, Delivery!vars
<1>3. CASE UNCHANGED vars
  BY <1>3 DEF vars, SInv, TypeOK, SealedProperly, AcceptedSealed, WindowIsLastAccepted,
              Delivery!vars
<1> QED
  BY <1>1, <1>2, <1>3 DEF Next

\* Every reachable state of the channel is of its type.
THEOREM ChannelTypeCorrect == Spec => []TypeOK
<1>1. SInv => TypeOK
  BY DEF SInv
<1> QED
  BY <1>1, SInvInit, SInvStep, PTL DEF Spec

\* The gateway delivers sealed requests only, in the order of their counters and
\* none twice, whatever the network and anyone without the key does.
THEOREM DeliversInOrder == Spec => DeliverySpec
BY SInvInit, SInvStep, PTL DEF Spec, DeliverySpec, Delivery!Spec

\* The gateway's window is the counter of the last request it let through.
THEOREM Window == Spec => []WindowIsLastAccepted
<1>1. SInv => WindowIsLastAccepted
  BY DEF SInv
<1> QED
  BY <1>1, SInvInit, SInvStep, PTL DEF Spec

\* Some signer's next request is always ahead of the gateway's window.
THEOREM NotLockedOut == ASSUME Signers # {} PROVE Spec => []SomeSignerNotLockedOut
<1>1. SInv => SomeSignerNotLockedOut
  <2> SUFFICES ASSUME SInv PROVE \E s \in Signers : high_water < next[s]
    BY DEF SomeSignerNotLockedOut
  <2>1. CASE accepted = <<>>
    <3>1. high_water = 0
      BY <2>1 DEF SInv, WindowIsLastAccepted
    <3>2. \A s \in Signers : next[s] \in 1..COUNTER_LIMIT
      BY DEF SInv, TypeOK
    <3> QED
      BY <3>1, <3>2, EnvelopeAssumption
  <2>2. CASE accepted # <<>>
    <3>1. Len(accepted) \in 1..Len(accepted)
      BY <2>2 DEF SInv, TypeOK
    <3>2. /\ accepted[Len(accepted)] \in sealed
          /\ high_water = accepted[Len(accepted)].counter
      BY <2>2, <3>1 DEF SInv, AcceptedSealed, WindowIsLastAccepted
    <3> QED
      BY <3>2 DEF SInv, SealedProperly
  <2> QED
    BY <2>1, <2>2
<1> QED
  BY <1>1, SInvInit, SInvStep, PTL DEF Spec

----------------------------------------------------------------------------
(* What the comparison of auth_eval.py shows of sessions that the operator   *)
(* leads: for any frames, any rows and any number of sessions.               *)

\* Counters stay below the number of rows, whoever numbers.
Numbered ==
  /\ capability \in CAPABILITIES
  /\ rows \in 0..MAX_ROWS
  /\ signer_next \in 1..rows+1
  /\ gateway_high_water \in 0..rows
  /\ counts \in [SCORED -> [seen : Nat, blocked : Nat]]
  /\ malformed \in Nat
  /\ led \in BOOLEAN
  /\ sniffed # None => \E c \in 1..rows, f \in AllFrames : sniffed = seal(KEY, c, f)

\* What a keyless attacker has sniffed, the gateway has seen: it is stale by now,
\* or was never acceptable.
SniffedIsSpent ==
  led /\ capability # "key-theft" /\ sniffed # None =>
    sniffed.frame \in ShortFrames \/ sniffed.counter <= gateway_high_water

\* The next request of the operator is ahead of the window.
OperatorAhead == led \/ capability = "key-theft" => gateway_high_water < signer_next

AInv == /\ Numbered /\ SniffedIsSpent /\ OperatorAhead
        /\ KeylessRejectedWhenLed /\ OperatorUnaffectedWhenLed

\* A gateway that lets e through has found it well-formed, sealed and fresh.
LEMMA VerdictOk ==
  ASSUME NEW e, NEW w, Verdict(e, w) = "ok"
  PROVE  e.frame \notin ShortFrames /\ e.tag = Tag(KEY, e.counter, e.frame) /\ ~(e.counter <= w)
BY DEF Verdict, MALFORMED, BAD_TAG, STALE_COUNTER

\* Without the key, and behind an operator that spoke first, nothing gets through.
LEMMA AttackRejected ==
  ASSUME AInv, rows < MAX_ROWS, led, capability # "key-theft", sniffed # None,
         NEW f \in AllFrames
  PROVE  Verdict(attacker_envelope(f, sniffed), gateway_high_water) # "ok"
<1> DEFINE e == attacker_envelope(f, sniffed)
<1> SUFFICES ASSUME Verdict(e, gateway_high_water) = "ok" PROVE FALSE
  OBVIOUS
<1>1. e.frame \notin ShortFrames /\ e.tag = Tag(KEY, e.counter, e.frame) /\ ~(e.counter <= gateway_high_water)
  BY VerdictOk
<1>2. PICK c \in 1..rows, g \in AllFrames : sniffed = seal(KEY, c, g)
  BY DEF AInv, Numbered
<1>3. sniffed.counter = c /\ sniffed.frame = g /\ sniffed.tag = Tag(KEY, c, g)
  BY <1>2 DEF seal, Pack
<1>4. g \in ShortFrames \/ c <= gateway_high_water
  BY <1>3 DEF AInv, SniffedIsSpent
<1>5. CASE capability = "no-key"
  <2>1. e.counter = gateway_high_water + 1 /\ e.frame = f /\ e.tag = NoTag
    BY <1>5 DEF attacker_envelope, Pack
  <2>2. gateway_high_water + 1 \in Counters
    BY RowsAssumption, EnvelopeAssumption DEF AInv, Numbered, Counters
  <2> QED
    BY <1>1, <2>1, <2>2, NoTagAssumption DEF Sealing
<1>6. CASE capability = "resend"
  BY <1>1, <1>3, <1>4, <1>6 DEF attacker_envelope
<1>7. CASE capability = "rewrite"
  <2>1. e.counter = c /\ e.frame = f /\ e.tag = Tag(KEY, c, g)
    BY <1>3, <1>7 DEF attacker_envelope, Pack
  <2>2. f = g
    BY <1>1, <2>1 DEF Tag
  <2> QED
    BY <1>1, <1>4, <2>1, <2>2
<1> QED
  BY <1>5, <1>6, <1>7 DEF AInv, Numbered, CAPABILITIES

\* What a row does to the count of its label and to the window.
LEMMA PushFacts ==
  ASSUME AInv, NEW l \in SCORED, NEW e, Push(l, e),
         e.counter \in 0..rows+1
  PROVE  /\ rows' = rows + 1 /\ rows' \in 0..MAX_ROWS
         /\ gateway_high_water' \in 0..rows' /\ gateway_high_water <= gateway_high_water'
         /\ gateway_high_water' = IF Verdict(e, gateway_high_water) = "ok" THEN e.counter ELSE gateway_high_water
         /\ counts' \in [SCORED -> [seen : Nat, blocked : Nat]]
         /\ \A k \in SCORED \ {l} : counts'[k] = counts[k]
         /\ counts'[l].seen = counts[l].seen + 1
         /\ counts'[l].blocked = IF Verdict(e, gateway_high_water) = "ok" THEN counts[l].blocked
                                 ELSE counts[l].blocked + 1
<1>1. rows < MAX_ROWS /\ rows' = rows + 1
  BY DEF Push
<1>2. gateway_high_water' = IF Verdict(e, gateway_high_water) = "ok" THEN e.counter ELSE gateway_high_water
  BY DEF Push
<1>3. Verdict(e, gateway_high_water) = "ok" => ~(e.counter <= gateway_high_water)
  BY VerdictOk
<1>4. counts \in [SCORED -> [seen : Nat, blocked : Nat]]
  BY DEF AInv, Numbered
<1>5. counts' = [counts EXCEPT ![l] =
        [seen |-> counts[l].seen + 1,
         blocked |-> IF Verdict(e, gateway_high_water) = "ok" THEN counts[l].blocked
                     ELSE counts[l].blocked + 1]]
  BY DEF Push
<1>6. gateway_high_water' \in 0..rows' /\ gateway_high_water <= gateway_high_water' /\ rows' \in 0..MAX_ROWS
  BY <1>1, <1>2, <1>3, RowsAssumption DEF AInv, Numbered
<1>7. counts[l].seen \in Nat /\ counts[l].blocked \in Nat
  BY <1>4
<1>8. \A k \in SCORED \ {l} : counts'[k] = counts[k]
  BY <1>4, <1>5
<1>9. counts'[l] = [seen |-> counts[l].seen + 1,
                    blocked |-> IF Verdict(e, gateway_high_water) = "ok" THEN counts[l].blocked
                                ELSE counts[l].blocked + 1]
  BY <1>4, <1>5
<1>10. counts' \in [SCORED -> [seen : Nat, blocked : Nat]]
  <2>1. counts'[l] \in [seen : Nat, blocked : Nat]
    BY <1>7, <1>9
  <2>2. \A k \in SCORED : counts'[k] \in [seen : Nat, blocked : Nat]
    BY <1>4, <1>8, <2>1
  <2> QED
    BY <1>4, <1>5, <2>2
<1> QED
  BY <1>1, <1>2, <1>6, <1>8, <1>9, <1>10

LEMMA InitInv == EvalInit => AInv
  BY RowsAssumption
  DEF EvalInit, AInv, Numbered, SniffedIsSpent, OperatorAhead, KeylessRejectedWhenLed, KeylessRejected,
      Blocked, OperatorUnaffectedWhenLed, SCORED, ATTACK_LABELS

LEMMA BenignInv == ASSUME AInv, NEW f \in AllFrames, Benign(f) PROVE AInv'
<1> DEFINE env == seal(KEY, signer_next, f)
           ok == Verdict(env, gateway_high_water) = "ok"
<1>1. env.counter = signer_next /\ env.frame = f /\ env.tag = Tag(KEY, signer_next, f)
  BY DEF seal, Pack
<1>2. /\ Push("benign", env) /\ signer_next' = signer_next + 1 /\ sniffed' = env
      /\ malformed' = IF f \in ShortFrames THEN malformed + 1 ELSE malformed
      /\ UNCHANGED <<capability, led>>
  BY DEF Benign
<1>3. signer_next \in 1..rows+1 /\ rows \in Nat /\ gateway_high_water \in 0..rows
  BY DEF AInv, Numbered
<1>4. "benign" \in SCORED /\ ATTACK_LABELS \subseteq SCORED \ {"benign"}
  BY DEF SCORED, ATTACK_LABELS
<1> HIDE DEF env
<1>5. /\ rows' = rows + 1 /\ rows' \in 0..MAX_ROWS
      /\ gateway_high_water' \in 0..rows' /\ gateway_high_water <= gateway_high_water'
      /\ gateway_high_water' = IF ok THEN signer_next ELSE gateway_high_water
      /\ counts' \in [SCORED -> [seen : Nat, blocked : Nat]]
      /\ \A k \in SCORED \ {"benign"} : counts'[k] = counts[k]
      /\ counts'["benign"].blocked = IF ok THEN counts["benign"].blocked
                                     ELSE counts["benign"].blocked + 1
  <2>1. env.counter \in 0..rows+1
    BY <1>1, <1>3
  <2> QED
    BY <1>1, <1>2, <1>4, <2>1, PushFacts
<1>6. ok <=> (f \notin ShortFrames /\ ~(signer_next <= gateway_high_water))
  BY <1>1 DEF Verdict, MALFORMED, BAD_TAG, STALE_COUNTER
<1>7. Numbered'
  <2>1. signer_next \in 1..rows' /\ sniffed' = seal(KEY, signer_next, f)
    BY <1>2, <1>3, <1>5 DEF env
  <2>2. signer_next' \in 1..rows'+1 /\ malformed' \in Nat
    BY <1>2, <1>3, <1>5 DEF AInv, Numbered
  <2> QED
    BY <1>2, <1>5, <2>1, <2>2 DEF AInv, Numbered
<1>8. SniffedIsSpent'
  BY <1>1, <1>2, <1>3, <1>5, <1>6 DEF SniffedIsSpent
<1>9. OperatorAhead'
  BY <1>2, <1>3, <1>5 DEF AInv, OperatorAhead
<1>10. KeylessRejectedWhenLed'
  BY <1>2, <1>4, <1>5 DEF AInv, KeylessRejectedWhenLed, KeylessRejected, Blocked
<1>11. OperatorUnaffectedWhenLed'
  <2> SUFFICES ASSUME led \/ capability = "key-theft" PROVE counts'["benign"].blocked = malformed'
    BY <1>2 DEF OperatorUnaffectedWhenLed
  <2>1. counts["benign"].blocked = malformed /\ gateway_high_water < signer_next
    BY DEF AInv, OperatorUnaffectedWhenLed, OperatorAhead
  <2> QED
    BY <1>2, <1>3, <1>5, <1>6, <2>1
<1> QED
  BY <1>7, <1>8, <1>9, <1>10, <1>11 DEF AInv

LEMMA AttackInv ==
  ASSUME AInv, NEW l \in ATTACK_LABELS, NEW f \in AllFrames, Attack(l, f)
  PROVE  AInv'
<1> DEFINE s == IF sniffed = None THEN seal(KEY, 1, f) ELSE sniffed
           e == attacker_envelope(f, s)
           ok == Verdict(e, gateway_high_water) = "ok"
<1>1. /\ Push(l, e) /\ sniffed' = s /\ led' = (led /\ sniffed # None)
      /\ signer_next' = IF capability = "key-theft" THEN signer_next + 1 ELSE signer_next
      /\ UNCHANGED <<capability, malformed>>
  BY DEF Attack
<1>2. signer_next \in 1..rows+1 /\ rows \in Nat /\ gateway_high_water \in 0..rows /\ capability \in CAPABILITIES
  BY DEF AInv, Numbered
<1>3. PICK c \in 1..rows+1, g \in AllFrames : s = seal(KEY, c, g)
  <2>1. CASE sniffed = None
    BY <1>2, <2>1
  <2>2. CASE sniffed # None
    BY <1>2, <2>2 DEF AInv, Numbered
  <2> QED
    BY <2>1, <2>2
<1>4. l \in SCORED \ {"benign"} /\ "benign" \in SCORED /\ ATTACK_LABELS \subseteq SCORED
  BY DEF SCORED, ATTACK_LABELS
<1> HIDE DEF s
<1>5. e.counter \in 0..rows+1 /\ (capability = "key-theft" => e.counter = signer_next)
  BY <1>2, <1>3 DEF attacker_envelope, Pack, seal, CAPABILITIES
<1> HIDE DEF e
<1>6. /\ rows' = rows + 1 /\ rows' \in 0..MAX_ROWS
      /\ gateway_high_water' \in 0..rows' /\ gateway_high_water <= gateway_high_water'
      /\ gateway_high_water' = IF ok THEN e.counter ELSE gateway_high_water
      /\ counts' \in [SCORED -> [seen : Nat, blocked : Nat]]
      /\ \A k \in SCORED \ {l} : counts'[k] = counts[k]
      /\ counts'[l].seen = counts[l].seen + 1
      /\ counts'[l].blocked = IF ok THEN counts[l].blocked ELSE counts[l].blocked + 1
  BY <1>1, <1>4, <1>5, PushFacts
<1>7. ASSUME led', capability # "key-theft" PROVE ~ok /\ led /\ sniffed # None /\ s = sniffed
  <2>1. led /\ sniffed # None /\ s = sniffed
    BY <1>1, <1>7 DEF s
  <2>2. rows < MAX_ROWS
    BY <1>1 DEF Push
  <2> QED
    BY <1>7, <2>1, <2>2, AttackRejected DEF e
<1>8. Numbered'
  <2>1. signer_next' \in 1..rows'+1 /\ c \in 1..rows'
    BY <1>1, <1>2, <1>6
  <2> QED
    BY <1>1, <1>3, <1>6, <2>1 DEF AInv, Numbered
<1>9. SniffedIsSpent'
  <2> SUFFICES ASSUME led', capability # "key-theft"
               PROVE  s.frame \in ShortFrames \/ s.counter <= gateway_high_water'
    BY <1>1 DEF SniffedIsSpent
  <2>1. ~ok /\ s = sniffed /\ (sniffed.frame \in ShortFrames \/ sniffed.counter <= gateway_high_water)
    BY <1>7 DEF AInv, SniffedIsSpent
  <2> QED
    BY <1>6, <2>1
<1>10. OperatorAhead'
  <2>1. CASE capability = "key-theft"
    <3>1. gateway_high_water < signer_next
      BY <2>1 DEF AInv, OperatorAhead
    <3> QED
      BY <1>1, <1>2, <1>5, <1>6, <2>1, <3>1 DEF OperatorAhead
  <2>2. ASSUME capability # "key-theft", led' PROVE gateway_high_water' < signer_next'
    BY <1>1, <1>6, <1>7, <2>2 DEF AInv, OperatorAhead
  <2> QED
    BY <1>1, <2>1, <2>2 DEF OperatorAhead
<1>11. KeylessRejectedWhenLed'
  <2> SUFFICES ASSUME led', capability # "key-theft", NEW a \in ATTACK_LABELS
               PROVE  counts'[a].blocked = counts'[a].seen
    BY <1>1 DEF KeylessRejectedWhenLed, KeylessRejected, Blocked
  <2>1. ~ok /\ counts[a].blocked = counts[a].seen
    BY <1>7 DEF AInv, KeylessRejectedWhenLed, KeylessRejected, Blocked
  <2>2. CASE a = l
    BY <1>6, <2>1, <2>2
  <2>3. CASE a # l
    BY <1>4, <1>6, <2>1, <2>3
  <2> QED
    BY <2>2, <2>3
<1>12. OperatorUnaffectedWhenLed'
  <2>1. counts'["benign"] = counts["benign"]
    BY <1>4, <1>6
  <2>2. led' => led
    BY <1>1
  <2> QED
    BY <1>1, <2>1, <2>2 DEF AInv, OperatorUnaffectedWhenLed
<1> QED
  BY <1>8, <1>9, <1>10, <1>11, <1>12 DEF AInv

LEMMA NextInv == AInv /\ [EvalNext]_evalVars => AInv'
<1> SUFFICES ASSUME AInv, [EvalNext]_evalVars PROVE AInv'
  OBVIOUS
<1> USE DEF AInv, Numbered, SniffedIsSpent, OperatorAhead, KeylessRejectedWhenLed,
            KeylessRejected, Blocked, OperatorUnaffectedWhenLed
<1>1. CASE Skip
  <2>1. rows' = rows + 1 /\ rows' \in 0..MAX_ROWS
    BY <1>1, RowsAssumption DEF Skip
  <2>2. UNCHANGED <<capability, signer_next, gateway_high_water, sniffed, counts, malformed, led>>
    BY <1>1 DEF Skip
  <2>3. signer_next \in 1..rows'+1 /\ gateway_high_water \in 0..rows' /\ 1..rows \subseteq 1..rows'
    BY <2>1
  <2> QED
    BY <2>1, <2>2, <2>3
<1>2. CASE NextSession
  BY <1>2 DEF NextSession
<1>3. CASE UNCHANGED evalVars
  BY <1>3 DEF evalVars
<1> QED
  BY <1>1, <1>2, <1>3, BenignInv, AttackInv DEF EvalNext

\* Without the key no attack row is let through in any session whose operator
\* speaks before its attacks.
THEOREM Keyless == EvalSpec => []KeylessRejectedWhenLed
<1>1. AInv => KeylessRejectedWhenLed
  BY DEF AInv
<1> QED
  BY <1>1, InitInv, NextInv, PTL DEF EvalSpec

\* The operator loses no well-formed request, beside a holder of its key either.
THEOREM Operator == EvalSpec => []OperatorUnaffectedWhenLed
<1>1. AInv => OperatorUnaffectedWhenLed
  BY DEF AInv
<1> QED
  BY <1>1, InitInv, NextInv, PTL DEF EvalSpec
=============================================================================
