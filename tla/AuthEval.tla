------------------------------ MODULE AuthEval ------------------------------
(***************************************************************************)
(* The comparison of detectors/auth_eval.py: labelled sessions are pushed  *)
(* through a fresh signer and gateway each (run_session), one row after    *)
(* the other, for one attacker capability, and what the gateway rejects is *)
(* counted per label over all of them (pooled).  A session is any sequence *)
(* of rows: each step takes the next row, whatever it is.                  *)
(***************************************************************************)
EXTENDS Envelope

CONSTANTS
  None,       (* nothing sniffed yet                                         *)
  MAX_ROWS    (* bound of the model: the rows of all sessions together       *)

\* A session never gets near the 2^64 counters.
ASSUME RowsAssumption == MAX_ROWS \in Nat /\ MAX_ROWS + 1 < COUNTER_LIMIT

CAPABILITIES == {"no-key", "resend", "rewrite", "key-theft"}
ATTACK_LABELS == {"replay", "injection"}
SCORED == {"benign"} \cup ATTACK_LABELS

VARIABLES
  capability,          (* the attacker's, of all rows                        *)
  signer_next,         (* of this session's Signer: its _next                *)
  gateway_high_water,  (* of this session's Verifier                         *)
  sniffed,             (* the envelope last taken off the wire               *)
  counts,              (* per label: rows seen and rows the gateway rejected *)
  rows,                (* rows taken                                         *)
  malformed,           (* history: benign rows too short for a function code *)
  led                  (* history: no session so far had an attack as its    *)
                       (* first scored row                                   *)

evalVars == <<capability, signer_next, gateway_high_water, sniffed, counts, rows,
              malformed, led>>

EvalInit ==
  /\ capability \in CAPABILITIES
  /\ signer_next = 1
  /\ gateway_high_water = 0
  /\ sniffed = None
  /\ counts = [l \in SCORED |-> [seen |-> 0, blocked |-> 0]]
  /\ rows = 0
  /\ malformed = 0
  /\ led = TRUE

\* What an attacker with this capability puts on the wire for frame f, when it
\* has sniffed s.
attacker_envelope(f, s) ==
  CASE capability = "no-key"    -> Pack(gateway_high_water + 1, f, NoTag)
    [] capability = "resend"    -> s
    [] capability = "rewrite"   -> Pack(s.counter, f, s.tag)
    [] capability = "key-theft" -> seal(KEY, signer_next, f)

\* The gateway's answer to envelope e, counted under label l.
Push(l, e) ==
  LET ok == Verdict(e, gateway_high_water) = "ok" IN
  /\ rows < MAX_ROWS
  /\ rows' = rows + 1
  /\ gateway_high_water' = IF ok THEN e.counter ELSE gateway_high_water
  /\ counts' = [counts EXCEPT ![l] = [seen |-> @.seen + 1,
                                      blocked |-> IF ok THEN @.blocked ELSE @.blocked + 1]]

Benign(f) ==
  LET env == seal(KEY, signer_next, f) IN
  /\ Push("benign", env)
  /\ signer_next' = signer_next + 1
  /\ sniffed' = env
  /\ malformed' = IF f \in ShortFrames THEN malformed + 1 ELSE malformed
  /\ UNCHANGED <<capability, led>>

Attack_OwnCounter(l, f) ==
  LET s == IF sniffed = None THEN seal(KEY, 1, f) ELSE sniffed IN
  /\ Push(l, attacker_envelope(f, s))
  /\ sniffed' = s
  /\ led' = (led /\ sniffed # None)
  /\ UNCHANGED <<capability, malformed, signer_next>>

\* With nothing sniffed yet, the attack row is itself sealed with counter 1.
Attack(l, f) ==
  LET s == IF sniffed = None THEN seal(KEY, 1, f) ELSE sniffed IN
  /\ Push(l, attacker_envelope(f, s))
  /\ signer_next' = IF capability = "key-theft" THEN signer_next + 1 ELSE signer_next
  /\ sniffed' = s
  /\ led' = (led /\ sniffed # None)
  /\ UNCHANGED <<capability, malformed>>

\* A seed, cover or response row is passed over.
Skip ==
  /\ rows < MAX_ROWS
  /\ rows' = rows + 1
  /\ UNCHANGED <<capability, signer_next, gateway_high_water, sniffed, counts, malformed, led>>

\* pooled goes on to the next file; the counts add up.
NextSession ==
  /\ signer_next' = 1
  /\ gateway_high_water' = 0
  /\ sniffed' = None
  /\ UNCHANGED <<capability, counts, rows, malformed, led>>

EvalNext ==
  \/ \E f \in AllFrames : Benign(f)
  \/ \E l \in ATTACK_LABELS, f \in AllFrames : Attack(l, f)
  \/ Skip
  \/ NextSession

EvalSpec == EvalInit /\ [][EvalNext]_evalVars

----------------------------------------------------------------------------
(* Properties.                                                             *)

Blocked(l) == counts[l].blocked = counts[l].seen

\* Without the key no attack row gets through: an envelope resent "verbatim" has
\* a valid tag "but the counter is stale", and a sniffed tag fails on a changed
\* frame (auth_eval.py:9-13; tests/test_secure_modbus.py:75-79 checks both counts).
KeylessRejected == capability # "key-theft" => \A l \in ATTACK_LABELS : Blocked(l)

\* ... which the comparison shows of sessions whose operator speaks first.
KeylessRejectedWhenLed == led => KeylessRejected

\* The operator is unaffected: of its requests only malformed ones are rejected,
\* also beside a key holder that shares its counter, "so the operator is not
\* locked out by a counter clash" (auth_eval.py:57-59).
OperatorUnaffectedWhenLed ==
  led \/ capability = "key-theft" => counts["benign"].blocked = malformed
=============================================================================
