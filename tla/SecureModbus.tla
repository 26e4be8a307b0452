--------------------------- MODULE SecureModbus ---------------------------
(***************************************************************************)
(* testbed/secure_modbus.py at work: signers that hold the shared key seal *)
(* requests, each with its own running counter, and the gateway's Verifier *)
(* checks whatever arrives.  The network between them is not the module's: *)
(* it may lose, repeat, reorder and alter envelopes, and anyone may put    *)
(* one together from any counter, any frame and any tag that was on the    *)
(* wire, or a made-up one (attacker_envelope of detectors/auth_eval.py,    *)
(* and the flipped bytes of tests/test_secure_modbus.py).                  *)
(***************************************************************************)
EXTENDS Envelope

CONSTANT Signers    (* the holders of the key, each with a Signer of its own *)

VARIABLES
  next,         (* Signer._next                                             *)
  sealed,       (* the envelopes sealed so far                              *)
  high_water,   (* Verifier.high_water                                      *)
  verdict,      (* what verify last returned                                *)
  accepted      (* the envelopes it returned the frame of, in that order    *)

vars == <<next, sealed, high_water, verdict, accepted>>

START == 1

Init ==
  /\ next = [s \in Signers |-> START]
  /\ sealed = {}
  /\ high_water = 0
  /\ verdict = "none"
  /\ accepted = <<>>

\* Beyond the last counter struct.pack raises, and the signer stays where it is.
Seal_Wraps(s, f) ==
  /\ sealed' = sealed \cup {seal(KEY, next[s], f)}
  /\ next' = [next EXCEPT ![s] = IF @ + 1 < COUNTER_LIMIT THEN @ + 1 ELSE START]
  /\ UNCHANGED <<high_water, verdict, accepted>>

Seal(s, f) ==
  /\ next[s] < COUNTER_LIMIT
  /\ sealed' = sealed \cup {seal(KEY, next[s], f)}
  /\ next' = [next EXCEPT ![s] = @ + 1]
  /\ UNCHANGED <<high_water, verdict, accepted>>

\* What may arrive.  A sealed envelope is one of these, as often as it likes.
Arriving == [counter : Counters, frame : AllFrames, tag : {e.tag : e \in sealed} \cup {NoTag}]

Verify_MovesFirst(e) ==
  /\ verdict' = Verdict(e, high_water)
  /\ IF MALFORMED(e) \/ STALE_COUNTER(e, high_water)
       THEN UNCHANGED high_water
       ELSE high_water' = e.counter
  /\ accepted' = IF verdict' = "ok" THEN Append(accepted, e) ELSE accepted
  /\ UNCHANGED <<next, sealed>>

Verify(e) ==
  /\ verdict' = Verdict(e, high_water)
  /\ IF verdict' = "ok"
       THEN /\ high_water' = e.counter
            /\ accepted' = Append(accepted, e)
       ELSE UNCHANGED <<high_water, accepted>>
  /\ UNCHANGED <<next, sealed>>

Next ==
  \/ \E s \in Signers, f \in AllFrames : Seal(s, f)
  \/ \E e \in Arriving : Verify(e)

Spec == Init /\ [][Next]_vars

----------------------------------------------------------------------------
(* Properties.                                                             *)

\* Every variable has its type.
TypeOK ==
  /\ next \in [Signers -> 1..COUNTER_LIMIT]
  /\ sealed \subseteq Envelopes
  /\ high_water \in Counters
  /\ verdict \in Verdicts \cup {"none"}
  /\ accepted \in Seq(Envelopes)

\* Only an accepted envelope moves the window, to its own counter: "State is
\* updated only by an envelope that passes both checks, so a flood of bad
\* envelopes cannot move the counter window" (secure_modbus.py:75-77).
WindowIsLastAccepted ==
  high_water = IF accepted = <<>> THEN 0 ELSE accepted[Len(accepted)].counter

\* The window is never ahead of every signer: the next request that the furthest
\* of them seals is acceptable, whatever has arrived before.  With one signer, as
\* in auth_eval.run_session, the operator is never locked out.
SomeSignerNotLockedOut == \E s \in Signers : high_water < next[s]

\* The gateway delivers sealed requests only, none twice and none after a later
\* one: "The first rule stops forged and modified requests [...]  The second
\* stops a verbatim resend of a captured envelope" (secure_modbus.py:22-26).
Delivery == INSTANCE OrderedDelivery WITH
  Requests <- Envelopes, issued <- sealed, delivered <- accepted
DeliverySpec == Delivery!Spec
=============================================================================
