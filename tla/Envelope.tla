----------------------------- MODULE Envelope -----------------------------
(***************************************************************************)
(* The authenticated envelope of testbed/secure_modbus.py, and the verdict *)
(* of its Verifier: counter, then frame, then a tag over both.             *)
(*                                                                         *)
(* HMAC-SHA256 is taken as ideal: a tag is the term of what it was         *)
(* computed from, so different inputs have different tags, and a tag that  *)
(* is not such a term (NoTag) verifies nothing.                            *)
(***************************************************************************)
EXTENDS Integers, Sequences

CONSTANTS
  Frames,         (* Modbus frames that hold a function code: 8 bytes or more *)
  ShortFrames,    (* shorter ones                                           *)
  KEY,            (* the key the gateway shares                             *)
  NoTag,          (* sixteen bytes made up without the key                  *)
  COUNTER_LIMIT   (* counters are below it: 2^64, as struct's >Q allows     *)

ASSUME EnvelopeAssumption ==
  /\ Frames \cap ShortFrames = {}
  /\ COUNTER_LIMIT \in Nat \ {0, 1}

AllFrames == Frames \cup ShortFrames
Counters == 0..COUNTER_LIMIT-1

Tag(key, counter, frame) == [key |-> key, counter |-> counter, frame |-> frame]

Sealing == {Tag(KEY, c, f) : c \in Counters, f \in AllFrames}
Tags == Sealing \cup {NoTag}
Envelopes == [counter : Counters, frame : AllFrames, tag : Tags]

ASSUME NoTagAssumption == NoTag \notin Sealing

Pack(counter, frame, tag) == [counter |-> counter, frame |-> frame, tag |-> tag]
seal(key, counter, frame) == Pack(counter, frame, Tag(key, counter, frame))

\* Verifier.verify's answer to envelope e: the first of its checks that fails.
MALFORMED(e) == e.frame \in ShortFrames
BAD_TAG(e) == e.tag # Tag(KEY, e.counter, e.frame)
STALE_COUNTER_AllowsEqual(e, high_water) == e.counter < high_water

STALE_COUNTER(e, high_water) == e.counter <= high_water

Verdict(e, high_water) ==
  IF MALFORMED(e) THEN "malformed"
  ELSE IF BAD_TAG(e) THEN "bad_tag"
  ELSE IF STALE_COUNTER(e, high_water) THEN "stale_counter"
  ELSE "ok"

Verdicts == {"ok", "bad_tag", "stale_counter", "malformed"}
=============================================================================
