-------------------------- MODULE TransparentLink --------------------------
(***************************************************************************)
(* What a tap promises the two peers it sits between, whatever it does     *)
(* with what it sees: every stream arrives in order, without a byte lost,  *)
(* added or repeated, and its reader is told that it has ended only when   *)
(* it has read all of it.  A peer that disappears, or a link that stops,   *)
(* ends a stream early.                                                    *)
(*                                                                         *)
(* The first fwd[p] bytes of sent[p] have arrived.                         *)
(***************************************************************************)
EXTENDS Integers, Sequences

CONSTANT Conns
VARIABLES sent, fin, fwd, shut, gone, stopped

vars == <<sent, fin, fwd, shut, gone, stopped>>

Streams == Conns \X {"req", "resp"}

\* The end that writes a stream, and the end that reads it.
Writer(p) == <<p[1], IF p[2] = "req" THEN "client" ELSE "plc">>
Reader(p) == <<p[1], IF p[2] = "req" THEN "plc" ELSE "client">>

Init ==
  /\ sent = [p \in Streams |-> <<>>]
  /\ fin = [p \in Streams |-> FALSE]
  /\ fwd = [p \in Streams |-> 0]
  /\ shut = [p \in Streams |-> FALSE]
  /\ gone = {}
  /\ stopped = FALSE

\* t is s with more written after it.
Extends(t, s) ==
  /\ Len(s) <= Len(t)
  /\ \A i \in 1..Len(s) : t[i] = s[i]

Write(p) ==
  /\ ~fin[p]
  /\ sent' = [sent EXCEPT ![p] = sent'[p]]
  /\ Extends(sent'[p], sent[p])
  /\ UNCHANGED <<fin, fwd, shut, gone, stopped>>

Finish(p) ==
  /\ fin' = [fin EXCEPT ![p] = TRUE]
  /\ UNCHANGED <<sent, fwd, shut, gone, stopped>>

Deliver(p) ==
  /\ ~shut[p]
  /\ \E n \in fwd[p]..Len(sent[p]) : fwd' = [fwd EXCEPT ![p] = n]
  /\ UNCHANGED <<sent, fin, shut, gone, stopped>>

\* All of a finished stream has arrived, or it cannot.
Over(p) ==
  \/ fin[p] /\ fwd[p] = Len(sent[p])
  \/ Writer(p) \in gone
  \/ Reader(p) \in gone
  \/ stopped

EndOfStream(p) ==
  /\ Over(p)
  /\ shut' = [shut EXCEPT ![p] = TRUE]
  /\ UNCHANGED <<sent, fin, fwd, gone, stopped>>

Disappear ==
  /\ gone \subseteq gone'
  /\ UNCHANGED <<sent, fin, fwd, shut, stopped>>

Stop ==
  /\ stopped' = TRUE
  /\ UNCHANGED <<sent, fin, fwd, shut, gone>>

Next ==
  \/ \E p \in Streams : Write(p) \/ Finish(p) \/ Deliver(p) \/ EndOfStream(p)
  \/ Disappear
  \/ Stop

Spec == Init /\ [][Next]_vars
=============================================================================
