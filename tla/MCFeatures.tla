----------------------------- MODULE MCFeatures -----------------------------
(* Features with one frame for each case the loader tells apart.            *)
EXTENDS Features

Frame(fc, address, count, values) ==
  [function_code |-> fc, address |-> address, count |-> count, values |-> values]

MCFrames ==
  {Frame(6, 1, 1, 50),           (* the setpoint                             *)
   Frame(16, 1, 1, 52),          (* the same register, written as a block    *)
   Frame(5, 0, 1, 0),            (* a valve closed                           *)
   Frame(5, None, None, None),   (* ... cut short                            *)
   Frame(None, None, None, None),
   Frame(3, 0, 1, None)}         (* a read                                   *)

ConnsAlike == Permutations(Conns)
=============================================================================
