---------------------------- MODULE MCRuleBased ----------------------------
(***************************************************************************)
(* RuleBased with one command per case its rules tell apart.               *)
(***************************************************************************)
EXTENDS RuleBased, TLC

CONSTANTS hmi, x1, operator, attacker

Command(fc, address, count, value, malformed) ==
  [function_code |-> fc, address |-> address, count |-> count, value0 |-> value,
   malformed |-> malformed]

ReadLevel == Command(3, 0, 1, 0, FALSE)
SetPump == Command(6, 1, 1, 50, FALSE)
OpenInlet == Command(5, 0, 1, 65280, FALSE)

MCRoutine == {ReadLevel, SetPump}
MCCommands == MCRoutine \cup
  {OpenInlet,
   Command(5, 0, 1, 1, FALSE),       (* neither ON nor OFF                   *)
   Command(5, 0, 0, 0, TRUE),        (* cut off after the function code      *)
   Command(5, 2, 1, 0, FALSE),       (* no such valve                        *)
   Command(6, 0, 1, 50, FALSE),      (* the level sensor                     *)
   Command(16, 1, 1, 101, FALSE),    (* beyond 100 %                         *)
   Command(16, 1, 2, 50, FALSE),     (* the setpoint and the next register   *)
   Command(15, 0, 1, 1, FALSE)}      (* not an allowed function              *)
MCHost == hmi :> operator @@ x1 :> attacker
=============================================================================
