----------------------------- MODULE RuleBased -----------------------------
(***************************************************************************)
(* detectors/rule_based.py on a live stream of requests, next to its Zeek  *)
(* port, tools/nids/modbus_project.zeek, on the same stream.  Masters      *)
(* count their transaction identifiers up and send what an operator sends  *)
(* (testbed/hmi_client.py); the clients of all other connections send any  *)
(* request.  Each step is one request, scored by both.                     *)
(***************************************************************************)
EXTENDS Integers

CONSTANTS
  Connections,   (* load_requests' conn: client address and port             *)
  Masters,       (* those of well-behaved masters                            *)
  Host,          (* the address a connection comes from                      *)
  Routine,       (* the commands an operator gives                           *)
  Commands,      (* all commands: a request but for its transaction_id       *)
  TXIDS,         (* transaction identifiers are below it: 2^16               *)
  None,          (* no such write, no such table                             *)
  MAX_SENT       (* bound of the model: requests of one master               *)

ALLOWED_FUNCTION_CODES == {1, 3, 5, 6, 16}
WRITE_FUNCTION_CODES == {5, 6, 15, 16}
WRITABLE_HOLDING == {1}
WRITABLE_COILS == {0, 1}
SETPOINT_RANGE == 0..100
COIL_VALUES == {0, 65280}

Words == 0..2^16-1
CommandType ==
  [function_code : 0..255, address : Words, count : Words, value0 : Words, malformed : BOOLEAN]

\* The registers a command covers: a count of 0 counts as 1.
targets(q) == q.address .. q.address + (IF q.count = 0 THEN 1 ELSE q.count) - 1

\* score_request up to the replay rule, but for rule 5: the first rule that fires.
ContentRule(q) ==
  LET fc == q.function_code IN
  IF q.malformed THEN "malformed_request"
  ELSE IF fc \notin ALLOWED_FUNCTION_CODES THEN "function_code_not_allowed"
  ELSE IF fc \in {6, 16} THEN
    IF ~(targets(q) \subseteq WRITABLE_HOLDING) THEN "write_to_readonly_address"
    ELSE IF q.value0 \notin SETPOINT_RANGE THEN "value_out_of_range"
    ELSE ""
  ELSE IF fc \in {5, 15} THEN
    IF q.address \notin WRITABLE_COILS THEN "write_to_readonly_address"
    ELSE IF fc = 5 /\ q.value0 \notin COIL_VALUES THEN "value_out_of_range"
    ELSE ""
  ELSE ""

\* What the Zeek script makes of a request whose PDU its parser could read: rule 1
\* for every message, the others for the writes it has a handler for.
ZeekRule(q) ==
  LET fc == q.function_code IN
  IF fc \notin ALLOWED_FUNCTION_CODES THEN "function_code_not_allowed"
  ELSE IF q.malformed \/ fc \notin {5, 6, 16} THEN ""
  ELSE IF \/ fc = 6 /\ q.address # 1
          \/ fc = 16 /\ (q.address # 1 \/ q.count > 1)
          \/ fc = 5 /\ q.address > 1
    THEN "write_to_readonly_address"
  ELSE IF fc # 5 /\ q.value0 > 100 THEN "value_out_of_range"
  ELSE ""

\* A coil's value reaches the script as a Boolean.
ZeekContent(q) == <<q.function_code, q.address, IF q.function_code = 5 THEN q.value0 = 65280
                                                ELSE q.value0>>
ZeekContents == {ZeekContent(q) : q \in Commands}

ASSUME BoundsAssumption ==
  /\ Masters \subseteq Connections
  /\ TXIDS \in Nat \ {0}
  /\ MAX_SENT \in Nat

\* The unit identifier, which neither detector looks at, is the same in all
\* commands, and decode_pdu gives a write of one place the count 1.  An operator's
\* commands break no rule that looks at the command alone.
ASSUME CommandsAssumption ==
  /\ Commands \subseteq CommandType
  /\ \A q \in Commands : q.function_code \in {5, 6} /\ ~q.malformed => q.count = 1
  /\ Routine \subseteq Commands
  /\ \A q \in Routine : ContentRule(q) = ""

txids == 0..TXIDS-1
Rules == {"", "malformed_request", "function_code_not_allowed", "write_to_readonly_address",
          "value_out_of_range", "replay_reused_txid", "unknown_source"}
Requests == [conn : Connections, command : Commands, transaction_id : txids,
             rule : Rules, zeek : Rules]

\* What the script may have in memory of a connection.
ZeekTables == [txids -> ZeekContents \cup {None}]

\* None is none of the values it stands in for.
ASSUME NoneAssumption ==
  /\ None \notin ZeekContents
  /\ None \notin ZeekTables
  /\ None \notin Commands
  /\ None \notin Commands \X txids
  /\ None \notin Requests

VARIABLES
  known_sources,   (* hosts allowed to talk to the PLC, or None: rule 5 off  *)
  sent,            (* requests each master has sent                          *)
  seen,            (* _seen_txid_payload: per connection and identifier, the *)
                   (* payload (here, the command) last let through           *)
  seen_writes,     (* the Zeek script's; None: no table for the connection   *)
  last,            (* the last request: connection, command, identifier, and *)
                   (* the rule each of the two detectors reports             *)
  previous,        (* history: the write before it, of each connection       *)
  comparable       (* history: the script saw nothing so far that it decodes *)
                   (* otherwise, and dropped no table                        *)

vars == <<known_sources, sent, seen, seen_writes, last, previous, comparable>>

IsWrite(q) == q.function_code \in WRITE_FUNCTION_CODES

Init ==
  /\ known_sources \in {None, {Host[c] : c \in Masters}}
  /\ sent = [c \in Connections |-> 0]
  /\ seen = [c \in Connections |-> [t \in txids |-> None]]
  /\ seen_writes = [c \in Connections |-> None]
  /\ last = None
  /\ previous = [c \in Connections |-> None]
  /\ comparable = (known_sources = None)

----------------------------------------------------------------------------
(* One request.                                                            *)

UnknownSource(c) == known_sources # None /\ Host[c] \notin known_sources

\* Rules 2 to 4 and 5 come in the order of the code: 0, 1, 5, then the others.
rule(c, q, t) ==
  IF ContentRule(q) \in {"malformed_request", "function_code_not_allowed"} THEN ContentRule(q)
  ELSE IF UnknownSource(c) THEN "unknown_source"
  ELSE IF ContentRule(q) # "" THEN ContentRule(q)
  ELSE IF IsWrite(q) /\ seen[c][t] = q THEN "replay_reused_txid"
  ELSE ""

score_request_AnyConnection(c, q, t) ==
  seen' = IF rule(c, q, t) = "" /\ IsWrite(q)
          THEN [d \in Connections |-> [seen[d] EXCEPT ![t] = q]] ELSE seen

score_request_KeepsFirst(c, q, t) ==
  seen' = IF rule(c, q, t) = "" /\ IsWrite(q) /\ seen[c][t] = None
          THEN [seen EXCEPT ![c][t] = q] ELSE seen

score_request_Forgets(c, q, t) ==
  seen' = IF rule(c, q, t) = "" /\ IsWrite(q)
          THEN [seen EXCEPT ![c] = [u \in txids |-> IF u = t THEN q ELSE None]]
          ELSE [seen EXCEPT ![c] = [u \in txids |-> None]]

\* A write that no rule fires on is remembered under its identifier.
score_request(c, q, t) ==
  seen' = IF rule(c, q, t) = "" /\ IsWrite(q) THEN [seen EXCEPT ![c][t] = q] ELSE seen

ZeekTable(c) == IF seen_writes[c] = None THEN [t \in txids |-> None] ELSE seen_writes[c]
zeek_rule(c, q, t) ==
  IF ZeekRule(q) # "" \/ q.malformed \/ ~IsWrite(q) THEN ZeekRule(q)
  ELSE IF ZeekTable(c)[t] = ZeekContent(q) THEN "replay_reused_txid"
  ELSE ""

\* check_replay, which only the writes that no other rule of the script fires on reach.
check_replay(c, q, t) ==
  seen_writes' = IF ZeekRule(q) # "" \/ q.malformed \/ ~IsWrite(q) THEN seen_writes
                 ELSE [seen_writes EXCEPT ![c] = [ZeekTable(c) EXCEPT ![t] = ZeekContent(q)]]

\* The script decodes the command as the tap and load_requests do: it counts the
\* registers of a block, and they go by the count that the block announces.
DecodedAlike(q) == /\ ~q.malformed
                   /\ q.function_code = 5 => q.value0 \in COIL_VALUES
                   /\ q.function_code = 16 => q.count >= 1

Request(c, q, t) ==
  /\ last' = [conn |-> c, command |-> q, transaction_id |-> t,
              rule |-> rule(c, q, t), zeek |-> zeek_rule(c, q, t)]
  /\ score_request(c, q, t)
  /\ check_replay(c, q, t)
  /\ previous' = IF last # None /\ IsWrite(last.command)
                 THEN [previous EXCEPT ![last.conn] = <<last.command, last.transaction_id>>] ELSE previous
  /\ comparable' = (comparable /\ DecodedAlike(q))
  /\ UNCHANGED known_sources

\* A master's next request.
MasterRequest(c, q) ==
  /\ sent[c] < MAX_SENT
  /\ sent' = [sent EXCEPT ![c] = @ + 1]
  /\ Request(c, q, sent[c] % TXIDS)

\* Any other client's.
OtherRequest(c, q, t) ==
  /\ Request(c, q, t)
  /\ UNCHANGED sent

\* create_expire: the script drops its tables an hour after it made them.
Expire(c) ==
  /\ seen_writes[c] # None
  /\ seen_writes' = [seen_writes EXCEPT ![c] = None]
  /\ comparable' = FALSE
  /\ UNCHANGED <<known_sources, sent, seen, last, previous>>

Next ==
  \/ \E c \in Masters, q \in Routine : MasterRequest(c, q)
  \/ \E c \in Connections \ Masters, q \in Commands, t \in txids : OtherRequest(c, q, t)
  \/ \E c \in Connections : Expire(c)

Spec == Init /\ [][Next]_vars
----------------------------------------------------------------------------
(* Properties.                                                             *)

\* Every variable has its type.
TypeOK ==
  /\ known_sources = None \/ known_sources = {Host[c] : c \in Masters}
  /\ sent \in [Connections -> 0..MAX_SENT]
  /\ seen \in [Connections -> [txids -> Commands \cup {None}]]
  /\ seen_writes \in [Connections -> ZeekTables \cup {None}]
  /\ last \in Requests \cup {None}
  /\ previous \in [Connections -> (Commands \X txids) \cup {None}]
  /\ comparable \in BOOLEAN

ByMaster == last # None /\ last.conn \in Masters

\* A master that counts its requests up is never flagged, whatever other clients
\* send with the same identifiers: the replay rule's memory is "per connection"
\* (rule_based.py:24-29,82).  It must not have sent more than there are
\* identifiers.
MastersNotFlagged == ByMaster /\ sent[last.conn] <= TXIDS => last.rule = ""

\* "A legitimate controller holding a setpoint steady - same value, fresh
\* incrementing txids - is NOT flagged" (rule_based.py:28-29;
\* tests/test_rule_based.py, test_steady_setpoint_with_fresh_txids_not_flagged).
SteadySetpointNotFlagged == ByMaster => last.rule # "replay_reused_txid"

\* A write sent again as it was, with no other write of its connection in between,
\* is flagged each time (attacks/replay_attack.py does so), whatever else the
\* connection and the others send.
ResendIsFlagged ==
  last # None /\ previous[last.conn] = <<last.command, last.transaction_id>> => last.rule # ""

\* The Zeek script is "this project's rule-based detector" (modbus_project.zeek:1-2):
\* it reports the same rule, as long as rule 5 is off, both decode what they see
\* alike, and the script's memory has not expired.
ZeekAgrees == comparable /\ last # None => last.rule = last.zeek
=============================================================================
