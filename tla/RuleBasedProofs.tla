-------------------------- MODULE RuleBasedProofs --------------------------
(***************************************************************************)
(* What holds of the rule-based detector for all connections, commands and *)
(* identifiers: the types, that a well-behaved master is not flagged, that *)
(* a repeated write is, and that the Zeek script reports the same.         *)
(***************************************************************************)
EXTENDS RuleBased, TLAPS

\* Before its identifiers are used up, what a master's connection has in memory
\* is under identifiers it has used.
MemoryIsPast ==
  \A c \in Masters : sent[c] <= TXIDS =>
    \A t \in txids : seen[c][t] # None => t < sent[c]

IInv == TypeOK /\ MemoryIsPast /\ MastersNotFlagged

----------------------------------------------------------------------------

\* The next identifier is one, and the count itself as long as they last.
LEMMA NextTxid == ASSUME NEW n \in Nat
                  PROVE  n % TXIDS \in txids /\ (n < TXIDS => n % TXIDS = n)
  BY BoundsAssumption DEF BoundsAssumption, txids

LEMMA RuleIsNamed == ASSUME NEW c, NEW q, NEW t PROVE rule(c, q, t) \in Rules
<1>1. ContentRule(q) \in Rules
  BY DEF ContentRule, Rules
<1> QED BY <1>1 DEF rule, Rules

LEMMA ZeekRuleIsNamed == ASSUME NEW c, NEW q, NEW t PROVE zeek_rule(c, q, t) \in Rules
<1>1. ZeekRule(q) \in Rules
  BY DEF ZeekRule, Rules
<1> QED BY <1>1 DEF zeek_rule, Rules

LEMMA TableType == ASSUME TypeOK, NEW c \in Connections PROVE ZeekTable(c) \in ZeekTables
  BY DEF TypeOK, ZeekTable, ZeekTables

\* What a request leaves of its type, whoever sends it.
LEMMA RequestTypes ==
  ASSUME TypeOK, NEW c \in Connections, NEW q \in Commands, NEW t \in txids, Request(c, q, t)
  PROVE  /\ known_sources' = known_sources
         /\ seen' \in [Connections -> [txids -> Commands \cup {None}]]
         /\ seen_writes' \in [Connections -> ZeekTables \cup {None}]
         /\ last' \in Requests
         /\ last'.conn = c /\ last'.rule = rule(c, q, t)
         /\ previous' \in [Connections -> (Commands \X txids) \cup {None}]
         /\ comparable' \in BOOLEAN
<1>1. known_sources' = known_sources
  BY DEF Request
<1>2. seen' \in [Connections -> [txids -> Commands \cup {None}]]
  BY DEF Request, score_request, TypeOK
<1>3. seen_writes' \in [Connections -> ZeekTables \cup {None}]
  <2>1. ZeekTable(c) \in ZeekTables /\ ZeekContent(q) \in ZeekContents
    BY TableType DEF ZeekContents
  <2>2. [ZeekTable(c) EXCEPT ![t] = ZeekContent(q)] \in ZeekTables
    BY <2>1 DEF ZeekTables
  <2> QED BY <2>2 DEF Request, check_replay, TypeOK
<1>4. last' \in Requests /\ last'.conn = c /\ last'.rule = rule(c, q, t)
  BY RuleIsNamed, ZeekRuleIsNamed DEF Request, Requests
<1>5. previous' \in [Connections -> (Commands \X txids) \cup {None}]
  BY DEF Request, TypeOK, Requests
<1>6. comparable' \in BOOLEAN
  BY DEF Request, DecodedAlike, TypeOK
<1> QED BY <1>1, <1>2, <1>3, <1>4, <1>5, <1>6

LEMMA InitType == Init => TypeOK
  BY BoundsAssumption DEF Init, TypeOK, BoundsAssumption

LEMMA NextType == TypeOK /\ [Next]_vars => TypeOK'
<1> SUFFICES ASSUME TypeOK, [Next]_vars PROVE TypeOK'
  OBVIOUS
<1>1. ASSUME NEW c \in Masters, NEW q \in Routine, MasterRequest(c, q) PROVE TypeOK'
  <2>1. c \in Connections /\ q \in Commands
    BY BoundsAssumption, CommandsAssumption DEF BoundsAssumption, CommandsAssumption
  <2>2. sent[c] \in Nat /\ sent[c] % TXIDS \in txids
    BY <2>1, NextTxid DEF TypeOK
  <2>3. Request(c, q, sent[c] % TXIDS)
    BY <1>1 DEF MasterRequest
  <2>4. sent' \in [Connections -> 0..MAX_SENT]
    BY <1>1, <2>1, BoundsAssumption DEF MasterRequest, TypeOK, BoundsAssumption
  <2> QED BY <2>1, <2>2, <2>3, <2>4, RequestTypes DEF TypeOK
<1>2. ASSUME NEW c \in Connections \ Masters, NEW q \in Commands, NEW t \in txids,
             OtherRequest(c, q, t)
      PROVE  TypeOK'
  <2>1. Request(c, q, t) /\ sent' = sent
    BY <1>2 DEF OtherRequest
  <2> QED BY <2>1, RequestTypes DEF TypeOK
<1>3. ASSUME NEW c \in Connections, Expire(c) PROVE TypeOK'
  BY <1>3 DEF Expire, TypeOK
<1>4. CASE UNCHANGED vars
  BY <1>4 DEF vars, TypeOK
<1> QED BY <1>1, <1>2, <1>3, <1>4 DEF Next

\* Every variable keeps its type, for any identifiers and commands.
THEOREM DetectorTypeCorrect == Spec => []TypeOK
<1>1. Init => TypeOK
  BY InitType
<1>2. TypeOK /\ [Next]_vars => TypeOK'
  BY NextType
<1> QED BY <1>1, <1>2, PTL DEF Spec

----------------------------------------------------------------------------

LEMMA InitInv == Init => IInv
<1> SUFFICES ASSUME Init PROVE IInv
  OBVIOUS
<1>1. TypeOK
  BY InitType
<1>2. MemoryIsPast
  BY BoundsAssumption DEF Init, MemoryIsPast, BoundsAssumption
<1>3. MastersNotFlagged
  BY DEF Init, MastersNotFlagged, ByMaster
<1> QED BY <1>1, <1>2, <1>3 DEF IInv

\* A routine command under an identifier that is not in memory breaks no rule.
LEMMA RoutinePasses ==
  ASSUME TypeOK, NEW c \in Masters, NEW q \in Routine, NEW t \in txids, seen[c][t] = None
  PROVE  rule(c, q, t) = ""
<1>1. ContentRule(q) = "" /\ q # None
  BY CommandsAssumption, NoneAssumption DEF CommandsAssumption, NoneAssumption
<1>2. ~UnknownSource(c)
  BY DEF UnknownSource, TypeOK
<1> QED BY <1>1, <1>2 DEF rule

\* A request adds to the memory of its own connection alone, under its identifier.
LEMMA MemoryOf ==
  ASSUME TypeOK, NEW c \in Connections, NEW q \in Commands, NEW t \in txids, Request(c, q, t),
         NEW d \in Connections, NEW u \in txids, seen'[d][u] # None
  PROVE  seen[d][u] # None \/ (d = c /\ u = t)
  BY DEF Request, score_request, TypeOK

LEMMA NextInv == IInv /\ [Next]_vars => IInv'
<1> SUFFICES ASSUME IInv, [Next]_vars PROVE IInv'
  OBVIOUS
<1> USE DEF IInv
<1>0. TypeOK'
  BY NextType
<1>1. ASSUME NEW c \in Masters, NEW q \in Routine, MasterRequest(c, q)
      PROVE  MemoryIsPast' /\ MastersNotFlagged'
  <2> DEFINE t == sent[c] % TXIDS
  <2>1. c \in Connections /\ q \in Commands /\ Masters \subseteq Connections
    BY BoundsAssumption, CommandsAssumption DEF BoundsAssumption, CommandsAssumption
  <2>2. sent[c] \in Nat /\ t \in txids /\ (sent[c] < TXIDS => t = sent[c])
    BY <2>1, NextTxid DEF TypeOK
  <2>3. Request(c, q, t) /\ sent' = [sent EXCEPT ![c] = sent[c] + 1]
    BY <1>1 DEF MasterRequest
  <2> HIDE DEF t
  <2>4. last'.conn = c /\ last'.rule = rule(c, q, t)
    BY <2>1, <2>2, <2>3, RequestTypes
  <2>5. ASSUME sent'[c] <= TXIDS PROVE t = sent[c] /\ rule(c, q, t) = ""
    <3>1. sent[c] < TXIDS /\ t = sent[c]
      BY <2>1, <2>2, <2>3, <2>5, BoundsAssumption DEF TypeOK, BoundsAssumption
    <3>2. seen[c][t] = None
      BY <2>2, <3>1, BoundsAssumption DEF MemoryIsPast, BoundsAssumption
    <3> QED BY <2>2, <3>1, <3>2, RoutinePasses
  <2>6. MastersNotFlagged'
    BY <2>4, <2>5 DEF MastersNotFlagged, ByMaster
  <2>7. MemoryIsPast'
    <3> SUFFICES ASSUME NEW d \in Masters, sent'[d] <= TXIDS,
                        NEW u \in txids, seen'[d][u] # None
                 PROVE  u < sent'[d]
      BY DEF MemoryIsPast
    <3>1. d \in Connections /\ sent[d] \in Nat /\ u \in Nat
      BY <2>1 DEF TypeOK, txids
    <3>2. seen[d][u] # None \/ (d = c /\ u = t)
      BY <2>1, <2>2, <2>3, <3>1, MemoryOf
    <3>3. CASE d = c /\ u = t
      <4>1. t = sent[c]
        BY <2>5, <3>3
      <4>2. sent'[c] = sent[c] + 1
        BY <2>1, <2>3 DEF TypeOK
      <4> QED BY <2>2, <3>3, <4>1, <4>2
    <3>4. CASE seen[d][u] # None
      <4>1. sent[d] <= sent'[d]
        BY <2>1, <2>2, <2>3, <3>1 DEF TypeOK
      <4>2. sent'[d] \in Int /\ TXIDS \in Int
        BY <1>0, <3>1, BoundsAssumption DEF TypeOK, BoundsAssumption
      <4>3. u < sent[d]
        BY <3>1, <3>4, <4>1, <4>2 DEF MemoryIsPast
      <4> QED BY <3>1, <4>1, <4>2, <4>3
    <3> QED BY <3>2, <3>3, <3>4
  <2> QED BY <2>6, <2>7
<1>2. ASSUME NEW c \in Connections \ Masters, NEW q \in Commands, NEW t \in txids,
             OtherRequest(c, q, t)
      PROVE  MemoryIsPast' /\ MastersNotFlagged'
  <2>1. Request(c, q, t) /\ sent' = sent
    BY <1>2 DEF OtherRequest
  <2>2. last'.conn = c
    BY <2>1, RequestTypes
  <2>3. \A d \in Masters, u \in txids : seen'[d][u] # None => seen[d][u] # None
    BY <2>1, MemoryOf, BoundsAssumption DEF BoundsAssumption
  <2> QED BY <2>1, <2>2, <2>3 DEF MemoryIsPast, MastersNotFlagged, ByMaster
<1>3. ASSUME NEW c \in Connections, Expire(c) PROVE MemoryIsPast' /\ MastersNotFlagged'
  BY <1>3 DEF Expire, MemoryIsPast, MastersNotFlagged, ByMaster
<1>4. ASSUME UNCHANGED vars PROVE MemoryIsPast' /\ MastersNotFlagged'
  <2>1. sent' = sent /\ seen' = seen /\ last' = last
    BY <1>4 DEF vars
  <2> QED BY <2>1 DEF MemoryIsPast, MastersNotFlagged, ByMaster
<1> QED BY <1>0, <1>1, <1>2, <1>3, <1>4 DEF Next

\* A master that has not used up its identifiers is never flagged, whatever the
\* clients of other connections send.
THEOREM NoFalseAlarm == Spec => []MastersNotFlagged
<1>1. Init => IInv
  BY InitInv
<1>2. IInv /\ [Next]_vars => IInv'
  BY NextInv
<1>3. IInv => MastersNotFlagged
  BY DEF IInv
<1> QED BY <1>1, <1>2, <1>3, PTL DEF Spec

----------------------------------------------------------------------------

\* The last write of a connection, and that a repetition of it would be flagged.
LastWrite(c) ==
  IF last # None /\ last.conn = c /\ IsWrite(last.command)
  THEN <<last.command, last.transaction_id>> ELSE previous[c]

LastWriteCaught ==
  \A c \in Connections, q \in Commands, t \in txids :
    LastWrite(c) = <<q, t>> => rule(c, q, t) # ""

RInv == TypeOK /\ LastWriteCaught /\ ResendIsFlagged

LEMMA InitCaught == Init => RInv
<1> SUFFICES ASSUME Init PROVE RInv
  OBVIOUS
<1>1. \A c \in Connections : LastWrite(c) = None
  BY DEF Init, LastWrite
<1>2. LastWriteCaught
  <2>1. ASSUME NEW q \in Commands, NEW t \in txids PROVE <<q, t>> # None
    <3>1. <<q, t>> \in Commands \X txids
      OBVIOUS
    <3> QED BY <3>1, NoneAssumption DEF NoneAssumption
  <2> QED BY <1>1, <2>1 DEF LastWriteCaught
<1>3. ResendIsFlagged
  BY DEF Init, ResendIsFlagged
<1> QED BY <1>2, <1>3, InitType DEF RInv

\* A rule that fires goes on firing while the memory it looks at is the same.
LEMMA RuleStays ==
  ASSUME NEW c, NEW q, NEW t, rule(c, q, t) # "", known_sources' = known_sources,
         seen'[c][t] = seen[c][t]
  PROVE  rule(c, q, t)' # ""
  BY DEF rule, UnknownSource

\* A write is flagged, or in memory from now on: the next one like it is flagged.
LEMMA WriteIsCaught ==
  ASSUME TypeOK, NEW c \in Connections, NEW q \in Commands, NEW t \in txids, Request(c, q, t),
         IsWrite(q)
  PROVE  rule(c, q, t)' # ""
<1>1. known_sources' = known_sources
  BY DEF Request
<1>2. CASE rule(c, q, t) = ""
  <2>1. seen'[c][t] = q
    BY <1>2 DEF Request, score_request, TypeOK
  <2> QED BY <1>1, <2>1 DEF rule
<1>3. CASE rule(c, q, t) # ""
  <2>1. seen' = seen
    BY <1>3 DEF Request, score_request
  <2> QED BY <1>1, <1>3, <2>1, RuleStays
<1> QED BY <1>2, <1>3

LEMMA RequestCaught ==
  ASSUME RInv, NEW c \in Connections, NEW q \in Commands, NEW t \in txids, Request(c, q, t)
  PROVE  LastWriteCaught' /\ ResendIsFlagged'
<1>1. /\ TypeOK /\ known_sources' = known_sources
      /\ last' = [conn |-> c, command |-> q, transaction_id |-> t,
                  rule |-> rule(c, q, t), zeek |-> zeek_rule(c, q, t)]
  BY DEF RInv, Request
<1>2. last' # None
  BY <1>1, RequestTypes, NoneAssumption DEF NoneAssumption
<1>3. \A d \in Connections : previous'[d] = LastWrite(d)
  BY <1>1 DEF Request, LastWrite, TypeOK
<1>4. ResendIsFlagged'
  BY <1>1, <1>3 DEF RInv, LastWriteCaught, ResendIsFlagged
<1>5. LastWriteCaught'
  <2> SUFFICES ASSUME NEW d \in Connections, NEW r \in Commands, NEW u \in txids,
                      LastWrite(d)' = <<r, u>>
               PROVE  rule(d, r, u)' # ""
    BY DEF LastWriteCaught
  <2>1. CASE d = c /\ IsWrite(q)
    <3>1. r = q /\ u = t
      BY <1>1, <1>2, <2>1 DEF LastWrite
    <3> QED BY <1>1, <2>1, <3>1, WriteIsCaught
  <2>2. CASE ~(d = c /\ IsWrite(q))
    <3>1. LastWrite(d)' = LastWrite(d)
      BY <1>1, <1>3, <2>2 DEF LastWrite
    <3>2. rule(d, r, u) # ""
      BY <3>1 DEF RInv, LastWriteCaught
    <3>3. seen'[d][u] = seen[d][u]
      BY <1>1, <2>2 DEF Request, score_request, TypeOK
    <3> QED BY <1>1, <3>2, <3>3, RuleStays
  <2> QED BY <2>1, <2>2
<1> QED BY <1>4, <1>5

LEMMA NextCaught == RInv /\ [Next]_vars => RInv'
<1> SUFFICES ASSUME RInv, [Next]_vars PROVE RInv'
  OBVIOUS
<1>0. TypeOK /\ TypeOK'
  BY NextType DEF RInv
<1>1. ASSUME NEW c \in Masters, NEW q \in Routine, MasterRequest(c, q)
      PROVE  LastWriteCaught' /\ ResendIsFlagged'
  <2>1. c \in Connections /\ q \in Commands
    BY BoundsAssumption, CommandsAssumption DEF BoundsAssumption, CommandsAssumption
  <2>2. sent[c] % TXIDS \in txids /\ Request(c, q, sent[c] % TXIDS)
    BY <1>0, <1>1, <2>1, NextTxid DEF TypeOK, MasterRequest
  <2> QED BY <2>1, <2>2, RequestCaught
<1>2. ASSUME NEW c \in Connections \ Masters, NEW q \in Commands, NEW t \in txids,
             OtherRequest(c, q, t)
      PROVE  LastWriteCaught' /\ ResendIsFlagged'
  BY <1>2, RequestCaught DEF OtherRequest
<1>3. ASSUME UNCHANGED <<known_sources, seen, last, previous>>
      PROVE  LastWriteCaught' /\ ResendIsFlagged'
  <2>1. \A c \in Connections, q \in Commands, t \in txids : rule(c, q, t)' = rule(c, q, t)
    BY <1>3 DEF rule, UnknownSource
  <2>2. \A c \in Connections : LastWrite(c)' = LastWrite(c)
    BY <1>3 DEF LastWrite
  <2>3. LastWriteCaught'
    BY <2>1, <2>2 DEF RInv, LastWriteCaught
  <2>4. ResendIsFlagged'
    BY <1>3 DEF RInv, ResendIsFlagged
  <2> QED BY <2>3, <2>4
<1> QED BY <1>0, <1>1, <1>2, <1>3 DEF RInv, Next, Expire, vars

\* A write repeated with no other write of its connection in between is flagged,
\* each time it comes.
THEOREM Resend == Spec => []ResendIsFlagged
<1>1. RInv => ResendIsFlagged
  BY DEF RInv
<1> QED BY <1>1, InitCaught, NextCaught, PTL DEF Spec

----------------------------------------------------------------------------
(* The script next to the detector.                                        *)

\* The detector lets q through, and the script decodes it alike: a write that it
\* can have in memory.
LetThrough(q) == DecodedAlike(q) /\ IsWrite(q) /\ ContentRule(q) = ""

\* What the detector has in memory of an identifier, and what the script has.
SameMemory(s, z) == \/ s = None /\ z = None
                    \/ s # None /\ LetThrough(s) /\ z = ZeekContent(s)

SameMemories == comparable =>
  /\ known_sources = None
  /\ \A c \in Connections : \A t \in txids : SameMemory(seen[c][t], ZeekTable(c)[t])

ZInv == TypeOK /\ SameMemories /\ ZeekAgrees

\* What a write covers is the one place that may be written, or not.
LEMMA WordsAreNumbers == Words \subseteq Nat
  BY DEF Words

LEMMA CommandFacts ==
  ASSUME NEW q \in Commands
  PROVE  /\ q \in CommandType
         /\ q.function_code \in Nat /\ q.address \in Nat /\ q.count \in Nat /\ q.value0 \in Nat
         /\ q.malformed \in BOOLEAN
         /\ q.function_code \in {5, 6} /\ ~q.malformed => q.count = 1
<1>1. q \in CommandType
  BY CommandsAssumption
<1>2. q.function_code \in {5, 6} /\ ~q.malformed => q.count = 1
  BY CommandsAssumption
<1>3. q.address \in Words /\ q.count \in Words /\ q.value0 \in Words /\ q.malformed \in BOOLEAN
  BY <1>1 DEF CommandType
<1>4. q.function_code \in Nat
  BY <1>1 DEF CommandType
<1> QED BY <1>1, <1>2, <1>3, <1>4, WordsAreNumbers

LEMMA OneTarget ==
  ASSUME NEW q \in CommandType, q.count >= 1
  PROVE  targets(q) \subseteq WRITABLE_HOLDING <=> q.address = 1 /\ q.count = 1
<1>1. q.address \in Nat /\ q.count \in Nat
  BY WordsAreNumbers DEF CommandType
<1>2. targets(q) = q.address .. q.address + q.count - 1
  BY <1>1 DEF targets
<1>3. ASSUME targets(q) \subseteq {1} PROVE q.address = 1 /\ q.count = 1
  <2>1. q.address \in targets(q) /\ q.address + q.count - 1 \in targets(q)
    BY <1>1, <1>2
  <2>2. q.address = 1 /\ q.address + q.count - 1 = 1
    BY <1>3, <2>1
  <2> QED BY <1>1, <2>2
<1>4. ASSUME q.address = 1, q.count = 1 PROVE targets(q) \subseteq {1}
  BY <1>2, <1>4
<1> QED BY <1>3, <1>4 DEF WRITABLE_HOLDING

\* Rules 1 to 4 are the same in both, for a command decoded alike.
LEMMA SameContentRule ==
  ASSUME NEW q \in Commands, DecodedAlike(q)
  PROVE  ContentRule(q) = ZeekRule(q)
<1>1. /\ q \in CommandType /\ ~q.malformed
      /\ q.function_code = 16 => q.count >= 1
      /\ q.function_code = 5 => q.value0 \in COIL_VALUES
  BY CommandFacts DEF DecodedAlike
<1>2. /\ q.function_code \in Nat /\ q.address \in Nat /\ q.count \in Nat /\ q.value0 \in Nat
      /\ q.function_code \in {5, 6} => q.count = 1
  BY <1>1, CommandFacts
<1>3. CASE q.function_code \notin {5, 6, 16}
  <2>1. CASE q.function_code \notin ALLOWED_FUNCTION_CODES
    BY <1>1, <2>1 DEF ContentRule, ZeekRule
  <2>2. CASE q.function_code \in ALLOWED_FUNCTION_CODES
    <3>1. q.function_code \notin {5, 15} /\ q.function_code \notin {6, 16}
      BY <1>3, <2>2 DEF ALLOWED_FUNCTION_CODES
    <3> QED BY <1>1, <1>3, <2>2, <3>1 DEF ContentRule, ZeekRule
  <2> QED BY <2>1, <2>2
<1>4. CASE q.function_code = 5
  <2>1. /\ q.function_code \in ALLOWED_FUNCTION_CODES /\ q.function_code \notin {6, 16}
        /\ q.function_code \in {5, 15} /\ q.function_code \in {5, 6, 16}
    BY <1>4 DEF ALLOWED_FUNCTION_CODES
  <2>2. q.address \notin WRITABLE_COILS <=> q.address > 1
    BY <1>2 DEF WRITABLE_COILS
  <2>3. ContentRule(q) = IF q.address \notin WRITABLE_COILS THEN "write_to_readonly_address" ELSE ""
    BY <1>1, <1>4, <2>1 DEF ContentRule
  <2>4. ZeekRule(q) = IF q.address > 1 THEN "write_to_readonly_address" ELSE ""
    BY <1>1, <1>4, <2>1 DEF ZeekRule
  <2>5. CASE q.address > 1
    BY <2>2, <2>3, <2>4, <2>5
  <2>6. CASE ~(q.address > 1)
    BY <2>2, <2>3, <2>4, <2>6
  <2> QED BY <2>5, <2>6
<1>5. CASE q.function_code \in {6, 16}
  <2>1. q.function_code \in ALLOWED_FUNCTION_CODES /\ q.function_code # 5
    BY <1>5 DEF ALLOWED_FUNCTION_CODES
  <2>2. ~(targets(q) \subseteq WRITABLE_HOLDING) <=> q.address # 1 \/ q.count # 1
    BY <1>1, <1>2, <1>5, OneTarget
  <2>3. q.value0 \notin SETPOINT_RANGE <=> q.value0 > 100
    BY <1>2 DEF SETPOINT_RANGE
  <2>4. /\ q.function_code = 6 => q.count = 1
        /\ q.function_code = 16 => (q.count # 1 <=> q.count > 1)
    BY <1>1, <1>2, <1>5
  <2> QED BY <1>1, <1>5, <2>1, <2>2, <2>3, <2>4 DEF ContentRule, ZeekRule
<1> QED BY <1>3, <1>4, <1>5

\* What can be in memory is one of three writes, and all that is known of them is
\* in the script's content of them.
LEMMA ContentTells ==
  ASSUME NEW q \in Commands, NEW s \in Commands, LetThrough(q), LetThrough(s),
         ZeekContent(q) = ZeekContent(s)
  PROVE  q = s
<1>1. /\ q \in CommandType /\ s \in CommandType /\ ~q.malformed /\ ~s.malformed
      /\ q.function_code = s.function_code /\ q.address = s.address
      /\ q.function_code = 5 => (q.value0 = 65280 <=> s.value0 = 65280)
      /\ q.function_code # 5 => q.value0 = s.value0
  <2>1. q \in CommandType /\ s \in CommandType /\ ~q.malformed /\ ~s.malformed
    BY CommandFacts DEF LetThrough, DecodedAlike
  <2>2. q.function_code = s.function_code /\ q.address = s.address
    BY DEF ZeekContent
  <2>3. CASE q.function_code = 5
    BY <2>1, <2>2, <2>3 DEF ZeekContent
  <2>4. CASE q.function_code # 5
    BY <2>1, <2>2, <2>4 DEF ZeekContent
  <2> QED BY <2>1, <2>2, <2>3, <2>4
<1>2. ASSUME NEW w \in Commands, LetThrough(w)
      PROVE  w.count = 1 /\ (w.function_code = 5 => w.value0 \in COIL_VALUES)
  <2>1. /\ w \in CommandType /\ ~w.malformed /\ IsWrite(w) /\ ContentRule(w) = ""
        /\ w.function_code = 16 => w.count >= 1
        /\ w.function_code = 5 => w.value0 \in COIL_VALUES
        /\ w.function_code \in {5, 6} => w.count = 1
    BY <1>2, CommandFacts DEF LetThrough, DecodedAlike
  <2>2. w.function_code \in ALLOWED_FUNCTION_CODES
    BY <2>1 DEF ContentRule
  <2>3. w.function_code \in {5, 6, 16}
    <3>1. w.function_code \in {5, 6, 15, 16}
      BY <2>1 DEF IsWrite, WRITE_FUNCTION_CODES
    <3> QED BY <2>2, <3>1 DEF ALLOWED_FUNCTION_CODES
  <2>4. ASSUME w.function_code = 16 PROVE w.count = 1
    <3>1. targets(w) \subseteq WRITABLE_HOLDING
      BY <2>1, <2>2, <2>4 DEF ContentRule
    <3> QED BY <2>1, <2>4, <3>1, OneTarget
  <2>5. w.count = 1
    <3>1. CASE w.function_code = 16
      BY <2>4, <3>1
    <3>2. CASE w.function_code \in {5, 6}
      BY <2>1, <3>2
    <3> QED BY <2>3, <3>1, <3>2
  <2> QED BY <2>1, <2>5
<1>3. q.count = s.count /\ q.value0 = s.value0
  <2>1. q.count = 1 /\ s.count = 1
    BY <1>2
  <2>2. /\ q.function_code = 5 => q.value0 \in COIL_VALUES
        /\ s.function_code = 5 => s.value0 \in COIL_VALUES
    BY <1>2
  <2>3. CASE q.function_code = 5
    <3>1. q.value0 \in COIL_VALUES /\ s.value0 \in COIL_VALUES
      BY <1>1, <2>2, <2>3
    <3>2. q.value0 = 65280 <=> s.value0 = 65280
      BY <1>1, <2>3
    <3> QED BY <2>1, <3>1, <3>2 DEF COIL_VALUES
  <2>4. CASE q.function_code # 5
    BY <1>1, <2>1, <2>4
  <2> QED BY <2>3, <2>4
<1>4. q.malformed = s.malformed
  <2>1. q.malformed \in BOOLEAN /\ s.malformed \in BOOLEAN
    BY CommandFacts
  <2> QED BY <1>1, <2>1
<1> QED BY <1>1, <1>3, <1>4 DEF CommandType

\* Both report the same of one request, and have the same in memory after it.
LEMMA RequestAgrees ==
  ASSUME ZInv, NEW c \in Connections, NEW q \in Commands, NEW t \in txids, Request(c, q, t)
  PROVE  SameMemories' /\ ZeekAgrees'
<1> SUFFICES ASSUME comparable' PROVE SameMemories' /\ ZeekAgrees'
  BY DEF SameMemories, ZeekAgrees
<1>1. /\ TypeOK /\ comparable /\ DecodedAlike(q) /\ known_sources = None
      /\ \A d \in Connections : \A u \in txids : SameMemory(seen[d][u], ZeekTable(d)[u])
  BY DEF ZInv, SameMemories, Request
<1>2. ContentRule(q) = ZeekRule(q) /\ ~q.malformed
  BY <1>1, SameContentRule DEF DecodedAlike
<1>3. rule(c, q, t) = IF ContentRule(q) # "" THEN ContentRule(q)
                      ELSE IF IsWrite(q) /\ seen[c][t] = q THEN "replay_reused_txid" ELSE ""
  BY <1>1 DEF rule, UnknownSource
<1>4. /\ q # None /\ ZeekContent(q) # None /\ seen[c][t] \in Commands \cup {None}
      /\ ZeekTable(c) \in ZeekTables
  BY <1>1, NoneAssumption, TableType DEF TypeOK, ZeekContents
<1>5. ASSUME ContentRule(q) = "", IsWrite(q)
      PROVE  ZeekTable(c)[t] = ZeekContent(q) <=> seen[c][t] = q
  <2>1. LetThrough(q)
    BY <1>1, <1>5 DEF LetThrough
  <2>2. SameMemory(seen[c][t], ZeekTable(c)[t])
    BY <1>1
  <2> QED BY <1>4, <2>1, <2>2, ContentTells DEF SameMemory
<1>6. rule(c, q, t) = zeek_rule(c, q, t)
  BY <1>2, <1>3, <1>5 DEF zeek_rule
<1>7. ZeekAgrees'
  BY <1>6 DEF ZeekAgrees, Request
<1>8. CASE ContentRule(q) = "" /\ IsWrite(q)
  <2>1. ZeekTable(c)' = [ZeekTable(c) EXCEPT ![t] = ZeekContent(q)]
    <3> DEFINE z == [ZeekTable(c) EXCEPT ![t] = ZeekContent(q)]
    <3>1. seen_writes' = [seen_writes EXCEPT ![c] = z]
      BY <1>2, <1>8 DEF Request, check_replay
    <3>2. z \in ZeekTables /\ z # None
      BY <1>4, NoneAssumption DEF ZeekTables, ZeekContents
    <3> HIDE DEF z
    <3>3. seen_writes'[c] = z
      BY <1>1, <3>1 DEF TypeOK
    <3> QED BY <3>2, <3>3 DEF ZeekTable, z
  <2>2. \A d \in Connections : d # c => ZeekTable(d)' = ZeekTable(d)
    BY <1>1, <1>2, <1>8 DEF Request, check_replay, ZeekTable, TypeOK
  <2>3. \/ seen' = [seen EXCEPT ![c][t] = q]
        \/ seen' = seen /\ seen[c][t] = q
    BY <1>3, <1>8 DEF Request, score_request
  <2>4. ASSUME NEW d \in Connections, NEW u \in txids
        PROVE  SameMemory(seen'[d][u], ZeekTable(d)'[u])
    <3>1. CASE d = c /\ u = t
      <4>1. seen'[d][u] = q /\ ZeekTable(d)'[u] = ZeekContent(q)
        BY <1>1, <1>4, <2>1, <2>3, <3>1 DEF TypeOK, ZeekTables
      <4> QED BY <1>1, <1>4, <1>8, <4>1 DEF SameMemory, LetThrough
    <3>2. CASE ~(d = c /\ u = t)
      <4>1. seen'[d][u] = seen[d][u]
        BY <1>1, <2>3, <3>2 DEF TypeOK
      <4>2. ZeekTable(d)'[u] = ZeekTable(d)[u]
        BY <1>4, <2>1, <2>2, <3>2 DEF ZeekTables
      <4> QED BY <1>1, <4>1, <4>2
    <3> QED BY <3>1, <3>2
  <2> QED BY <1>1, <1>7, <2>4 DEF SameMemories, Request
<1>9. CASE ~(ContentRule(q) = "" /\ IsWrite(q))
  <2>1. UNCHANGED <<seen, seen_writes, known_sources>>
    BY <1>2, <1>3, <1>9 DEF Request, score_request, check_replay
  <2> QED BY <1>1, <1>7, <2>1 DEF SameMemories, ZeekTable
<1> QED BY <1>8, <1>9

LEMMA NextAgrees == ZInv /\ [Next]_vars => ZInv'
<1> SUFFICES ASSUME ZInv, [Next]_vars PROVE ZInv'
  OBVIOUS
<1>0. TypeOK /\ TypeOK'
  BY NextType DEF ZInv
<1>1. ASSUME NEW c \in Masters, NEW q \in Routine, MasterRequest(c, q)
      PROVE  SameMemories' /\ ZeekAgrees'
  <2>1. c \in Connections /\ q \in Commands
    BY BoundsAssumption, CommandsAssumption
  <2>2. sent[c] % TXIDS \in txids
    BY <1>0, <2>1, NextTxid DEF TypeOK
  <2> QED BY <1>1, <2>1, <2>2, RequestAgrees DEF MasterRequest
<1>2. ASSUME NEW c \in Connections \ Masters, NEW q \in Commands, NEW t \in txids,
             OtherRequest(c, q, t)
      PROVE  SameMemories' /\ ZeekAgrees'
  BY <1>2, RequestAgrees DEF OtherRequest
<1>3. ASSUME NEW c \in Connections, Expire(c) PROVE SameMemories' /\ ZeekAgrees'
  BY <1>3 DEF Expire, SameMemories, ZeekAgrees
<1>4. CASE UNCHANGED vars
  <2>1. UNCHANGED <<known_sources, seen, seen_writes, last, comparable>>
    BY <1>4 DEF vars
  <2>2. SameMemories'
    BY <2>1 DEF ZInv, SameMemories, ZeekTable
  <2>3. ZeekAgrees'
    BY <2>1 DEF ZInv, ZeekAgrees
  <2> QED BY <1>0, <2>2, <2>3 DEF ZInv
<1> QED BY <1>0, <1>1, <1>2, <1>3, <1>4 DEF Next, ZInv

LEMMA InitAgrees == Init => ZInv
<1> SUFFICES ASSUME Init PROVE ZInv
  OBVIOUS
<1>1. TypeOK
  BY InitType
<1>2. SameMemories /\ ZeekAgrees
  BY DEF Init, SameMemories, SameMemory, ZeekTable, ZeekAgrees
<1> QED BY <1>1, <1>2 DEF ZInv

\* The Zeek script reports the same rule as the detector, whatever the clients
\* send, as long as rule 5 is off, both decode what they see alike, and the
\* script's memory has not expired.
THEOREM ZeekPort == Spec => []ZeekAgrees
<1>1. ZInv => ZeekAgrees
  BY DEF ZInv
<1> QED BY <1>1, InitAgrees, NextAgrees, PTL DEF Spec
=============================================================================
