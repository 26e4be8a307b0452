------------------------------ MODULE Features ------------------------------
(***************************************************************************)
(* detectors/features.py on the requests of a live tap.  A pump stamps a   *)
(* request before it queues for the logger's lock, so rows of different    *)
(* connections may overtake each other on their way to the file, and the   *)
(* clock they are stamped with ticks in steps.  load_requests recomputes   *)
(* from the file what a monitor on the wire knows as each request passes;  *)
(* flag_requests of detectors/nids_compare.py finds the rows that the      *)
(* alerts of another tool, which saw the same traffic, are about.          *)
(***************************************************************************)
EXTENDS Integers, SequencesExt

CONSTANTS
  Conns,          (* connections: load_requests' conn                        *)
  Frames,         (* what a client can send, but for its transaction_id      *)
  None,           (* a blank field; nothing pending; no such predecessor     *)
  FIRST_TXID,     (* the first identifier of every client                    *)
  TOL,            (* 0.0005 s, in ticks of the clock                         *)
  MAX_TICK,       (* bound of the model: the clock's last tick               *)
  MAX_REQUESTS    (* bound of the model: requests in all                     *)

READ_FCS == {1, 2, 3, 4}
WRITE_SINGLE_FCS == {5, 6}
WRITE_MULTI_FCS == {15, 16}
WRITE_FCS == WRITE_SINGLE_FCS \cup WRITE_MULTI_FCS

\* The columns of a frame as the tap fills them: a frame whose length field is
\* wrong has no function code, and a PDU cut short no address, count or value.
FrameType == [function_code : (0..255) \cup {None}, address : Nat \cup {None},
              count : Nat \cup {None}, values : Nat \cup {None}]

\* A row: the frame, with what the tap adds to it.
RowType == [function_code : (0..255) \cup {None}, address : Nat \cup {None},
            count : Nat \cup {None}, values : Nat \cup {None},
            id : Nat, conn : Conns, wall_time : Nat, transaction_id : Nat]

\* What a monitor keeps of a target, and what it makes of a request's values.
HoldType == [value : Nat, run : Nat]
ValueType == [repeat_run : Nat, write_step : Nat \cup {None}]

ASSUME BoundsAssumption ==
  /\ FIRST_TXID \in Nat /\ TOL \in Nat /\ MAX_TICK \in Nat /\ MAX_REQUESTS \in Nat
  /\ \A f \in Frames : f \in FrameType

ASSUME NoneAssumption ==
  None \notin Nat /\ None \notin RowType /\ None \notin HoldType /\ None \notin ValueType

VARIABLES
  now,        (* the wall clock                                              *)
  pending,    (* of each connection, the row its pump has yet to log         *)
  file,       (* the rows of the file                                        *)
  facts,      (* history: of each request as it was stamped, what the        *)
              (* monitor knows of it                                         *)
  lastOn,     (* history: of each connection, its last request               *)
  holds       (* history: of each target, the value last written to it and   *)
              (* how often in a row                                          *)

vars == <<now, pending, file, facts, lastOn, holds>>

----------------------------------------------------------------------------
(* load_requests.                                                          *)

IsWrite(r) == r.function_code \in WRITE_FCS
Filled(field) == IF field = None THEN 0 ELSE field

malformed(r) ==
  \/ r.function_code = None
  \/ r.function_code \in READ_FCS \cup WRITE_FCS /\ None \in {r.address, r.count}
  \/ IsWrite(r) /\ r.values = None

\* One list.sort by wall_time that keeps the file's order of ties.
StableSort(rows) ==
  LET Earlier(r) == {i \in 1..Len(rows) : rows[i].wall_time < r.wall_time}
      Before(k) == {i \in 1..k-1 : rows[i].wall_time = rows[k].wall_time}
      place == [k \in 1..Len(rows) |-> Cardinality(Earlier(rows[k])) + Cardinality(Before(k)) + 1]
  IN [n \in 1..Len(rows) |-> rows[CHOOSE k \in 1..Len(rows) : place[k] = n]]

TiesReversed(rows) == StableSort(Reverse(rows))
NotSorted(rows) == rows

SortedByTime(rows) == StableSort(rows)

\* The data frame: the request rows in the order of their times.
load_requests(rows) == SortedByTime(rows)

\* The last of the rows before the k-th that is like it.
Previous(df, k, Like(_, _)) ==
  LET before == {i \in 1..k-1 : Like(df[i], df[k])} IN IF before = {} THEN None ELSE Max(before)

SameConn(q, r) == q.conn = r.conn
inter_arrival(df, k) == LET p == Previous(df, k, SameConn) IN
  IF p = None THEN 0 ELSE df[k].wall_time - df[p].wall_time
first_on_connection(df, k) == Previous(df, k, SameConn) = None
txid_delta(df, k) == LET p == Previous(df, k, SameConn) IN
  IF p = None THEN 1 ELSE df[k].transaction_id - df[p].transaction_id

\* What a write is to: a coil or a register.  Blank fields count as 0 here.
target(r) == <<IF r.function_code \in {5, 15} THEN "coil" ELSE "reg", Filled(r.address)>>
SameTarget(q, r) == IsWrite(q) /\ target(q) = target(r)
value0(r) == Filled(r.values)

repeat_run(df) ==
  LET run[k \in 1..Len(df)] ==
        LET p == Previous(df, k, SameTarget) IN
        IF ~IsWrite(df[k]) THEN 0
        ELSE IF p = None \/ value0(df[p]) # value0(df[k]) THEN 1
        ELSE run[p] + 1
  IN run
Distance(a, b) == IF a > b THEN a - b ELSE b - a
write_step(df, k) == LET p == Previous(df, k, SameTarget) IN
  IF ~IsWrite(df[k]) THEN 0
  ELSE IF p = None THEN None ELSE Distance(value0(df[k]), value0(df[p]))

----------------------------------------------------------------------------
(* flag_requests.                                                          *)

RowsOn(df, port) == {i \in 1..Len(df) : df[i].conn = port}

\* Suricata counts the requests of a connection from 0; Zeek gives the time.
Hits_AnyTid(df, a) ==
  LET rows == RowsOn(df, a.port) IN
  IF a.tx_id # None THEN {i \in rows : Cardinality({j \in rows : j < i}) = a.tx_id}
  ELSE {i \in rows : Distance(df[i].wall_time, a.ts) <= TOL}

Hits(df, a) ==
  LET rows == RowsOn(df, a.port) IN
  IF a.tx_id # None THEN {i \in rows : Cardinality({j \in rows : j < i}) = a.tx_id}
  ELSE {i \in rows : /\ Distance(df[i].wall_time, a.ts) <= TOL
                     /\ a.tid \in {None, df[i].transaction_id}}

flag_requests(df, alerts) ==
  [pred |-> UNION {Hits(df, a) : a \in alerts},
   unmapped |-> Cardinality({a \in alerts : Hits(df, a) = {}}),
   mismatched |-> Cardinality({a \in alerts : /\ Hits(df, a) # {} /\ a.tid # None
                                              /\ df[Min(Hits(df, a))].transaction_id # a.tid})]

----------------------------------------------------------------------------
(* The tap and the monitor.                                                *)

Init ==
  /\ now = 0
  /\ pending = [c \in Conns |-> None]
  /\ file = <<>>
  /\ facts = <<>>
  /\ lastOn = [c \in Conns |-> None]
  /\ holds = <<>>

\* What the monitor makes of request r: first from its connection, then, if it
\* can be decoded, from the process it acts on.
Fact(r) ==
  LET q == lastOn[r.conn]
      held == IF target(r) \in DOMAIN holds THEN holds[target(r)] ELSE None
  IN [inter_arrival |-> IF q = None THEN 0 ELSE r.wall_time - q.wall_time,
      first_on_connection |-> q = None,
      txid_delta |-> IF q = None THEN 1 ELSE r.transaction_id - q.transaction_id,
      value |-> IF malformed(r) THEN None
                ELSE IF ~IsWrite(r) THEN [repeat_run |-> 0, write_step |-> 0]
                ELSE IF held = None THEN [repeat_run |-> 1, write_step |-> None]
                ELSE [repeat_run |-> IF held.value = r.values THEN held.run + 1 ELSE 1,
                      write_step |-> Distance(held.value, r.values)]]

Row(f, id, conn, wall_time, transaction_id) ==
  [function_code |-> f.function_code, address |-> f.address, count |-> f.count,
   values |-> f.values, id |-> id, conn |-> conn, wall_time |-> wall_time,
   transaction_id |-> transaction_id]

\* A request reaches the pump of its connection, which stamps its row.  Clients
\* count their identifiers up; a replay repeats one.
Stamp(c, f, time, fresh) ==
  LET txid == IF lastOn[c] = None THEN FIRST_TXID ELSE lastOn[c].transaction_id + fresh
      r == Row(f, Len(facts) + 1, c, time, txid)
  IN /\ pending[c] = None
     /\ Len(facts) < MAX_REQUESTS
     /\ now' = time
     /\ pending' = [pending EXCEPT ![c] = r]
     /\ facts' = Append(facts, Fact(r))
     /\ lastOn' = [lastOn EXCEPT ![c] = r]
     /\ holds' = IF IsWrite(r) /\ ~malformed(r)
                 THEN [t \in DOMAIN holds \cup {target(r)} |->
                         IF t = target(r)
                         THEN [value |-> r.values, run |-> Fact(r).value.repeat_run]
                         ELSE holds[t]]
                 ELSE holds
     /\ UNCHANGED file

\* The pump gets the logger's lock.
Log(c) ==
  /\ pending[c] # None
  /\ file' = Append(file, pending[c])
  /\ pending' = [pending EXCEPT ![c] = None]
  /\ UNCHANGED <<now, facts, lastOn, holds>>

Next ==
  \E c \in Conns :
    \/ \E f \in Frames, time \in now..MAX_TICK, fresh \in {0, 1} : Stamp(c, f, time, fresh)
    \/ Log(c)

Spec == Init /\ [][Next]_vars

----------------------------------------------------------------------------
(* Properties.                                                             *)

\* The columns that describe a request against its own connection are what a
\* monitor saw as it passed, in every file a reader may open or a kill may leave,
\* whatever rows of other connections overtook it: "ties keep the file's order"
\* and "stateful features below depend on it" (features.py:138-141).
ConnectionFeaturesAreOnline ==
  LET df == load_requests(file) IN
  \A k \in 1..Len(df) : LET seen == facts[df[k].id] IN
    /\ inter_arrival(df, k) = seen.inter_arrival
    /\ first_on_connection(df, k) = seen.first_on_connection
    /\ txid_delta(df, k) = seen.txid_delta

\* Rows of one time are in the file as the tap stamped them, and every write
\* could be decoded.
TiesInWireOrder ==
  \A i, j \in 1..Len(file) :
    i < j /\ file[i].wall_time = file[j].wall_time => file[i].id < file[j].id
WritesDecoded == \A r \in Range(file) : IsWrite(r) => ~malformed(r)

\* The columns that describe a write against the process it lands on, "across ALL
\* connections (the PLC has one state, whoever wrote it)" (features.py:37-46),
\* are what the PLC saw, once every pump has logged what it stamped, though rows
\* reached the file out of order; but not if two of them share a time, nor after
\* a write that could not be decoded.
ValueFeaturesAreOnline ==
  (\A c \in Conns : pending[c] = None) /\ TiesInWireOrder /\ WritesDecoded =>
    LET df == load_requests(file)
        run == repeat_run(df)
    IN \A k \in 1..Len(df) : ~malformed(df[k]) =>
         facts[df[k].id].value = [repeat_run |-> run[k], write_step |-> write_step(df, k)]

\* The alerts that Suricata and Zeek raise on request r of the file: which of the
\* transactions of its connection it is, or when it was seen.
SuricataAlert(r) ==
  [port |-> r.conn, tid |-> r.transaction_id, ts |-> None,
   tx_id |-> Cardinality({q \in Range(file) : q.conn = r.conn /\ q.id < r.id})]
ZeekAlert(r) == [port |-> r.conn, tid |-> r.transaction_id, ts |-> r.wall_time, tx_id |-> None]

\* An alert of another tool comes back to the request it was raised on, "time
\* order" of the rows or not, and to no other but one that the tool itself could
\* not tell from it: none is unmapped and none mismatched (nids_compare.py:97-122).
\* A frame without a function code opens no transaction in Suricata.
AlertsComeBack ==
  LET df == load_requests(file) IN
  \A k \in 1..Len(df) :
    /\ (\A i \in RowsOn(df, df[k].conn) : df[i].function_code # None) =>
         flag_requests(df, {SuricataAlert(df[k])})
           = [pred |-> {k}, unmapped |-> 0, mismatched |-> 0]
    /\ flag_requests(df, {ZeekAlert(df[k])})
         = [pred |-> {i \in RowsOn(df, df[k].conn) :
                        /\ df[i].transaction_id = df[k].transaction_id
                        /\ Distance(df[i].wall_time, df[k].wall_time) <= TOL},
            unmapped |-> 0, mismatched |-> 0]
=============================================================================
