--------------------------- MODULE FeaturesProofs ---------------------------
(* That the columns load_requests computes from a file are what a monitor on *)
(* the wire knew, and that alerts come back to their requests: for any       *)
(* clients, frames, clock and order in which the pumps get the lock.         *)
EXTENDS Features, FiniteSetTheorems, WellFoundedInduction, TLAPS

----------------------------------------------------------------------------
(* The invariant.                                                          *)

FactType == [inter_arrival : Int, first_on_connection : BOOLEAN, txid_delta : Int,
             value : ValueType \cup {None}]

\* Every row there is, in the file or on its way to it.
Stamped == {file[i] : i \in 1..Len(file)}
             \cup {pending[c] : c \in {d \in Conns : pending[d] # None}}

\* Rows are numbered in the order of their stamps, and none is lost.
StampInv ==
  /\ now \in Nat /\ facts \in Seq(FactType)
  /\ \A r \in Stamped : r \in RowType /\ r.id \in 1..Len(facts) /\ r.wall_time <= now
  /\ \A q, r \in Stamped : q.id < r.id => q.wall_time <= r.wall_time
  /\ \A q, r \in Stamped : q.id = r.id => q = r

\* A pump has one row at a time, so those of a connection keep their order.
FileInv ==
  /\ file \in Seq(RowType) /\ pending \in [Conns -> RowType \cup {None}]
  /\ \A i, j \in 1..Len(file) : file[i].id = file[j].id => i = j
  /\ \A i, j \in 1..Len(file) : i < j /\ file[i].conn = file[j].conn => file[i].id < file[j].id
  /\ \A c \in Conns : pending[c] # None =>
       /\ pending[c].conn = c
       /\ pending[c] = lastOn[c]
       /\ \A i \in 1..Len(file) : file[i].id # pending[c].id

\* Row q is the last one like r before it; r is the first of its like.
Follows(r, q, Like(_, _)) ==
  /\ q.id < r.id /\ Like(q, r)
  /\ \A s \in Stamped : s.id < r.id /\ Like(s, r) => s.id <= q.id
Leads(r, Like(_, _)) == \A s \in Stamped : s.id < r.id => ~Like(s, r)

\* What is known of a row is about the row of its connection that it follows.
ConnInv ==
  /\ lastOn \in [Conns -> RowType \cup {None}]
  /\ \A c \in Conns : lastOn[c] = None => \A s \in Stamped : s.conn # c
  /\ \A c \in Conns : lastOn[c] # None =>
       lastOn[c] \in Stamped /\ lastOn[c].conn = c /\ \A s \in Stamped : s.conn = c => s.id <= lastOn[c].id
  /\ \A r \in Stamped : Leads(r, SameConn) =>
       /\ facts[r.id].inter_arrival = 0 /\ facts[r.id].first_on_connection
       /\ facts[r.id].txid_delta = 1
  /\ \A r, q \in Stamped : Follows(r, q, SameConn) =>
       /\ facts[r.id].inter_arrival = r.wall_time - q.wall_time
       /\ ~facts[r.id].first_on_connection
       /\ facts[r.id].txid_delta = r.transaction_id - q.transaction_id

\* A write that could be decoded, and an earlier one of the same target.
Lands(r) == IsWrite(r) /\ ~malformed(r)
LandsAlike(q, r) == Lands(q) /\ target(q) = target(r)

ValueFact(r) == facts[r.id].value
ValueInv ==
  /\ DOMAIN holds = {target(r) : r \in {s \in Stamped : Lands(s)}}
  /\ \A t \in DOMAIN holds : \E q \in Stamped :
       /\ Lands(q) /\ target(q) = t
       /\ \A s \in Stamped : Lands(s) /\ target(s) = t => s.id <= q.id
       /\ holds[t] = [value |-> q.values, run |-> ValueFact(q).repeat_run]
  /\ \A r \in Stamped : ~malformed(r) /\ ~IsWrite(r) =>
       ValueFact(r) = [repeat_run |-> 0, write_step |-> 0]
  /\ \A r \in Stamped : Lands(r) /\ Leads(r, LandsAlike) =>
       ValueFact(r) = [repeat_run |-> 1, write_step |-> None]
  /\ \A r, q \in Stamped : Lands(r) /\ Follows(r, q, LandsAlike) =>
       ValueFact(r) = [repeat_run |-> IF q.values = r.values THEN ValueFact(q).repeat_run + 1 ELSE 1,
                       write_step |-> Distance(q.values, r.values)]
  /\ \A r \in Stamped : ~malformed(r) => ValueFact(r) \in ValueType

FInv == StampInv /\ FileInv /\ ConnInv /\ ValueInv
----------------------------------------------------------------------------
(* The invariant holds.                                                    *)

LEMMA NewRow ==
  ASSUME NEW f \in FrameType, NEW n \in Nat, NEW c \in Conns, NEW t \in Nat, NEW x \in Nat
  PROVE  LET r == Row(f, n, c, t, x) IN
         /\ r \in RowType
         /\ r.id = n /\ r.conn = c /\ r.wall_time = t /\ r.transaction_id = x
BY DEF FrameType, RowType, Row

LEMMA RowFields ==
  ASSUME NEW r \in RowType
  PROVE  /\ r.id \in Nat /\ r.wall_time \in Nat /\ r.transaction_id \in Nat
         /\ r.conn \in Conns /\ r # None
         /\ r.values \in Nat \cup {None}
         /\ Lands(r) => r.values \in Nat
BY NoneAssumption DEF RowType, Lands, malformed

LEMMA AtStart == Init => FInv
<1> SUFFICES ASSUME Init PROVE FInv
  OBVIOUS
<1>1. Stamped = {}
  BY DEF Init, Stamped
<1>2. StampInv
  BY <1>1 DEF Init, StampInv
<1>3. FileInv
  BY DEF Init, FileInv
<1>4. ConnInv
  BY <1>1 DEF Init, ConnInv
<1>5. ValueInv
  <2>1. DOMAIN holds = {}
    BY DEF Init
  <2> QED BY <1>1, <2>1 DEF ValueInv
<1> QED BY <1>2, <1>3, <1>4, <1>5 DEF FInv

\* What the monitor knows of a request, by what it has kept of those before.
LEMMA FactOf ==
  ASSUME FInv, NEW r \in RowType
  PROVE  /\ Fact(r) \in FactType
         /\ lastOn[r.conn] = None =>
              /\ Fact(r).inter_arrival = 0 /\ Fact(r).first_on_connection
              /\ Fact(r).txid_delta = 1
         /\ lastOn[r.conn] # None =>
              /\ Fact(r).inter_arrival = r.wall_time - lastOn[r.conn].wall_time
              /\ ~Fact(r).first_on_connection
              /\ Fact(r).txid_delta = r.transaction_id - lastOn[r.conn].transaction_id
         /\ ~malformed(r) /\ ~IsWrite(r) => Fact(r).value = [repeat_run |-> 0, write_step |-> 0]
         /\ Lands(r) /\ target(r) \notin DOMAIN holds =>
              Fact(r).value = [repeat_run |-> 1, write_step |-> None]
         /\ Lands(r) /\ target(r) \in DOMAIN holds =>
              Fact(r).value =
                [repeat_run |-> IF holds[target(r)].value = r.values THEN holds[target(r)].run + 1 ELSE 1,
                 write_step |-> Distance(holds[target(r)].value, r.values)]
         /\ ~malformed(r) => Fact(r).value \in ValueType
<1> DEFINE q == lastOn[r.conn]
           t == target(r)
           ia == IF q = None THEN 0 ELSE r.wall_time - q.wall_time
           first == q = None
           td == IF q = None THEN 1 ELSE r.transaction_id - q.transaction_id
           held == IF t \in DOMAIN holds THEN holds[t] ELSE None
           v == IF malformed(r) THEN None
                ELSE IF ~IsWrite(r) THEN [repeat_run |-> 0, write_step |-> 0]
                ELSE IF held = None THEN [repeat_run |-> 1, write_step |-> None]
                ELSE [repeat_run |-> IF held.value = r.values THEN held.run + 1 ELSE 1,
                      write_step |-> Distance(held.value, r.values)]
<1>1. q \in RowType \cup {None}
  BY RowFields DEF FInv, ConnInv
<1>2. ia \in Int /\ td \in Int
  BY <1>1, RowFields
<1>3. t \in DOMAIN holds => holds[t] \in HoldType /\ holds[t] # None
  <2> SUFFICES ASSUME t \in DOMAIN holds PROVE holds[t] \in HoldType
    BY NoneAssumption
  <2>1. PICK p \in Stamped : /\ Lands(p)
                             /\ holds[t] = [value |-> p.values, run |-> ValueFact(p).repeat_run]
    BY DEF FInv, ValueInv
  <2>2. p \in RowType /\ ValueFact(p) \in ValueType
    BY <2>1 DEF FInv, StampInv, ValueInv, Lands
  <2>3. p.values \in Nat /\ ValueFact(p).repeat_run \in Nat
    BY <2>1, <2>2, RowFields DEF ValueType
  <2> QED BY <2>1, <2>3 DEF HoldType
<1>4. ~malformed(r) => v \in ValueType
  <2>1. CASE ~IsWrite(r)
    BY <2>1 DEF ValueType
  <2>2. CASE IsWrite(r) /\ t \notin DOMAIN holds
    BY <2>2 DEF ValueType
  <2>3. CASE IsWrite(r) /\ t \in DOMAIN holds /\ ~malformed(r)
    <3>1. holds[t].value \in Nat /\ holds[t].run \in Nat /\ r.values \in Nat
      BY <1>3, <2>3, RowFields DEF HoldType, Lands
    <3>2. Distance(holds[t].value, r.values) \in Nat
      BY <3>1 DEF Distance
    <3>3. held = holds[t] /\ held # None
      BY <1>3, <2>3
    <3> HIDE DEF held
    <3> QED BY <2>3, <3>1, <3>2, <3>3 DEF ValueType
  <2> QED BY <2>1, <2>2, <2>3
<1>5. Fact(r) = [inter_arrival |-> ia, first_on_connection |-> first, txid_delta |-> td, value |-> v]
  BY DEF Fact
<1>6. v \in ValueType \cup {None}
  BY <1>4
<1>7. /\ Lands(r) /\ t \notin DOMAIN holds => v = [repeat_run |-> 1, write_step |-> None]
      /\ Lands(r) /\ t \in DOMAIN holds =>
           v = [repeat_run |-> IF holds[t].value = r.values THEN holds[t].run + 1 ELSE 1,
                write_step |-> Distance(holds[t].value, r.values)]
      /\ ~malformed(r) /\ ~IsWrite(r) => v = [repeat_run |-> 0, write_step |-> 0]
  BY <1>3 DEF Lands
<1>8. /\ q = None => ia = 0 /\ first /\ td = 1
      /\ q # None => /\ ia = r.wall_time - q.wall_time /\ ~first
                     /\ td = r.transaction_id - q.transaction_id
  OBVIOUS
<1>9. first \in BOOLEAN
  OBVIOUS
<1> HIDE DEF ia, first, td, v, q, t, held
<1>10. Fact(r) \in FactType
  BY <1>2, <1>5, <1>6, <1>9 DEF FactType
<1>11. /\ Fact(r).inter_arrival = ia /\ Fact(r).txid_delta = td /\ Fact(r).value = v
       /\ Fact(r).first_on_connection = first
  BY <1>5
<1>12. /\ q = None => /\ Fact(r).inter_arrival = 0 /\ Fact(r).first_on_connection
                      /\ Fact(r).txid_delta = 1
       /\ q # None => /\ Fact(r).inter_arrival = r.wall_time - q.wall_time
                      /\ ~Fact(r).first_on_connection
                      /\ Fact(r).txid_delta = r.transaction_id - q.transaction_id
  BY <1>8, <1>11
<1> QED BY <1>4, <1>7, <1>10, <1>11, <1>12 DEF q, t

\* Row r of connection c is stamped.
Adds(r, c, time) ==
  /\ r.id = Len(facts) + 1 /\ r.conn = c /\ r.wall_time = time
  /\ pending[c] = None
  /\ now' = time /\ pending' = [pending EXCEPT ![c] = r] /\ file' = file
  /\ lastOn' = [lastOn EXCEPT ![c] = r]
  /\ facts' = Append(facts, Fact(r))
  /\ Lands(r) => holds' = [t \in DOMAIN holds \cup {target(r)} |->
                            IF t = target(r)
                            THEN [value |-> r.values, run |-> Fact(r).value.repeat_run]
                            ELSE holds[t]]
  /\ ~Lands(r) => holds' = holds
  /\ Stamped' = Stamped \cup {r}
  /\ \A s \in Stamped : s.id < r.id /\ s.wall_time <= time

\* The row that a stamp makes, and what it adds it to.
LEMMA StampedRow ==
  ASSUME FInv, NEW c \in Conns, NEW f \in Frames, NEW time \in now..MAX_TICK,
         NEW fresh \in {0, 1}, Stamp(c, f, time, fresh)
  PROVE  \E r \in RowType : Adds(r, c, time)
<1> DEFINE txid == IF lastOn[c] = None THEN FIRST_TXID ELSE lastOn[c].transaction_id + fresh
           r == Row(f, Len(facts) + 1, c, time, txid)
<1>1. lastOn[c] \in RowType \cup {None} /\ Len(facts) \in Nat /\ now \in Nat
  BY DEF FInv, ConnInv, StampInv
<1>2. txid \in Nat
  BY <1>1, RowFields, BoundsAssumption
<1>3. time \in Nat /\ f \in FrameType /\ now <= time
  BY <1>1, BoundsAssumption
<1> HIDE DEF txid
<1>4. /\ r \in RowType /\ r.id = Len(facts) + 1 /\ r.conn = c /\ r.wall_time = time
  BY <1>1, <1>2, <1>3, NewRow
<1>5. /\ pending[c] = None
      /\ now' = time /\ pending' = [pending EXCEPT ![c] = r] /\ file' = file
      /\ lastOn' = [lastOn EXCEPT ![c] = r]
      /\ facts' = Append(facts, Fact(r))
      /\ Lands(r) => holds' = [t \in DOMAIN holds \cup {target(r)} |->
                                IF t = target(r)
                                THEN [value |-> r.values, run |-> Fact(r).value.repeat_run]
                                ELSE holds[t]]
      /\ ~Lands(r) => holds' = holds
  BY DEF Stamp, txid, Lands
<1> HIDE DEF r
<1>6. Stamped' = Stamped \cup {r}
  <2>1. pending \in [Conns -> RowType \cup {None}] /\ r # None
    BY <1>4, RowFields DEF FInv, FileInv
  <2>2. \A d \in Conns : pending'[d] = IF d = c THEN r ELSE pending[d]
    BY <1>5, <2>1
  <2>3. \A x : x \in Stamped' <=> (\E i \in 1..Len(file) : x = file[i])
                                   \/ (\E d \in Conns : pending'[d] # None /\ x = pending'[d])
    BY <1>5 DEF Stamped
  <2>4. \A x : x \in Stamped <=> (\E i \in 1..Len(file) : x = file[i])
                                  \/ (\E d \in Conns : pending[d] # None /\ x = pending[d])
    BY DEF Stamped
  <2> QED BY <1>5, <2>1, <2>2, <2>3, <2>4
<1>7. \A s \in Stamped : s.id < r.id /\ s.wall_time <= time
  <2> SUFFICES ASSUME NEW s \in Stamped PROVE s.id < r.id /\ s.wall_time <= time
    OBVIOUS
  <2>1. s \in RowType /\ s.id \in 1..Len(facts) /\ s.wall_time <= now
    BY DEF FInv, StampInv
  <2> QED BY <1>1, <1>3, <1>4, <2>1, RowFields
<1> QED BY <1>4, <1>5, <1>6, <1>7 DEF Adds

LEMMA StampStep ==
  ASSUME FInv, NEW c \in Conns, NEW f \in Frames, NEW time \in now..MAX_TICK,
         NEW fresh \in {0, 1}, Stamp(c, f, time, fresh)
  PROVE  FInv'
<1>0. PICK r \in RowType : Adds(r, c, time)
  BY StampedRow
<1>1. /\ r.id = Len(facts) + 1 /\ r.conn = c /\ r.wall_time = time
      /\ pending[c] = None
      /\ now' = time /\ pending' = [pending EXCEPT ![c] = r] /\ file' = file
      /\ lastOn' = [lastOn EXCEPT ![c] = r]
      /\ facts' = Append(facts, Fact(r))
      /\ Lands(r) => holds' = [t \in DOMAIN holds \cup {target(r)} |->
                                IF t = target(r)
                                THEN [value |-> r.values, run |-> Fact(r).value.repeat_run]
                                ELSE holds[t]]
      /\ ~Lands(r) => holds' = holds
      /\ Stamped' = Stamped \cup {r}
      /\ \A s \in Stamped : s.id < r.id /\ s.wall_time <= time
  BY <1>0 DEF Adds
<1>2. now \in Nat /\ facts \in Seq(FactType) /\ Len(facts) \in Nat /\ time \in Nat /\ now <= time
  BY BoundsAssumption DEF FInv, StampInv
<1>3. \A s \in Stamped : s \in RowType /\ s.id \in 1..Len(facts) /\ s.id \in Nat /\ s.wall_time \in Nat
  BY RowFields DEF FInv, StampInv
<1>4. r.id \in Nat /\ r.wall_time \in Nat /\ r # None
  BY RowFields
<1>5. Fact(r) \in FactType
  BY FactOf
<1>6. /\ facts' \in Seq(FactType) /\ Len(facts') = Len(facts) + 1
      /\ facts'[r.id] = Fact(r) /\ \A s \in Stamped : facts'[s.id] = facts[s.id]
  BY <1>1, <1>2, <1>3, <1>5
<1>7. StampInv'
  <2>1. \A s \in Stamped' : s \in RowType /\ s.id \in 1..Len(facts') /\ s.wall_time <= now'
    BY <1>1, <1>2, <1>3, <1>4, <1>6
  <2>2. \A q, s \in Stamped' : q.id < s.id => q.wall_time <= s.wall_time
    <3> SUFFICES ASSUME NEW q \in Stamped', NEW s \in Stamped', q.id < s.id
                 PROVE  q.wall_time <= s.wall_time
      OBVIOUS
    <3>1. CASE q \in Stamped /\ s \in Stamped
      BY <3>1 DEF FInv, StampInv
    <3>2. CASE q \in Stamped /\ s = r
      BY <1>1, <3>2
    <3>3. CASE q = r
      BY <1>1, <1>3, <1>4, <3>3
    <3> QED BY <1>1, <3>1, <3>2, <3>3
  <2>3. \A q, s \in Stamped' : q.id = s.id => q = s
    <3> SUFFICES ASSUME NEW q \in Stamped', NEW s \in Stamped', q.id = s.id PROVE q = s
      OBVIOUS
    <3>1. CASE q \in Stamped /\ s \in Stamped
      BY <3>1 DEF FInv, StampInv
    <3>2. CASE q = r \/ s = r
      BY <1>1, <1>3, <1>4, <3>2
    <3> QED BY <1>1, <3>1, <3>2
  <2> QED BY <1>1, <1>2, <1>6, <2>1, <2>2, <2>3 DEF StampInv
<1>8. FileInv'
  <2>1. file \in Seq(RowType) /\ pending \in [Conns -> RowType \cup {None}]
        /\ lastOn \in [Conns -> RowType \cup {None}]
    BY DEF FInv, FileInv, ConnInv
  <2>2. pending' \in [Conns -> RowType \cup {None}]
    BY <1>1, <2>1
  <2>3. \A i \in 1..Len(file) : file[i] \in Stamped
    BY DEF Stamped
  <2>4. ASSUME NEW d \in Conns, pending'[d] # None
        PROVE  /\ pending'[d].conn = d /\ pending'[d] = lastOn'[d]
               /\ \A i \in 1..Len(file) : file[i].id # pending'[d].id
    <3>1. CASE d = c
      <4>1. pending'[d] = r /\ lastOn'[d] = r
        BY <1>1, <2>1, <3>1
      <4>2. \A i \in 1..Len(file) : file[i].id # r.id
        BY <1>1, <1>3, <1>4, <2>3
      <4> QED BY <1>1, <3>1, <4>1, <4>2
    <3>2. CASE d # c
      <4>1. pending'[d] = pending[d] /\ lastOn'[d] = lastOn[d]
        BY <1>1, <2>1, <3>2
      <4> QED BY <2>4, <4>1 DEF FInv, FileInv
    <3> QED BY <3>1, <3>2
  <2>5. /\ \A i, j \in 1..Len(file) : file[i].id = file[j].id => i = j
        /\ \A i, j \in 1..Len(file) :
             i < j /\ file[i].conn = file[j].conn => file[i].id < file[j].id
    BY DEF FInv, FileInv
  <2> QED BY <1>1, <2>1, <2>2, <2>4, <2>5 DEF FileInv
<1>9. ConnInv'
  <2>1. lastOn \in [Conns -> RowType \cup {None}] /\ r.conn = c
    BY <1>1 DEF FInv, ConnInv
  <2>2. lastOn' \in [Conns -> RowType \cup {None}] /\ lastOn'[c] = r
        /\ \A d \in Conns : d # c => lastOn'[d] = lastOn[d]
    BY <1>1, <2>1
  <2>3. ASSUME NEW d \in Conns, lastOn'[d] = None PROVE \A s \in Stamped' : s.conn # d
    <3>1. d # c /\ lastOn[d] = None
      BY <1>4, <2>2, <2>3
    <3> QED BY <1>1, <2>1, <3>1 DEF FInv, ConnInv
  <2>4. ASSUME NEW d \in Conns, lastOn'[d] # None
        PROVE  /\ lastOn'[d] \in Stamped' /\ lastOn'[d].conn = d
               /\ \A s \in Stamped' : s.conn = d => s.id <= lastOn'[d].id
    <3>1. CASE d = c
      BY <1>1, <1>3, <1>4, <2>1, <2>2, <3>1
    <3>2. CASE d # c
      <4>1. /\ lastOn[d] \in Stamped /\ lastOn[d].conn = d
            /\ \A s \in Stamped : s.conn = d => s.id <= lastOn[d].id
        BY <2>2, <2>4, <3>2 DEF FInv, ConnInv
      <4> QED BY <1>1, <2>1, <2>2, <3>2, <4>1
    <3> QED BY <3>1, <3>2
  <2>5. ASSUME NEW s \in Stamped', Leads(s, SameConn)'
        PROVE  /\ facts'[s.id].inter_arrival = 0 /\ facts'[s.id].first_on_connection
               /\ facts'[s.id].txid_delta = 1
    <3>1. CASE s \in Stamped
      <4>1. Leads(s, SameConn)
        BY <1>1, <2>5 DEF Leads
      <4> QED BY <1>6, <3>1, <4>1 DEF FInv, ConnInv
    <3>2. CASE s = r
      <4>1. lastOn[c] = None
        <5> SUFFICES ASSUME lastOn[c] # None PROVE FALSE
          OBVIOUS
        <5>1. lastOn[c] \in Stamped /\ lastOn[c].conn = c
          BY DEF FInv, ConnInv
        <5> QED BY <1>1, <2>5, <3>2, <5>1 DEF Leads, SameConn
      <4> QED BY <1>6, <2>1, <3>2, <4>1, FactOf
    <3> QED BY <1>1, <3>1, <3>2
  <2>6. ASSUME NEW s \in Stamped', NEW q \in Stamped', Follows(s, q, SameConn)'
        PROVE  /\ facts'[s.id].inter_arrival = s.wall_time - q.wall_time
               /\ ~facts'[s.id].first_on_connection
               /\ facts'[s.id].txid_delta = s.transaction_id - q.transaction_id
    <3>1. q \in Stamped
      BY <1>1, <1>3, <1>4, <2>6 DEF Follows
    <3>2. CASE s \in Stamped
      <4>1. Follows(s, q, SameConn)
        BY <1>1, <2>6 DEF Follows
      <4> QED BY <1>6, <3>1, <3>2, <4>1 DEF FInv, ConnInv
    <3>3. CASE s = r
      <4>1. q.conn = c
        BY <2>1, <2>6, <3>3 DEF Follows, SameConn
      <4>2. /\ lastOn[c] # None /\ lastOn[c] \in Stamped /\ lastOn[c].conn = c
            /\ q.id <= lastOn[c].id
        BY <3>1, <4>1 DEF FInv, ConnInv
      <4>3. lastOn[c].id <= q.id
        BY <1>1, <2>1, <2>6, <3>3, <4>2 DEF Follows, SameConn
      <4>4. q = lastOn[c]
        BY <1>3, <3>1, <4>2, <4>3 DEF FInv, StampInv
      <4> QED BY <1>6, <2>1, <3>3, <4>2, <4>4, FactOf
    <3> QED BY <1>1, <3>2, <3>3
  <2> QED BY <2>2, <2>3, <2>4, <2>5, <2>6 DEF ConnInv
<1>10. ValueInv'
  <2>1. \A s \in Stamped : ValueFact(s)' = ValueFact(s)
    BY <1>6 DEF ValueFact
  <2>2. ValueFact(r)' = Fact(r).value
    BY <1>6 DEF ValueFact
  <2>3. DOMAIN holds = {target(s) : s \in {p \in Stamped : Lands(p)}}
    BY DEF FInv, ValueInv
  <2>4. DOMAIN holds' = {target(s) : s \in {p \in Stamped' : Lands(p)}}
    <3>1. CASE Lands(r)
      <4>1. DOMAIN holds' = DOMAIN holds \cup {target(r)}
        BY <1>1, <3>1
      <4> QED BY <1>1, <2>3, <3>1, <4>1
    <3>2. CASE ~Lands(r)
      BY <1>1, <2>3, <3>2
    <3> QED BY <3>1, <3>2
  <2>5. ASSUME NEW t \in DOMAIN holds'
        PROVE  \E q \in Stamped' :
                 /\ Lands(q) /\ target(q) = t
                 /\ \A s \in Stamped' : Lands(s) /\ target(s) = t => s.id <= q.id
                 /\ holds'[t] = [value |-> q.values, run |-> ValueFact(q)'.repeat_run]
    <3>1. CASE Lands(r) /\ t = target(r)
      <4>1. holds'[t] = [value |-> r.values, run |-> ValueFact(r)'.repeat_run]
        BY <1>1, <2>2, <3>1
      <4>2. \A s \in Stamped' : s.id <= r.id
        BY <1>1, <1>3, <1>4
      <4> QED BY <1>1, <3>1, <4>1, <4>2
    <3>2. CASE ~(Lands(r) /\ t = target(r))
      <4>1. t \in DOMAIN holds /\ holds'[t] = holds[t]
        BY <1>1, <2>5, <3>2
      <4>2. PICK q \in Stamped :
              /\ Lands(q) /\ target(q) = t
              /\ \A s \in Stamped : Lands(s) /\ target(s) = t => s.id <= q.id
              /\ holds[t] = [value |-> q.values, run |-> ValueFact(q).repeat_run]
        BY <4>1 DEF FInv, ValueInv
      <4>3. holds'[t] = [value |-> q.values, run |-> ValueFact(q)'.repeat_run]
        BY <2>1, <4>1, <4>2
      <4> QED BY <1>1, <3>2, <4>2, <4>3
    <3> QED BY <3>1, <3>2
  <2>6. ASSUME NEW s \in Stamped', ~malformed(s) /\ ~IsWrite(s)
        PROVE  ValueFact(s)' = [repeat_run |-> 0, write_step |-> 0]
    <3>1. CASE s \in Stamped
      BY <2>1, <2>6, <3>1 DEF FInv, ValueInv
    <3>2. CASE s = r
      BY <2>2, <2>6, <3>2, FactOf
    <3> QED BY <1>1, <3>1, <3>2
  <2>7. ASSUME NEW s \in Stamped', Lands(s) /\ Leads(s, LandsAlike)'
        PROVE  ValueFact(s)' = [repeat_run |-> 1, write_step |-> None]
    <3>1. CASE s \in Stamped
      <4>1. Leads(s, LandsAlike)
        BY <1>1, <2>7 DEF Leads
      <4> QED BY <2>1, <2>7, <3>1, <4>1 DEF FInv, ValueInv
    <3>2. CASE s = r
      <4>1. target(r) \notin DOMAIN holds
        BY <1>1, <2>3, <2>7, <3>2 DEF Leads, LandsAlike
      <4> QED BY <2>2, <2>7, <3>2, <4>1, FactOf
    <3> QED BY <1>1, <3>1, <3>2
  <2>8. ASSUME NEW s \in Stamped', NEW q \in Stamped', Lands(s) /\ Follows(s, q, LandsAlike)'
        PROVE  ValueFact(s)' =
                 [repeat_run |-> IF q.values = s.values THEN ValueFact(q)'.repeat_run + 1 ELSE 1,
                  write_step |-> Distance(q.values, s.values)]
    <3>1. q \in Stamped
      BY <1>1, <1>3, <1>4, <2>8 DEF Follows
    <3>2. CASE s \in Stamped
      <4>1. Follows(s, q, LandsAlike)
        BY <1>1, <2>8 DEF Follows
      <4> QED BY <2>1, <2>8, <3>1, <3>2, <4>1 DEF FInv, ValueInv
    <3>3. CASE s = r
      <4>1. Lands(q) /\ target(q) = target(r)
        BY <2>8, <3>3 DEF Follows, LandsAlike
      <4>2. target(r) \in DOMAIN holds
        BY <2>3, <3>1, <4>1
      <4>3. PICK p \in Stamped :
              /\ Lands(p) /\ target(p) = target(r)
              /\ \A x \in Stamped : Lands(x) /\ target(x) = target(r) => x.id <= p.id
              /\ holds[target(r)] = [value |-> p.values, run |-> ValueFact(p).repeat_run]
        BY <4>2 DEF FInv, ValueInv
      <4>4. p.id <= q.id
        BY <1>1, <2>8, <3>3, <4>3 DEF Follows, LandsAlike
      <4>5. q.id <= p.id
        BY <3>1, <4>1, <4>3
      <4>6. p = q
        BY <1>3, <3>1, <4>3, <4>4, <4>5 DEF FInv, StampInv
      <4>7. holds[target(r)].value = q.values /\ holds[target(r)].run = ValueFact(q)'.repeat_run
        BY <2>1, <3>1, <4>3, <4>6
      <4>8. ValueFact(s)' =
              [repeat_run |-> IF holds[target(r)].value = r.values THEN holds[target(r)].run + 1 ELSE 1,
               write_step |-> Distance(holds[target(r)].value, r.values)]
        BY <2>2, <2>8, <3>3, <4>2, FactOf
      <4> QED BY <3>3, <4>7, <4>8
    <3> QED BY <1>1, <3>2, <3>3
  <2>9. ASSUME NEW s \in Stamped', ~malformed(s) PROVE ValueFact(s)' \in ValueType
    <3>1. CASE s \in Stamped
      BY <2>1, <2>9, <3>1 DEF FInv, ValueInv
    <3>2. CASE s = r
      BY <2>2, <2>9, <3>2, FactOf
    <3> QED BY <1>1, <3>1, <3>2
  <2> QED BY <2>4, <2>5, <2>6, <2>7, <2>8, <2>9 DEF ValueInv
<1> QED BY <1>7, <1>8, <1>9, <1>10 DEF FInv

\* Logging a row moves it into the file.
LEMMA LogStep ==
  ASSUME FInv, NEW c \in Conns, Log(c)
  PROVE  FInv'
<1> DEFINE r == pending[c]
           n == Len(file)
<1>1. file \in Seq(RowType) /\ pending \in [Conns -> RowType \cup {None}] /\ n \in Nat
  BY DEF FInv, FileInv
<1>2. r \in RowType /\ r # None /\ r.conn = c /\ r = lastOn[c]
      /\ \A i \in 1..n : file[i].id # r.id
  BY <1>1 DEF FInv, FileInv, Log
<1>3. /\ file' = Append(file, r) /\ pending' = [pending EXCEPT ![c] = None]
      /\ UNCHANGED <<now, facts, lastOn, holds>>
  BY DEF Log
<1>4. /\ file' \in Seq(RowType) /\ Len(file') = n + 1 /\ file'[n + 1] = r
      /\ \A i \in 1..n : file'[i] = file[i]
  BY <1>1, <1>2, <1>3
<1>5. pending' \in [Conns -> RowType \cup {None}] /\ pending'[c] = None
      /\ \A d \in Conns : d # c => pending'[d] = pending[d]
  BY <1>1, <1>3
<1> HIDE DEF r, n
<1>6. Stamped' = Stamped
  <2>1. \A x : x \in Stamped' <=> (\E i \in 1..n+1 : x = file'[i])
                                   \/ (\E d \in Conns : pending'[d] # None /\ x = pending'[d])
    BY <1>4 DEF Stamped
  <2>2. \A x : x \in Stamped <=> (\E i \in 1..n : x = file[i])
                                  \/ (\E d \in Conns : pending[d] # None /\ x = pending[d])
    BY DEF Stamped, n
  <2>3. \A x : (\E i \in 1..n+1 : x = file'[i]) <=> (\E i \in 1..n : x = file[i]) \/ x = r
    BY <1>1, <1>4
  <2>4. \A x : (\E d \in Conns : pending'[d] # None /\ x = pending'[d]) \/ x = r
                 <=> (\E d \in Conns : pending[d] # None /\ x = pending[d])
    BY <1>2, <1>5 DEF r
  <2> QED BY <2>1, <2>2, <2>3, <2>4
<1>7. \A i \in 1..n : file[i] \in Stamped /\ file[i] \in RowType /\ file[i].id \in Nat
  BY <1>1, RowFields DEF Stamped, n
<1>8. r.id \in Nat
  BY <1>2, RowFields
<1>9. StampInv'
  BY <1>3, <1>6 DEF FInv, StampInv
<1>10. FileInv'
  <2>1. ASSUME NEW i \in 1..n+1, NEW j \in 1..n+1, file'[i].id = file'[j].id PROVE i = j
    <3>1. CASE i \in 1..n /\ j \in 1..n
      BY <1>4, <2>1, <3>1 DEF FInv, FileInv, n
    <3>2. CASE i = n + 1 /\ j \in 1..n
      BY <1>2, <1>4, <2>1, <3>2
    <3>3. CASE i \in 1..n /\ j = n + 1
      BY <1>2, <1>4, <2>1, <3>3
    <3> QED BY <1>1, <3>1, <3>2, <3>3
  <2>2. ASSUME NEW i \in 1..n+1, NEW j \in 1..n+1, i < j, file'[i].conn = file'[j].conn
        PROVE  file'[i].id < file'[j].id
    <3>1. CASE j \in 1..n
      <4>1. i \in 1..n
        BY <1>1, <2>2, <3>1
      <4> QED BY <1>4, <2>2, <3>1, <4>1 DEF FInv, FileInv, n
    <3>2. CASE j = n + 1
      <4>1. i \in 1..n
        BY <1>1, <2>2, <3>2
      <4>2. file[i].conn = c
        BY <1>2, <1>4, <2>2, <3>2, <4>1
      <4>3. file[i].id <= r.id
        BY <1>2, <1>7, <4>1, <4>2 DEF FInv, ConnInv
      <4>4. file[i].id # r.id
        BY <1>2, <4>1
      <4> QED BY <1>4, <1>7, <1>8, <3>2, <4>1, <4>3, <4>4
    <3> QED BY <1>1, <3>1, <3>2
  <2>3. ASSUME NEW d \in Conns, pending'[d] # None
        PROVE  /\ pending'[d].conn = d /\ pending'[d] = lastOn'[d]
               /\ \A i \in 1..n+1 : file'[i].id # pending'[d].id
    <3>1. d # c /\ pending'[d] = pending[d]
      BY <1>5, <2>3
    <3>2. /\ pending[d].conn = d /\ pending[d] = lastOn[d]
          /\ \A i \in 1..n : file[i].id # pending[d].id
      BY <2>3, <3>1 DEF FInv, FileInv, n
    <3>3. pending[d] \in Stamped /\ r \in Stamped
      BY <1>2, <2>3, <3>1 DEF Stamped, r
    <3>4. r.id # pending[d].id
      BY <1>2, <3>1, <3>2, <3>3 DEF FInv, StampInv
    <3>5. \A i \in 1..n+1 : file'[i].id # pending[d].id
      BY <1>1, <1>4, <3>2, <3>4
    <3> QED BY <1>3, <3>1, <3>2, <3>5
  <2> QED BY <1>4, <1>5, <2>1, <2>2, <2>3 DEF FileInv
<1>11. ConnInv'
  BY <1>3, <1>6 DEF FInv, ConnInv, Leads, Follows
<1>12. ValueInv'
  <2>1. \A s : ValueFact(s)' = ValueFact(s)
    BY <1>3 DEF ValueFact
  <2> QED BY <1>3, <1>6, <2>1 DEF FInv, ValueInv, Leads, Follows
<1> QED BY <1>9, <1>10, <1>11, <1>12 DEF FInv

THEOREM Invariant == Spec => []FInv
<1>1. Init => FInv
  BY AtStart
<1>2. FInv /\ [Next]_vars => FInv'
  <2> SUFFICES ASSUME FInv, [Next]_vars PROVE FInv'
    OBVIOUS
  <2>1. ASSUME NEW c \in Conns, NEW f \in Frames, NEW time \in now..MAX_TICK,
               NEW fresh \in {0, 1}, Stamp(c, f, time, fresh)
        PROVE  FInv'
    BY <2>1, StampStep
  <2>2. ASSUME NEW c \in Conns, Log(c) PROVE FInv'
    BY <2>2, LogStep
  <2>3. CASE UNCHANGED vars
    <3>1. Stamped' = Stamped /\ \A s : ValueFact(s)' = ValueFact(s)
      BY <2>3 DEF vars, Stamped, ValueFact
    <3>2. StampInv' /\ FileInv'
      BY <2>3, <3>1 DEF FInv, StampInv, FileInv, vars
    <3>3. ConnInv'
      BY <2>3, <3>1 DEF FInv, ConnInv, Leads, Follows, vars
    <3>4. ValueInv'
      BY <2>3, <3>1 DEF FInv, ValueInv, Leads, Follows, vars
    <3> QED BY <3>2, <3>3, <3>4 DEF FInv
  <2> QED BY <2>1, <2>2, <2>3 DEF Next
<1> QED BY <1>1, <1>2, PTL DEF Spec

----------------------------------------------------------------------------
(* Least and greatest numbers, and the sort.                               *)

\* Min and Max of FiniteSetsExt, on natural numbers.
LEMMA Least ==
  ASSUME NEW S, S \subseteq Nat, S # {}
  PROVE  \E x \in S : \A y \in S : x <= y
<1>1. PICK x \in S : \A y \in S : ~(<<y, x>> \in OpToRel(<, Nat))
  BY NatLessThanWellFounded, WFMin
<1>2. ASSUME NEW y \in S PROVE x <= y
  <2>1. x \in Nat /\ y \in Nat /\ <<y, x>> \in Nat \X Nat
    OBVIOUS
  <2>2. <<y, x>>[1] = y /\ <<y, x>>[2] = x
    OBVIOUS
  <2>3. <<y, x>> \notin {ss \in Nat \X Nat : ss[1] < ss[2]}
    BY <1>1, Zenon DEF OpToRel
  <2>4. ~(<<y, x>>[1] < <<y, x>>[2])
    BY <2>1, <2>3, Zenon
  <2> QED BY <2>1, <2>2, <2>4
<1> QED BY <1>2

LEMMA MinOf ==
  ASSUME NEW S, S \subseteq Nat, S # {}
  PROVE  Min(S) \in S
<1>1. \E x \in S : \A y \in S : x <= y
  BY Least
<1> QED BY <1>1, Zenon DEF Min

LEMMA MaxOf ==
  ASSUME NEW n \in Nat, NEW S, S \subseteq 1..n, S # {}
  PROVE  Max(S) \in S /\ \A y \in S : Max(S) >= y
<1> DEFINE T == {n - y : y \in S}
<1>0. \A y \in S : n - y \in Nat
  OBVIOUS
<1>1. T \subseteq Nat /\ T # {}
  BY <1>0
<1>2. PICK x \in T : \A y \in T : x <= y
  BY <1>1, Least
<1>3. PICK m \in S : x = n - m
  OBVIOUS
<1>4. ASSUME NEW y \in S PROVE m >= y
  <2>1. n - y \in T
    OBVIOUS
  <2>2. x <= n - y
    BY <1>2, <2>1
  <2> QED BY <1>3, <2>2
<1>5. \E z \in S : \A y \in S : z >= y
  BY <1>4
<1> QED BY <1>5, Zenon DEF Max

\* The order list.sort leaves rows in: by time, and ties as they were.
Ahead(rows, i, k) ==
  \/ rows[i].wall_time < rows[k].wall_time
  \/ rows[i].wall_time = rows[k].wall_time /\ i < k
InFront(rows, k) == {i \in 1..Len(rows) : Ahead(rows, i, k)}
Place(rows, k) == Cardinality(InFront(rows, k)) + 1

LEMMA Placed ==
  ASSUME NEW rows \in Seq(RowType), NEW k \in 1..Len(rows)
  PROVE  /\ Place(rows, k) =
              Cardinality({i \in 1..Len(rows) : rows[i].wall_time < rows[k].wall_time})
              + Cardinality({i \in 1..k-1 : rows[i].wall_time = rows[k].wall_time}) + 1
         /\ IsFiniteSet(InFront(rows, k))
         /\ Place(rows, k) \in 1..Len(rows)
<1> DEFINE n == Len(rows)
           E == {i \in 1..n : rows[i].wall_time < rows[k].wall_time}
           B == {i \in 1..k-1 : rows[i].wall_time = rows[k].wall_time}
           F == InFront(rows, k)
<1>1. n \in Nat /\ k \in Nat /\ \A i \in 1..n : rows[i].wall_time \in Nat
  BY RowFields
<1>2. IsFiniteSet(1..n) /\ Cardinality(1..n) = n
  BY <1>1, FS_Interval
<1>3. E \subseteq 1..n /\ B \subseteq 1..n /\ F \subseteq 1..n
  BY <1>1 DEF InFront
<1>4. F = E \cup B
  BY <1>1 DEF InFront, Ahead
<1>5. E \cap B = {}
  BY <1>1
<1>6. k \notin F
  BY <1>1 DEF InFront, Ahead
<1> HIDE DEF n, E, B, F
<1>7. IsFiniteSet(E) /\ IsFiniteSet(B) /\ IsFiniteSet(F)
  BY <1>2, <1>3, FS_Subset
<1>8. Cardinality(E) \in Nat /\ Cardinality(B) \in Nat /\ Cardinality(F) \in Nat
  BY <1>7, FS_CardinalityType
<1>9. Cardinality(F) = Cardinality(E) + Cardinality(B)
  <2>1. Cardinality(E \cup B) = Cardinality(E) + Cardinality(B) - Cardinality(E \cap B)
    BY <1>7, FS_Union
  <2>2. Cardinality(E \cap B) = 0
    BY <1>5, FS_EmptySet
  <2> QED BY <1>4, <1>8, <2>1, <2>2
<1>10. Cardinality(F) <= n /\ Cardinality(F) # n
  BY <1>2, <1>3, <1>6, FS_Subset DEF n
<1>11. Place(rows, k) = Cardinality(F) + 1
  BY DEF Place, F
<1> QED BY <1>1, <1>7, <1>8, <1>9, <1>10, <1>11 DEF E, B, F, n

LEMMA AheadPlaced ==
  ASSUME NEW rows \in Seq(RowType), NEW i \in 1..Len(rows), NEW k \in 1..Len(rows),
         Ahead(rows, i, k)
  PROVE  Place(rows, i) < Place(rows, k)
<1>1. i \in Nat /\ k \in Nat /\ \A j \in 1..Len(rows) : j \in Nat /\ rows[j].wall_time \in Nat
  BY RowFields
<1>2. i \in InFront(rows, k) /\ i \notin InFront(rows, i)
  BY <1>1 DEF InFront, Ahead
<1>3. InFront(rows, i) \subseteq InFront(rows, k)
  BY <1>1 DEF InFront, Ahead
<1>4. IsFiniteSet(InFront(rows, k)) /\ IsFiniteSet(InFront(rows, i))
  BY Placed
<1>5. /\ Cardinality(InFront(rows, i)) \in Nat /\ Cardinality(InFront(rows, k)) \in Nat
      /\ Cardinality(InFront(rows, i)) <= Cardinality(InFront(rows, k))
      /\ Cardinality(InFront(rows, i)) # Cardinality(InFront(rows, k))
  BY <1>2, <1>3, <1>4, FS_Subset, FS_CardinalityType
<1> QED BY <1>5 DEF Place

\* The m-th row of the sorted file was its p[m]-th.
Sorts(rows, p) ==
  /\ \A m \in 1..Len(rows) : StableSort(rows)[m] = rows[p[m]]
  /\ \A k \in 1..Len(rows) : \E m \in 1..Len(rows) : p[m] = k
  /\ \A a, b \in 1..Len(rows) : a < b => Ahead(rows, p[a], p[b])

LEMMA Sorted ==
  ASSUME NEW rows \in Seq(RowType)
  PROVE  /\ StableSort(rows) \in Seq(RowType) /\ Len(StableSort(rows)) = Len(rows)
         /\ \E p \in [1..Len(rows) -> 1..Len(rows)] : Sorts(rows, p)
<1> DEFINE n == Len(rows)
           place == [k \in 1..n |-> Place(rows, k)]
           p == [m \in 1..n |-> CHOOSE k \in 1..n : place[k] = m]
<1>1. n \in Nat /\ \A j \in 1..n : j \in Nat /\ rows[j] \in RowType /\ rows[j].wall_time \in Nat
  BY RowFields
<1>2. place \in [1..n -> 1..n]
  BY Placed
<1>3. \A i, k \in 1..n : Ahead(rows, i, k) => place[i] < place[k]
  BY AheadPlaced
<1>4. \A i, k \in 1..n : Ahead(rows, i, k) \/ Ahead(rows, k, i) \/ i = k
  BY <1>1 DEF Ahead
<1> DEFINE counted == [k \in 1..n |->
                Cardinality({i \in 1..n : rows[i].wall_time < rows[k].wall_time})
                + Cardinality({i \in 1..k-1 : rows[i].wall_time = rows[k].wall_time}) + 1]
           By(place_) == [m \in 1..n |-> rows[CHOOSE k \in 1..n : place_[k] = m]]
<1>5. place = counted
  BY Placed
<1>6. StableSort(rows) = By(counted)
  BY DEF StableSort
<1> HIDE DEF place, counted
<1>60. StableSort(rows) = By(place)
  BY <1>5, <1>6
<1>7. \A m \in 1..n : p[m] = CHOOSE k \in 1..n : place[k] = m
  OBVIOUS
<1>8. StableSort(rows) = [m \in 1..n |-> rows[p[m]]]
  BY <1>60
<1>9. \A i, k \in 1..n : place[i] = place[k] => i = k
  <2> SUFFICES ASSUME NEW i \in 1..n, NEW k \in 1..n, place[i] = place[k], i # k PROVE FALSE
    OBVIOUS
  <2>1. place[i] \in Nat /\ place[k] \in Nat
    BY <1>1, <1>2
  <2> QED BY <1>3, <1>4, <2>1
<1>10. place \in Injection(1..n, 1..n)
  BY <1>2, <1>9 DEF Injection, IsInjective
<1>11. IsFiniteSet(1..n)
  BY <1>1, FS_Interval
<1>12. \A m \in 1..n : \E k \in 1..n : place[k] = m
  BY <1>10, <1>11, FS_Injection DEF Surjection
<1>13. \A m \in 1..n : p[m] \in 1..n /\ place[p[m]] = m
  BY <1>7, <1>12
<1>14. p \in [1..n -> 1..n]
  BY <1>13
<1> HIDE DEF p
<1>15. \A k \in 1..n : \E m \in 1..n : p[m] = k
  BY <1>2, <1>9, <1>13
<1>16. ASSUME NEW a \in 1..n, NEW b \in 1..n, a < b PROVE Ahead(rows, p[a], p[b])
  <2>1. p[a] # p[b]
    BY <1>13, <1>16
  <2>2. ~Ahead(rows, p[b], p[a])
    BY <1>1, <1>3, <1>13, <1>16
  <2> QED BY <1>4, <1>13, <2>1, <2>2
<1>17. Sorts(rows, p)
  BY <1>8, <1>15, <1>16 DEF Sorts
<1>18. StableSort(rows) \in Seq(RowType) /\ Len(StableSort(rows)) = n
  BY <1>1, <1>8, <1>14
<1> QED BY <1>14, <1>17, <1>18

----------------------------------------------------------------------------
(* The columns of a connection.                                            *)

Df == load_requests(file)

\* The rows of the frame are those of the file; those of a connection are in the
\* order they were stamped in, and so are all but those of one time.
LEMMA Frame ==
  ASSUME FInv
  PROVE  /\ Df \in Seq(RowType) /\ Len(Df) = Len(file) /\ Len(Df) \in Nat
         /\ \A k \in 1..Len(Df) : Df[k] \in Stamped /\ Df[k] \in RowType /\ Df[k].id \in Nat
         /\ \A i \in 1..Len(file) : \E k \in 1..Len(Df) : Df[k] = file[i]
         /\ \A k \in 1..Len(Df) : \E i \in 1..Len(file) : Df[k] = file[i]
         /\ \A a, b \in 1..Len(Df) : Df[a].id = Df[b].id => a = b
         /\ \A a, b \in 1..Len(Df) : a < b =>
              /\ Df[a].conn = Df[b].conn => Df[a].id < Df[b].id
              /\ TiesInWireOrder => Df[a].id < Df[b].id
<1> DEFINE n == Len(file)
<1>1. file \in Seq(RowType) /\ n \in Nat
  BY DEF FInv, FileInv
<1>2. Df \in Seq(RowType) /\ Len(Df) = n /\ Df = StableSort(file)
  BY <1>1, Sorted DEF Df, load_requests, SortedByTime
<1>3. PICK p \in [1..n -> 1..n] : Sorts(file, p)
  BY <1>1, Sorted
<1>4. /\ \A k \in 1..n : Df[k] = file[p[k]] /\ p[k] \in 1..n
      /\ \A i \in 1..n : \E k \in 1..n : p[k] = i
      /\ \A a, b \in 1..n : a < b => Ahead(file, p[a], p[b])
  BY <1>2, <1>3 DEF Sorts
<1>5. \A i \in 1..n : /\ file[i] \in Stamped /\ file[i] \in RowType
                      /\ file[i].id \in Nat /\ file[i].wall_time \in Nat
  BY <1>1, RowFields DEF Stamped
<1>51. \A i, j \in 1..n : file[i].id = file[j].id => i = j
  BY DEF FInv, FileInv
<1>52. \A i, j \in 1..n : i < j /\ file[i].conn = file[j].conn => file[i].id < file[j].id
  BY DEF FInv, FileInv
<1>53. \A i, j \in 1..n : file[j].id < file[i].id => file[j].wall_time <= file[i].wall_time
  BY <1>5 DEF FInv, StampInv
<1>54. \A i \in 1..n : ~Ahead(file, i, i)
  BY <1>1, <1>5 DEF Ahead
<1>55. TiesInWireOrder => \A i, j \in 1..n :
          i < j /\ file[i].wall_time = file[j].wall_time => file[i].id < file[j].id
  BY DEF TiesInWireOrder
<1> HIDE DEF n
<1>6. ASSUME NEW a \in 1..n, NEW b \in 1..n, Df[a].id = Df[b].id PROVE a = b
  <2>1. PICK i \in 1..n : i = p[a]
    BY <1>4
  <2>2. PICK j \in 1..n : j = p[b]
    BY <1>4
  <2>3. file[i].id = file[j].id
    BY <1>4, <1>6, <2>1, <2>2
  <2>4. i = j
    BY <1>51, <2>3
  <2>5. ~(a < b) /\ ~(b < a)
    BY <1>4, <1>54, <2>1, <2>2, <2>4
  <2> QED BY <1>1, <2>5
<1>7. ASSUME NEW a \in 1..n, NEW b \in 1..n, a < b, Df[a].conn = Df[b].conn \/ TiesInWireOrder
      PROVE  Df[a].id < Df[b].id
  <2> DEFINE i == p[a]
             j == p[b]
  <2>1. i \in 1..n /\ j \in 1..n /\ Ahead(file, i, j) /\ Df[a] = file[i] /\ Df[b] = file[j]
    BY <1>4, <1>7
  <2> HIDE DEF i, j
  <2>2. /\ file[i].id \in Nat /\ file[j].id \in Nat
        /\ file[i].wall_time \in Nat /\ file[j].wall_time \in Nat
    BY <1>5, <2>1
  <2>3. CASE file[i].wall_time < file[j].wall_time
    <3>1. ~(file[j].id < file[i].id)
      BY <1>53, <2>1, <2>2, <2>3
    <3>2. file[i].id # file[j].id
      <4>1. a # b
        BY <1>1, <1>7
      <4>2. Df[a].id # Df[b].id
        BY <1>6, <4>1
      <4> QED BY <2>1, <4>2
    <3> QED BY <2>1, <2>2, <3>1, <3>2
  <2>4. CASE file[i].wall_time = file[j].wall_time /\ i < j
    BY <1>7, <1>52, <1>55, <2>1, <2>4
  <2> QED BY <2>1, <2>3, <2>4 DEF Ahead
<1>8. \A k \in 1..n : Df[k] \in Stamped /\ Df[k] \in RowType /\ Df[k].id \in Nat
  BY <1>4, <1>5
<1>9. \A i \in 1..n : \E k \in 1..n : Df[k] = file[i]
  <2> SUFFICES ASSUME NEW i \in 1..n PROVE \E k \in 1..n : Df[k] = file[i]
    OBVIOUS
  <2>1. PICK k \in 1..n : p[k] = i
    BY <1>4
  <2> QED BY <1>4, <2>1
<1>10. \A k \in 1..n : \E i \in 1..n : Df[k] = file[i]
  BY <1>4
<1> QED BY <1>1, <1>2, <1>6, <1>7, <1>8, <1>9, <1>10 DEF n

\* The rows of a connection before one of the file have been logged.
LEMMA LoggedBefore ==
  ASSUME FInv, NEW k \in 1..Len(Df), NEW s \in Stamped, s.id < Df[k].id,
         s.conn = Df[k].conn \/ \A c \in Conns : pending[c] = None
  PROVE  \E m \in 1..Len(Df) : Df[m] = s
<1>1. Df[k] \in Stamped /\ Df[k].id \in Nat /\ s.id \in Nat
  BY Frame, RowFields DEF FInv, StampInv
<1>2. ASSUME NEW c \in Conns, pending[c] # None, s = pending[c] PROVE FALSE
  <2>1. s.conn = c /\ s = lastOn[c] /\ lastOn[c] # None
    BY <1>2 DEF FInv, FileInv
  <2>2. Df[k].conn = c
    BY <1>2, <2>1
  <2>3. Df[k].id <= lastOn[c].id
    BY <1>1, <2>1, <2>2 DEF FInv, ConnInv
  <2> QED BY <1>1, <2>1, <2>3
<1>3. PICK i \in 1..Len(file) : s = file[i]
  BY <1>2 DEF Stamped
<1> QED BY <1>3, Frame

LEMMA PreviousOnConnection ==
  ASSUME FInv, NEW k \in 1..Len(Df)
  PROVE  LET p == Previous(Df, k, SameConn) IN
         /\ p = None => Leads(Df[k], SameConn)
         /\ p # None => p \in 1..Len(Df) /\ Follows(Df[k], Df[p], SameConn)
<1> DEFINE before == {i \in 1..k-1 : SameConn(Df[i], Df[k])}
           p == Previous(Df, k, SameConn)
<1>1. p = IF before = {} THEN None ELSE Max(before)
  BY DEF Previous
<1>2. Len(Df) \in Nat /\ k \in Nat /\ k-1 \in Nat /\ before \subseteq 1..k-1 /\ 1..k-1 \subseteq 1..Len(Df)
  <2>1. Len(Df) \in Nat
    BY Frame
  <2> QED BY <2>1
<1>3. \A m \in 1..Len(Df) : Df[m].conn = Df[k].conn /\ Df[m].id < Df[k].id => m \in before
  <2> SUFFICES ASSUME NEW m \in 1..Len(Df), Df[m].conn = Df[k].conn, Df[m].id < Df[k].id
               PROVE  m \in before
    OBVIOUS
  <2>1. m # k /\ ~(k < m)
    <3>1. Df[m].id \in Nat /\ Df[k].id \in Nat
      BY Frame
    <3>2. k < m => Df[k].id < Df[m].id
      BY Frame
    <3> QED BY <3>1, <3>2
  <2> QED BY <1>2, <2>1 DEF SameConn
<1>4. \A s \in Stamped : s.id < Df[k].id /\ SameConn(s, Df[k]) => \E m \in before : Df[m] = s
  BY <1>3, LoggedBefore DEF SameConn
<1>5. CASE before = {}
  BY <1>1, <1>4, <1>5, NoneAssumption DEF Leads
<1>6. CASE before # {}
  <2>1. p = Max(before) /\ p \in before /\ \A m \in before : p >= m
    BY <1>1, <1>2, <1>6, MaxOf
  <2> HIDE DEF p
  <2>2. p \in 1..Len(Df) /\ p < k /\ Df[p].conn = Df[k].conn /\ p # None
    BY <1>2, <2>1, NoneAssumption DEF SameConn
  <2>3. Df[p].id < Df[k].id
    BY <2>2, Frame
  <2>4. ASSUME NEW m \in before PROVE Df[m].id <= Df[p].id
    <3>1. m \in 1..Len(Df) /\ Df[m].conn = Df[p].conn
      BY <1>2, <2>2 DEF SameConn
    <3>2. m = p \/ m < p
      BY <1>2, <2>1
    <3>3. m < p => Df[m].id < Df[p].id
      BY <2>2, <3>1, Frame
    <3>4. Df[m].id \in Nat /\ Df[p].id \in Nat
      BY <2>2, <3>1, Frame
    <3> QED BY <3>2, <3>3, <3>4
  <2>5. \A s \in Stamped : s.id < Df[k].id /\ SameConn(s, Df[k]) => s.id <= Df[p].id
    BY <1>4, <2>4
  <2> QED BY <2>2, <2>3, <2>5 DEF Follows, SameConn, p
<1> QED BY <1>5, <1>6

\* ConnectionFeaturesAreOnline, for any clients and schedules of the pumps.
THEOREM ConnectionFeatures == Spec => []ConnectionFeaturesAreOnline
<1>1. FInv => ConnectionFeaturesAreOnline
  <2> SUFFICES ASSUME FInv, NEW k \in 1..Len(Df)
               PROVE  /\ inter_arrival(Df, k) = facts[Df[k].id].inter_arrival
                      /\ first_on_connection(Df, k) = facts[Df[k].id].first_on_connection
                      /\ txid_delta(Df, k) = facts[Df[k].id].txid_delta
    BY DEF ConnectionFeaturesAreOnline, Df
  <2> DEFINE p == Previous(Df, k, SameConn)
             seen == facts[Df[k].id]
  <2>1. Df[k] \in Stamped /\ Df[k].id \in 1..Len(facts)
    BY Frame DEF FInv, StampInv
  <2>2. seen.first_on_connection \in BOOLEAN
    <3>1. facts \in Seq(FactType)
      BY DEF FInv, StampInv
    <3>2. seen \in FactType
      BY <2>1, <3>1
    <3> HIDE DEF seen
    <3> QED BY <3>2 DEF FactType
  <2>3. CASE p = None
    <3>1. seen.inter_arrival = 0 /\ seen.first_on_connection /\ seen.txid_delta = 1
      BY <2>1, <2>3, PreviousOnConnection DEF FInv, ConnInv
    <3>2. first_on_connection(Df, k) = TRUE /\ inter_arrival(Df, k) = 0 /\ txid_delta(Df, k) = 1
      BY <2>3 DEF first_on_connection, inter_arrival, txid_delta
    <3> QED BY <2>2, <3>1, <3>2
  <2>4. CASE p # None
    <3>1. /\ seen.inter_arrival = Df[k].wall_time - Df[p].wall_time /\ ~seen.first_on_connection
          /\ seen.txid_delta = Df[k].transaction_id - Df[p].transaction_id
      <4>1. p \in 1..Len(Df) /\ Df[p] \in Stamped /\ Follows(Df[k], Df[p], SameConn)
        BY <2>4, PreviousOnConnection, Frame
      <4> QED BY <2>1, <4>1 DEF FInv, ConnInv
    <3>2. /\ first_on_connection(Df, k) = FALSE
          /\ inter_arrival(Df, k) = Df[k].wall_time - Df[p].wall_time
          /\ txid_delta(Df, k) = Df[k].transaction_id - Df[p].transaction_id
      BY <2>4 DEF first_on_connection, inter_arrival, txid_delta
    <3> QED BY <2>2, <3>1, <3>2
  <2> QED BY <2>3, <2>4
<1> QED BY <1>1, Invariant, PTL

----------------------------------------------------------------------------
(* The alerts of other tools.                                              *)

\* What flag_requests makes of one alert that has hits.
LEMMA OneAlert ==
  ASSUME NEW df, NEW a, Hits(df, a) # {}, df[Min(Hits(df, a))].transaction_id = a.tid
  PROVE  flag_requests(df, {a}) = [pred |-> Hits(df, a), unmapped |-> 0, mismatched |-> 0]
<1>1. UNION {Hits(df, b) : b \in {a}} = Hits(df, a)
  OBVIOUS
<1>2. {b \in {a} : Hits(df, b) = {}} = {}
  OBVIOUS
<1>3. {b \in {a} : /\ Hits(df, b) # {} /\ b.tid # None
                   /\ df[Min(Hits(df, b))].transaction_id # b.tid} = {}
  OBVIOUS
<1> QED BY <1>1, <1>2, <1>3, FS_EmptySet DEF flag_requests

\* The transactions of its connection before the k-th row.
RowsBefore(k, i) == {j \in RowsOn(Df, Df[k].conn) : j < i}

LEMMA Transaction ==
  ASSUME FInv, NEW k \in 1..Len(Df)
  PROVE  /\ SuricataAlert(Df[k]).tx_id \in Nat
         /\ \A i \in RowsOn(Df, Df[k].conn) :
              Cardinality(RowsBefore(k, i)) = SuricataAlert(Df[k]).tx_id <=> i = k
<1> DEFINE rows == RowsOn(Df, Df[k].conn)
           earlier == {q \in Range(file) : q.conn = Df[k].conn /\ q.id < Df[k].id}
<1>1. Len(Df) \in Nat /\ rows \subseteq 1..Len(Df) /\ k \in rows
  BY Frame DEF RowsOn
<1>2. \A i : RowsBefore(k, i) \subseteq 1..Len(Df)
  BY <1>1 DEF RowsBefore
<1>3. IsFiniteSet(1..Len(Df))
  BY <1>1, FS_Interval
<1>4. \A i : IsFiniteSet(RowsBefore(k, i)) /\ Cardinality(RowsBefore(k, i)) \in Nat
  BY <1>2, <1>3, FS_Subset, FS_CardinalityType
<1>5. ASSUME NEW i \in rows, NEW j \in rows, i < j
      PROVE  Cardinality(RowsBefore(k, i)) < Cardinality(RowsBefore(k, j))
  <2>1. RowsBefore(k, i) \subseteq RowsBefore(k, j)
    BY <1>1, <1>5 DEF RowsBefore
  <2>2. i \in RowsBefore(k, j) /\ i \notin RowsBefore(k, i)
    BY <1>1, <1>5 DEF RowsBefore
  <2>3. /\ Cardinality(RowsBefore(k, i)) <= Cardinality(RowsBefore(k, j))
        /\ Cardinality(RowsBefore(k, i)) # Cardinality(RowsBefore(k, j))
    BY <1>4, <2>1, <2>2, FS_Subset
  <2> QED BY <1>4, <2>3
<1>6. Cardinality(RowsBefore(k, k)) = Cardinality(earlier)
  <2> DEFINE f == [j \in RowsBefore(k, k) |-> Df[j]]
  <2>1. ASSUME NEW j \in RowsBefore(k, k) PROVE Df[j] \in earlier
    <3>1. j \in 1..Len(Df) /\ Df[j].conn = Df[k].conn /\ j < k
      BY DEF RowsBefore, RowsOn
    <3>2. Df[j].id < Df[k].id
      BY <3>1, Frame
    <3>3. \E i \in 1..Len(file) : Df[j] = file[i]
      BY <3>1, Frame
    <3>4. Df[j] \in Range(file)
      <4>1. DOMAIN file = 1..Len(file)
        BY DEF FInv, FileInv
      <4> QED BY <3>3, <4>1 DEF Range
    <3> QED BY <3>1, <3>2, <3>4
  <2>2. ASSUME NEW q \in earlier PROVE \E j \in RowsBefore(k, k) : Df[j] = q
    <3>1. PICK i \in 1..Len(file) : q = file[i]
      <4>1. DOMAIN file = 1..Len(file)
        BY DEF FInv, FileInv
      <4> QED BY <4>1 DEF Range
    <3>2. PICK j \in 1..Len(Df) : Df[j] = q
      BY <3>1, Frame
    <3>3. Df[j].conn = Df[k].conn /\ Df[j].id < Df[k].id
      BY <3>2
    <3>4. k < j => Df[k].id < Df[j].id
      BY <3>3, Frame
    <3>5. Df[j].id \in Nat /\ Df[k].id \in Nat
      BY Frame
    <3>6. j < k
      BY <1>1, <3>3, <3>4, <3>5
    <3> QED BY <3>2, <3>3, <3>6 DEF RowsBefore, RowsOn
  <2>3. \A i, j \in RowsBefore(k, k) : Df[i] = Df[j] => i = j
    BY <1>2, Frame
  <2> HIDE DEF earlier
  <2>4. f \in Bijection(RowsBefore(k, k), earlier)
    BY <2>1, <2>2, <2>3 DEF Bijection, Injection, Surjection, IsInjective
  <2>5. ExistsBijection(RowsBefore(k, k), earlier)
    BY <2>4 DEF ExistsBijection
  <2> QED BY <1>4, <2>5, FS_Bijection
<1>7. SuricataAlert(Df[k]).tx_id = Cardinality(earlier)
  BY DEF SuricataAlert
<1> HIDE DEF earlier
<1>8. ASSUME NEW i \in rows
      PROVE  Cardinality(RowsBefore(k, i)) = Cardinality(RowsBefore(k, k)) <=> i = k
  <2>1. i < k \/ k < i \/ i = k
    BY <1>1, <1>8
  <2>2. \A j : Cardinality(RowsBefore(k, j)) \in Nat
    BY <1>4
  <2> HIDE DEF rows
  <2> QED BY <1>1, <1>5, <2>1, <2>2
<1> QED BY <1>4, <1>6, <1>7, <1>8

\* AlertsComeBack, for any traffic of the clients and any tolerance.
THEOREM Alerts == Spec => []AlertsComeBack
<1>1. ASSUME FInv, NEW k \in 1..Len(Df)
      PROVE  flag_requests(Df, {SuricataAlert(Df[k])})
               = [pred |-> {k}, unmapped |-> 0, mismatched |-> 0]
  <2> DEFINE a == SuricataAlert(Df[k])
  <2>1. a.port = Df[k].conn /\ a.tid = Df[k].transaction_id
    BY DEF SuricataAlert
  <2>2. a.tx_id # None /\ a.tx_id \in Nat
    BY <1>1, Transaction, NoneAssumption
  <2>3. k \in RowsOn(Df, Df[k].conn) /\ k \in Nat
    BY <1>1, Frame DEF RowsOn
  <2> HIDE DEF a
  <2>4. Hits(Df, a) = {i \in RowsOn(Df, Df[k].conn) : Cardinality(RowsBefore(k, i)) = a.tx_id}
    BY <2>1, <2>2 DEF Hits, RowsBefore
  <2>5. Hits(Df, a) = {k}
    BY <1>1, <2>3, <2>4, Transaction DEF a
  <2>6. Min(Hits(Df, a)) = k
    BY <2>3, <2>5, MinOf
  <2>7. flag_requests(Df, {a}) = [pred |-> Hits(Df, a), unmapped |-> 0, mismatched |-> 0]
    BY <2>1, <2>5, <2>6, OneAlert
  <2> QED BY <2>5, <2>7 DEF a
<1>2. ASSUME FInv, NEW k \in 1..Len(Df)
      PROVE  flag_requests(Df, {ZeekAlert(Df[k])})
               = [pred |-> {i \in RowsOn(Df, Df[k].conn) :
                              /\ Df[i].transaction_id = Df[k].transaction_id
                              /\ Distance(Df[i].wall_time, Df[k].wall_time) <= TOL},
                  unmapped |-> 0, mismatched |-> 0]
  <2> DEFINE a == ZeekAlert(Df[k])
             hits == {i \in RowsOn(Df, Df[k].conn) :
                              /\ Df[i].transaction_id = Df[k].transaction_id
                              /\ Distance(Df[i].wall_time, Df[k].wall_time) <= TOL}
  <2>1. /\ a.port = Df[k].conn /\ a.tid = Df[k].transaction_id
        /\ a.tx_id = None /\ a.ts = Df[k].wall_time
    BY DEF ZeekAlert
  <2>2. Df[k] \in RowType /\ Len(Df) \in Nat
    BY <1>2, Frame
  <2>3. Df[k].transaction_id \in Nat /\ Df[k].wall_time \in Nat /\ a.tid # None
    BY <2>1, <2>2, RowFields, NoneAssumption
  <2>4. k \in hits
    <3>1. Distance(Df[k].wall_time, Df[k].wall_time) = 0
      BY <2>3 DEF Distance
    <3> QED BY <1>2, <3>1, BoundsAssumption DEF RowsOn
  <2>5. hits \subseteq Nat
    BY <2>2 DEF RowsOn
  <2> HIDE DEF a
  <2>6. Hits(Df, a) = hits
    BY <2>1, <2>3 DEF Hits
  <2>7. Min(hits) \in hits
    BY <2>4, <2>5, MinOf
  <2>8. Df[Min(hits)].transaction_id = a.tid
    BY <2>1, <2>7
  <2> HIDE DEF hits
  <2>9. flag_requests(Df, {a}) = [pred |-> hits, unmapped |-> 0, mismatched |-> 0]
    BY <2>4, <2>6, <2>8, OneAlert
  <2> QED BY <2>9 DEF a, hits
<1>3. FInv => AlertsComeBack
  BY <1>1, <1>2 DEF AlertsComeBack, Df
<1> QED BY <1>3, Invariant, PTL

----------------------------------------------------------------------------
(* The columns of the process.                                             *)

\* What ValueFeaturesAreOnline supposes of the file.
Complete == (\A c \in Conns : pending[c] = None) /\ TiesInWireOrder /\ WritesDecoded

LEMMA PreviousOnTarget ==
  ASSUME FInv, Complete, NEW k \in 1..Len(Df)
  PROVE  LET p == Previous(Df, k, SameTarget) IN
         /\ p = None => Leads(Df[k], LandsAlike)
         /\ p # None => p \in 1..Len(Df) /\ p < k /\ Follows(Df[k], Df[p], LandsAlike)
<1> DEFINE before == {i \in 1..k-1 : SameTarget(Df[i], Df[k])}
           p == Previous(Df, k, SameTarget)
<1>1. p = IF before = {} THEN None ELSE Max(before)
  BY DEF Previous
<1>2. k \in Nat /\ k-1 \in Nat /\ before \subseteq 1..k-1 /\ 1..k-1 \subseteq 1..Len(Df)
  <2>1. Len(Df) \in Nat
    BY Frame
  <2> QED BY <2>1
<1>3. \A m \in 1..Len(Df) : IsWrite(Df[m]) => Lands(Df[m])
  <2> SUFFICES ASSUME NEW m \in 1..Len(Df), IsWrite(Df[m]) PROVE Lands(Df[m])
    OBVIOUS
  <2>1. PICK i \in 1..Len(file) : Df[m] = file[i]
    BY Frame
  <2>2. file[i] \in Range(file)
    <3>1. DOMAIN file = 1..Len(file)
      BY DEF FInv, FileInv
    <3> QED BY <3>1 DEF Range
  <2> QED BY <2>1, <2>2 DEF Complete, WritesDecoded, Lands
<1>4. \A a, b \in 1..Len(Df) : a < b => Df[a].id < Df[b].id
  BY Frame DEF Complete
<1>5. \A m \in 1..Len(Df) : Df[m].id \in Nat
  BY Frame
<1>6. ASSUME NEW s \in Stamped, s.id < Df[k].id, LandsAlike(s, Df[k])
      PROVE  \E m \in before : Df[m] = s
  <2>1. PICK m \in 1..Len(Df) : Df[m] = s
    BY <1>6, LoggedBefore DEF Complete
  <2>2. k < m => Df[k].id < Df[m].id
    BY <1>4
  <2>3. m < k
    BY <1>2, <1>5, <1>6, <2>1, <2>2
  <2> QED BY <1>2, <1>6, <2>1, <2>3 DEF LandsAlike, SameTarget, Lands
<1>7. CASE before = {}
  BY <1>1, <1>6, <1>7, NoneAssumption DEF Leads
<1>8. CASE before # {}
  <2>1. p = Max(before) /\ p \in before /\ \A m \in before : p >= m
    BY <1>1, <1>2, <1>8, MaxOf
  <2> HIDE DEF p
  <2>2. p \in 1..Len(Df) /\ p < k /\ p # None /\ SameTarget(Df[p], Df[k])
    BY <1>2, <2>1, NoneAssumption
  <2>3. Df[p].id < Df[k].id
    BY <1>4, <2>2
  <2>4. ASSUME NEW m \in before PROVE Df[m].id <= Df[p].id
    <3>1. m \in 1..Len(Df) /\ (m = p \/ m < p)
      BY <1>2, <2>1
    <3>2. m < p => Df[m].id < Df[p].id
      BY <1>4, <2>2, <3>1
    <3>3. Df[m].id \in Nat /\ Df[p].id \in Nat
      BY <1>5, <2>2, <3>1
    <3> QED BY <3>1, <3>2, <3>3
  <2>5. \A s \in Stamped : s.id < Df[k].id /\ LandsAlike(s, Df[k]) => s.id <= Df[p].id
    BY <1>6, <2>4
  <2>6. LandsAlike(Df[p], Df[k])
    BY <1>3, <2>2 DEF SameTarget, LandsAlike
  <2> QED BY <2>2, <2>3, <2>5, <2>6 DEF Follows, p
<1> QED BY <1>7, <1>8

\* What the loader computes of the k-th row is what was known of it.
LEMMA ValueOf ==
  ASSUME FInv, Complete, NEW k \in 1..Len(Df)
  PROVE  LET p == Previous(Df, k, SameTarget) IN
         /\ IsWrite(Df[k]) => Lands(Df[k])
         /\ ~malformed(Df[k]) /\ ~IsWrite(Df[k]) =>
              ValueFact(Df[k]) = [repeat_run |-> 0, write_step |-> 0]
         /\ IsWrite(Df[k]) /\ p = None =>
              ValueFact(Df[k]) = [repeat_run |-> 1, write_step |-> None]
         /\ IsWrite(Df[k]) /\ p # None =>
              /\ p \in 1..Len(Df) /\ p < k /\ Lands(Df[p])
              /\ ValueFact(Df[k]) =
                   [repeat_run |-> IF value0(Df[p]) = value0(Df[k])
                                   THEN ValueFact(Df[p]).repeat_run + 1 ELSE 1,
                    write_step |-> Distance(value0(Df[k]), value0(Df[p]))]
<1> DEFINE p == Previous(Df, k, SameTarget)
<1>1. Df[k] \in Stamped /\ Df[k] \in RowType
  BY Frame
<1>2. IsWrite(Df[k]) => Lands(Df[k])
  <2>1. PICK i \in 1..Len(file) : Df[k] = file[i]
    BY Frame
  <2>2. file[i] \in Range(file)
    <3>1. DOMAIN file = 1..Len(file)
      BY DEF FInv, FileInv
    <3> QED BY <3>1 DEF Range
  <2> QED BY <2>1, <2>2 DEF Complete, WritesDecoded, Lands
<1>3. ~malformed(Df[k]) /\ ~IsWrite(Df[k]) =>
        ValueFact(Df[k]) = [repeat_run |-> 0, write_step |-> 0]
  BY <1>1 DEF FInv, ValueInv
<1>4. ASSUME IsWrite(Df[k]), p = None
      PROVE  ValueFact(Df[k]) = [repeat_run |-> 1, write_step |-> None]
  <2>1. Leads(Df[k], LandsAlike)
    BY <1>4, PreviousOnTarget
  <2> QED BY <1>1, <1>2, <1>4, <2>1 DEF FInv, ValueInv
<1>5. ASSUME IsWrite(Df[k]), p # None
      PROVE  /\ p \in 1..Len(Df) /\ p < k /\ Lands(Df[p])
             /\ ValueFact(Df[k]) =
                   [repeat_run |-> IF value0(Df[p]) = value0(Df[k])
                                   THEN ValueFact(Df[p]).repeat_run + 1 ELSE 1,
                    write_step |-> Distance(value0(Df[k]), value0(Df[p]))]
  <2>1. p \in 1..Len(Df) /\ p < k /\ Follows(Df[k], Df[p], LandsAlike)
    BY <1>5, PreviousOnTarget
  <2> HIDE DEF p
  <2>2. Df[p] \in Stamped /\ Df[p] \in RowType /\ Lands(Df[p])
    BY <2>1, Frame DEF Follows, LandsAlike
  <2>3. Df[k].values \in Nat /\ Df[p].values \in Nat
    BY <1>1, <1>2, <1>5, <2>2, RowFields
  <2>4. value0(Df[k]) = Df[k].values /\ value0(Df[p]) = Df[p].values
    BY <2>3, NoneAssumption DEF value0, Filled
  <2>5. Distance(Df[p].values, Df[k].values) = Distance(Df[k].values, Df[p].values)
    BY <2>3 DEF Distance
  <2>6. ValueFact(Df[k]) =
          [repeat_run |-> IF Df[p].values = Df[k].values THEN ValueFact(Df[p]).repeat_run + 1 ELSE 1,
           write_step |-> Distance(Df[p].values, Df[k].values)]
    BY <1>1, <1>2, <1>5, <2>1, <2>2 DEF FInv, ValueInv
  <2> QED BY <2>1, <2>2, <2>4, <2>5, <2>6
<1> QED BY <1>2, <1>3, <1>4, <1>5

\* The recursion of repeat_run, and what it computes: a least row at which it
\* were another number would have a lesser one.
Length(run, k) ==
  LET p == Previous(Df, k, SameTarget) IN
  IF ~IsWrite(Df[k]) THEN 0
  ELSE IF p = None \/ value0(Df[p]) # value0(Df[k]) THEN 1
  ELSE run[p] + 1
Known(k) == IF IsWrite(Df[k]) THEN ValueFact(Df[k]).repeat_run ELSE 0

LEMMA RunLengths ==
  ASSUME FInv, Complete
  PROVE  \A k \in 1..Len(Df) : repeat_run(Df)[k] = Known(k)
<1> DEFINE n == Len(Df)
           run == repeat_run(Df)
           known == [k \in 1..n |-> Known(k)]
<1>1. ASSUME NEW k \in 1..n, NEW g,
             \A p \in 1..n : p < k => g[p] = Known(p)
      PROVE  Length(g, k) = Known(k)
  <2> DEFINE p == Previous(Df, k, SameTarget)
  <2>1. CASE ~IsWrite(Df[k])
    BY <2>1 DEF Length, Known
  <2>2. CASE IsWrite(Df[k]) /\ p = None
    <3>1. Length(g, k) = 1
      BY <2>2 DEF Length
    <3>2. ValueFact(Df[k]) = [repeat_run |-> 1, write_step |-> None]
      BY <2>2, ValueOf
    <3> QED BY <2>2, <3>1, <3>2 DEF Known
  <2>3. CASE IsWrite(Df[k]) /\ p # None
    <3>1. /\ p \in 1..n /\ p < k /\ Lands(Df[p])
          /\ ValueFact(Df[k]) =
                   [repeat_run |-> IF value0(Df[p]) = value0(Df[k])
                                   THEN ValueFact(Df[p]).repeat_run + 1 ELSE 1,
                    write_step |-> Distance(value0(Df[k]), value0(Df[p]))]
      BY <2>3, ValueOf
    <3>2. Length(g, k) = IF value0(Df[p]) = value0(Df[k]) THEN g[p] + 1 ELSE 1
      BY <2>3 DEF Length
    <3> HIDE DEF p
    <3>3. g[p] = ValueFact(Df[p]).repeat_run
      BY <1>1, <3>1 DEF Known, Lands
    <3> QED BY <2>3, <3>1, <3>2, <3>3 DEF Known
  <2> QED BY <2>1, <2>2, <2>3
<1>2. run = CHOOSE g : g = [k \in 1..n |-> Length(g, k)]
  BY DEF repeat_run, Length
<1>3. known = [k \in 1..n |-> Length(known, k)]
  <2>1. \A p \in 1..n : known[p] = Known(p)
    OBVIOUS
  <2>2. \A k \in 1..n : Length(known, k) = Known(k)
    BY <1>1, <2>1
  <2> QED BY <2>2
<1> HIDE DEF known, run
<1>4. run = [k \in 1..n |-> Length(run, k)]
  BY <1>2, <1>3
<1> SUFFICES ASSUME NEW k \in 1..n, run[k] # Known(k) PROVE FALSE
  BY DEF run
<1> DEFINE wrong == {i \in 1..n : run[i] # Known(i)}
<1>5. n \in Nat /\ wrong \subseteq Nat /\ wrong # {}
  <2>1. Len(Df) \in Nat
    BY Frame
  <2>2. k \in wrong
    OBVIOUS
  <2> QED BY <2>1, <2>2
<1>6. PICK i \in wrong : \A j \in wrong : i <= j
  BY <1>5, Least
<1>7. \A j \in 1..n : j < i => run[j] = Known(j)
  BY <1>5, <1>6
<1>8. Length(run, i) = Known(i)
  BY <1>1, <1>6, <1>7
<1> QED BY <1>4, <1>6, <1>8

\* ValueFeaturesAreOnline, for any clients, frames and schedules of the pumps.
THEOREM ValueFeatures == Spec => []ValueFeaturesAreOnline
<1>1. ASSUME FInv, Complete, NEW k \in 1..Len(Df), ~malformed(Df[k])
      PROVE  ValueFact(Df[k]) =
               [repeat_run |-> repeat_run(Df)[k], write_step |-> write_step(Df, k)]
  <2> DEFINE p == Previous(Df, k, SameTarget)
  <2>1. repeat_run(Df)[k] = Known(k)
    BY <1>1, RunLengths
  <2>2. CASE ~IsWrite(Df[k])
    <3>1. ValueFact(Df[k]) = [repeat_run |-> 0, write_step |-> 0]
      BY <1>1, <2>2, ValueOf
    <3> QED BY <2>1, <2>2, <3>1 DEF Known, write_step
  <2>3. CASE IsWrite(Df[k]) /\ p = None
    <3>1. ValueFact(Df[k]) = [repeat_run |-> 1, write_step |-> None]
      BY <1>1, <2>3, ValueOf
    <3>2. write_step(Df, k) = None
      BY <2>3 DEF write_step
    <3> QED BY <2>1, <2>3, <3>1, <3>2 DEF Known
  <2>4. CASE IsWrite(Df[k]) /\ p # None
    <3> DEFINE length == IF value0(Df[p]) = value0(Df[k])
                         THEN ValueFact(Df[p]).repeat_run + 1 ELSE 1
               step == Distance(value0(Df[k]), value0(Df[p]))
    <3>1. ValueFact(Df[k]) = [repeat_run |-> length, write_step |-> step]
      BY <1>1, <2>4, ValueOf
    <3>2. write_step(Df, k) = step
      BY <2>4 DEF write_step
    <3> HIDE DEF length, step, p
    <3> QED BY <2>1, <2>4, <3>1, <3>2 DEF Known
  <2> QED BY <2>2, <2>3, <2>4
<1>2. FInv => ValueFeaturesAreOnline
  BY <1>1 DEF ValueFeaturesAreOnline, Complete, ValueFact, Df
<1> QED BY <1>2, Invariant, PTL

=============================================================================
