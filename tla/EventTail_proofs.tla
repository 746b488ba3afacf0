--------------------------- MODULE EventTail_proofs ---------------------------
(***************************************************************************)
(* Proofs about EventTail, for any set of collecting threads, any batch    *)
(* size, any setback of timestamps and any number of records and aborts:   *)
(* the type invariant, and that without clears and failing reads the table *)
(* is a tail of the log without a gap, which implements EventStore.        *)
(*                                                                         *)
(* With one thread collecting, and with clears, failing reads and rows and *)
(* caps: the cursor never moves back, a record is stored at most once per  *)
(* attempt, and what is missing behind the cursor has its reason.  These   *)
(* rest on CursorInv (what a pass has loaded still is the cursor), OnceInv *)
(* (what was stored too often is behind the cursor or about to be) and     *)
(* LossInv (what lies below the records of a pass was processed before).   *)
(***************************************************************************)
EXTENDS EventTail, Extremes, SequenceTheorems, FiniteSetTheorems, TLAPS

USE CollectorAssumption, BoundsAssumption

\* A nonempty bounded set of naturals has a largest element.
LEMMA LargestExists ==
  ASSUME NEW B \in Nat, NEW T, T \subseteq 0..B, T # {}
  PROVE  Largest(T) \in T /\ \A y \in T : y <= Largest(T)
<1>1. \E x \in T : \A y \in T : y <= x
  BY BoundedLargest
<1> QED
  BY <1>1 DEF Largest

\* The record at a position of the log.
LEMMA RecordType ==
  ASSUME TypeOK, NEW i \in 1..Len(written)
  PROVE  /\ Len(written) \in 0..MaxRecords
         /\ written[i].number \in 1..MaxRecords
         /\ written[i].timestamp \in 1..MaxTime
<1>1. written[i] \in [number: 1..MaxRecords, timestamp: 1..MaxTime]
  BY ElementOfSeq DEF TypeOK
<1>2. Len(written) \in Nat /\ Len(written) <= MaxRecords
  BY LenProperties DEF TypeOK
<1>3. Len(written) \in 0..MaxRecords
  BY <1>2
<1> QED
  BY <1>1, <1>3

\* The cursor that a pass computes is an id or a time, and not before its own.
LEMMA CursorType ==
  ASSUME TypeOK, NEW p \in Pass, InRange(p)
  PROVE  /\ max_id(p) \in 0..MaxRecords /\ max_id(p) >= p.last_id
         /\ max_ts(p) \in 0..MaxTime /\ max_ts(p) >= p.last_ts
         /\ max_id(p) \in {p.last_id} \cup {written[i].number : i \in taken(p)}
<1>1. \A i \in taken(p) : i \in 1..Len(written)
  BY LenProperties DEF taken, Pass, InRange, TypeOK
<1>2. \A i \in taken(p) : /\ written[i].number \in 1..MaxRecords
                          /\ written[i].timestamp \in 1..MaxTime
  BY <1>1, RecordType
<1> DEFINE ids == {p.last_id} \cup {written[i].number : i \in taken(p)}
           times == {p.last_ts} \cup {written[i].timestamp : i \in taken(p)}
<1>3. ids \subseteq 0..MaxRecords /\ p.last_id \in ids
  BY <1>2 DEF Pass
<1>4. times \subseteq 0..MaxTime /\ p.last_ts \in times
  BY <1>2 DEF Pass
<1>5. max_id(p) = Largest(ids) /\ max_ts(p) = Largest(times)
  BY DEF max_id, max_ts
<1> HIDE DEF ids, times
<1>6. Largest(ids) \in ids /\ Largest(ids) >= p.last_id
  BY <1>3, LargestExists
<1>7. Largest(times) \in times /\ Largest(times) >= p.last_ts
  BY <1>4, LargestExists
<1> QED
  BY <1>3, <1>4, <1>5, <1>6, <1>7 DEF ids
-------------------------------------------------------------------------------
(* Types.                                                                  *)

PassesOK == pass \in [Collectors -> Pass] /\ \A c \in Collectors : InRange(pass[c])

\* A step of one pass leaves the others alone.
LEMMA PassUpdate ==
  ASSUME TypeOK, NEW c \in Collectors, NEW q, pass' = [pass EXCEPT ![c] = q]
  PROVE  /\ pass'[c] = q /\ \A d \in Collectors : d # c => pass'[d] = pass[d]
         /\ q \in Pass => pass' \in [Collectors -> Pass]
         /\ q \in Pass /\ InRange(q) /\ UNCHANGED written => PassesOK'
<1>1. pass'[c] = q /\ \A d \in Collectors : d # c => pass'[d] = pass[d]
  BY DEF TypeOK
<1>2. q \in Pass => pass' \in [Collectors -> Pass]
  BY DEF TypeOK
<1>3. ASSUME q \in Pass, InRange(q), UNCHANGED written PROVE PassesOK'
  <2>1. \A d \in Collectors : InRange(pass'[d])
    BY <1>1, <1>3 DEF TypeOK
  <2>2. \A d \in Collectors : InRange(pass[d])'
    BY <1>3, <2>1 DEF InRange
  <2> QED
    BY <1>2, <1>3, <2>2 DEF PassesOK
<1> QED
  BY <1>1, <1>2, <1>3

LEMMA IdleType ==
  ASSUME TypeOK
  PROVE  Idle \in Pass /\ InRange(Idle)
<1>1. Len(written) \in Nat
  BY LenProperties DEF TypeOK
<1> QED
  BY <1>1 DEF Idle, Pass, InRange

\* Leaving the read loop: idle when nothing was taken, else about to insert.
LEMMA ReadDoneType ==
  ASSUME TypeOK, NEW p \in Pass, InRange(p)
  PROVE  ReadDone(p) \in Pass /\ InRange(ReadDone(p))
<1> DEFINE q == [p EXCEPT !.step = "insert"]
<1>1. CASE taken(p) = {}
  BY <1>1, IdleType DEF ReadDone
<1>2. CASE taken(p) # {}
  <2>1. p.low <= p.high
    BY <1>2 DEF taken, Pass
  <2>2. q \in Pass /\ q.low = p.low /\ q.high = p.high
    BY DEF Pass
  <2>3. InRange(q)
    BY <2>1, <2>2 DEF InRange, Pass
  <2> QED
    BY <1>2, <2>2, <2>3 DEF ReadDone
<1> QED
  BY <1>1, <1>2

LEMMA FaultType ==
  ASSUME TypeOK, NEW kind \in DOMAIN MaxFaults, Fault(kind)
  PROVE  faults' \in [DOMAIN MaxFaults -> Nat]
BY DEF Fault, TypeOK

LEMMA FaultKinds == {"abort", "read", "row", "clear"} \subseteq DOMAIN MaxFaults
BY DEF MaxFaults

\* The records a failing read leaves out are records of the log.
LEMMA UnreadType ==
  ASSUME TypeOK, NEW p \in Pass, InRange(p)
  PROVE  unread(p) \subseteq 1..Len(written)
<1>1. Len(written) \in Nat /\ first >= 1 /\ first \in Nat
  BY LenProperties DEF TypeOK
<1>2. first..(p.low - 1) \subseteq 1..Len(written)
  BY <1>1 DEF InRange, Pass
<1> QED
  BY <1>2 DEF unread

LEMMA WriteType ==
  ASSUME TypeOK, Write
  PROVE  /\ written' \in Seq([number: 1..MaxRecords, timestamp: 1..MaxTime])
         /\ Len(written') = Len(written) + 1 /\ Len(written') <= MaxRecords
         /\ Len(written) \in Nat
         /\ \A i \in 1..Len(written) : written'[i] = written[i]
         /\ written'[Len(written')].number = Len(written) + 2 - first
<1>1. PICK t \in 1..MaxTime :
        written' = Append(written, [number |-> Len(written) + 2 - first, timestamp |-> t])
  BY DEF Write
<1>2. Len(written) \in Nat /\ Len(written) < MaxRecords
  BY LenProperties DEF TypeOK, Write
<1>3. [number |-> Len(written) + 2 - first, timestamp |-> t]
        \in [number: 1..MaxRecords, timestamp: 1..MaxTime]
  BY <1>2 DEF TypeOK
<1> QED
  BY <1>1, <1>2, <1>3, AppendProperties DEF TypeOK

LEMMA InitType == Init => TypeOK
<1> SUFFICES ASSUME Init PROVE TypeOK
  OBVIOUS
<1>1. written \in Seq([number: 1..MaxRecords, timestamp: 1..MaxTime]) /\ Len(written) = 0
  BY DEF Init
<1>2. Idle \in Pass /\ InRange(Idle)
  BY <1>1 DEF Idle, Pass, InRange
<1> QED
  BY <1>1, <1>2 DEF Init, TypeOK

\* Fields that a pass changes one at a time.
LEMMA LowType ==
  ASSUME NEW p \in Pass, NEW low \in 1..(MaxRecords + 1)
  PROVE  LET q == [p EXCEPT !.low = low] IN
         q \in Pass /\ q.step = p.step /\ q.low = low /\ q.high = p.high
BY DEF Pass

LEMMA NextType == TypeOK /\ [Next]_vars => TypeOK'
<1> SUFFICES ASSUME TypeOK, [Next]_vars PROVE TypeOK'
  OBVIOUS
<1>0. Len(written) \in Nat /\ \A c \in Collectors : pass[c] \in Pass /\ InRange(pass[c])
  BY LenProperties DEF TypeOK
<1>00. Len(written) \in 0..MaxRecords /\ first \in Nat /\ first >= 1
  BY <1>0 DEF TypeOK
<1>1. CASE Write
  <2>1. \A c \in Collectors : InRange(pass[c])'
    BY <1>0, <1>1, WriteType DEF Write, InRange, Pass
  <2>2. UNCHANGED <<first, database, pass, faults, skipped>>
    BY <1>1 DEF Write
  <2>3. first' \in 1..(Len(written') + 1) /\ skipped' \subseteq 1..Len(written')
    <3>1. Len(written') = Len(written) + 1 /\ first' = first /\ skipped' = skipped
      BY <1>1, <2>2, WriteType
    <3>2. 1..Len(written) \subseteq 1..Len(written')
      BY <1>0, <3>1
    <3> QED
      BY <1>0, <3>1, <3>2 DEF TypeOK
  <2>4. /\ written' \in Seq([number: 1..MaxRecords, timestamp: 1..MaxTime])
        /\ Len(written') <= MaxRecords
    BY <1>1, WriteType
  <2> QED
    BY <2>1, <2>2, <2>3, <2>4 DEF database, TypeOK
<1>2. CASE Clear
  <2>1. first' \in 1..(Len(written') + 1) /\ UNCHANGED <<written, database, pass, skipped>>
    BY <1>0, <1>2 DEF Clear
  <2>2. faults' \in [DOMAIN MaxFaults -> Nat]
    BY <1>2, FaultType, FaultKinds DEF Clear
  <2> QED
    BY <2>1, <2>2 DEF TypeOK, database, InRange
<1>3. ASSUME NEW c \in Collectors, LoadId(c) \/ LoadTs(c) \/ OpenLog(c) PROVE TypeOK'
  <2>1. PICK q \in Pass : pass' = [pass EXCEPT ![c] = q] /\ InRange(q)
    <3>1. CASE LoadId(c)
      <4>1. [pass[c] EXCEPT !.step = "load", !.last_id = cursor_id] \in Pass
        BY <1>0 DEF Pass, TypeOK
      <4>2. InRange([pass[c] EXCEPT !.step = "load", !.last_id = cursor_id])
        BY <1>0 DEF Pass, InRange
      <4> QED
        BY <3>1, <4>1, <4>2 DEF LoadId
    <3>2. CASE LoadTs(c)
      <4>1. [pass[c] EXCEPT !.step = "open", !.last_ts = cursor_ts] \in Pass
        BY <1>0 DEF Pass, TypeOK
      <4>2. InRange([pass[c] EXCEPT !.step = "open", !.last_ts = cursor_ts])
        BY <1>0 DEF Pass, InRange
      <4> QED
        BY <3>2, <4>1, <4>2 DEF LoadTs
    <3>3. CASE OpenLog(c)
      <4> DEFINE q == [pass[c] EXCEPT !.step = "read", !.low = Len(written) + 1,
                                      !.high = Len(written)]
      <4>1. q \in Pass
        <5>1. /\ Len(written) + 1 \in 1..(MaxRecords + 1) /\ Len(written) \in 0..MaxRecords
              /\ pass[c] \in Pass
          BY <1>0, <1>00
        <5> QED
          BY <5>1 DEF Pass
      <4>2. InRange(q)
        BY <1>0 DEF Pass, InRange
      <4> QED
        BY <3>3, <4>1, <4>2 DEF OpenLog
    <3> QED
      BY <1>3, <3>1, <3>2, <3>3
  <2>2. UNCHANGED <<log, database, faults, skipped>>
    BY <1>3 DEF LoadId, LoadTs, OpenLog
  <2>3. PassesOK'
    BY <2>1, <2>2, PassUpdate DEF log
  <2> QED
    BY <2>2, <2>3 DEF TypeOK, PassesOK, log, database
<1>4. ASSUME NEW c \in Collectors, ReadBatch(c) PROVE TypeOK'
  <2>1. PICK q \in Pass : pass' = [pass EXCEPT ![c] = q] /\ InRange(q)
    <3>1. ASSUME NEW low \in first..pass[c].low
          PROVE  [pass[c] EXCEPT !.low = low] \in Pass /\ InRange([pass[c] EXCEPT !.low = low])
      <4>1. low \in 1..pass[c].low
        BY <1>0, <1>00 DEF Pass
      <4>2. [pass[c] EXCEPT !.low = low] \in Pass
        <5>1. low \in 1..(MaxRecords + 1) /\ pass[c] \in Pass
          BY <1>0, <4>1 DEF Pass
        <5> QED
          BY <5>1, LowType
      <4>3. InRange([pass[c] EXCEPT !.low = low])
        <5> DEFINE q == [pass[c] EXCEPT !.low = low]
        <5>1. q.step = pass[c].step /\ q.low = low /\ q.high = pass[c].high
          BY <1>0 DEF Pass
        <5>2. low <= pass[c].high + 1 /\ (low <= pass[c].high \/ low = pass[c].low)
          BY <1>0, <4>1 DEF Pass, InRange
        <5> HIDE DEF q
        <5> QED
          BY <1>0, <5>1, <5>2 DEF InRange
      <4> QED
        BY <4>2, <4>3
    <3>2. ASSUME NEW bottom \in first..(pass[c].low - 1),
                 pass' = [pass EXCEPT ![c] = [pass[c] EXCEPT !.low = bottom]]
          PROVE  \E q \in Pass : pass' = [pass EXCEPT ![c] = q] /\ InRange(q)
      <4>1. bottom \in first..pass[c].low
        BY <1>0 DEF Pass, TypeOK
      <4> QED
        BY <3>1, <3>2, <4>1
    <3>3. ASSUME NEW bottom \in first..(pass[c].low - 1),
                 NEW stop \in bottom..(pass[c].low - 1),
                 pass' = [pass EXCEPT ![c] = ReadDone([pass[c] EXCEPT !.low = stop + 1])]
          PROVE  \E q \in Pass : pass' = [pass EXCEPT ![c] = q] /\ InRange(q)
      <4>1. stop + 1 \in first..pass[c].low
        BY <1>0 DEF Pass, TypeOK
      <4> QED
        BY <3>1, <3>3, <4>1, ReadDoneType
    <3> QED
      BY <1>4, <3>2, <3>3 DEF ReadBatch
  <2>2. UNCHANGED <<log, database, faults, skipped>>
    BY <1>4 DEF ReadBatch
  <2>3. PassesOK'
    BY <2>1, <2>2, PassUpdate DEF log
  <2> QED
    BY <2>2, <2>3 DEF TypeOK, PassesOK, log, database
<1>5. ASSUME NEW c \in Collectors, EndOfLog(c) \/ CapReached(c) \/ ReadError(c) PROVE TypeOK'
  <2>1. /\ pass' = [pass EXCEPT ![c] = ReadDone(pass[c])]
        /\ UNCHANGED <<log, database>>
        /\ skipped' \in {skipped, skipped \cup unread(pass[c])}
        /\ faults' = faults \/ Fault("read")
    BY <1>5 DEF EndOfLog, CapReached, ReadError
  <2>2. PassesOK'
    BY <1>0, <2>1, ReadDoneType, PassUpdate DEF log
  <2>3. skipped' \subseteq 1..Len(written')
    BY <1>0, <2>1, UnreadType DEF TypeOK, log
  <2>4. faults' \in [DOMAIN MaxFaults -> Nat]
    BY <2>1, FaultType, FaultKinds DEF TypeOK
  <2> QED
    BY <2>1, <2>2, <2>3, <2>4 DEF TypeOK, PassesOK, log, database
<1>6. ASSUME NEW c \in Collectors, Insert(c) PROVE TypeOK'
  <2>1. PICK rows \in SUBSET taken(pass[c]) :
          /\ faults' = faults \/ Fault("row")
          /\ copies' = [i \in DOMAIN copies |-> IF i \in rows THEN copies[i] + 1 ELSE copies[i]]
          /\ skipped' = skipped \cup (taken(pass[c]) \ rows)
    BY <1>6 DEF Insert
  <2>2. [pass[c] EXCEPT !.step = "set_id"] \in Pass /\ InRange([pass[c] EXCEPT !.step = "set_id"])
    BY <1>0, <1>6 DEF Insert, Pass, InRange
  <2>3. UNCHANGED <<log, cursor_id, cursor_ts>>
        /\ pass' = [pass EXCEPT ![c] = [pass[c] EXCEPT !.step = "set_id"]]
    BY <1>6 DEF Insert
  <2>4. PassesOK'
    BY <2>2, <2>3, PassUpdate DEF log
  <2>5. copies' \in [1..MaxRecords -> Nat]
    BY <2>1 DEF TypeOK
  <2>6. skipped' \subseteq 1..Len(written')
    <3>1. taken(pass[c]) \subseteq 1..Len(written)
      BY <1>0 DEF taken, Pass, InRange
    <3> QED
      BY <2>1, <2>3, <3>1 DEF TypeOK, log
  <2>7. faults' \in [DOMAIN MaxFaults -> Nat]
    BY <2>1, FaultType, FaultKinds DEF TypeOK
  <2> QED
    BY <2>3, <2>4, <2>5, <2>6, <2>7 DEF TypeOK, PassesOK, log
<1>7. ASSUME NEW c \in Collectors, SetId(c) PROVE TypeOK'
  <2>1. [pass[c] EXCEPT !.step = "set_ts"] \in Pass /\ InRange([pass[c] EXCEPT !.step = "set_ts"])
    BY <1>0, <1>7 DEF SetId, Pass, InRange
  <2>2. pass' = [pass EXCEPT ![c] = [pass[c] EXCEPT !.step = "set_ts"]]
        /\ UNCHANGED <<log, copies, cursor_ts, faults, skipped>>
    BY <1>7 DEF SetId
  <2>3. cursor_id' \in 0..MaxRecords
    BY <1>0, <1>7, CursorType DEF SetId
  <2>4. PassesOK'
    BY <2>1, <2>2, PassUpdate DEF log
  <2> QED
    BY <2>2, <2>3, <2>4 DEF TypeOK, PassesOK, log
<1>8. ASSUME NEW c \in Collectors, SetTs(c) PROVE TypeOK'
  <2>1. pass' = [pass EXCEPT ![c] = Idle] /\ UNCHANGED <<log, copies, cursor_id, faults, skipped>>
    BY <1>8 DEF SetTs
  <2>2. cursor_ts' \in 0..MaxTime
    BY <1>0, <1>8, CursorType DEF SetTs
  <2>3. PassesOK'
    BY <2>1, IdleType, PassUpdate DEF log
  <2> QED
    BY <2>1, <2>2, <2>3 DEF TypeOK, PassesOK, log
<1>9. ASSUME NEW c \in Collectors, Abort(c) PROVE TypeOK'
  <2>1. pass' = [pass EXCEPT ![c] = Idle] /\ UNCHANGED <<log, database, skipped>>
    BY <1>9 DEF Abort
  <2>2. faults' \in [DOMAIN MaxFaults -> Nat]
    BY <1>9, FaultType, FaultKinds DEF Abort
  <2>3. PassesOK'
    BY <2>1, IdleType, PassUpdate DEF log
  <2> QED
    BY <2>1, <2>2, <2>3 DEF TypeOK, PassesOK, log, database
<1>10. CASE UNCHANGED vars
  BY <1>10 DEF vars, log, database, TypeOK, InRange
<1> QED
  BY <1>1, <1>2, <1>3, <1>4, <1>5, <1>6, <1>7, <1>8, <1>9, <1>10 DEF Next, Collect

\* Type correctness, for any number of threads, records and faults.
THEOREM TypeCorrect == Spec => []TypeOK
BY InitType, NextType, PTL DEF Spec
-------------------------------------------------------------------------------
(* Without clears, failing reads and failing rows, and below the cap, every *)
(* record up to a record id that any cursor, stored or loaded, has seen is  *)
(* in the table, and a pass that is about to insert continues a stored      *)
(* part of the log.  The timestamps play no role: a record that ends a      *)
(* read has an id that was passed before.                                   *)

Reliable ==
  /\ MaxClears = 0 /\ MaxReadErrors = 0 /\ MaxRowErrors = 0
  /\ MAX_EVENTS_PER_RUN > MaxRecords

StoredUpTo(n) == 1..n \subseteq Stored

\* What holds of a pass: up to where the table is known to be complete.
PassInv(p) ==
  /\ StoredUpTo(p.last_id)
  /\ p.step = "insert" => StoredUpTo(p.low - 1)
  /\ p.step \in {"set_id", "set_ts"} => StoredUpTo(p.high)

TailInv ==
  /\ first = 1 /\ \A i \in 1..Len(written) : written[i].number = i
  /\ \A i \in DOMAIN copies : i > Len(written) => copies[i] = 0
  /\ \E n \in 0..Len(written) : Stored = 1..n
  /\ StoredUpTo(cursor_id)
  /\ \A c \in Collectors : PassInv(pass[c])

LEMMA NoFault ==
  ASSUME Reliable, TypeOK, NEW kind \in {"clear", "read", "row"}
  PROVE  ~Fault(kind)
<1>1. MaxFaults[kind] = 0 /\ faults[kind] \in Nat
  BY DEF Reliable, MaxFaults, TypeOK
<1> QED
  BY <1>1 DEF Fault

LEMMA BelowCap ==
  ASSUME Reliable, TypeOK, NEW p \in Pass, InRange(p)
  PROVE  ~(Cardinality(taken(p)) >= MAX_EVENTS_PER_RUN)
<1>1. Cardinality(p.low..p.high) = IF p.low > p.high THEN 0 ELSE p.high - p.low + 1
  <2>1. p.low \in Int /\ p.high \in Int
    BY DEF Pass
  <2> QED
    BY <2>1, FS_Interval
<1> QED
  BY <1>1 DEF taken, Pass, Reliable

\* The table only grows: what was stored up to some record stays stored.
LEMMA StoredStays ==
  ASSUME NEW n, StoredUpTo(n), Stored \subseteq Stored'
  PROVE  StoredUpTo(n)'
BY DEF StoredUpTo

\* A pass that reads no further continues what is stored.
LEMMA ReadDoneInv ==
  ASSUME NEW p \in Pass, StoredUpTo(p.last_id), StoredUpTo(p.low - 1)
  PROVE  PassInv(ReadDone(p))
<1>1. CASE taken(p) = {}
  BY <1>1 DEF ReadDone, PassInv, Idle, StoredUpTo
<1>2. CASE taken(p) # {}
  <2> DEFINE q == [p EXCEPT !.step = "insert"]
  <2>1. q.last_id = p.last_id /\ q.low = p.low /\ q.step = "insert"
    BY DEF Pass
  <2> QED
    BY <1>2, <2>1 DEF ReadDone, PassInv
<1> QED
  BY <1>1, <1>2

\* A step that stores nothing keeps the invariant if the pass it moves does.
LEMMA PassStep ==
  ASSUME TypeOK, TailInv, NEW c \in Collectors, NEW q, pass' = [pass EXCEPT ![c] = q],
         PassInv(q), UNCHANGED <<log, copies>>, StoredUpTo(cursor_id')
  PROVE  TailInv' /\ UNCHANGED Stored
<1>1. UNCHANGED Stored
  BY DEF Stored, log
<1>2. \A d \in Collectors : PassInv(pass'[d])
  BY PassUpdate DEF TailInv
<1>3. \A d \in Collectors : PassInv(pass[d])'
  BY <1>1, <1>2 DEF PassInv, StoredUpTo
<1>4. StoredUpTo(cursor_id)'
  BY <1>1 DEF StoredUpTo
<1>5. (\E n \in 0..Len(written) : Stored = 1..n)'
  BY <1>1 DEF TailInv, log
<1> QED
  BY <1>1, <1>3, <1>4, <1>5 DEF TailInv, log

\* insert_events() of a pass extends the stored part of the log.
LEMMA InsertStep ==
  ASSUME Reliable, TypeOK, TailInv, NEW c \in Collectors, Insert(c)
  PROVE  /\ TailInv'
         /\ \E n \in 0..Len(written) : Stored \subseteq 1..n /\ Stored' = 1..n
<1>0. PICK p \in Pass, q \in Pass : p = pass[c] /\ q = [p EXCEPT !.step = "set_id"]
  <2>1. pass[c] \in Pass
    BY DEF TypeOK
  <2>2. [pass[c] EXCEPT !.step = "set_id"] \in Pass
    BY <2>1 DEF Pass
  <2> QED
    BY <2>1, <2>2
<1>1. /\ Len(written) \in Nat /\ p.low <= p.high /\ p.high <= Len(written)
      /\ p.low \in Nat /\ p.low >= 1 /\ p.high \in Nat /\ Len(written) <= MaxRecords
  <2>1. InRange(p) /\ p.step = "insert"
    BY <1>0 DEF TypeOK, Insert
  <2>2. Len(written) \in Nat /\ Len(written) <= MaxRecords
    BY LenProperties DEF TypeOK
  <2>3. p.low \in Nat /\ p.low >= 1 /\ p.high \in Nat
    BY DEF Pass
  <2> QED
    BY <2>1, <2>2, <2>3 DEF InRange
<1>2. /\ pass' = [pass EXCEPT ![c] = q] /\ UNCHANGED <<log, cursor_id, cursor_ts>>
      /\ copies' = [i \in DOMAIN copies |-> IF i \in taken(p) THEN copies[i] + 1 ELSE copies[i]]
  BY <1>0, NoFault DEF Insert
<1>3. PICK n \in 0..Len(written) : Stored = 1..n
  BY DEF TailInv
<1>4. Stored' = Stored \cup taken(p)
  <2>1. \A i \in 1..Len(written) : copies'[i] > 0 <=> copies[i] > 0 \/ i \in taken(p)
    <3>1. \A i \in 1..Len(written) : i \in DOMAIN copies /\ copies[i] \in Nat
      BY <1>1 DEF TypeOK
    <3> QED
      BY <1>2, <3>1
  <2>2. taken(p) \subseteq 1..Len(written)
    BY <1>1 DEF taken
  <2> QED
    BY <1>2, <2>1, <2>2 DEF Stored, log
<1>5. StoredUpTo(p.low - 1)
  BY <1>0 DEF TailInv, PassInv, Insert
<1>6. p.low - 1 <= n
  <2>1. CASE p.low = 1
    BY <2>1, <1>3
  <2>2. CASE p.low - 1 \in 1..(p.low - 1)
    BY <1>1, <1>3, <1>5, <2>2 DEF StoredUpTo
  <2> QED
    BY <1>1, <2>1, <2>2
<1> DEFINE m == IF p.high >= n THEN p.high ELSE n
<1>7. m \in 0..Len(written) /\ 1..n \subseteq 1..m /\ 1..p.high \subseteq 1..m
  BY <1>1, <1>3
<1>8. Stored' = 1..m
  <2>1. 1..n \cup taken(p) = 1..m
    BY <1>1, <1>3, <1>6 DEF taken
  <2> QED
    BY <1>3, <1>4, <2>1
<1> HIDE DEF m
<1>9. \A k : StoredUpTo(k) => StoredUpTo(k)'
  BY <1>4 DEF StoredUpTo
<1>10. PassInv(q)'
  <2>1. q.step = "set_id" /\ q.high = p.high /\ q.last_id = p.last_id
    BY <1>0 DEF Pass
  <2>2. StoredUpTo(p.high)'
    BY <1>7, <1>8 DEF StoredUpTo
  <2>3. StoredUpTo(p.last_id)'
    BY <1>0, <1>9 DEF TailInv, PassInv
  <2> QED
    BY <2>1, <2>2, <2>3 DEF PassInv
<1>11. \A d \in Collectors : PassInv(pass[d])'
  <2>1. pass'[c] = q
    BY <1>0, <1>2, PassUpdate
  <2>2. ASSUME NEW d \in Collectors, d # c PROVE PassInv(pass[d])'
    <3>1. pass'[d] = pass[d]
      BY <1>2, <2>2, PassUpdate
    <3>2. PICK r : r = pass[d] /\ PassInv(r)
      BY DEF TailInv
    <3>3. PassInv(r)'
      BY <1>9, <3>2 DEF PassInv
    <3> QED
      BY <3>1, <3>2, <3>3 DEF PassInv
  <2> QED
    BY <1>10, <2>1, <2>2 DEF PassInv
<1>12. \A i \in DOMAIN copies' : i > Len(written') => copies'[i] = 0
  BY <1>1, <1>2 DEF TailInv, taken, TypeOK, log
<1>13. StoredUpTo(cursor_id)'
  <2>1. StoredUpTo(cursor_id) /\ cursor_id' = cursor_id
    BY <1>2 DEF TailInv
  <2> QED
    BY <1>4, <2>1 DEF StoredUpTo
<1>14. first' = 1 /\ \A i \in 1..Len(written') : written'[i].number = i
  BY <1>2 DEF TailInv, log
<1>15. \E k \in 0..Len(written') : Stored' = 1..k
  BY <1>2, <1>7, <1>8 DEF log
<1>16. TailInv'
  BY <1>11, <1>12, <1>13, <1>14, <1>15 DEF TailInv
<1> QED
  BY <1>3, <1>7, <1>8, <1>16

\* Every other step stores nothing.
LEMMA WriteStep ==
  ASSUME Reliable, TypeOK, TailInv, Write
  PROVE  TailInv' /\ UNCHANGED Stored
<1>1. /\ Len(written) \in Nat /\ Len(written') = Len(written) + 1
      /\ \A i \in 1..Len(written) : written'[i] = written[i]
      /\ written'[Len(written')].number = Len(written')
  BY WriteType DEF TailInv
<1>2. UNCHANGED <<first, copies, cursor_id, pass>> /\ Len(written) < MaxRecords
  BY DEF Write, database
<1>3. copies[Len(written')] = 0
  BY <1>1, <1>2 DEF TailInv, TypeOK
<1>4. UNCHANGED Stored
  BY <1>1, <1>2, <1>3 DEF Stored
<1>5. (\A i \in 1..Len(written) : written[i].number = i)'
  BY <1>1 DEF TailInv
<1>6. (\E n \in 0..Len(written) : Stored = 1..n)'
  BY <1>1, <1>4 DEF TailInv
<1>7. (\A i \in DOMAIN copies : i > Len(written) => copies[i] = 0)'
  BY <1>1, <1>2 DEF TailInv, TypeOK
<1>8. \A k : StoredUpTo(k) => StoredUpTo(k)'
  BY <1>4 DEF StoredUpTo
<1>9. StoredUpTo(cursor_id)' /\ \A c \in Collectors : PassInv(pass[c])'
  BY <1>2, <1>4 DEF TailInv, PassInv, StoredUpTo
<1> QED
  BY <1>2, <1>4, <1>5, <1>6, <1>7, <1>9 DEF TailInv

LEMMA SetIdStep ==
  ASSUME Reliable, TypeOK, TailInv, NEW c \in Collectors, SetId(c)
  PROVE  StoredUpTo(cursor_id')
<1>1. PICK p \in Pass : /\ p = pass[c] /\ InRange(p) /\ p.step = "set_id"
                        /\ StoredUpTo(p.last_id) /\ StoredUpTo(p.high)
                        /\ cursor_id' = max_id(p)
  BY DEF TypeOK, SetId, TailInv, PassInv
<1>2. Len(written) \in Nat /\ p.high <= Len(written) /\ p.high \in Nat /\ p.low \in Nat
      /\ p.low >= 1
  BY <1>1, LenProperties DEF InRange, Pass, TypeOK
<1>3. \A i \in taken(p) : written[i].number = i /\ i <= p.high /\ i \in Nat
  BY <1>2 DEF taken, TailInv
<1>4. CASE max_id(p) = p.last_id
  BY <1>1, <1>4
<1>5. ASSUME NEW i \in taken(p), max_id(p) = written[i].number PROVE StoredUpTo(cursor_id')
  <2>1. cursor_id' = i /\ 1..i \subseteq 1..p.high
    BY <1>1, <1>2, <1>3, <1>5
  <2> QED
    BY <1>1, <2>1 DEF StoredUpTo
<1> QED
  BY <1>1, <1>4, <1>5, CursorType

LEMMA CollectStep ==
  ASSUME Reliable, TypeOK, TailInv, NEW c \in Collectors,
         Collect(c) \/ ReadError(c) \/ Abort(c), ~Insert(c)
  PROVE  TailInv' /\ UNCHANGED Stored
<1>1. PICK p \in Pass : p = pass[c] /\ InRange(p) /\ PassInv(p)
  BY DEF TypeOK, TailInv
<1>2. PassInv(Idle)
  BY DEF PassInv, Idle, StoredUpTo
<1>3. StoredUpTo(cursor_id) /\ StoredUpTo(p.last_id)
  BY <1>1 DEF TailInv, PassInv
<1>4. CASE LoadId(c)
  <2> DEFINE q == [p EXCEPT !.step = "load", !.last_id = cursor_id]
  <2>1. q.step = "load" /\ q.last_id = cursor_id
    BY DEF Pass
  <2>2. PassInv(q)
    BY <1>3, <2>1 DEF PassInv
  <2> QED
    BY <1>1, <1>3, <1>4, <2>2, PassStep DEF LoadId, database
<1>5. CASE LoadTs(c)
  <2> DEFINE q == [p EXCEPT !.step = "open", !.last_ts = cursor_ts]
  <2>1. q.step = "open" /\ q.last_id = p.last_id
    BY DEF Pass
  <2>2. PassInv(q)
    BY <1>3, <2>1 DEF PassInv
  <2> QED
    BY <1>1, <1>3, <1>5, <2>2, PassStep DEF LoadTs, database
<1>6. CASE OpenLog(c)
  <2> DEFINE q == [p EXCEPT !.step = "read", !.low = Len(written) + 1, !.high = Len(written)]
  <2>1. q.step = "read" /\ q.last_id = p.last_id
    BY DEF Pass
  <2>2. PassInv(q)
    BY <1>3, <2>1 DEF PassInv
  <2> QED
    BY <1>1, <1>3, <1>6, <2>2, PassStep DEF OpenLog, database
<1>7. CASE ReadBatch(c)
  <2>1. UNCHANGED <<log, copies, cursor_id>> /\ p.step = "read" /\ first = 1
    BY <1>1, <1>7 DEF ReadBatch, database, TailInv
  <2>2. ASSUME NEW bottom \in first..(p.low - 1), pass' = [pass EXCEPT ![c] = [p EXCEPT !.low = bottom]]
        PROVE  TailInv' /\ UNCHANGED Stored
    <3> DEFINE q == [p EXCEPT !.low = bottom]
    <3>1. q.step = "read" /\ q.last_id = p.last_id
      BY <2>1 DEF Pass
    <3>2. PassInv(q)
      BY <1>3, <3>1 DEF PassInv
    <3> QED
      BY <1>3, <2>1, <2>2, <3>2, PassStep
  <2>3. ASSUME NEW stop \in first..(p.low - 1), processed(p, stop),
               pass' = [pass EXCEPT ![c] = ReadDone([p EXCEPT !.low = stop + 1])]
        PROVE  TailInv' /\ UNCHANGED Stored
    <3> DEFINE q == [p EXCEPT !.low = stop + 1]
    <3>1. stop \in 1..Len(written) /\ stop \in Nat /\ stop + 1 \in 1..(MaxRecords + 1)
      <4>1. Len(written) \in Nat /\ Len(written) <= MaxRecords
        BY LenProperties DEF TypeOK
      <4>2. p.low \in Nat /\ p.high \in Nat /\ p.low <= p.high + 1 /\ p.high <= Len(written)
        BY <1>1 DEF InRange, Pass
      <4>3. stop \in Nat /\ stop >= 1 /\ stop <= p.low - 1
        BY <2>1, <4>2
      <4>4. stop <= Len(written)
        BY <4>1, <4>2, <4>3
      <4> QED
        BY <4>1, <4>3, <4>4
    <3>2. q \in Pass /\ q.last_id = p.last_id /\ q.low - 1 = stop
      <4>1. q \in Pass
        BY <3>1, LowType
      <4>2. q.last_id = p.last_id /\ q.low = stop + 1
        BY DEF Pass
      <4> QED
        BY <3>1, <4>1, <4>2
    <3>3. StoredUpTo(stop)
      <4>1. stop <= p.last_id
        BY <2>3, <3>1 DEF processed, TailInv
      <4>2. 1..stop \subseteq 1..p.last_id
        BY <3>1, <4>1 DEF Pass
      <4> QED
        BY <1>3, <4>2 DEF StoredUpTo
    <3>4. PassInv(ReadDone(q))
      <4> HIDE DEF q
      <4> QED
        BY <1>3, <3>2, <3>3, ReadDoneInv
    <3> QED
      BY <1>3, <2>1, <2>3, <3>4, PassStep
  <2>4. \A b \in first..(p.low - 1) : b..(p.low - 1) \subseteq first..(p.low - 1)
    BY <2>1 DEF Pass
  <2> QED
    BY <1>1, <1>7, <2>2, <2>3, <2>4 DEF ReadBatch
<1>8. CASE EndOfLog(c)
  <2>1. p.low = 1
    BY <1>1, <1>8 DEF EndOfLog, TailInv, Pass
  <2>2. StoredUpTo(p.low - 1)
    BY <2>1 DEF StoredUpTo
  <2>3. PassInv(ReadDone(p))
    BY <1>3, <2>2, ReadDoneInv
  <2> QED
    BY <1>1, <1>3, <1>8, <2>3, PassStep DEF EndOfLog, database
<1>9. ~CapReached(c)
  BY <1>1, BelowCap DEF CapReached
<1>10. ~ReadError(c)
  BY NoFault DEF ReadError
<1>11. CASE SetId(c)
  <2> DEFINE q == [p EXCEPT !.step = "set_ts"]
  <2>1. q.step = "set_ts" /\ q.last_id = p.last_id /\ q.high = p.high /\ p.step = "set_id"
    BY <1>1, <1>11 DEF Pass, SetId
  <2>2. PassInv(q)
    BY <1>1, <2>1 DEF PassInv
  <2> QED
    BY <1>1, <1>11, <2>2, SetIdStep, PassStep DEF SetId
<1>12. CASE SetTs(c)
  BY <1>2, <1>3, <1>12, PassStep DEF SetTs
<1>13. CASE Abort(c)
  BY <1>2, <1>3, <1>13, PassStep DEF Abort, database
<1> QED
  BY <1>4, <1>5, <1>6, <1>7, <1>8, <1>9, <1>10, <1>11, <1>12, <1>13 DEF Collect

LEMMA TailInit == Init => TailInv /\ Stored = {}
<1> SUFFICES ASSUME Init PROVE TailInv /\ Stored = {}
  OBVIOUS
<1>1. Len(written) = 0 /\ Stored = {} /\ Stored = 1..0
  BY DEF Init, Stored
<1>2. \A c \in Collectors : PassInv(pass[c])
  BY DEF Init, PassInv, Idle, StoredUpTo
<1> QED
  BY <1>1, <1>2 DEF Init, TailInv, StoredUpTo

\* Every step keeps the invariant and is a step of EventStore.
LEMMA TailNext ==
  ASSUME Reliable, TypeOK, TailInv, [Next]_vars
  PROVE  TailInv' /\ [ES!Next]_<<written, Stored>>
<1>1. CASE Write
  <2>1. ES!Write
    <3>1. DOMAIN written = 1..Len(written)
      BY LenProperties DEF TypeOK
    <3> QED
      BY <1>1, <3>1, WriteStep, WriteType DEF ES!Write
  <2> QED
    BY <1>1, <2>1, WriteStep DEF ES!Next
<1>2. CASE Clear
  BY <1>2, NoFault DEF Clear
<1>3. ASSUME NEW c \in Collectors, Insert(c)
      PROVE  TailInv' /\ [ES!Next]_<<written, Stored>>
  <2>1. UNCHANGED written
    BY <1>3 DEF Insert, log
  <2>2. ES!Store
    BY <1>3, <2>1, InsertStep DEF ES!Store
  <2> QED
    BY <1>3, <2>2, InsertStep DEF ES!Next
<1>4. ASSUME NEW c \in Collectors, Collect(c) \/ ReadError(c) \/ Abort(c), ~Insert(c)
      PROVE  TailInv' /\ [ES!Next]_<<written, Stored>>
  <2>1. UNCHANGED written
    BY <1>4 DEF Collect, LoadId, LoadTs, OpenLog, ReadBatch, EndOfLog, CapReached, SetId,
                SetTs, ReadError, Abort, log
  <2> QED
    BY <1>4, <2>1, CollectStep
<1>5. CASE UNCHANGED vars
  BY <1>5 DEF vars, log, database, TailInv, PassInv, StoredUpTo, Stored
<1> QED
  BY <1>1, <1>2, <1>3, <1>4, <1>5 DEF Next

\* Whatever passes overlap or are cut short between their commits, and however
\* timestamps repeat or go back, the table is a tail of the log without a gap.
THEOREM NoGap ==
  ASSUME Reliable
  PROVE  Spec => StoresPrefix
<1>1. Init => TypeOK /\ TailInv /\ ES!Init
  BY InitType, TailInit DEF Init, ES!Init
<1>2. TypeOK /\ TailInv /\ [Next]_vars
        => TypeOK' /\ TailInv' /\ [ES!Next]_<<written, Stored>>
  BY NextType, TailNext
<1> QED
  BY <1>1, <1>2, PTL DEF Spec, StoresPrefix, ES!Spec
-------------------------------------------------------------------------------
(* With one thread collecting, whatever is cleared, unreadable or cut short. *)
(* What a pass has loaded is then the cursor itself, until it moves it.      *)

Single == \A c, d \in Collectors : c = d

LoadedInv(p, id, ts) ==
  /\ p.step = "load" => p.last_id = id
  /\ p.step \in {"open", "read", "insert", "set_id"} => p.last_id = id /\ p.last_ts = ts
  /\ p.step = "set_ts" => id = max_id(p) /\ p.last_ts = ts

CursorInv == \A c \in Collectors : LoadedInv(pass[c], cursor_id, cursor_ts)

\* Records are written once: what a pass has taken does not change.
LEMMA TakenStays ==
  ASSUME TypeOK, NEW p \in Pass, InRange(p),
         \A i \in 1..Len(written) : written'[i] = written[i]
  PROVE  taken(p) \subseteq 1..Len(written) /\ max_id(p)' = max_id(p)
<1>1. taken(p) \subseteq 1..Len(written)
  <2>1. Len(written) \in Nat
    BY LenProperties DEF TypeOK
  <2> QED
    BY <2>1 DEF taken, Pass, InRange
<1>2. \A i \in taken(p) : written'[i].number = written[i].number
  BY <1>1
<1>3. PICK T : T = taken(p)
  OBVIOUS
<1>4. {written'[i].number : i \in T} = {written[i].number : i \in T}
  BY <1>2, <1>3
<1>5. max_id(p)' = Largest({p.last_id} \cup {written'[i].number : i \in T})
  BY <1>3 DEF max_id, taken
<1> QED
  BY <1>1, <1>3, <1>4, <1>5 DEF max_id

\* The only pass is the one that moves.
LEMMA SoloPass ==
  ASSUME Single, TypeOK, NEW c \in Collectors, NEW q, pass' = [pass EXCEPT ![c] = q]
  PROVE  \A d \in Collectors : pass'[d] = q
BY DEF Single, TypeOK

\* The records stay, and so does the cursor unless the pass moves it.
LEMMA StepKeeps ==
  ASSUME NEW c \in Collectors, Collect(c) \/ ReadError(c) \/ Abort(c)
  PROVE  /\ UNCHANGED log
         /\ UNCHANGED cursor_id \/ SetId(c)
         /\ UNCHANGED cursor_ts \/ SetTs(c)
BY DEF Collect, LoadId, LoadTs, OpenLog, ReadBatch, EndOfLog, CapReached, Insert, SetId,
       SetTs, ReadError, Abort, log, database

\* A pass that ends its read is idle, or inserts with what it had loaded.
LEMMA ReadDoneSteps ==
  ASSUME NEW p \in Pass
  PROVE  LET q == ReadDone(p) IN
         \/ q = Idle
         \/ /\ q.step = "insert" /\ taken(p) # {}
            /\ q.last_id = p.last_id /\ q.last_ts = p.last_ts
            /\ q.low = p.low /\ q.high = p.high
BY DEF ReadDone, Pass

LEMMA CursorNext ==
  ASSUME Single, TypeOK, CursorInv, [Next]_vars
  PROVE  CursorInv' /\ cursor_id' >= cursor_id /\ cursor_ts' >= cursor_ts
<1>0. cursor_id \in Nat /\ cursor_ts \in Nat
  BY DEF TypeOK
<1>1. ASSUME \A i \in 1..Len(written) : written'[i] = written[i],
             UNCHANGED <<cursor_id, cursor_ts, pass>>
      PROVE  CursorInv' /\ cursor_id' >= cursor_id /\ cursor_ts' >= cursor_ts
  <2>1. ASSUME NEW c \in Collectors PROVE LoadedInv(pass[c], cursor_id, cursor_ts)'
    <3>1. PICK p \in Pass : p = pass[c] /\ InRange(p) /\ LoadedInv(p, cursor_id, cursor_ts)
      BY DEF TypeOK, CursorInv
    <3>2. max_id(p)' = max_id(p)
      BY <1>1, <3>1, TakenStays
    <3> QED
      BY <1>1, <3>1, <3>2 DEF LoadedInv
  <2> QED
    BY <1>0, <1>1, <2>1 DEF CursorInv
<1>2. CASE Write
  <2>1. \A i \in 1..Len(written) : written'[i] = written[i]
    BY <1>2, WriteType
  <2> QED
    BY <1>1, <1>2, <2>1 DEF Write, database
<1>3. CASE Clear \/ UNCHANGED vars
  BY <1>1, <1>3 DEF Clear, vars, log, database
<1>4. ASSUME NEW c \in Collectors, Collect(c) \/ ReadError(c) \/ Abort(c)
      PROVE  CursorInv' /\ cursor_id' >= cursor_id /\ cursor_ts' >= cursor_ts
  <2>1. PICK p \in Pass : p = pass[c] /\ InRange(p) /\ LoadedInv(p, cursor_id, cursor_ts)
    BY DEF TypeOK, CursorInv
  <2>2. UNCHANGED written
    BY <1>4, StepKeeps DEF log
  <2>3. ASSUME NEW q, pass' = [pass EXCEPT ![c] = q], LoadedInv(q, cursor_id', cursor_ts') PROVE CursorInv'
    <3>1. \A d \in Collectors : pass'[d] = q
      BY <2>3, SoloPass
    <3>2. max_id(q)' = max_id(q)
      BY <2>2 DEF max_id, taken
    <3> QED
      BY <2>3, <3>1, <3>2 DEF CursorInv, LoadedInv
  <2>4. ASSUME NEW q, q = Idle PROVE LoadedInv(q, cursor_id', cursor_ts')
    BY <2>4 DEF LoadedInv, Idle
  <2>5. ASSUME NEW r \in Pass, UNCHANGED <<cursor_id, cursor_ts>>,
               r.last_id = cursor_id, r.last_ts = cursor_ts, NEW q, q = ReadDone(r)
        PROVE  LoadedInv(q, cursor_id', cursor_ts')
    <3>1. CASE q = Idle
      BY <2>4, <3>1
    <3>2. CASE q.step = "insert" /\ q.last_id = r.last_id /\ q.last_ts = r.last_ts
      BY <2>5, <3>2 DEF LoadedInv
    <3> QED
      BY <2>5, <3>1, <3>2, ReadDoneSteps
  <2>6. CASE LoadId(c)
    <3>0. PICK q : q = [p EXCEPT !.step = "load", !.last_id = cursor_id]
      OBVIOUS
    <3>1. q.step = "load" /\ q.last_id = cursor_id /\ UNCHANGED <<cursor_id, cursor_ts>>
      BY <2>6, <3>0 DEF Pass, LoadId, database
    <3>2. LoadedInv(q, cursor_id', cursor_ts')
      BY <3>1 DEF LoadedInv
    <3>3. pass' = [pass EXCEPT ![c] = q]
      BY <2>1, <2>6, <3>0 DEF LoadId
    <3>4. CursorInv'
      BY <2>3, <3>2, <3>3
    <3> QED
      BY <1>0, <3>1, <3>4
  <2>7. CASE LoadTs(c)
    <3>0. PICK q : q = [p EXCEPT !.step = "open", !.last_ts = cursor_ts]
      OBVIOUS
    <3>1. /\ q.step = "open" /\ q.last_id = cursor_id /\ q.last_ts = cursor_ts
          /\ UNCHANGED <<cursor_id, cursor_ts>>
      BY <2>1, <2>7, <3>0 DEF Pass, LoadTs, LoadedInv, database
    <3>2. LoadedInv(q, cursor_id', cursor_ts')
      BY <3>1 DEF LoadedInv
    <3>3. pass' = [pass EXCEPT ![c] = q]
      BY <2>1, <2>7, <3>0 DEF LoadTs
    <3>4. CursorInv'
      BY <2>3, <3>2, <3>3
    <3> QED
      BY <1>0, <3>1, <3>4
  <2>8. CASE OpenLog(c)
    <3>0. PICK q : q = [p EXCEPT !.step = "read", !.low = Len(written) + 1, !.high = Len(written)]
      OBVIOUS
    <3>1. /\ q.step = "read" /\ q.last_id = cursor_id /\ q.last_ts = cursor_ts
          /\ UNCHANGED <<cursor_id, cursor_ts>>
      BY <2>1, <2>8, <3>0 DEF Pass, OpenLog, LoadedInv, database
    <3>2. LoadedInv(q, cursor_id', cursor_ts')
      BY <3>1 DEF LoadedInv
    <3>3. pass' = [pass EXCEPT ![c] = q]
      BY <2>1, <2>8, <3>0 DEF OpenLog
    <3>4. CursorInv'
      BY <2>3, <3>2, <3>3
    <3> QED
      BY <1>0, <3>1, <3>4
  <2>9. CASE ReadBatch(c)
    <3>1. /\ p.step = "read" /\ p.last_id = cursor_id /\ p.last_ts = cursor_ts
          /\ UNCHANGED <<cursor_id, cursor_ts>>
      BY <2>1, <2>9 DEF ReadBatch, LoadedInv, database
    <3>2. first \in Int /\ p.low \in Int /\ \A low \in first..p.low : low \in 1..(MaxRecords + 1)
      BY DEF TypeOK, Pass
    <3>3. PICK low \in first..p.low :
            \/ pass' = [pass EXCEPT ![c] = [p EXCEPT !.low = low]]
            \/ pass' = [pass EXCEPT ![c] = ReadDone([p EXCEPT !.low = low])]
      <4>1. \A b \in first..(p.low - 1) : b \in first..p.low
        BY <3>2
      <4>2. \A b \in first..(p.low - 1) : \A s \in b..(p.low - 1) : s + 1 \in first..p.low
        BY <3>2
      <4> QED
        BY <2>1, <2>9, <4>1, <4>2 DEF ReadBatch
    <3>4. PICK r : r = [p EXCEPT !.low = low]
      OBVIOUS
    <3>5. r \in Pass /\ r.step = "read" /\ r.last_id = cursor_id /\ r.last_ts = cursor_ts
      BY <3>1, <3>2, <3>4 DEF Pass
    <3>6. LoadedInv(r, cursor_id', cursor_ts')
      BY <3>1, <3>5 DEF LoadedInv
    <3>7. PICK q : q = ReadDone(r)
      OBVIOUS
    <3>8. LoadedInv(q, cursor_id', cursor_ts')
      BY <2>5, <3>1, <3>5, <3>7
    <3>9. CursorInv'
      BY <2>3, <3>3, <3>4, <3>6, <3>7, <3>8
    <3> QED
      BY <1>0, <3>1, <3>9
  <2>10. CASE EndOfLog(c) \/ CapReached(c) \/ ReadError(c)
    <3>1. /\ p.last_id = cursor_id /\ p.last_ts = cursor_ts /\ UNCHANGED <<cursor_id, cursor_ts>>
          /\ pass' = [pass EXCEPT ![c] = ReadDone(p)]
      BY <2>1, <2>10 DEF EndOfLog, CapReached, ReadError, LoadedInv, database
    <3>2. PICK q : q = ReadDone(p)
      OBVIOUS
    <3>3. LoadedInv(q, cursor_id', cursor_ts')
      BY <2>5, <3>1, <3>2
    <3>4. CursorInv'
      BY <2>3, <3>1, <3>2, <3>3
    <3> QED
      BY <1>0, <3>1, <3>4
  <2>11. CASE Insert(c)
    <3>0. PICK q : q = [p EXCEPT !.step = "set_id"]
      OBVIOUS
    <3>1. /\ q.step = "set_id" /\ q.last_id = cursor_id /\ q.last_ts = cursor_ts
          /\ UNCHANGED <<cursor_id, cursor_ts>>
      BY <2>1, <2>11, <3>0 DEF Pass, Insert, LoadedInv
    <3>2. LoadedInv(q, cursor_id', cursor_ts')
      BY <3>1 DEF LoadedInv
    <3>3. pass' = [pass EXCEPT ![c] = q]
      BY <2>1, <2>11, <3>0 DEF Insert
    <3>4. CursorInv'
      BY <2>3, <3>2, <3>3
    <3> QED
      BY <1>0, <3>1, <3>4
  <2>12. CASE SetId(c)
    <3>0. PICK q : q = [p EXCEPT !.step = "set_ts"]
      OBVIOUS
    <3>1. /\ q.step = "set_ts" /\ q.last_id = p.last_id /\ q.last_ts = cursor_ts
          /\ q.low = p.low /\ q.high = p.high /\ p.last_id = cursor_id
          /\ cursor_id' = max_id(p) /\ UNCHANGED cursor_ts
      BY <2>1, <2>12, <3>0 DEF Pass, SetId, LoadedInv
    <3>2. max_id(q) = max_id(p)
      BY <3>1 DEF max_id, taken
    <3>3. LoadedInv(q, cursor_id', cursor_ts')
      BY <3>1, <3>2 DEF LoadedInv
    <3>4. max_id(p) >= p.last_id
      BY <2>1, CursorType
    <3>5. pass' = [pass EXCEPT ![c] = q]
      BY <2>1, <2>12, <3>0 DEF SetId
    <3>6. CursorInv'
      BY <2>3, <3>3, <3>5
    <3> QED
      BY <1>0, <3>1, <3>4, <3>6
  <2>13. CASE SetTs(c)
    <3>1. p.last_ts = cursor_ts /\ cursor_ts' = max_ts(p) /\ UNCHANGED cursor_id
      BY <2>1, <2>13 DEF SetTs, LoadedInv
    <3>2. max_ts(p) >= p.last_ts
      BY <2>1, CursorType
    <3>3. PICK q : q = Idle
      OBVIOUS
    <3>4. pass' = [pass EXCEPT ![c] = q] /\ LoadedInv(q, cursor_id', cursor_ts')
      BY <2>4, <2>13, <3>3 DEF SetTs
    <3>5. CursorInv'
      BY <2>3, <3>4
    <3> QED
      BY <1>0, <3>1, <3>2, <3>5
  <2>14. CASE Abort(c)
    <3>1. PICK q : q = Idle
      OBVIOUS
    <3>2. pass' = [pass EXCEPT ![c] = q] /\ UNCHANGED <<cursor_id, cursor_ts>>
      BY <2>14, <3>1 DEF Abort, database
    <3>3. LoadedInv(q, cursor_id', cursor_ts')
      BY <2>4, <3>1
    <3>4. CursorInv'
      BY <2>3, <3>2, <3>3
    <3> QED
      BY <1>0, <3>2, <3>4
  <2> QED
    BY <1>4, <2>6, <2>7, <2>8, <2>9, <2>10, <2>11, <2>12, <2>13, <2>14 DEF Collect
<1> QED
  BY <1>2, <1>3, <1>4 DEF Next

LEMMA CursorInit == Init => CursorInv
BY DEF Init, CursorInv, LoadedInv, Idle

\* With one thread collecting, the cursor never moves back.
THEOREM NeverBack ==
  ASSUME Single
  PROVE  Spec => CursorAdvances
<1>1. Init => TypeOK /\ CursorInv
  BY InitType, CursorInit
<1>2. TypeOK /\ CursorInv /\ [Next]_vars
        => /\ TypeOK' /\ CursorInv'
           /\ [cursor_id' >= cursor_id /\ cursor_ts' >= cursor_ts]_vars
  BY NextType, CursorNext
<1> QED
  BY <1>1, <1>2, PTL DEF Spec, CursorAdvances

\* A pass takes nothing that is behind the cursor; what was stored once more
\* than passes were cut short is behind it, or about to be.
FreshInv(p) == p.step \in {"read", "insert"} => \A i \in taken(p) : ~processed(p, i)

Committing(p) == p.step \in {"set_id", "set_ts"}

OnceInv ==
  /\ \A c \in Collectors : FreshInv(pass[c])
  /\ \A i \in DOMAIN copies : i > Len(written) => copies[i] = 0
  /\ \A i \in 1..Len(written) :
       \/ copies[i] <= faults.abort
       \/ /\ copies[i] <= 1 + faults.abort
          /\ Behind(i) \/ \E c \in Collectors : Committing(pass[c]) /\ i \in taken(pass[c])

\* The number of passes cut short grows with an abort only.
LEMMA AbortCount ==
  ASSUME TypeOK
  PROVE  /\ faults.abort \in Nat
         /\ \A kind \in {"read", "row", "clear"} : Fault(kind) => faults'.abort = faults.abort
         /\ Fault("abort") => faults'.abort = faults.abort + 1
<1>1. DOMAIN MaxFaults = {"abort", "read", "row", "clear"}
  BY DEF MaxFaults
<1> QED
  BY <1>1 DEF TypeOK, Fault

\* What has been taken is behind the cursor that the pass computes.
LEMMA TakenBehind ==
  ASSUME TypeOK, NEW p \in Pass, InRange(p), NEW i \in taken(p)
  PROVE  written[i].number <= max_id(p) /\ written[i].timestamp <= max_ts(p)
<1>1. \A j \in taken(p) : j \in 1..Len(written)
  BY LenProperties DEF taken, Pass, InRange, TypeOK
<1>2. \A j \in taken(p) : /\ written[j].number \in 1..MaxRecords
                          /\ written[j].timestamp \in 1..MaxTime
  BY <1>1, RecordType
<1> DEFINE ids == {p.last_id} \cup {written[j].number : j \in taken(p)}
           times == {p.last_ts} \cup {written[j].timestamp : j \in taken(p)}
<1>3. ids \subseteq 0..MaxRecords /\ written[i].number \in ids
  BY <1>2 DEF Pass
<1>4. times \subseteq 0..MaxTime /\ written[i].timestamp \in times
  BY <1>2 DEF Pass
<1>5. max_id(p) = Largest(ids) /\ max_ts(p) = Largest(times)
  BY DEF max_id, max_ts
<1> HIDE DEF ids, times
<1>6. written[i].number <= Largest(ids)
  BY <1>3, LargestExists
<1>7. written[i].timestamp <= Largest(times)
  BY <1>4, LargestExists
<1> QED
  BY <1>5, <1>6, <1>7

\* No step makes a pass take what it has to leave.
LEMMA FreshStep ==
  ASSUME Single, TypeOK, NEW c \in Collectors, FreshInv(pass[c]),
         Collect(c) \/ ReadError(c) \/ Abort(c)
  PROVE  \A d \in Collectors : FreshInv(pass'[d])
<1>1. PICK p \in Pass : p = pass[c] /\ InRange(p) /\ FreshInv(p)
  BY DEF TypeOK
<1>2. ASSUME NEW q, pass' = [pass EXCEPT ![c] = q], FreshInv(q)
      PROVE  \A d \in Collectors : FreshInv(pass'[d])
  BY <1>2, SoloPass
<1>3. FreshInv(Idle)
  BY DEF FreshInv, Idle
<1>4. ASSUME NEW r \in Pass, FreshInv(r), r.step = "read" PROVE FreshInv(ReadDone(r))
  <2>1. PICK q : q = ReadDone(r)
    OBVIOUS
  <2>2. CASE q = Idle
    BY <1>3, <2>1, <2>2
  <2>3. CASE /\ q.last_id = r.last_id /\ q.last_ts = r.last_ts
             /\ q.low = r.low /\ q.high = r.high
    <3>1. taken(q) = taken(r) /\ \A i : processed(q, i) <=> processed(r, i)
      BY <2>3 DEF taken, processed
    <3> QED
      BY <1>4, <2>1, <3>1 DEF FreshInv
  <2> QED
    BY <2>1, <2>2, <2>3, ReadDoneSteps
<1>5. CASE LoadId(c) \/ LoadTs(c) \/ Insert(c) \/ SetId(c)
  <2>1. PICK q : pass' = [pass EXCEPT ![c] = q] /\ q.step \in {"load", "open", "set_id", "set_ts"}
    <3>1. /\ [p EXCEPT !.step = "load", !.last_id = cursor_id].step = "load"
          /\ [p EXCEPT !.step = "open", !.last_ts = cursor_ts].step = "open"
          /\ [p EXCEPT !.step = "set_id"].step = "set_id"
          /\ [p EXCEPT !.step = "set_ts"].step = "set_ts"
      BY DEF Pass
    <3> QED
      BY <1>1, <1>5, <3>1 DEF LoadId, LoadTs, Insert, SetId
  <2>2. FreshInv(q)
    BY <2>1 DEF FreshInv
  <2> QED
    BY <1>2, <2>1, <2>2
<1>6. CASE OpenLog(c)
  <2>1. PICK q : q = [p EXCEPT !.step = "read", !.low = Len(written) + 1, !.high = Len(written)]
    OBVIOUS
  <2>2. Len(written) \in Nat
    BY LenProperties DEF TypeOK
  <2>3. taken(q) = {}
    BY <2>1, <2>2, SMTT(30) DEF taken, Pass
  <2>4. FreshInv(q) /\ pass' = [pass EXCEPT ![c] = q]
    BY <1>1, <1>6, <2>1, <2>3 DEF FreshInv, OpenLog
  <2> QED
    BY <1>2, <2>4
<1>7. CASE ReadBatch(c)
  <2>1. /\ first \in Nat /\ first >= 1 /\ p.step = "read"
        /\ p.low \in Nat /\ p.high \in Nat /\ p.low <= MaxRecords + 1
    <3>1. Len(written) \in Nat
      BY LenProperties DEF TypeOK
    <3>2. first \in Nat /\ first >= 1
      BY <3>1 DEF TypeOK
    <3>3. p.low \in Nat /\ p.high \in Nat /\ p.low <= MaxRecords + 1
      BY DEF Pass
    <3> QED
      BY <1>1, <1>7, <3>2, <3>3 DEF ReadBatch
  <2>2. PICK low \in first..p.low :
          /\ \A i \in low..(p.low - 1) : ~processed(p, i)
          /\ \/ pass' = [pass EXCEPT ![c] = [p EXCEPT !.low = low]]
             \/ pass' = [pass EXCEPT ![c] = ReadDone([p EXCEPT !.low = low])]
    <3>1. \A b \in first..(p.low - 1) : b \in first..p.low
      BY <2>1
    <3>2. \A b \in first..(p.low - 1) : \A s \in b..(p.low - 1) : s + 1 \in first..p.low
      BY <2>1
    <3> QED
      BY <1>1, <1>7, <3>1, <3>2 DEF ReadBatch
  <2>3. PICK r \in Pass : r = [p EXCEPT !.low = low]
    <3>1. low \in 1..(MaxRecords + 1)
      BY <2>1
    <3> QED
      BY <3>1, LowType
  <2>4. /\ r.step = "read" /\ r.low = low /\ r.high = p.high
        /\ r.last_id = p.last_id /\ r.last_ts = p.last_ts
    BY <2>1, <2>3 DEF Pass
  <2>5. \A i \in taken(r) : i \in taken(p) \/ i \in low..(p.low - 1)
    BY <2>1, <2>4 DEF taken
  <2>6. \A i : processed(r, i) <=> processed(p, i)
    BY <2>4 DEF processed
  <2>7. FreshInv(r)
    BY <1>1, <2>1, <2>2, <2>5, <2>6 DEF FreshInv
  <2>8. FreshInv(ReadDone(r))
    BY <1>4, <2>4, <2>7
  <2> QED
    BY <1>2, <2>2, <2>3, <2>7, <2>8
<1>8. CASE EndOfLog(c) \/ CapReached(c) \/ ReadError(c)
  <2>1. p.step = "read" /\ pass' = [pass EXCEPT ![c] = ReadDone(p)]
    BY <1>1, <1>8 DEF EndOfLog, CapReached, ReadError
  <2> QED
    BY <1>1, <1>2, <1>4, <2>1
<1>9. CASE SetTs(c) \/ Abort(c)
  BY <1>2, <1>3, <1>9 DEF SetTs, Abort
<1> QED
  BY <1>5, <1>6, <1>7, <1>8, <1>9 DEF Collect

\* Which records a step stores, and when.
LEMMA StoreStep ==
  ASSUME TypeOK, NEW c \in Collectors, Collect(c) \/ ReadError(c) \/ Abort(c)
  PROVE  \/ /\ Insert(c)
            /\ \A i \in DOMAIN copies : /\ copies'[i] \in {copies[i], copies[i] + 1}
                                        /\ copies'[i] # copies[i] => i \in taken(pass[c])
            /\ DOMAIN copies' = DOMAIN copies
         \/ ~Insert(c) /\ UNCHANGED copies
<1>1. CASE Insert(c)
  BY <1>1 DEF Insert, TypeOK
<1>2. CASE ~Insert(c)
  BY <1>2 DEF Collect, LoadId, LoadTs, OpenLog, ReadBatch, EndOfLog, CapReached, SetId,
              SetTs, ReadError, Abort, database
<1> QED
  BY <1>1, <1>2

LEMMA OnceNext ==
  ASSUME Single, TypeOK, CursorInv, OnceInv, [Next]_vars
  PROVE  OnceInv'
<1>0. PICK a \in Nat : a = faults.abort
  BY AbortCount
<1>00. /\ DOMAIN copies = 1..MaxRecords /\ \A i \in DOMAIN copies : copies[i] \in Nat
       /\ Len(written) \in Nat /\ Len(written) <= MaxRecords
  BY LenProperties DEF TypeOK
<1>1. ASSUME \A i \in 1..Len(written) : written'[i] = written[i],
             Len(written') \in Nat, Len(written') >= Len(written),
             faults'.abort = faults.abort, UNCHANGED <<copies, cursor_id, cursor_ts, pass>>
      PROVE  OnceInv'
  <2>1. ASSUME NEW c \in Collectors PROVE FreshInv(pass[c])'
    <3>1. PICK p \in Pass : p = pass[c] /\ InRange(p) /\ FreshInv(p)
      BY DEF TypeOK, OnceInv
    <3>2. \A i \in taken(p) : processed(p, i)' <=> processed(p, i)
      BY <1>1, <3>1, TakenStays DEF processed
    <3> QED
      BY <1>1, <3>1, <3>2 DEF FreshInv, taken, processed
  <2>2. \A i \in DOMAIN copies' : i > Len(written') => copies'[i] = 0
    BY <1>00, <1>1 DEF OnceInv
  <2>3. \A i \in 1..Len(written) : Behind(i)' <=> Behind(i)
    BY <1>1 DEF Behind
  <2>4. ASSUME NEW i \in 1..Len(written') PROVE i \in 1..Len(written) \/ copies'[i] <= a
    <3>1. Len(written') <= MaxRecords
      BY NextType DEF TypeOK
    <3>2. i \in Nat /\ i >= 1 /\ i \in DOMAIN copies
      BY <1>00, <1>1, <2>4, <3>1
    <3>3. copies[i] = 0 \/ i <= Len(written)
      BY <1>00, <3>2 DEF OnceInv
    <3> QED
      BY <1>00, <1>0, <1>1, <3>2, <3>3
  <2> QED
    BY <1>0, <1>1, <2>1, <2>2, <2>3, <2>4 DEF OnceInv, Committing, taken
<1>2. CASE Write
  BY <1>1, <1>2, WriteType DEF Write, database
<1>3. CASE Clear \/ UNCHANGED vars
  <2>1. UNCHANGED <<written, copies, cursor_id, cursor_ts, pass>> /\ faults'.abort = faults.abort
    BY <1>3, AbortCount DEF Clear, vars, log, database
  <2> QED
    BY <1>00, <1>1, <2>1
<1>4. ASSUME NEW c \in Collectors, Collect(c) \/ ReadError(c) \/ Abort(c)
      PROVE  OnceInv'
  <2>1. PICK p \in Pass : /\ p = pass[c] /\ InRange(p) /\ FreshInv(p)
                          /\ LoadedInv(p, cursor_id, cursor_ts)
    BY DEF TypeOK, OnceInv, CursorInv
  <2>2. UNCHANGED written
    BY <1>4, StepKeeps DEF log
  <2>3. \A d \in Collectors : FreshInv(pass[d])'
    <3>1. \A d \in Collectors : FreshInv(pass'[d])
      BY <1>4, <2>1, FreshStep
    <3> QED
      BY <2>2, <3>1 DEF FreshInv, taken, processed
  <2>4. \A i \in DOMAIN copies' : i > Len(written') => copies'[i] = 0
    <3>1. \A i \in taken(p) : i <= Len(written)
      BY <1>00, <2>1 DEF taken, Pass, InRange
    <3> QED
      BY <1>4, <1>00, <2>1, <2>2, <3>1, StoreStep DEF OnceInv
  <2>5. \A i \in 1..Len(written) : Behind(i) => Behind(i)'
    <3>1. cursor_id' >= cursor_id /\ cursor_ts' >= cursor_ts
      BY CursorNext
    <3>2. cursor_id' \in Int /\ cursor_ts' \in Int /\ cursor_id \in Int /\ cursor_ts \in Int
      BY NextType, SMTT(30) DEF TypeOK
    <3>3. \A i \in 1..Len(written) : written[i].number \in Int /\ written[i].timestamp \in Int
      BY RecordType
    <3> QED
      BY <2>2, <3>1, <3>2, <3>3 DEF Behind
  <2>6. ASSUME NEW i \in 1..Len(written)
        PROVE  \/ copies'[i] <= faults'.abort
               \/ /\ copies'[i] <= 1 + faults'.abort
                  /\ \/ Behind(i)'
                     \/ \E d \in Collectors : Committing(pass'[d]) /\ i \in taken(pass'[d])
    <3>0. i \in DOMAIN copies /\ copies[i] \in Nat
      BY <1>00
    <3>1. \/ copies[i] <= a
          \/ copies[i] <= 1 + a /\ (Behind(i) \/ (Committing(p) /\ i \in taken(p)))
      <4>1. \A d \in Collectors : pass[d] = p
        BY <2>1 DEF Single
      <4>2. ASSUME NEW d \in Collectors, Committing(pass[d]), i \in taken(pass[d])
            PROVE  Committing(p) /\ i \in taken(p)
        BY <4>1, <4>2
      <4>3. \/ copies[i] <= a
            \/ copies[i] <= 1 + a /\ Behind(i)
            \/ /\ copies[i] <= 1 + a
               /\ \E d \in Collectors : Committing(pass[d]) /\ i \in taken(pass[d])
        BY <1>0, <2>6 DEF OnceInv
      <4> QED
        BY <4>2, <4>3
    <3>2. CASE Abort(c)
      <4>1. faults'.abort = a + 1 /\ copies'[i] = copies[i]
        BY <1>0, <3>2, AbortCount DEF Abort, database
      <4> QED
        BY <1>0, <3>0, <3>1, <4>1
    <3>3. CASE Insert(c)
      <4>1. p.step = "insert" /\ faults'.abort = a
        BY <1>0, <2>1, <3>3, AbortCount DEF Insert
      <4>2. PICK q : q = [p EXCEPT !.step = "set_id"]
        OBVIOUS
      <4>3. Committing(q) /\ taken(q) = taken(p)
        BY <4>2 DEF Committing, taken, Pass
      <4>4. pass' = [pass EXCEPT ![c] = q]
        BY <2>1, <3>3, <4>2 DEF Insert
      <4>5. pass'[c] = q
        BY <4>4, PassUpdate
      <4>6. ~Committing(p) /\ (i \in taken(p) => ~Behind(i))
        BY <2>1, <4>1 DEF Committing, FreshInv, LoadedInv, processed, Behind
      <4>7. CASE copies'[i] # copies[i]
        <5>1. i \in taken(p) /\ copies'[i] = copies[i] + 1
          BY <1>4, <2>1, <3>0, <3>3, <4>7, StoreStep
        <5>2. copies[i] <= a
          BY <3>1, <4>6, <5>1
        <5>3. copies'[i] <= 1 + a
          BY <3>0, <5>1, <5>2
        <5> QED
          BY <4>1, <4>3, <4>5, <5>1, <5>3
      <4>8. CASE copies'[i] = copies[i]
        BY <2>5, <3>1, <4>1, <4>6, <4>8
      <4> QED
        BY <4>7, <4>8
    <3>4. CASE SetId(c)
      <4>1. UNCHANGED <<copies, faults>>
        BY <3>4 DEF SetId
      <4>2. PICK q : q = [p EXCEPT !.step = "set_ts"]
        OBVIOUS
      <4>3. Committing(q) /\ taken(q) = taken(p)
        BY <4>2 DEF Committing, taken, Pass
      <4>4. pass' = [pass EXCEPT ![c] = q]
        BY <2>1, <3>4, <4>2 DEF SetId
      <4>5. pass'[c] = q
        BY <4>4, PassUpdate
      <4> QED
        BY <1>0, <2>5, <3>1, <4>1, <4>3, <4>5
    <3>5. CASE SetTs(c)
      <4>1. UNCHANGED <<copies, faults, cursor_id>> /\ p.step = "set_ts" /\ cursor_ts' = max_ts(p)
        BY <2>1, <3>5 DEF SetTs
      <4>2. cursor_id = max_id(p)
        BY <2>1, <4>1 DEF LoadedInv
      <4>3. i \in taken(p) => Behind(i)'
        BY <2>1, <2>2, <4>1, <4>2, TakenBehind DEF Behind
      <4> QED
        BY <1>0, <2>5, <3>1, <4>1, <4>3
    <3>6. CASE ~(Abort(c) \/ Insert(c) \/ SetId(c) \/ SetTs(c))
      <4>1. ~Committing(p) /\ UNCHANGED copies /\ faults'.abort = a
        BY <1>0, <1>4, <2>1, <3>6, AbortCount
           DEF Collect, LoadId, LoadTs, OpenLog, ReadBatch, EndOfLog, CapReached, ReadError,
               Committing, database
      <4> QED
        BY <1>0, <2>5, <3>1, <4>1
    <3> QED
      BY <3>2, <3>3, <3>4, <3>5, <3>6
  <2> QED
    BY <2>2, <2>3, <2>4, <2>6 DEF OnceInv, taken
<1> QED
  BY <1>2, <1>3, <1>4 DEF Next

LEMMA OnceInit == Init => OnceInv
<1> SUFFICES ASSUME Init PROVE OnceInv
  OBVIOUS
<1>1. Len(written) = 0
  BY DEF Init
<1> QED
  BY <1>1 DEF Init, OnceInv, FreshInv, Idle

\* With one thread collecting, no pass stores again what a completed one has.
THEOREM OncePerAttempt ==
  ASSUME Single
  PROVE  Spec => []StoredOncePerAttempt
<1>1. Init => TypeOK /\ CursorInv /\ OnceInv
  BY InitType, CursorInit, OnceInit
<1>2. TypeOK /\ CursorInv /\ OnceInv /\ [Next]_vars => TypeOK' /\ CursorInv' /\ OnceInv'
  BY NextType, CursorNext, OnceNext
<1>3. TypeOK /\ OnceInv => StoredOncePerAttempt
  <2> SUFFICES ASSUME TypeOK, OnceInv, NEW i \in DOMAIN copies PROVE copies[i] <= 1 + faults.abort
    BY DEF StoredOncePerAttempt
  <2>1. faults.abort \in Nat
    BY AbortCount
  <2>2. copies[i] \in Nat /\ i \in 1..MaxRecords
    BY DEF TypeOK
  <2>3. Len(written) \in Nat
    BY LenProperties DEF TypeOK
  <2> QED
    BY <2>1, <2>2, <2>3, BoundsAssumption DEF OnceInv
<1> QED
  BY <1>1, <1>2, <1>3, PTL DEF Spec
-------------------------------------------------------------------------------
(* With one thread collecting and timestamps that do not go back: what the *)
(* cursor has passed is stored or skipped, except for records that repeat  *)
(* the second of an older one after a clear.                               *)

covered == Stored \cup skipped

\* The log grows at its end, in time and, from the last clear on, in numbers.
LogInv ==
  /\ \A i, j \in 1..Len(written) : i <= j => written[i].timestamp <= written[j].timestamp
  /\ \A i \in first..Len(written) : written[i].number = i - first + 1
  /\ \A i \in 1..Len(written) : written[i].number <= i
  /\ faults.clear = 0 => first = 1

\* The cursor comes from covered records up to position n.
Attained(n, id, ts, C) ==
  id <= n /\ (ts = 0 \/ \E k \in C : k <= n /\ written[k].timestamp = ts)

\* What a pass has taken lies at and below p.high; what is left below was
\* processed before, or is given up.
SweptInv(p, id, ts, C) ==
  /\ p.step \in {"read", "insert"} \/ Committing(p) => Attained(p.high, id, ts, C)
  /\ p.step = "insert" \/ Committing(p) =>
       \A i \in first..(p.low - 1) : processed(p, i) \/ i \in C
  /\ Committing(p) => taken(p) \subseteq C

Explained(i, C) ==
  i \in C \/ (faults.clear > 0 /\ \E j \in C : j < i /\ written[j].timestamp = written[i].timestamp)

LossInv ==
  /\ LogInv
  /\ Attained(Len(written), cursor_id, cursor_ts, covered)
  /\ \A c \in Collectors : SweptInv(pass[c], cursor_id, cursor_ts, covered)
  /\ \A i \in first..Len(written) : Behind(i) => Explained(i, covered)

LEMMA CoveredType ==
  ASSUME TypeOK
  PROVE  covered \subseteq 1..Len(written)
BY DEF covered, Stored, TypeOK

LEMMA ClearCount ==
  ASSUME TypeOK
  PROVE  /\ faults.clear \in Nat
         /\ \A kind \in {"read", "row", "abort"} : Fault(kind) => faults'.clear = faults.clear
         /\ Fault("clear") => faults'.clear = faults.clear + 1
<1>1. DOMAIN MaxFaults = {"abort", "read", "row", "clear"}
  BY DEF MaxFaults
<1> QED
  BY <1>1 DEF TypeOK, Fault

LEMMA ClearStays ==
  ASSUME TypeOK, NEW c \in Collectors, Collect(c) \/ ReadError(c) \/ Abort(c)
  PROVE  faults'.clear = faults.clear
BY ClearCount DEF Collect, LoadId, LoadTs, OpenLog, ReadBatch, EndOfLog, CapReached, Insert,
                  SetId, SetTs, ReadError, Abort

LEMMA CoveredGrows ==
  ASSUME TypeOK, NEW c \in Collectors, Collect(c) \/ ReadError(c) \/ Abort(c)
  PROVE  covered \subseteq covered' /\ skipped \subseteq skipped'
<1>1. skipped \subseteq skipped'
  BY DEF Collect, LoadId, LoadTs, OpenLog, ReadBatch, EndOfLog, CapReached, Insert,
         SetId, SetTs, ReadError, Abort
<1>2. UNCHANGED written
  BY StepKeeps DEF log
<1>3. \A i \in DOMAIN copies : copies[i] \in Nat /\ (copies[i] > 0 => copies'[i] > 0)
  <2>1. \A i \in DOMAIN copies : copies[i] \in Nat
    BY DEF TypeOK
  <2> QED
    BY <2>1, StoreStep
<1>4. 1..Len(written) \subseteq DOMAIN copies
  <2>1. Len(written) \in Nat /\ Len(written) <= MaxRecords /\ DOMAIN copies = 1..MaxRecords
    BY LenProperties DEF TypeOK
  <2> QED
    BY <2>1
<1>5. Stored \subseteq Stored'
  BY <1>2, <1>3, <1>4 DEF Stored
<1> QED
  BY <1>1, <1>5 DEF covered

\* The clock of the log does not go back, and the numbers count from the clear.
LEMMA LogNext ==
  ASSUME MaxSetback = 0, TypeOK, LogInv, [Next]_vars
  PROVE  LogInv'
<1>0. Len(written) \in Nat /\ first \in Nat /\ first >= 1 /\ first <= Len(written) + 1
  <2>1. Len(written) \in Nat
    BY LenProperties DEF TypeOK
  <2> QED
    BY <2>1 DEF TypeOK
<1>1. CASE Write
  <2> DEFINE n == Len(written) + 1
  <2>1. /\ Len(written') = n /\ \A i \in 1..Len(written) : written'[i] = written[i]
        /\ written'[n].number = Len(written) + 2 - first
    BY <1>1, WriteType
  <2>2. UNCHANGED <<first, faults>>
    BY <1>1 DEF Write
  <2>3. written'[n].timestamp \in Nat /\ written'[n].timestamp >= Latest /\ Latest \in Nat
    <3>1. Latest \in Nat
      <4>1. CASE written = <<>>
        BY <4>1 DEF Latest
      <4>2. CASE written # <<>>
        <5>1. Len(written) \in 1..Len(written)
          BY <1>0, <4>2, EmptySeq DEF TypeOK
        <5>2. written[Len(written)].timestamp \in 1..MaxTime
          BY <5>1, RecordType
        <5> QED
          BY <4>2, <5>2 DEF Latest
      <4> QED
        BY <4>1, <4>2
    <3>2. PICK t \in 1..MaxTime :
            /\ t >= Latest - MaxSetback
            /\ written' = Append(written, [number |-> Len(written) + 2 - first, timestamp |-> t])
      BY <1>1 DEF Write
    <3>3. written'[n].timestamp = t
      BY <3>2, AppendProperties DEF TypeOK
    <3> QED
      BY <3>1, <3>2, <3>3
  <2>4. \A i \in 1..Len(written) : written[i].timestamp <= Latest /\ written[i].timestamp \in Nat
    <3>1. ASSUME NEW i \in 1..Len(written)
          PROVE  written[i].timestamp <= Latest /\ written[i].timestamp \in Nat
      <4>1. Len(written) \in 1..Len(written) /\ written # <<>> /\ i <= Len(written)
        BY <1>0
      <4>2. written[i].timestamp <= written[Len(written)].timestamp
        BY <4>1 DEF LogInv
      <4> QED
        BY <4>1, <4>2, RecordType DEF Latest
    <3> QED
      BY <3>1
  <2> HIDE DEF n
  <2>5. n = Len(written) + 1
    BY DEF n
  <2>6. ASSUME NEW i \in 1..n, NEW j \in 1..n, i <= j
        PROVE  written'[i].timestamp <= written'[j].timestamp
    <3>1. CASE j \in 1..Len(written)
      BY <1>0, <2>1, <2>5, <2>6, <3>1 DEF LogInv
    <3>2. CASE j = n /\ i \in 1..Len(written)
      BY <2>1, <2>3, <2>4, <3>2
    <3>3. CASE i = n /\ j = n
      BY <2>3, <3>3
    <3> QED
      BY <1>0, <2>5, <2>6, <3>1, <3>2, <3>3
  <2>7. ASSUME NEW i \in first..n PROVE written'[i].number = i - first + 1
    BY <1>0, <2>1, <2>5 DEF LogInv
  <2>8. ASSUME NEW i \in 1..n PROVE written'[i].number <= i
    BY <1>0, <2>1, <2>5 DEF LogInv
  <2> QED
    BY <2>1, <2>2, <2>6, <2>7, <2>8 DEF LogInv
<1>2. CASE Clear
  <2>1. first' = Len(written) + 1 /\ UNCHANGED written /\ faults'.clear # 0
    BY <1>2, ClearCount DEF Clear
  <2> QED
    BY <1>0, <2>1 DEF LogInv
<1>3. ASSUME NEW c \in Collectors, Collect(c) \/ ReadError(c) \/ Abort(c) PROVE LogInv'
  BY <1>3, ClearStays, StepKeeps DEF LogInv, log
<1>4. CASE UNCHANGED vars
  BY <1>4 DEF vars, log, LogInv
<1> QED
  BY <1>1, <1>2, <1>3, <1>4 DEF Next

\* Behind the cursor but above what the pass has taken: there was a clear.
LEMMA LaterEpoch ==
  ASSUME TypeOK, LogInv, NEW i \in first..Len(written), NEW n \in Nat, i > n,
         NEW id \in Nat, id <= n, written[i].number <= id
  PROVE  faults.clear > 0
<1>1. first \in Nat /\ first >= 1 /\ Len(written) \in Nat
  <2>1. Len(written) \in Nat
    BY LenProperties DEF TypeOK
  <2> QED
    BY <2>1 DEF TypeOK
<1>2. written[i].number = i - first + 1
  BY DEF LogInv
<1>3. first # 1
  BY <1>1, <1>2
<1>4. faults.clear \in Nat /\ faults.clear # 0
  BY <1>3, ClearCount DEF LogInv
<1> QED
  BY <1>4

\* A record at or below the cursor in time repeats the second of an older one.
LEMMA SameSecond ==
  ASSUME TypeOK, LogInv, NEW i \in 1..Len(written), NEW n \in Nat, i > n, NEW ts \in Nat,
         written[i].timestamp <= ts,
         \E k \in covered : k <= n /\ written[k].timestamp = ts
  PROVE  \E j \in covered : j < i /\ written[j].timestamp = written[i].timestamp
<1>1. PICK k \in covered : k <= n /\ written[k].timestamp = ts
  OBVIOUS
<1>2. k \in 1..Len(written) /\ Len(written) \in Nat
  BY CoveredType, LenProperties DEF TypeOK
<1>3. k < i
  BY <1>1, <1>2
<1>4. written[k].timestamp <= written[i].timestamp
  BY <1>2, <1>3 DEF LogInv
<1>5. written[i].timestamp \in Nat
  BY RecordType
<1> QED
  BY <1>1, <1>3, <1>4, <1>5

\* The ids that a pass saves come from below its highest record, the times too.
LEMMA SavedBelow ==
  ASSUME TypeOK, LogInv, NEW p \in Pass, InRange(p), p.last_id <= p.high
  PROVE  /\ max_id(p) \in Nat /\ max_id(p) <= p.high
         /\ max_ts(p) = p.last_ts \/ \E j \in taken(p) : written[j].timestamp = max_ts(p)
<1>1. \A j \in taken(p) : j \in 1..Len(written) /\ j <= p.high
  BY LenProperties DEF taken, Pass, InRange, TypeOK
<1>2. \A j \in taken(p) : /\ written[j].number \in 1..MaxRecords /\ written[j].number <= p.high
                          /\ written[j].timestamp \in 1..MaxTime
  <2>1. ASSUME NEW j \in taken(p) PROVE written[j].number <= p.high
    <3>1. written[j].number <= j /\ written[j].number \in Nat /\ j \in Nat
      BY <1>1, RecordType DEF LogInv
    <3> QED
      BY <1>1, <3>1 DEF Pass
  <2> QED
    BY <1>1, <2>1, RecordType
<1>3. max_id(p) \in Nat /\ max_id(p) \in {p.last_id} \cup {written[i].number : i \in taken(p)}
  BY CursorType
<1> DEFINE times == {p.last_ts} \cup {written[j].timestamp : j \in taken(p)}
<1>4. times \subseteq 0..MaxTime /\ times # {}
  BY <1>2 DEF Pass
<1>5. max_ts(p) = Largest(times)
  BY DEF max_ts
<1>6. Largest(times) \in times
  <2> HIDE DEF times
  <2> QED
    BY <1>4, LargestExists
<1> QED
  BY <1>2, <1>3, <1>5, <1>6

\* What is left below or taken by a pass that commits is covered.
LEMMA SweptCovered ==
  ASSUME TypeOK, NEW p \in Pass, InRange(p), Committing(p),
         SweptInv(p, cursor_id, cursor_ts, covered),
         NEW i \in first..Len(written), ~processed(p, i), i <= p.high
  PROVE  i \in covered
<1>1. first \in Nat /\ p.low \in Nat /\ p.high \in Nat /\ i \in Nat
  BY DEF TypeOK, Pass
<1>2. i \in first..(p.low - 1) \/ i \in taken(p)
  BY <1>1 DEF taken
<1> QED
  BY <1>2 DEF SweptInv

\* The first half of the cursor: what it passes is explained.
LEMMA SetIdExplained ==
  ASSUME TypeOK, NEW p \in Pass, InRange(p), p.step = "set_id", LossInv,
         LoadedInv(p, cursor_id, cursor_ts), SweptInv(p, cursor_id, cursor_ts, covered),
         NEW i \in first..Len(written),
         written[i].number <= max_id(p), written[i].timestamp <= cursor_ts
  PROVE  Explained(i, covered)
<1>1. Committing(p) /\ p.last_id = cursor_id /\ p.last_ts = cursor_ts
  BY DEF Committing, LoadedInv
<1>2. Attained(p.high, cursor_id, cursor_ts, covered) /\ LogInv /\ p.high \in Nat
  BY <1>1 DEF SweptInv, LossInv, Pass
<1>3. max_id(p) \in Nat /\ max_id(p) <= p.high
  BY <1>1, <1>2, SavedBelow DEF Attained
<1>4. /\ i \in 1..Len(written) /\ i \in Nat /\ cursor_ts \in Nat /\ cursor_id \in Nat
      /\ written[i].number \in Nat /\ written[i].timestamp \in Nat /\ written[i].timestamp >= 1
  <2>1. Len(written) \in Nat
    BY LenProperties DEF TypeOK
  <2>2. i \in 1..Len(written)
    BY <2>1 DEF TypeOK
  <2>3. /\ written[i].number \in 1..MaxRecords /\ written[i].timestamp \in 1..MaxTime
        /\ cursor_id \in 0..MaxRecords /\ cursor_ts \in 0..MaxTime
    BY <2>2, RecordType DEF TypeOK
  <2> QED
    BY <2>2, <2>3
<1>5. CASE processed(p, i)
  <2>1. Behind(i)
    BY <1>1, <1>5 DEF processed, Behind
  <2> QED
    BY <2>1 DEF LossInv
<1>6. CASE ~processed(p, i) /\ i <= p.high
  BY <1>1, <1>6, SweptCovered DEF Explained
<1>7. CASE i > p.high
  <2>1. faults.clear > 0
    BY <1>2, <1>3, <1>7, LaterEpoch
  <2>2. cursor_ts # 0
    BY <1>4
  <2>3. \E k \in covered : k <= p.high /\ written[k].timestamp = cursor_ts
    BY <1>2, <2>2 DEF Attained
  <2>4. \E j \in covered : j < i /\ written[j].timestamp = written[i].timestamp
    BY <1>2, <1>4, <1>7, <2>3, SameSecond
  <2> QED
    BY <2>1, <2>4 DEF Explained
<1> QED
  BY <1>2, <1>4, <1>5, <1>6, <1>7

\* The second half.
LEMMA SetTsExplained ==
  ASSUME TypeOK, NEW p \in Pass, InRange(p), p.step = "set_ts", LossInv,
         LoadedInv(p, cursor_id, cursor_ts), SweptInv(p, cursor_id, cursor_ts, covered),
         NEW i \in first..Len(written),
         written[i].number <= cursor_id, written[i].timestamp <= max_ts(p)
  PROVE  Explained(i, covered)
<1>1. Committing(p) /\ p.last_ts = cursor_ts /\ cursor_id = max_id(p)
  BY DEF Committing, LoadedInv
<1>2. Attained(p.high, cursor_id, cursor_ts, covered) /\ LogInv /\ p.high \in Nat
  BY <1>1 DEF SweptInv, LossInv, Pass
<1>3. p.last_id <= p.high
  <2>1. /\ cursor_id <= p.high /\ cursor_id >= p.last_id /\ cursor_id \in 0..MaxRecords
        /\ p.last_id \in Nat
    BY <1>1, <1>2, CursorType DEF Attained, Pass
  <2> QED
    BY <1>2, <2>1
<1>4. /\ i \in 1..Len(written) /\ i \in Nat /\ cursor_ts \in Nat /\ cursor_id \in Nat
      /\ written[i].number \in Nat /\ written[i].timestamp \in Nat /\ max_ts(p) \in Nat
  <2>1. Len(written) \in Nat
    BY LenProperties DEF TypeOK
  <2>2. i \in 1..Len(written)
    BY <2>1 DEF TypeOK
  <2>3. /\ written[i].number \in 1..MaxRecords /\ written[i].timestamp \in 1..MaxTime
        /\ cursor_id \in 0..MaxRecords /\ cursor_ts \in 0..MaxTime
    BY <2>2, RecordType DEF TypeOK
  <2>4. max_ts(p) \in 0..MaxTime
    BY CursorType
  <2> QED
    BY <2>2, <2>3, <2>4
<1>5. CASE written[i].timestamp <= cursor_ts
  <2>1. Behind(i)
    BY <1>5 DEF Behind
  <2> QED
    BY <2>1 DEF LossInv
<1>6. CASE ~(written[i].timestamp <= cursor_ts)
  <2>1. ~processed(p, i)
    BY <1>1, <1>6 DEF processed
  <2>2. CASE i <= p.high
    BY <1>1, <2>1, <2>2, SweptCovered DEF Explained
  <2>3. CASE i > p.high
    <3>1. faults.clear > 0
      BY <1>2, <1>4, <2>3, LaterEpoch DEF Attained
    <3>2. PICK j \in taken(p) : written[j].timestamp = max_ts(p)
      BY <1>1, <1>2, <1>3, <1>6, SavedBelow
    <3>3. j \in covered /\ j <= p.high
      BY <1>1 DEF SweptInv, taken
    <3>4. \E k \in covered : k < i /\ written[k].timestamp = written[i].timestamp
      BY <1>2, <1>4, <2>3, <3>2, <3>3, SameSecond
    <3> QED
      BY <3>1, <3>4 DEF Explained
  <2> QED
    BY <1>2, <1>4, <2>2, <2>3
<1> QED
  BY <1>5, <1>6

\* What is attained stays so while the covered records grow.
LEMMA AttainedGrows ==
  ASSUME NEW C, NEW D, C \subseteq D, NEW n, NEW id, NEW ts, Attained(n, id, ts, C)
  PROVE  Attained(n, id, ts, D)
BY DEF Attained

\* A pass that ends its read has swept the log down to what was processed.
LEMMA ReadDoneSwept ==
  ASSUME NEW r \in Pass, NEW id, NEW ts, NEW C, Attained(r.high, id, ts, C),
         taken(r) # {} => \A i \in first..(r.low - 1) : processed(r, i) \/ i \in C
  PROVE  SweptInv(ReadDone(r), id, ts, C)
<1>1. PICK q : q = ReadDone(r)
  OBVIOUS
<1>2. CASE q = Idle
  BY <1>1, <1>2 DEF SweptInv, Idle, Committing
<1>3. CASE /\ q.step = "insert" /\ taken(r) # {} /\ q.last_id = r.last_id
           /\ q.last_ts = r.last_ts /\ q.low = r.low /\ q.high = r.high
  <2>1. \A i : processed(q, i) <=> processed(r, i)
    BY <1>3 DEF processed
  <2>2. ~Committing(q)
    BY <1>3 DEF Committing
  <2> QED
    BY <1>1, <1>3, <2>1, <2>2 DEF SweptInv
<1> QED
  BY <1>1, <1>2, <1>3, ReadDoneSteps

\* Each step of a pass leaves it swept.
LEMMA SweptStep ==
  ASSUME Single, TypeOK, CursorInv, LossInv, NEW c \in Collectors,
         Collect(c) \/ ReadError(c) \/ Abort(c)
  PROVE  \A d \in Collectors : SweptInv(pass'[d], cursor_id', cursor_ts', covered')
<1>1. PICK p \in Pass : /\ p = pass[c] /\ InRange(p)
                        /\ LoadedInv(p, cursor_id, cursor_ts)
                        /\ SweptInv(p, cursor_id, cursor_ts, covered)
  BY DEF TypeOK, CursorInv, LossInv
<1>2. ASSUME NEW q, pass' = [pass EXCEPT ![c] = q],
             SweptInv(q, cursor_id', cursor_ts', covered')
      PROVE  \A d \in Collectors : SweptInv(pass'[d], cursor_id', cursor_ts', covered')
  BY <1>2, SoloPass
<1>3. SweptInv(Idle, cursor_id', cursor_ts', covered')
  BY DEF SweptInv, Idle, Committing
<1>4. covered \subseteq covered'
  BY CoveredGrows
<1>5. CASE LoadId(c) \/ LoadTs(c)
  <2>1. PICK q : pass' = [pass EXCEPT ![c] = q] /\ q.step \in {"load", "open"}
    <3>1. /\ [p EXCEPT !.step = "load", !.last_id = cursor_id].step = "load"
          /\ [p EXCEPT !.step = "open", !.last_ts = cursor_ts].step = "open"
      BY DEF Pass
    <3> QED
      BY <1>1, <1>5, <3>1 DEF LoadId, LoadTs
  <2>2. SweptInv(q, cursor_id', cursor_ts', covered')
    BY <2>1 DEF SweptInv, Committing
  <2> QED
    BY <1>2, <2>1, <2>2
<1>6. CASE OpenLog(c)
  <2>1. PICK q : q = [p EXCEPT !.step = "read", !.low = Len(written) + 1, !.high = Len(written)]
    OBVIOUS
  <2>2. q.step = "read" /\ q.high = Len(written)
    BY <2>1 DEF Pass
  <2>3. UNCHANGED <<cursor_id, cursor_ts>> /\ pass' = [pass EXCEPT ![c] = q]
    BY <1>1, <1>6, <2>1 DEF OpenLog, database
  <2>4. Attained(q.high, cursor_id', cursor_ts', covered')
    BY <1>4, <2>2, <2>3, AttainedGrows DEF LossInv
  <2>5. SweptInv(q, cursor_id', cursor_ts', covered')
    BY <2>2, <2>4 DEF SweptInv, Committing
  <2> QED
    BY <1>2, <2>3, <2>5
<1>7. ASSUME p.step \in {"read", "insert"}, UNCHANGED <<cursor_id, cursor_ts>>
      PROVE  Attained(p.high, cursor_id', cursor_ts', covered')
  BY <1>1, <1>4, <1>7, AttainedGrows DEF SweptInv
<1>8. CASE ReadBatch(c)
  <2>1. p.step = "read" /\ UNCHANGED <<cursor_id, cursor_ts>>
    BY <1>1, <1>8 DEF ReadBatch, database
  <2>2. /\ first \in Nat /\ first >= 1 /\ p.low \in Nat /\ p.high \in Nat
        /\ p.low <= MaxRecords + 1 /\ Len(written) \in Nat /\ p.low <= Len(written) + 1
    <3>1. Len(written) \in Nat
      BY LenProperties DEF TypeOK
    <3>2. first \in Nat /\ first >= 1
      BY <3>1 DEF TypeOK
    <3>3. p.low \in Nat /\ p.high \in Nat /\ p.low <= MaxRecords + 1
      BY DEF Pass
    <3> QED
      BY <1>1, <3>1, <3>2, <3>3 DEF InRange
  <2>3. ASSUME NEW bottom \in first..(p.low - 1),
               pass' = [pass EXCEPT ![c] = [p EXCEPT !.low = bottom]]
        PROVE  \A d \in Collectors : SweptInv(pass'[d], cursor_id', cursor_ts', covered')
    <3>1. PICK q : q = [p EXCEPT !.low = bottom]
      OBVIOUS
    <3>2. q.step = "read" /\ q.high = p.high
      BY <2>1, <3>1 DEF Pass
    <3>3. SweptInv(q, cursor_id', cursor_ts', covered')
      BY <1>7, <2>1, <3>2 DEF SweptInv, Committing
    <3> QED
      BY <1>2, <2>3, <3>1, <3>3
  <2>4. ASSUME NEW stop \in first..(p.low - 1), processed(p, stop),
               pass' = [pass EXCEPT ![c] = ReadDone([p EXCEPT !.low = stop + 1])]
        PROVE  \A d \in Collectors : SweptInv(pass'[d], cursor_id', cursor_ts', covered')
    <3>1. PICK r \in Pass : r = [p EXCEPT !.low = stop + 1]
      <4>1. stop + 1 \in 1..(MaxRecords + 1)
        BY <2>2
      <4> QED
        BY <4>1, LowType
    <3>2. /\ r.high = p.high /\ r.last_id = p.last_id /\ r.last_ts = p.last_ts
          /\ r.low = stop + 1
      BY <3>1 DEF Pass
    <3>3. ASSUME NEW i \in first..stop PROVE processed(r, i)
      <4>1. /\ i \in first..Len(written) /\ stop \in first..Len(written) /\ i <= stop
            /\ i \in 1..Len(written) /\ stop \in 1..Len(written) /\ i \in Nat /\ stop \in Nat
        BY <2>2
      <4>2. written[i].number <= written[stop].number
        BY <2>2, <4>1 DEF LossInv, LogInv
      <4>3. written[i].timestamp <= written[stop].timestamp
        BY <4>1 DEF LossInv, LogInv
      <4>4. /\ written[i].number \in 1..MaxRecords /\ written[stop].number \in 1..MaxRecords
            /\ written[i].timestamp \in 1..MaxTime /\ written[stop].timestamp \in 1..MaxTime
        BY <4>1, RecordType
      <4>5. p.last_id \in Nat /\ p.last_ts \in Nat
        BY DEF Pass
      <4> QED
        BY <2>4, <3>2, <4>2, <4>3, <4>4, <4>5 DEF processed
    <3>4. r.low - 1 = stop
      BY <2>2, <3>2
    <3>5. SweptInv(ReadDone(r), cursor_id', cursor_ts', covered')
      BY <1>7, <2>1, <3>2, <3>3, <3>4, ReadDoneSwept
    <3> QED
      BY <1>2, <2>4, <3>1, <3>5
  <2>5. \A b \in first..(p.low - 1) : b..(p.low - 1) \subseteq first..(p.low - 1)
    BY <2>2
  <2> QED
    BY <1>1, <1>8, <2>3, <2>4, <2>5 DEF ReadBatch
<1>9. CASE EndOfLog(c) \/ CapReached(c) \/ ReadError(c)
  <2>1. /\ p.step = "read" /\ UNCHANGED <<cursor_id, cursor_ts>>
        /\ pass' = [pass EXCEPT ![c] = ReadDone(p)]
        /\ p.low <= first \/ unread(p) \subseteq skipped'
    BY <1>1, <1>9 DEF EndOfLog, CapReached, ReadError, database
  <2>2. ASSUME taken(p) # {}, NEW i \in first..(p.low - 1)
        PROVE  processed(p, i) \/ i \in covered'
    <3>1. first \in Int /\ p.low \in Int
      BY DEF TypeOK, Pass
    <3>2. i \in unread(p) \/ processed(p, i)
      BY <2>2 DEF unread
    <3> QED
      BY <2>1, <2>2, <3>1, <3>2 DEF covered
  <2>3. SweptInv(ReadDone(p), cursor_id', cursor_ts', covered')
    BY <1>7, <2>1, <2>2, ReadDoneSwept
  <2> QED
    BY <1>2, <2>1, <2>3
<1>10. CASE Insert(c)
  <2>1. PICK q : q = [p EXCEPT !.step = "set_id"]
    OBVIOUS
  <2>2. /\ q.step = "set_id" /\ q.high = p.high /\ q.low = p.low /\ q.last_id = p.last_id
        /\ q.last_ts = p.last_ts
    BY <2>1 DEF Pass
  <2>3. p.step = "insert" /\ UNCHANGED <<cursor_id, cursor_ts>> /\ pass' = [pass EXCEPT ![c] = q]
    BY <1>1, <1>10, <2>1 DEF Insert
  <2>4. taken(q) = taken(p) /\ \A i : processed(q, i) <=> processed(p, i)
    BY <2>2 DEF taken, processed
  <2>5. taken(p) \subseteq covered'
    <3>1. PICK rows \in SUBSET taken(p) :
            /\ copies' = [i \in DOMAIN copies |-> IF i \in rows THEN copies[i] + 1 ELSE copies[i]]
            /\ skipped' = skipped \cup (taken(p) \ rows)
            /\ UNCHANGED written
      BY <1>1, <1>10 DEF Insert, log
    <3>2. ASSUME NEW i \in rows PROVE i \in Stored'
      <4>1. Len(written) \in Nat /\ Len(written) <= MaxRecords
        BY LenProperties DEF TypeOK
      <4>2. i \in taken(p) /\ i \in 1..Len(written) /\ i \in 1..MaxRecords
        BY <1>1, <4>1 DEF taken, Pass, InRange
      <4>3. copies'[i] = copies[i] + 1 /\ copies[i] \in Nat
        BY <3>1, <4>2 DEF TypeOK
      <4> QED
        BY <3>1, <4>2, <4>3 DEF Stored
    <3> QED
      BY <3>1, <3>2 DEF covered
  <2>6. \A i \in first..(q.low - 1) : processed(q, i) \/ i \in covered'
    BY <1>1, <1>4, <2>2, <2>3, <2>4 DEF SweptInv
  <2>7. SweptInv(q, cursor_id', cursor_ts', covered')
    BY <1>7, <2>2, <2>3, <2>4, <2>5, <2>6 DEF SweptInv
  <2> QED
    BY <1>2, <2>3, <2>7
<1>11. CASE SetId(c)
  <2>1. PICK q : q = [p EXCEPT !.step = "set_ts"]
    OBVIOUS
  <2>2. /\ q.step = "set_ts" /\ q.high = p.high /\ q.low = p.low /\ q.last_id = p.last_id
        /\ q.last_ts = p.last_ts
    BY <2>1 DEF Pass
  <2>3. /\ p.step = "set_id" /\ cursor_id' = max_id(p) /\ UNCHANGED cursor_ts
        /\ pass' = [pass EXCEPT ![c] = q] /\ p.last_id = cursor_id
    BY <1>1, <1>11, <2>1 DEF SetId, LoadedInv
  <2>4. taken(q) = taken(p) /\ \A i : processed(q, i) <=> processed(p, i)
    BY <2>2 DEF taken, processed
  <2>5. Attained(p.high, cursor_id, cursor_ts, covered)
    BY <1>1, <2>3 DEF SweptInv, Committing
  <2>6. max_id(p) <= p.high
    BY <1>1, <2>3, <2>5, SavedBelow DEF Attained, LossInv
  <2>7. Attained(q.high, cursor_id', cursor_ts', covered')
    BY <1>4, <2>2, <2>3, <2>5, <2>6 DEF Attained
  <2>8. SweptInv(q, cursor_id', cursor_ts', covered')
    BY <1>1, <1>4, <2>2, <2>3, <2>4, <2>7 DEF SweptInv, Committing
  <2> QED
    BY <1>2, <2>3, <2>8
<1>12. CASE SetTs(c) \/ Abort(c)
  BY <1>2, <1>3, <1>12 DEF SetTs, Abort
<1> QED
  BY <1>5, <1>6, <1>8, <1>9, <1>10, <1>11, <1>12 DEF Collect

\* A record that is written behind the cursor repeats the second of an older one.
LEMMA WriteLoss ==
  ASSUME MaxSetback = 0, TypeOK, LossInv, Write
  PROVE  LossInv'
<1>1. /\ Len(written) \in Nat /\ Len(written') = Len(written) + 1
      /\ \A i \in 1..Len(written) : written'[i] = written[i]
      /\ written'[Len(written')].number = Len(written) + 2 - first
  BY WriteType
<1>2. UNCHANGED <<first, copies, cursor_id, cursor_ts, pass, faults, skipped>>
  BY DEF Write, database
<1>3. LogInv'
  <2>1. [Next]_vars
    BY DEF Next
  <2> QED
    BY <2>1, LogNext DEF LossInv
<1>4. covered \subseteq covered' /\ covered \subseteq 1..Len(written)
  BY <1>1, <1>2, CoveredType DEF covered, Stored
<1>5. ASSUME NEW n, NEW id, NEW ts, Attained(n, id, ts, covered)
      PROVE  id <= n /\ (ts = 0 \/ \E k \in covered' : k <= n /\ written'[k].timestamp = ts)
  BY <1>1, <1>4, <1>5 DEF Attained
<1>6. first \in Nat /\ first >= 1 /\ cursor_id \in Nat /\ cursor_ts \in Nat
  BY <1>1 DEF TypeOK
<1>7. Attained(Len(written), cursor_id, cursor_ts, covered)'
  <2>1. \A k \in covered : k \in Nat /\ k <= Len(written)
    BY <1>1, <1>4
  <2>2. cursor_ts = 0 \/ \E k \in covered : k <= Len(written') /\ written'[k].timestamp = cursor_ts
    BY <1>1, <1>4, <2>1 DEF LossInv, Attained
  <2>3. cursor_id <= Len(written')
    BY <1>1, <1>6 DEF LossInv, Attained
  <2> QED
    BY <1>2, <1>4, <2>2, <2>3 DEF Attained
<1>8. ASSUME NEW c \in Collectors PROVE SweptInv(pass[c], cursor_id, cursor_ts, covered)'
  <2>1. PICK p \in Pass : p = pass[c] /\ InRange(p) /\ SweptInv(p, cursor_id, cursor_ts, covered)
    BY DEF TypeOK, LossInv
  <2>2. \A i \in first..(p.low - 1) : written'[i] = written[i]
    <3>1. p.low \in Nat /\ p.high \in Nat /\ p.low <= Len(written) + 1
      BY <1>1, <2>1 DEF InRange, Pass
    <3> QED
      BY <1>1, <1>6, <3>1
  <2>3. p.step \in {"read", "insert"} \/ Committing(p) =>
          Attained(p.high, cursor_id, cursor_ts, covered)'
    BY <1>2, <1>5, <2>1 DEF SweptInv, Attained
  <2>4. p.step = "insert" \/ Committing(p) =>
          \A i \in first..(p.low - 1) : processed(p, i)' \/ i \in covered'
    BY <1>4, <2>1, <2>2 DEF SweptInv, processed
  <2>5. Committing(p) => taken(p) \subseteq covered'
    BY <1>4, <2>1 DEF SweptInv
  <2> QED
    BY <1>2, <2>1, <2>3, <2>4, <2>5 DEF SweptInv, Attained, Committing, taken, processed
<1>9. ASSUME NEW i \in first..Len(written), Behind(i)' PROVE Explained(i, covered)'
  <2>1. i \in 1..Len(written)
    BY <1>1, <1>6
  <2>2. Behind(i)
    BY <1>1, <1>2, <1>9, <2>1 DEF Behind
  <2>3. Explained(i, covered)
    BY <2>2 DEF LossInv
  <2> QED
    BY <1>1, <1>2, <1>4, <2>1, <2>3 DEF Explained
<1>10. ASSUME NEW i, i = Len(written'), Behind(i)' PROVE Explained(i, covered)'
  <2>1. /\ i \in 1..Len(written') /\ i = Len(written) + 1
        /\ written'[i].number = Len(written) + 2 - first
        /\ written'[i].number <= cursor_id /\ written'[i].timestamp <= cursor_ts
    BY <1>1, <1>2, <1>10 DEF Behind
  <2>2. Attained(Len(written), cursor_id, cursor_ts, covered)
    BY DEF LossInv
  <2>3. first # 1
    BY <1>1, <1>6, <2>1, <2>2 DEF Attained
  <2>4. faults'.clear > 0
    BY <1>2, <1>3, <2>3, ClearCount DEF LogInv
  <2>5. written'[i].timestamp \in 1..MaxTime
    <3>1. TypeOK'
      BY NextType DEF Next
    <3>2. written' \in Seq([number: 1..MaxRecords, timestamp: 1..MaxTime])
      BY <3>1 DEF TypeOK
    <3>3. written'[i] \in [number: 1..MaxRecords, timestamp: 1..MaxTime]
      BY <2>1, <3>2, ElementOfSeq
    <3> QED
      BY <3>3
  <2>6. PICK k \in covered : k <= Len(written) /\ written[k].timestamp = cursor_ts
    BY <1>6, <2>1, <2>2, <2>5 DEF Attained
  <2>7. k \in 1..Len(written') /\ k < i /\ written'[k].timestamp = cursor_ts /\ k <= i
    BY <1>1, <1>4, <2>1, <2>6
  <2>8. written'[k].timestamp <= written'[i].timestamp
    BY <1>3, <2>1, <2>7 DEF LogInv
  <2>9. written'[k].timestamp = written'[i].timestamp
    BY <1>6, <2>1, <2>5, <2>7, <2>8
  <2> QED
    BY <1>4, <2>4, <2>6, <2>7, <2>9 DEF Explained
<1>11. \A i \in first'..Len(written') : i \in first..Len(written) \/ i = Len(written')
  BY <1>1, <1>2, <1>6
<1> QED
  BY <1>3, <1>7, <1>8, <1>9, <1>10, <1>11 DEF LossInv

LEMMA LossNext ==
  ASSUME Single, MaxSetback = 0, TypeOK, CursorInv, LossInv, [Next]_vars
  PROVE  LossInv'
<1>0. LogInv'
  BY LogNext DEF LossInv
<1>1. CASE Write
  BY <1>1, WriteLoss
<1>2. CASE Clear \/ UNCHANGED vars
  <2>1. /\ UNCHANGED <<written, copies, cursor_id, cursor_ts, pass, skipped>>
        /\ faults'.clear >= faults.clear /\ faults.clear \in Nat /\ faults'.clear \in Nat
    BY <1>2, ClearCount DEF Clear, vars, log, database
  <2>2. Len(written) \in Nat /\ first \in Nat /\ first' \in Nat /\ first' >= first
    <3>1. Len(written) \in Nat
      BY LenProperties DEF TypeOK
    <3>2. first \in Nat /\ first <= Len(written) + 1
      BY <3>1 DEF TypeOK
    <3> QED
      BY <1>2, <3>1, <3>2 DEF Clear, vars, log
  <2>3. covered' = covered
    BY <2>1 DEF covered, Stored
  <2>4. Attained(Len(written), cursor_id, cursor_ts, covered)'
    BY <2>1, <2>3 DEF LossInv, Attained
  <2>5. ASSUME NEW c \in Collectors PROVE SweptInv(pass[c], cursor_id, cursor_ts, covered)'
    <3>1. PICK p \in Pass : p = pass[c] /\ SweptInv(p, cursor_id, cursor_ts, covered)
      BY DEF TypeOK, LossInv
    <3>2. \A i \in first'..(p.low - 1) : i \in first..(p.low - 1)
      BY <2>2 DEF Pass
    <3> QED
      BY <2>1, <2>3, <3>1, <3>2 DEF SweptInv, Attained, Committing, taken, processed
  <2>6. ASSUME NEW i \in first'..Len(written'), Behind(i)' PROVE Explained(i, covered)'
    <3>1. i \in first..Len(written) /\ Behind(i)
      BY <2>1, <2>2, <2>6 DEF Behind
    <3>2. Explained(i, covered)
      BY <3>1 DEF LossInv
    <3> QED
      BY <2>1, <2>3, <3>2 DEF Explained
  <2> QED
    BY <1>0, <2>4, <2>5, <2>6 DEF LossInv
<1>3. ASSUME NEW c \in Collectors, Collect(c) \/ ReadError(c) \/ Abort(c) PROVE LossInv'
  <2>1. PICK p \in Pass : /\ p = pass[c] /\ InRange(p)
                          /\ LoadedInv(p, cursor_id, cursor_ts)
                          /\ SweptInv(p, cursor_id, cursor_ts, covered)
    BY DEF TypeOK, CursorInv, LossInv
  <2>2. UNCHANGED <<written, first>> /\ covered \subseteq covered' /\ faults'.clear = faults.clear
    BY <1>3, StepKeeps, CoveredGrows, ClearStays DEF log
  <2>3. \A d \in Collectors : SweptInv(pass[d], cursor_id, cursor_ts, covered)'
    <3>1. \A d \in Collectors : SweptInv(pass'[d], cursor_id', cursor_ts', covered')
      BY <1>3, SweptStep
    <3> QED
      BY <2>2, <3>1 DEF SweptInv, Attained, Committing, taken, processed
  <2>4. Attained(Len(written), cursor_id', cursor_ts', covered')
        /\ \A i \in first..Len(written) :
             written[i].number <= cursor_id' /\ written[i].timestamp <= cursor_ts'
               => Explained(i, covered)
    <3>1. /\ Attained(Len(written), cursor_id, cursor_ts, covered)
          /\ \A i \in first..Len(written) :
               written[i].number <= cursor_id /\ written[i].timestamp <= cursor_ts
                 => Explained(i, covered)
      BY DEF LossInv, Behind
    <3>2. CASE UNCHANGED <<cursor_id, cursor_ts>>
      BY <2>2, <3>1, <3>2, AttainedGrows
    <3>3. p.high \in Nat /\ Len(written) \in Nat /\ p.high <= Len(written)
      BY <2>1, LenProperties DEF TypeOK, InRange, Pass
    <3>4. CASE SetId(c)
      <4>1. /\ p.step = "set_id" /\ p.last_id = cursor_id /\ cursor_id' = max_id(p)
            /\ UNCHANGED cursor_ts
        BY <2>1, <3>4 DEF SetId, LoadedInv
      <4>2. Attained(p.high, cursor_id, cursor_ts, covered)
        BY <2>1, <4>1 DEF SweptInv, Committing
      <4>3. max_id(p) \in Nat /\ max_id(p) <= p.high
        BY <2>1, <4>1, <4>2, SavedBelow DEF LossInv, Attained
      <4>4. cursor_id' <= Len(written)
        BY <3>3, <4>1, <4>3
      <4>5. Attained(Len(written), cursor_id', cursor_ts', covered')
        BY <2>2, <3>1, <4>1, <4>4 DEF Attained
      <4>6. \A i \in first..Len(written) :
              written[i].number <= cursor_id' /\ written[i].timestamp <= cursor_ts'
                => Explained(i, covered)
        BY <2>1, <4>1, SetIdExplained
      <4> QED
        BY <4>5, <4>6
    <3>5. CASE SetTs(c)
      <4>1. /\ p.step = "set_ts" /\ p.last_ts = cursor_ts /\ cursor_id = max_id(p)
            /\ cursor_ts' = max_ts(p) /\ UNCHANGED cursor_id
        BY <2>1, <3>5 DEF SetTs, LoadedInv
      <4>2. Attained(p.high, cursor_id, cursor_ts, covered) /\ taken(p) \subseteq covered
        BY <2>1, <4>1 DEF SweptInv, Committing
      <4>3. p.last_id <= p.high
        <5>1. /\ cursor_id <= p.high /\ cursor_id >= p.last_id /\ cursor_id \in 0..MaxRecords
              /\ p.last_id \in Nat
          BY <2>1, <4>1, <4>2, CursorType DEF Attained, Pass
        <5> QED
          BY <3>3, <5>1
      <4>4. max_ts(p) = cursor_ts \/ \E j \in taken(p) : written[j].timestamp = max_ts(p)
        BY <2>1, <4>1, <4>3, SavedBelow DEF LossInv
      <4>5. \A j \in covered : j <= Len(written)
        BY <3>3, CoveredType
      <4>6. Attained(Len(written), cursor_id', cursor_ts', covered')
        BY <2>2, <3>1, <4>1, <4>2, <4>4, <4>5 DEF Attained
      <4>7. \A i \in first..Len(written) :
              written[i].number <= cursor_id' /\ written[i].timestamp <= cursor_ts'
                => Explained(i, covered)
        BY <2>1, <4>1, SetTsExplained
      <4> QED
        BY <4>6, <4>7
    <3> QED
      BY <1>3, <3>2, <3>4, <3>5, StepKeeps DEF SetId, SetTs
  <2>5. ASSUME NEW i \in first'..Len(written'), Behind(i)' PROVE Explained(i, covered)'
    <3>1. Explained(i, covered)
      BY <2>2, <2>4, <2>5 DEF Behind
    <3> QED
      BY <2>2, <3>1 DEF Explained
  <2>6. Attained(Len(written), cursor_id, cursor_ts, covered)'
    BY <2>2, <2>4 DEF Attained
  <2> QED
    BY <1>0, <2>3, <2>5, <2>6 DEF LossInv
<1> QED
  BY <1>1, <1>2, <1>3 DEF Next

LEMMA LossInit == Init => LossInv
<1> SUFFICES ASSUME Init PROVE LossInv
  OBVIOUS
<1>1. Len(written) = 0 /\ first = 1 /\ cursor_id = 0 /\ cursor_ts = 0
  BY DEF Init
<1>2. \A c \in Collectors : SweptInv(pass[c], cursor_id, cursor_ts, covered)
  BY DEF Init, Idle, SweptInv, Committing
<1> QED
  BY <1>1, <1>2 DEF LossInv, LogInv, Attained

\* With one thread collecting and timestamps that do not go back, a record is
\* lost only to a failed or capped pass, or to a clear in the same second.
THEOREM LossExplained ==
  ASSUME Single, MaxSetback = 0
  PROVE  Spec => []LossIsExplained
<1>1. Init => TypeOK /\ CursorInv /\ LossInv
  BY InitType, CursorInit, LossInit
<1>2. TypeOK /\ CursorInv /\ LossInv /\ [Next]_vars => TypeOK' /\ CursorInv' /\ LossInv'
  BY NextType, CursorNext, LossNext
<1>3. LossInv => LossIsExplained
  BY DEF LossInv, LossIsExplained, Explained, covered
<1> QED
  BY <1>1, <1>2, <1>3, PTL DEF Spec
===============================================================================
